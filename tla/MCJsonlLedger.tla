----------------------------- MODULE MCJsonlLedger -----------------------------
EXTENDS JsonlLedger

CONSTANTS w1, w2, short, long, split

MCWriters == {w1, w2}
MCRecords == {short, long, split}
MCSplitting == {split}
MCLong == {long}
=============================================================================
