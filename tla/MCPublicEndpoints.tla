-------------------------- MODULE MCPublicEndpoints --------------------------
EXTENDS PublicEndpoints, TLC

CONSTANTS t1, t2, c1, p1, p2

MCThreads == {t1, t2}
MCClients == {c1}
MCPayments == {p1, p2}

(* p1 names the configured payer, p2 another one.                          *)
MCClaimedPayer == p1 :> ConfiguredPayer @@ p2 :> OtherPayer

Request(source, payment_mode, mode, controller, payment) ==
    [source |-> source, payment_mode |-> payment_mode, mode |-> mode,
     controller |-> controller, payment |-> payment]

MCRequests ==
    {Request("text", Live, "record", FALSE, p1),
     Request("url", None, "record", FALSE, p2),
     Request("text", Live, "gate", FALSE, p1),
     Request("text", Live, "gate", TRUE, p1),
     Request("text", None, "other", FALSE, None),
     Request("text", "other", "record", FALSE, p1),
     Request(None, Demo, "record", FALSE, None)}
=============================================================================
