-------------------------- MODULE ProducerRegistry --------------------------
(***************************************************************************)
(* producer_registry.py: the pinned producer registry that decides who may *)
(* submit authenticated evidence.                                          *)
(*                                                                         *)
(* A registry document is a function from the producer ids it lists to     *)
(* entries; its sha256 identity is abstracted to the document itself       *)
(* (hashes do not collide), so "the file has the pinned hash" is equality  *)
(* of documents.  Times are integer instants, None stands for an absent    *)
(* valid_from or valid_until.  A subject name is the sequence of its       *)
(* ':'-separated segments; a namespace is such a sequence with the kind of *)
(* wildcard its last characters make.                                      *)
(***************************************************************************)
EXTENDS Integers, Sequences

CONSTANT None   \* Python's None: an absent optional field

LifecycleStates == {"reserved", "active", "suspended", "retired", "revoked"}

SubmissionEligibleStates == {"active"}

(* "agent:acme" is Exact, "agent:acme*" is Tree (the name itself or any    *)
(* name below it), "agent:acme:*" is Below (any name under the prefix).    *)
NamespaceKinds == {"Exact", "Tree", "Below"}

HasPrefix(s, prefix) ==
    /\ Len(prefix) =< Len(s)
    /\ \A i \in 1 .. Len(prefix) : s[i] = prefix[i]

SubjectInNamespace(subject, namespaces) ==
    \E ns \in namespaces :
        \/ ns.kind = "Exact" /\ subject = ns.name
        \/ ns.kind = "Tree"  /\ HasPrefix(subject, ns.name)
        \/ ns.kind = "Below" /\ HasPrefix(subject, ns.name)
                             /\ Len(subject) > Len(ns.name)

(* An entry is usable at an instant of its half-open validity interval.    *)
InValidity(entry, now) ==
    /\ entry.valid_from  # None => now >= entry.valid_from
    /\ entry.valid_until # None => now <  entry.valid_until

(* resolve_and_authorize_producer raises nothing: deny by default.         *)
Authorized(registry, env, now) ==
    /\ env.producer \in DOMAIN registry
    /\ LET entry == registry[env.producer] IN
        /\ entry.status \in SubmissionEligibleStates
        /\ InValidity(entry, now)
        /\ env.route \in entry.allowed_routes
        /\ env.submission_type \in entry.allowed_submission_types
        /\ SubjectInNamespace(env.subject, entry.allowed_subject_namespaces)

(* Mutant: the file is loaded without comparing its hash with the pin.     *)
RegistryLoadsUnpinned(file, pin) == pin # None

(* load_pinned_registry and _load_registry: no pin configured, or a file   *)
(* that is not the pinned document, answers 503 and nothing is accepted.   *)
RegistryLoads(file, pin) == pin # None /\ file = pin
=============================================================================
