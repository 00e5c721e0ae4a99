---------------------------- MODULE MCMessageStore ----------------------------
(* Instances of MessageStore for TLC. *)
EXTENDS MessageStore, TLC

CONSTANTS a, b, p0, p1

\* One short payload and one long.
TwoLengths == (a :> 1) @@ (b :> 6)

\* Every run of the client has a process identifier of its own; or there is only one.
FreshPids == (0 :> p0) @@ (1 :> p1)
OneRun == (0 :> p0)
=============================================================================
