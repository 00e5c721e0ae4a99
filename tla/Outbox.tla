-------------------------------- MODULE Outbox --------------------------------
(***************************************************************************)
(* What the message directory promises to whoever saves a message in it,   *)
(* without goroutines, system calls and crashes: a message is kept until   *)
(* it was delivered, at least once, and only what was saved is delivered.  *)
(* It may lose a message undelivered in two ways.  Its slot was read too   *)
(* early, before the message was saved in it, and cleared.  Or its slot    *)
(* was spoiled later, which working storage does only to a message that    *)
(* was delivered.  MessageStore implements this.                           *)
(***************************************************************************)

CONSTANT MayFail    \* whether the storage may fail

VARIABLES
    saved,          \* all that was ever saved: messages, each with its slot
    kept,           \* those of them that are still there
    early,          \* the slots that were read before a message was saved in them
    spoiled,        \* the slots whose message could not be read
    delivered       \* the messages that were delivered

vars == <<saved, kept, early, spoiled, delivered>>

Init == saved = {} /\ kept = {} /\ early = {} /\ spoiled = {} /\ delivered = {}

\* Every message has a slot of its own.  What is saved in one that was read before
\* may be gone at once.
Save(x) ==
    /\ \A y \in saved : y.path # x.path
    /\ saved' = saved \cup {x}
    /\ \/ kept' = kept \cup {x}
       \/ x.path \in early /\ kept' = kept
    /\ UNCHANGED <<early, spoiled, delivered>>

\* A message may be delivered again, for it is discarded later.
Deliver(x) ==
    /\ x \in saved
    /\ delivered' = delivered \cup {x.msg}
    /\ UNCHANGED <<saved, kept, early, spoiled>>

Discard(x) ==
    /\ x \in kept
    /\ x.msg \in delivered \/ x.path \in early \cup spoiled
    /\ kept' = kept \ {x}
    /\ UNCHANGED <<saved, early, spoiled, delivered>>

ReadEarly(slot) ==
    /\ \A x \in saved : x.path # slot
    /\ early' = early \cup {slot}
    /\ UNCHANGED <<saved, kept, spoiled, delivered>>

Spoil(x) ==
    /\ x \in saved
    /\ MayFail \/ x.msg \in delivered
    /\ spoiled' = spoiled \cup {x.path}
    /\ UNCHANGED <<saved, kept, early, delivered>>

Next ==
    \/ \E x \in saved' : Save(x) \/ Deliver(x) \/ Spoil(x)
    \/ \E x \in kept : Discard(x)
    \/ \E slot \in early' : ReadEarly(slot)

Spec == Init /\ [][Next]_vars
=============================================================================
