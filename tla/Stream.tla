-------------------------------- MODULE Stream --------------------------------
(***************************************************************************)
(* What of a stream of the agent the client relays.                        *)
(***************************************************************************)
EXTENDS Integers, SequencesExt

\* The reports of the app's exit: the app's own and the one of agent.Server.
Reports == {"event", "cleanExit"}

\* What the converter drops.
Logs == {"applog", "log"}

\* Of the stream w, what comes before the first bad value, without logs.
Relayed(w) ==
    FlattenSeq([i \in DOMAIN w |->
        IF w[i] \in Logs \/ \E j \in 1 .. i : w[j] = "bad" THEN <<>> ELSE <<w[i]>>])
=============================================================================
