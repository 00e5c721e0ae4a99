-------------------------------- MODULE Relay --------------------------------
(***************************************************************************)
(* What the pipeline promises to the app, without its goroutines, buffers  *)
(* and decoders: of each stream the values up to the first bad one, logs   *)
(* left out, are delivered one by one and in order; the exit of the app is *)
(* reported once, after it; the relay ends when nothing is left.           *)
(* Pipeline implements this.                                               *)
(***************************************************************************)
EXTENDS Stream

CONSTANTS
    Streams,        \* one of them is "agent", which may report the exit
    Kinds           \* of values

VARIABLES
    exited,         \* whether the app has exited
    open,           \* whether a stream's remote end is open
    sent,           \* what was written to a stream
    delivered,      \* what was delivered, of each stream
    ended           \* whether the relay has ended

vars == <<exited, open, sent, delivered, ended>>

Init ==
    /\ ~exited /\ open = [s \in Streams |-> TRUE] /\ ~ended
    /\ sent = [s \in Streams |-> <<>>] /\ delivered = [s \in Streams |-> <<>>]

\* An event is the last value of an app.
Accept(s, k) ==
    /\ ~exited /\ open[s]
    /\ \A r \in Streams : "event" \notin Range(sent[r])
    /\ sent' = [sent EXCEPT ![s] = Append(@, k)]
    /\ UNCHANGED <<exited, open, delivered, ended>>

Exit ==
    /\ ~exited /\ exited' = TRUE
    /\ UNCHANGED <<open, sent, delivered, ended>>

Close(s) ==
    /\ open[s] /\ open' = [open EXCEPT ![s] = FALSE]
    /\ UNCHANGED <<exited, sent, delivered, ended>>

\* The next value of a stream; an event only when the app has exited.
Deliver(s) ==
    /\ IsStrictPrefix(delivered[s], Relayed(sent[s]))
    /\ LET k == Relayed(sent[s])[Len(delivered[s]) + 1]
       IN  /\ k = "event" => exited
           /\ delivered' = [delivered EXCEPT ![s] = Append(@, k)]
    /\ UNCHANGED <<exited, open, sent, ended>>

\* The stream of an app that has exited without an event.
ReportExit ==
    /\ exited /\ ~open["agent"]
    /\ delivered["agent"] = Relayed(sent["agent"])
    /\ "event" \notin Range(delivered["agent"])
    /\ delivered' = [delivered EXCEPT !["agent"] = Append(@, "cleanExit")]
    /\ UNCHANGED <<exited, open, sent, ended>>

\* Nothing is left: all is delivered, and the exit was reported, if only the stream
\* could be read.
End ==
    /\ ~ended /\ ended' = TRUE
    /\ \A s \in Streams :
        /\ ~open[s]
        /\ delivered[s] \in {Relayed(sent[s]), Append(Relayed(sent[s]), "cleanExit")}
    /\ "bad" \notin Range(sent["agent"]) => Reports \cap Range(delivered["agent"]) # {}
    /\ UNCHANGED <<exited, open, sent, delivered>>

Next ==
    \/ \E s \in Streams : Close(s) \/ Deliver(s) \/ \E k \in Kinds : Accept(s, k)
    \/ Exit \/ ReportExit \/ End

Spec == Init /\ [][Next]_vars
=============================================================================
