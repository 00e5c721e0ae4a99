------------------------------ MODULE ConfigPoll ------------------------------
(***************************************************************************)
(* pollConfig (cmd/client/main.go) asks the backend for its parameters and *)
(* hands them out, in a fixed order, over three channels of capacity one.  *)
(* The persistor and the limiter read theirs as long as the client runs.   *)
(* agent.PeriodicRequester (agent/requester.go) reads the third, and asks  *)
(* the agent for a profile whenever its ticker fires.                      *)
(***************************************************************************)
EXTENDS Integers

CONSTANTS
    Periods         \* emission periods the backend may send, in seconds

ASSUME PollAssumption == Periods \subseteq Int

VARIABLES
    poll,           \* what pollConfig does next
    period,         \* the emission period it polled
    toPersistor, toRequester, toLimiter,    \* what the channels hold
    requester,      \* what PeriodicRequester does next
    ticking, tick,  \* whether its ticker runs; whether emit.C holds a tick
    prevErr,        \* whether a write has failed before
    done,           \* whether the server's Done channel is closed
    off,            \* history: whether the last period read was not positive
    lateRequests    \* history: requests written since it was read

polling == <<poll, period, toPersistor, toLimiter>>
ticker == <<ticking, tick>>
requesting == <<requester, ticker, prevErr, done>>
history == <<off, lateRequests>>
vars == <<polling, toRequester, requesting, history>>

\* The ticker fires every second until a configuration arrives.
Init ==
    /\ poll = "idle" /\ period = 0
    /\ toPersistor = {} /\ toRequester = {} /\ toLimiter = {}
    /\ requester = "running" /\ ticking = TRUE /\ tick = FALSE
    /\ prevErr = FALSE /\ done = FALSE
    /\ off = FALSE /\ lateRequests = 0

-----------------------------------------------------------------------------
(* The goroutine of pollConfig, and the readers of two of its channels.    *)

\* Every hour; a poll that fails changes nothing.
Poll ==
    /\ poll = "idle" /\ poll' = "persistor"
    /\ period' \in Periods
    /\ UNCHANGED <<toPersistor, toLimiter, toRequester, requesting, history>>

SendPersistor ==
    /\ poll = "persistor" /\ toPersistor = {}
    /\ poll' = "requester" /\ toPersistor' = {"limit"}
    /\ UNCHANGED <<period, toLimiter, toRequester, requesting, history>>

\* Mutant of SendRequester: the channel takes a second period.
SendRequesterTwice ==
    /\ poll = "requester"
    /\ poll' = "limiter" /\ toRequester' = toRequester \cup {period}
    /\ UNCHANGED <<period, toPersistor, toLimiter, requesting, history>>

SendRequester ==
    /\ poll = "requester" /\ toRequester = {}
    /\ poll' = "limiter" /\ toRequester' = {period}
    /\ UNCHANGED <<period, toPersistor, toLimiter, requesting, history>>

SendLimiter ==
    /\ poll = "limiter" /\ toLimiter = {}
    /\ poll' = "idle" /\ toLimiter' = {"plan"}
    /\ UNCHANGED <<period, toPersistor, toRequester, requesting, history>>

PersistorReads ==
    /\ toPersistor # {} /\ toPersistor' = {}
    /\ UNCHANGED <<poll, period, toLimiter, toRequester, requesting, history>>

LimiterReads ==
    /\ toLimiter # {} /\ toLimiter' = {}
    /\ UNCHANGED <<poll, period, toPersistor, toRequester, requesting, history>>

-----------------------------------------------------------------------------
(* PeriodicRequester.run.                                                  *)

Tick ==
    /\ ticking /\ ~tick /\ tick' = TRUE
    /\ UNCHANGED <<polling, toRequester, requester, ticking, prevErr, done,
                   history>>

\* Mutants of Reconfigure: a period of zero leaves the old ticker running; without
\* a ticker no configuration is read.
ReconfigureKeepsTicker ==
    /\ requester = "running"
    /\ \E dur \in toRequester :
        /\ ticking' = TRUE
        /\ IF dur > 0 THEN tick' = FALSE ELSE UNCHANGED tick
        /\ off' = (dur <= 0)
    /\ toRequester' = {} /\ lateRequests' = 0
    /\ UNCHANGED <<polling, requester, prevErr, done>>

ReconfigureWhileTicking ==
    /\ requester = "running" /\ ticking
    /\ \E dur \in toRequester :
        /\ IF dur > 0 THEN ticking' = TRUE /\ tick' = FALSE
           ELSE ticking' = FALSE /\ UNCHANGED tick
        /\ off' = (dur <= 0)
    /\ toRequester' = {} /\ lateRequests' = 0
    /\ UNCHANGED <<polling, requester, prevErr, done>>

\* A ticker that is stopped keeps the tick it has; a new one has none.
Reconfigure ==
    /\ requester = "running"
    /\ \E dur \in toRequester :
        /\ IF dur > 0 THEN ticking' = TRUE /\ tick' = FALSE
           ELSE ticking' = FALSE /\ UNCHANGED tick
        /\ off' = (dur <= 0)
    /\ toRequester' = {} /\ lateRequests' = 0
    /\ UNCHANGED <<polling, requester, prevErr, done>>

Request ==
    /\ requester = "running" /\ tick
    /\ requester' = "writing" /\ tick' = FALSE
    /\ lateRequests' = IF off THEN lateRequests + 1 ELSE 0
    /\ UNCHANGED <<polling, toRequester, ticking, prevErr, done, off>>

WriteSucceeds ==
    /\ requester = "writing" /\ requester' = "running"
    /\ UNCHANGED <<polling, toRequester, ticker, prevErr, done, off, lateRequests>>

WriteFails ==
    /\ requester = "writing"
    /\ requester' = IF prevErr THEN "reporting" ELSE "running"
    /\ prevErr' = TRUE
    /\ UNCHANGED <<polling, toRequester, ticker, done, off, lateRequests>>

\* The error message is taken; the output closes.
Report ==
    /\ requester = "reporting" /\ requester' = "ended"
    /\ UNCHANGED <<polling, toRequester, ticker, prevErr, done, history>>

\* Mutant of Cancel: the end is noticed at the next tick only.
CancelAtTick ==
    /\ requester = "running" /\ done /\ tick
    /\ requester' = "ended"
    /\ UNCHANGED <<polling, toRequester, ticker, prevErr, done, history>>

Cancel ==
    /\ requester = "running" /\ done
    /\ requester' = "ended"
    /\ UNCHANGED <<polling, toRequester, ticker, prevErr, done, history>>

\* agent.Server has seen the end of the agent's stream.
CloseDone ==
    /\ ~done /\ done' = TRUE
    /\ UNCHANGED <<polling, toRequester, requester, ticker, prevErr, history>>

Next ==
    \/ Poll \/ SendPersistor \/ SendRequester \/ SendLimiter
    \/ PersistorReads \/ LimiterReads
    \/ Tick \/ Reconfigure \/ Request \/ WriteSucceeds \/ WriteFails
    \/ Report \/ Cancel \/ CloseDone

Spec == Init /\ [][Next]_vars

\* Goroutines are scheduled and select is fair to its branches.  A write to the
\* agent may block while the agent does not read; once the agent's end of the
\* connection is closed, it returns.
Fairness ==
    /\ WF_vars(Poll) /\ WF_vars(SendPersistor) /\ WF_vars(SendRequester)
    /\ WF_vars(SendLimiter) /\ WF_vars(PersistorReads) /\ WF_vars(LimiterReads)
    /\ WF_vars(Tick) /\ SF_vars(Reconfigure) /\ SF_vars(Request)
    /\ SF_vars(Cancel) /\ WF_vars(Report)
    /\ WF_vars(done /\ (WriteSucceeds \/ WriteFails))

FairSpec == Spec /\ Fairness

-----------------------------------------------------------------------------
(* Properties.                                                             *)

\* Every variable has its type; the channels hold at most one value.
TypeOK ==
    /\ poll \in {"idle", "persistor", "requester", "limiter"}
    /\ period \in Periods \cup {0}
    /\ toPersistor \subseteq {"limit"} /\ toLimiter \subseteq {"plan"}
    /\ toRequester \subseteq Periods /\ (\A d, e \in toRequester : d = e)
    /\ requester \in {"running", "writing", "reporting", "ended"}
    /\ ticking \in BOOLEAN /\ tick \in BOOLEAN /\ prevErr \in BOOLEAN
    /\ done \in BOOLEAN
    /\ off \in BOOLEAN /\ lateRequests \in Nat

\* A period that is not positive stops the requests: at most the one whose tick
\* was already there follows.
RequestsStop == off => lateRequests <= 1

\* When the agent's stream ends the requester ends, so that the pipeline which
\* waits for its output to close can end.
RequesterEnds == done ~> requester = "ended"

\* Polled parameters get to all three readers, as long as the requester runs and
\* the agent reads its requests.
ConfigFlows ==
    []<>(requester # "writing")
        => (poll # "idle" ~> (poll = "idle" \/ requester = "ended"))

=============================================================================
