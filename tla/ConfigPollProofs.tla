--------------------------- MODULE ConfigPollProofs ---------------------------
(***************************************************************************)
(* Proofs about ConfigPoll, for all periods the backend may send.          *)
(***************************************************************************)
EXTENDS ConfigPoll, TLAPS

\* What is handed out was polled.
Polled == poll # "idle" => period \in Periods

\* Every reachable state is well typed, and no channel holds two values.
THEOREM PollTypeCorrect == Spec => []TypeOK
<1>1. Init => TypeOK /\ Polled
  <2>1. Init => /\ toRequester \subseteq Periods /\ (\A d, e \in toRequester : d = e)
                /\ toPersistor \subseteq {"limit"} /\ toLimiter \subseteq {"plan"}
                /\ period \in Periods \cup {0} /\ Polled
    BY DEF Init, Polled
  <2>2. Init => /\ poll \in {"idle", "persistor", "requester", "limiter"}
                /\ requester \in {"running", "writing", "reporting", "ended"}
                /\ lateRequests \in Nat
    BY DEF Init
  <2>3. Init => /\ ticking \in BOOLEAN /\ tick \in BOOLEAN /\ prevErr \in BOOLEAN
                /\ done \in BOOLEAN /\ off \in BOOLEAN
    BY Zenon DEF Init
  <2> QED BY <2>1, <2>2, <2>3, Zenon DEF TypeOK
<1>2. TypeOK /\ Polled /\ [Next]_vars => TypeOK' /\ Polled'
  <2> SUFFICES ASSUME TypeOK, Polled, [Next]_vars PROVE TypeOK' /\ Polled'
    OBVIOUS
  <2> USE DEF TypeOK, Polled, polling, requesting, ticker, history
  <2>1. CASE Poll
    BY <2>1 DEF Poll
  <2>2. CASE SendPersistor \/ SendRequester \/ SendLimiter
    BY <2>2 DEF SendPersistor, SendRequester, SendLimiter
  <2>3. CASE PersistorReads \/ LimiterReads
    BY <2>3 DEF PersistorReads, LimiterReads
  <2>4. CASE Reconfigure
    <3>1. PICK dur \in toRequester :
            /\ IF dur > 0 THEN ticking' = TRUE /\ tick' = FALSE
               ELSE ticking' = FALSE /\ UNCHANGED tick
            /\ off' = (dur <= 0)
      BY <2>4, Zenon DEF Reconfigure
    <3>2. ticking' \in BOOLEAN /\ tick' \in BOOLEAN
      BY <3>1, Zenon
    <3>5. (dur <= 0) \in BOOLEAN
      OBVIOUS
    <3>6. off' \in BOOLEAN
      BY <3>1, <3>5, Zenon
    <3>3. /\ toRequester' = {} /\ lateRequests' = 0
          /\ UNCHANGED <<poll, period, toPersistor, toLimiter, requester, prevErr, done>>
      BY <2>4 DEF Reconfigure
    <3>4. /\ toRequester' \subseteq Periods /\ (\A d, e \in toRequester' : d = e)
          /\ lateRequests' \in Nat
      BY <3>3
    <3> QED BY <3>2, <3>3, <3>4, <3>6, Zenon
  <2>5. CASE Tick
    <3>1. UNCHANGED <<polling, toRequester, requester, ticking, prevErr, done, history>>
      BY <2>5 DEF Tick
    <3>2. tick' \in BOOLEAN
      BY <2>5, Zenon DEF Tick
    <3> QED BY <3>1, <3>2, Zenon
  <2>8. CASE Request
    <3>1. /\ requester' = "writing"
          /\ UNCHANGED <<polling, toRequester, ticking, prevErr, done, off>>
      BY <2>8 DEF Request
    <3>2. lateRequests' \in Nat
      BY <2>8 DEF Request
    <3>3. tick' \in BOOLEAN
      BY <2>8, Zenon DEF Request
    <3>4. requester' \in {"running", "writing", "reporting", "ended"}
      BY <3>1
    <3> QED BY <3>1, <3>2, <3>3, <3>4, Zenon
  <2>6. CASE WriteSucceeds \/ WriteFails \/ Report \/ Cancel \/ CloseDone
    BY <2>6 DEF WriteSucceeds, WriteFails, Report, Cancel, CloseDone
  <2>7. CASE UNCHANGED vars
    BY <2>7 DEF vars
  <2> QED BY <2>1, <2>2, <2>3, <2>4, <2>5, <2>6, <2>7, <2>8 DEF Next
<1> QED BY <1>1, <1>2, PTL DEF Spec

\* The inductive invariant behind RequestsStop: a ticker that was stopped stays
\* stopped, and the one request that may follow uses up the tick it left.
TickerStopped ==
    off => /\ ~ticking
           /\ lateRequests \in {0, 1} /\ (tick => lateRequests = 0)

\* Once a period that is not positive was read, at most one more request is
\* written, however long the client runs.
THEOREM RequestsDoStop == Spec => []RequestsStop
<1>1. Init => TickerStopped
  BY DEF Init, TickerStopped
<1>2. TypeOK /\ TickerStopped /\ [Next]_vars => TickerStopped'
  <2> SUFFICES ASSUME TypeOK, TickerStopped, [Next]_vars PROVE TickerStopped'
    OBVIOUS
  <2> USE DEF TypeOK, TickerStopped, polling, requesting, ticker, history
  <2>1. CASE Poll \/ SendPersistor \/ SendRequester \/ SendLimiter
             \/ PersistorReads \/ LimiterReads
    BY <2>1 DEF Poll, SendPersistor, SendRequester, SendLimiter,
                PersistorReads, LimiterReads
  <2>2. CASE Reconfigure
    <3>1. PICK dur \in toRequester :
            /\ dur > 0 \/ ticking' = FALSE
            /\ off' = (dur <= 0)
      BY <2>2, Zenon DEF Reconfigure
    <3>2. dur \in Int
      BY <3>1, PollAssumption
    <3>3. dur <= 0 => ~(dur > 0)
      BY <3>2
    <3>4. off' => ~ticking'
      BY <3>1, <3>3, Zenon
    <3>5. lateRequests' = 0
      BY <2>2 DEF Reconfigure
    <3> QED BY <3>4, <3>5, Zenon
  <2>3. CASE Tick
    <3>1. ticking /\ UNCHANGED <<off, ticking, lateRequests>>
      BY <2>3 DEF Tick
    <3> QED BY <3>1, Zenon
  <2>4. CASE Request
    <3>1. tick /\ UNCHANGED <<off, ticking>>
      BY <2>4 DEF Request
    <3>2. tick' = FALSE
      BY <2>4, Zenon DEF Request
    <3>3. off => lateRequests' = 1
      BY <2>4 DEF Request
    <3> QED BY <3>1, <3>2, <3>3, Zenon
  <2>5. CASE WriteSucceeds \/ WriteFails \/ Report \/ Cancel \/ CloseDone
    BY <2>5 DEF WriteSucceeds, WriteFails, Report, Cancel, CloseDone
  <2>6. CASE UNCHANGED vars
    BY <2>6 DEF vars
  <2> QED BY <2>1, <2>2, <2>3, <2>4, <2>5, <2>6 DEF Next
<1>3. TypeOK /\ TickerStopped => RequestsStop
  BY DEF TypeOK, TickerStopped, RequestsStop
<1> QED BY <1>1, <1>2, <1>3, PollTypeCorrect, PTL DEF Spec
=============================================================================
