----------------------------- MODULE DataLimiter -----------------------------
(***************************************************************************)
(* The data limiter of message/limiter.go, with the file persistence of    *)
(* message/persistor.go it calls.  It is a goroutine that relays messages  *)
(* and drops them once a byte budget is nearly used up; its budget and its *)
(* byte count survive a restart of the client in a JSON file.              *)
(*                                                                         *)
(* Time is relative: "left" is the number of ticks until PeriodEnd,        *)
(* negative when PeriodEnd is past, and a billing period lasts Month       *)
(* ticks, so the clock needs no bound.  A timer never fires early and the  *)
(* clock is read after it fired, so it fires only with PeriodEnd past.     *)
(***************************************************************************)
EXTENDS Integers

CONSTANTS
    Sizes,          \* the payload lengths len(m.Bytes) that are offered
    MaxSize,        \* a bound on those lengths
    Configs,        \* the values of api.CellularConfig the backend may send
    Unit,           \* bytes in a megabyte (1e6 in the code)
    Month,          \* ticks in a billing period
    MaxInt,         \* the largest value of Go's int on the platform
    MaxRestarts,    \* bound: restarts of the client between two resets
    CountCap,       \* bound: no message arrives once count exceeds it
    PeriodCap       \* bound: where the history variable periodBytes saturates

ASSUME LimiterAssumption ==
    /\ MaxSize \in Nat /\ Sizes \subseteq 0 .. MaxSize
    /\ Month \in Nat \ {0}
    /\ Configs \subseteq [Date : 0 .. Month - 1, Defined : BOOLEAN, Limit : Nat]
    /\ Unit \in Nat \ {0}
    /\ MaxInt \in Nat /\ MaxRestarts \in Nat
    /\ CountCap \in Nat /\ PeriodCap \in Nat

VARIABLES
    pc,             \* the state function that runs, or where it is blocked
    cur,            \* the length of the message being handled
    budget, hasBudget, count, left,     \* the exported fields of DataLimiter
    disk,           \* what Load would read: the saved fields, or the zero value
    phase,          \* now, as an offset into the calendar month
    conf,           \* the channel conf, of capacity one
    in, closed,     \* the message that is ready on the channel in; its closing
    metered,        \* history: bytes sent under a budget since the last reset
    restarts,       \* history: restarts of the client since the last reset
    periodBytes     \* history: the same, since the last period end

fields == <<budget, hasBudget, left>>
chans == <<conf, in, closed>>
history == <<metered, restarts, periodBytes>>
vars == <<pc, cur, budget, hasBudget, count, left, disk, phase, conf, in,
          closed, metered, restarts, periodBytes>>

-----------------------------------------------------------------------------
(* int arithmetic, the calendar, and the values that are exchanged.        *)

\* The value of an int expression whose mathematical value is x.
Word(x) ==
    IF x \in -MaxInt - 1 .. MaxInt
    THEN x ELSE ((x + MaxInt + 1) % (2 * (MaxInt + 1))) - (MaxInt + 1)

\* 9*b/10: the product is an int, the quotient rounds towards zero.
Ninety(b) ==
    LET product == Word(9 * b)
    IN  IF product >= 0 THEN product \div 10 ELSE -((-product) \div 10)

\* ensureFuture: a past instant advances by whole months until it is not past.
ensureFuture(end) == IF end < 0 THEN end % Month ELSE end

\* dayThisMonth: the given day of the current month, relative to now.
dayThisMonth(date) == date - phase

\* One tick later; instants more than a month past differ only modulo Month.
Later(end) == IF end = -Month THEN -1 ELSE end - 1

\* The zero time.Time, the first day of a month that is long past.
zeroTime == IF phase = 0 THEN -Month ELSE -phase

\* What json.Unmarshal leaves in a fresh DataLimiter that fails to Load.
zeroState == [budget |-> 0, hasBudget |-> FALSE, count |-> 0, left |-> zeroTime]

-----------------------------------------------------------------------------
(* The state functions of serve.                                           *)

Init ==
    /\ phase \in 0 .. Month - 1
    /\ pc = "initial" /\ cur = 0
    /\ disk = zeroState
    /\ budget = 0 /\ hasBudget = FALSE /\ count = 0 /\ left = zeroTime
    /\ conf = {} /\ in = {} /\ closed = FALSE
    /\ metered = 0 /\ restarts = 0 /\ periodBytes = 0

Initial ==
    /\ pc = "initial"
    /\ pc' = IF hasBudget /\ count > Ninety(budget)
             THEN "overBudget" ELSE "underBudget"
    /\ UNCHANGED <<cur, fields, count, disk, phase, chans, history>>

\* FilePersistor.Save starts with os.Create, which empties the file.
Create(then) == pc' = then /\ disk' = zeroState

\* reset: the counter restarts and is saved; an error is ignored.
Reset ==
    /\ count' = 0
    /\ \/ Create("savingReset")
       \/ pc' = "initial" /\ UNCHANGED disk
    /\ metered' = 0 /\ restarts' = 0

\* Mutant of PeriodTimer: only underBudget looks at the timer.
PeriodTimerWhileUnder == pc = "underBudget" /\ left < 0
    /\ left' = ensureFuture(left) /\ Reset /\ periodBytes' = 0
    /\ UNCHANGED <<cur, budget, hasBudget, phase, chans>>

\* The period timer fires: startThisPeriod.
PeriodTimer ==
    /\ pc \in {"underBudget", "overBudget"}
    /\ left < 0
    /\ left' = ensureFuture(left)
    /\ Reset
    /\ periodBytes' = 0
    /\ UNCHANGED <<cur, budget, hasBudget, phase, chans>>

\* Mutant of Apply: a new budget, but the old count.
ApplyWithoutReset ==
    /\ pc \in {"underBudget", "overBudget"}
    /\ \E c \in conf :
        /\ left' = ensureFuture(dayThisMonth(c.Date))
        /\ budget' = Word(Unit * c.Limit)
        /\ hasBudget' = c.Defined
    /\ conf' = {} /\ pc' = "initial"
    /\ UNCHANGED <<cur, count, disk, phase, in, closed, history>>

\* A configuration arrives: apply, with setBudget.
Apply ==
    /\ pc \in {"underBudget", "overBudget"}
    /\ \E c \in conf :
        /\ left' = ensureFuture(dayThisMonth(c.Date))
        /\ budget' = Word(Unit * c.Limit)
        /\ hasBudget' = c.Defined
    /\ conf' = {}
    /\ Reset
    /\ UNCHANGED <<cur, phase, in, closed, periodBytes>>

\* The first half of handleMessage: drop the message or offer it to out.
Receive ==
    /\ pc = "underBudget"
    /\ \E n \in in :
        \/ /\ hasBudget /\ Word(n + count) > budget
           /\ pc' = "overBudget" /\ UNCHANGED cur
        \/ /\ ~(hasBudget /\ Word(n + count) > budget)
           /\ pc' = "sending" /\ cur' = n
    /\ in' = {}
    /\ UNCHANGED <<fields, count, disk, phase, conf, closed, history>>

\* overBudget receives a message and forgets it.
Drop ==
    /\ pc = "overBudget" /\ in # {}
    /\ in' = {}
    /\ UNCHANGED <<pc, cur, fields, count, disk, phase, conf, closed, history>>

\* The consumer of out takes the message.
Send ==
    /\ pc = "sending"
    /\ pc' = "counting"
    /\ metered' = IF hasBudget THEN metered + cur ELSE metered
    /\ periodBytes' = IF ~hasBudget THEN periodBytes
                      ELSE IF periodBytes + cur > PeriodCap THEN PeriodCap
                      ELSE periodBytes + cur
    /\ UNCHANGED <<cur, fields, count, disk, phase, chans, restarts>>

\* Mutant of AfterCounting: a count that could not be saved is no reason to stop.
AfterCountingOnly(c, failed) ==
    IF hasBudget /\ c > Ninety(budget) THEN "overBudget" ELSE "underBudget"

\* What handleMessage returns for the count c; the message that made the
\* count exceed 90% of the budget, or could not be counted, was the last one.
AfterCounting(c, failed) ==
    IF hasBudget /\ (c > Ninety(budget) \/ failed)
    THEN "overBudget" ELSE "underBudget"

\* increment: the count moves on, and os.Create succeeds or fails.
Increment ==
    /\ pc = "counting"
    /\ count' = Word(count + cur) /\ cur' = 0
    /\ \/ Create("savingCount")
       \/ pc' = AfterCounting(count', TRUE) /\ UNCHANGED disk
    /\ UNCHANGED <<fields, phase, chans, history>>

\* The second half of Save: Encode writes the fields, or fails and leaves a
\* file that cannot be decoded.
FinishSave ==
    /\ pc \in {"savingCount", "savingReset"}
    /\ \E failed \in BOOLEAN :
        /\ disk' = IF failed THEN disk
                   ELSE [budget |-> budget, hasBudget |-> hasBudget,
                         count |-> count, left |-> left]
        /\ pc' = IF pc = "savingReset" THEN "initial"
                 ELSE AfterCounting(count, failed)
    /\ UNCHANGED <<cur, fields, count, phase, chans, history>>

\* Mutants of NoticeClosed: a message that is ready is left behind; a closed
\* channel is taken for an empty message.
NoticeClosedFirst ==
    /\ pc \in {"underBudget", "overBudget"} /\ closed
    /\ pc' = "cleanup"
    /\ UNCHANGED <<cur, fields, count, disk, phase, chans, history>>

NoticeClosedAsMessage ==
    /\ pc \in {"underBudget", "overBudget"} /\ closed /\ in = {}
    /\ pc' = (IF pc = "underBudget" THEN "sending" ELSE pc) /\ cur' = 0
    /\ UNCHANGED <<fields, count, disk, phase, chans, history>>

NoticeClosed ==
    /\ pc \in {"underBudget", "overBudget"}
    /\ closed /\ in = {}
    /\ pc' = "cleanup"
    /\ UNCHANGED <<cur, fields, count, disk, phase, chans, history>>

\* cleanup closes out; serve ends.
Cleanup ==
    /\ pc = "cleanup"
    /\ pc' = "terminal"
    /\ UNCHANGED <<cur, fields, count, disk, phase, chans, history>>

-----------------------------------------------------------------------------
(* The environment: the clock, the upstream channels, the client process.  *)

Tick ==
    /\ phase' = (phase + 1) % Month
    /\ left' = Later(left)
    /\ disk' = [disk EXCEPT !.left = Later(@)]
    /\ UNCHANGED <<pc, cur, budget, hasBudget, count, chans, history>>

\* Mutant of Poll: the channel takes a second configuration.
PollTwice ==
    /\ \E c \in Configs : conf' = conf \cup {c}
    /\ UNCHANGED <<pc, cur, fields, count, disk, phase, in, closed, history>>

\* pollConfig sends a configuration.
Poll ==
    /\ conf = {}
    /\ \E c \in Configs : conf' = {c}
    /\ UNCHANGED <<pc, cur, fields, count, disk, phase, in, closed, history>>

Offer ==
    /\ in = {} /\ ~closed /\ count <= CountCap
    /\ \E n \in Sizes : in' = {n}
    /\ UNCHANGED <<pc, cur, fields, count, disk, phase, conf, closed, history>>

CloseInput ==
    /\ ~closed /\ closed' = TRUE
    /\ UNCHANGED <<pc, cur, fields, count, disk, phase, conf, in, history>>

\* The client dies, at any point, and is started again: NewDataLimiter loads
\* what the file holds.
Restart ==
    /\ restarts < MaxRestarts /\ restarts' = restarts + 1
    /\ pc' = "initial" /\ cur' = 0
    /\ budget' = disk.budget /\ hasBudget' = disk.hasBudget
    /\ count' = disk.count /\ left' = disk.left
    /\ conf' = {} /\ in' = {} /\ closed' = FALSE
    /\ UNCHANGED <<disk, phase, metered, periodBytes>>

Next ==
    \/ Initial \/ PeriodTimer \/ Apply \/ Receive \/ Drop \/ Send \/ Increment
    \/ FinishSave \/ NoticeClosed \/ Cleanup
    \/ Tick \/ Poll \/ Offer \/ CloseInput \/ Restart

Spec == Init /\ [][Next]_vars

\* The goroutine is scheduled, the clock moves, the consumer of out takes what
\* it is offered.  Go's select picks at random among the ready branches, so a
\* branch that is ready again and again is taken.
Fairness ==
    /\ WF_vars(Initial) /\ WF_vars(Send) /\ WF_vars(Increment)
    /\ WF_vars(FinishSave) /\ WF_vars(Cleanup) /\ WF_vars(Tick)
    /\ SF_vars(PeriodTimer) /\ SF_vars(Apply)
    /\ SF_vars(Receive) /\ SF_vars(Drop) /\ SF_vars(NoticeClosed)

FairSpec == Spec /\ Fairness

-----------------------------------------------------------------------------
(* Properties.                                                             *)

States == {"initial", "underBudget", "overBudget", "cleanup", "terminal",
           "sending", "counting", "savingCount", "savingReset"}
Instants == -Month .. Month - 1
Saved == [budget : Int, hasBudget : BOOLEAN, count : Int, left : Instants]

\* Every variable has the type of the Go field or channel it stands for, and a
\* channel of capacity one holds at most one value.
TypeOK ==
    /\ pc \in States /\ cur \in 0 .. MaxSize
    /\ budget \in Int /\ hasBudget \in BOOLEAN /\ count \in Int
    /\ left \in Instants /\ disk \in Saved /\ phase \in 0 .. Month - 1
    /\ conf \subseteq Configs /\ (\A c, d \in conf : c = d)
    /\ in \subseteq Sizes /\ (\A m, n \in in : m = n)
    /\ closed \in BOOLEAN
    /\ metered \in Nat /\ restarts \in Nat /\ periodBytes \in Nat

\* The ints of the platform hold every product and sum the limiter computes.
FitsWord ==
    \A c \in Configs : /\ 9 * (Unit * c.Limit) <= MaxInt
                        /\ Unit * c.Limit + MaxSize <= MaxInt

\* Under a budget the counter lies between 0 and the budget, in memory and in
\* the file a restart would read, whatever configurations arrive and wherever
\* saving is interrupted; a message on its way out still fits.
CountWithinBudget ==
    /\ hasBudget => count \in 0 .. budget
    /\ hasBudget /\ pc \in {"sending", "counting"} => count + cur <= budget
    /\ disk.hasBudget => disk.count \in 0 .. disk.budget

\* Between two resets of the counter the limiter sends no more than the budget
\* in force, plus one message for each restart of the client: a crash after
\* "out <- m" and before the count is saved forgets at most that message.
SentWithinBudget ==
    hasBudget => metered <= budget + restarts * MaxSize

\* Why SentWithinBudget holds.  The counter in memory lags behind the bytes sent
\* by the message being counted and by those that crashes forgot.  So does the
\* counter on disk, which may lag one message more once increment has failed to
\* save it: the limiter then drops messages, so the lag does not grow.
DiskIsCurrent ==
    \/ pc \in {"initial", "underBudget", "sending"}
    \/ pc = "counting" /\ ~hasBudget

CountsBoundMetered ==
    /\ hasBudget =>
        metered <= count + restarts * MaxSize + (IF pc = "counting" THEN cur ELSE 0)
    /\ disk.hasBudget =>
        metered <= disk.count + restarts * MaxSize
                              + (IF DiskIsCurrent THEN 0 ELSE MaxSize)

\* The inductive invariant behind CountWithinBudget and SentWithinBudget: besides,
\* sums up to the budget and one message do not overflow, and a file that is
\* being written holds no budget.
BudgetsHold ==
    /\ CountWithinBudget
    /\ CountsBoundMetered
    /\ hasBudget => budget + MaxSize <= MaxInt
    /\ disk.hasBudget => disk.budget + MaxSize <= MaxInt
    /\ pc \in {"savingCount", "savingReset"} => ~disk.hasBudget

\* The limiter never stops reading its input: dropping included, a message
\* that is ready is taken, so nothing upstream blocks for ever.
InputDrained == (in # {}) ~> (in = {})

\* Dropping ends: a limiter that is over budget is under budget again once the
\* period ends or a configuration arrives, unless it is shut down.  A client
\* that is killed again and again before that may never get there.
DroppingEnds ==
    <>[][~Restart]_vars
        => ((pc = "overBudget") ~> (pc \in {"underBudget", "terminal"}))

\* When the input closes, the output is closed (or the client is restarted).
ShutdownCompletes == closed ~> (pc = "terminal" \/ ~closed)

\* limiter.go:22, "Budget is how many bytes can be transmitted per period."
PeriodBudget == hasBudget => periodBytes <= budget
=============================================================================
