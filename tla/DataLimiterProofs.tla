-------------------------- MODULE DataLimiterProofs --------------------------
(***************************************************************************)
(* Proofs about DataLimiter: its types, and the budget it enforces, for    *)
(* every set of message sizes, plans, period length and number of restarts.*)
(***************************************************************************)
EXTENDS DataLimiter, TLAPS

\* An int expression has an int value, and one that fits has its own value.
LEMMA WordIsInt ==
    ASSUME NEW x \in Int
    PROVE  Word(x) \in Int
  BY LimiterAssumption DEF Word

\* What fits the int is not changed by it.
LEMMA WordFits ==
    ASSUME NEW x \in Int, -MaxInt - 1 <= x, x <= MaxInt
    PROVE  Word(x) = x
  BY LimiterAssumption DEF Word

\* The calendar operators map instants to instants.
LEMMA CalendarTypes ==
    ASSUME NEW ph \in 0 .. Month - 1, NEW end \in Instants
    PROVE  /\ ensureFuture(end) \in Instants
           /\ Later(end) \in Instants
           /\ \A date \in 0 .. Month - 1 : ensureFuture(date - ph) \in Instants
           /\ (ph + 1) % Month \in 0 .. Month - 1
  BY LimiterAssumption DEF ensureFuture, Later, Instants

\* A limiter that was not loaded has a state, too.
LEMMA ZeroStateType ==
    ASSUME phase \in 0 .. Month - 1
    PROVE  zeroState \in Saved
  BY LimiterAssumption DEF zeroState, zeroTime, Saved, Instants

\* A budget that the backend may send fits the platform's int.
LEMMA BudgetFits ==
    ASSUME FitsWord, NEW c \in Configs
    PROVE  /\ Word(Unit * c.Limit) \in Nat
           /\ Word(Unit * c.Limit) + MaxSize <= MaxInt
<1>1. c.Limit \in Nat /\ Unit \in Nat /\ MaxInt \in Nat /\ MaxSize \in Nat
  BY LimiterAssumption
<1>2. Unit * c.Limit \in Nat
  BY <1>1
<1>3. Unit * c.Limit + MaxSize <= MaxInt
  BY DEF FitsWord
<1>4. Word(Unit * c.Limit) = Unit * c.Limit
  <2> DEFINE b == Unit * c.Limit
  <2>1. b \in Int /\ -MaxInt - 1 <= b /\ b <= MaxInt
    BY <1>1, <1>2, <1>3
  <2> HIDE DEF b
  <2>2. Word(b) = b
    BY <2>1, WordFits
  <2> QED BY <2>2 DEF b
<1> QED BY <1>2, <1>3, <1>4

-----------------------------------------------------------------------------
\* Every reachable state is well typed, on any platform.
THEOREM TypeCorrect == Spec => []TypeOK
<1> USE LimiterAssumption
<1>1. Init => TypeOK
  <2> SUFFICES ASSUME Init PROVE TypeOK
    OBVIOUS
  <2>1. phase \in 0 .. Month - 1
    BY DEF Init
  <2>2. zeroState \in Saved /\ zeroTime \in Instants
    BY <2>1, ZeroStateType DEF zeroTime, Instants
  <2>3. pc \in States /\ cur \in 0 .. MaxSize
    <3>1. pc = "initial" /\ cur = 0
      BY DEF Init
    <3>2. 0 \in 0 .. MaxSize
      OBVIOUS
    <3> QED BY <3>1, <3>2 DEF States
  <2>4. /\ budget \in Int /\ hasBudget \in BOOLEAN /\ count \in Int
        /\ left \in Instants /\ disk \in Saved
    <3>1. /\ budget = 0 /\ hasBudget = FALSE /\ count = 0
          /\ left = zeroTime /\ disk = zeroState
      BY DEF Init
    <3>2. left \in Instants /\ disk \in Saved
      BY <3>1, <2>2, Zenon
    <3>3. hasBudget \in BOOLEAN
      BY <3>1, Zenon
    <3>4. budget \in Int /\ count \in Int
      BY ONLY <3>1
    <3> QED BY <3>2, <3>3, <3>4
  <2>5. /\ conf \subseteq Configs /\ (\A c, d \in conf : c = d)
        /\ in \subseteq Sizes /\ (\A m, n \in in : m = n)
        /\ closed \in BOOLEAN
    BY ONLY Init DEF Init
  <2>6. metered \in Nat /\ restarts \in Nat /\ periodBytes \in Nat
    BY DEF Init
  <2> QED BY <2>1, <2>3, <2>4, <2>5, <2>6 DEF TypeOK
<1>2. TypeOK /\ [Next]_vars => TypeOK'
  <2> SUFFICES ASSUME TypeOK, [Next]_vars PROVE TypeOK'
    OBVIOUS
  <2>z. zeroState \in Saved
    BY ZeroStateType DEF TypeOK
  <2>c. /\ ensureFuture(left) \in Instants /\ Later(left) \in Instants
        /\ Later(disk.left) \in Instants
        /\ \A date \in 0 .. Month - 1 : ensureFuture(date - phase) \in Instants
        /\ (phase + 1) % Month \in 0 .. Month - 1
    <3>1. phase \in 0 .. Month - 1 /\ left \in Instants /\ disk.left \in Instants
      BY DEF TypeOK, Saved
    <3> QED BY <3>1, CalendarTypes
  <2>w. /\ Word(count + cur) \in Int
        /\ \A c \in Configs : Word(Unit * c.Limit) \in Int
    <3>1. count + cur \in Int /\ \A c \in Configs : Unit * c.Limit \in Int
      BY DEF TypeOK
    <3> QED BY <3>1, WordIsInt
  <2>r. ASSUME Reset
        PROVE  /\ pc' \in States /\ disk' \in Saved /\ count' \in Int
               /\ metered' \in Nat /\ restarts' \in Nat
    BY <2>r, <2>z DEF Reset, Create, TypeOK, States
  <2>1. CASE Initial
    BY <2>1 DEF Initial, TypeOK, States, fields, chans, history
  <2>2. CASE PeriodTimer
    BY <2>2, <2>r, <2>c DEF PeriodTimer, TypeOK, chans
  <2>3. CASE Apply
    <3>1. PICK c \in conf : /\ left' = ensureFuture(c.Date - phase)
                            /\ budget' = Word(Unit * c.Limit)
                            /\ hasBudget' = c.Defined
      BY <2>3 DEF Apply, dayThisMonth
    <3>2. c \in Configs /\ c.Date \in 0 .. Month - 1 /\ c.Defined \in BOOLEAN
      BY DEF TypeOK
    <3>3. left' \in Instants /\ budget' \in Int /\ hasBudget' \in BOOLEAN
      BY <3>1, <3>2, <2>c, <2>w
    <3> QED BY <2>3, <3>3, <2>r DEF Apply, TypeOK
  <2>4. CASE Receive
    BY <2>4 DEF Receive, TypeOK, States, fields, history
  <2>5. CASE Drop
    BY <2>5 DEF Drop, TypeOK, fields, history
  <2>6. CASE Send
    BY <2>6 DEF Send, TypeOK, States, fields, chans
  <2>7. CASE Increment
    BY <2>7, <2>w, <2>z
    DEF Increment, Create, AfterCounting, TypeOK, States, fields, chans, history
  <2>8. CASE FinishSave
    BY <2>8
    DEF FinishSave, AfterCounting, TypeOK, Saved, States, fields, chans, history
  <2>9. CASE NoticeClosed
    BY <2>9 DEF NoticeClosed, TypeOK, States, fields, chans, history
  <2>10. CASE Cleanup
    BY <2>10 DEF Cleanup, TypeOK, States, fields, chans, history
  <2>11. CASE Tick
    <3>1. disk' = [disk EXCEPT !.left = Later(disk.left)] /\ disk \in Saved
      BY <2>11 DEF Tick, TypeOK
    <3>2. disk' \in Saved
      BY <3>1, <2>c DEF Saved
    <3>3. phase' \in 0 .. Month - 1 /\ left' \in Instants
      BY <2>11, <2>c DEF Tick
    <3>4. UNCHANGED <<pc, cur, budget, hasBudget, count, chans, history>>
      BY <2>11 DEF Tick
    <3> QED BY <3>2, <3>3, <3>4 DEF TypeOK, chans, history
  <2>12. CASE Poll
    BY <2>12 DEF Poll, TypeOK, fields, history
  <2>13. CASE Offer
    BY <2>13 DEF Offer, TypeOK, fields, history
  <2>14. CASE CloseInput
    BY <2>14 DEF CloseInput, TypeOK, fields, history
  <2>15. CASE Restart
    <3>1. /\ disk.budget \in Int /\ disk.hasBudget \in BOOLEAN
          /\ disk.count \in Int /\ disk.left \in Instants
      BY DEF TypeOK, Saved
    <3>2. /\ budget' \in Int /\ hasBudget' \in BOOLEAN /\ count' \in Int
          /\ left' \in Instants
      BY <2>15, <3>1 DEF Restart
    <3>3. pc' \in States /\ cur' \in 0 .. MaxSize
      BY <2>15 DEF Restart, States
    <3>4. /\ conf' \subseteq Configs /\ (\A c, d \in conf' : c = d)
          /\ in' \subseteq Sizes /\ (\A m, n \in in' : m = n)
          /\ closed' \in BOOLEAN
      BY ONLY <2>15 DEF Restart
    <3>5. restarts' \in Nat /\ UNCHANGED <<disk, phase, metered, periodBytes>>
      BY <2>15 DEF Restart, TypeOK
    <3> QED BY <3>2, <3>3, <3>4, <3>5 DEF TypeOK
  <2>16. CASE UNCHANGED vars
    BY <2>16 DEF vars, TypeOK
  <2> QED
    BY <2>1, <2>2, <2>3, <2>4, <2>5, <2>6, <2>7, <2>8, <2>9, <2>10, <2>11,
       <2>12, <2>13, <2>14, <2>15, <2>16 DEF Next
<1> QED BY <1>1, <1>2, PTL DEF Spec

-----------------------------------------------------------------------------
\* A budget the limiter holds, or would load, leaves room for one message: the
\* sums and products it computes under that budget do not overflow.
LEMMA SumsFit ==
    ASSUME TypeOK, BudgetsHold, hasBudget,
           NEW n \in 0 .. MaxSize
    PROVE  Word(n + count) = n + count /\ n + count \in Nat
<1>1. count \in 0 .. budget /\ budget + MaxSize <= MaxInt /\ budget \in Int
  BY DEF BudgetsHold, CountWithinBudget, TypeOK
<1>2. MaxSize \in Nat /\ MaxInt \in Nat
  BY LimiterAssumption
<1>3. n + count \in Nat /\ -MaxInt - 1 <= n + count /\ n + count <= MaxInt
  BY <1>1, <1>2
<1> QED BY <1>3, WordFits

\* Resetting the counter, whether or not the file could be emptied.
LEMMA ResetPreservesBudgets ==
    ASSUME TypeOK, BudgetsHold, Reset, phase' = phase,
           hasBudget' => budget' \in Nat /\ budget' + MaxSize <= MaxInt
    PROVE  BudgetsHold'
<1> USE LimiterAssumption
<1>1. /\ count' = 0 /\ metered' = 0 /\ restarts' = 0
      /\ restarts' * MaxSize = 0
  BY DEF Reset
<1>2. \/ disk' = zeroState /\ pc' = "savingReset"
      \/ disk' = disk /\ pc' = "initial"
  BY DEF Reset, Create
<1>z. ~zeroState.hasBudget
  BY DEF zeroState
<1>3. /\ disk'.hasBudget => disk.hasBudget /\ disk' = disk
      /\ pc' = "savingReset" => ~disk'.hasBudget
  <2>1. CASE disk' = zeroState /\ pc' = "savingReset"
    BY <2>1, <1>z
  <2>2. CASE disk' = disk /\ pc' = "initial"
    BY <2>2
  <2> QED BY <1>2, <2>1, <2>2
<1>4. /\ disk'.hasBudget => /\ disk'.count \in 0 .. disk'.budget
                            /\ disk'.budget + MaxSize <= MaxInt
  BY <1>3 DEF BudgetsHold, CountWithinBudget
<1>5. CountWithinBudget'
  BY <1>1, <1>2, <1>4 DEF CountWithinBudget
<1>6. CountsBoundMetered'
  <2>1. hasBudget' => metered' <= count' + restarts' * MaxSize
                                  + (IF pc' = "counting" THEN cur' ELSE 0)
    BY <1>1, <1>2
  <2>2. disk'.hasBudget =>
          metered' <= disk'.count + restarts' * MaxSize
                                  + (IF DiskIsCurrent' THEN 0 ELSE MaxSize)
    BY <1>1, <1>4
  <2> QED BY <2>1, <2>2 DEF CountsBoundMetered
<1> QED BY <1>2, <1>3, <1>4, <1>5, <1>6 DEF BudgetsHold

\* Every step of the limiter, of its surroundings and of a restart preserves
\* the strengthened invariant.
LEMMA StepPreservesBudgets ==
    ASSUME FitsWord, TypeOK, BudgetsHold, [Next]_vars
    PROVE  BudgetsHold'
<1> USE LimiterAssumption
<1> DEFINE forgotten == restarts * MaxSize
<1>t. /\ metered \in Nat /\ restarts \in Nat /\ cur \in 0 .. MaxSize
      /\ MaxSize \in Nat /\ count \in Int /\ budget \in Int
      /\ disk.count \in Int /\ disk.budget \in Int
      /\ hasBudget \in BOOLEAN /\ disk.hasBudget \in BOOLEAN
  BY DEF TypeOK, Saved
<1>m. forgotten \in Nat
  BY <1>t
<1>b. /\ hasBudget => count \in 0 .. budget
      /\ hasBudget /\ pc \in {"sending", "counting"} => count + cur <= budget
      /\ disk.hasBudget => disk.count \in 0 .. disk.budget
      /\ hasBudget => metered <= count + forgotten
                                  + (IF pc = "counting" THEN cur ELSE 0)
      /\ disk.hasBudget => metered <= disk.count + forgotten
                                  + (IF DiskIsCurrent THEN 0 ELSE MaxSize)
      /\ hasBudget => budget + MaxSize <= MaxInt
      /\ disk.hasBudget => disk.budget + MaxSize <= MaxInt
      /\ pc \in {"savingCount", "savingReset"} => ~disk.hasBudget
  BY DEF BudgetsHold, CountWithinBudget, CountsBoundMetered
<1> DEFINE
      Goal ==
      /\ hasBudget' => count' \in 0 .. budget'
      /\ hasBudget' /\ pc' \in {"sending", "counting"} => count' + cur' <= budget'
      /\ disk'.hasBudget => disk'.count \in 0 .. disk'.budget
      /\ hasBudget' => metered' <= count' + restarts' * MaxSize
                                  + (IF pc' = "counting" THEN cur' ELSE 0)
      /\ disk'.hasBudget => metered' <= disk'.count + restarts' * MaxSize
                                  + (IF DiskIsCurrent' THEN 0 ELSE MaxSize)
      /\ hasBudget' => budget' + MaxSize <= MaxInt
      /\ disk'.hasBudget => disk'.budget + MaxSize <= MaxInt
      /\ pc' \in {"savingCount", "savingReset"} => ~disk'.hasBudget
<1>g. Goal => BudgetsHold'
  BY DEF BudgetsHold, CountWithinBudget, CountsBoundMetered
<1>z. ~zeroState.hasBudget
  BY DEF zeroState
<1>s. UNCHANGED restarts => restarts' * MaxSize = forgotten
  OBVIOUS
<1> HIDE DEF forgotten
<1>1. CASE Initial
  BY <1>1, <1>t, <1>m, <1>b, <1>s, <1>g
  DEF Initial, fields, chans, history, DiskIsCurrent
<1>2. CASE PeriodTimer
  <2>1. Reset /\ phase' = phase /\ UNCHANGED <<budget, hasBudget>>
    BY <1>2 DEF PeriodTimer
  <2>2. hasBudget' => budget' \in Nat /\ budget' + MaxSize <= MaxInt
    BY <1>t, <1>b, <2>1
  <2> QED BY <2>1, <2>2, ResetPreservesBudgets
<1>3. CASE Apply
  <2>1. Reset /\ phase' = phase
    BY <1>3 DEF Apply
  <2>2. PICK c \in conf : budget' = Word(Unit * c.Limit)
    BY <1>3 DEF Apply
  <2>3. c \in Configs
    BY DEF TypeOK
  <2>4. budget' \in Nat /\ budget' + MaxSize <= MaxInt
    BY <2>2, <2>3, BudgetFits
  <2> QED BY <2>1, <2>4, ResetPreservesBudgets
<1>4. CASE Receive
  <2>1. PICK n \in in :
            \/ pc' = "overBudget" /\ UNCHANGED cur
            \/ /\ ~(hasBudget /\ Word(n + count) > budget)
               /\ pc' = "sending" /\ cur' = n
    BY <1>4 DEF Receive
  <2>2. n \in 0 .. MaxSize
    BY DEF TypeOK
  <2>3. hasBudget => Word(n + count) = n + count
    BY <2>2, SumsFit
  <2>4. hasBudget /\ pc' = "sending" => n + count <= budget
    BY <2>1, <2>2, <2>3, <1>t
  <2> QED
    BY <1>4, <2>1, <2>2, <2>4, <1>t, <1>m, <1>b, <1>s, <1>g
    DEF Receive, fields, history, DiskIsCurrent
<1>5. CASE Drop
  BY <1>5, <1>t, <1>m, <1>b, <1>s, <1>g DEF Drop, fields, history, DiskIsCurrent
<1>6. CASE Send
  BY <1>6, <1>t, <1>m, <1>b, <1>s, <1>g DEF Send, fields, chans, DiskIsCurrent
<1>7. CASE Increment
  <2>1. hasBudget => count' = count + cur
    BY <1>7, <1>t, SumsFit DEF Increment
  <2>2. UNCHANGED <<budget, hasBudget, metered, restarts>> /\ pc = "counting"
    BY <1>7 DEF Increment, fields, history
  <2>3. CASE pc' = "savingCount" /\ disk' = zeroState
    BY <2>1, <2>2, <2>3, <1>t, <1>m, <1>b, <1>s, <1>g, <1>z
  <2>4. CASE pc' = AfterCounting(count', TRUE) /\ UNCHANGED disk
    BY <2>1, <2>2, <2>4, <1>t, <1>m, <1>b, <1>s, <1>g
    DEF AfterCounting, DiskIsCurrent
  <2> QED BY <1>7, <2>3, <2>4 DEF Increment, Create
<1>8. CASE FinishSave
  <2>1. /\ UNCHANGED <<budget, hasBudget, count, metered, restarts>>
        /\ pc \in {"savingCount", "savingReset"}
        /\ pc' \in {"initial", "overBudget", "underBudget"}
    BY <1>8 DEF FinishSave, AfterCounting, fields, history
  <2>2. \/ disk' = disk
        \/ disk' = [budget |-> budget, hasBudget |-> hasBudget,
                    count |-> count, left |-> left]
    BY <1>8 DEF FinishSave
  <2>3. CASE disk' = disk
    BY <2>1, <2>3, <1>t, <1>m, <1>b, <1>s, <1>g
  <2>4. CASE disk' = [budget |-> budget, hasBudget |-> hasBudget,
                      count |-> count, left |-> left]
    <3>1. /\ disk'.budget = budget /\ disk'.hasBudget = hasBudget
          /\ disk'.count = count
      BY <2>4
    <3> QED BY <2>1, <3>1, <1>t, <1>m, <1>b, <1>s, <1>g
  <2> QED BY <2>2, <2>3, <2>4
<1>9. CASE NoticeClosed
  BY <1>9, <1>t, <1>m, <1>b, <1>s, <1>g
  DEF NoticeClosed, fields, chans, history, DiskIsCurrent
<1>10. CASE Cleanup
  BY <1>10, <1>t, <1>m, <1>b, <1>s, <1>g
  DEF Cleanup, fields, chans, history, DiskIsCurrent
<1>11. CASE Tick
  <2>1. UNCHANGED <<pc, cur, budget, hasBudget, count, metered, restarts>>
    BY <1>11 DEF Tick, history
  <2>2. /\ disk'.budget = disk.budget /\ disk'.hasBudget = disk.hasBudget
        /\ disk'.count = disk.count
    BY <1>11 DEF Tick, TypeOK, Saved
  <2>3. DiskIsCurrent' = DiskIsCurrent
    BY <2>1 DEF DiskIsCurrent
  <2> QED BY <2>1, <2>2, <2>3, <1>t, <1>m, <1>b, <1>s, <1>g
<1>12. CASE Poll
  BY <1>12, <1>t, <1>m, <1>b, <1>s, <1>g DEF Poll, fields, history, DiskIsCurrent
<1>13. CASE Offer
  BY <1>13, <1>t, <1>m, <1>b, <1>s, <1>g DEF Offer, fields, history, DiskIsCurrent
<1>14. CASE CloseInput
  BY <1>14, <1>t, <1>m, <1>b, <1>s, <1>g
  DEF CloseInput, fields, history, DiskIsCurrent
<1>15. CASE Restart
  <2>1. restarts' * MaxSize = forgotten + MaxSize
    BY <1>15, <1>t DEF Restart, forgotten
  <2> QED
    BY <1>15, <2>1, <1>t, <1>m, <1>b, <1>g DEF Restart, DiskIsCurrent
<1>16. CASE UNCHANGED vars
  BY <1>16, <1>t, <1>m, <1>b, <1>s, <1>g DEF vars, DiskIsCurrent
<1> QED
  BY <1>1, <1>2, <1>3, <1>4, <1>5, <1>6, <1>7, <1>8, <1>9, <1>10, <1>11,
     <1>12, <1>13, <1>14, <1>15, <1>16 DEF Next

\* The strengthened invariant holds on a platform whose ints are wide enough.
THEOREM BudgetsAlwaysHold ==
    ASSUME FitsWord
    PROVE  Spec => []BudgetsHold
<1>1. Init => BudgetsHold
  <2> SUFFICES ASSUME Init PROVE BudgetsHold
    OBVIOUS
  <2>1. ~hasBudget /\ ~disk.hasBudget
    BY DEF Init, zeroState
  <2> QED BY <2>1 DEF BudgetsHold, CountWithinBudget, CountsBoundMetered
<1>2. TypeOK /\ BudgetsHold /\ [Next]_vars => BudgetsHold'
  BY StepPreservesBudgets
<1> QED BY <1>1, <1>2, TypeCorrect, PTL DEF Spec

\* Under a budget the counter stays between 0 and the budget, in memory and in
\* the file, whatever configurations arrive and wherever a crash interrupts a save.
THEOREM CountCorrect ==
    ASSUME FitsWord
    PROVE  Spec => []CountWithinBudget
<1>1. BudgetsHold => CountWithinBudget
  BY DEF BudgetsHold
<1> QED BY <1>1, BudgetsAlwaysHold, PTL

\* The limiter's promise: between two resets it sends no more than its budget,
\* plus at most one message for each restart of the client.
THEOREM BudgetEnforced ==
    ASSUME FitsWord
    PROVE  Spec => []SentWithinBudget
<1>1. TypeOK /\ BudgetsHold => SentWithinBudget
  <2> SUFFICES ASSUME TypeOK, BudgetsHold, hasBudget
               PROVE  metered <= budget + restarts * MaxSize
    BY DEF SentWithinBudget
  <2>1. /\ count \in Int /\ budget \in Int /\ cur \in Int /\ metered \in Int
        /\ restarts * MaxSize \in Int
    BY LimiterAssumption DEF TypeOK
  <2>2. /\ count <= budget
        /\ pc = "counting" => count + cur <= budget
        /\ metered <= count + restarts * MaxSize
                      + (IF pc = "counting" THEN cur ELSE 0)
    BY <2>1 DEF BudgetsHold, CountWithinBudget, CountsBoundMetered
  <2> QED BY <2>1, <2>2
<1> QED BY <1>1, TypeCorrect, BudgetsAlwaysHold, PTL
=============================================================================
