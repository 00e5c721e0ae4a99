-------------------------- MODULE MessageStoreProofs --------------------------
(***************************************************************************)
(* Proofs about MessageStore: its types, the durability of a message that  *)
(* was saved, and the size of the directory, for all messages, limits,     *)
(* capacities and numbers of restarts.                                     *)
(***************************************************************************)
EXTENDS MessageStore, FiniteSetTheorems, WellFoundedInduction, TLAPS

\* What a file that was not completely written holds, and what an error is.
LEMMA ItemTypes ==
    /\ errorItem \in Items
    /\ \A n \in Nat : Torn(n) \in Contents /\ Torn(n).msg = NoMsg
    /\ \A p \in Paths, m \in Msgs \cup {NoMsg} : [path |-> p, msg |-> m] \in Items
  BY DEF errorItem, Items, Torn, Contents

\* A file has a size in bytes, more than none if there is a message in it.
LEMMA FileSizeType ==
    ASSUME NEW m \in Msgs
    PROVE  FileSize(m) \in Nat
<1>1. Length[m] \in Nat /\ Overhead \in Nat
  BY StoreAssumption
<1> DEFINE n == Length[m]
<1> HIDE DEF n
<1>2. n \in Nat => 4 * ((n + 2) \div 3) \in Nat
  OBVIOUS
<1> QED BY <1>1, <1>2 DEF FileSize, n

\* Replacing, adding or removing a file.
LEMMA FileUpdates ==
    ASSUME NEW f, f \in [DOMAIN f -> Contents], DOMAIN f \subseteq Paths,
           NEW p \in Paths, NEW c \in Contents
    PROVE  /\ With(f, p, c) \in [DOMAIN With(f, p, c) -> Contents]
           /\ DOMAIN With(f, p, c) = DOMAIN f \cup {p}
           /\ With(f, p, c)[p] = c
           /\ \A q \in DOMAIN f \ {p} : With(f, p, c)[q] = f[q]
           /\ [f EXCEPT ![p] = c] \in [DOMAIN f -> Contents]
  BY DEF With

\* Removing a file leaves the others as they are.
LEMMA FileRemoval ==
    ASSUME NEW f, f \in [DOMAIN f -> Contents], DOMAIN f \subseteq Paths, NEW p
    PROVE  /\ Restrict(f, DOMAIN f \ {p}) \in
                [DOMAIN Restrict(f, DOMAIN f \ {p}) -> Contents]
           /\ DOMAIN Restrict(f, DOMAIN f \ {p}) = DOMAIN f \ {p}
           /\ \A q \in DOMAIN f \ {p} : Restrict(f, DOMAIN f \ {p})[q] = f[q]
  BY DEF Restrict

-----------------------------------------------------------------------------
\* Every reachable state is well typed, and no channel exceeds its capacity.
THEOREM StoreTypeCorrect == Spec => []TypeOK
<1> USE StoreAssumption
<1>1. Init => TypeOK
  <2> SUFFICES ASSUME Init PROVE TypeOK
    OBVIOUS
  <2>1. files \in [DOMAIN files -> Contents] /\ DOMAIN files \subseteq Paths
    BY DEF Init
  <2>2. loaded \in Items /\ sending \in Items
    BY ItemTypes DEF Init
  <2>3. pipe \in Seq(Items) /\ Len(pipe) <= PipeCap
    BY DEF Init
  <2>4. run \in 0 .. MaxRuns /\ count \in Nat /\ used \in Nat
    BY DEF Init
  <2>5. statFailed \in BOOLEAN /\ unseen \in BOOLEAN
    BY Zenon DEF Init
  <2>6. /\ stored \subseteq Items /\ early \cup misread \subseteq Paths
        /\ published \subseteq Msgs
    BY DEF Init
  <2> QED BY <2>1, <2>2, <2>3, <2>4, <2>5, <2>6 DEF Init, TypeOK
<1>2. TypeOK /\ [Next]_vars => TypeOK'
  <2> SUFFICES ASSUME TypeOK, [Next]_vars PROVE TypeOK'
    OBVIOUS
  <2> USE DEF TypeOK
  <2>1. CASE PollStorage
    BY <2>1 DEF PollStorage, converter, loading, sender, history
  <2>2. CASE SetLimit
    <3>1. limit' \in Limits \cup {NoLimit}
      BY <2>2 DEF SetLimit
    <3>2. newLimit' \subseteq Limits /\ (\A l, k \in newLimit' : l = k)
      BY <2>2 DEF SetLimit
    <3> HIDE DEF TypeOK
    <3>3. UNCHANGED <<files, run, converter, loading, pipe, sender, history>>
      BY <2>2 DEF SetLimit
    <3> QED BY <3>1, <3>2, <3>3 DEF TypeOK, converter, loading, sender, history
  <2>3. CASE Convert
    BY <2>3 DEF Convert, storage, loading, sender, history
  <2>4. CASE TakeLimit
    BY <2>4 DEF TakeLimit, storage, loading, sender, history
  <2>5. CASE ListFiles
    BY <2>5 DEF ListFiles, storage, loading, sender, history
  <2>6. CASE StatFile
    <3>1. PICK p \in unsized :
            /\ unsized' = unsized \ {p}
            /\ \/ p \in DOMAIN files /\ used' = used + files[p].size
                  /\ UNCHANGED statFailed
               \/ statFailed' = TRUE /\ UNCHANGED used
      BY <2>6 DEF StatFile
    <3>2. p \in DOMAIN files => files[p].size \in Nat
      BY DEF Contents
    <3>3. statFailed' \in BOOLEAN
      BY <3>1, Zenon
    <3>4. unsized' \subseteq Paths
      BY <3>1
    <3>5. used' \in Nat
      BY <3>1, <3>2
    <3> QED BY <2>6, <3>3, <3>4, <3>5 DEF StatFile, storage, loading, sender, history
  <2>7. CASE Admit
    <3>1. PidOf[run] \in Pids
      OBVIOUS
    <3>2. /\ path' \in Paths \cup {NoPath} /\ count' \in Nat
          /\ conv' \in {"create", "refuse"}
      BY <2>7, <3>1 DEF Admit, Paths
    <3> QED BY <2>7, <3>2 DEF Admit, storage, loading, sender, history
  <2>8. CASE OpenFile
    <3>1. path \in Paths
      BY <2>8 DEF OpenFile
    <3>2. files' = With(files, path, Torn(0)) \/ files' = files
      BY <2>8 DEF OpenFile
    <3>3. files' \in [DOMAIN files' -> Contents] /\ DOMAIN files' \subseteq Paths
      <4>1. /\ Torn(0) \in Contents /\ files \in [DOMAIN files -> Contents]
            /\ DOMAIN files \subseteq Paths
        BY ItemTypes
      <4> HIDE DEF TypeOK
      <4>2. /\ With(files, path, Torn(0)) \in
                  [DOMAIN With(files, path, Torn(0)) -> Contents]
            /\ DOMAIN With(files, path, Torn(0)) = DOMAIN files \cup {path}
        BY <3>1, <4>1, FileUpdates
      <4>3. CASE files' = With(files, path, Torn(0))
        BY <3>1, <4>1, <4>2, <4>3
      <4>4. CASE files' = files
        BY <4>1, <4>4
      <4> QED BY <3>2, <4>3, <4>4
    <3> QED BY <2>8, <3>3 DEF OpenFile, storage, loading, sender, history
  <2>9. CASE WriteFile
    <3>1. path \in Paths /\ msg \in Msgs
      BY <2>9 DEF WriteFile
    <3>2. FileSize(msg) \in Nat
      BY <3>1, FileSizeType
    <3>3. \E c \in Contents : files' \in {[files EXCEPT ![path] = c], files}
      <4>1. [msg |-> msg, size |-> FileSize(msg)] \in Contents
        BY <3>1, <3>2 DEF Contents
      <4>2. \A n \in 0 .. FileSize(msg) - 1 : Torn(n) \in Contents
        BY <3>2, ItemTypes
      <4> QED BY <2>9, <4>1, <4>2 DEF WriteFile
    <3>4. files' \in [DOMAIN files' -> Contents] /\ DOMAIN files' \subseteq Paths
      BY <3>1, <3>3, FileUpdates
    <3>5. stored' \subseteq Items
      BY <2>9, <3>1, ItemTypes DEF WriteFile
    <3>6. conv' \in {"emit", "refuse"}
      BY <2>9 DEF WriteFile
    <3>7. /\ UNCHANGED <<run, storage, count, todo, msg, path, lim, unsized, used,
                         statFailed, loading, pipe, sender, early, misread, published>>
          /\ unseen' = FALSE
      BY <2>9 DEF WriteFile
    <3> QED
      BY <3>1, <3>4, <3>5, <3>6, <3>7 DEF storage, loading, sender
  <2>10. CASE Emit
    <3>1. PICK x \in Items : pipe' = Append(pipe, x)
      BY <2>10, ItemTypes DEF Emit
    <3>2. pipe' \in Seq(Items) /\ Len(pipe') <= PipeCap
      BY <2>10, <3>1 DEF Emit
    <3> QED BY <2>10, <3>2 DEF Emit, storage, loading, sender, history
  <2>11. CASE ListLeftovers
    BY <2>11, ItemTypes DEF ListLeftovers, storage, converter, sender, history
  <2>12. CASE LoadMessage
    <3>1. PICK p \in toLoad :
            /\ toLoad' = toLoad \ {p}
            /\ \/ p \in DOMAIN files /\ loaded' = [path |-> p, msg |-> files[p].msg]
               \/ loaded' = [path |-> p, msg |-> NoMsg]
            /\ early' \cup misread' \subseteq early \cup misread \cup {p}
      BY <2>12 DEF LoadMessage, Misreads
    <3>2. p \in DOMAIN files => files[p].msg \in Msgs \cup {NoMsg}
      BY DEF Contents
    <3>3. loaded' \in Items /\ toLoad' \subseteq Paths
          /\ early' \cup misread' \subseteq Paths
      BY <3>1, <3>2, ItemTypes
    <3> QED BY <2>12, <3>3 DEF LoadMessage, storage, converter, sender
  <2>13. CASE EmitLoaded
    <3>1. pipe' \in Seq(Items) /\ Len(pipe') <= PipeCap
      BY <2>13 DEF EmitLoaded
    <3> QED BY <2>13, <3>1 DEF EmitLoaded, storage, converter, sender, history
  <2>14. CASE EndLoading
    BY <2>14 DEF EndLoading, storage, converter, sender, history
  <2>15. CASE LimiterDrop
    <3>1. pipe' \in Seq(Items) /\ Len(pipe') <= PipeCap
      BY <2>15 DEF LimiterDrop
    <3> QED BY <2>15, <3>1 DEF LimiterDrop, storage, converter, loading, sender, history
  <2>16. CASE Publish
    <3>1. pipe' \in Seq(Items) /\ Len(pipe') <= PipeCap /\ sending' \in Items
      BY <2>16 DEF Publish
    <3> QED BY <2>16, <3>1 DEF Publish, storage, converter, loading, history
  <2>17. CASE Restart
    <3>1. pipe' \in Seq(Items) /\ Len(pipe') <= PipeCap
      BY <2>17 DEF Restart
    <3>2. run' \in 0 .. MaxRuns
      BY <2>17 DEF Restart
    <3> QED BY <2>17, <3>1, <3>2, ItemTypes DEF Restart, history
  <2>18. Received \subseteq Msgs
    BY DEF Received, Items
  <2>19. CASE Acknowledged
    BY <2>18, <2>19 DEF Acknowledged, storage, converter, loading
  <2>20. CASE PublishFails
    BY <2>18, <2>20 DEF PublishFails, storage, converter, loading
  <2>21. CASE Remove
    <3>1. files' \in [DOMAIN files' -> Contents] /\ DOMAIN files' \subseteq Paths
      <4>1. files \in [DOMAIN files -> Contents] /\ DOMAIN files \subseteq Paths
        OBVIOUS
      <4>2. CASE files' = Restrict(files, DOMAIN files \ {sending.path})
        <5>1. DOMAIN files' = DOMAIN files \ {sending.path}
          BY <4>2 DEF Restrict
        <5>2. files' \in [DOMAIN files' -> Contents]
          BY <4>1, <4>2, <5>1, FileRemoval
        <5> QED BY <4>1, <5>1, <5>2, Zenon
      <4>3. CASE UNCHANGED files
        BY <4>1, <4>3
      <4> QED BY <2>21, <4>2, <4>3 DEF Remove
    <3>2. producer' = "idle"
          /\ UNCHANGED <<run, storage, converter, loading, pipe, sending, history>>
      BY <2>21 DEF Remove
    <3> QED BY <3>1, <3>2 DEF storage, converter, loading, history
  <2>22. CASE UNCHANGED vars
    BY <2>22 DEF vars, storage, converter, loading, sender, history
  <2> QED
    BY <2>1, <2>2, <2>3, <2>4, <2>5, <2>6, <2>7, <2>8, <2>9, <2>10, <2>11,
       <2>12, <2>13, <2>14, <2>15, <2>16, <2>17, <2>19, <2>20, <2>21, <2>22
    DEF Next, Steps
<1> QED BY <1>1, <1>2, PTL DEF Spec

-----------------------------------------------------------------------------
\* What is genuine stays so.
LEMMA GenuineStays ==
    ASSUME stored \subseteq stored',
           early \subseteq early', misread \subseteq misread',
           NEW x, Genuine(x)
    PROVE  Genuine(x)'
  BY DEF Genuine

\* A path that was handed out is not the next one to be handed out.
LEMMA NextPathFresh ==
    ASSUME PidsFresh, TypeOK, NEW p, HandedOut(p)
    PROVE  p # <<PidOf[run], count>>
<1> SUFFICES ASSUME p = <<PidOf[run], count>> PROVE FALSE
  OBVIOUS
<1>1. PICK r \in 0 .. run : p[1] = PidOf[r] /\ (r = run => p[2] < count)
  BY DEF HandedOut
<1>2. p[1] = PidOf[run] /\ p[2] = count
  OBVIOUS
<1>3. r \in 0 .. MaxRuns /\ run \in 0 .. MaxRuns /\ count \in Nat
  BY StoreAssumption DEF TypeOK
<1>4. r = run
  BY <1>1, <1>2, <1>3 DEF PidsFresh
<1> QED BY <1>1, <1>2, <1>3, <1>4

\* Nobody but WriteFile, LoadMessage, the producer and the converter's other steps
\* on its file touches what the invariant speaks of.
Undisturbed ==
    /\ UNCHANGED <<files, stored, early, misread, published>>
    /\ run' = run /\ count' = count

\* Both invariants survive a step that leaves the files and what was handed out alone.
LEMMA PathsOwnedStays ==
    ASSUME TypeOK, PathsOwned, Durable, Undisturbed,
           producer' = "removing" => producer = "removing" /\ sending' = sending,
           Genuine(loaded'), Genuine(sending'),
           \A i \in 1 .. Len(pipe') : Genuine(pipe'[i])
    PROVE  PathsOwned' /\ Durable'
  BY DEF PathsOwned, Durable, Undisturbed, Genuine, OnDisk, HandedOut, StoredPaths

\* What is in the pipe after a message was appended, or taken.
LEMMA PipeAppended ==
    ASSUME TypeOK, PathsOwned, NEW x \in Items, Genuine(x), pipe' = Append(pipe, x)
    PROVE  \A i \in 1 .. Len(pipe') : Genuine(pipe'[i])
  BY DEF TypeOK, PathsOwned

\* The same after one was taken.
LEMMA PipeTaken ==
    ASSUME TypeOK, PathsOwned, pipe # <<>>, pipe' = Tail(pipe)
    PROVE  /\ \A i \in 1 .. Len(pipe') : Genuine(pipe'[i])
           /\ Genuine(Head(pipe))
  BY DEF TypeOK, PathsOwned

\* The steps of the others, which remove no file that is being written.
LEMMA SavingStays ==
    ASSUME Saving, UNCHANGED <<converter, run, stored>>,
           DOMAIN files' \subseteq DOMAIN files,
           conv = "write" => path \in DOMAIN files' \cup early'
    PROVE  Saving'
  BY DEF Saving, converter, StoredPaths

\* Every step preserves the invariant.
LEMMA StepKeepsMessages ==
    ASSUME PidsFresh, TypeOK, PathsOwned, Saving, Durable, [Next]_vars
    PROVE  PathsOwned' /\ Saving' /\ Durable'
<1> USE StoreAssumption
<1>e. Genuine(errorItem) /\ errorItem \in Items
  BY ItemTypes DEF Genuine
<1>o. /\ Genuine(loaded) /\ Genuine(sending)
      /\ \A i \in 1 .. Len(pipe) : Genuine(pipe[i])
  BY DEF PathsOwned
<1>1. CASE PollStorage \/ SetLimit \/ ListLeftovers \/ EndLoading
  <2>1. /\ Undisturbed /\ UNCHANGED <<converter, pipe, sender>>
        /\ loaded' \in {loaded, errorItem}
    BY <1>1
    DEF PollStorage, SetLimit, ListLeftovers, EndLoading, Undisturbed, history,
        loading, converter
  <2>2. PathsOwned' /\ Durable'
    BY <2>1, <1>e, <1>o, PathsOwnedStays DEF sender
  <2>3. Saving'
    BY <2>1, SavingStays DEF Undisturbed, Saving
  <2> QED BY <2>2, <2>3
<1>2. CASE Convert \/ TakeLimit \/ ListFiles \/ StatFile
  <2>1. /\ Undisturbed /\ UNCHANGED <<loading, pipe, sender>>
        /\ conv' \in {"limit", "list", "size", "refuse"}
    BY <1>2 DEF Convert, TakeLimit, ListFiles, StatFile, Undisturbed, history
  <2>2. PathsOwned' /\ Durable'
    BY <2>1, <1>o, PathsOwnedStays DEF sender, loading
  <2>3. Saving'
    BY <2>1 DEF Saving
  <2> QED BY <2>2, <2>3
<1>3. CASE Admit
  <2>1. /\ UNCHANGED <<files, run, loading, pipe, sender, history>>
        /\ \/ conv' = "refuse" /\ count' = count
           \/ /\ conv' = "create" /\ count' = count + 1
              /\ path' = <<PidOf[run], count>>
    BY <1>3 DEF Admit
  <2>2. count \in Nat /\ DOMAIN files \cup StoredPaths \subseteq Paths
    BY DEF TypeOK, PathsOwned, StoredPaths
  <2>3. \A p \in Paths : HandedOut(p) => HandedOut(p)'
    BY <2>1, <2>2 DEF HandedOut, Paths
  <2>4. \A p \in DOMAIN files \cup StoredPaths :
            HandedOut(p)' /\ p # <<PidOf[run], count>>
    BY <2>2, <2>3, NextPathFresh DEF PathsOwned
  <2>5. PathsOwned'
    BY <2>1, <2>4
    DEF PathsOwned, Genuine, StoredPaths, loading, sender, history
  <2>6. Durable'
    BY <2>1 DEF Durable, OnDisk, history
  <2>7. Saving'
    <3>1. UNCHANGED <<files, StoredPaths>>
      BY <2>1 DEF StoredPaths, history
    <3>2. CASE conv' = "refuse"
      BY <3>2 DEF Saving
    <3>3. CASE conv' = "create"
      <4>1. /\ count' > 0 /\ path' = <<PidOf[run'], count' - 1>>
            /\ path' \notin StoredPaths' /\ path' \notin DOMAIN files'
        BY <2>1, <2>2, <2>4, <3>1, <3>3
      <4> QED BY <3>3, <4>1 DEF Saving
    <3> QED BY <2>1, <3>2, <3>3
  <2> QED BY <2>5, <2>6, <2>7
<1>4. CASE OpenFile
  <2>1. CASE conv' = "refuse" /\ UNCHANGED files
    <3>1. Undisturbed /\ UNCHANGED <<loading, pipe, sender>>
      BY <1>4, <2>1 DEF OpenFile, Undisturbed, history
    <3> QED BY <1>o, <2>1, <3>1, PathsOwnedStays DEF Saving, sender, loading
  <2>2. CASE conv' = "write" /\ files' = With(files, path, Torn(0))
    <3>1. /\ UNCHANGED <<run, count, path, msg, loading, pipe, sender, history>>
          /\ conv = "create" /\ path \in Paths
      BY <1>4, <2>2 DEF OpenFile, TypeOK
    <3>2. /\ path \notin DOMAIN files /\ path \notin StoredPaths
          /\ count > 0 /\ path = <<PidOf[run], count - 1>>
      BY <3>1 DEF Saving
    <3>3. /\ DOMAIN files' = DOMAIN files \cup {path}
          /\ files'[path].msg = NoMsg
          /\ \A q \in DOMAIN files : files'[q] = files[q]
      <4>1. /\ files \in [DOMAIN files -> Contents] /\ DOMAIN files \subseteq Paths
            /\ Torn(0) \in Contents /\ Torn(0).msg = NoMsg
        BY ItemTypes DEF TypeOK
      <4>2. /\ DOMAIN With(files, path, Torn(0)) = DOMAIN files \cup {path}
            /\ With(files, path, Torn(0))[path] = Torn(0)
            /\ \A q \in DOMAIN files \ {path} :
                    With(files, path, Torn(0))[q] = files[q]
        BY DEF With
      <4>3. files' = With(files, path, Torn(0))
        BY <2>2
      <4> QED BY <3>2, <4>1, <4>2, <4>3
    <3>4. HandedOut(path)
      <4>1. run \in 0 .. run /\ count \in Nat
        BY DEF TypeOK
      <4> QED BY <3>2, <4>1 DEF HandedOut
    <3>5. \A p \in DOMAIN files' \cup StoredPaths' : HandedOut(p)'
      BY <3>1, <3>3, <3>4 DEF PathsOwned, HandedOut, StoredPaths, history
    <3>6. PathsOwned'
      <4>1. /\ Genuine(loaded)' /\ Genuine(sending)'
            /\ (\A i \in 1 .. Len(pipe) : Genuine(pipe[i]))'
        BY <1>o, <3>1 DEF Genuine, loading, sender, history
      <4>2. \A p \in DOMAIN files' : files'[p].msg # NoMsg =>
                [path |-> p, msg |-> files'[p].msg] \in stored'
        BY <3>1, <3>3 DEF PathsOwned, history
      <4>3. misread' \subseteq StoredPaths'
        BY <3>1 DEF PathsOwned, StoredPaths, history
      <4>4. UNCHANGED <<stored, early, misread, published, producer, sending>>
        BY <3>1 DEF sender, history
      <4>5. /\ \A s, t \in stored' : s.path = t.path => s = t
            /\ \A s \in stored' : s.path \in Paths /\ s.msg # NoMsg
            /\ producer' = "removing" => sending'.msg \in published' \cup {NoMsg}
        BY <4>4 DEF PathsOwned
      <4>6. ~DiskFails => \A s \in stored' :
                s.path \in misread' => s.msg \in published' \/ s.path \in early'
        BY <4>4 DEF PathsOwned
      <4> QED BY <3>5, <4>1, <4>2, <4>3, <4>5, <4>6 DEF PathsOwned
    <3>7. Durable'
      BY <3>1, <3>3 DEF Durable, OnDisk, history
    <3>8. Saving'
      BY <2>2, <3>1, <3>2, <3>3 DEF Saving, StoredPaths, history
    <3> QED BY <3>6, <3>7, <3>8
  <2> QED BY <1>4, <2>1, <2>2 DEF OpenFile
<1>5. CASE WriteFile
  <2>1. /\ UNCHANGED <<run, count, path, msg, loading, pipe, sender, early, misread,
                       published>>
        /\ conv = "write" /\ path \in Paths /\ msg \in Msgs
    BY <1>5 DEF WriteFile, TypeOK
  <2>2. /\ path \notin StoredPaths /\ path \in DOMAIN files \cup early
        /\ count > 0 /\ path = <<PidOf[run], count - 1>>
    BY <2>1 DEF Saving
  <2>3. HandedOut(path)
    <3>1. run \in 0 .. run /\ count \in Nat
      BY DEF TypeOK
    <3> QED BY <2>2, <3>1 DEF HandedOut
  <2>4. NoMsg \notin Msgs /\ files \in [DOMAIN files -> Contents]
    BY StoreAssumption DEF TypeOK
  <2> DEFINE x == [path |-> path, msg |-> msg]
  <2> HIDE DEF x
  <2>5. x.path = path /\ x.msg = msg /\ x.msg # NoMsg
    BY <2>1, <2>4 DEF x
  <2>6. DOMAIN files' = DOMAIN files
    BY <1>5 DEF WriteFile
  <2>7. \A q \in DOMAIN files \ {path} : files'[q] = files[q]
    BY <1>5, <2>4 DEF WriteFile
  <2>8. CASE conv' = "emit" /\ stored' = stored \cup {x}
    <3>1. path \in DOMAIN files => files'[path].msg = msg
      BY <1>5, <2>1, <2>4, <2>8 DEF WriteFile
    <3>2. StoredPaths' = StoredPaths \cup {path}
      BY <2>5, <2>8 DEF StoredPaths
    <3>3. \A p \in DOMAIN files' \cup StoredPaths' : HandedOut(p)'
      BY <2>1, <2>2, <2>3, <2>6, <3>2 DEF PathsOwned, HandedOut
    <3>4. \A p \in DOMAIN files' : files'[p].msg # NoMsg =>
              [path |-> p, msg |-> files'[p].msg] \in stored'
      BY <2>6, <2>7, <2>8, <3>1 DEF PathsOwned, x
    <3>5. \A s, t \in stored' : s.path = t.path => s = t
      BY <2>2, <2>5, <2>8 DEF PathsOwned, StoredPaths
    <3>6. \A s \in stored' : s.path \in Paths /\ s.msg # NoMsg
      BY <2>1, <2>5, <2>8 DEF PathsOwned
    <3>7. /\ stored \subseteq stored' /\ early \subseteq early'
          /\ misread \subseteq misread'
      BY <2>1, <2>8
    <3>m. /\ misread' \subseteq StoredPaths'
          /\ ~DiskFails => \A s \in stored' :
                s.path \in misread' => s.msg \in published' \/ s.path \in early'
      BY <2>1, <2>2, <2>5, <2>8, <3>2 DEF PathsOwned
    <3>8. PathsOwned'
      BY <1>o, <2>1, <3>3, <3>4, <3>5, <3>6, <3>7, <3>m, GenuineStays
      DEF PathsOwned, loading, sender
    <3>9. Durable'
      BY <2>1, <2>2, <2>5, <2>6, <2>7, <2>8, <3>1
      DEF Durable, OnDisk, StoredPaths
    <3>10. Saving'
      BY <2>1, <2>8 DEF Saving, x
    <3> QED BY <3>8, <3>9, <3>10
  <2>9. CASE conv' = "refuse" /\ UNCHANGED stored
    <3>1. path \in DOMAIN files => files'[path].msg = NoMsg
      BY <1>5, <2>4, <2>9 DEF WriteFile, Torn
    <3>2. StoredPaths' = StoredPaths
      BY <2>9 DEF StoredPaths
    <3>3. \A p \in DOMAIN files' \cup StoredPaths' : HandedOut(p)'
      BY <2>1, <2>6, <3>2 DEF PathsOwned, HandedOut
    <3>4. \A p \in DOMAIN files' : files'[p].msg # NoMsg =>
              [path |-> p, msg |-> files'[p].msg] \in stored'
      BY <2>6, <2>7, <2>9, <3>1 DEF PathsOwned
    <3>5. PathsOwned'
      BY <2>1, <2>9, <3>2, <3>3, <3>4 DEF PathsOwned, Genuine, loading, sender
    <3>6. Durable'
      BY <2>1, <2>2, <2>6, <2>7, <2>9 DEF Durable, OnDisk, StoredPaths
    <3>7. Saving'
      BY <2>9 DEF Saving
    <3> QED BY <3>5, <3>6, <3>7
  <2> QED BY <1>5, <2>8, <2>9 DEF WriteFile, x
<1>6. CASE Emit
  <2>1. /\ Undisturbed /\ UNCHANGED <<loading, sender>> /\ conv' = "idle"
        /\ pipe' = Append(pipe, IF conv = "emit"
                                THEN [path |-> path, msg |-> msg] ELSE errorItem)
    BY <1>6 DEF Emit, Undisturbed, history
  <2>2. PICK x \in Items : Genuine(x) /\ pipe' = Append(pipe, x)
    <3>1. CASE conv = "emit"
      BY <2>1, <3>1 DEF Saving, Genuine, TypeOK
    <3>2. CASE conv # "emit"
      BY <1>e, <2>1, <3>2
    <3> QED BY <3>1, <3>2
  <2>3. \A i \in 1 .. Len(pipe') : Genuine(pipe'[i])
    BY <2>2, PipeAppended
  <2>4. PathsOwned' /\ Durable'
    BY <1>o, <2>1, <2>3, PathsOwnedStays DEF loading, sender
  <2>5. Saving'
    BY <2>1 DEF Saving
  <2> QED BY <2>4, <2>5
<1>7. CASE EmitLoaded
  <2>1. /\ Undisturbed /\ UNCHANGED <<converter, loaded, sender>>
        /\ pipe' = Append(pipe, loaded)
    BY <1>7 DEF EmitLoaded, Undisturbed, history, converter
  <2>2. loaded \in Items
    BY DEF TypeOK
  <2>3. \A i \in 1 .. Len(pipe') : Genuine(pipe'[i])
    BY <1>o, <2>1, <2>2, PipeAppended
  <2>4. PathsOwned' /\ Durable'
    BY <1>o, <2>1, <2>3, PathsOwnedStays DEF sender
  <2>5. Saving'
    BY <2>1, SavingStays DEF Undisturbed, Saving
  <2> QED BY <2>4, <2>5
<1>8. CASE LimiterDrop \/ Publish
  <2>1. /\ Undisturbed /\ UNCHANGED <<converter, loading>>
        /\ pipe # <<>> /\ pipe' = Tail(pipe)
        /\ \/ UNCHANGED sender
           \/ producer' = "publishing" /\ sending' = Head(pipe)
    BY <1>8 DEF LimiterDrop, Publish, Undisturbed, history, converter
  <2>2. /\ \A i \in 1 .. Len(pipe') : Genuine(pipe'[i])
        /\ Genuine(sending')
    BY <1>o, <2>1, PipeTaken DEF sender
  <2>3. PathsOwned' /\ Durable'
    BY <1>o, <2>1, <2>2, PathsOwnedStays DEF loading, sender
  <2>4. Saving'
    BY <2>1, SavingStays DEF Undisturbed, Saving
  <2> QED BY <2>3, <2>4
<1>9. CASE LoadMessage
  <2>1. PICK p \in toLoad :
          /\ \/ p \in DOMAIN files /\ loaded' = [path |-> p, msg |-> files[p].msg]
             \/ /\ p \notin DOMAIN files \/ DiskFails
                /\ loaded' = [path |-> p, msg |-> NoMsg]
          /\ Misreads(p)
    BY <1>9 DEF LoadMessage
  <2>2. UNCHANGED <<files, run, storage, converter, pipe, sender, stored, published>>
    BY <1>9 DEF LoadMessage
  <2>3. /\ stored \subseteq stored' /\ early \subseteq early'
        /\ misread \subseteq misread' /\ StoredPaths' = StoredPaths
    BY <2>1, <2>2 DEF Misreads, StoredPaths
  <2>4. Genuine(loaded)'
    <3>1. CASE loaded'.msg = NoMsg
      BY <2>1, <3>1 DEF Genuine, Misreads
    <3>2. CASE loaded'.msg # NoMsg
      BY <2>1, <2>2, <3>2 DEF Genuine, PathsOwned
    <3> QED BY <3>1, <3>2
  <2>5. misread' \subseteq StoredPaths'
    BY <2>1, <2>3 DEF Misreads, PathsOwned
  <2>6. ASSUME ~DiskFails, NEW s \in stored, s.path \in misread'
        PROVE  s.msg \in published \/ s.path \in early'
    <3>1. CASE s.path \in misread
      BY <2>3, <2>6, <3>1 DEF PathsOwned
    <3>2. CASE s.path \notin misread
      <4>1. s.path = p /\ loaded'.msg = NoMsg
        BY <2>1, <2>6, <3>2 DEF Misreads
      <4>2. ~OnDisk(s)
        BY <2>1, <2>6, <4>1 DEF OnDisk, PathsOwned
      <4> QED BY <2>3, <2>6, <4>2 DEF Durable
    <3> QED BY <3>1, <3>2
  <2>7. PathsOwned'
    BY <1>o, <2>2, <2>3, <2>4, <2>5, <2>6, GenuineStays
    DEF PathsOwned, HandedOut, converter, sender
  <2>8. Durable'
    BY <2>2, <2>3 DEF Durable, OnDisk
  <2>9. Saving'
    BY <2>2, <2>3, SavingStays DEF Saving
  <2> QED BY <2>7, <2>8, <2>9
<1>10. CASE Acknowledged \/ PublishFails
  <2>1. /\ UNCHANGED <<files, run, storage, converter, loading, pipe, sending,
                       stored, early, misread>>
        /\ producer' = "idle" \/ published' = Received
        /\ published \subseteq published'
    BY <1>10 DEF Acknowledged, PublishFails, Received
  <2>2. producer' = "removing" => sending'.msg \in published' \cup {NoMsg}
    BY <2>1 DEF Received
  <2>3. PathsOwned'
    BY <2>1, <2>2
    DEF PathsOwned, Genuine, HandedOut, StoredPaths, converter, loading
  <2>4. Durable'
    BY <2>1 DEF Durable, OnDisk
  <2>5. Saving'
    BY <2>1, SavingStays DEF Saving
  <2> QED BY <2>3, <2>4, <2>5
<1>11. CASE Remove
  <2>1. /\ UNCHANGED <<run, storage, converter, loading, pipe, sending, history>>
        /\ producer = "removing" /\ producer' = "idle"
        /\ files' \in {files, Restrict(files, DOMAIN files \ {sending.path})}
    BY <1>11 DEF Remove
  <2>2. files \in [DOMAIN files -> Contents] /\ DOMAIN files \subseteq Paths
    BY DEF TypeOK
  <2>3. /\ DOMAIN files' \in {DOMAIN files, DOMAIN files \ {sending.path}}
        /\ \A q \in DOMAIN files' : files'[q] = files[q]
    <3> DEFINE rest == Restrict(files, DOMAIN files \ {sending.path})
    <3>1. /\ DOMAIN rest = DOMAIN files \ {sending.path}
          /\ \A q \in DOMAIN files \ {sending.path} : rest[q] = files[q]
      BY ONLY <2>2, FileRemoval
    <3>2. files' \in {files, rest}
      BY <2>1
    <3> QED BY ONLY <3>1, <3>2
  <2>4. \/ sending.path \notin DOMAIN files
        \/ sending.path \in early \cup misread
        \/ sending \in stored /\ sending.msg \in published
    BY <1>o, <2>1, <2>2 DEF PathsOwned, Genuine, errorItem, Paths
  <2>5. PathsOwned'
    BY <2>1, <2>3
    DEF PathsOwned, Genuine, HandedOut, StoredPaths, converter, loading, history
  <2>6. Durable'
    <3> SUFFICES ASSUME NEW s \in stored, s.msg \notin published, s.path \notin early,
                        ~(DiskFails /\ s.path \in misread)
                 PROVE  OnDisk(s)'
      BY <2>1 DEF Durable, history
    <3>1. OnDisk(s) /\ s.path \notin misread
      BY DEF Durable, PathsOwned
    <3>2. s.path # sending.path
      BY <2>4, <3>1 DEF OnDisk, PathsOwned
    <3> QED BY <2>3, <3>1, <3>2 DEF OnDisk
  <2>7. conv = "write" => path \in DOMAIN files' \cup early'
    BY <2>1, <2>3, <2>4 DEF Saving, StoredPaths, PathsOwned, history
  <2>8. Saving'
    BY <2>1, <2>3, <2>7, SavingStays DEF history
  <2> QED BY <2>5, <2>6, <2>8
<1>12. CASE Restart
  <2>1. /\ run' = run + 1 /\ conv' = "idle" /\ producer' = "idle" /\ pipe' = <<>>
        /\ loaded' = errorItem /\ sending' = errorItem
        /\ UNCHANGED <<files, history>>
    BY <1>12 DEF Restart
  <2>2. run \in Nat
    BY DEF TypeOK
  <2>3. \A p : HandedOut(p) => HandedOut(p)'
    BY <2>1, <2>2 DEF HandedOut
  <2>4. PathsOwned'
    BY <2>1, <2>3 DEF PathsOwned, Genuine, StoredPaths, history
  <2>5. Durable' /\ Saving'
    BY <2>1 DEF Durable, OnDisk, Saving, history
  <2> QED BY <2>4, <2>5
<1>13. CASE UNCHANGED vars
  <2>1. /\ Undisturbed /\ UNCHANGED <<converter, loading, pipe, sender>>
    BY <1>13 DEF vars, Undisturbed, history, converter
  <2>2. PathsOwned' /\ Durable'
    BY <1>o, <2>1, PathsOwnedStays DEF loading, sender
  <2>3. Saving'
    BY <2>1, SavingStays DEF Undisturbed, Saving
  <2> QED BY <2>2, <2>3
<1> QED
  BY <1>1, <1>2, <1>3, <1>4, <1>5, <1>6, <1>7, <1>8, <1>9, <1>10, <1>11, <1>12,
     <1>13 DEF Next, Steps

\* Where the messages are, in every reachable state.
LEMMA StoreInvariant ==
    ASSUME PidsFresh
    PROVE  Spec => [](TypeOK /\ PathsOwned /\ Saving /\ Durable)
<1>1. Init => PathsOwned /\ Saving /\ Durable
  BY DEF Init, PathsOwned, Saving, Durable, Genuine, StoredPaths
<1>2. PidsFresh /\ TypeOK /\ PathsOwned /\ Saving /\ Durable /\ [Next]_vars
        => PathsOwned' /\ Saving' /\ Durable'
  BY StepKeepsMessages
<1>3. PidsFresh
  OBVIOUS
<1> QED BY <1>1, <1>2, <1>3, StoreTypeCorrect, PTL DEF Spec

\* When no two runs have the same process identifier, a message that was saved is on
\* disk until the broker has it, unless the loader read its file before the message
\* was in it or, where the disk may fail, could not read it: for all messages,
\* restarts, limits and capacities.
THEOREM MessagesDurable ==
    ASSUME PidsFresh
    PROVE  Spec => []Durable
<1>1. Spec => [](TypeOK /\ PathsOwned /\ Saving /\ Durable)
  BY StoreInvariant
<1> QED BY <1>1, PTL

-----------------------------------------------------------------------------
(* Sums over finite sets.                                                  *)

\* The provers do no induction: here it is for the subsets of a finite set, with a
\* set T of them where the library's theorem has an operator.
LEMMA SubsetInduction ==
    ASSUME NEW S, IsFiniteSet(S), NEW T,
           \A s \in SUBSET S : (\A x \in s : s \ {x} \in T) => s \in T
    PROVE  SUBSET S \subseteq T
<1> DEFINE Sizes == {Cardinality(s) : s \in (SUBSET S) \ T}
<1>1. SUFFICES ASSUME NEW b \in (SUBSET S) \ T PROVE FALSE
  OBVIOUS
<1>2. \A s \in SUBSET S : IsFiniteSet(s) /\ Cardinality(s) \in Nat
  BY FS_Subset, FS_CardinalityType
<1>3. Sizes # {} /\ Sizes \subseteq Nat
  BY <1>2
<1> HIDE DEF Sizes
<1>4. PICK m \in Sizes : \A k \in Sizes : ~ (<<k, m>> \in OpToRel(<, Nat))
  BY <1>3, NatLessThanWellFounded, WFMin
<1>5. PICK c \in (SUBSET S) \ T : m = Cardinality(c)
  BY DEF Sizes
<1>6. ASSUME NEW x \in c PROVE c \ {x} \in T
  <2>1. /\ c \ {x} \in SUBSET S /\ Cardinality(c \ {x}) = m - 1
        /\ m \in Nat /\ m - 1 \in Nat
    <3>1. IsFiniteSet(c) /\ c \ {x} \in SUBSET S
      BY <1>2, <1>5
    <3>2. Cardinality(c \ {x}) = Cardinality(c) - 1
      BY <1>6, <3>1, FS_RemoveElement
    <3>3. Cardinality(c) \in Nat /\ Cardinality(c \ {x}) \in Nat
      BY <3>1, FS_CardinalityType, FS_Subset
    <3> QED BY <1>5, <3>1, <3>2, <3>3
  <2>2. <<m - 1, m>> \in OpToRel(<, Nat)
    BY <2>1 DEF OpToRel
  <2>3. m - 1 \notin Sizes
    BY <1>4, <2>2
  <2> QED BY <2>1, <2>3 DEF Sizes
<1> QED BY <1>5, <1>6

\* The sum of what f has for the elements of S; and the functions that add it up,
\* for the sets of C, as the library does: one element at a time.
SumOf(f, S) == MapThenSumSet(LAMBDA x : f[x], S)

Some(S) == CHOOSE x \in S : TRUE

AddsUp(g, f, C) ==
    g = [s \in C |-> IF s = {} THEN 0 ELSE f[Some(s)] + g[s \ {Some(s)}]]

\* Some is an element.
LEMMA SomeElement == \A S : S # {} => Some(S) \in S
  BY DEF Some

\* There is such a function for the subsets of a finite set.
LEMMA AddsUpExists ==
    ASSUME NEW f, NEW S, IsFiniteSet(S)
    PROVE  \E g : AddsUp(g, f, SUBSET S)
<1> DEFINE Below(n) == {s \in SUBSET S : Cardinality(s) <= n}
           T == {n \in Nat : \E g : AddsUp(g, f, Below(n))}
           Bad == Nat \ T
<1>1. \A s \in SUBSET S :
        IsFiniteSet(s) /\ Cardinality(s) \in Nat /\ (Cardinality(s) = 0 <=> s = {})
  BY FS_Subset, FS_CardinalityType, FS_EmptySet
<1>2. 0 \in T
  <2> DEFINE g == [s \in Below(0) |-> 0]
  <2>1. \A s \in Below(0) : s = {}
    BY <1>1
  <2>2. AddsUp(g, f, Below(0))
    BY <2>1 DEF AddsUp
  <2> QED BY <2>2
<1>3. ASSUME NEW n \in Nat, n \in T PROVE n + 1 \in T
  <2>1. PICK g : AddsUp(g, f, Below(n))
    BY <1>3
  <2> DEFINE h == [s \in Below(n + 1) |->
                    IF s = {} THEN 0 ELSE f[Some(s)] + g[s \ {Some(s)}]]
  <2>2. Below(n) \subseteq Below(n + 1)
    BY <1>1
  <2>3. \A s \in Below(n) : h[s] = g[s]
    BY <2>1, <2>2 DEF AddsUp
  <2>4. \A s \in Below(n + 1) : s # {} => s \ {Some(s)} \in Below(n)
    BY <1>1, SomeElement, FS_RemoveElement
  <2>5. \A s \in Below(n + 1) :
            h[s] = IF s = {} THEN 0 ELSE f[Some(s)] + h[s \ {Some(s)}]
    BY <2>3, <2>4
  <2>6. AddsUp(h, f, Below(n + 1))
    BY <2>5 DEF AddsUp
  <2> QED BY <2>6
<1> HIDE DEF T
<1>4. Nat \subseteq T
  <2>1. SUFFICES ASSUME Bad # {} PROVE FALSE
    OBVIOUS
  <2>2. PICK m \in Bad : \A k \in Bad : ~ (<<k, m>> \in OpToRel(<, Nat))
    BY <2>1, NatLessThanWellFounded, WFMin
  <2>3. m - 1 \in Nat /\ m = (m - 1) + 1
    BY <1>2
  <2>4. <<m - 1, m>> \in OpToRel(<, Nat)
    BY <2>3 DEF OpToRel
  <2>5. m - 1 \in T
    BY <2>2, <2>3, <2>4
  <2> QED BY <1>3, <2>3, <2>5
<1>5. Cardinality(S) \in T
  BY <1>1, <1>4
<1>6. Below(Cardinality(S)) = SUBSET S
  BY FS_Subset
<1> QED BY <1>5, <1>6 DEF T

\* SumOf is what such a function has for the whole set.
LEMMA SumIs ==
    ASSUME NEW f, NEW S, IsFiniteSet(S)
    PROVE  \E g : AddsUp(g, f, SUBSET S) /\ SumOf(f, S) = g[S]
<1>1. SumOf(f, S) = (CHOOSE g : AddsUp(g, f, SUBSET S))[S]
  BY DEF SumOf, MapThenSumSet, MapThenFoldSet, AddsUp, Some
<1> QED BY <1>1, AddsUpExists

\* One element less, for the element the library takes.
LEMMA SumStep ==
    ASSUME NEW f, NEW S, IsFiniteSet(S)
    PROVE  /\ SumOf(f, {}) = 0
           /\ S # {} => SumOf(f, S) = f[Some(S)] + SumOf(f, S \ {Some(S)})
<1>1. ASSUME NEW R, IsFiniteSet(R), NEW Q \in SUBSET R,
             NEW g, AddsUp(g, f, SUBSET R), NEW h, AddsUp(h, f, SUBSET Q)
      PROVE  g[Q] = h[Q]
  <2> DEFINE T == {s \in SUBSET Q : g[s] = h[s]}
  <2>1. ASSUME NEW s \in SUBSET Q, \A x \in s : s \ {x} \in T PROVE s \in T
    <3>1. g[s] = IF s = {} THEN 0 ELSE f[Some(s)] + g[s \ {Some(s)}]
      BY <1>1 DEF AddsUp
    <3>2. h[s] = IF s = {} THEN 0 ELSE f[Some(s)] + h[s \ {Some(s)}]
      BY <1>1 DEF AddsUp
    <3>3. s # {} => g[s \ {Some(s)}] = h[s \ {Some(s)}]
      BY <2>1, SomeElement
    <3> QED BY <3>1, <3>2, <3>3
  <2>2. IsFiniteSet(Q)
    BY <1>1, FS_Subset
  <2> HIDE DEF T
  <2>3. SUBSET Q \subseteq T
    BY <2>1, <2>2, SubsetInduction
  <2> QED BY <2>3 DEF T
<1>2. SumOf(f, {}) = 0
  <2>1. IsFiniteSet({})
    BY FS_EmptySet
  <2>2. PICK g : AddsUp(g, f, SUBSET {}) /\ SumOf(f, {}) = g[{}]
    BY <2>1, SumIs
  <2> QED BY <2>2 DEF AddsUp
<1>3. ASSUME S # {} PROVE SumOf(f, S) = f[Some(S)] + SumOf(f, S \ {Some(S)})
  <2> DEFINE Q == S \ {Some(S)}
  <2>1. IsFiniteSet(Q)
    BY FS_Subset
  <2>2. PICK g : AddsUp(g, f, SUBSET S) /\ SumOf(f, S) = g[S]
    BY SumIs
  <2> HIDE DEF Q
  <2>3. PICK h : AddsUp(h, f, SUBSET Q) /\ SumOf(f, Q) = h[Q]
    BY <2>1, SumIs
  <2>4. Q \in SUBSET S
    BY DEF Q
  <2>5. g[Q] = h[Q]
    BY <1>1, <2>2, <2>3, <2>4
  <2>6. g[S] = f[Some(S)] + g[Q]
    BY <1>3, <2>2 DEF AddsUp, Q
  <2> QED BY <2>2, <2>3, <2>5, <2>6 DEF Q
<1> QED BY <1>2, <1>3

\* A sum is a number.
LEMMA SumType ==
    ASSUME NEW S, IsFiniteSet(S), NEW f, \A x \in S : f[x] \in Nat
    PROVE  SumOf(f, S) \in Nat
<1> DEFINE T == {s \in SUBSET S : SumOf(f, s) \in Nat}
<1>1. ASSUME NEW s \in SUBSET S, \A x \in s : s \ {x} \in T PROVE s \in T
  <2>1. IsFiniteSet(s)
    BY FS_Subset
  <2>2. CASE s = {}
    <3>1. SumOf(f, s) = 0
      BY <2>1, <2>2, SumStep
    <3> QED BY <3>1
  <2>3. CASE s # {}
    <3>1. Some(s) \in s
      BY <2>3, SomeElement
    <3>2. SumOf(f, s \ {Some(s)}) \in Nat /\ f[Some(s)] \in Nat
      BY <1>1, <3>1
    <3>3. SumOf(f, s) = f[Some(s)] + SumOf(f, s \ {Some(s)})
      BY <2>1, <2>3, SumStep
    <3> QED BY <3>2, <3>3
  <2> QED BY <2>2, <2>3
<1> HIDE DEF T
<1>2. SUBSET S \subseteq T
  BY <1>1, SubsetInduction
<1> QED BY <1>2 DEF T

\* One element less, whichever it is.
LEMMA SumRemove ==
    ASSUME NEW S, IsFiniteSet(S), NEW f, \A x \in S : f[x] \in Nat, NEW e \in S
    PROVE  SumOf(f, S) = f[e] + SumOf(f, S \ {e})
<1> DEFINE T == {s \in SUBSET S : \A x \in s : SumOf(f, s) = f[x] + SumOf(f, s \ {x})}
<1>1. ASSUME NEW s \in SUBSET S, \A x \in s : s \ {x} \in T PROVE s \in T
  <2> SUFFICES ASSUME NEW x \in s PROVE SumOf(f, s) = f[x] + SumOf(f, s \ {x})
    OBVIOUS
  <2>1. PICK c \in s : c = Some(s)
    BY SomeElement
  <2>2. SumOf(f, s) = f[c] + SumOf(f, s \ {c})
    BY <2>1, FS_Subset, SumStep
  <2>3. CASE x = c
    BY <2>2, <2>3
  <2>4. CASE x # c
    <3>1. SumOf(f, s \ {c}) = f[x] + SumOf(f, (s \ {c}) \ {x})
      BY <1>1, <2>4
    <3>2. SumOf(f, s \ {x}) = f[c] + SumOf(f, (s \ {x}) \ {c})
      BY <1>1, <2>4
    <3>3. (s \ {c}) \ {x} = (s \ {x}) \ {c}
      OBVIOUS
    <3>4. SumOf(f, (s \ {x}) \ {c}) \in Nat /\ f[c] \in Nat /\ f[x] \in Nat
      <4>1. (s \ {x}) \ {c} \in SUBSET S
        OBVIOUS
      <4>2. IsFiniteSet((s \ {x}) \ {c})
        BY <4>1, FS_Subset
      <4> QED BY <4>2, SumType
    <3> QED BY <2>2, <3>1, <3>2, <3>3, <3>4
  <2> QED BY <2>3, <2>4
<1> HIDE DEF T
<1>2. SUBSET S \subseteq T
  BY <1>1, SubsetInduction
<1> QED BY <1>2 DEF T

\* Two functions that agree.
LEMMA SumSame ==
    ASSUME NEW S, IsFiniteSet(S), NEW f, NEW h, \A x \in S : f[x] = h[x]
    PROVE  SumOf(f, S) = SumOf(h, S)
<1> DEFINE T == {s \in SUBSET S : SumOf(f, s) = SumOf(h, s)}
<1>1. ASSUME NEW s \in SUBSET S, \A x \in s : s \ {x} \in T PROVE s \in T
  <2>1. IsFiniteSet(s)
    BY FS_Subset
  <2>2. CASE s = {}
    BY <2>1, <2>2, SumStep
  <2>3. CASE s # {}
    <3>1. Some(s) \in s
      BY <2>3, SomeElement
    <3>2. SumOf(f, s \ {Some(s)}) = SumOf(h, s \ {Some(s)}) /\ f[Some(s)] = h[Some(s)]
      BY <1>1, <3>1
    <3>3. /\ SumOf(f, s) = f[Some(s)] + SumOf(f, s \ {Some(s)})
          /\ SumOf(h, s) = h[Some(s)] + SumOf(h, s \ {Some(s)})
      BY <2>1, <2>3, SumStep
    <3> QED BY <3>2, <3>3
  <2> QED BY <2>2, <2>3
<1> HIDE DEF T
<1>2. SUBSET S \subseteq T
  BY <1>1, SubsetInduction
<1> QED BY <1>2 DEF T

-----------------------------------------------------------------------------
(* The size of the directory.                                              *)

\* The sizes of the files; what the files that were sized hold now, and the files
\* other than the one the converter saves.
Sizes == [p \in DOMAIN files |-> files[p].size]

SizedUsage == SumOf(Sizes, DOMAIN files \ unsized)

OtherUsage == SumOf(Sizes, DOMAIN files \ {path})

\* The same for a function of files.
LEMMA UsageOf ==
    ASSUME NEW f
    PROVE  MapThenSumSet(LAMBDA p : f[p].size, DOMAIN f) =
             SumOf([p \in DOMAIN f |-> f[p].size], DOMAIN f)
<1> DEFINE h == [p \in DOMAIN f |-> f[p].size]
           R(g) == [s \in SUBSET DOMAIN f |->
                       IF s = {} THEN 0 ELSE f[Some(s)].size + g[s \ {Some(s)}]]
           Q(g) == [s \in SUBSET DOMAIN f |->
                       IF s = {} THEN 0 ELSE h[Some(s)] + g[s \ {Some(s)}]]
<1>1. \A g : R(g) = Q(g)
  BY SomeElement
<1>2. MapThenSumSet(LAMBDA p : f[p].size, DOMAIN f) = (CHOOSE g : g = R(g))[DOMAIN f]
  BY DEF MapThenSumSet, MapThenFoldSet, Some
<1>3. SumOf(h, DOMAIN f) = (CHOOSE g : g = Q(g))[DOMAIN f]
  BY DEF SumOf, MapThenSumSet, MapThenFoldSet, Some
<1>4. (CHOOSE g : g = R(g)) = (CHOOSE g : g = Q(g))
  <2> HIDE DEF R, Q
  <2> QED BY <1>1
<1> HIDE DEF h, R, Q
<1> QED BY <1>2, <1>3, <1>4 DEF h

\* Usage and its parts, before and after a step.
LEMMA UsagesAre ==
    /\ Usage = SumOf(Sizes, DOMAIN files) /\ Usage' = SumOf(Sizes', DOMAIN files')
    /\ SizedUsage' = SumOf(Sizes', DOMAIN files' \ unsized')
    /\ OtherUsage' = SumOf(Sizes', DOMAIN files' \ {path'})
<1>1. Usage = SumOf(Sizes, DOMAIN files)
  BY UsageOf DEF Usage, Sizes
<1>2. Usage' = SumOf(Sizes', DOMAIN files')
  <2>1. MapThenSumSet(LAMBDA p : (files')[p].size, DOMAIN files') =
          SumOf([p \in DOMAIN files' |-> (files')[p].size], DOMAIN files')
    BY UsageOf
  <2> QED BY <2>1 DEF Usage, Sizes, MapThenSumSet, MapThenFoldSet
<1>3. /\ SizedUsage' = SumOf(Sizes', DOMAIN files' \ unsized')
      /\ OtherUsage' = SumOf(Sizes', DOMAIN files' \ {path'})
  BY DEF SizedUsage, OtherUsage, SumOf, MapThenSumSet, MapThenFoldSet
<1> QED BY <1>1, <1>2, <1>3

\* What the converter knows of the size of the directory, while files may be removed
\* but only itself writes any: the files it has sized take no more than it added up,
\* unless one could not be sized; and once the message is admitted, the payload and
\* the other files keep to 90% of the limit.  Nothing is known if it took the
\* directory for missing.
Measured ==
    /\ IsFiniteSet(DOMAIN files)
    /\ conv = "size" /\ ~statFailed /\ ~unseen => SizedUsage <= used
    /\ conv \in {"create", "write"} /\ lim # NoLimit /\ ~unseen =>
        Length[msg] + OtherUsage <= (9 * lim) \div 10

\* Sizes are numbers, and so are sums of them.
LEMMA SizesAre ==
    ASSUME TypeOK, IsFiniteSet(DOMAIN files)
    PROVE  /\ \A p \in DOMAIN files : Sizes[p] = files[p].size /\ Sizes[p] \in Nat
           /\ \A D \in SUBSET DOMAIN files :
                /\ IsFiniteSet(D) /\ SumOf(Sizes, D) \in Nat
                /\ \A p \in D : SumOf(Sizes, D) = Sizes[p] + SumOf(Sizes, D \ {p})
<1>1. \A p \in DOMAIN files : Sizes[p] = files[p].size /\ Sizes[p] \in Nat
  BY DEF Sizes, TypeOK, Contents
<1>2. PICK f : f = Sizes
  OBVIOUS
<1>3. ASSUME NEW D \in SUBSET DOMAIN files
      PROVE  /\ IsFiniteSet(D) /\ SumOf(f, D) \in Nat
             /\ \A p \in D : SumOf(f, D) = f[p] + SumOf(f, D \ {p})
  <2>1. IsFiniteSet(D)
    BY FS_Subset
  <2>2. \A p \in D : f[p] \in Nat
    BY <1>1, <1>2
  <2>3. SumOf(f, D) \in Nat
    BY <2>1, <2>2, SumType
  <2>4. ASSUME NEW p \in D PROVE SumOf(f, D) = f[p] + SumOf(f, D \ {p})
    BY <2>1, <2>2, SumRemove
  <2> QED BY <2>1, <2>3, <2>4
<1> QED BY <1>1, <1>2, <1>3

\* What 90% of a limit is.
LEMMA LimitType == \A l \in Limits \cup {NoLimit} : l # NoLimit => (9 * l) \div 10 \in Nat
  BY StoreAssumption

\* The payload is a number.
LEMMA LengthType == \A m \in Msgs : Length[m] \in Nat /\ FileSize(m) \in Nat
  BY FileSizeType, StoreAssumption

\* The converter lists the files: it has sized none.
LEMMA MeasuredListed == TypeOK /\ Measured /\ ListFiles => Measured'
<1> SUFFICES ASSUME TypeOK, Measured, ListFiles PROVE Measured'
  OBVIOUS
<1>1. /\ files' = files /\ used' = 0 /\ conv' \in {"size", "refuse"}
      /\ conv' = "size" /\ ~unseen' => unsized' = DOMAIN files
  BY DEF ListFiles
<1>2. conv' = "size" /\ ~unseen' => SizedUsage' = 0
  <2>1. ASSUME conv' = "size", ~unseen' PROVE DOMAIN files' \ unsized' = {}
    BY <1>1, <2>1
  <2>2. \A f : SumOf(f, {}) = 0
    BY SumStep, FS_EmptySet
  <2> QED BY <2>1, <2>2, UsagesAre
<1> QED BY <1>1, <1>2 DEF Measured

\* It sizes a file, or finds that it cannot.
LEMMA MeasuredSized == TypeOK /\ Measured /\ StatFile => Measured'
<1> SUFFICES ASSUME TypeOK, Measured, StatFile PROVE Measured'
  OBVIOUS
<1>1. PICK p \in unsized :
        /\ unsized' = unsized \ {p}
        /\ \/ p \in DOMAIN files /\ used' = used + files[p].size
              /\ UNCHANGED statFailed
           \/ (p \notin DOMAIN files \/ DiskFails) /\ statFailed' = TRUE
              /\ UNCHANGED used
  BY DEF StatFile
<1>2. /\ conv = "size" /\ conv' = "size" /\ files' = files /\ used \in Nat
      /\ unseen' = unseen
  BY DEF StatFile, TypeOK, history
<1>3. Sizes' = Sizes
  BY <1>2 DEF Sizes
<1>4. SizedUsage' <= used' \/ statFailed' \/ unseen
  <2>1. CASE statFailed' \/ unseen
    BY <2>1
  <2>2. CASE ~statFailed' /\ ~unseen
    <3>1. p \in DOMAIN files /\ used' = used + Sizes[p] /\ ~statFailed
      BY <1>1, <2>2, SizesAre DEF Measured
    <3>2. PICK D : D = DOMAIN files' \ unsized'
      OBVIOUS
    <3>3. D \in SUBSET DOMAIN files /\ p \in D /\ D \ {p} = DOMAIN files \ unsized
      BY <1>1, <1>2, <3>1, <3>2
    <3>4. SumOf(Sizes, D) = Sizes[p] + SumOf(Sizes, D \ {p})
      BY <3>3, SizesAre DEF Measured
    <3>5. SizedUsage' = Sizes[p] + SizedUsage
      BY <1>3, <3>2, <3>3, <3>4, UsagesAre DEF SizedUsage
    <3>6. SizedUsage <= used /\ SizedUsage \in Nat /\ Sizes[p] \in Nat
      BY <1>2, <2>2, <3>1, SizesAre DEF Measured, SizedUsage
    <3> QED BY <1>2, <3>1, <3>5, <3>6
  <2> QED BY <2>1, <2>2
<1> QED BY <1>2, <1>4 DEF Measured

\* It admits the message when all files are sized.
LEMMA MeasuredAdmitted == TypeOK /\ Measured /\ Admit => Measured'
<1> SUFFICES ASSUME TypeOK, Measured, Admit PROVE Measured'
  OBVIOUS
<1>1. /\ files' = files /\ lim' = lim /\ msg' = msg /\ conv = "size" /\ unsized = {}
      /\ conv' \in {"refuse", "create"} /\ (conv' = "create" => ~Refused)
      /\ unseen' = unseen
  BY DEF Admit, history
<1>2. Sizes' = Sizes
  BY <1>1 DEF Sizes
<1>3. ASSUME conv' = "create", lim # NoLimit, ~unseen
      PROVE  Length[msg] + OtherUsage' <= (9 * lim) \div 10
  <2>1. ~statFailed /\ Length[msg] + used <= (9 * lim) \div 10
    <3>1. (9 * lim) \div 10 \in Nat /\ Length[msg] \in Nat /\ used \in Nat
      BY <1>1, <1>3, LimitType, LengthType DEF TypeOK
    <3> QED BY <1>1, <1>3, <3>1 DEF Refused
  <2>2. SumOf(Sizes, DOMAIN files) <= used
    <3>1. DOMAIN files \ unsized = DOMAIN files
      BY <1>1
    <3> QED BY <1>1, <1>3, <2>1, <3>1 DEF Measured, SizedUsage
  <2>3. OtherUsage' = SumOf(Sizes, DOMAIN files \ {path'})
    BY <1>1, <1>2, UsagesAre
  <2>4. PICK q : q = path'
    OBVIOUS
  <2>5. SumOf(Sizes, DOMAIN files \ {q}) <= SumOf(Sizes, DOMAIN files)
    <3>1. CASE q \in DOMAIN files
      <4>1. /\ SumOf(Sizes, DOMAIN files) = Sizes[q] + SumOf(Sizes, DOMAIN files \ {q})
            /\ Sizes[q] \in Nat /\ SumOf(Sizes, DOMAIN files \ {q}) \in Nat
        BY <3>1, SizesAre DEF Measured
      <4> QED BY <4>1
    <3>2. CASE q \notin DOMAIN files
      <4>1. DOMAIN files \ {q} = DOMAIN files
        BY <3>2
      <4>2. SumOf(Sizes, DOMAIN files) \in Nat
        BY SizesAre DEF Measured
      <4> QED BY <4>1, <4>2
    <3> QED BY <3>1, <3>2
  <2>6. /\ SumOf(Sizes, DOMAIN files) \in Nat /\ SumOf(Sizes, DOMAIN files \ {q}) \in Nat
        /\ (9 * lim) \div 10 \in Nat /\ Length[msg] \in Nat /\ used \in Nat
    BY <1>1, <1>3, SizesAre, LimitType, LengthType DEF Measured, TypeOK
  <2> QED BY <2>1, <2>2, <2>3, <2>4, <2>5, <2>6
<1> QED BY <1>1, <1>3 DEF Measured

\* The file is created, or emptied: the others are as they were.
LEMMA MeasuredOpened == TypeOK /\ Measured /\ OpenFile => Measured'
<1> SUFFICES ASSUME TypeOK, Measured, OpenFile PROVE Measured'
  OBVIOUS
<1>1. /\ conv = "create" /\ UNCHANGED <<path, lim, msg>> /\ path \in Paths
      /\ \/ conv' = "write" /\ files' = With(files, path, Torn(0))
         \/ conv' = "refuse" /\ files' = files
      /\ unseen' = unseen
  BY DEF OpenFile, TypeOK, history
<1>2. CASE conv' = "write" /\ files' = With(files, path, Torn(0))
  <2>1. /\ DOMAIN files' = DOMAIN files \cup {path}
        /\ \A q \in DOMAIN files \ {path} : (files')[q] = files[q]
    <3>1. PICK f, c : f = files /\ c = Torn(0)
      OBVIOUS
    <3>2. f \in [DOMAIN f -> Contents] /\ DOMAIN f \subseteq Paths /\ c \in Contents
      BY <3>1, ItemTypes DEF TypeOK
    <3>3. /\ DOMAIN With(f, path, c) = DOMAIN f \cup {path}
          /\ \A q \in DOMAIN f \ {path} : With(f, path, c)[q] = f[q]
      BY DEF With
    <3> QED BY <1>2, <3>1, <3>3
  <2>2. IsFiniteSet(DOMAIN files')
    BY <2>1, FS_AddElement DEF Measured
  <2>3. PICK D : D = DOMAIN files \ {path}
    OBVIOUS
  <2>4. DOMAIN files' \ {path'} = D /\ D \in SUBSET DOMAIN files
    BY <1>1, <2>1, <2>3
  <2>5. PICK f, g : f = Sizes /\ g = Sizes'
    OBVIOUS
  <2>6. \A q \in D : f[q] = g[q]
    BY <2>1, <2>3, <2>4, <2>5 DEF Sizes
  <2>7. SumOf(f, D) = SumOf(g, D)
    BY <2>4, <2>6, FS_Subset, SumSame DEF Measured
  <2>8. OtherUsage' = OtherUsage
    BY <2>3, <2>4, <2>5, <2>7, UsagesAre DEF OtherUsage
  <2> QED BY <1>1, <1>2, <2>2, <2>8 DEF Measured
<1>3. CASE conv' = "refuse" /\ files' = files
  BY <1>3 DEF Measured
<1> QED BY <1>1, <1>2, <1>3

\* A file is removed: what was sized, and the other files, take no more than before.
LEMMA MeasuredRemoved == TypeOK /\ Measured /\ Remove => Measured'
<1>1. UNCHANGED files /\ Remove /\ Measured => Measured'
  <2> SUFFICES ASSUME UNCHANGED files, Remove, Measured PROVE Measured'
    OBVIOUS
  <2>1. UNCHANGED <<conv, path, lim, msg, unsized, used, statFailed, unseen>>
    BY DEF Remove, converter, history
  <2>2. Sizes' = Sizes
    BY DEF Sizes
  <2>3. SizedUsage' = SizedUsage /\ OtherUsage' = OtherUsage
    BY <2>1, <2>2, UsagesAre DEF SizedUsage, OtherUsage
  <2> QED BY <2>1, <2>3 DEF Measured
<1> SUFFICES ASSUME TypeOK, Measured, Remove,
                    files' = Restrict(files, DOMAIN files \ {sending.path})
             PROVE  Measured'
  BY <1>1 DEF Remove
<1>u. UNCHANGED <<conv, unsized, used, statFailed, path, lim, msg, unseen>>
  BY DEF Remove, converter, history
<1>2. PICK r : r = sending.path
  OBVIOUS
<1>3. /\ DOMAIN files' = DOMAIN files \ {r}
      /\ \A q \in DOMAIN files \ {r} : (files')[q] = files[q]
  BY <1>2, FileRemoval DEF Remove, TypeOK
<1>4. IsFiniteSet(DOMAIN files')
  BY <1>3, FS_RemoveElement DEF Measured
<1>5. PICK f, g : f = Sizes /\ g = Sizes'
  OBVIOUS
<1>6. ASSUME NEW A
      PROVE  SumOf(g, DOMAIN files' \ A) <= SumOf(f, DOMAIN files \ A)
  <2> DEFINE D == DOMAIN files \ A
  <2>1. D \in SUBSET DOMAIN files /\ D \ {r} \in SUBSET DOMAIN files
        /\ DOMAIN files' \ A = D \ {r}
    BY <1>3
  <2>2. \A q \in D \ {r} : f[q] = g[q]
    BY <1>3, <1>5 DEF Sizes
  <2> HIDE DEF D
  <2>3. SumOf(f, D \ {r}) = SumOf(g, D \ {r})
    BY <2>1, <2>2, FS_Subset, SumSame DEF Measured
  <2>4. SumOf(f, D \ {r}) <= SumOf(f, D)
    <3>1. CASE r \in D
      <4>1. /\ SumOf(f, D) = f[r] + SumOf(f, D \ {r})
            /\ f[r] \in Nat /\ SumOf(f, D \ {r}) \in Nat
        BY <1>5, <2>1, <3>1, SizesAre DEF Measured
      <4> QED BY <4>1
    <3>2. CASE r \notin D
      <4>1. D \ {r} = D
        BY <3>2
      <4>2. SumOf(f, D) \in Nat
        BY <1>5, <2>1, SizesAre DEF Measured
      <4> QED BY <4>1, <4>2
    <3> QED BY <3>1, <3>2
  <2> QED BY <2>1, <2>3, <2>4 DEF D
<1>7. ASSUME NEW A
      PROVE  SumOf(f, DOMAIN files \ A) \in Nat /\ SumOf(g, DOMAIN files' \ A) \in Nat
  <2>1. DOMAIN files \ A \in SUBSET DOMAIN files
    OBVIOUS
  <2>2. SumOf(f, DOMAIN files \ A) \in Nat
    BY <1>5, <2>1, SizesAre DEF Measured
  <2>3. IsFiniteSet(DOMAIN files' \ A)
    BY <1>4, FS_Subset
  <2>4. \A q \in DOMAIN files' \ A : g[q] \in Nat
    <3>1. \A q \in DOMAIN files' : g[q] = (files')[q].size
      BY <1>5 DEF Sizes
    <3> QED BY <1>3, <3>1 DEF TypeOK, Contents
  <2> QED BY <2>2, <2>3, <2>4, SumType
<1>8. ASSUME conv' = "size", ~statFailed', ~unseen' PROVE SizedUsage' <= used'
  <2>1. SizedUsage = SumOf(f, DOMAIN files \ unsized) /\ SizedUsage <= used
    BY <1>u, <1>5, <1>8 DEF Measured, SizedUsage
  <2>2. SizedUsage' = SumOf(g, DOMAIN files' \ unsized)
    BY <1>u, <1>5, UsagesAre
  <2>3. used' = used /\ used \in Nat
    BY <1>u DEF TypeOK
  <2> QED BY <1>6, <1>7, <2>1, <2>2, <2>3
<1>9. ASSUME conv' \in {"create", "write"}, lim' # NoLimit, ~unseen'
      PROVE  Length[msg'] + OtherUsage' <= (9 * lim') \div 10
  <2>1. /\ OtherUsage = SumOf(f, DOMAIN files \ {path})
        /\ Length[msg] + OtherUsage <= (9 * lim) \div 10
    BY <1>u, <1>5, <1>9 DEF Measured, OtherUsage
  <2>2. OtherUsage' = SumOf(g, DOMAIN files' \ {path})
    BY <1>u, <1>5, UsagesAre
  <2>3. (9 * lim) \div 10 \in Nat /\ Length[msg] \in Nat
    BY <1>u, <1>9, LimitType, LengthType DEF TypeOK
  <2>4. /\ SumOf(g, DOMAIN files' \ {path}) <= SumOf(f, DOMAIN files \ {path})
        /\ SumOf(f, DOMAIN files \ {path}) \in Nat
        /\ SumOf(g, DOMAIN files' \ {path}) \in Nat
    BY <1>6, <1>7
  <2>5. Length[msg] + OtherUsage' <= (9 * lim) \div 10
    BY <2>1, <2>2, <2>3, <2>4
  <2> QED BY <1>u, <2>5
<1> QED BY <1>4, <1>8, <1>9 DEF Measured

\* Every other step leaves the files, or writes to one that is there, and ends or does
\* not touch what the converter does with the directory.
LEMMA MeasuredOther ==
    ASSUME TypeOK, Measured, [Next]_vars,
           ~(ListFiles \/ StatFile \/ Admit \/ OpenFile \/ Remove)
    PROVE  Measured'
<1> USE DEF storage, converter, loading, sender, history
<1>1. CASE WriteFile
  <2>1. DOMAIN files' = DOMAIN files /\ conv' \in {"emit", "refuse"}
    BY <1>1 DEF WriteFile
  <2> QED BY <2>1 DEF Measured
<1>2. CASE ~WriteFile
  <2>1. /\ files' = files
        /\ \/ conv' \in {"idle", "limit", "list"}
           \/ UNCHANGED <<conv, msg, path, lim, unsized, used, statFailed, unseen>>
    BY <1>2 DEF Next, Steps, SetLimit, Convert, TakeLimit, Emit, ListLeftovers,
                LoadMessage, EmitLoaded, EndLoading, Publish, Acknowledged, PollStorage,
                PublishFails, LimiterDrop, Restart, vars
  <2>2. ASSUME UNCHANGED <<conv, msg, path, lim, unsized, used, statFailed, unseen>>
        PROVE  SizedUsage' = SizedUsage /\ OtherUsage' = OtherUsage
    <3>1. Sizes' = Sizes
      BY <2>1 DEF Sizes
    <3> QED BY <2>1, <2>2, <3>1, UsagesAre DEF SizedUsage, OtherUsage
  <2> QED BY <2>1, <2>2 DEF Measured
<1> QED BY <1>1, <1>2

\* It is an invariant.
LEMMA MeasuredHolds == Spec => [](TypeOK /\ Measured)
<1>1. Init => Measured
  <2> SUFFICES ASSUME Init PROVE Measured
    OBVIOUS
  <2>1. DOMAIN files = {} /\ conv = "idle"
    BY DEF Init
  <2>2. IsFiniteSet(DOMAIN files)
    BY <2>1, FS_EmptySet
  <2> QED BY <2>1, <2>2 DEF Measured
<1>2. TypeOK /\ Measured /\ [Next]_vars => Measured'
  BY MeasuredListed, MeasuredSized, MeasuredAdmitted, MeasuredOpened, MeasuredRemoved,
     MeasuredOther
<1> QED BY <1>1, <1>2, StoreTypeCorrect, PTL DEF Spec

\* The file that is written takes no more than the encoded message.
LEMMA WrittenSize ==
    ASSUME TypeOK, WriteFile
    PROVE  /\ DOMAIN files' = DOMAIN files
           /\ \A p \in DOMAIN files \ {path} : (files')[p] = files[p]
           /\ path \in DOMAIN files => (files')[path].size \in 0 .. FileSize(msg)
<1>1. conv = "write" /\ msg \in Msgs
  BY DEF WriteFile, TypeOK
<1>2. FileSize(msg) \in Nat
  BY <1>1, LengthType
<1>3. /\ DOMAIN files' = DOMAIN files
      /\ \A p \in DOMAIN files \ {path} : (files')[p] = files[p]
  BY DEF WriteFile, TypeOK
<1>4. path \in DOMAIN files => (files')[path].size \in 0 .. FileSize(msg)
  <2> SUFFICES ASSUME path \in DOMAIN files
               PROVE  (files')[path].size \in 0 .. FileSize(msg)
    OBVIOUS
  <2>1. CASE files' = [files EXCEPT ![path] = [msg |-> msg, size |-> FileSize(msg)]]
    BY <1>2, <2>1 DEF TypeOK
  <2>2. ASSUME NEW n \in 0 .. FileSize(msg) - 1, files' = [files EXCEPT ![path] = Torn(n)]
        PROVE  (files')[path].size \in 0 .. FileSize(msg)
    BY <1>2, <2>2 DEF TypeOK, Torn
  <2> QED BY <2>1, <2>2 DEF WriteFile
<1> QED BY <1>3, <1>4

\* A message that is saved under a limit takes the directory beyond 90% of it by no
\* more than what encoding adds to the payload, for all sizes and limits, whatever is
\* removed while the files are sized, however often the client dies and whatever
\* fails, unless the directory was taken for missing when the message was admitted.
THEOREM StorageIsBounded == Spec => StorageBounded
<1>1. TypeOK /\ Measured /\ [Next]_vars =>
        [WriteFile /\ lim # NoLimit /\ ~unseen =>
            Usage' <= (9 * lim) \div 10 + (FileSize(msg) - Length[msg])]_vars
  <2> SUFFICES ASSUME TypeOK, Measured, WriteFile, lim # NoLimit, ~unseen
               PROVE  Usage' <= (9 * lim) \div 10 + (FileSize(msg) - Length[msg])
    OBVIOUS
  <2>1. conv = "write" /\ msg \in Msgs /\ IsFiniteSet(DOMAIN files)
    BY DEF WriteFile, TypeOK, Measured
  <2>2. /\ (9 * lim) \div 10 \in Nat /\ Length[msg] \in Nat /\ FileSize(msg) \in Nat
    BY <2>1, LimitType, LengthType DEF TypeOK
  <2>3. PICK f, g : f = Sizes /\ g = Sizes'
    OBVIOUS
  <2>4. PICK D : D = DOMAIN files
    OBVIOUS
  <2>5. PICK p : p = path
    OBVIOUS
  <2>6. D \ {p} \in SUBSET DOMAIN files /\ SumOf(f, D \ {p}) \in Nat
    <3>1. D \ {p} \in SUBSET DOMAIN files
      BY <2>4
    <3> QED BY <2>1, <2>3, <3>1, SizesAre
  <2>7. Length[msg] + SumOf(f, D \ {p}) <= (9 * lim) \div 10
    BY <2>1, <2>3, <2>4, <2>5 DEF Measured, OtherUsage
  <2>8. SumOf(f, D \ {p}) = SumOf(g, D \ {p})
    <3>1. IsFiniteSet(D \ {p})
      BY <2>1, <2>4, FS_RemoveElement
    <3>2. \A q \in D \ {p} : f[q] = g[q]
      BY <2>3, <2>4, <2>5, WrittenSize DEF Sizes
    <3> QED BY <3>1, <3>2, SumSame
  <2>9. Usage' = SumOf(g, D)
    BY <2>3, <2>4, WrittenSize, UsagesAre
  <2>10. CASE p \in D
    <3>1. g[p] \in 0 .. FileSize(msg)
      BY <2>3, <2>4, <2>5, <2>10, WrittenSize DEF Sizes
    <3>2. \A q \in D : g[q] \in Nat
      <4>1. \A q \in D \ {p} : g[q] \in Nat
        <5>1. \A q \in D \ {p} : g[q] = files[q].size
          BY <2>3, <2>4, <2>5, WrittenSize DEF Sizes
        <5> QED BY <2>4, <5>1 DEF TypeOK, Contents
      <4>2. g[p] \in Nat
        BY <2>2, <3>1
      <4> QED BY <4>1, <4>2
    <3>3. SumOf(g, D) = g[p] + SumOf(g, D \ {p})
      BY <2>1, <2>4, <2>10, <3>2, SumRemove
    <3> QED BY <2>2, <2>6, <2>7, <2>8, <2>9, <3>1, <3>3
  <2>11. CASE p \notin D
    <3>1. D \ {p} = D
      BY <2>11
    <3>2. PICK u, a, b, c : /\ u = SumOf(f, D \ {p}) /\ a = (9 * lim) \div 10
                            /\ b = Length[msg] /\ c = FileSize(msg)
      OBVIOUS
    <3>3. Usage' = u
      BY <2>8, <2>9, <3>1, <3>2, Zenon
    <3>4. u \in Nat /\ a \in Nat /\ b \in Nat /\ c \in Nat /\ b + u <= a
      BY <2>2, <2>6, <2>7, <3>2
    <3>5. u <= a + (c - b)
      BY <3>4
    <3> QED BY <3>2, <3>3, <3>5
  <2> QED BY <2>10, <2>11
<1> QED BY <1>1, MeasuredHolds, PTL DEF Spec, StorageBounded
=============================================================================
