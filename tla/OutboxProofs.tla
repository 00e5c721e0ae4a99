----------------------------- MODULE OutboxProofs -----------------------------
(***************************************************************************)
(* MessageStore implements Outbox: proved step by step from the invariant  *)
(* of MessageStoreProofs.                                                  *)
(***************************************************************************)
EXTENDS MessageStoreProofs

\* What the directory keeps of the messages that were saved.
Kept == {s \in stored : OnDisk(s)}

\* A step that changes neither a saved file nor the history is a stutter.
LEMMA StutterStep ==
    ASSUME UNCHANGED <<stored, early, misread, published>>,
           \A s \in stored : OnDisk(s)' <=> OnDisk(s)
    PROVE  UNCHANGED Box!vars
  BY DEF Box!vars

\* Every step saves, delivers, discards or spoils one message or reads one slot early,
\* or stutters.
LEMMA StepImplementsOutbox ==
    ASSUME TypeOK, PathsOwned, Saving, Durable, [Next]_vars
    PROVE  [Box!Next]_(Box!vars)
<1> USE StoreAssumption
<1>1. CASE UNCHANGED <<files, stored, early, misread, published>>
  BY <1>1, StutterStep DEF OnDisk
<1>2. CASE OpenFile /\ files' # files
  <2>1. /\ UNCHANGED history /\ conv = "create" /\ path \in Paths
        /\ files' = With(files, path, Torn(0))
    BY <1>2 DEF OpenFile, TypeOK
  <2>2. path \notin StoredPaths
    BY <2>1 DEF Saving
  <2>3. /\ DOMAIN files' = DOMAIN files \cup {path}
        /\ \A q \in DOMAIN files \ {path} : files'[q] = files[q]
    BY <2>1 DEF With
  <2> QED BY <2>1, <2>2, <2>3, StutterStep DEF OnDisk, StoredPaths, history
<1>3. CASE WriteFile
  <2>0. PICK x : x = [path |-> path, msg |-> msg]
    OBVIOUS
  <2>1. x.path = path /\ x.msg = msg
    BY <2>0
  <2>2. /\ UNCHANGED <<early, misread, published>> /\ path \notin StoredPaths
        /\ path \in DOMAIN files \cup early
        /\ files \in [DOMAIN files -> Contents]
    BY <1>3 DEF WriteFile, Saving, TypeOK
  <2>3. /\ DOMAIN files' = DOMAIN files
        /\ \A q \in DOMAIN files \ {path} : files'[q] = files[q]
    BY <1>3, <2>2 DEF WriteFile
  <2>4. \A s \in stored : s.path # path /\ (OnDisk(s)' <=> OnDisk(s))
    BY <2>2, <2>3 DEF OnDisk, StoredPaths
  <2>5. CASE conv' = "emit" /\ stored' = stored \cup {x}
    <3>1. path \in DOMAIN files => files'[path].msg = msg
      BY <1>3, <2>2, <2>5 DEF WriteFile
    <3>2. OnDisk(x)' <=> path \in DOMAIN files
      BY <2>1, <2>3, <3>1 DEF OnDisk
    <3>3. Kept' = IF path \in DOMAIN files THEN Kept \cup {x} ELSE Kept
      BY <2>4, <2>5, <3>2 DEF Kept
    <3>4. Box!Save(x)
      BY <2>1, <2>2, <2>4, <2>5, <3>3 DEF Box!Save, Kept
    <3> QED BY <2>5, <3>4 DEF Box!Next
  <2>6. CASE UNCHANGED stored
    BY <2>2, <2>4, <2>6, StutterStep
  <2> QED BY <1>3, <2>0, <2>5, <2>6 DEF WriteFile
<1>4. CASE LoadMessage
  <2>1. PICK p \in toLoad :
          /\ \/ p \in DOMAIN files /\ loaded' = [path |-> p, msg |-> files[p].msg]
             \/ /\ p \notin DOMAIN files \/ DiskFails
                /\ loaded' = [path |-> p, msg |-> NoMsg]
          /\ Misreads(p)
    BY <1>4 DEF LoadMessage
  <2>2. UNCHANGED <<files, stored, published>>
    BY <1>4 DEF LoadMessage
  <2>3. Kept' = Kept
    BY <2>2 DEF Kept, OnDisk
  <2>4. CASE UNCHANGED <<early, misread>>
    BY <2>2, <2>3, <2>4 DEF Box!vars, Kept
  <2>5. CASE early' # early
    <3>1. /\ p \notin StoredPaths /\ early' = early \cup {p}
          /\ misread' = misread /\ p \in early'
      BY <2>1, <2>5 DEF Misreads
    <3>2. UNCHANGED (misread \ early)
      BY <3>1 DEF PathsOwned
    <3>3. Box!ReadEarly(p)
      BY <2>2, <2>3, <3>1, <3>2 DEF Box!ReadEarly, Kept, StoredPaths
    <3> QED BY <3>1, <3>3 DEF Box!Next
  <2>6. CASE misread' # misread
    <3>1. /\ loaded'.msg = NoMsg /\ p \in StoredPaths
          /\ early' = early /\ misread' = misread \cup {p}
      BY <2>1, <2>6 DEF Misreads
    <3>2. CASE p \in early
      BY <2>2, <2>3, <3>1, <3>2 DEF Box!vars, Kept
    <3>3. CASE p \notin early
      <4>1. PICK s \in stored : s.path = p
        BY <3>1 DEF StoredPaths
      <4>2. ~DiskFails => ~OnDisk(s)
        BY <2>1, <3>1, <4>1 DEF OnDisk, PathsOwned
      <4>3. DiskFails \/ s.msg \in published
        BY <3>3, <4>1, <4>2 DEF Durable
      <4>4. (misread \ early)' = (misread \ early) \cup {s.path}
        BY <3>1, <3>3, <4>1
      <4>5. Box!Spoil(s)
        BY <2>2, <2>3, <3>1, <4>1, <4>3, <4>4 DEF Box!Spoil, Kept
      <4> QED BY <2>2, <4>1, <4>5 DEF Box!Next
    <3> QED BY <3>2, <3>3
  <2> QED BY <2>4, <2>5, <2>6
<1>5. CASE Acknowledged \/ PublishFails
  <2>1. UNCHANGED <<files, stored, early, misread>> /\ published' \in {published, Received}
    BY <1>5 DEF Acknowledged, PublishFails
  <2>2. Kept' = Kept
    BY <2>1 DEF Kept, OnDisk
  <2>3. CASE published' = published
    BY <2>1, <2>2, <2>3 DEF Box!vars, Kept
  <2>4. CASE published' = published \cup {sending.msg} /\ sending.msg # NoMsg
    <3>1. sending \in stored
      BY <2>4 DEF PathsOwned, Genuine, errorItem
    <3>2. Box!Deliver(sending)
      BY <2>1, <2>2, <2>4, <3>1 DEF Box!Deliver, Kept
    <3> QED BY <2>1, <3>1, <3>2 DEF Box!Next
  <2> QED BY <2>1, <2>3, <2>4 DEF Received
<1>6. CASE Remove /\ files' # files
  <2>1. /\ UNCHANGED history /\ producer = "removing"
        /\ files' = Restrict(files, DOMAIN files \ {sending.path})
    BY <1>6 DEF Remove
  <2>2. /\ DOMAIN files' = DOMAIN files \ {sending.path}
        /\ \A q \in DOMAIN files' : files'[q] = files[q]
    BY <2>1 DEF Restrict
  <2>3. \A s \in stored : s.path # sending.path => (OnDisk(s)' <=> OnDisk(s))
    BY <2>2 DEF OnDisk
  <2>4. \A s \in stored : s.path = sending.path => ~OnDisk(s)'
    BY <2>2 DEF OnDisk
  <2>5. CASE \A s \in Kept : s.path # sending.path
    BY <2>1, <2>3, <2>4, <2>5, StutterStep DEF Kept, OnDisk, history
  <2>6. CASE \E s \in Kept : s.path = sending.path
    <3>1. PICK x \in Kept : x.path = sending.path
      BY <2>6
    <3>2. x \in stored /\ x.path \in Paths
      BY DEF Kept, PathsOwned
    <3>3. \A s \in stored : s.path = x.path => s = x
      BY <3>2 DEF PathsOwned
    <3>4. Kept' = Kept \ {x}
      BY <2>1, <2>3, <2>4, <3>1, <3>2, <3>3 DEF Kept, history
    <3>5. x.msg \in published \/ x.path \in early \cup (misread \ early)
      <4>1. sending # errorItem
        BY <3>1, <3>2 DEF errorItem, Paths
      <4>2. sending.msg \in published \cup {NoMsg}
        BY <2>1 DEF PathsOwned
      <4>3. sending \in stored => sending = x
        BY <3>1, <3>3
      <4> QED BY <3>1, <3>2, <4>1, <4>2, <4>3 DEF PathsOwned, Genuine
    <3>6. Box!Discard(x)
      BY <2>1, <3>4, <3>5 DEF Box!Discard, Kept, history
    <3> QED BY <3>6 DEF Box!Next, Kept
  <2> QED BY <2>5, <2>6
<1>7. CASE ~UNCHANGED <<files, stored, early, misread, published>>
  BY <1>2, <1>3, <1>4, <1>5, <1>6, <1>7
  DEF Next, Steps, vars, PollStorage, SetLimit, Convert, TakeLimit, ListFiles,
      StatFile, Admit, OpenFile, Emit, ListLeftovers, EmitLoaded, EndLoading,
      LimiterDrop, Publish, Remove, Restart, history
<1> QED BY <1>1, <1>7

\* When no two runs have the same process identifier, the message directory is an
\* outbox, for all messages, capacities and restarts: what was saved is kept until
\* it was delivered, at least once; only that is delivered; and, with a disk that
\* works, a message is lost undelivered only if its file was read before it was saved.
THEOREM StoreImplementsOutbox ==
    ASSUME PidsFresh
    PROVE  Spec => ImplementsOutbox
<1>1. Init => Box!Init
  BY DEF Init, Box!Init
<1>2. TypeOK /\ PathsOwned /\ Saving /\ Durable /\ [Next]_vars
        => [Box!Next]_(Box!vars)
  BY StepImplementsOutbox
<1>3. Spec => [](TypeOK /\ PathsOwned /\ Saving /\ Durable)
  BY StoreInvariant
<1> QED BY <1>1, <1>2, <1>3, PTL DEF Spec, ImplementsOutbox, Box!Spec
=============================================================================
