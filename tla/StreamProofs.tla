----------------------------- MODULE StreamProofs -----------------------------
(***************************************************************************)
(* Lemmas about sequences that are flattened, and about what of a stream   *)
(* is relayed.  The provers do no induction: SegmentInduction, which       *)
(* speaks of a set where the library's theorems have an operator, stands   *)
(* in for it, and a recursive function is shown to exist by it.            *)
(***************************************************************************)
EXTENDS Stream, SequenceTheorems, WellFoundedInduction, TLAPS

-----------------------------------------------------------------------------
(* Induction, and FlattenSeq.                                              *)

\* A set that has a, and with a number the next, has all numbers from a to n.
LEMMA SegmentInduction ==
    ASSUME NEW a \in Nat, NEW n \in Nat, NEW T, a \in T,
           \A i \in a .. n - 1 : i \in T => i + 1 \in T
    PROVE  a .. n \subseteq T
<1> DEFINE Bad == (a .. n) \ T
<1>1. SUFFICES ASSUME Bad # {} PROVE FALSE
  OBVIOUS
<1>2. PICK m \in Bad : \A k \in Bad : ~ (<<k, m>> \in OpToRel(<, Nat))
  <2>1. Bad \subseteq Nat
    OBVIOUS
  <2> QED BY <1>1, <2>1, NatLessThanWellFounded, WFMin
<1>3. m \in a .. n /\ m \notin T /\ m # a /\ m - 1 \in a .. n - 1
  OBVIOUS
<1>4. m - 1 \notin Bad
  <2>1. <<m - 1, m>> \in OpToRel(<, Nat)
    BY <1>3 DEF OpToRel
  <2> QED BY <1>2, <2>1
<1>5. m - 1 \in T
  BY <1>3, <1>4
<1> QED BY <1>3, <1>5

\* One step: what was flattened, and the next.
Then(x, y) == x \o y

\* What the proofs need of concatenation; Then hides what it is from the provers.
LEMMA ThenFacts ==
    ASSUME NEW K
    PROVE  /\ <<>> \in Seq(K)
           /\ \A x \in Seq(K) : Then(x, <<>>) = x /\ Then(<<>>, x) = x
           /\ \A x, y \in Seq(K) : Then(x, y) \in Seq(K)
           /\ \A x, y, z \in Seq(K) : Then(Then(x, y), z) = Then(x, Then(y, z))
           /\ \A x \in Seq(K), k \in K :
                <<k>> \in Seq(K) /\ Append(x, k) = Then(x, <<k>>)
<1>1. <<>> \in Seq(K)
  OBVIOUS
<1>2. \A x \in Seq(K) : Then(x, <<>>) = x /\ Then(<<>>, x) = x
  BY ConcatEmptySeq DEF Then
<1>3. \A x, y \in Seq(K) : Then(x, y) \in Seq(K)
  BY ConcatProperties DEF Then
<1>4. \A x, y, z \in Seq(K) : Then(Then(x, y), z) = Then(x, Then(y, z))
  BY ConcatAssociative DEF Then
<1>5. ASSUME NEW x \in Seq(K), NEW k \in K
      PROVE  <<k>> \in Seq(K) /\ Append(x, k) = Then(x, <<k>>)
  <2>1. Append(x, k) = x \o <<k>>
    BY AppendIsConcat
  <2> QED BY <2>1 DEF Then
<1> QED BY <1>1, <1>2, <1>3, <1>4, <1>5, Zenon

\* One more at the end, and one less at the beginning.
LEMMA ThenOne ==
    ASSUME NEW K
    PROVE  /\ \A x \in Seq(K), k \in K : Append(x, k) \in Seq(K)
           /\ \A x, y \in Seq(K), k \in K : Append(Then(x, y), k) = Then(x, Append(y, k))
           /\ \A x \in Seq(K) : x # <<>> => /\ Head(x) \in K /\ Tail(x) \in Seq(K)
                                          /\ x = Then(<<Head(x)>>, Tail(x))
<1>1. \A x \in Seq(K), k \in K : Append(x, k) \in Seq(K)
  OBVIOUS
<1>2. ASSUME NEW x \in Seq(K), NEW y \in Seq(K), NEW k \in K
      PROVE  Append(Then(x, y), k) = Then(x, Append(y, k))
  BY DEF Then
<1>3. ASSUME NEW x \in Seq(K), x # <<>>
      PROVE  Head(x) \in K /\ Tail(x) \in Seq(K) /\ x = Then(<<Head(x)>>, Tail(x))
  BY <1>3 DEF Then
<1> QED BY <1>1, <1>2, <1>3, Zenon

\* f flattens the first n of q, step by step.
Flattens(f, q, n) ==
    f = [i \in 1 .. n |-> IF i = 1 THEN q[i] ELSE Then(f[i - 1], q[i])]

\* There is a function that flattens the first n.
LEMMA FlattensExists ==
    ASSUME NEW q, NEW n \in Nat \ {0}
    PROVE  \E f : Flattens(f, q, n)
<1> DEFINE T == {m \in Nat : \E f : Flattens(f, q, m)}
<1>1. 1 \in T
  <2>1. Flattens([i \in 1 .. 1 |-> q[1]], q, 1)
    BY DEF Flattens
  <2> QED BY <2>1
<1>2. ASSUME NEW m \in 1 .. n - 1, m \in T PROVE m + 1 \in T
  <2>1. PICK f : Flattens(f, q, m)
    BY <1>2
  <2>2. PICK g : g = [i \in 1 .. m + 1 |-> IF i <= m THEN f[i] ELSE Then(f[m], q[i])]
    OBVIOUS
  <2>3. Flattens(g, q, m + 1)
    <3>1. /\ m \in Nat /\ m >= 1 /\ m + 1 # 1 /\ (m + 1) - 1 = m
          /\ \A i \in 1 .. m + 1 : i \in 1 .. m \/ i = m + 1
      OBVIOUS
    <3>2. ASSUME NEW i \in 1 .. m
          PROVE  g[i] = IF i = 1 THEN q[i] ELSE Then(g[i - 1], q[i])
      <4>1. g[i] = f[i] /\ (i # 1 => g[i - 1] = f[i - 1])
        BY <2>2
      <4>2. f[i] = IF i = 1 THEN q[i] ELSE Then(f[i - 1], q[i])
        BY <2>1 DEF Flattens
      <4> QED BY <4>1, <4>2, Zenon
    <3>3. g[m + 1] = Then(g[m], q[m + 1])
      BY <2>2
    <3>4. \A i \in 1 .. m + 1 : g[i] = IF i = 1 THEN q[i] ELSE Then(g[i - 1], q[i])
      BY <3>1, <3>2, <3>3, Zenon
    <3>5. g = [i \in 1 .. m + 1 |-> g[i]]
      BY <2>2
    <3> QED BY <3>4, <3>5, Zenon DEF Flattens
  <2> QED BY <2>3
<1>3. 1 .. n \subseteq T
  <2> HIDE DEF T
  <2> QED BY <1>1, <1>2, SegmentInduction
<1> QED BY <1>3

\* It is that function that FlattenSeq applies to the length.
LEMMA FlattenSeqIs ==
    ASSUME NEW K, NEW q \in Seq(Seq(K)), q # <<>>
    PROVE  \E f : Flattens(f, q, Len(q)) /\ FlattenSeq(q) = f[Len(q)]
<1>1. Len(q) \in Nat \ {0}
  OBVIOUS
<1>2. \E f : Flattens(f, q, Len(q))
  BY <1>1, FlattensExists
<1>3. FlattenSeq(q) = (CHOOSE f : Flattens(f, q, Len(q)))[Len(q)]
  BY <1>1 DEF FlattenSeq, Flattens, Then
<1> QED BY <1>2, <1>3

\* What is flattened is a sequence of the same elements.
LEMMA FlattenType ==
    ASSUME NEW K, NEW q \in Seq(Seq(K))
    PROVE  FlattenSeq(q) \in Seq(K)
<1>1. CASE q = <<>>
  <2>1. FlattenSeq(q) = <<>>
    BY <1>1 DEF FlattenSeq
  <2> QED BY <2>1
<1>2. CASE q # <<>>
  <2>1. PICK f : Flattens(f, q, Len(q)) /\ FlattenSeq(q) = f[Len(q)]
    BY <1>2, FlattenSeqIs
  <2>2. Len(q) \in Nat \ {0} /\ \A i \in 1 .. Len(q) : q[i] \in Seq(K)
    BY <1>2
  <2>3. \A i \in 1 .. Len(q) : f[i] = IF i = 1 THEN q[i] ELSE Then(f[i - 1], q[i])
    BY <2>1 DEF Flattens
  <2> DEFINE T == {i \in 1 .. Len(q) : f[i] \in Seq(K)}
  <2>4. 1 \in T
    BY <2>2, <2>3
  <2>5. ASSUME NEW i \in 1 .. Len(q) - 1, i \in T PROVE i + 1 \in T
    <3>1. i + 1 \in 1 .. Len(q) /\ i + 1 # 1 /\ (i + 1) - 1 = i
      BY <2>2
    <3>2. f[i + 1] = Then(f[i], q[i + 1])
      BY <2>3, <3>1, Zenon
    <3>3. Then(f[i], q[i + 1]) \in Seq(K)
      BY <2>2, <2>5, <3>1 DEF Then
    <3> QED BY <3>1, <3>2, <3>3
  <2>6. 1 .. Len(q) \subseteq T
    <3> HIDE DEF T
    <3> QED BY <2>2, <2>4, <2>5, SegmentInduction
  <2> QED BY <2>1, <2>2, <2>6
<1> QED BY <1>1, <1>2

\* Flattening one more at the end.
LEMMA FlattenAppend ==
    ASSUME NEW K, NEW q \in Seq(Seq(K)), NEW x \in Seq(K)
    PROVE  FlattenSeq(Append(q, x)) = FlattenSeq(q) \o x
<1> DEFINE r == Append(q, x)
<1>1. /\ r \in Seq(Seq(K)) /\ r # <<>> /\ Len(r) = Len(q) + 1 /\ r[Len(r)] = x
      /\ Len(q) \in Nat /\ \A i \in 1 .. Len(q) : r[i] = q[i]
  BY AppendProperties
<1> HIDE DEF r
<1>2. PICK g : Flattens(g, r, Len(r)) /\ FlattenSeq(r) = g[Len(r)]
  BY <1>1, FlattenSeqIs
<1>3. \A i \in 1 .. Len(r) : g[i] = IF i = 1 THEN r[i] ELSE Then(g[i - 1], r[i])
  BY <1>2 DEF Flattens
<1>4. CASE q = <<>>
  <2>1. FlattenSeq(q) = <<>> /\ Len(q) = 0
    BY <1>4 DEF FlattenSeq
  <2>2. g[1] = x
    BY <1>1, <1>3, <2>1
  <2> QED BY <1>1, <1>2, <2>1, <2>2 DEF r
<1>5. CASE q # <<>>
  <2>1. PICK f : Flattens(f, q, Len(q)) /\ FlattenSeq(q) = f[Len(q)]
    BY <1>5, FlattenSeqIs
  <2>2. \A i \in 1 .. Len(q) : f[i] = IF i = 1 THEN q[i] ELSE Then(f[i - 1], q[i])
    BY <2>1 DEF Flattens
  <2> DEFINE T == {i \in 1 .. Len(q) : f[i] = g[i]}
  <2>3. Len(q) \in Nat \ {0}
    BY <1>5
  <2>4. 1 \in T
    BY <1>1, <1>3, <2>2, <2>3
  <2>5. ASSUME NEW i \in 1 .. Len(q) - 1, i \in T PROVE i + 1 \in T
    <3>1. /\ i + 1 \in 1 .. Len(q) /\ i + 1 \in 1 .. Len(r) /\ i + 1 # 1
          /\ (i + 1) - 1 = i
      BY <1>1, <2>3
    <3>2. f[i + 1] = Then(f[i], q[i + 1]) /\ g[i + 1] = Then(g[i], r[i + 1])
      BY <1>3, <2>2, <3>1, Zenon
    <3> QED BY <1>1, <2>5, <3>1, <3>2
  <2>6. 1 .. Len(q) \subseteq T
    <3> HIDE DEF T
    <3> QED BY <2>3, <2>4, <2>5, SegmentInduction
  <2>7. f[Len(q)] = g[Len(q)]
    BY <2>3, <2>6
  <2>8. g[Len(r)] = Then(g[Len(q)], x)
    <3>1. Len(r) \in 1 .. Len(r) /\ Len(r) # 1 /\ Len(r) - 1 = Len(q)
      BY <1>1, <2>3
    <3> QED BY <1>1, <1>3, <3>1, Zenon
  <2> QED BY <1>2, <2>1, <2>7, <2>8 DEF Then, r
<1> QED BY <1>4, <1>5

\* Flattening the first, and the others after it.
LEMMA FlattenHead ==
    ASSUME NEW K, NEW q \in Seq(Seq(K)), q # <<>>
    PROVE  FlattenSeq(q) = Head(q) \o FlattenSeq(Tail(q))
<1> DEFINE r == Tail(q)
<1>1. /\ r \in Seq(Seq(K)) /\ Len(r) = Len(q) - 1 /\ Head(q) = q[1]
      /\ Len(q) \in Nat \ {0} /\ \A i \in 1 .. Len(r) : r[i] = q[i + 1]
      /\ Head(q) \in Seq(K)
  OBVIOUS
<1> HIDE DEF r
<1>2. PICK g : Flattens(g, q, Len(q)) /\ FlattenSeq(q) = g[Len(q)]
  BY <1>1, FlattenSeqIs
<1>3. \A i \in 1 .. Len(q) : g[i] = IF i = 1 THEN q[i] ELSE Then(g[i - 1], q[i])
  BY <1>2 DEF Flattens
<1>4. CASE r = <<>>
  <2>1. FlattenSeq(r) = <<>> /\ Len(r) = 0
    BY <1>4 DEF FlattenSeq
  <2>2. Len(q) = 1
    BY <1>1, <2>1
  <2>3. FlattenSeq(q) = Head(q)
    BY <1>1, <1>2, <1>3, <2>2
  <2>4. Head(q) \o <<>> = Head(q)
    BY <1>1, ConcatEmptySeq
  <2> QED BY <2>1, <2>3, <2>4 DEF r
<1>5. CASE r # <<>>
  <2>1. PICK f : Flattens(f, r, Len(r)) /\ FlattenSeq(r) = f[Len(r)]
    BY <1>1, <1>5, FlattenSeqIs
  <2>2. \A i \in 1 .. Len(r) : f[i] = IF i = 1 THEN r[i] ELSE Then(f[i - 1], r[i])
    BY <2>1 DEF Flattens
  <2> DEFINE T == {i \in 1 .. Len(r) :
                    f[i] \in Seq(K) /\ g[i + 1] = Then(Head(q), f[i])}
  <2>3. Len(r) \in Nat \ {0} /\ \A i \in 1 .. Len(r) : r[i] \in Seq(K)
    <3>1. r \in Seq(Seq(K)) /\ r # <<>>
      BY <1>1, <1>5
    <3> QED BY <3>1
  <2>4. 1 \in T
    <3>1. 1 \in 1 .. Len(r) /\ 1 \in 1 .. Len(q) /\ 2 \in 1 .. Len(q) /\ 2 # 1 /\ 2 - 1 = 1
          /\ 1 + 1 = 2
      BY <1>1, <2>3
    <3>2. f[1] = r[1] /\ g[1] = q[1] /\ g[2] = Then(g[1], q[2])
      BY <1>3, <2>2, <3>1, Zenon
    <3> QED BY <1>1, <2>3, <3>1, <3>2
  <2>5. ASSUME NEW i \in 1 .. Len(r) - 1, i \in T PROVE i + 1 \in T
    <3>1. /\ i + 1 \in 1 .. Len(r) /\ i + 2 \in 1 .. Len(q) /\ i + 1 # 1 /\ i + 2 # 1
          /\ (i + 1) - 1 = i /\ (i + 2) - 1 = i + 1 /\ (i + 1) + 1 = i + 2
      BY <1>1, <2>3
    <3>2. f[i + 1] = Then(f[i], r[i + 1]) /\ g[i + 2] = Then(g[i + 1], q[i + 2])
      BY <1>3, <2>2, <3>1, Zenon
    <3>3. /\ f[i] \in Seq(K) /\ r[i + 1] \in Seq(K) /\ q[i + 2] = r[i + 1]
          /\ g[i + 1] = Then(Head(q), f[i])
      BY <1>1, <2>3, <2>5, <3>1
    <3>4. Then(Then(Head(q), f[i]), r[i + 1]) = Then(Head(q), Then(f[i], r[i + 1]))
      <4>1. Head(q) \in Seq(K) /\ f[i] \in Seq(K) /\ r[i + 1] \in Seq(K)
        BY <1>1, <3>3, Zenon
      <4>2. \A x, y, z \in Seq(K) : Then(Then(x, y), z) = Then(x, Then(y, z))
        BY ThenFacts
      <4> QED BY <4>1, <4>2, Zenon
    <3>5. Then(f[i], r[i + 1]) \in Seq(K)
      BY <3>3 DEF Then
    <3> QED BY <3>1, <3>2, <3>3, <3>4, <3>5
  <2>6. 1 .. Len(r) \subseteq T
    <3> HIDE DEF T
    <3> QED BY <2>3, <2>4, <2>5, SegmentInduction
  <2>7. g[Len(r) + 1] = Then(Head(q), f[Len(r)])
    <3>1. Len(r) \in T
      BY <2>3, <2>6
    <3> QED BY <3>1
  <2>8. Len(r) + 1 = Len(q)
    BY <1>1
  <2> QED BY <1>2, <2>1, <2>7, <2>8 DEF Then, r
<1> QED BY <1>4, <1>5

-----------------------------------------------------------------------------
(* What of a stream is relayed.                                            *)

\* What the converter keeps of a value.
Kept(k) == IF k \in Logs THEN <<>> ELSE <<k>>

\* Another value of a stream.
LEMMA RelayedAppend ==
    ASSUME NEW K, NEW w \in Seq(K), NEW k \in K
    PROVE  Relayed(Append(w, k)) =
             Relayed(w) \o (IF k \in Logs \/ "bad" \in Range(Append(w, k))
                            THEN <<>> ELSE <<k>>)
<1> DEFINE Piece(v, i) ==
        IF v[i] \in Logs \/ \E j \in 1 .. i : v[j] = "bad" THEN <<>> ELSE <<v[i]>>
           Pieces(v) == [i \in DOMAIN v |-> Piece(v, i)]
           x == Append(w, k)
<1>1. /\ x \in Seq(K) /\ Len(x) = Len(w) + 1 /\ x[Len(w) + 1] = k
      /\ \A i \in 1 .. Len(w) : x[i] = w[i]
      /\ Len(w) \in Nat /\ DOMAIN w = 1 .. Len(w) /\ DOMAIN x = 1 .. Len(w) + 1
  BY AppendProperties
<1> HIDE DEF x
<1>2. \A i \in 1 .. Len(w) : Piece(x, i) = Piece(w, i)
  <2> TAKE i \in 1 .. Len(w)
  <2>1. \A j \in 1 .. i : x[j] = w[j]
    BY <1>1
  <2> QED BY <1>1, <2>1
<1>3. Piece(x, Len(w) + 1) = IF k \in Logs \/ "bad" \in Range(x) THEN <<>> ELSE <<k>>
  BY <1>1 DEF Range
<1>4. /\ Pieces(w) \in Seq(Seq(K)) /\ Piece(x, Len(w) + 1) \in Seq(K)
      /\ Len(Pieces(w)) = Len(w)
  <2>1. \A i \in 1 .. Len(w) : w[i] \in K
    OBVIOUS
  <2>2. \A i \in 1 .. Len(w) : Piece(w, i) \in Seq(K)
    BY <2>1
  <2> HIDE DEF Piece
  <2>3. Pieces(w) \in Seq(Seq(K)) /\ Len(Pieces(w)) = Len(w)
    BY <1>1, <2>2
  <2>4. <<>> \in Seq(K) /\ <<k>> \in Seq(K)
    OBVIOUS
  <2>5. Piece(x, Len(w) + 1) \in Seq(K)
    BY <1>3, <2>4, Zenon
  <2> QED BY <2>3, <2>5
<1> HIDE DEF Piece
<1>5. Pieces(x) = Append(Pieces(w), Piece(x, Len(w) + 1))
  BY <1>1, <1>2, <1>4
<1>6. FlattenSeq(Pieces(x)) = FlattenSeq(Pieces(w)) \o Piece(x, Len(w) + 1)
  BY <1>4, <1>5, FlattenAppend
<1>7. Relayed(x) = FlattenSeq(Pieces(x)) /\ Relayed(w) = FlattenSeq(Pieces(w))
  BY DEF Relayed, Piece
<1> QED BY <1>3, <1>6, <1>7, Zenon DEF x

\* What is relayed is a sequence of the same values, of nothing nothing.
LEMMA RelayedType ==
    /\ Relayed(<<>>) = <<>>
    /\ \A K : \A w \in Seq(K) : Relayed(w) \in Seq(K)
<1>1. Relayed(<<>>) = <<>>
  BY DEF Relayed, FlattenSeq
<1>2. ASSUME NEW K, NEW w \in Seq(K) PROVE Relayed(w) \in Seq(K)
  <2> DEFINE Piece(i) ==
        IF w[i] \in Logs \/ \E j \in 1 .. i : w[j] = "bad" THEN <<>> ELSE <<w[i]>>
             pieces == [i \in DOMAIN w |-> Piece(i)]
  <2>1. Len(w) \in Nat /\ DOMAIN w = 1 .. Len(w) /\ \A i \in 1 .. Len(w) : w[i] \in K
    OBVIOUS
  <2>2. \A i \in 1 .. Len(w) : Piece(i) \in Seq(K)
    BY <2>1
  <2> HIDE DEF Piece
  <2>3. pieces \in Seq(Seq(K))
    BY <2>1, <2>2
  <2>4. Relayed(w) = FlattenSeq(pieces)
    BY DEF Relayed, Piece
  <2> QED BY <2>3, <2>4, FlattenType
<1> QED BY <1>1, <1>2

\* The beginnings of a sequence.
LEMMA Beginnings ==
    ASSUME NEW K, NEW w \in Seq(K)
    PROVE  /\ SubSeq(w, 1, 0) = <<>> /\ SubSeq(w, 1, Len(w)) = w
           /\ \A i \in 0 .. Len(w) : SubSeq(w, 1, i) \in Seq(K)
           /\ \A i \in 0 .. Len(w) - 1 :
                    /\ w[i + 1] \in K
                    /\ SubSeq(w, 1, i + 1) = Append(SubSeq(w, 1, i), w[i + 1])
<1>1. Len(w) \in Nat /\ DOMAIN w = 1 .. Len(w) /\ \A i \in 1 .. Len(w) : w[i] \in K
  OBVIOUS
<1>2. SubSeq(w, 1, 0) = <<>> /\ SubSeq(w, 1, Len(w)) = w
  BY <1>1
<1>3. \A i \in 0 .. Len(w) : SubSeq(w, 1, i) \in Seq(K)
  BY <1>1
<1>4. ASSUME NEW i \in 0 .. Len(w) - 1
      PROVE  /\ w[i + 1] \in K
             /\ SubSeq(w, 1, i + 1) = Append(SubSeq(w, 1, i), w[i + 1])
  BY <1>1
<1> QED BY <1>2, <1>3, <1>4

\* The values of a stream, with one more.
LEMMA RangeOfAppend ==
    ASSUME NEW K, NEW w \in Seq(K), NEW k \in K
    PROVE  Range(Append(w, k)) = Range(w) \cup {k}
<1>1. /\ Len(w) \in Nat /\ DOMAIN w = 1 .. Len(w)
      /\ DOMAIN Append(w, k) = 1 .. Len(w) + 1 /\ Append(w, k)[Len(w) + 1] = k
      /\ \A i \in 1 .. Len(w) : Append(w, k)[i] = w[i]
  BY AppendProperties
<1> QED BY <1>1 DEF Range

\* Nothing is relayed that is not in the stream.
LEMMA RelayedRange ==
    ASSUME NEW K, NEW w \in Seq(K)
    PROVE  Range(Relayed(w)) \subseteq Range(w)
<1> DEFINE T == {i \in 0 .. Len(w) : Range(Relayed(SubSeq(w, 1, i))) \subseteq Range(w)}
<1>0. Len(w) \in Nat
  OBVIOUS
<1>1. 0 \in T
  <2>1. SubSeq(w, 1, 0) = <<>> /\ Relayed(<<>>) = <<>>
    BY Beginnings, RelayedType
  <2>2. Range(<<>>) \subseteq Range(w)
    BY DEF Range
  <2>3. 0 \in 0 .. Len(w)
    BY <1>0
  <2> QED BY <2>1, <2>2, <2>3, Zenon
<1>2. ASSUME NEW i \in 0 .. Len(w) - 1, i \in T PROVE i + 1 \in T
  <2> DEFINE v == SubSeq(w, 1, i)
             k == w[i + 1]
  <2> HIDE DEF T
  <2>1. v \in Seq(K) /\ k \in K /\ SubSeq(w, 1, i + 1) = Append(v, k)
    BY Beginnings
  <2>0. k \in Range(w)
    BY <1>0 DEF Range
  <2> HIDE DEF v, k
  <2>2. Relayed(v) \in Seq(K)
    BY <2>1, RelayedType
  <2>3. \/ Relayed(Append(v, k)) = Relayed(v) \o <<>>
        \/ Relayed(Append(v, k)) = Relayed(v) \o <<k>>
    BY <2>1, RelayedAppend
  <2>4. Range(Relayed(v)) \subseteq Range(w)
    BY <1>2 DEF v, T
  <2>5. Range(Relayed(Append(v, k))) \subseteq Range(w)
    <3>1. /\ <<>> \in Seq(K) /\ <<k>> \in Seq(K)
          /\ Range(<<>>) = {} /\ Range(<<k>>) = {k}
      BY <2>1 DEF Range
    <3>2. /\ Range(Relayed(v) \o <<>>) = Range(Relayed(v)) \cup Range(<<>>)
          /\ Range(Relayed(v) \o <<k>>) = Range(Relayed(v)) \cup Range(<<k>>)
      <4>1. \A a, b \in Seq(K) : Range(a \o b) = Range(a) \cup Range(b)
        BY RangeConcatenation
      <4> QED BY <2>2, <3>1, <4>1, Zenon
    <3> QED BY <2>0, <2>1, <2>3, <2>4, <3>1, <3>2
  <2>6. i + 1 \in 0 .. Len(w)
    BY <1>0
  <2> QED BY <2>1, <2>5, <2>6 DEF T
<1>3. 0 .. Len(w) \subseteq T
  <2> HIDE DEF T
  <2> QED BY <1>0, <1>1, <1>2, SegmentInduction
<1>4. Len(w) \in T
  BY <1>0, <1>3
<1> QED BY <1>4, Beginnings

\* What a stream goes on with is relayed after what it began with; after a bad value,
\* nothing is.
LEMMA RelayedLater ==
    ASSUME NEW K, NEW w \in Seq(K), NEW r \in Seq(K)
    PROVE  \E e \in Seq(K) : /\ Relayed(Then(w, r)) = Then(Relayed(w), e)
                             /\ "bad" \in Range(w) => e = <<>>
<1> DEFINE Good(i, e) == /\ Relayed(w \o SubSeq(r, 1, i)) = Relayed(w) \o e
                         /\ "bad" \in Range(w) => e = <<>>
           T == {i \in 0 .. Len(r) : \E e \in Seq(K) : Good(i, e)}
<1>1. 0 \in T
  <2>1. w \o SubSeq(r, 1, 0) = w /\ <<>> \in Seq(K)
    BY Beginnings, ConcatEmptySeq
  <2>2. Relayed(w) = Relayed(w) \o <<>>
    BY RelayedType, ConcatEmptySeq
  <2>3. 0 \in 0 .. Len(r)
    OBVIOUS
  <2> QED BY <2>1, <2>2, <2>3
<1>2. ASSUME NEW i \in 0 .. Len(r) - 1, i \in T PROVE i + 1 \in T
  <2> DEFINE v == SubSeq(r, 1, i)
             k == r[i + 1]
  <2>1. v \in Seq(K) /\ k \in K /\ SubSeq(r, 1, i + 1) = Append(v, k)
    BY Beginnings
  <2>2. PICK e \in Seq(K) : Good(i, e)
    BY <1>2
  <2>3. Relayed(w \o v) = Relayed(w) \o e /\ ("bad" \in Range(w) => e = <<>>)
    BY <2>2
  <2> HIDE DEF v, k
  <2>4. w \o Append(v, k) = Append(w \o v, k) /\ w \o v \in Seq(K)
    BY <2>1
  <2>5. "bad" \in Range(w) => "bad" \in Range(Append(w \o v, k))
    <3>1. Range(Append(w \o v, k)) = Range(w \o v) \cup {k}
      <4>1. \A a \in Seq(K), b \in K : Range(Append(a, b)) = Range(a) \cup {b}
        BY RangeOfAppend
      <4> QED BY <2>1, <2>4, <4>1, Zenon
    <3>2. Range(w \o v) = Range(w) \cup Range(v)
      <4>1. \A a, b \in Seq(K) : Range(a \o b) = Range(a) \cup Range(b)
        BY RangeConcatenation
      <4> QED BY <2>1, <4>1, Zenon
    <3> QED BY <3>1, <3>2
  <2> DEFINE f == IF k \in Logs \/ "bad" \in Range(Append(w \o v, k)) THEN <<>> ELSE <<k>>
  <2>6. f \in Seq(K) /\ ("bad" \in Range(w) => f = <<>>)
    BY <2>1, <2>5
  <2>7. Relayed(w \o Append(v, k)) = (Relayed(w) \o e) \o f
    BY <2>1, <2>3, <2>4, RelayedAppend
  <2> HIDE DEF f
  <2>8. Relayed(w) \in Seq(K)
    BY RelayedType, Zenon
  <2>9. (Relayed(w) \o e) \o f = Relayed(w) \o (e \o f) /\ e \o f \in Seq(K)
    BY <2>6, <2>8, ConcatAssociative
  <2>10. "bad" \in Range(w) => e \o f = <<>>
    BY <2>3, <2>6
  <2>11. Good(i + 1, e \o f)
    BY <2>1, <2>7, <2>9, <2>10
  <2>12. i + 1 \in 0 .. Len(r)
    OBVIOUS
  <2> HIDE DEF Good
  <2> QED BY <2>9, <2>11, <2>12
<1>3. Len(r) \in Nat /\ 0 .. Len(r) \subseteq T
  <2> HIDE DEF T
  <2> QED BY <1>1, <1>2, SegmentInduction, LenProperties
<1>4. Len(r) \in T
  <2> HIDE DEF T
  <2> QED BY <1>3
<1>5. PICK e \in Seq(K) : Good(Len(r), e)
  BY <1>4
<1> QED BY <1>5, Beginnings DEF Then

\* What another value adds to what is relayed, before a bad value and after one.
LEMMA RelayedNext ==
    ASSUME NEW K, NEW w \in Seq(K), NEW k \in K
    PROVE  /\ Range(Append(w, k)) = Range(w) \cup {k}
           /\ "bad" \in Range(w) \cup {k} => Relayed(Append(w, k)) = Relayed(w)
           /\ "bad" \notin Range(w) \cup {k} =>
                    Relayed(Append(w, k)) = Then(Relayed(w), Kept(k))
<1>1. Range(Append(w, k)) = Range(w) \cup {k}
  BY RangeOfAppend
<1>2. Relayed(w) \o <<>> = Relayed(w)
  BY RelayedType, ConcatEmptySeq
<1>3. Relayed(Append(w, k)) =
        Relayed(w) \o (IF k \in Logs \/ "bad" \in Range(w) \cup {k} THEN <<>> ELSE <<k>>)
  BY <1>1, RelayedAppend
<1> QED BY <1>1, <1>2, <1>3 DEF Kept, Then

\* Sequences that are the same with one more were the same.
LEMMA SameAppend ==
    ASSUME NEW K
    PROVE  \A a, x \in Seq(K), k, e \in K : Append(a, k) = Append(x, e) => a = x /\ k = e
<1> SUFFICES ASSUME NEW a \in Seq(K), NEW x \in Seq(K), NEW k \in K, NEW e \in K,
                    Append(a, k) = Append(x, e)
             PROVE  a = x /\ k = e
  OBVIOUS
<1>1. /\ Len(a) \in Nat /\ Len(x) \in Nat
      /\ Len(Append(a, k)) = Len(a) + 1 /\ Append(a, k)[Len(a) + 1] = k
      /\ Len(Append(x, e)) = Len(x) + 1 /\ Append(x, e)[Len(x) + 1] = e
  OBVIOUS
<1>2. /\ \A i \in 1 .. Len(a) : Append(a, k)[i] = a[i]
      /\ \A i \in 1 .. Len(x) : Append(x, e)[i] = x[i]
  OBVIOUS
<1>3. Len(a) = Len(x) /\ \A i \in 1 .. Len(a) : a[i] = x[i]
  BY <1>1, <1>2
<1> QED BY <1>1, <1>3, SeqEqual

\* d is a beginning of x.
Begins(d, x, K) == \E u \in Seq(K) : x = Then(d, u)

\* What a sequence that ends with e begins with: it is the whole, or comes before e.
LEMMA BeginningOfAppend ==
    ASSUME NEW K
    PROVE  \A d, z, x \in Seq(K), e \in K :
             Then(d, z) = Append(x, e) => d = Append(x, e) \/ Begins(d, x, K)
<1> SUFFICES ASSUME NEW d \in Seq(K), NEW z \in Seq(K), NEW x \in Seq(K), NEW e \in K,
                    Then(d, z) = Append(x, e)
             PROVE  d = Append(x, e) \/ \E u \in Seq(K) : x = Then(d, u)
  BY Zenon DEF Begins
<1>1. CASE z = <<>>
  BY <1>1, ThenFacts
<1>2. CASE z # <<>>
  <2>1. PICK u \in Seq(K), k \in K : z = Append(u, k)
    <3>1. Len(z) \in Nat \ {0} /\ \A i \in 1 .. Len(z) : z[i] \in K
      BY <1>2
    <3>2. /\ SubSeq(z, 1, Len(z) - 1) \in Seq(K) /\ z[Len(z)] \in K
          /\ z = Append(SubSeq(z, 1, Len(z) - 1), z[Len(z)])
      BY <3>1
    <3> QED BY <3>2
  <2>2. Then(d, u) \in Seq(K)
    BY ThenFacts
  <2>3. Append(Then(d, u), k) = Then(d, Append(u, k))
    BY ThenOne
  <2>4. \A a \in Seq(K) : Append(a, k) = Append(x, e) => a = x
    BY SameAppend
  <2> QED BY <2>1, <2>2, <2>3, <2>4, Zenon
<1> QED BY <1>1, <1>2

\* What a sequence begins with is shorter, unless nothing follows.
LEMMA BeginningIs ==
    ASSUME NEW K, NEW d \in Seq(K), NEW u \in Seq(K)
    PROVE  IsPrefix(d, Then(d, u)) /\ Len(Then(d, u)) = Len(d) + Len(u)
  BY DEF IsPrefix, Then

\* The value that comes next.
LEMMA NextIs ==
    ASSUME NEW K
    PROVE  \A d, u \in Seq(K), k \in K : \A w : w = Then(Append(d, k), u) =>
             IsStrictPrefix(d, w) /\ Len(d) + 1 \in 1 .. Len(w) /\ w[Len(d) + 1] = k
  BY DEF IsStrictPrefix, IsPrefix, Then

-----------------------------------------------------------------------------
(* Reports of the exit.                                                    *)

\* At most one of a sequence is a report.
OneReport(q) == \A i, j \in DOMAIN q : q[i] \in Reports /\ q[j] \in Reports => i = j

\* A beginning has no second report, and one may follow where there was none.
LEMMA OneReportFacts ==
    ASSUME NEW K
    PROVE  /\ \A d, u \in Seq(K) : OneReport(Then(d, u)) => OneReport(d)
           /\ \A q \in Seq(K) : Range(q) \cap Reports = {} => OneReport(q)
           /\ \A q \in Seq(K), k \in K :
                Range(q) \cap Reports = {} => OneReport(Append(q, k))
<1>1. ASSUME NEW d \in Seq(K), NEW u \in Seq(K), OneReport(Then(d, u)) PROVE OneReport(d)
  BY <1>1 DEF OneReport, Then
<1>2. ASSUME NEW q \in Seq(K), Range(q) \cap Reports = {} PROVE OneReport(q)
  BY <1>2 DEF OneReport, Range
<1>3. ASSUME NEW q \in Seq(K), NEW k \in K, Range(q) \cap Reports = {}
      PROVE  OneReport(Append(q, k))
  <2>1. \A i \in DOMAIN q : q[i] \notin Reports
    BY <1>3 DEF Range
  <2>2. \A i \in DOMAIN Append(q, k) :
            i = Len(q) + 1 \/ (i \in DOMAIN q /\ Append(q, k)[i] = q[i])
    OBVIOUS
  <2> QED BY <2>1, <2>2 DEF OneReport
<1> QED BY <1>1, <1>2, <1>3, Zenon

-----------------------------------------------------------------------------
(* Messages of several senders in one channel.                             *)

\* What a message says, if it is one of s; what all those in a channel say.
Of(m, s) == IF m.from = s THEN <<m.kind>> ELSE <<>>
Said(q, s) == FlattenSeq([i \in DOMAIN q |-> Of(q[i], s)])

\* The messages of M say values of K.
Speak(M, s, K) == \A m \in M : Of(m, s) \in Seq(K)

\* One message more in a channel, and one less.
LEMMA SaidOfQueue ==
    ASSUME NEW K, NEW s, NEW M, Speak(M, s, K), NEW q \in Seq(M)
    PROVE  /\ Said(<<>>, s) = <<>> /\ Said(q, s) \in Seq(K)
           /\ \A m \in M : Said(Append(q, m), s) = Then(Said(q, s), Of(m, s))
           /\ q # <<>> => Said(q, s) = Then(Of(Head(q), s), Said(Tail(q), s))
<1> DEFINE each(v) == [i \in DOMAIN v |-> Of(v[i], s)]
<1>0. \A m \in M : Of(m, s) \in Seq(K)
  BY DEF Speak
<1>1. Said(<<>>, s) = <<>>
  BY DEF Said, FlattenSeq
<1>2. \A v \in Seq(M) : each(v) \in Seq(Seq(K)) /\ Len(each(v)) = Len(v)
  <2> TAKE v \in Seq(M)
  <2>1. Len(v) \in Nat /\ DOMAIN v = 1 .. Len(v) /\ \A i \in 1 .. Len(v) : v[i] \in M
    OBVIOUS
  <2>2. \A i \in 1 .. Len(v) : Of(v[i], s) \in Seq(K)
    BY <1>0, <2>1
  <2> QED BY <2>1, <2>2
<1>3. \A v : Said(v, s) = FlattenSeq(each(v))
  BY DEF Said
<1>4. ASSUME NEW m \in M
      PROVE  each(Append(q, m)) = Append(each(q), Of(m, s))
  <2>1. each(q) \in Seq(Seq(K)) /\ Len(each(q)) = Len(q)
    BY <1>2
  <2> QED BY <2>1
<1>5. ASSUME q # <<>>
      PROVE  /\ each(q) # <<>> /\ Head(each(q)) = Of(Head(q), s)
             /\ Tail(each(q)) = each(Tail(q)) /\ Tail(q) \in Seq(M)
  <2>1. /\ Len(q) \in Nat \ {0} /\ Tail(q) \in Seq(M) /\ Len(Tail(q)) = Len(q) - 1
        /\ \A i \in 1 .. Len(q) - 1 : Tail(q)[i] = q[i + 1]
    BY <1>5
  <2>2. each(q) \in Seq(Seq(K)) /\ Len(each(q)) = Len(q)
    BY <1>2
  <2> QED BY <2>1, <2>2
<1>6. ASSUME NEW m \in M PROVE Said(Append(q, m), s) = Then(Said(q, s), Of(m, s))
  <2> HIDE DEF each
  <2>1. each(q) \in Seq(Seq(K)) /\ Of(m, s) \in Seq(K)
    BY <1>0, <1>2
  <2>2. FlattenSeq(Append(each(q), Of(m, s))) = FlattenSeq(each(q)) \o Of(m, s)
    BY <2>1, FlattenAppend
  <2> QED BY <1>3, <1>4, <2>2, Zenon DEF Then
<1>7. Said(q, s) \in Seq(K)
  <2> HIDE DEF each
  <2> QED BY <1>2, <1>3, FlattenType
<1>8. ASSUME q # <<>> PROVE Said(q, s) = Then(Of(Head(q), s), Said(Tail(q), s))
  <2> HIDE DEF each
  <2> QED BY <1>2, <1>3, <1>5, <1>8, FlattenHead DEF Then
<1> QED BY <1>1, <1>6, <1>7, <1>8
=============================================================================
