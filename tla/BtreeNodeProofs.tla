--------------------------- MODULE BtreeNodeProofs ---------------------------
(***************************************************************************)
(* Lemmas about the operators of BtreeNode, for nodes over any set of      *)
(* keys, rows and page numbers.                                            *)
(***************************************************************************)
EXTENDS BtreeNode, SequenceTheorems, WellFoundedInduction, TLAPS

LEMMA InsertAtProperties ==
  ASSUME NEW S, NEW s \in Seq(S), NEW i \in 1 .. Len(s) + 1, NEW e \in S
  PROVE  /\ InsertAt(s, i, e) \in Seq(S)
         /\ Len(InsertAt(s, i, e)) = Len(s) + 1
         /\ \A j \in 1 .. Len(s) + 1 :
              InsertAt(s, i, e)[j] = IF j < i THEN s[j]
                                     ELSE IF j = i THEN e ELSE s[j - 1]
<1> DEFINE front == SubSeq(s, 1, i - 1)
           back  == SubSeq(s, i, Len(s))
<1>1. Len(s) \in Nat /\ \A j \in 1 .. Len(s) : s[j] \in S
  BY ElementOfSeq, LenProperties
<1>2. /\ front \in Seq(S) /\ Len(front) = i - 1
      /\ \A j \in 1 .. i - 1 : front[j] = s[j]
  BY <1>1, SubSeqProperties
<1>3. /\ back \in Seq(S) /\ Len(back) = Len(s) - i + 1
      /\ \A j \in 1 .. Len(s) - i + 1 : back[j] = s[i + j - 1]
  <2>1. \A j \in i .. Len(s) : s[j] \in S
    BY <1>1
  <2> QED
    BY <1>1, <2>1, SubSeqProperties
<1>4. <<e>> \in Seq(S) /\ Len(<<e>>) = 1 /\ <<e>>[1] = e
  OBVIOUS
<1> HIDE DEF front, back
<1> DEFINE prefix == front \o <<e>>
<1>5. /\ prefix \in Seq(S) /\ Len(prefix) = i
      /\ \A j \in 1 .. i : prefix[j] = IF j < i THEN s[j] ELSE e
  BY <1>1, <1>2, <1>4, ConcatProperties
<1>7. InsertAt(s, i, e) = prefix \o back
  BY DEF InsertAt, front, back
<1> HIDE DEF prefix
<1>6. /\ prefix \o back \in Seq(S)
      /\ Len(prefix \o back) = Len(s) + 1
      /\ \A j \in 1 .. Len(s) + 1 :
           (prefix \o back)[j] = IF j <= i THEN prefix[j] ELSE back[j - i]
  <2>1. Len(prefix) + Len(back) = Len(s) + 1
    BY <1>1, <1>3, <1>5
  <2> QED
    <3>1. /\ prefix \o back \in Seq(S)
          /\ Len(prefix \o back) = Len(prefix) + Len(back)
          /\ \A j \in 1 .. Len(prefix) + Len(back) : (prefix \o back)[j] =
               IF j <= Len(prefix) THEN prefix[j] ELSE back[j - Len(prefix)]
      BY <1>3, <1>5, ConcatProperties
    <3>2. Len(prefix) = i
      BY <1>5
    <3> QED
      BY <2>1, <3>1, <3>2
<1>8. \A j \in 1 .. Len(s) + 1 : InsertAt(s, i, e)[j] =
        IF j < i THEN s[j] ELSE IF j = i THEN e ELSE s[j - 1]
  <2> TAKE j \in 1 .. Len(s) + 1
  <2>1. CASE j <= i
    BY <1>1, <1>5, <1>6, <1>7, <2>1
  <2>2. CASE j > i
    <3>1. j - i \in 1 .. Len(s) - i + 1
      BY <1>1, <2>2
    <3>2. back[j - i] = s[i + (j - i) - 1]
      BY <1>3, <3>1
    <3>3. InsertAt(s, i, e)[j] = back[j - i]
      BY <1>1, <1>6, <1>7, <2>2
    <3> QED
      BY <1>1, <2>2, <3>2, <3>3
  <2> QED
    BY <1>1, <2>1, <2>2
<1> QED
  BY <1>6, <1>7, <1>8

LEMMA SubSeqType ==
  ASSUME NEW S, NEW s \in Seq(S), NEW m \in 1 .. Len(s) + 1, NEW n \in m - 1 .. Len(s)
  PROVE  /\ SubSeq(s, m, n) \in Seq(S)
         /\ Len(SubSeq(s, m, n)) = n - m + 1
         /\ \A j \in 1 .. n - m + 1 : SubSeq(s, m, n)[j] = s[m + j - 1]
<1>1. Len(s) \in Nat /\ \A j \in 1 .. Len(s) : s[j] \in S
  BY ElementOfSeq, LenProperties
<1>2. \A j \in m .. n : s[j] \in S
  BY <1>1
<1> QED
  BY <1>1, <1>2, SubSeqProperties

LEMMA SplitSeq ==
  ASSUME NEW S, NEW s \in Seq(S), NEW m, m = Len(s), NEW h \in 0 .. m
  PROVE  /\ SubSeq(s, 1, h) \in Seq(S)
         /\ Len(SubSeq(s, 1, h)) = h
         /\ SubSeq(s, h + 1, m) \in Seq(S)
         /\ Len(SubSeq(s, h + 1, m)) = m - h
<1>1. m \in Nat
  BY LenProperties
<1>2. /\ SubSeq(s, 1, h) \in Seq(S)
      /\ Len(SubSeq(s, 1, h)) = h - 1 + 1
  BY <1>1, SubSeqType
<1>3. /\ SubSeq(s, h + 1, m) \in Seq(S)
      /\ Len(SubSeq(s, h + 1, m)) = m - (h + 1) + 1
  BY <1>1, SubSeqType
<1> QED
  BY <1>1, <1>2, <1>3

(***************************************************************************)
(* The same facts as predicates, in which the prover does not look for     *)
(* instances.                                                              *)
(***************************************************************************)
IsInserted(new, s, i, e) ==
  /\ Len(new) = Len(s) + 1
  /\ \A j \in 1 .. Len(s) + 1 :
       new[j] = IF j < i THEN s[j] ELSE IF j = i THEN e ELSE s[j - 1]

IsSlice(new, s, m, n) ==
  /\ Len(new) = n - m + 1
  /\ \A j \in 1 .. n - m + 1 : new[j] = s[m + j - 1]

LEMMA Inserted ==
  ASSUME NEW S, NEW s \in Seq(S), NEW i \in 1 .. Len(s) + 1, NEW e \in S
  PROVE  InsertAt(s, i, e) \in Seq(S) /\ IsInserted(InsertAt(s, i, e), s, i, e)
BY InsertAtProperties DEF IsInserted

LEMMA Sliced ==
  ASSUME NEW S, NEW s \in Seq(S), NEW m \in 1 .. Len(s) + 1, NEW n \in m - 1 .. Len(s)
  PROVE  SubSeq(s, m, n) \in Seq(S) /\ IsSlice(SubSeq(s, m, n), s, m, n)
BY SubSeqType DEF IsSlice

------------------------------------------------------------------------------
(***************************************************************************)
(* Induction over numbers, for a set of them: a set that holds 0 and with  *)
(* each number the next holds all of them.                                 *)
(***************************************************************************)
LEMMA NatSetInduction ==
  ASSUME NEW T, 0 \in T, \A n \in Nat : n \in T => n + 1 \in T
  PROVE  Nat \subseteq T
<1> SUFFICES ASSUME Nat \ T # {} PROVE FALSE
  OBVIOUS
<1> DEFINE R == OpToRel(<, Nat)
<1>1. IsWellFoundedOn(R, Nat)
  BY NatLessThanWellFounded
<1>2. \A x, y \in Nat : x < y => <<x, y>> \in R
  BY DEF OpToRel
<1> HIDE DEF R
<1>3. PICK m \in Nat \ T : \A y \in Nat \ T : <<y, m>> \notin R
  BY <1>1, WFMin
<1>4. m # 0 /\ m - 1 \in Nat /\ m - 1 \notin T
  <2>1. m # 0 /\ m - 1 \in Nat /\ (m - 1) + 1 = m
    BY <1>3
  <2> QED
    BY <1>3, <2>1
<1> DEFINE k == m - 1
<1>5. k \in Nat \ T /\ k < m
  BY <1>3, <1>4
<1> HIDE DEF k
<1> QED
  BY <1>2, <1>3, <1>5

(***************************************************************************)
(* A function that is defined by its value at 0 and by how a value follows *)
(* from the one before exists, so that what the definition says of it is   *)
(* true.  In a loop the step may depend on its number.                     *)
(***************************************************************************)
IsLoop(g, n, D, step, z) ==
  /\ g \in [0 .. n -> D] /\ g[0] = z
  /\ \A k \in 1 .. n : g[k] = step[k][g[k - 1]]

LEMMA LoopExists ==
  ASSUME NEW D, NEW M \in Nat, NEW step \in [1 .. M -> [D -> D]], NEW z \in D
  PROVE  \E g : IsLoop(g, M, D, step, z)
<1> DEFINE T == {n \in Nat : n <= M => \E g : IsLoop(g, n, D, step, z)}
<1>1. 0 \in T
  <2> DEFINE g == [k \in 0 .. 0 |-> z]
  <2>1. g \in [0 .. 0 -> D] /\ g[0] = z /\ \A k \in 1 .. 0 : g[k] = step[k][g[k - 1]]
    OBVIOUS
  <2> HIDE DEF g
  <2> QED
    BY <2>1 DEF IsLoop
<1>2. ASSUME NEW n \in Nat, n \in T
      PROVE  n + 1 \in T
  <2> SUFFICES ASSUME n + 1 <= M
               PROVE  \E g : IsLoop(g, n + 1, D, step, z)
    OBVIOUS
  <2>1. PICK g : IsLoop(g, n, D, step, z)
    BY <1>2
  <2>2. g \in [0 .. n -> D] /\ g[0] = z /\ \A k \in 1 .. n : g[k] = step[k][g[k - 1]]
    BY <2>1 DEF IsLoop
  <2>3. g[n] \in D /\ step[n + 1][g[n]] \in D
    <3>1. n \in 0 .. n /\ n + 1 \in 1 .. M
      OBVIOUS
    <3>2. g[n] \in D /\ step[n + 1] \in [D -> D]
      BY <2>2, <3>1
    <3> QED
      BY <3>2
  <2> DEFINE e == step[n + 1][g[n]]
             f == [k \in 0 .. n + 1 |-> IF k = n + 1 THEN e ELSE g[k]]
  <2>4. \A k \in 0 .. n + 1 : k = n + 1 \/ k \in 0 .. n
    OBVIOUS
  <2>5. e \in D
    BY <2>3
  <2> HIDE DEF e
  <2>6. f \in [0 .. n + 1 -> D]
    BY <2>2, <2>4, <2>5
  <2>7. f[n + 1] = e /\ \A k \in 0 .. n : f[k] = g[k]
    OBVIOUS
  <2> HIDE DEF f
  <2>8. f[0] = z
    BY <2>2, <2>7
  <2>9. ASSUME NEW k \in 1 .. n + 1
        PROVE  f[k] = step[k][f[k - 1]]
    <3>1. CASE k = n + 1
      <4>1. k - 1 = n /\ n \in 0 .. n
        BY <3>1
      <4> QED
        BY <2>7, <3>1, <4>1 DEF e
    <3>2. CASE k # n + 1
      <4>1. k \in 1 .. n /\ k \in 0 .. n /\ k - 1 \in 0 .. n
        BY <3>2
      <4> QED
        BY <2>2, <2>7, <4>1
    <3> QED
      BY <3>1, <3>2
  <2>10. IsLoop(f, n + 1, D, step, z)
    BY <2>6, <2>8, <2>9 DEF IsLoop
  <2> QED
    BY <2>10
<1> HIDE DEF T
<1>3. Nat \subseteq T
  BY <1>1, <1>2, NatSetInduction
<1> QED
  BY <1>3 DEF T

IsChain(g, n, D, step, z) ==
  /\ g \in [0 .. n -> D] /\ g[0] = z
  /\ \A k \in 1 .. n : g[k] = step[g[k - 1]]

LEMMA ChainExists ==
  ASSUME NEW D, NEW step \in [D -> D], NEW z \in D, NEW M \in Nat
  PROVE  \E g : IsChain(g, M, D, step, z)
<1> DEFINE steps == [k \in 1 .. M |-> step]
<1>1. steps \in [1 .. M -> [D -> D]] /\ \A k \in 1 .. M : steps[k] = step
  OBVIOUS
<1> HIDE DEF steps
<1>2. PICK g : IsLoop(g, M, D, steps, z)
  BY <1>1, LoopExists
<1> QED
  BY <1>1, <1>2 DEF IsLoop, IsChain

(***************************************************************************)
(* Concatenation: FlattenSeq is the last of a loop's sequences, to which   *)
(* each turn appends one part.                                             *)
(***************************************************************************)
IsFlattening(g, seqs, n) ==
  /\ FlattenSeq(seqs) = g[n]
  /\ g[1] = seqs[1]
  /\ \A k \in 2 .. n : g[k] = g[k - 1] \o seqs[k]

LEMMA FlattenByParts ==
  ASSUME NEW S, NEW n \in Nat \ {0}, NEW seqs, Len(seqs) = n,
         \A k \in 1 .. n : seqs[k] \in Seq(S)
  PROVE  \E g : IsFlattening(g, seqs, n)
<1> DEFINE D    == Seq(S)
           step == [k \in 1 .. n |-> [d \in D |-> IF k = 1 THEN seqs[1] ELSE d \o seqs[k]]]
           z    == <<>>
           Body(g) == [i \in 1 .. Len(seqs) |->
                         IF i = 1 THEN seqs[i] ELSE g[i - 1] \o seqs[i]]
<1>1. \A d \in D : \A k \in 1 .. n : d \o seqs[k] \in D
  BY ConcatProperties
<1>2. step \in [1 .. n -> [D -> D]] /\ z \in D
  <2>1. z \in D /\ 1 \in 1 .. n /\ \A k \in 1 .. n : seqs[k] \in D
    BY EmptySeq
  <2> QED
    BY <1>1, <2>1
<1>3. \A k \in 1 .. n : \A d \in D : step[k][d] = IF k = 1 THEN seqs[1] ELSE d \o seqs[k]
  OBVIOUS
<1> HIDE DEF D, step, z
<1>4. PICK h : IsLoop(h, n, D, step, z)
  BY <1>2, LoopExists
<1>5. /\ h \in [0 .. n -> D]
      /\ \A k \in 1 .. n : h[k] = IF k = 1 THEN seqs[1] ELSE h[k - 1] \o seqs[k]
  <2>1. h \in [0 .. n -> D] /\ \A k \in 1 .. n : h[k] = step[k][h[k - 1]]
    BY <1>4 DEF IsLoop
  <2>2. ASSUME NEW k \in 1 .. n
        PROVE  h[k - 1] \in D
    <3>1. k - 1 \in 0 .. n
      OBVIOUS
    <3> QED
      BY <2>1, <3>1
  <2> QED
    BY <1>3, <2>1, <2>2
<1> DEFINE g == [k \in 1 .. n |-> h[k]]
<1>6. g = Body(g)
  <2>1. ASSUME NEW k \in 1 .. n
        PROVE  h[k] = IF k = 1 THEN seqs[k] ELSE g[k - 1] \o seqs[k]
    <3>1. k = 1 \/ (k - 1 \in 1 .. n /\ g[k - 1] = h[k - 1])
      OBVIOUS
    <3> QED
      BY <1>5, <3>1
  <2> HIDE DEF g
  <2> QED
    BY <2>1 DEF g
<1> HIDE DEF g
<1> DEFINE flat == CHOOSE f : f = Body(f)
<1>7. flat = Body(flat)
  <2> HIDE DEF Body
  <2> QED
    BY <1>6
<1>8. FlattenSeq(seqs) = flat[n]
  BY DEF FlattenSeq
<1> HIDE DEF flat
<1>9. flat[1] = seqs[1] /\ \A k \in 2 .. n : flat[k] = flat[k - 1] \o seqs[k]
  <2> DEFINE value(i) == IF i = 1 THEN seqs[i] ELSE flat[i - 1] \o seqs[i]
  <2>1. flat = [i \in 1 .. n |-> value(i)]
    BY <1>7
  <2>2. value(1) = seqs[1] /\ \A k \in 2 .. n : value(k) = flat[k - 1] \o seqs[k]
    <3>1. \A k \in 2 .. n : k # 1
      OBVIOUS
    <3> QED
      BY <3>1, Zenon
  <2>3. 1 \in 1 .. n /\ \A k \in 2 .. n : k \in 1 .. n
    OBVIOUS
  <2> HIDE DEF value
  <2>4. \A k \in 1 .. n : flat[k] = value(k)
    BY <2>1
  <2> QED
    BY <2>2, <2>3, <2>4
<1> QED
  BY <1>8, <1>9 DEF IsFlattening
==============================================================================
