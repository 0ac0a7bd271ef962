-------------------------- MODULE ProcQueue_proofs --------------------------
(***************************************************************************)
(* What the queue operations of pcb.c return, for queues of any length.    *)
(* The scans of insertProcQ and outProcQ stop at the first match; that     *)
(* there is one comes from the well-foundedness of < on Nat.               *)
(***************************************************************************)
EXTENDS ProcQueue, SequenceTheorems, WellFoundedInduction, TLAPS

\* < on Nat as a set of pairs.
Before == {ij \in Nat \X Nat : ij[1] < ij[2]}

\* A nonempty set of positions has a least one, and Min returns it.
LEMMA LeastExists ==
    ASSUME NEW I \in SUBSET Nat, I # {}
    PROVE  /\ Min(I) \in I
           /\ \A j \in I : Min(I) <= j
<1>1. IsWellFoundedOn(Before, Nat)
  BY NatLessThanWellFounded, Zenon DEF OpToRel, Before
<1>2. PICK i \in I : \A j \in I : <<j, i>> \notin Before
  BY <1>1, WFMin
<1>3. \A j, k \in Nat : j < k => <<j, k>> \in Before
  BY DEF Before
<1>4. \A j \in I : i \in Nat /\ j \in Nat /\ ~(j < i)
  BY <1>2, <1>3
<1>5. \A j \in I : i <= j
  BY <1>4
<1>. QED BY <1>5 DEF Min

\* InsertAt and RemoveAt, element by element.
Inserted(q, k, p) == [j \in 1 .. Len(q) + 1 |-> IF j < k THEN q[j]
                                               ELSE IF j = k THEN p ELSE q[j - 1]]
Removed(q, k) == [j \in 1 .. Len(q) - 1 |-> IF j < k THEN q[j] ELSE q[j + 1]]

\* InsertAt shifts the elements from position k on by one.
LEMMA InsertAtProperties ==
    ASSUME NEW S, NEW q \in Seq(S), NEW p \in S, NEW k \in 1 .. Len(q)
    PROVE  InsertAt(q, k, p) = Inserted(q, k, p)
<1>. DEFINE left  == SubSeq(q, 1, k - 1)
            right == SubSeq(q, k, Len(q))
            lp == left \o <<p>>
            result == Inserted(q, k, p)
<1>0. Len(q) \in Nat /\ k \in Nat /\ \A j \in 1 .. Len(q) : q[j] \in S
  BY LenProperties, ElementOfSeq
<1>1. /\ left \in Seq(S) /\ Len(left) = k - 1
      /\ \A j \in 1 .. k - 1 : left[j] = q[j]
  BY <1>0, SubSeqProperties
<1>2. /\ right \in Seq(S) /\ Len(right) = Len(q) - k + 1
      /\ \A j \in 1 .. Len(q) - k + 1 : right[j] = q[k + j - 1]
  BY <1>0, SubSeqProperties
<1>3. <<p>> \in Seq(S) /\ Len(<<p>>) = 1 /\ <<p>>[1] = p
  OBVIOUS
<1>. HIDE DEF left, right
<1>4. /\ lp \in Seq(S) /\ Len(lp) = k
      /\ \A j \in 1 .. k - 1 : lp[j] = q[j]
      /\ lp[k] = p
  BY <1>0, <1>1, <1>3, ConcatProperties
<1>. HIDE DEF lp
<1>5. /\ lp \o right \in Seq(S) /\ Len(lp \o right) = Len(q) + 1
      /\ \A j \in 1 .. k : (lp \o right)[j] = lp[j]
      /\ \A j \in k + 1 .. Len(q) + 1 : (lp \o right)[j] = right[j - k]
  <2>1. /\ lp \o right \in Seq(S) /\ Len(lp \o right) = Len(lp) + Len(right)
        /\ \A j \in 1 .. Len(lp) + Len(right) :
              (lp \o right)[j] = IF j <= Len(lp) THEN lp[j] ELSE right[j - Len(lp)]
    BY <1>2, <1>4, ConcatProperties
  <2>. QED BY <1>0, <1>2, <1>4, <2>1
<1>6. \A j \in k + 1 .. Len(q) + 1 : (lp \o right)[j] = q[j - 1]
  BY <1>0, <1>2, <1>5
<1>7. result \in Seq(S) /\ Len(result) = Len(q) + 1
  BY <1>0, IsASeq DEF Inserted
<1>8. \A j \in 1 .. Len(q) + 1 : (lp \o right)[j] = result[j]
  BY <1>0, <1>4, <1>5, <1>6 DEF Inserted
<1>9. lp \o right = result
  BY <1>5, <1>7, <1>8, SeqEqual
<1>. QED BY <1>9 DEF InsertAt, left, right, lp

\* RemoveAt closes the gap at position k.
LEMMA RemoveAtProperties ==
    ASSUME NEW S, NEW q \in Seq(S), NEW k \in 1 .. Len(q)
    PROVE  RemoveAt(q, k) = Removed(q, k)
<1>. DEFINE left  == SubSeq(q, 1, k - 1)
            right == SubSeq(q, k + 1, Len(q))
            result == Removed(q, k)
<1>0. Len(q) \in Nat /\ k \in Nat /\ \A j \in 1 .. Len(q) : q[j] \in S
  BY LenProperties, ElementOfSeq
<1>1. /\ left \in Seq(S) /\ Len(left) = k - 1
      /\ \A j \in 1 .. k - 1 : left[j] = q[j]
  BY <1>0, SubSeqProperties
<1>2. /\ right \in Seq(S) /\ Len(right) = Len(q) - k
      /\ \A j \in 1 .. Len(q) - k : right[j] = q[k + j]
  BY <1>0, SubSeqProperties
<1>. HIDE DEF left, right
<1>3. /\ left \o right \in Seq(S) /\ Len(left \o right) = Len(q) - 1
      /\ \A j \in 1 .. k - 1 : (left \o right)[j] = left[j]
      /\ \A j \in k .. Len(q) - 1 : (left \o right)[j] = right[j - (k - 1)]
  <2>1. /\ left \o right \in Seq(S) /\ Len(left \o right) = Len(left) + Len(right)
        /\ \A j \in 1 .. Len(left) + Len(right) :
              (left \o right)[j] = IF j <= Len(left) THEN left[j] ELSE right[j - Len(left)]
    BY <1>1, <1>2, ConcatProperties
  <2>. QED BY <1>0, <1>1, <1>2, <2>1
<1>4. \A j \in k .. Len(q) - 1 : (left \o right)[j] = q[j + 1]
  BY <1>0, <1>2, <1>3
<1>5. result \in Seq(S) /\ Len(result) = Len(q) - 1
  BY <1>0, IsASeq DEF Removed
<1>6. \A j \in 1 .. Len(q) - 1 : (left \o right)[j] = result[j]
  BY <1>0, <1>1, <1>3, <1>4 DEF Removed
<1>7. left \o right = result
  BY <1>3, <1>5, <1>6, SeqEqual
<1>. QED BY <1>7 DEF RemoveAt, left, right

\* Where insertProcQ puts the new PCB: behind all that are not of lower
\* priority up to the first that is.
LEMMA InsertPosition ==
    ASSUME NEW S, NEW q \in Seq(S), NEW p \in S, NEW prio, \A s \in S : prio[s] \in Int
    PROVE  \E i \in 1 .. Len(q) + 1 :
              /\ insertProcQ(q, p, prio) = Inserted(q, i, p)
              /\ \A j \in 1 .. i - 1 : prio[q[j]] >= prio[p]
              /\ i <= Len(q) => prio[p] > prio[q[i]]
<1>. DEFINE Lower == {i \in 1 .. Len(q) : prio[p] > prio[q[i]]}
            at == SelectInSeq(q, LAMBDA t : prio[p] > prio[t])
            At(i) == Inserted(q, i, p)
<1>0. /\ Len(q) \in Nat
      /\ \A j \in 1 .. Len(q) : q[j] \in S
      /\ \A j \in 1 .. Len(q) : prio[q[j]] \in Int
      /\ prio[p] \in Int
  OBVIOUS
<1>1. at = IF Lower # {} THEN Min(Lower) ELSE 0
  BY DEF SelectInSeq
<1>2. CASE Lower = {}
  <2>1. insertProcQ(q, p, prio) = Append(q, p)
    BY <1>1, <1>2 DEF insertProcQ
  <2>2. Append(q, p) = At(Len(q) + 1)
    <3>1. /\ Append(q, p) \in Seq(S) /\ At(Len(q) + 1) \in Seq(S)
          /\ Len(Append(q, p)) = Len(q) + 1
          /\ \A j \in 1 .. Len(q) : Append(q, p)[j] = q[j]
          /\ Append(q, p)[Len(q) + 1] = p
      BY <1>0, AppendProperties, IsASeq DEF Inserted
    <3>2. \A j \in 1 .. Len(q) + 1 : Append(q, p)[j] = At(Len(q) + 1)[j]
      BY <1>0, <3>1 DEF Inserted
    <3>3. Len(At(Len(q) + 1)) = Len(q) + 1
      BY <1>0 DEF Inserted
    <3>. QED BY <3>1, <3>2, <3>3, SeqEqual
  <2>3. \A j \in 1 .. Len(q) : prio[q[j]] >= prio[p]
    BY <1>0, <1>2
  <2>. QED BY <1>0, <2>1, <2>2, <2>3
<1>3. CASE Lower # {}
  <2>. DEFINE k == Min(Lower)
  <2>1. k \in Lower /\ \A j \in Lower : k <= j
    <3>1. Lower \in SUBSET Nat
      OBVIOUS
    <3>. QED BY <1>3, <3>1, LeastExists
  <2>2. insertProcQ(q, p, prio) = InsertAt(q, k, p)
    BY <1>1, <1>3, <2>1, <1>0 DEF insertProcQ
  <2>3. k \in 1 .. Len(q) /\ prio[p] > prio[q[k]]
    BY <2>1
  <2>4. \A j \in 1 .. k - 1 : prio[q[j]] >= prio[p]
    BY <1>0, <2>1, <2>3
  <2>. HIDE DEF k
  <2>5. InsertAt(q, k, p) = At(k)
    BY <2>3, InsertAtProperties
  <2>6. k \in 1 .. Len(q) + 1
    BY <1>0, <2>3
  <2>. QED BY <2>2, <2>3, <2>4, <2>5, <2>6, Zenon
<1>. QED BY <1>2, <1>3

\* Where outProcQ finds the PCB, and what it leaves.
LEMMA OutPosition ==
    ASSUME NEW S, NEW q \in Seq(S), NEW p, p \in Range(q)
    PROVE  \E i \in 1 .. Len(q) : q[i] = p /\ outProcQ(q, p) = Removed(q, i)
<1>. DEFINE Found == {i \in 1 .. Len(q) : q[i] = p}
            k == Min(Found)
<1>1. Found # {} /\ Found \in SUBSET Nat
  BY LenProperties DEF Range
<1>2. k \in Found
  BY <1>1, LeastExists
<1>3. SelectInSeq(q, LAMBDA v : v = p) = k
  BY <1>1 DEF SelectInSeq
<1>4. outProcQ(q, p) = RemoveAt(q, k)
  BY <1>1, <1>3 DEF outProcQ, RemoveFirst
<1>5. k \in 1 .. Len(q) /\ q[k] = p
  BY <1>2
<1>. HIDE DEF k
<1>. QED BY <1>4, <1>5, RemoveAtProperties

\* outProcQ leaves a queue without p as it is (it returns NULL).
LEMMA OutAbsent ==
    ASSUME NEW S, NEW q \in Seq(S), NEW p, p \notin Range(q)
    PROVE  outProcQ(q, p) = q
  BY LenProperties DEF outProcQ, RemoveFirst, Range

-----------------------------------------------------------------------------
(* What the operations do to the set of queued PCBs, to their uniqueness,  *)
(* and to the order of priority.                                           *)

\* insertProcQ adds exactly p, keeps the queue free of duplicates and in order
\* of priority (pcb.c:67).
LEMMA InsertProcQ ==
    ASSUME NEW S, NEW q \in Seq(S), NEW p \in S, NEW prio, \A s \in S : prio[s] \in Int
    PROVE  /\ insertProcQ(q, p, prio) \in Seq(S)
           /\ Range(insertProcQ(q, p, prio)) = Range(q) \cup {p}
           /\ NoDuplicates(q) /\ p \notin Range(q) => NoDuplicates(insertProcQ(q, p, prio))
           /\ Sorted(q, prio) => Sorted(insertProcQ(q, p, prio), prio)
<1>. DEFINE r == insertProcQ(q, p, prio)
<1>0. /\ Len(q) \in Nat
      /\ DOMAIN q = 1 .. Len(q)
      /\ \A j \in 1 .. Len(q) : q[j] \in S /\ prio[q[j]] \in Int
      /\ prio[p] \in Int
  BY LenProperties
<1>1. PICK i \in 1 .. Len(q) + 1 :
         /\ r = Inserted(q, i, p)
         /\ \A j \in 1 .. i - 1 : prio[q[j]] >= prio[p]
         /\ i <= Len(q) => prio[p] > prio[q[i]]
  BY InsertPosition
<1>. USE DEF Inserted
<1>. HIDE DEF r
<1>2. r \in Seq(S)
  <2>1. \A j \in 1 .. Len(q) + 1 :
           (IF j < i THEN q[j] ELSE IF j = i THEN p ELSE q[j - 1]) \in S
    BY <1>0
  <2>. QED BY <1>0, <1>1, <2>1, IsASeq
<1>3. DOMAIN r = 1 .. Len(q) + 1
  BY <1>1
<1>4. Range(r) = Range(q) \cup {p}
  <2>1. \A j \in 1 .. Len(q) + 1 : r[j] \in Range(q) \cup {p}
    <3>1. \A j \in 1 .. Len(q) + 1 : (j < i => j \in DOMAIN q) /\ (j > i => j - 1 \in DOMAIN q)
      BY <1>0
    <3>2. \A j \in DOMAIN q : q[j] \in Range(q)
      BY DEF Range
    <3>3. \A j \in 1 .. Len(q) + 1 : j < i \/ j = i \/ j > i
      BY <1>0
    <3>. QED BY <1>0, <1>1, <3>1, <3>2, <3>3
  <2>2. r[i] = p
    BY <1>1
  <2>3. \A j \in 1 .. Len(q) : r[IF j < i THEN j ELSE j + 1] = q[j]
    BY <1>0, <1>1
  <2>4. \A j \in 1 .. Len(q) : q[j] \in Range(r)
    <3>1. \A j \in 1 .. Len(q) : (IF j < i THEN j ELSE j + 1) \in DOMAIN r
      BY <1>0, <1>3
    <3>. QED BY <2>3, <3>1 DEF Range
  <2>. QED BY <1>0, <1>3, <2>1, <2>2, <2>4 DEF Range
<1>5. ASSUME NoDuplicates(q), p \notin Range(q)
      PROVE  NoDuplicates(r)
  <2>1. \A j \in 1 .. Len(q) : q[j] # p
    BY <1>0, <1>5 DEF Range
  <2>2. \A j, k \in 1 .. Len(q) : q[j] = q[k] => j = k
    BY <1>0, <1>5 DEF NoDuplicates
  <2>3. SUFFICES ASSUME NEW j \in 1 .. Len(q) + 1, NEW k \in 1 .. Len(q) + 1, r[j] = r[k]
                 PROVE  j = k
    BY <1>3 DEF NoDuplicates
  <2>. QED BY <1>0, <1>1, <2>1, <2>2, <2>3
<1>6. ASSUME Sorted(q, prio)
      PROVE  Sorted(r, prio)
  <2>1. \A j, k \in 1 .. Len(q) : j < k => prio[q[j]] >= prio[q[k]]
    BY <1>0, <1>6 DEF Sorted
  <2>2. \A k \in i .. Len(q) : prio[p] >= prio[q[k]]
    <3>1. \A k \in i .. Len(q) : /\ i \in 1 .. Len(q) /\ k \in 1 .. Len(q)
                                  /\ (k = i \/ i < k)
      BY <1>0
    <3>2. \A k \in i .. Len(q) : k = i \/ prio[q[i]] >= prio[q[k]]
      BY <2>1, <3>1
    <3>3. i <= Len(q) => prio[p] >= prio[q[i]]
      BY <1>0, <1>1
    <3>. QED BY <1>0, <3>1, <3>2, <3>3
  <2>3. SUFFICES ASSUME NEW j \in 1 .. Len(q) + 1, NEW k \in 1 .. Len(q) + 1, j < k
                 PROVE  prio[r[j]] >= prio[r[k]]
    BY <1>3 DEF Sorted
  <2>4. CASE k < i
    BY <1>0, <1>1, <2>1, <2>3, <2>4
  <2>5. CASE k = i
    BY <1>0, <1>1, <2>3, <2>5
  <2>6. CASE k > i /\ j < i
    BY <1>0, <1>1, <2>1, <2>3, <2>6
  <2>7. CASE k > i /\ j = i
    BY <1>0, <1>1, <2>2, <2>3, <2>7
  <2>8. CASE k > i /\ j > i
    <3>1. r[j] = q[j - 1] /\ r[k] = q[k - 1]
      BY <1>0, <1>1, <2>8
    <3>2. j - 1 \in 1 .. Len(q) /\ k - 1 \in 1 .. Len(q) /\ j - 1 < k - 1
      BY <1>0, <2>3, <2>8
    <3>. QED BY <2>1, <3>1, <3>2
  <2>. QED BY <1>0, <2>4, <2>5, <2>6, <2>7, <2>8
<1>. QED BY <1>2, <1>4, <1>5, <1>6 DEF r

\* insertProcQ puts p behind everyone whose priority is at least its own.
LEMMA InsertBehind ==
    ASSUME NEW S, NEW q \in Seq(S), NEW p \in S, NEW prio, \A s \in S : prio[s] \in Int,
           Sorted(q, prio), NEW x \in Range(q), prio[x] >= prio[p]
    PROVE  LET r == insertProcQ(q, p, prio)
           IN  \E i, j \in DOMAIN r : i < j /\ r[i] = x /\ r[j] = p
<1>. DEFINE r == insertProcQ(q, p, prio)
<1>0. /\ Len(q) \in Nat
      /\ DOMAIN q = 1 .. Len(q)
      /\ \A j \in 1 .. Len(q) : q[j] \in S /\ prio[q[j]] \in Int
      /\ prio[p] \in Int
  BY LenProperties
<1>1. PICK i \in 1 .. Len(q) + 1 :
         /\ r = Inserted(q, i, p)
         /\ i <= Len(q) => prio[p] > prio[q[i]]
  BY InsertPosition
<1>2. PICK m \in 1 .. Len(q) : q[m] = x
  BY <1>0 DEF Range
<1>3. m < i
  <2>1. SUFFICES ASSUME i <= m PROVE FALSE
    BY <1>0
  <2>2. i \in 1 .. Len(q) /\ (i = m \/ i < m) /\ prio[p] > prio[q[i]]
    BY <1>0, <1>1, <2>1
  <2>3. prio[q[i]] >= prio[q[m]]
    BY <1>0, <2>2 DEF Sorted
  <2>. QED BY <1>0, <1>2, <2>2, <2>3
<1>. HIDE DEF r
<1>4. /\ DOMAIN r = 1 .. Len(q) + 1 /\ r[m] = x /\ r[i] = p
      /\ m \in 1 .. Len(q) + 1
  BY <1>0, <1>1, <1>2, <1>3 DEF Inserted
<1>5. \E a, b \in DOMAIN r : a < b /\ r[a] = x /\ r[b] = p
  BY <1>3, <1>4
<1>. QED BY <1>5 DEF r

\* outProcQ removes exactly p from a queue without duplicates (pcb.c:100).
LEMMA OutProcQSet ==
    ASSUME NEW S, NEW q \in Seq(S), NEW p
    PROVE  /\ outProcQ(q, p) \in Seq(S)
           /\ NoDuplicates(q) => /\ NoDuplicates(outProcQ(q, p))
                                 /\ Range(outProcQ(q, p)) = Range(q) \ {p}
<1>1. CASE p \notin Range(q)
  BY <1>1, OutAbsent
<1>2. CASE p \in Range(q)
  <2>. DEFINE r == outProcQ(q, p)
  <2>0. /\ Len(q) \in Nat
        /\ DOMAIN q = 1 .. Len(q)
        /\ \A j \in 1 .. Len(q) : q[j] \in S
    BY LenProperties
  <2>. HIDE DEF r
  <2>1. PICK i \in 1 .. Len(q) : q[i] = p /\ r = Removed(q, i)
    BY <1>2, OutPosition DEF r
  <2>. USE DEF Removed
  <2>2. r \in Seq(S)
    <3>1. \A j \in 1 .. Len(q) - 1 : (IF j < i THEN q[j] ELSE q[j + 1]) \in S
      BY <2>0
    <3>2. Len(q) - 1 \in Nat
      BY <2>0
    <3>. QED BY <2>1, <3>1, <3>2, IsASeq
  <2>3. DOMAIN r = 1 .. Len(q) - 1
    BY <2>1
  <2>4. ASSUME NoDuplicates(q)
        PROVE  NoDuplicates(r) /\ Range(r) = Range(q) \ {p}
    <3>1. \A j, k \in 1 .. Len(q) : q[j] = q[k] => j = k
      BY <2>0, <2>4 DEF NoDuplicates
    <3>2. NoDuplicates(r)
      BY <2>0, <2>1, <2>3, <3>1 DEF NoDuplicates
    <3>3. \A j \in 1 .. Len(q) - 1 : r[j] \in Range(q) /\ r[j] # p
      <4>1. \A j \in 1 .. Len(q) - 1 : \E k \in 1 .. Len(q) : k # i /\ r[j] = q[k]
        <5>1. \A j \in 1 .. Len(q) - 1 :
                 LET k == IF j < i THEN j ELSE j + 1
                 IN  k \in 1 .. Len(q) /\ k # i /\ r[j] = q[k]
          BY <2>0, <2>1
        <5>. QED BY <5>1
      <4>2. \A k \in 1 .. Len(q) : k # i => q[k] # p /\ q[k] \in Range(q)
        BY <2>0, <2>1, <3>1 DEF Range
      <4>. QED BY <4>1, <4>2
    <3>4. \A j \in 1 .. Len(q) : q[j] # p => q[j] \in Range(r)
      <4>1. SUFFICES ASSUME NEW j \in 1 .. Len(q), q[j] # p
                     PROVE  q[j] \in Range(r)
        OBVIOUS
      <4>2. CASE j < i
        <5>1. j \in DOMAIN r /\ r[j] = q[j]
          BY <2>0, <2>1, <2>3, <4>2
        <5>. QED BY <5>1 DEF Range
      <4>3. CASE j > i
        <5>1. j - 1 \in DOMAIN r /\ r[j - 1] = q[j]
          BY <2>0, <2>1, <2>3, <4>3
        <5>. QED BY <5>1 DEF Range
      <4>. QED BY <2>0, <2>1, <4>1, <4>2, <4>3
    <3>. QED BY <2>0, <2>3, <3>2, <3>3, <3>4 DEF Range
  <2>. QED BY <2>2, <2>4 DEF r
<1>. QED BY <1>1, <1>2

\* It adds nothing, whatever the queue.
LEMMA OutProcQSubset ==
    ASSUME NEW S, NEW q \in Seq(S), NEW p
    PROVE  Range(outProcQ(q, p)) \subseteq Range(q)
<1>1. CASE p \notin Range(q)
  BY <1>1, OutAbsent
<1>2. CASE p \in Range(q)
  <2>1. PICK i \in 1 .. Len(q) : outProcQ(q, p) = Removed(q, i)
    BY <1>2, OutPosition
  <2>2. Len(q) \in Nat /\ DOMAIN q = 1 .. Len(q)
    BY LenProperties
  <2>3. /\ DOMAIN Removed(q, i) = 1 .. Len(q) - 1
        /\ \A j \in 1 .. Len(q) - 1 : Removed(q, i)[j] \in {q[j], q[j + 1]}
    BY DEF Removed
  <2>4. \A j \in 1 .. Len(q) - 1 : q[j] \in Range(q) /\ q[j + 1] \in Range(q)
    BY <2>2 DEF Range
  <2>. QED BY <2>1, <2>3, <2>4 DEF Range
<1>. QED BY <1>1, <1>2

\* It keeps the order of priority.
LEMMA OutProcQ ==
    ASSUME NEW S, NEW q \in Seq(S), NEW p, NEW prio, \A s \in S : prio[s] \in Int
    PROVE  /\ outProcQ(q, p) \in Seq(S)
           /\ NoDuplicates(q) => /\ NoDuplicates(outProcQ(q, p))
                                 /\ Range(outProcQ(q, p)) = Range(q) \ {p}
           /\ Sorted(q, prio) => Sorted(outProcQ(q, p), prio)
<1>. DEFINE r == outProcQ(q, p)
<1>1. ASSUME Sorted(q, prio)
      PROVE  Sorted(r, prio)
  <2>1. CASE p \notin Range(q)
    BY <1>1, <2>1, OutAbsent
  <2>2. CASE p \in Range(q)
    <3>0. Len(q) \in Nat /\ DOMAIN q = 1 .. Len(q)
      BY LenProperties
    <3>. HIDE DEF r
    <3>1. PICK i \in 1 .. Len(q) : r = Removed(q, i)
      BY <2>2, OutPosition DEF r
    <3>2. DOMAIN r = 1 .. Len(q) - 1
      BY <3>1 DEF Removed
    <3>3. \A j, k \in 1 .. Len(q) : j < k => prio[q[j]] >= prio[q[k]]
      BY <1>1, <3>0 DEF Sorted
    <3>. DEFINE from(j) == IF j < i THEN j ELSE j + 1
    <3>4. \A j \in 1 .. Len(q) - 1 : from(j) \in 1 .. Len(q) /\ r[j] = q[from(j)]
      BY <3>0, <3>1 DEF Removed
    <3>5. \A j, k \in 1 .. Len(q) - 1 : j < k => from(j) < from(k)
      BY <3>0
    <3>. HIDE DEF from
    <3>6. \A j, k \in 1 .. Len(q) - 1 : j < k => prio[r[j]] >= prio[r[k]]
      BY <3>3, <3>4, <3>5
    <3>. QED BY <3>2, <3>6 DEF Sorted
  <2>. QED BY <2>1, <2>2
<1>2. /\ outProcQ(q, p) \in Seq(S)
      /\ NoDuplicates(q) => /\ NoDuplicates(outProcQ(q, p))
                            /\ Range(outProcQ(q, p)) = Range(q) \ {p}
  BY OutProcQSet
<1>. QED BY <1>1, <1>2

\* removeProcQ: the head leaves.
LEMMA RemoveProcQ ==
    ASSUME NEW S, NEW q \in Seq(S), q # <<>>, NEW prio, \A s \in S : prio[s] \in Int
    PROVE  /\ Head(q) \in S /\ Head(q) \in Range(q)
           /\ Tail(q) \in Seq(S)
           /\ NoDuplicates(q) => /\ NoDuplicates(Tail(q))
                                 /\ Range(Tail(q)) = Range(q) \ {Head(q)}
           /\ Sorted(q, prio) => /\ Sorted(Tail(q), prio)
                                 /\ \A p \in Range(q) : prio[Head(q)] >= prio[p]
<1>0. /\ Len(q) \in Nat \ {0}
      /\ DOMAIN q = 1 .. Len(q)
      /\ \A j \in 1 .. Len(q) : q[j] \in S /\ prio[q[j]] \in Int
  BY LenProperties, EmptySeq
<1>1. Head(q) = q[1] /\ Head(q) \in S /\ Head(q) \in Range(q)
  BY <1>0 DEF Range
<1>2. /\ Tail(q) \in Seq(S)
      /\ Len(Tail(q)) = Len(q) - 1
      /\ DOMAIN Tail(q) = 1 .. Len(q) - 1
      /\ \A j \in 1 .. Len(q) - 1 : Tail(q)[j] = q[j + 1]
  BY HeadTailProperties, LenProperties
<1>3. ASSUME NoDuplicates(q)
      PROVE  NoDuplicates(Tail(q)) /\ Range(Tail(q)) = Range(q) \ {Head(q)}
  <2>1. \A j, k \in 1 .. Len(q) : q[j] = q[k] => j = k
    BY <1>0, <1>3 DEF NoDuplicates
  <2>2. NoDuplicates(Tail(q))
    BY <1>0, <1>2, <2>1 DEF NoDuplicates
  <2>3. \A j \in 1 .. Len(q) - 1 : q[j + 1] \in Range(q) /\ q[j + 1] # q[1]
    BY <1>0, <2>1 DEF Range
  <2>4. \A j \in 2 .. Len(q) : q[j] \in Range(Tail(q))
    <3>1. \A j \in 2 .. Len(q) : j - 1 \in DOMAIN Tail(q) /\ Tail(q)[j - 1] = q[j]
      BY <1>0, <1>2
    <3>. QED BY <3>1 DEF Range
  <2>5. \A j \in 1 .. Len(q) : q[j] # q[1] => q[j] \in Range(Tail(q))
    BY <1>0, <2>4
  <2>. QED BY <1>0, <1>1, <1>2, <2>2, <2>3, <2>5 DEF Range
<1>4. ASSUME Sorted(q, prio)
      PROVE  /\ Sorted(Tail(q), prio)
             /\ \A p \in Range(q) : prio[Head(q)] >= prio[p]
  <2>1. \A j, k \in 1 .. Len(q) : j < k => prio[q[j]] >= prio[q[k]]
    BY <1>0, <1>4 DEF Sorted
  <2>2. Sorted(Tail(q), prio)
    BY <1>0, <1>2, <2>1 DEF Sorted
  <2>3. \A j \in 1 .. Len(q) : prio[q[1]] >= prio[q[j]]
    BY <1>0, <2>1
  <2>. QED BY <1>0, <1>1, <2>2, <2>3 DEF Range
<1>. QED BY <1>1, <1>2, <1>3, <1>4

\* freePcb: list_add behind the sentinel.
LEMMA PushProperties ==
    ASSUME NEW S, NEW q \in Seq(S), NEW p \in S
    PROVE  /\ <<p>> \o q \in Seq(S)
           /\ Range(<<p>> \o q) = Range(q) \cup {p}
           /\ NoDuplicates(q) /\ p \notin Range(q) => NoDuplicates(<<p>> \o q)
           /\ Head(<<p>> \o q) = p /\ Tail(<<p>> \o q) = q
<1>1. /\ <<p>> \in Seq(S) /\ Len(<<p>>) = 1 /\ <<p>>[1] = p
      /\ Len(q) \in Nat /\ DOMAIN q = 1 .. Len(q)
  BY LenProperties
<1>2. /\ <<p>> \o q \in Seq(S)
      /\ Len(<<p>> \o q) = 1 + Len(q)
      /\ \A j \in 1 .. 1 + Len(q) :
            (<<p>> \o q)[j] = IF j <= 1 THEN <<p>>[j] ELSE q[j - 1]
  BY <1>1, ConcatProperties
<1>3. DOMAIN (<<p>> \o q) = 1 .. 1 + Len(q)
  BY <1>2, LenProperties
<1>. DEFINE r == <<p>> \o q
<1>4. r[1] = p /\ \A j \in 1 .. Len(q) : r[j + 1] = q[j]
  BY <1>1, <1>2
<1>. HIDE DEF r
<1>5. Range(r) = Range(q) \cup {p}
  <2>1. \A j \in 1 .. 1 + Len(q) : r[j] \in Range(q) \cup {p}
    <3>1. \A j \in 2 .. 1 + Len(q) : j - 1 \in 1 .. Len(q) /\ r[j] = q[j - 1]
      BY <1>1, <1>4
    <3>. QED BY <1>1, <1>4, <3>1 DEF Range
  <2>2. \A j \in 1 .. Len(q) : q[j] \in Range(r)
    <3>1. \A j \in 1 .. Len(q) : j + 1 \in DOMAIN r
      BY <1>1, <1>3 DEF r
    <3>. QED BY <1>4, <3>1 DEF Range
  <2>3. p \in Range(r)
    BY <1>1, <1>3, <1>4 DEF Range, r
  <2>. QED BY <1>1, <1>3, <2>1, <2>2, <2>3 DEF Range, r
<1>6. ASSUME NoDuplicates(q), p \notin Range(q)
      PROVE  NoDuplicates(r)
  <2>1. \A j, k \in 1 .. Len(q) : q[j] = q[k] => j = k
    BY <1>1, <1>6 DEF NoDuplicates
  <2>2. \A j \in 1 .. Len(q) : q[j] # p
    BY <1>1, <1>6 DEF Range
  <2>3. \A j, k \in 1 .. 1 + Len(q) : r[j] = r[k] => j = k
    <3>1. \A j \in 2 .. 1 + Len(q) : j - 1 \in 1 .. Len(q) /\ r[j] = q[j - 1]
      BY <1>1, <1>4
    <3>. QED BY <1>1, <1>4, <2>1, <2>2, <3>1
  <2>. QED BY <1>3, <2>3 DEF NoDuplicates, r
<1>7. Head(r) = p /\ Tail(r) = q
  BY <1>1, <1>2, <1>4 DEF r
<1>. QED BY <1>2, <1>5, <1>6, <1>7 DEF r

\* A new element at the end.
LEMMA AppendLast ==
    ASSUME NEW S, NEW q \in Seq(S), NEW p \in S
    PROVE  /\ Range(Append(q, p)) = Range(q) \cup {p}
           /\ NoDuplicates(q) /\ p \notin Range(q) => NoDuplicates(Append(q, p))
<1>1. /\ Append(q, p) \in Seq(S) /\ Len(Append(q, p)) = Len(q) + 1 /\ Len(q) \in Nat
      /\ \A i \in 1 .. Len(q) : Append(q, p)[i] = q[i]
      /\ Append(q, p)[Len(q) + 1] = p
      /\ DOMAIN q = 1 .. Len(q) /\ DOMAIN Append(q, p) = 1 .. Len(q) + 1
  BY AppendProperties, LenProperties
<1>. DEFINE r == Append(q, p)
<1>. HIDE DEF r
<1>2. \A i \in DOMAIN r : i \in DOMAIN q \/ i = Len(q) + 1
  BY <1>1 DEF r
<1>3. Range(r) = Range(q) \cup {p}
  <2>1. \A i \in DOMAIN r : r[i] \in Range(q) \cup {p}
    BY <1>1, <1>2 DEF Range, r
  <2>2. \A i \in DOMAIN q : i \in DOMAIN r /\ r[i] = q[i]
    BY <1>1 DEF r
  <2>3. Len(q) + 1 \in DOMAIN r /\ r[Len(q) + 1] = p
    BY <1>1 DEF r
  <2>. QED BY <2>1, <2>2, <2>3 DEF Range
<1>4. ASSUME NoDuplicates(q), p \notin Range(q) PROVE NoDuplicates(r)
  <2>1. \A i \in 1 .. Len(q) : q[i] # p
    BY <1>1, <1>4 DEF Range
  <2>2. \A i, j \in 1 .. Len(q) : q[i] = q[j] => i = j
    BY <1>1, <1>4 DEF NoDuplicates
  <2>3. SUFFICES ASSUME NEW i \in 1 .. Len(q) + 1, NEW j \in 1 .. Len(q) + 1, r[i] = r[j]
                 PROVE  i = j
    BY <1>1 DEF NoDuplicates, r
  <2>. QED BY <1>1, <2>1, <2>2, <2>3 DEF r
<1>. QED BY <1>3, <1>4 DEF r

\* A nonempty queue is its head and the rest.
LEMMA FirstAndRest ==
    ASSUME NEW S, NEW q \in Seq(S), q # <<>>
    PROVE  /\ Head(q) \in S /\ Range(q) = {Head(q)} \cup Range(Tail(q))
           /\ Tail(q) \in Seq(S)
           /\ NoDuplicates(q) => NoDuplicates(Tail(q)) /\ Head(q) \notin Range(Tail(q))
<1>. DEFINE zero == [t \in S |-> 0]
<1>1. \A t \in S : zero[t] \in Int
  OBVIOUS
<1>. HIDE DEF zero
<1>2. /\ Head(q) \in S /\ Head(q) \in Range(q) /\ Tail(q) \in Seq(S)
      /\ NoDuplicates(q) => NoDuplicates(Tail(q)) /\ Range(Tail(q)) = Range(q) \ {Head(q)}
  BY <1>1, RemoveProcQ
<1>3. Range(q) = {Head(q)} \cup Range(Tail(q))
  <2>1. /\ Len(Tail(q)) = Len(q) - 1 /\ Len(q) \in Nat \ {0} /\ Head(q) = q[1]
        /\ \A i \in 1 .. Len(q) - 1 : Tail(q)[i] = q[i + 1]
        /\ DOMAIN Tail(q) = 1 .. Len(q) - 1
        /\ DOMAIN q = 1 .. Len(q)
    BY <1>2, HeadTailProperties, LenProperties, EmptySeq
  <2>. DEFINE r == Tail(q)
  <2>. HIDE DEF r
  <2>2. \A i \in 1 .. Len(q) : i = 1 \/ (i - 1 \in DOMAIN r /\ r[i - 1] = q[i])
    BY <2>1 DEF r
  <2>3. \A i \in DOMAIN r : i + 1 \in DOMAIN q /\ r[i] = q[i + 1]
    BY <2>1 DEF r
  <2>4. Range(q) \subseteq {q[1]} \cup Range(r)
    BY <2>1, <2>2 DEF Range
  <2>5. Range(r) \subseteq Range(q)
    BY <2>3 DEF Range
  <2>. QED BY <1>2, <2>1, <2>4, <2>5 DEF r
<1>. QED BY <1>2, <1>3
=============================================================================
