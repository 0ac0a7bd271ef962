------------------------- MODULE PcbPointers_proofs -------------------------
(***************************************************************************)
(* Proofs about the pointers: the circular lists of listx.h hold the       *)
(* sequences that the process layer is described with, for lists of any    *)
(* length, and so do the links of the process tree.                        *)
(***************************************************************************)
EXTENDS PcbPointers, SchedulerTree_proofs

-----------------------------------------------------------------------------
(* Circular lists *)

\* The i-th list_head of the circle that goes from head through the members of
\* q, each linked by its field tag, and back to head.
Link(head, tag, q, i) == IF i \in DOMAIN q THEN <<tag, q[i]>> ELSE head

\* The list of head holds q, whole in both directions.
Ring(m, head, tag, q) ==
    /\ NoDuplicates(q)
    /\ \A i \in DOMAIN q : <<tag, q[i]>> # head
    /\ \A i \in 0 .. Len(q) : /\ m[Link(head, tag, q, i)].next = Link(head, tag, q, i + 1)
                              /\ m[Link(head, tag, q, i + 1)].prev = Link(head, tag, q, i)

\* f is a record of list_for_each_entry: f[i] are the entries met after i links.
Walk(m, head, most, f) ==
    f = [i \in 0 .. most |->
            IF i = 0 THEN <<>>
            ELSE LET met == f[i - 1]
                     pos == m[IF met = <<>> THEN head ELSE Last(met)].next
                 IN  IF pos = head THEN met ELSE Append(met, pos)]

\* list_for_each_entry finds what any such record says.
LEMMA EntriesUnique ==
    ASSUME NEW m, NEW head, NEW most \in Nat, NEW g, Walk(m, head, most, g)
    PROVE  entries(m, head, most) = g[most]
<1>. DEFINE first == CHOOSE f : Walk(m, head, most, f)
            Bad == {i \in 0 .. most : first[i] # g[i]}
<1>1. Walk(m, head, most, first)
  OBVIOUS
<1>2. entries(m, head, most) = first[most]
  BY DEF entries, Walk
<1>. HIDE DEF first
<1>3. Bad = {}
  <2>. SUFFICES ASSUME Bad # {} PROVE FALSE
    OBVIOUS
  <2>1. Bad \in SUBSET Nat
    OBVIOUS
  <2>2. PICK i \in Bad : \A j \in Bad : i <= j
    BY <2>1, LeastExists
  <2>3. first[0] = <<>> /\ g[0] = <<>>
    BY <1>1 DEF Walk
  <2>4. i \in 0 .. most /\ i # 0 /\ first[i] # g[i]
    BY <2>2, <2>3
  <2>5. i - 1 \in 0 .. most /\ i - 1 \notin Bad
    BY <2>2, <2>4
  <2>6. first[i - 1] = g[i - 1]
    BY <2>5
  <2>. DEFINE grown(met) ==
                 LET pos == m[IF met = <<>> THEN head ELSE Last(met)].next
                 IN  IF pos = head THEN met ELSE Append(met, pos)
  <2>7. ASSUME NEW f, Walk(m, head, most, f) PROVE f[i] = grown(f[i - 1])
    <3>1. f = [j \in 0 .. most |-> IF j = 0 THEN <<>> ELSE grown(f[j - 1])]
      BY <2>7, Zenon DEF Walk
    <3>. HIDE DEF grown
    <3>. QED BY <2>4, <3>1
  <2>8. first[i] = grown(first[i - 1]) /\ g[i] = grown(g[i - 1])
    <3>. HIDE DEF grown
    <3>. QED BY <1>1, <2>7
  <2>. HIDE DEF grown
  <2>. QED BY <2>4, <2>6, <2>8
<1>. QED BY <1>2, <1>3

\* The members of q as list_heads.
Links(tag, q) == [i \in DOMAIN q |-> <<tag, q[i]>>]

\* The first k of them.
Met(tag, q, k) == [i \in 1 .. k |-> <<tag, q[i]>>]

\* They grow by one at a time.
LEMMA MetGrows ==
    ASSUME NEW tag, NEW S, NEW q \in Seq(S), NEW k \in 0 .. Len(q)
    PROVE  /\ Met(tag, q, k) = <<>> <=> k = 0
           /\ k > 0 => /\ Last(Met(tag, q, k)) = <<tag, q[k]>>
                       /\ Met(tag, q, k) = Append(Met(tag, q, k - 1), <<tag, q[k]>>)
<1>. DEFINE part == [i \in 1 .. k |-> <<tag, q[i]>>]
            less == [i \in 1 .. k - 1 |-> <<tag, q[i]>>]
<1>1. Len(q) \in Nat /\ DOMAIN q = 1 .. Len(q) /\ \A j \in 1 .. Len(q) : q[j] \in S
  BY LenProperties, ElementOfSeq
<1>2. \A j \in 1 .. k : <<tag, q[j]>> \in {tag} \X S
  BY <1>1
<1>3. part \in Seq({tag} \X S) /\ Len(part) = k
  BY <1>1, <1>2, IsASeq
<1>4. part = <<>> <=> k = 0
  BY <1>3, EmptySeq
<1>5. k > 0 => less \in Seq({tag} \X S) /\ Len(less) = k - 1
  BY <1>1, <1>2, IsASeq
<1>6. \A j \in 1 .. k : part[j] = <<tag, q[j]>>
  OBVIOUS
<1>7. \A j \in 1 .. k - 1 : less[j] = <<tag, q[j]>>
  OBVIOUS
<1>. HIDE DEF part, less
<1>8. k > 0 => Last(part) = <<tag, q[k]>>
  BY <1>1, <1>3, <1>6 DEF Last
<1>9. ASSUME k > 0 PROVE part = Append(less, <<tag, q[k]>>)
  <2>. DEFINE longer == Append(less, <<tag, q[k]>>)
              x == <<tag, q[k]>>
  <2>0. x \in {tag} \X S /\ k \in 1 .. k
    BY <1>1, <1>2, <1>9
  <2>1. longer \in Seq({tag} \X S) /\ Len(longer) = k
    BY <1>5, <1>9, <2>0, AppendProperties
  <2>2. \A j \in 1 .. k - 1 : longer[j] = less[j]
    BY <1>5, <1>9, <2>0, AppendProperties
  <2>3. longer[k] = x
    BY <1>5, <1>9, <2>0, AppendProperties
  <2>. HIDE DEF longer
  <2>4. ASSUME NEW j \in 1 .. k PROVE part[j] = longer[j]
    <3>1. j # k => j \in 1 .. k - 1
      BY <1>1
    <3>. QED BY <1>6, <1>7, <2>2, <2>3, <3>1
  <2>5. part = longer
    BY <1>3, <2>1, <2>4, SeqEqual
  <2>. QED BY <2>5 DEF longer
<1>. QED BY <1>4, <1>8, <1>9 DEF Met, part, less

\* Walking a circle that is not too long gives its members.
LEMMA EntriesOfRing ==
    ASSUME NEW m, NEW head, NEW tag, NEW S, NEW q \in Seq(S), NEW most \in Nat,
           Len(q) <= most, Ring(m, head, tag, q)
    PROVE  entries(m, head, most) = Links(tag, q)
<1>. DEFINE n == Len(q)
            part(k) == Met(tag, q, k)
            min(i) == IF i <= n THEN i ELSE n
            g == [i \in 0 .. most |-> part(min(i))]
<1>1. n \in Nat /\ DOMAIN q = 1 .. n
  BY LenProperties
<1>2. ASSUME NEW k \in 0 .. n
      PROVE  /\ part(k) = <<>> <=> k = 0
             /\ k > 0 => Last(part(k)) = <<tag, q[k]>>
             /\ k > 0 => part(k) = Append(part(k - 1), <<tag, q[k]>>)
  <2>. HIDE DEF part
  <2>1. k \in 0 .. Len(q) /\ part(k) = Met(tag, q, k) /\ part(k - 1) = Met(tag, q, k - 1)
    BY DEF part
  <2>. QED BY <2>1, MetGrows
<1>3. g[0] = part(0) /\ \A i \in 1 .. most : g[i] = part(min(i)) /\ g[i - 1] = part(min(i - 1))
  BY <1>1
<1>4. part(n) = Links(tag, q)
  BY <1>1 DEF Links, Met
<1>5. g = [i \in 0 .. most |-> g[i]] /\ g[most] = part(n)
  BY <1>1
<1>. HIDE DEF part, g
<1>6. ASSUME NEW i \in 1 .. most
      PROVE  g[i] = LET met == g[i - 1]
                        pos == m[IF met = <<>> THEN head ELSE Last(met)].next
                    IN  IF pos = head THEN met ELSE Append(met, pos)
  <2>. DEFINE l == min(i - 1)
              last == IF part(l) = <<>> THEN head ELSE Last(part(l))
  <2>1. l \in 0 .. n /\ g[i] = part(min(i)) /\ g[i - 1] = part(l)
    BY <1>1, <1>3
  <2>2. last = Link(head, tag, q, l)
    <3>1. /\ part(l) = <<>> <=> l = 0
          /\ l > 0 => Last(part(l)) = <<tag, q[l]>>
      BY <1>2, <2>1
    <3>2. l \in DOMAIN q <=> l > 0
      BY <1>1, <2>1
    <3>. QED BY <2>1, <3>1, <3>2 DEF Link
  <2>. HIDE DEF last
  <2>3. m[last].next = Link(head, tag, q, l + 1)
    BY <2>1, <2>2 DEF Ring
  <2>4. CASE i <= n
    <3>1. l = i - 1 /\ min(i) = i /\ i \in 0 .. n /\ i \in DOMAIN q /\ i > 0
      BY <1>1, <2>4
    <3>2. m[last].next = <<tag, q[i]>> /\ m[last].next # head
      BY <2>3, <3>1 DEF Link, Ring
    <3>3. part(i) = Append(part(i - 1), <<tag, q[i]>>)
      BY <1>2, <3>1
    <3>. QED BY <2>1, <3>1, <3>2, <3>3 DEF last
  <2>5. CASE ~(i <= n)
    <3>1. l = n /\ min(i) = n /\ l + 1 \notin DOMAIN q
      BY <1>1, <2>5
    <3>2. m[last].next = head
      BY <2>3, <3>1 DEF Link
    <3>. QED BY <2>1, <3>1, <3>2 DEF last
  <2>. QED BY <2>4, <2>5
<1>7. entries(m, head, most) = g[most]
  <2>1. \A i \in 0 .. most :
          g[i] = IF i = 0 THEN <<>>
                 ELSE LET met == g[i - 1]
                          pos == m[IF met = <<>> THEN head ELSE Last(met)].next
                      IN  IF pos = head THEN met ELSE Append(met, pos)
    BY <1>1, <1>2, <1>3, <1>6
  <2>2. Walk(m, head, most, g)
    BY <1>5, <2>1 DEF Walk
  <2>. QED BY <2>2, EntriesUnique
<1>. QED BY <1>4, <1>5, <1>7

\* A list of structures of one kind has at most MAXPROC of them.
LEMMA FewEnough ==
    /\ Semd = Proc /\ IsFiniteSet(Proc) /\ Cardinality(Proc) = MAXPROC
    /\ \A q \in Seq(Proc) : NoDuplicates(q) => Len(q) <= MAXPROC
<1>1. IsFiniteSet(0 .. MAXPROC - 1) /\ Cardinality(0 .. MAXPROC - 1) = MAXPROC
  BY MaxProcAssumption, FS_Interval
<1>2. Semd = Proc /\ IsFiniteSet(Proc) /\ Cardinality(Proc) = MAXPROC
  BY <1>1 DEF Proc, Semd
<1>3. ASSUME NEW q \in Seq(Proc), NoDuplicates(q) PROVE Len(q) <= MAXPROC
  <2>1. Len(q) \in Nat /\ DOMAIN q = 1 .. Len(q) /\ q \in [1 .. Len(q) -> Proc]
    BY LenProperties
  <2>2. q \in Injection(1 .. Len(q), Proc)
    BY <1>3, <2>1 DEF Injection, IsInjective, NoDuplicates
  <2>3. Cardinality(1 .. Len(q)) <= Cardinality(Proc)
    BY <1>2, <2>2, FS_Injection
  <2>4. \A n \in Nat : Cardinality(1 .. n) = n
    BY FS_Interval
  <2>. QED BY <1>2, <2>1, <2>3, <2>4
<1>. QED BY <1>2, <1>3

\* A list that holds q reads as q, and is intact both ways.
LEMMA RingReads ==
    ASSUME NEW m, NEW head, NEW tag, NEW q \in Seq(Proc), Ring(m, head, tag, q)
    PROVE  on(m, head) = q /\ Circular(m, head, MAXPROC)
<1>1. Len(q) <= MAXPROC /\ MAXPROC \in Nat
  BY FewEnough, MaxProcAssumption DEF Ring
<1>2. entries(m, head, MAXPROC) = Links(tag, q)
  BY <1>1, EntriesOfRing
<1>3. Len(q) \in Nat /\ DOMAIN q = 1 .. Len(q) /\ q = [i \in DOMAIN q |-> q[i]]
  BY LenProperties
<1>4. DOMAIN Links(tag, q) = DOMAIN q /\ \A i \in DOMAIN q : Links(tag, q)[i] = <<tag, q[i]>>
  BY DEF Links
<1>5. on(m, head) = q
  BY <1>2, <1>3, <1>4 DEF on, Owner
<1>6. Links(tag, q) \in Seq({tag} \X Proc) /\ Len(Links(tag, q)) = Len(q)
  <2>1. \A i \in 1 .. Len(q) : <<tag, q[i]>> \in {tag} \X Proc
    BY <1>3, ElementOfSeq
  <2>. QED BY <1>3, <2>1, IsASeq DEF Links
<1>7. LET loop == <<head>> \o Links(tag, q) \o <<head>>
      IN  \A i \in 0 .. Len(q) + 1 : loop[i + 1] = Link(head, tag, q, i)
  <2>. DEFINE A == ({tag} \X Proc) \cup {head}
              one == <<head>>
              links == Links(tag, q)
              left == one \o links
              loop == left \o one
  <2>1. /\ one \in Seq(A) /\ Len(one) = 1 /\ one[1] = head
        /\ links \in Seq(A) /\ Len(links) = Len(q)
    BY <1>6
  <2>. HIDE DEF one, links, A
  <2>2. /\ left \in Seq(A) /\ Len(left) = 1 + Len(q)
        /\ \A i \in 1 .. Len(q) + 1 : left[i] = IF i = 1 THEN head ELSE links[i - 1]
    <3>1. /\ left \in Seq(A) /\ Len(left) = 1 + Len(q)
          /\ \A i \in 1 .. Len(left) : left[i] = IF i <= 1 THEN one[i] ELSE links[i - 1]
      BY <2>1, ConcatProperties
    <3>. HIDE DEF left
    <3>. QED BY <1>3, <2>1, <3>1
  <2>. HIDE DEF left
  <2>3. \A i \in 1 .. Len(q) + 2 : loop[i] = IF i <= Len(q) + 1 THEN left[i] ELSE head
    BY <1>3, <2>1, <2>2, ConcatProperties
  <2>. HIDE DEF loop
  <2>4. ASSUME NEW i \in 0 .. Len(q) + 1 PROVE loop[i + 1] = Link(head, tag, q, i)
    <3>1. CASE i = 0
      BY <1>3, <2>2, <2>3, <3>1 DEF Link
    <3>2. CASE i \in 1 .. Len(q)
      <4>1. /\ i + 1 \in 1 .. Len(q) + 1 /\ i + 1 \in 1 .. Len(q) + 2
            /\ i + 1 # 1 /\ (i + 1) - 1 = i /\ i + 1 <= Len(q) + 1
        BY <1>3, <3>2
      <4>2. left[i + 1] = links[i] /\ loop[i + 1] = left[i + 1]
        BY <2>2, <2>3, <4>1
      <4>. QED BY <1>3, <1>4, <3>2, <4>2 DEF Link, links
    <3>3. CASE i = Len(q) + 1
      BY <1>3, <2>3, <3>3 DEF Link
    <3>. QED BY <1>3, <3>1, <3>2, <3>3
  <2>. QED BY <2>4 DEF left, loop, one, links
<1>8. Circular(m, head, MAXPROC)
  <2>. DEFINE loop == <<head>> \o Links(tag, q) \o <<head>>
  <2>1. \A i \in 0 .. Len(q) + 1 : loop[i + 1] = Link(head, tag, q, i)
    BY <1>7
  <2>. HIDE DEF loop
  <2>2. ASSUME NEW i \in 1 .. Len(q) + 1
        PROVE  m[loop[i]].next = loop[i + 1] /\ m[loop[i + 1]].prev = loop[i]
    <3>1. i - 1 \in 0 .. Len(q) /\ (i - 1) + 1 = i
      BY <1>3
    <3>2. loop[i] = Link(head, tag, q, i - 1) /\ loop[i + 1] = Link(head, tag, q, i)
      BY <1>3, <2>1, <3>1
    <3>. QED BY <3>1, <3>2 DEF Ring
  <2>. QED BY <1>2, <1>6, <2>2 DEF Circular, loop
<1>. QED BY <1>5, <1>8

-----------------------------------------------------------------------------
(* What the list operations do to a heap *)

Pointer == Address \cup {NULL}
Heap == [Address -> [next : Pointer, prev : Pointer]]

\* One assignment.
WithNext(m, a, p) == [m EXCEPT ![a].next = p]
WithPrev(m, a, p) == [m EXCEPT ![a].prev = p]

\* An assignment to one of the two pointers of a list_head.
LEMMA SetNext ==
    ASSUME NEW m \in Heap, NEW a \in Address, NEW p \in Pointer
    PROVE  LET r == WithNext(m, a, p)
           IN  /\ r \in Heap /\ r[a] = [next |-> p, prev |-> m[a].prev]
               /\ \A b \in Address \ {a} : r[b] = m[b]
  BY DEF Heap, WithNext

\* The same for the other pointer.
LEMMA SetPrev ==
    ASSUME NEW m \in Heap, NEW a \in Address, NEW p \in Pointer
    PROVE  LET r == WithPrev(m, a, p)
           IN  /\ r \in Heap /\ r[a] = [next |-> m[a].next, prev |-> p]
               /\ \A b \in Address \ {a} : r[b] = m[b]
  BY DEF Heap, WithPrev

\* The new entry and its two neighbours change.
LEMMA AddBetween ==
    ASSUME NEW m \in Heap, NEW new \in Address, NEW prev \in Address, NEW next \in Address,
           new # prev, new # next
    PROVE  LET r == list_add_between(m, new, prev, next)
           IN  /\ r \in Heap
               /\ r[new] = [next |-> next, prev |-> prev]
               /\ r[prev].next = new /\ r[next].prev = new
               /\ prev # next => r[prev].prev = m[prev].prev /\ r[next].next = m[next].next
               /\ \A a \in Address \ {new, prev, next} : r[a] = m[a]
<1>. DEFINE m1 == WithPrev(m, next, new)
            m2 == WithNext(m1, new, next)
            m3 == WithPrev(m2, new, prev)
            r  == WithNext(m3, prev, new)
<1>0. new \in Pointer /\ prev \in Pointer /\ next \in Pointer
  BY DEF Pointer
<1>1. /\ m1 \in Heap /\ m1[next] = [next |-> m[next].next, prev |-> new]
      /\ \A b \in Address \ {next} : m1[b] = m[b]
  BY <1>0, SetPrev
<1>. HIDE DEF m1
<1>2. /\ m2 \in Heap /\ m2[new] = [next |-> next, prev |-> m1[new].prev]
      /\ \A b \in Address \ {new} : m2[b] = m1[b]
  BY <1>0, <1>1, SetNext
<1>. HIDE DEF m2
<1>3. /\ m3 \in Heap /\ m3[new] = [next |-> m2[new].next, prev |-> prev]
      /\ \A b \in Address \ {new} : m3[b] = m2[b]
  BY <1>0, <1>2, SetPrev
<1>. HIDE DEF m3
<1>4. /\ r \in Heap /\ r[prev] = [next |-> new, prev |-> m3[prev].prev]
      /\ \A b \in Address \ {prev} : r[b] = m3[b]
  BY <1>0, <1>3, SetNext
<1>. HIDE DEF r
<1>5. list_add_between(m, new, prev, next) = r
  BY DEF list_add_between, r, m3, m2, m1, WithNext, WithPrev
<1>6. /\ r[new] = [next |-> next, prev |-> prev]
      /\ r[prev].next = new /\ r[next].prev = new
      /\ prev # next => r[prev].prev = m[prev].prev /\ r[next].next = m[next].next
      /\ \A a \in Address \ {new, prev, next} : r[a] = m[a]
  BY <1>1, <1>2, <1>3, <1>4
<1>. QED BY <1>4, <1>5, <1>6

\* A write through NULL is none.
LEMMA SetElsewhere ==
    ASSUME NEW m \in Heap, NEW a, a \notin Address, NEW p
    PROVE  WithPrev(m, a, p) = m /\ WithNext(m, a, p) = m
<1>1. DOMAIN m = Address /\ m = [b \in Address |-> m[b]]
  BY DEF Heap
<1>2. \A v : [m EXCEPT ![a] = v] = m
  <2>. SUFFICES ASSUME NEW v PROVE [m EXCEPT ![a] = v] = m
    OBVIOUS
  <2>. DEFINE r == [b \in Address |-> IF b = a THEN v ELSE m[b]]
  <2>1. [m EXCEPT ![a] = v] = r
    BY <1>1
  <2>2. r = m
    BY <1>1
  <2>. QED BY <2>1, <2>2
<1>. QED BY <1>2 DEF WithPrev, WithNext

\* The neighbours of the entry change, if they are there.
LEMMA ListDel ==
    ASSUME NEW m \in Heap, NEW entry \in Address
    PROVE  LET r    == list_del(m, entry)
               prev == m[entry].prev
               next == m[entry].next
           IN  /\ r \in Heap
               /\ prev \in Address => /\ r[prev].next = next
                                      /\ r[prev].prev = IF prev = next THEN prev ELSE m[prev].prev
               /\ next \in Address => /\ r[next].prev = prev
                                      /\ r[next].next = IF prev = next THEN next ELSE m[next].next
               /\ \A a \in Address \ {prev, next} : r[a] = m[a]
<1>. DEFINE prev == m[entry].prev
            next == m[entry].next
            t == WithPrev(m, next, prev)
            r == WithNext(t, prev, next)
<1>1. list_del(m, entry) = r
  BY DEF list_del, WithPrev, WithNext
<1>2. prev \in Pointer /\ next \in Pointer
  BY DEF Heap
<1>3. \A x, y, z : x \in Heap /\ y \notin Address => WithPrev(x, y, z) = x /\ WithNext(x, y, z) = x
  BY SetElsewhere
<1>. HIDE DEF prev, next
<1>4. ASSUME next \in Address
      PROVE  /\ t \in Heap /\ t[next] = [next |-> m[next].next, prev |-> prev]
             /\ \A a \in Address \ {next} : t[a] = m[a]
  BY <1>2, <1>4, SetPrev
<1>. HIDE DEF t
<1>5. t \in Heap /\ \A a \in Address \ {next} : t[a] = m[a]
  <2>1. CASE next \notin Address
    BY <1>3, <2>1 DEF t
  <2>. QED BY <1>4, <2>1
<1>6. ASSUME prev \in Address
      PROVE  /\ r \in Heap /\ r[prev] = [next |-> next, prev |-> t[prev].prev]
             /\ \A a \in Address \ {prev} : r[a] = t[a]
  BY <1>2, <1>5, <1>6, SetNext
<1>. HIDE DEF r
<1>7. r \in Heap /\ \A a \in Address \ {prev} : r[a] = t[a]
  <2>1. CASE prev \notin Address
    BY <1>3, <1>5, <2>1 DEF r
  <2>. QED BY <1>6, <2>1
<1>8. prev \in Address => /\ r[prev].next = next
                          /\ r[prev].prev = IF prev = next THEN prev ELSE m[prev].prev
  BY <1>4, <1>5, <1>6
<1>9. next \in Address => /\ r[next].prev = prev
                          /\ r[next].next = IF prev = next THEN next ELSE m[next].next
  BY <1>4, <1>6, <1>7
<1>10. \A a \in Address \ {prev, next} : r[a] = m[a]
  BY <1>5, <1>7
<1>. QED BY <1>1, <1>7, <1>8, <1>9, <1>10 DEF prev, next

\* INIT_LIST_HEAD writes its own list_head only.
LEMMA InitListHead ==
    ASSUME NEW m \in Heap, NEW l \in Address
    PROVE  /\ INIT_LIST_HEAD(m, l) \in Heap
           /\ INIT_LIST_HEAD(m, l)[l] = [next |-> l, prev |-> l]
           /\ \A a \in Address \ {l} : INIT_LIST_HEAD(m, l)[a] = m[a]
  BY DEF INIT_LIST_HEAD, Heap, Pointer

-----------------------------------------------------------------------------
(* What they do to the list that a sentinel holds *)

\* The addresses a list goes through.
Foot(head, tag, q) == {head} \cup {<<tag, q[i]>> : i \in DOMAIN q}

\* The circle: its list_heads are different, and it closes at the sentinel.
LEMMA LinkFacts ==
    ASSUME NEW m, NEW head, NEW tag, NEW S, NEW q \in Seq(S), Ring(m, head, tag, q)
    PROVE  /\ Len(q) \in Nat /\ DOMAIN q = 1 .. Len(q)
           /\ Link(head, tag, q, 0) = head /\ Link(head, tag, q, Len(q) + 1) = head
           /\ \A i \in 1 .. Len(q) : Link(head, tag, q, i) = <<tag, q[i]>>
           /\ \A i \in Int : Link(head, tag, q, i) \in Foot(head, tag, q)
           /\ \A i, j \in 0 .. Len(q) : Link(head, tag, q, i) = Link(head, tag, q, j) => i = j
           /\ \A i, j \in 1 .. Len(q) + 1 : Link(head, tag, q, i) = Link(head, tag, q, j) => i = j
<1>1. Len(q) \in Nat /\ DOMAIN q = 1 .. Len(q)
  BY LenProperties
<1>2. /\ Link(head, tag, q, 0) = head /\ Link(head, tag, q, Len(q) + 1) = head
      /\ \A i \in 1 .. Len(q) : Link(head, tag, q, i) = <<tag, q[i]>>
  BY <1>1 DEF Link
<1>3. \A i \in Int : Link(head, tag, q, i) \in Foot(head, tag, q)
  BY DEF Link, Foot
<1>4. ASSUME NEW i \in 0 .. Len(q), NEW j \in 0 .. Len(q),
             Link(head, tag, q, i) = Link(head, tag, q, j)
      PROVE  i = j
  <2>1. CASE i \in 1 .. Len(q) /\ j \in 1 .. Len(q)
    <3>1. q[i] = q[j]
      BY <1>2, <1>4, <2>1
    <3>. QED BY <1>1, <2>1, <3>1 DEF Ring, NoDuplicates
  <2>2. CASE i = 0 /\ j \in 1 .. Len(q)
    BY <1>1, <1>2, <1>4, <2>2 DEF Ring
  <2>3. CASE i \in 1 .. Len(q) /\ j = 0
    BY <1>1, <1>2, <1>4, <2>3 DEF Ring
  <2>. QED BY <1>1, <2>1, <2>2, <2>3
<1>5. ASSUME NEW i \in 1 .. Len(q) + 1, NEW j \in 1 .. Len(q) + 1,
             Link(head, tag, q, i) = Link(head, tag, q, j)
      PROVE  i = j
  <2>. DEFINE around(n) == IF n = Len(q) + 1 THEN 0 ELSE n
  <2>1. /\ around(i) \in 0 .. Len(q) /\ around(j) \in 0 .. Len(q)
        /\ Link(head, tag, q, around(i)) = Link(head, tag, q, i)
        /\ Link(head, tag, q, around(j)) = Link(head, tag, q, j)
    BY <1>1, <1>2
  <2>2. around(i) = around(j)
    BY <1>4, <1>5, <2>1
  <2>. QED BY <1>1, <2>2
<1>. QED BY <1>1, <1>2, <1>3, <1>4, <1>5

\* A list is not disturbed by a change elsewhere.
LEMMA RingFrame ==
    ASSUME NEW m, NEW r, NEW head, NEW tag, NEW S, NEW q \in Seq(S), Ring(m, head, tag, q),
           \A a \in Foot(head, tag, q) : r[a] = m[a]
    PROVE  Ring(r, head, tag, q)
<1>1. \A i \in Int : Link(head, tag, q, i) \in Foot(head, tag, q)
  BY LinkFacts
<1>2. \A i \in 0 .. Len(q) : i \in Int /\ i + 1 \in Int
  BY LinkFacts
<1>. QED BY <1>1, <1>2 DEF Ring

\* A sentinel that points to itself holds nothing.
LEMMA RingInit ==
    ASSUME NEW m, NEW head, NEW tag, m[head] = [next |-> head, prev |-> head]
    PROVE  Ring(m, head, tag, <<>>)
<1>1. DOMAIN <<>> = {} /\ Len(<<>>) = 0
  OBVIOUS
<1>. QED BY <1>1 DEF Ring, NoDuplicates, Link

\* list_empty sees whether there is an entry.
LEMMA RingEmpty ==
    ASSUME NEW m, NEW head, NEW tag, NEW S, NEW q \in Seq(S), Ring(m, head, tag, q)
    PROVE  /\ list_empty(m, head) <=> q = <<>>
           /\ q # <<>> => m[head].next = <<tag, Head(q)>>
<1>1. Len(q) \in Nat /\ DOMAIN q = 1 .. Len(q) /\ (q = <<>> <=> Len(q) = 0)
  BY LenProperties, EmptySeq
<1>2. m[head].next = Link(head, tag, q, 1)
  <2>1. Link(head, tag, q, 0) = head /\ 0 \in 0 .. Len(q) /\ 0 + 1 = 1
    BY <1>1, LinkFacts
  <2>. QED BY <2>1 DEF Ring
<1>3. CASE q = <<>>
  BY <1>1, <1>2, <1>3 DEF Link, list_empty
<1>4. CASE q # <<>>
  <2>1. 1 \in DOMAIN q /\ Head(q) = q[1]
    BY <1>1, <1>4
  <2>. QED BY <1>2, <1>4, <2>1 DEF Link, list_empty, Ring
<1>. QED BY <1>3, <1>4

\* Linking x between the entries k - 1 and k.
LEMMA RingInsert ==
    ASSUME NEW m \in Heap, NEW head, NEW tag, NEW S, NEW q \in Seq(S), Ring(m, head, tag, q),
           Foot(head, tag, q) \subseteq Address,
           NEW x \in S, x \notin Range(q), <<tag, x>> \in Address, <<tag, x>> # head,
           NEW k \in 1 .. Len(q) + 1
    PROVE  LET r == list_add_between(m, <<tag, x>>, Link(head, tag, q, k - 1), Link(head, tag, q, k))
           IN  /\ r \in Heap
               /\ Ring(r, head, tag, Inserted(q, k, x))
               /\ \A a \in Address \ (Foot(head, tag, q) \cup {<<tag, x>>}) : r[a] = m[a]
<1>. DEFINE link(i) == Link(head, tag, q, i)
            new  == <<tag, x>>
            prev == link(k - 1)
            next == link(k)
            r    == list_add_between(m, new, prev, next)
            s    == Inserted(q, k, x)
            n    == Len(q)
<1>1. /\ n \in Nat /\ DOMAIN q = 1 .. n
      /\ link(0) = head /\ link(n + 1) = head
      /\ \A i \in 1 .. n : link(i) = <<tag, q[i]>>
      /\ \A i \in Int : link(i) \in Foot(head, tag, q)
      /\ \A i, j \in 0 .. n : link(i) = link(j) => i = j
      /\ \A i, j \in 1 .. n + 1 : link(i) = link(j) => i = j
  BY LinkFacts
<1>2. \A i \in 0 .. n + 1 : link(i) \in Address /\ link(i) # new
  <2>1. \A i \in 1 .. n : q[i] # x
    BY <1>1 DEF Range
  <2>2. \A i \in 1 .. n : link(i) # new
    BY <1>1, <2>1
  <2>3. \A i \in 0 .. n + 1 : i = 0 \/ i = n + 1 \/ i \in 1 .. n
    BY <1>1
  <2>4. \A i \in 0 .. n + 1 : link(i) \in Address
    BY <1>1
  <2>. HIDE DEF link
  <2>. QED BY <1>1, <2>2, <2>3, <2>4
<1>3. new \in Address /\ prev \in Address /\ next \in Address /\ new # prev /\ new # next
  BY <1>1, <1>2
<1>4. \A i \in 0 .. n : m[link(i)].next = link(i + 1) /\ m[link(i + 1)].prev = link(i)
  BY DEF Ring
<1>. HIDE DEF link
<1>5. /\ r \in Heap
      /\ r[new] = [next |-> next, prev |-> prev]
      /\ r[prev].next = new /\ r[next].prev = new
      /\ prev # next => r[prev].prev = m[prev].prev /\ r[next].next = m[next].next
      /\ \A a \in Address \ {new, prev, next} : r[a] = m[a]
  <2>1. m \in Heap /\ r = list_add_between(m, new, prev, next)
    OBVIOUS
  <2>. HIDE DEF new, prev, next, r
  <2>. QED BY ONLY <1>3, <2>1, AddBetween
<1>. HIDE DEF r
<1>6. \A i \in 0 .. n : i # k - 1 => r[link(i)].next = link(i + 1)
  <2>1. \A i \in 0 .. n : i # k - 1 => link(i) # prev
    BY <1>1
  <2>. QED BY <1>2, <1>4, <1>5, <2>1
<1>7. \A i \in 0 .. n : i + 1 # k => r[link(i + 1)].prev = link(i)
  <2>1. \A i \in 0 .. n : i + 1 # k => link(i + 1) # next
    BY <1>1
  <2>2. \A i \in 0 .. n : i + 1 \in 0 .. n + 1
    BY <1>1
  <2>. QED BY <1>2, <1>4, <1>5, <2>1, <2>2
<1>8. /\ DOMAIN s = 1 .. n + 1 /\ Len(s) = n + 1
      /\ \A i \in 1 .. n + 1 : s[i] = IF i < k THEN q[i] ELSE IF i = k THEN x ELSE q[i - 1]
  BY <1>1 DEF Inserted
<1>. HIDE DEF s
<1>9. \A i \in 0 .. n + 2 :
        Link(head, tag, s, i) = IF i < k THEN link(i) ELSE IF i = k THEN new ELSE link(i - 1)
  <2>1. ASSUME NEW i \in 0 .. n + 2
        PROVE  Link(head, tag, s, i) = IF i < k THEN link(i) ELSE IF i = k THEN new ELSE link(i - 1)
    <3>1. CASE i = 0 \/ i = n + 2
      BY <1>1, <1>8, <3>1 DEF Link
    <3>2. CASE i \in 1 .. n + 1
      <4>1. Link(head, tag, s, i) = <<tag, s[i]>>
        BY <1>8, <3>2 DEF Link
      <4>2. i < k => i \in 1 .. n
        BY <1>1, <3>2
      <4>3. i > k => i - 1 \in 1 .. n
        BY <1>1, <3>2
      <4>. QED BY <1>1, <1>8, <3>2, <4>1, <4>2, <4>3
    <3>. QED BY <1>1, <3>1, <3>2
  <2>. QED BY <2>1
<1>10. ASSUME NEW i \in 0 .. n + 1
       PROVE  /\ r[Link(head, tag, s, i)].next = Link(head, tag, s, i + 1)
              /\ r[Link(head, tag, s, i + 1)].prev = Link(head, tag, s, i)
  <2>0. i \in 0 .. n + 2 /\ i + 1 \in 0 .. n + 2
    BY <1>1
  <2>1. CASE i < k - 1
    <3>1. Link(head, tag, s, i) = link(i) /\ Link(head, tag, s, i + 1) = link(i + 1)
      BY <1>9, <2>0, <2>1
    <3>2. i \in 0 .. n /\ i # k - 1 /\ i + 1 # k
      BY <1>1, <2>1
    <3>. QED BY <1>6, <1>7, <3>1, <3>2
  <2>2. CASE i = k - 1
    <3>1. Link(head, tag, s, i) = prev /\ Link(head, tag, s, i + 1) = new
      BY <1>9, <2>0, <2>2
    <3>2. r[prev].next = new /\ r[new].prev = prev
      BY <1>5
    <3>. HIDE DEF prev, new
    <3>. QED BY <3>1, <3>2
  <2>3. CASE i = k
    <3>1. Link(head, tag, s, i) = new /\ Link(head, tag, s, i + 1) = next
      BY <1>9, <2>0, <2>3
    <3>. QED BY <1>5, <3>1
  <2>4. CASE i > k
    <3>1. Link(head, tag, s, i) = link(i - 1) /\ Link(head, tag, s, i + 1) = link((i - 1) + 1)
      BY <1>9, <2>0, <2>4
    <3>2. i - 1 \in 0 .. n /\ i - 1 # k - 1 /\ (i - 1) + 1 # k
      BY <1>1, <2>4
    <3>. QED BY <1>6, <1>7, <3>1, <3>2
  <2>. QED BY <1>1, <2>1, <2>2, <2>3, <2>4
<1>11. NoDuplicates(s) /\ \A i \in DOMAIN s : <<tag, s[i]>> # head
  <2>1. \A i \in 1 .. n : q[i] # x /\ <<tag, q[i]>> # head
    BY <1>1 DEF Range, Ring
  <2>2. \A i \in 1 .. n + 1 : /\ i < k => i \in 1 .. n
                              /\ i > k => i - 1 \in 1 .. n
    BY <1>1
  <2>3. \A i, j \in 1 .. n : q[i] = q[j] => i = j
    BY <1>1 DEF Ring, NoDuplicates
  <2>4. \A i \in DOMAIN s : <<tag, s[i]>> # head
    BY <1>8, <2>1, <2>2
  <2>5. ASSUME NEW i \in DOMAIN s, NEW j \in DOMAIN s, s[i] = s[j] PROVE i = j
    BY <1>8, <2>1, <2>2, <2>3, <2>5
  <2>. QED BY <2>4, <2>5 DEF NoDuplicates
<1>12. Ring(r, head, tag, s)
  BY <1>8, <1>10, <1>11 DEF Ring
<1>13. \A a \in Address \ (Foot(head, tag, q) \cup {new}) : r[a] = m[a]
  BY <1>1, <1>5
<1>. QED BY <1>5, <1>12, <1>13 DEF r, s, link

\* Unlinking the entry k.
LEMMA RingRemove ==
    ASSUME NEW m \in Heap, NEW head, NEW tag, NEW S, NEW q \in Seq(S), Ring(m, head, tag, q),
           Foot(head, tag, q) \subseteq Address,
           NEW k \in 1 .. Len(q), NEW r, r = list_del(m, <<tag, q[k]>>)
    PROVE  /\ r \in Heap
           /\ Ring(r, head, tag, Removed(q, k))
           /\ \A a \in Address \ Foot(head, tag, q) : r[a] = m[a]
<1>. DEFINE link(i) == Link(head, tag, q, i)
            entry == <<tag, q[k]>>
            prev  == link(k - 1)
            next  == link(k + 1)
            s     == Removed(q, k)
            n     == Len(q)
<1>1. /\ n \in Nat /\ DOMAIN q = 1 .. n
      /\ link(0) = head /\ link(n + 1) = head
      /\ \A i \in 1 .. n : link(i) = <<tag, q[i]>>
      /\ \A i \in Int : link(i) \in Foot(head, tag, q)
      /\ \A i, j \in 0 .. n : link(i) = link(j) => i = j
      /\ \A i, j \in 1 .. n + 1 : link(i) = link(j) => i = j
  BY LinkFacts
<1>2. \A i \in 0 .. n : m[link(i)].next = link(i + 1) /\ m[link(i + 1)].prev = link(i)
  BY DEF Ring
<1>3. DOMAIN s = 1 .. n - 1 /\ Len(s) = n - 1
  BY <1>1 DEF Removed
<1>4. \A i \in 1 .. n - 1 : s[i] = IF i < k THEN q[i] ELSE q[i + 1]
  BY <1>1 DEF Removed
<1>. HIDE DEF link, n, s
<1>0. n \in Nat /\ k \in 1 .. n
  BY <1>1 DEF n
<1>5. \A i \in 0 .. n + 1 : link(i) \in Address /\ link(i) \in Foot(head, tag, q)
  <2>1. \A i \in 0 .. n + 1 : i \in Int
    BY <1>0
  <2>. QED BY <1>1, <2>1
<1>6. k - 1 \in 0 .. n /\ (k - 1) + 1 = k /\ k \in 0 .. n /\ k + 1 \in 0 .. n + 1 /\ k \in 0 .. n + 1
      /\ k - 1 \in 0 .. n + 1
  BY <1>0
<1>7. entry = link(k) /\ m[entry].prev = prev /\ m[entry].next = next
  <2>1. entry = link(k)
    BY <1>0, <1>1
  <2>2. m[link(k)].prev = prev /\ m[link(k)].next = next
    BY <1>2, <1>6
  <2>. QED BY <2>1, <2>2
<1>8. entry \in Address /\ prev \in Address /\ next \in Address
  BY <1>5, <1>6, <1>7
<1>. HIDE DEF entry
<1>9. /\ r \in Heap
      /\ r[prev].next = next
      /\ r[next].prev = prev
      /\ r[prev].prev = IF prev = next THEN prev ELSE m[prev].prev
      /\ r[next].next = IF prev = next THEN next ELSE m[next].next
      /\ \A a \in Address \ {prev, next} : r[a] = m[a]
  <2>1. r = list_del(m, entry)
    BY DEF entry
  <2>. HIDE DEF prev, next
  <2>2. LET d == list_del(m, entry)
        IN  /\ d \in Heap
            /\ d[prev].next = next
            /\ d[prev].prev = IF prev = next THEN prev ELSE m[prev].prev
            /\ d[next].prev = prev
            /\ d[next].next = IF prev = next THEN next ELSE m[next].next
            /\ \A a \in Address \ {prev, next} : d[a] = m[a]
    BY <1>7, <1>8, ListDel
  <2>. QED BY <2>1, <2>2
<1>10. \A i \in 0 .. n : i # k - 1 /\ i # k => r[link(i)].next = link(i + 1)
  <2>1. ASSUME NEW i \in 0 .. n, i # k - 1, i # k PROVE r[link(i)].next = link(i + 1)
    <3>1. link(i) # prev
      BY <1>1, <1>6, <2>1
    <3>2. m[link(i)].next = link(i + 1) /\ link(i) \in Address
      <4>1. i \in 0 .. n + 1
        BY <1>0
      <4>. QED BY <1>2, <1>5, <4>1
    <3>3. CASE link(i) = next
      <4>. HIDE DEF prev, next
      <4>. QED BY <1>9, <3>1, <3>2, <3>3
    <3>4. CASE link(i) # next
      <4>. HIDE DEF prev, next
      <4>. QED BY <1>9, <3>1, <3>2, <3>4
    <3>. QED BY <3>3, <3>4
  <2>. QED BY <2>1
<1>11. \A i \in 0 .. n : i # k - 1 /\ i # k => r[link(i + 1)].prev = link(i)
  <2>1. ASSUME NEW i \in 0 .. n, i # k - 1, i # k PROVE r[link(i + 1)].prev = link(i)
    <3>1. i + 1 \in 1 .. n + 1 /\ k + 1 \in 1 .. n + 1 /\ i + 1 # k + 1 /\ i + 1 \in 0 .. n + 1
      BY <1>0, <2>1
    <3>2. link(i + 1) # next
      BY <1>1, <3>1
    <3>3. m[link(i + 1)].prev = link(i) /\ link(i + 1) \in Address
      BY <1>2, <1>5, <3>1
    <3>4. CASE link(i + 1) = prev
      <4>. HIDE DEF prev, next
      <4>. QED BY <1>9, <3>2, <3>3, <3>4
    <3>5. CASE link(i + 1) # prev
      <4>. HIDE DEF prev, next
      <4>. QED BY <1>9, <3>2, <3>3, <3>5
    <3>. QED BY <3>4, <3>5
  <2>. QED BY <2>1
<1>12. \A i \in 0 .. n : Link(head, tag, s, i) = IF i < k THEN link(i) ELSE link(i + 1)
  <2>1. ASSUME NEW i \in 0 .. n
        PROVE  Link(head, tag, s, i) = IF i < k THEN link(i) ELSE link(i + 1)
    <3>1. CASE i = 0
      <4>1. i \notin DOMAIN s /\ i < k
        BY <1>0, <1>3, <3>1
      <4>. QED BY <1>1, <3>1, <4>1 DEF Link
    <3>2. CASE i = n
      <4>1. i \notin DOMAIN s /\ ~(i < k)
        BY <1>0, <1>3, <3>2
      <4>. QED BY <1>1, <3>2, <4>1 DEF Link
    <3>3. CASE i \in 1 .. n - 1
      <4>1. Link(head, tag, s, i) = <<tag, s[i]>>
        BY <1>3, <3>3 DEF Link
      <4>2. i \in 1 .. n /\ i + 1 \in 1 .. n
        BY <1>0, <3>3
      <4>. QED BY <1>1, <1>4, <3>3, <4>1, <4>2
    <3>. QED BY <1>0, <3>1, <3>2, <3>3
  <2>. QED BY <2>1
<1>13. ASSUME NEW i \in 0 .. n - 1
       PROVE  /\ r[Link(head, tag, s, i)].next = Link(head, tag, s, i + 1)
              /\ r[Link(head, tag, s, i + 1)].prev = Link(head, tag, s, i)
  <2>0. i \in 0 .. n /\ i + 1 \in 0 .. n
    BY <1>0
  <2>1. CASE i < k - 1
    <3>1. i < k /\ i + 1 < k /\ i # k - 1 /\ i # k
      BY <1>0, <2>1
    <3>2. Link(head, tag, s, i) = link(i) /\ Link(head, tag, s, i + 1) = link(i + 1)
      BY <1>12, <2>0, <3>1
    <3>. QED BY <1>10, <1>11, <2>0, <3>1, <3>2
  <2>2. CASE i = k - 1
    <3>1. i < k /\ ~(i + 1 < k) /\ i + 1 = k
      BY <1>0, <2>2
    <3>2. Link(head, tag, s, i) = prev /\ Link(head, tag, s, i + 1) = next
      BY <1>12, <2>0, <2>2, <3>1
    <3>. HIDE DEF prev, next
    <3>. QED BY <1>9, <3>2
  <2>3. CASE i > k - 1
    <3>1. ~(i < k) /\ ~(i + 1 < k) /\ i + 1 # k - 1 /\ i + 1 # k
      BY <1>0, <2>3
    <3>2. Link(head, tag, s, i) = link(i + 1) /\ Link(head, tag, s, i + 1) = link((i + 1) + 1)
      BY <1>12, <2>0, <3>1
    <3>. QED BY <1>10, <1>11, <2>0, <3>1, <3>2
  <2>. QED BY <1>0, <2>1, <2>2, <2>3
<1>14. NoDuplicates(s) /\ \A i \in DOMAIN s : <<tag, s[i]>> # head
  <2>1. \A i \in 1 .. n : <<tag, q[i]>> # head
    BY <1>1 DEF Ring
  <2>2. \A i, j \in 1 .. n : q[i] = q[j] => i = j
    BY <1>1 DEF Ring, NoDuplicates
  <2>3. \A i \in 1 .. n - 1 : i \in 1 .. n /\ i + 1 \in 1 .. n
    BY <1>0
  <2>4. ASSUME NEW i \in 1 .. n - 1 PROVE <<tag, s[i]>> # head
    BY <1>4, <2>1, <2>3
  <2>5. ASSUME NEW i \in 1 .. n - 1, NEW j \in 1 .. n - 1, s[i] = s[j] PROVE i = j
    <3>. DEFINE at(l) == IF l < k THEN l ELSE l + 1
    <3>1. s[i] = q[at(i)] /\ s[j] = q[at(j)] /\ at(i) \in 1 .. n /\ at(j) \in 1 .. n
      BY <1>4, <2>3
    <3>2. at(i) = at(j)
      BY <2>2, <2>5, <3>1
    <3>. QED BY <1>0, <3>2
  <2>. QED BY <1>3, <2>4, <2>5 DEF NoDuplicates
<1>15. Ring(r, head, tag, s)
  BY <1>3, <1>13, <1>14 DEF Ring
<1>16. \A a \in Address \ Foot(head, tag, q) : r[a] = m[a]
  <2>1. prev \in Foot(head, tag, q) /\ next \in Foot(head, tag, q)
    BY <1>5, <1>6
  <2>. HIDE DEF prev, next
  <2>. QED BY <1>9, <2>1
<1>. QED BY <1>9, <1>15, <1>16 DEF s

\* Unlinking the sentinel itself: the first of its entries is the sentinel of
\* the others then.
LEMMA RingPop ==
    ASSUME NEW m \in Heap, NEW tag, NEW S, NEW e, NEW q \in Seq(S), q # <<>>,
           Ring(m, <<tag, e>>, tag, q), Foot(<<tag, e>>, tag, q) \subseteq Address
    PROVE  LET r == list_del(m, <<tag, e>>)
           IN  /\ r \in Heap
               /\ Ring(r, <<tag, Head(q)>>, tag, Tail(q))
               /\ \A a \in Address \ Foot(<<tag, e>>, tag, q) : r[a] = m[a]
<1>. DEFINE head  == <<tag, e>>
            link(i) == Link(head, tag, q, i)
            first == <<tag, Head(q)>>
            last  == link(Len(q))
            s     == Tail(q)
            n     == Len(q)
            r     == list_del(m, head)
<1>0. Ring(m, head, tag, q) /\ Foot(head, tag, q) \subseteq Address
  OBVIOUS
<1>. HIDE DEF head
<1>1. /\ n \in Nat /\ DOMAIN q = 1 .. n
      /\ link(0) = head /\ link(n + 1) = head
      /\ \A i \in 1 .. n : link(i) = <<tag, q[i]>>
      /\ \A i \in Int : link(i) \in Foot(head, tag, q)
      /\ \A i, j \in 0 .. n : link(i) = link(j) => i = j
      /\ \A i, j \in 1 .. n + 1 : link(i) = link(j) => i = j
  BY <1>0, LinkFacts
<1>2. \A i \in 0 .. n : m[link(i)].next = link(i + 1) /\ m[link(i + 1)].prev = link(i)
  BY <1>0 DEF Ring
<1>3. n > 0 /\ Head(q) = q[1] /\ DOMAIN s = 1 .. n - 1 /\ Len(s) = n - 1
  BY <1>1, HeadTailProperties, EmptySeq
<1>4. \A i \in 1 .. n - 1 : s[i] = q[i + 1]
  BY <1>1, <1>3, HeadTailProperties
<1>. HIDE DEF link, s, first
<1>5. first = link(1) /\ m[head].next = first /\ m[head].prev = last
  <2>1. 1 \in 1 .. n /\ 0 \in 0 .. n /\ n \in 0 .. n /\ 0 + 1 = 1
    BY <1>1, <1>3
  <2>. QED BY <1>1, <1>2, <1>3, <2>1 DEF first
<1>6. \A i \in 0 .. n + 1 : link(i) \in Address /\ link(i) \in Foot(head, tag, q)
  <2>1. \A i \in 0 .. n + 1 : i \in Int
    BY <1>1
  <2>. QED BY <1>0, <1>1, <2>1
<1>7. \A i, j \in 0 .. n : link(i) = link(j) => i = j
  BY <1>1
<1>8. \A i \in 0 .. n : link(i) = last => i = n
  <2>1. n \in 0 .. n /\ last = link(n)
    BY <1>1
  <2>. HIDE DEF n, last
  <2>. QED BY <1>7, <2>1
<1>9. \A i \in 1 .. n : link(i) = <<tag, q[i]>>
  BY <1>1
<1>10. \A i \in 1 .. n + 1 : link(i) = link(1) => i = 1
  BY <1>1, <1>3
<1>. HIDE DEF n, last
<1>11. n \in Nat /\ n > 0
  BY <1>1, <1>3 DEF n
<1>12. head \in Address /\ first \in Address /\ last \in Address /\ last = link(n)
  <2>1. 0 \in 0 .. n + 1 /\ 1 \in 0 .. n + 1 /\ n \in 0 .. n + 1
    BY <1>11
  <2>2. last = link(n)
    BY DEF last, n
  <2>. QED BY <1>1, <1>5, <1>6, <2>1, <2>2
<1>13. /\ r \in Heap
       /\ r[last].next = first /\ r[first].prev = last
       /\ r[last].prev = IF last = first THEN last ELSE m[last].prev
       /\ r[first].next = IF last = first THEN first ELSE m[first].next
       /\ \A a \in Address \ {last, first} : r[a] = m[a]
  BY <1>5, <1>12, ListDel
<1>. HIDE DEF r
<1>. DEFINE link2(i) == IF i = n THEN link(1) ELSE link(i + 1)
<1>14. \A i \in 0 .. n : Link(first, tag, s, i) = link2(i)
  <2>1. ASSUME NEW i \in 0 .. n PROVE Link(first, tag, s, i) = link2(i)
    <3>1. CASE i \in {0, n}
      <4>1. i \notin DOMAIN s /\ link2(i) = link(1)
        BY <1>3, <1>11, <3>1 DEF n
      <4>. QED BY <1>5, <4>1 DEF Link
    <3>2. CASE i \in 1 .. n - 1
      <4>1. Link(first, tag, s, i) = <<tag, s[i]>> /\ s[i] = q[i + 1]
        BY <1>3, <1>4, <3>2 DEF Link, n
      <4>2. i + 1 \in 1 .. n /\ i # n
        BY <1>11, <3>2
      <4>3. link(i + 1) = <<tag, q[i + 1]>>
        BY <1>9, <4>2
      <4>. QED BY <4>1, <4>2, <4>3
    <3>. QED BY <1>11, <3>1, <3>2
  <2>. QED BY <2>1
<1>15. ASSUME NEW i \in 0 .. n - 1
       PROVE  r[link2(i)].next = link2(i + 1) /\ r[link2(i + 1)].prev = link2(i)
  <2>1. CASE i = n - 1
    <3>1. i # n /\ i + 1 = n
      BY <1>11, <2>1
    <3>2. link2(i) = last /\ link2(i + 1) = first
      BY <1>5, <1>12, <3>1
    <3>. HIDE DEF link2
    <3>. QED BY <1>13, <3>2
  <2>2. CASE i # n - 1
    <3>1. i # n /\ i + 1 # n /\ i + 1 \in 0 .. n /\ i + 2 \in 0 .. n + 1 /\ i + 1 \in 0 .. n + 1
          /\ (i + 1) + 1 = i + 2 /\ i + 1 # n /\ n \in 0 .. n
          /\ i + 2 \in 1 .. n + 1 /\ i + 2 # 1 /\ 1 \in 1 .. n + 1
      BY <1>11, <2>2
    <3>2. link2(i) = link(i + 1) /\ link2(i + 1) = link(i + 2)
      BY <3>1
    <3>3. m[link(i + 1)].next = link(i + 2) /\ m[link(i + 2)].prev = link(i + 1)
      BY <1>2, <3>1 DEF n
    <3>4. link(i + 1) # last /\ link(i + 2) # first
      BY <1>5, <1>8, <1>10, <3>1
    <3>5. link(i + 1) \in Address /\ link(i + 2) \in Address
      BY <1>6, <3>1 DEF n
    <3>. HIDE DEF link2
    <3>6. r[link(i + 1)].next = link(i + 2)
      <4>1. CASE link(i + 1) = first
        BY <1>13, <3>3, <3>4, <4>1
      <4>2. CASE link(i + 1) # first
        BY <1>13, <3>3, <3>4, <3>5, <4>2
      <4>. QED BY <4>1, <4>2
    <3>7. r[link(i + 2)].prev = link(i + 1)
      <4>1. CASE link(i + 2) = last
        BY <1>13, <3>3, <3>4, <4>1
      <4>2. CASE link(i + 2) # last
        BY <1>13, <3>3, <3>4, <3>5, <4>2
      <4>. QED BY <4>1, <4>2
    <3>. QED BY <3>2, <3>6, <3>7
  <2>. QED BY <2>1, <2>2
<1>16. NoDuplicates(s) /\ \A i \in DOMAIN s : <<tag, s[i]>> # first
  <2>1. \A i, j \in 1 .. n : q[i] = q[j] => i = j
    BY <1>0, <1>1 DEF Ring, NoDuplicates, n
  <2>2. \A i \in 1 .. n - 1 : i + 1 \in 1 .. n /\ i + 1 # 1 /\ 1 \in 1 .. n
    BY <1>11
  <2>3. DOMAIN s = 1 .. n - 1 /\ \A i \in 1 .. n - 1 : s[i] = q[i + 1]
    BY <1>3, <1>4 DEF n
  <2>4. ASSUME NEW i \in 1 .. n - 1 PROVE <<tag, s[i]>> # first
    <3>1. q[i + 1] # q[1]
      BY <2>1, <2>2
    <3>. QED BY <1>3, <2>3, <3>1 DEF first
  <2>5. ASSUME NEW i \in 1 .. n - 1, NEW j \in 1 .. n - 1, s[i] = s[j] PROVE i = j
    <3>1. i + 1 = j + 1
      BY <2>1, <2>2, <2>3, <2>5
    <3>. QED BY <3>1
  <2>. QED BY <2>3, <2>4, <2>5 DEF NoDuplicates
<1>17. Ring(r, first, tag, s)
  <2>1. Len(s) = n - 1
    BY <1>3 DEF n
  <2>2. ASSUME NEW i \in 0 .. n - 1
        PROVE  /\ r[Link(first, tag, s, i)].next = Link(first, tag, s, i + 1)
               /\ r[Link(first, tag, s, i + 1)].prev = Link(first, tag, s, i)
    <3>1. i \in 0 .. n /\ i + 1 \in 0 .. n
      BY <1>11
    <3>2. Link(first, tag, s, i) = link2(i) /\ Link(first, tag, s, i + 1) = link2(i + 1)
      BY <1>14, <3>1
    <3>. HIDE DEF link2
    <3>. QED BY <1>15, <3>2
  <2>. QED BY <1>16, <2>1, <2>2 DEF Ring
<1>18. \A a \in Address \ Foot(head, tag, q) : r[a] = m[a]
  <2>1. first \in Foot(head, tag, q) /\ last \in Foot(head, tag, q)
    <3>1. 1 \in 0 .. n + 1 /\ n \in 0 .. n + 1
      BY <1>11
    <3>. QED BY <1>5, <1>6, <1>12, <3>1 DEF n
  <2>. QED BY <1>13, <2>1
<1>. QED BY <1>13, <1>17, <1>18 DEF r, s, first, head

-----------------------------------------------------------------------------
(* Several lists of structures linked by one field                         *)

\* Sentinels H of lists linked by the field tag.
Kind(tag, H) == H \subseteq Address /\ \A x \in Proc : <<tag, x>> \in Address \ H

\* Everything that such lists can go through.
Zone(tag, H) == H \cup {<<tag, x>> : x \in Proc}

\* The list of h holds c[h], and no structure is on two of them.
Rings(m, tag, H, c) ==
    /\ m \in Heap
    /\ c \in [H -> Seq(Proc)]
    /\ \A h \in H : Ring(m, h, tag, c[h])
    /\ \A h, g \in H : h # g => Range(c[h]) \cap Range(c[g]) = {}

\* r is m on these addresses.
Same(m, r, addresses) == \A a \in addresses : r[a] = m[a]

\* A function on 1 .. n is a sequence.
LEMMA FunctionIsSeq ==
    ASSUME NEW S, NEW n \in Nat, NEW s, DOMAIN s = 1 .. n, \A i \in 1 .. n : s[i] \in S,
           s = [i \in 1 .. n |-> s[i]]
    PROVE  s \in Seq(S) /\ Len(s) = n
  BY IsASeq

\* What an insertion does to the members.
LEMMA InsertedRange ==
    ASSUME NEW S, NEW q \in Seq(S), NEW x \in S, NEW k \in 1 .. Len(q) + 1
    PROVE  Inserted(q, k, x) \in Seq(S) /\ Range(Inserted(q, k, x)) = Range(q) \cup {x}
<1>. DEFINE s == Inserted(q, k, x)
            n == Len(q)
<1>1. n \in Nat /\ DOMAIN q = 1 .. n /\ \A i \in 1 .. n : q[i] \in S
  BY LenProperties, ElementOfSeq
<1>2. /\ DOMAIN s = 1 .. n + 1 /\ s = [i \in 1 .. n + 1 |-> s[i]]
      /\ \A i \in 1 .. n + 1 : s[i] = IF i < k THEN q[i] ELSE IF i = k THEN x ELSE q[i - 1]
  BY DEF Inserted
<1>. HIDE DEF s
<1>3. \A i \in 1 .. n + 1 : /\ i < k => i \in 1 .. n
                            /\ i > k => i - 1 \in 1 .. n
  BY <1>1
<1>4. \A i \in 1 .. n + 1 : s[i] \in S
  BY <1>1, <1>2, <1>3
<1>5. s \in Seq(S)
  BY <1>1, <1>2, <1>4, FunctionIsSeq
<1>6. Range(s) \subseteq Range(q) \cup {x}
  <2>1. \A i \in 1 .. n + 1 : s[i] \in Range(q) \cup {x}
    BY <1>1, <1>2, <1>3 DEF Range
  <2>. QED BY <1>2, <2>1 DEF Range
<1>7. x \in Range(s)
  <2>1. k \in 1 .. n + 1 /\ s[k] = x
    BY <1>1, <1>2
  <2>. QED BY <1>2, <2>1 DEF Range
<1>8. ASSUME NEW i \in 1 .. n PROVE q[i] \in Range(s)
  <2>1. i \in 1 .. n + 1 /\ i + 1 \in 1 .. n + 1 /\ (i + 1) - 1 = i
    BY <1>1
  <2>2. CASE i < k
    <3>1. s[i] = q[i]
      BY <1>2, <2>1, <2>2
    <3>. QED BY <1>2, <2>1, <3>1 DEF Range
  <2>3. CASE ~(i < k)
    <3>1. s[i + 1] = q[i]
      BY <1>1, <1>2, <2>1, <2>3
    <3>. QED BY <1>2, <2>1, <3>1 DEF Range
  <2>. QED BY <2>2, <2>3
<1>9. Range(q) \subseteq Range(s)
  BY <1>1, <1>8 DEF Range
<1>. QED BY <1>5, <1>6, <1>7, <1>9 DEF s

\* Insertions at the ends.
LEMMA InsertedEnds ==
    ASSUME NEW S, NEW q \in Seq(S), NEW x \in S
    PROVE  /\ Inserted(q, 1, x) = <<x>> \o q
           /\ Inserted(q, Len(q) + 1, x) = Append(q, x)
<1>. DEFINE n == Len(q)
            first == Inserted(q, 1, x)
            last  == Inserted(q, n + 1, x)
            one == <<x>>
            t == one \o q
            u == Append(q, x)
<1>1. n \in Nat /\ DOMAIN q = 1 .. n /\ \A i \in 1 .. n : q[i] \in S
  BY LenProperties, ElementOfSeq
<1>2. first \in Seq(S) /\ last \in Seq(S)
  <2>1. 1 \in 1 .. Len(q) + 1 /\ n + 1 \in 1 .. Len(q) + 1
    BY <1>1
  <2>. HIDE DEF n
  <2>. QED BY <2>1, InsertedRange
<1>3. /\ Len(first) = n + 1 /\ Len(last) = n + 1
      /\ \A i \in 1 .. n + 1 : /\ first[i] = IF i = 1 THEN x ELSE q[i - 1]
                               /\ last[i] = IF i = n + 1 THEN x ELSE q[i]
  <2>1. DOMAIN first = 1 .. n + 1 /\ DOMAIN last = 1 .. n + 1
    BY DEF Inserted
  <2>2. Len(first) = n + 1 /\ Len(last) = n + 1
    <3>. HIDE DEF first, last
    <3>1. \A s \in Seq(S) : DOMAIN s = 1 .. n + 1 => Len(s) = n + 1
      BY <1>1, LenProperties
    <3>. QED BY <1>2, <2>1, <3>1
  <2>. QED BY <1>1, <2>2 DEF Inserted
<1>4. one \in Seq(S) /\ Len(one) = 1 /\ one[1] = x
  OBVIOUS
<1>. HIDE DEF first, last, one
<1>5. /\ t \in Seq(S) /\ Len(t) = n + 1
      /\ \A i \in 1 .. n + 1 : t[i] = IF i = 1 THEN x ELSE q[i - 1]
  <2>1. /\ t \in Seq(S) /\ Len(t) = Len(one) + Len(q)
        /\ \A i \in 1 .. Len(one) + Len(q) :
              t[i] = IF i <= Len(one) THEN one[i] ELSE q[i - Len(one)]
    BY <1>4, ConcatProperties
  <2>. HIDE DEF t
  <2>. QED BY <1>1, <1>4, <2>1
<1>6. /\ u \in Seq(S) /\ Len(u) = n + 1
      /\ \A i \in 1 .. n + 1 : u[i] = IF i = n + 1 THEN x ELSE q[i]
  <2>1. u \in Seq(S) /\ Len(u) = n + 1 /\ u[n + 1] = x /\ \A i \in 1 .. n : u[i] = q[i]
    BY AppendProperties
  <2>2. \A i \in 1 .. n + 1 : i = n + 1 \/ i \in 1 .. n
    BY <1>1
  <2>. HIDE DEF u
  <2>. QED BY <1>1, <2>1, <2>2
<1>. HIDE DEF t, u, n
<1>7. first = t
  <2>1. \A i \in 1 .. n + 1 : first[i] = t[i]
    BY <1>3, <1>5
  <2>. QED BY <1>2, <1>3, <1>5, <2>1, SeqEqual
<1>8. last = u
  <2>1. \A i \in 1 .. n + 1 : last[i] = u[i]
    BY <1>3, <1>6
  <2>. QED BY <1>2, <1>3, <1>6, <2>1, SeqEqual
<1>. QED BY <1>7, <1>8 DEF first, last, t, u, n, one

\* What a removal does to the members.
LEMMA RemovedRange ==
    ASSUME NEW S, NEW q \in Seq(S), NEW k \in 1 .. Len(q)
    PROVE  /\ Removed(q, k) \in Seq(S) /\ Range(Removed(q, k)) \subseteq Range(q)
           /\ k = 1 => Removed(q, k) = Tail(q)
<1>. DEFINE s == Removed(q, k)
            n == Len(q)
            t == Tail(q)
<1>1. n \in Nat /\ DOMAIN q = 1 .. n /\ (\A i \in 1 .. n : q[i] \in S) /\ n - 1 \in Nat
  BY LenProperties, ElementOfSeq
<1>2. /\ DOMAIN s = 1 .. n - 1 /\ s = [i \in 1 .. n - 1 |-> s[i]]
      /\ \A i \in 1 .. n - 1 : s[i] = IF i < k THEN q[i] ELSE q[i + 1]
  BY DEF Removed
<1>. HIDE DEF s
<1>3. \A i \in 1 .. n - 1 : i \in 1 .. n /\ i + 1 \in 1 .. n
  BY <1>1
<1>4. s \in Seq(S) /\ Len(s) = n - 1
  <2>1. \A i \in 1 .. n - 1 : s[i] \in S
    BY <1>1, <1>2, <1>3
  <2>. QED BY <1>1, <1>2, <2>1, FunctionIsSeq
<1>5. Range(s) \subseteq Range(q)
  BY <1>1, <1>2, <1>3 DEF Range
<1>6. ASSUME k = 1 PROVE s = t
  <2>1. q # <<>>
    BY <1>1, <1>6
  <2>2. t \in Seq(S) /\ Len(t) = n - 1 /\ \A i \in 1 .. Len(t) : t[i] = q[i + 1]
    BY <2>1, HeadTailProperties
  <2>. HIDE DEF t
  <2>3. \A i \in 1 .. n - 1 : s[i] = t[i]
    BY <1>2, <1>6, <2>2
  <2>. QED BY <1>4, <2>2, <2>3, SeqEqual
<1>. QED BY <1>4, <1>5, <1>6 DEF s, t

\* Each list keeps to its own part of the zone.
LEMMA RingsApart ==
    ASSUME NEW m, NEW tag, NEW H, NEW c, Kind(tag, H), Rings(m, tag, H, c)
    PROVE  /\ \A h \in H : /\ c[h] \in Seq(Proc)
                           /\ Foot(h, tag, c[h]) \subseteq Zone(tag, H)
                           /\ Foot(h, tag, c[h]) \subseteq Address
                           /\ \A x \in Proc : x \notin Range(c[h]) => <<tag, x>> \notin Foot(h, tag, c[h])
           /\ \A h, g \in H : h # g => Foot(h, tag, c[h]) \cap Foot(g, tag, c[g]) = {}
<1>1. ASSUME NEW h \in H
      PROVE  /\ c[h] \in Seq(Proc)
             /\ Foot(h, tag, c[h]) = {h} \cup {<<tag, x>> : x \in Range(c[h])}
             /\ Range(c[h]) \subseteq Proc
  <2>. DEFINE q == c[h]
  <2>1. q \in Seq(Proc)
    BY DEF Rings
  <2>. HIDE DEF q
  <2>2. DOMAIN q = 1 .. Len(q) /\ \A i \in 1 .. Len(q) : q[i] \in Proc
    BY <2>1, LenProperties, ElementOfSeq
  <2>3. Foot(h, tag, q) = {h} \cup {<<tag, x>> : x \in Range(q)}
    BY DEF Foot, Range
  <2>4. Range(q) \subseteq Proc
    BY <2>2 DEF Range
  <2>. QED BY <2>1, <2>3, <2>4 DEF q
<1>2. ASSUME NEW h \in H
      PROVE  /\ Foot(h, tag, c[h]) \subseteq Zone(tag, H)
             /\ Foot(h, tag, c[h]) \subseteq Address
             /\ \A x \in Proc : x \notin Range(c[h]) => <<tag, x>> \notin Foot(h, tag, c[h])
  <2>. DEFINE q == c[h]
              F == Foot(h, tag, q)
  <2>1. F = {h} \cup {<<tag, x>> : x \in Range(q)} /\ Range(q) \subseteq Proc
    BY <1>1
  <2>. HIDE DEF q, F
  <2>2. h \in Address /\ \A x \in Proc : <<tag, x>> \in Address /\ <<tag, x>> # h
    BY DEF Kind
  <2>3. F \subseteq Zone(tag, H) /\ F \subseteq Address
    BY <2>1, <2>2 DEF Zone
  <2>4. \A x \in Proc : x \notin Range(q) => <<tag, x>> \notin F
    BY <2>1, <2>2
  <2>. QED BY <2>3, <2>4 DEF F, q
<1>3. ASSUME NEW h \in H, NEW g \in H, h # g
      PROVE  Foot(h, tag, c[h]) \cap Foot(g, tag, c[g]) = {}
  <2>. DEFINE q == Range(c[h])
              p == Range(c[g])
  <2>1. Foot(h, tag, c[h]) = {h} \cup {<<tag, x>> : x \in q} /\ q \subseteq Proc
    BY <1>1
  <2>2. Foot(g, tag, c[g]) = {g} \cup {<<tag, x>> : x \in p} /\ p \subseteq Proc
    BY <1>1
  <2>3. q \cap p = {}
    BY <1>3 DEF Rings
  <2>4. \A x \in Proc : <<tag, x>> # h /\ <<tag, x>> # g
    BY DEF Kind
  <2>. HIDE DEF q, p
  <2>. QED BY <1>3, <2>1, <2>2, <2>3, <2>4
<1>. QED BY <1>1, <1>2, <1>3

\* Changes outside the zone disturb none of them.
LEMMA RingsFrame ==
    ASSUME NEW m, NEW tag, NEW H, NEW c, Kind(tag, H), Rings(m, tag, H, c),
           NEW r \in Heap, Same(m, r, Zone(tag, H))
    PROVE  Rings(r, tag, H, c)
<1>1. ASSUME NEW h \in H PROVE Ring(r, h, tag, c[h])
  <2>. DEFINE q == c[h]
  <2>1. q \in Seq(Proc) /\ Foot(h, tag, q) \subseteq Zone(tag, H)
    BY RingsApart
  <2>2. Ring(m, h, tag, q)
    BY DEF Rings
  <2>3. \A a \in Foot(h, tag, q) : r[a] = m[a]
    BY <2>1 DEF Same
  <2>. HIDE DEF q
  <2>4. Ring(r, h, tag, q)
    BY <2>1, <2>2, <2>3, RingFrame
  <2>. QED BY <2>4 DEF q
<1>. QED BY <1>1 DEF Rings

\* One of the lists changes, and the structures X may join it.
LEMMA RingsChange ==
    ASSUME NEW m, NEW tag, NEW H, NEW c, Kind(tag, H), Rings(m, tag, H, c),
           NEW h \in H, NEW r \in Heap, NEW s \in Seq(Proc), NEW X \in SUBSET Proc,
           Ring(r, h, tag, s),
           \A g \in H \ {h} : Range(c[g]) \cap X = {},
           Range(s) \subseteq Range(c[h]) \cup X,
           \A a \in Address \ (Foot(h, tag, c[h]) \cup {<<tag, x>> : x \in X}) : r[a] = m[a]
    PROVE  /\ Rings(r, tag, H, [c EXCEPT ![h] = s])
           /\ Same(m, r, Address \ Zone(tag, H))
<1>. DEFINE d == [c EXCEPT ![h] = s]
            F == Foot(h, tag, c[h])
            new == {<<tag, x>> : x \in X}
<1>1. d \in [H -> Seq(Proc)] /\ d[h] = s /\ \A g \in H \ {h} : d[g] = c[g]
  BY DEF Rings
<1>. HIDE DEF d
<1>2. ASSUME NEW g \in H \ {h} PROVE Ring(r, g, tag, d[g])
  <2>. DEFINE q == c[g]
              G == Foot(g, tag, q)
  <2>1. q \in Seq(Proc) /\ G \subseteq Address /\ G \cap F = {}
    BY RingsApart
  <2>2. Ring(m, g, tag, q)
    BY DEF Rings
  <2>3. G \cap new = {}
    <3>1. \A x \in X : <<tag, x>> \notin G
      BY RingsApart
    <3>. HIDE DEF G
    <3>. QED BY <3>1
  <2>4. \A a \in Foot(g, tag, q) : r[a] = m[a]
    <3>1. \A a \in Address \ (F \cup new) : r[a] = m[a]
      OBVIOUS
    <3>. HIDE DEF F, new, q
    <3>. QED BY <2>1, <2>3, <3>1
  <2>. HIDE DEF q, G, F, new
  <2>5. Ring(r, g, tag, q)
    BY <2>1, <2>2, <2>4, RingFrame
  <2>. QED BY <1>1, <2>5 DEF q
<1>3. \A g \in H : Ring(r, g, tag, d[g])
  <2>. HIDE DEF F, new
  <2>. QED BY <1>1, <1>2
<1>4. ASSUME NEW g \in H, NEW f \in H, g # f PROVE Range(d[g]) \cap Range(d[f]) = {}
  <2>1. \A e \in H \ {h} : Range(s) \cap Range(d[e]) = {}
    <3>1. ASSUME NEW e \in H \ {h} PROVE Range(s) \cap Range(d[e]) = {}
      <4>1. d[e] = c[e] /\ Range(c[e]) \cap Range(c[h]) = {} /\ Range(c[e]) \cap X = {}
        BY <1>1 DEF Rings
      <4>. QED BY <4>1
    <3>. QED BY <3>1
  <2>2. CASE g = h
    BY <1>1, <1>4, <2>1, <2>2
  <2>3. CASE f = h
    BY <1>1, <1>4, <2>1, <2>3
  <2>4. CASE g # h /\ f # h
    <3>1. d[g] = c[g] /\ d[f] = c[f]
      BY <1>1, <2>4
    <3>. QED BY <1>4, <3>1 DEF Rings
  <2>. QED BY <2>2, <2>3, <2>4
<1>5. Rings(r, tag, H, d)
  BY <1>1, <1>3, <1>4 DEF Rings
<1>6. F \cup new \subseteq Zone(tag, H)
  <2>1. F \subseteq Zone(tag, H)
    BY RingsApart
  <2>. QED BY <2>1 DEF Zone
<1>7. Same(m, r, Address \ Zone(tag, H))
  BY <1>6 DEF Same
<1>. QED BY <1>5, <1>7 DEF d

\* Linking x into the list of h.
LEMMA RingsInsert ==
    ASSUME NEW m, NEW tag, NEW H, NEW c, Kind(tag, H), Rings(m, tag, H, c),
           NEW h \in H, NEW x \in Proc, \A g \in H : x \notin Range(c[g]),
           NEW k \in 1 .. Len(c[h]) + 1
    PROVE  LET r == list_add_between(m, <<tag, x>>, Link(h, tag, c[h], k - 1), Link(h, tag, c[h], k))
           IN  /\ Rings(r, tag, H, [c EXCEPT ![h] = Inserted(c[h], k, x)])
               /\ Same(m, r, Address \ Zone(tag, H))
<1>. DEFINE q == c[h]
            r == list_add_between(m, <<tag, x>>, Link(h, tag, q, k - 1), Link(h, tag, q, k))
            s == Inserted(q, k, x)
<1>1. /\ q \in Seq(Proc) /\ Foot(h, tag, q) \subseteq Address /\ x \notin Range(q)
      /\ k \in 1 .. Len(q) + 1 /\ Ring(m, h, tag, q) /\ m \in Heap
  <2>1. Foot(h, tag, c[h]) \subseteq Address /\ c[h] \in Seq(Proc)
    BY RingsApart
  <2>. QED BY <2>1 DEF Rings
<1>2. <<tag, x>> \in Address /\ <<tag, x>> # h
  BY DEF Kind
<1>3. /\ r \in Heap /\ Ring(r, h, tag, s)
      /\ \A a \in Address \ (Foot(h, tag, q) \cup {<<tag, x>>}) : r[a] = m[a]
  <2>. HIDE DEF q
  <2>. QED BY <1>1, <1>2, RingInsert, SMTT(30)
<1>4. s \in Seq(Proc) /\ Range(s) = Range(q) \cup {x}
  <2>. HIDE DEF q
  <2>. QED BY <1>1, InsertedRange
<1>. HIDE DEF r, s
<1>5. /\ Rings(r, tag, H, [c EXCEPT ![h] = s])
      /\ Same(m, r, Address \ Zone(tag, H))
  <2>1. Foot(h, tag, q) \cup {<<tag, y>> : y \in {x}} = Foot(h, tag, q) \cup {<<tag, x>>}
    OBVIOUS
  <2>2. \A a \in Address \ (Foot(h, tag, c[h]) \cup {<<tag, y>> : y \in {x}}) : r[a] = m[a]
    BY <1>3, <2>1
  <2>3. Range(s) \subseteq Range(c[h]) \cup {x} /\ \A g \in H \ {h} : Range(c[g]) \cap {x} = {}
    BY <1>4
  <2>4. {x} \in SUBSET Proc
    OBVIOUS
  <2>. QED BY <1>3, <1>4, <2>2, <2>3, <2>4, RingsChange
<1>. QED BY <1>5 DEF r, s

\* Unlinking the k-th of the list of h.
LEMMA RingsRemove ==
    ASSUME NEW m, NEW tag, NEW H, NEW c, Kind(tag, H), Rings(m, tag, H, c),
           NEW h \in H, NEW q, q = c[h], NEW k \in 1 .. Len(q),
           NEW r, r = list_del(m, <<tag, q[k]>>)
    PROVE  /\ Rings(r, tag, H, [c EXCEPT ![h] = Removed(q, k)])
           /\ Same(m, r, Address \ Zone(tag, H))
<1>. DEFINE s == Removed(q, k)
<1>1. /\ q \in Seq(Proc) /\ Foot(h, tag, q) \subseteq Address
      /\ Ring(m, h, tag, q) /\ m \in Heap
  <2>1. Foot(h, tag, c[h]) \subseteq Address /\ c[h] \in Seq(Proc)
    BY RingsApart
  <2>. QED BY <2>1 DEF Rings
<1>2. /\ r \in Heap /\ Ring(r, h, tag, s)
      /\ \A a \in Address \ Foot(h, tag, q) : r[a] = m[a]
  <2>1. k \in 1 .. Len(q) /\ r = list_del(m, <<tag, q[k]>>)
    OBVIOUS
  <2>. QED BY ONLY <1>1, <2>1, RingRemove, SMTT(30)
<1>3. s \in Seq(Proc) /\ Range(s) \subseteq Range(q)
  BY <1>1, RemovedRange
<1>. HIDE DEF s
<1>4. /\ Rings(r, tag, H, [c EXCEPT ![h] = s])
      /\ Same(m, r, Address \ Zone(tag, H))
  <2>. DEFINE X == {x \in Proc : FALSE}
  <2>0. \A x : x \notin X
    OBVIOUS
  <2>. HIDE DEF X
  <2>1. \A a \in Address \ (Foot(h, tag, c[h]) \cup {<<tag, y>> : y \in X}) : r[a] = m[a]
    BY <1>2, <2>0
  <2>2. Range(s) \subseteq Range(c[h]) \cup X /\ \A g \in H \ {h} : Range(c[g]) \cap X = {}
    BY <1>3, <2>0
  <2>3. X \in SUBSET Proc /\ Ring(r, h, tag, s) /\ r \in Heap /\ s \in Seq(Proc)
    BY <1>2, <1>3, <2>0
  <2>. QED BY <2>1, <2>2, <2>3, RingsChange
<1>. QED BY <1>4 DEF s

\* list_add.
LEMMA RingsPush ==
    ASSUME NEW m, NEW tag, NEW H, NEW c, Kind(tag, H), Rings(m, tag, H, c),
           NEW h \in H, NEW x \in Proc, \A g \in H : x \notin Range(c[g])
    PROVE  LET r == list_add(m, <<tag, x>>, h)
           IN  /\ Rings(r, tag, H, [c EXCEPT ![h] = <<x>> \o c[h]])
               /\ Same(m, r, Address \ Zone(tag, H))
<1>. DEFINE q == c[h]
            r == list_add(m, <<tag, x>>, h)
<1>1. q \in Seq(Proc) /\ Ring(m, h, tag, q)
  BY RingsApart DEF Rings
<1>2. 1 \in 1 .. Len(c[h]) + 1 /\ 1 - 1 = 0
  BY <1>1, LenProperties
<1>3. Link(h, tag, q, 0) = h /\ Link(h, tag, q, 1) = m[h].next
  <2>. HIDE DEF q
  <2>1. Link(h, tag, q, 0) = h /\ 0 \in 0 .. Len(q) /\ 0 + 1 = 1
    BY <1>1, LinkFacts
  <2>. QED BY <1>1, <2>1 DEF Ring
<1>4. r = list_add_between(m, <<tag, x>>, Link(h, tag, c[h], 1 - 1), Link(h, tag, c[h], 1))
  BY <1>2, <1>3 DEF list_add
<1>. HIDE DEF r
<1>5. /\ Rings(r, tag, H, [c EXCEPT ![h] = Inserted(c[h], 1, x)])
      /\ Same(m, r, Address \ Zone(tag, H))
  BY <1>2, <1>4, RingsInsert
<1>6. Inserted(q, 1, x) = <<x>> \o q
  <2>. HIDE DEF q
  <2>. QED BY <1>1, InsertedEnds
<1>. QED BY <1>5, <1>6 DEF r

\* list_del of the first.
LEMMA RingsPop ==
    ASSUME NEW m, NEW tag, NEW H, NEW c, Kind(tag, H), Rings(m, tag, H, c),
           NEW h \in H, c[h] # <<>>
    PROVE  LET r == list_del(m, m[h].next)
           IN  /\ m[h].next = <<tag, Head(c[h])>>
               /\ Rings(r, tag, H, [c EXCEPT ![h] = Tail(c[h])])
               /\ Same(m, r, Address \ Zone(tag, H))
<1>. DEFINE q == c[h]
            r == list_del(m, m[h].next)
<1>1. q \in Seq(Proc) /\ Ring(m, h, tag, q)
  BY RingsApart DEF Rings
<1>2. q = c[h] /\ q # <<>>
  OBVIOUS
<1>. HIDE DEF q
<1>3. 1 \in 1 .. Len(q) /\ Head(q) = q[1]
  BY <1>1, <1>2, LenProperties, EmptySeq
<1>4. m[h].next = <<tag, Head(q)>>
  BY <1>1, <1>2, RingEmpty
<1>5. r = list_del(m, <<tag, q[1]>>)
  BY <1>3, <1>4
<1>. HIDE DEF r
<1>6. /\ Rings(r, tag, H, [c EXCEPT ![h] = Removed(q, 1)])
      /\ Same(m, r, Address \ Zone(tag, H))
  BY <1>2, <1>3, <1>5, RingsRemove
<1>7. Removed(q, 1) = Tail(q)
  BY <1>1, <1>3, RemovedRange
<1>. QED BY <1>2, <1>4, <1>6, <1>7 DEF r

\* What the lists read as.
LEMMA RingsRead ==
    ASSUME NEW m, NEW tag, NEW H, NEW c, Kind(tag, H), Rings(m, tag, H, c), NEW h \in H
    PROVE  /\ on(m, h) = c[h] /\ Circular(m, h, MAXPROC)
           /\ c[h] \in Seq(Proc) /\ NoDuplicates(c[h])
           /\ list_empty(m, h) <=> c[h] = <<>>
           /\ c[h] # <<>> => m[h].next = <<tag, Head(c[h])>>
<1>. DEFINE q == c[h]
<1>1. q \in Seq(Proc) /\ Ring(m, h, tag, q)
  BY RingsApart DEF Rings
<1>. HIDE DEF q
<1>2. on(m, h) = q /\ Circular(m, h, MAXPROC)
  BY <1>1, RingReads
<1>3. /\ list_empty(m, h) <=> q = <<>>
      /\ q # <<>> => m[h].next = <<tag, Head(q)>>
  BY <1>1, RingEmpty
<1>. QED BY <1>1, <1>2, <1>3 DEF q, Ring

-----------------------------------------------------------------------------
(* The queue operations of pcb.c, on lists of one kind                     *)

\* insertProcQ.
LEMMA InsertProcQPtr ==
    ASSUME NEW m, NEW H, NEW c, Kind("p_next", H), Rings(m, "p_next", H, c),
           NEW h \in H, NEW p \in Proc, \A g \in H : p \notin Range(c[g]), NEW prio
    PROVE  LET r == insertProcQ_ptr(m, h, p, prio)
           IN  /\ Rings(r, "p_next", H, [c EXCEPT ![h] = insertProcQ(c[h], p, prio)])
               /\ Same(m, r, Address \ Zone("p_next", H))
<1>. DEFINE q == c[h]
            Lower == {i \in 1 .. Len(q) : prio[p] > prio[q[i]]}
            link(i) == Link(h, "p_next", q, i)
            r == insertProcQ_ptr(m, h, p, prio)
            s == insertProcQ(q, p, prio)
            linked(k) == list_add_between(m, p_next(p), link(k - 1), link(k))
<1>1. on(m, h) = q /\ q \in Seq(Proc) /\ Ring(m, h, "p_next", q)
  <2>1. on(m, h) = q /\ q \in Seq(Proc)
    BY RingsRead
  <2>. QED BY <2>1 DEF Rings
<1>2. ASSUME NEW k \in 1 .. Len(q) + 1
      PROVE  /\ Rings(linked(k), "p_next", H, [c EXCEPT ![h] = Inserted(q, k, p)])
             /\ Same(m, linked(k), Address \ Zone("p_next", H))
  BY RingsInsert DEF p_next
<1>. HIDE DEF q
<1>3. /\ Len(q) \in Nat /\ DOMAIN q = 1 .. Len(q)
      /\ link(0) = h /\ link(Len(q) + 1) = h
      /\ \A i \in 1 .. Len(q) : link(i) = p_next(q[i])
      /\ \A i \in 0 .. Len(q) : m[link(i + 1)].prev = link(i)
  <2>1. /\ Len(q) \in Nat /\ DOMAIN q = 1 .. Len(q)
        /\ link(0) = h /\ link(Len(q) + 1) = h
        /\ \A i \in 1 .. Len(q) : link(i) = <<"p_next", q[i]>>
    BY <1>1, LinkFacts
  <2>2. \A i \in 0 .. Len(q) : m[link(i + 1)].prev = link(i)
    BY <1>1 DEF Ring
  <2>. QED BY <2>1, <2>2 DEF p_next
<1>4. CASE Lower = {}
  <2>1. r = list_add_tail(m, p_next(p), h) /\ s = Append(q, p)
    BY <1>1, <1>4 DEF insertProcQ_ptr, insertProcQ, SelectInSeq
  <2>2. Len(q) + 1 \in 1 .. Len(q) + 1 /\ Len(q) \in 0 .. Len(q) /\ (Len(q) + 1) - 1 = Len(q)
    BY <1>3
  <2>3. r = linked(Len(q) + 1)
    BY <1>3, <2>1, <2>2 DEF list_add_tail
  <2>4. s = Inserted(q, Len(q) + 1, p)
    BY <1>1, <2>1, InsertedEnds
  <2>. QED BY <1>2, <2>2, <2>3, <2>4 DEF q
<1>5. CASE Lower # {}
  <2>. DEFINE at == Min(Lower)
  <2>1. at \in Lower /\ at \in 1 .. Len(q) /\ at \in Nat /\ at # 0
    <3>1. Lower \in SUBSET Nat
      OBVIOUS
    <3>2. at \in Lower
      BY <1>5, <3>1, LeastExists
    <3>. QED BY <3>2
  <2>2. /\ r = list_add_between(m, p_next(p), m[p_next(q[at])].prev, p_next(q[at]))
        /\ s = InsertAt(q, at, p)
    BY <1>1, <1>5, <2>1 DEF insertProcQ_ptr, insertProcQ, SelectInSeq
  <2>. HIDE DEF at
  <2>3. at \in 1 .. Len(q) + 1 /\ at - 1 \in 0 .. Len(q) /\ (at - 1) + 1 = at
    BY <1>3, <2>1
  <2>4. r = linked(at)
    BY <1>3, <2>1, <2>2, <2>3
  <2>5. s = Inserted(q, at, p)
    BY <1>1, <2>1, <2>2, InsertAtProperties
  <2>. QED BY <1>2, <2>3, <2>4, <2>5 DEF q
<1>. QED BY <1>4, <1>5

\* removeProcQ.
LEMMA RemoveProcQPtr ==
    ASSUME NEW m, NEW H, NEW c, Kind("p_next", H), Rings(m, "p_next", H, c), NEW h \in H
    PROVE  LET r == removeProcQ_ptr(m, h)
           IN  /\ Rings(r, "p_next", H,
                        [c EXCEPT ![h] = IF c[h] = <<>> THEN <<>> ELSE Tail(c[h])])
               /\ Same(m, r, Address \ Zone("p_next", H))
<1>1. CASE c[h] = <<>>
  <2>1. removeProcQ_ptr(m, h) = m
    BY <1>1, RingsRead DEF removeProcQ_ptr
  <2>2. [c EXCEPT ![h] = <<>>] = c
    BY <1>1 DEF Rings
  <2>. QED BY <1>1, <2>1, <2>2 DEF Same
<1>2. CASE c[h] # <<>>
  <2>1. removeProcQ_ptr(m, h) = list_del(m, m[h].next)
    BY <1>2, RingsRead DEF removeProcQ_ptr
  <2>2. /\ Rings(list_del(m, m[h].next), "p_next", H, [c EXCEPT ![h] = Tail(c[h])])
        /\ Same(m, list_del(m, m[h].next), Address \ Zone("p_next", H))
    BY <1>2, RingsPop
  <2>. QED BY <1>2, <2>1, <2>2
<1>. QED BY <1>1, <1>2

\* outProcQ.
LEMMA OutProcQPtr ==
    ASSUME NEW m, NEW H, NEW c, Kind("p_next", H), Rings(m, "p_next", H, c),
           NEW h \in H, NEW p
    PROVE  LET r == outProcQ_ptr(m, h, p)
           IN  /\ Rings(r, "p_next", H, [c EXCEPT ![h] = outProcQ(c[h], p)])
               /\ Same(m, r, Address \ Zone("p_next", H))
<1>. DEFINE q == c[h]
            r == outProcQ_ptr(m, h, p)
<1>1. on(m, h) = q /\ q \in Seq(Proc)
  BY RingsRead
<1>2. q = c[h]
  OBVIOUS
<1>. HIDE DEF q
<1>3. CASE p \in Range(q)
  <2>1. PICK k \in 1 .. Len(q) : q[k] = p /\ outProcQ(q, p) = Removed(q, k)
    BY <1>1, <1>3, OutPosition
  <2>2. r = list_del(m, <<"p_next", q[k]>>)
    BY <1>1, <1>3, <2>1 DEF outProcQ_ptr, p_next
  <2>. HIDE DEF r
  <2>3. /\ Rings(r, "p_next", H, [c EXCEPT ![h] = Removed(q, k)])
        /\ Same(m, r, Address \ Zone("p_next", H))
    BY <1>2, <2>2, RingsRemove
  <2>. QED BY <1>2, <2>1, <2>3 DEF r
<1>4. CASE p \notin Range(q)
  <2>1. r = m /\ outProcQ(q, p) = q
    BY <1>1, <1>4, OutAbsent DEF outProcQ_ptr
  <2>2. [c EXCEPT ![h] = q] = c
    BY <1>2 DEF Rings
  <2>. QED BY <1>2, <2>1, <2>2 DEF Same
<1>. QED BY <1>3, <1>4

\* Writing the link of a structure that is on no list.
LEMMA RingsLoose ==
    ASSUME NEW m, NEW tag, NEW H, NEW c, Kind(tag, H), Rings(m, tag, H, c),
           NEW x \in Proc, \A g \in H : x \notin Range(c[g]),
           NEW r \in Heap, \A a \in Address \ {<<tag, x>>} : r[a] = m[a]
    PROVE  Rings(r, tag, H, c) /\ Same(m, r, Address \ Zone(tag, H))
<1>1. ASSUME NEW h \in H PROVE Ring(r, h, tag, c[h])
  <2>. DEFINE q == c[h]
  <2>1. q \in Seq(Proc) /\ Ring(m, h, tag, q)
    BY RingsApart DEF Rings
  <2>2. Foot(h, tag, q) \subseteq Address /\ <<tag, x>> \notin Foot(h, tag, q)
    BY RingsApart
  <2>. HIDE DEF q
  <2>3. \A a \in Foot(h, tag, q) : r[a] = m[a]
    BY <2>2
  <2>4. Ring(r, h, tag, q)
    BY <2>1, <2>3, RingFrame
  <2>. QED BY <2>4 DEF q
<1>2. Rings(r, tag, H, c)
  BY <1>1 DEF Rings
<1>3. Same(m, r, Address \ Zone(tag, H))
  BY DEF Same, Zone
<1>. QED BY <1>2, <1>3

-----------------------------------------------------------------------------
(* The lists of the kernel                                                 *)

PcbHeads  == {pcbFree_h, ready_h} \cup {procQ(i) : i \in Semd}
SemdHeads == {semdFree_h, asl_h}

PcbZone  == Zone("p_next", PcbHeads)
SemdZone == Zone("s_next", SemdHeads)
TreeZone == {child_of(p) : p \in Proc} \cup {p_sib(p) : p \in Proc}

\* PCB lists, descriptor lists and the tree use different list_heads.
LEMMA Kinds == /\ Kind("p_next", PcbHeads) /\ Kind("s_next", SemdHeads)
               /\ PcbZone \cap SemdZone = {} /\ PcbZone \cap TreeZone = {}
               /\ SemdZone \cap TreeZone = {}
               /\ PcbZone \subseteq Address /\ SemdZone \subseteq Address /\ TreeZone \subseteq Address
<1>. USE DEF pcbFree_h, ready_h, semdFree_h, asl_h, p_next, child_of, p_sib, s_next, procQ
<1>0. Semd = Proc
  BY FewEnough
<1>1. /\ \A x \in Proc : <<"p_next", x>> \in Address \ PcbHeads
      /\ \A x \in Proc : <<"s_next", x>> \in Address \ SemdHeads
  BY <1>0 DEF Address, PcbHeads, SemdHeads
<1>2. PcbHeads \subseteq Address /\ SemdHeads \subseteq Address /\ TreeZone \subseteq Address
  BY DEF Address, PcbHeads, SemdHeads, TreeZone
<1>3. /\ PcbZone = PcbHeads \cup {<<"p_next", x>> : x \in Proc}
      /\ SemdZone = SemdHeads \cup {<<"s_next", x>> : x \in Proc}
  BY DEF PcbZone, SemdZone, Zone
<1>4. \A a \in PcbZone : a[1] \in {"pcbFree_h", "ready_queue", "s_procQ", "p_next"}
  BY <1>3 DEF PcbHeads
<1>5. \A a \in SemdZone : a[1] \in {"semdFree_h", "semd_h", "s_next"}
  BY <1>3 DEF SemdHeads
<1>6. \A a \in TreeZone : a[1] \in {"p_child", "p_sib"}
  BY DEF TreeZone
<1>7. PcbZone \cap SemdZone = {} /\ PcbZone \cap TreeZone = {} /\ SemdZone \cap TreeZone = {}
  BY <1>4, <1>5, <1>6
<1>. QED BY <1>1, <1>2, <1>3, <1>7 DEF Kind

\* What the sentinels of PCB lists hold: the free list, the ready queue, and
\* the queue of each descriptor.
Contents(free, ready, waiting) ==
    [h \in PcbHeads |-> IF h = pcbFree_h THEN free
                        ELSE IF h = ready_h THEN ready
                        ELSE waiting[Owner(h)]]
Queues(m, free, ready, waiting) == Rings(m, "p_next", PcbHeads, Contents(free, ready, waiting))

\* p is on none of them.
Unlinked(p, free, ready, waiting) ==
    /\ p \in Proc /\ p \notin Range(free) /\ p \notin Range(ready)
    /\ \A i \in Semd : p \notin Range(waiting[i])

\* What each sentinel holds.
LEMMA ContentsAt ==
    ASSUME NEW f, NEW r, NEW w
    PROVE  /\ Contents(f, r, w)[pcbFree_h] = f /\ Contents(f, r, w)[ready_h] = r
           /\ \A i \in Semd : Contents(f, r, w)[procQ(i)] = w[i]
           /\ pcbFree_h \in PcbHeads /\ ready_h \in PcbHeads /\ \A i \in Semd : procQ(i) \in PcbHeads
           /\ \A h \in PcbHeads : h = pcbFree_h \/ h = ready_h \/ \E i \in Semd : h = procQ(i)
<1>1. \A i \in Semd : procQ(i) # pcbFree_h /\ procQ(i) # ready_h /\ Owner(procQ(i)) = i
  BY DEF procQ, pcbFree_h, ready_h, Owner
<1>2. pcbFree_h # ready_h
  BY DEF pcbFree_h, ready_h
<1>. QED BY <1>1, <1>2 DEF Contents, PcbHeads

\* One list holds something else.
Put(c, h, x) == [c EXCEPT ![h] = x]

\* The free list or the ready queue changes.
LEMMA ContentsChange ==
    ASSUME NEW f, NEW r, NEW w, NEW x
    PROVE  /\ Put(Contents(f, r, w), pcbFree_h, x) = Contents(x, r, w)
           /\ Put(Contents(f, r, w), ready_h, x) = Contents(f, x, w)
<1>1. pcbFree_h # ready_h
  BY DEF pcbFree_h, ready_h
<1>2. [Contents(f, r, w) EXCEPT ![pcbFree_h] = x] = Contents(x, r, w)
  BY <1>1 DEF Contents
<1>3. [Contents(f, r, w) EXCEPT ![ready_h] = x] = Contents(f, x, w)
  BY <1>1 DEF Contents
<1>. QED BY <1>2, <1>3 DEF Put

\* The queue of one descriptor changes.
LEMMA WaitingChange ==
    ASSUME NEW f, NEW r, NEW w, DOMAIN w = Semd, NEW x, NEW i \in Semd
    PROVE  Put(Contents(f, r, w), procQ(i), x) = Contents(f, r, Put(w, i, x))
<1>1. \A j \in Semd : procQ(j) # pcbFree_h /\ procQ(j) # ready_h /\ Owner(procQ(j)) = j
                      /\ (procQ(j) = procQ(i) => j = i)
  BY DEF procQ, pcbFree_h, ready_h, Owner
<1>2. pcbFree_h # ready_h
  BY DEF pcbFree_h, ready_h
<1>5. [Contents(f, r, w) EXCEPT ![procQ(i)] = x] = Contents(f, r, [w EXCEPT ![i] = x])
  <2>. DEFINE v == [w EXCEPT ![i] = x]
  <2>1. v[i] = x /\ \A j \in Semd \ {i} : v[j] = w[j]
    OBVIOUS
  <2>. HIDE DEF v
  <2>2. ASSUME NEW h \in PcbHeads
        PROVE  (IF h = procQ(i) THEN x ELSE Contents(f, r, w)[h]) = Contents(f, r, v)[h]
    <3>1. CASE h = pcbFree_h \/ h = ready_h
      BY <1>1, <3>1 DEF Contents
    <3>2. CASE \E j \in Semd : h = procQ(j)
      <4>1. PICK j \in Semd : h = procQ(j)
        BY <3>2
      <4>2. CASE j = i
        BY <1>1, <2>1, <4>1, <4>2 DEF Contents
      <4>3. CASE j # i
        BY <1>1, <2>1, <4>1, <4>3 DEF Contents
      <4>. QED BY <4>2, <4>3
    <3>. QED BY <3>1, <3>2 DEF PcbHeads
  <2>3. DOMAIN Contents(f, r, w) = PcbHeads /\ Contents(f, r, v) = [h \in PcbHeads |-> Contents(f, r, v)[h]]
    BY DEF Contents
  <2>4. [Contents(f, r, w) EXCEPT ![procQ(i)] = x]
          = [h \in PcbHeads |-> IF h = procQ(i) THEN x ELSE Contents(f, r, w)[h]]
    BY <2>3
  <2>. QED BY <2>2, <2>3, <2>4 DEF v
<1>. QED BY <1>5 DEF Put

\* What the lists read as, and that they share nothing.
LEMMA QueuesRead ==
    ASSUME NEW m, NEW f, NEW r, NEW w, Queues(m, f, r, w)
    PROVE  /\ m \in Heap
           /\ f \in Seq(Proc) /\ r \in Seq(Proc) /\ NoDuplicates(f) /\ NoDuplicates(r)
           /\ on(m, pcbFree_h) = f /\ Circular(m, pcbFree_h, MAXPROC)
           /\ list_empty(m, pcbFree_h) <=> f = <<>>
           /\ f # <<>> => m[pcbFree_h].next = p_next(Head(f))
           /\ on(m, ready_h) = r /\ Circular(m, ready_h, MAXPROC)
           /\ \A i \in Semd : /\ on(m, procQ(i)) = w[i] /\ Circular(m, procQ(i), MAXPROC)
                              /\ w[i] \in Seq(Proc)
                              /\ list_empty(m, procQ(i)) <=> w[i] = <<>>
                              /\ Ring(m, procQ(i), "p_next", w[i])
<1>. DEFINE c == Contents(f, r, w)
            H == PcbHeads
<1>1. Kind("p_next", H) /\ Rings(m, "p_next", H, c) /\ m \in Heap
  BY Kinds DEF Queues, Rings
<1>. HIDE DEF c, H
<1>2. ASSUME NEW h \in H
      PROVE  /\ on(m, h) = c[h] /\ Circular(m, h, MAXPROC)
             /\ c[h] \in Seq(Proc) /\ NoDuplicates(c[h])
             /\ list_empty(m, h) <=> c[h] = <<>>
             /\ c[h] # <<>> => m[h].next = <<"p_next", Head(c[h])>>
             /\ Ring(m, h, "p_next", c[h])
  <2>1. Ring(m, h, "p_next", c[h])
    BY <1>1 DEF Rings
  <2>. QED BY <1>1, <2>1, RingsRead
<1>3. c[pcbFree_h] = f /\ pcbFree_h \in H /\ c[ready_h] = r /\ ready_h \in H
  BY ContentsAt DEF c, H
<1>4. \A i \in Semd : c[procQ(i)] = w[i] /\ procQ(i) \in H
  BY ContentsAt DEF c, H
<1>5. /\ f \in Seq(Proc) /\ r \in Seq(Proc) /\ NoDuplicates(f) /\ NoDuplicates(r)
      /\ on(m, pcbFree_h) = f /\ Circular(m, pcbFree_h, MAXPROC)
      /\ list_empty(m, pcbFree_h) <=> f = <<>>
      /\ f # <<>> => m[pcbFree_h].next = p_next(Head(f))
      /\ on(m, ready_h) = r /\ Circular(m, ready_h, MAXPROC)
  BY <1>2, <1>3 DEF p_next
<1>6. ASSUME NEW i \in Semd
      PROVE  /\ on(m, procQ(i)) = w[i] /\ Circular(m, procQ(i), MAXPROC)
             /\ w[i] \in Seq(Proc)
             /\ list_empty(m, procQ(i)) <=> w[i] = <<>>
             /\ Ring(m, procQ(i), "p_next", w[i])
  <2>1. c[procQ(i)] = w[i] /\ procQ(i) \in H
    BY <1>4
  <2>2. /\ on(m, procQ(i)) = c[procQ(i)] /\ Circular(m, procQ(i), MAXPROC)
        /\ c[procQ(i)] \in Seq(Proc)
        /\ list_empty(m, procQ(i)) <=> c[procQ(i)] = <<>>
        /\ Ring(m, procQ(i), "p_next", c[procQ(i)])
    BY <1>2, <2>1
  <2>. QED BY <2>1, <2>2
<1>. QED BY <1>1, <1>5, <1>6

\* An unlinked PCB is on the list of no sentinel.
LEMMA UnlinkedNowhere ==
    ASSUME NEW p, NEW f, NEW r, NEW w, Unlinked(p, f, r, w)
    PROVE  p \in Proc /\ \A h \in PcbHeads : p \notin Range(Contents(f, r, w)[h])
<1>1. ASSUME NEW h \in PcbHeads PROVE p \notin Range(Contents(f, r, w)[h])
  <2>1. CASE h = pcbFree_h
    BY <2>1, ContentsAt DEF Unlinked
  <2>2. CASE h = ready_h
    BY <2>2, ContentsAt DEF Unlinked
  <2>3. CASE \E i \in Semd : h = procQ(i)
    <3>1. PICK i \in Semd : h = procQ(i)
      BY <2>3
    <3>2. Contents(f, r, w)[h] = w[i]
      BY <3>1, ContentsAt
    <3>. QED BY <3>2 DEF Unlinked
  <2>. QED BY <2>1, <2>2, <2>3 DEF PcbHeads
<1>. QED BY <1>1 DEF Unlinked

\* r differs from m in PCB lists only.
PcbOnly(m, r) == Same(m, r, Address \ PcbZone)

\* The ready queue.
LEMMA ReadyInsert ==
    ASSUME NEW m, NEW f, NEW r, NEW w, DOMAIN w = Semd, Queues(m, f, r, w),
           NEW p, Unlinked(p, f, r, w), NEW prio
    PROVE  /\ Queues(insertProcQ_ptr(m, ready_h, p, prio), f, insertProcQ(r, p, prio), w)
           /\ PcbOnly(m, insertProcQ_ptr(m, ready_h, p, prio))
<1>. DEFINE c == Contents(f, r, w)
            H == PcbHeads
            s == insertProcQ(r, p, prio)
            t == insertProcQ_ptr(m, ready_h, p, prio)
<1>1. /\ Kind("p_next", H) /\ Rings(m, "p_next", H, c) /\ ready_h \in H /\ c[ready_h] = r
      /\ p \in Proc /\ \A h \in H : p \notin Range(c[h])
  BY Kinds, ContentsAt, UnlinkedNowhere DEF Queues
<1>2. Put(c, ready_h, s) = Contents(f, s, w)
  <2>. HIDE DEF s
  <2>. QED BY ContentsChange
<1>. HIDE DEF c, H
<1>3. /\ Rings(t, "p_next", H, [c EXCEPT ![ready_h] = insertProcQ(c[ready_h], p, prio)])
      /\ Same(m, t, Address \ Zone("p_next", H))
  BY <1>1, InsertProcQPtr
<1>. QED BY <1>1, <1>2, <1>3 DEF Queues, PcbOnly, PcbZone, H, Put

\* removeProcQ on the ready queue.
LEMMA ReadyRemove ==
    ASSUME NEW m, NEW f, NEW r, NEW w, DOMAIN w = Semd, Queues(m, f, r, w)
    PROVE  /\ Queues(removeProcQ_ptr(m, ready_h), f, IF r = <<>> THEN <<>> ELSE Tail(r), w)
           /\ PcbOnly(m, removeProcQ_ptr(m, ready_h))
<1>. DEFINE c == Contents(f, r, w)
            H == PcbHeads
            s == IF r = <<>> THEN <<>> ELSE Tail(r)
            t == removeProcQ_ptr(m, ready_h)
<1>1. Kind("p_next", H) /\ Rings(m, "p_next", H, c) /\ ready_h \in H /\ c[ready_h] = r
  BY Kinds, ContentsAt DEF Queues
<1>2. Put(c, ready_h, s) = Contents(f, s, w)
  <2>. HIDE DEF s
  <2>. QED BY ContentsChange
<1>. HIDE DEF c, H
<1>3. /\ Rings(t, "p_next", H,
               [c EXCEPT ![ready_h] = IF c[ready_h] = <<>> THEN <<>> ELSE Tail(c[ready_h])])
      /\ Same(m, t, Address \ Zone("p_next", H))
  BY <1>1, RemoveProcQPtr
<1>. QED BY <1>1, <1>2, <1>3 DEF Queues, PcbOnly, PcbZone, H, Put

\* outProcQ on the ready queue.
LEMMA ReadyOut ==
    ASSUME NEW m, NEW f, NEW r, NEW w, DOMAIN w = Semd, Queues(m, f, r, w), NEW p
    PROVE  /\ Queues(outProcQ_ptr(m, ready_h, p), f, outProcQ(r, p), w)
           /\ PcbOnly(m, outProcQ_ptr(m, ready_h, p))
<1>. DEFINE c == Contents(f, r, w)
            H == PcbHeads
            s == outProcQ(r, p)
            t == outProcQ_ptr(m, ready_h, p)
<1>1. Kind("p_next", H) /\ Rings(m, "p_next", H, c) /\ ready_h \in H /\ c[ready_h] = r
  BY Kinds, ContentsAt DEF Queues
<1>2. Put(c, ready_h, s) = Contents(f, s, w)
  <2>. HIDE DEF s
  <2>. QED BY ContentsChange
<1>. HIDE DEF c, H
<1>3. /\ Rings(t, "p_next", H, [c EXCEPT ![ready_h] = outProcQ(c[ready_h], p)])
      /\ Same(m, t, Address \ Zone("p_next", H))
  BY <1>1, OutProcQPtr
<1>. QED BY <1>1, <1>2, <1>3 DEF Queues, PcbOnly, PcbZone, H, Put

\* The queue of a descriptor.
LEMMA SemaphoreInsert ==
    ASSUME NEW m, NEW f, NEW r, NEW w, DOMAIN w = Semd, Queues(m, f, r, w),
           NEW p, Unlinked(p, f, r, w), NEW prio, NEW i \in Semd
    PROVE  /\ Queues(insertProcQ_ptr(m, procQ(i), p, prio), f, r,
                     Put(w, i, insertProcQ(w[i], p, prio)))
           /\ PcbOnly(m, insertProcQ_ptr(m, procQ(i), p, prio))
<1>. DEFINE c == Contents(f, r, w)
            H == PcbHeads
            s == insertProcQ(w[i], p, prio)
            h == procQ(i)
            t == insertProcQ_ptr(m, h, p, prio)
<1>1. /\ Kind("p_next", H) /\ Rings(m, "p_next", H, c) /\ h \in H /\ c[h] = w[i]
      /\ p \in Proc /\ \A g \in H : p \notin Range(c[g])
  BY Kinds, ContentsAt, UnlinkedNowhere DEF Queues
<1>2. Put(c, h, s) = Contents(f, r, Put(w, i, s))
  <2>. HIDE DEF s
  <2>. QED BY WaitingChange
<1>. HIDE DEF c, H, h
<1>3. /\ Rings(t, "p_next", H, [c EXCEPT ![h] = insertProcQ(c[h], p, prio)])
      /\ Same(m, t, Address \ Zone("p_next", H))
  BY <1>1, InsertProcQPtr
<1>. QED BY <1>1, <1>2, <1>3 DEF Queues, PcbOnly, PcbZone, H, Put, h

\* removeProcQ on the queue of a descriptor.
LEMMA SemaphoreRemove ==
    ASSUME NEW m, NEW f, NEW r, NEW w, DOMAIN w = Semd, Queues(m, f, r, w), NEW i \in Semd
    PROVE  /\ Queues(removeProcQ_ptr(m, procQ(i)), f, r,
                     Put(w, i, IF w[i] = <<>> THEN <<>> ELSE Tail(w[i])))
           /\ PcbOnly(m, removeProcQ_ptr(m, procQ(i)))
<1>. DEFINE c == Contents(f, r, w)
            H == PcbHeads
            s == IF w[i] = <<>> THEN <<>> ELSE Tail(w[i])
            h == procQ(i)
            t == removeProcQ_ptr(m, h)
<1>1. Kind("p_next", H) /\ Rings(m, "p_next", H, c) /\ h \in H /\ c[h] = w[i]
  BY Kinds, ContentsAt DEF Queues
<1>2. Put(c, h, s) = Contents(f, r, Put(w, i, s))
  <2>. HIDE DEF s
  <2>. QED BY WaitingChange
<1>. HIDE DEF c, H, h
<1>3. /\ Rings(t, "p_next", H, [c EXCEPT ![h] = IF c[h] = <<>> THEN <<>> ELSE Tail(c[h])])
      /\ Same(m, t, Address \ Zone("p_next", H))
  BY <1>1, RemoveProcQPtr
<1>. QED BY <1>1, <1>2, <1>3 DEF Queues, PcbOnly, PcbZone, H, Put, h

\* outProcQ on the queue of a descriptor.
LEMMA SemaphoreOut ==
    ASSUME NEW m, NEW f, NEW r, NEW w, DOMAIN w = Semd, Queues(m, f, r, w), NEW i \in Semd, NEW p
    PROVE  /\ Queues(outProcQ_ptr(m, procQ(i), p), f, r, Put(w, i, outProcQ(w[i], p)))
           /\ PcbOnly(m, outProcQ_ptr(m, procQ(i), p))
<1>. DEFINE c == Contents(f, r, w)
            H == PcbHeads
            s == outProcQ(w[i], p)
            h == procQ(i)
            t == outProcQ_ptr(m, h, p)
<1>1. Kind("p_next", H) /\ Rings(m, "p_next", H, c) /\ h \in H /\ c[h] = w[i]
  BY Kinds, ContentsAt DEF Queues
<1>2. Put(c, h, s) = Contents(f, r, Put(w, i, s))
  <2>. HIDE DEF s
  <2>. QED BY WaitingChange
<1>. HIDE DEF c, H, h
<1>3. /\ Rings(t, "p_next", H, [c EXCEPT ![h] = outProcQ(c[h], p)])
      /\ Same(m, t, Address \ Zone("p_next", H))
  BY <1>1, OutProcQPtr
<1>. QED BY <1>1, <1>2, <1>3 DEF Queues, PcbOnly, PcbZone, H, Put, h

\* The free list.
LEMMA FreePcbPtr ==
    ASSUME NEW m, NEW f, NEW r, NEW w, DOMAIN w = Semd, Queues(m, f, r, w),
           NEW p, Unlinked(p, f, r, w)
    PROVE  /\ Queues(freePcb_ptr(m, p), <<p>> \o f, r, w)
           /\ PcbOnly(m, freePcb_ptr(m, p))
<1>. DEFINE c == Contents(f, r, w)
            H == PcbHeads
            s == <<p>> \o f
            t == freePcb_ptr(m, p)
<1>1. /\ Kind("p_next", H) /\ Rings(m, "p_next", H, c) /\ pcbFree_h \in H /\ c[pcbFree_h] = f
      /\ p \in Proc /\ \A h \in H : p \notin Range(c[h])
  BY Kinds, ContentsAt, UnlinkedNowhere DEF Queues
<1>2. Put(c, pcbFree_h, s) = Contents(s, r, w)
  <2>. HIDE DEF s
  <2>. QED BY ContentsChange
<1>. HIDE DEF c, H
<1>3. t = list_add(m, <<"p_next", p>>, pcbFree_h)
  BY DEF freePcb_ptr, p_next
<1>. HIDE DEF t
<1>4. /\ Rings(t, "p_next", H, [c EXCEPT ![pcbFree_h] = <<p>> \o c[pcbFree_h]])
      /\ Same(m, t, Address \ Zone("p_next", H))
  BY <1>1, <1>3, RingsPush
<1>. QED BY <1>1, <1>2, <1>4 DEF Queues, PcbOnly, PcbZone, H, Put, t

\* The ASL and the free descriptors.
SemdContents(active, free) == [h \in SemdHeads |-> IF h = asl_h THEN active ELSE free]
Semds(m, active, free) == Rings(m, "s_next", SemdHeads, SemdContents(active, free))

\* r differs from m in descriptor lists only.
SemdOnly(m, r) == Same(m, r, Address \ SemdZone)

\* What asl_h and semdFree_h hold, and a change of either.
LEMMA SemdContentsAt ==
    ASSUME NEW a, NEW f, NEW x
    PROVE  /\ SemdContents(a, f)[asl_h] = a /\ SemdContents(a, f)[semdFree_h] = f
           /\ asl_h \in SemdHeads /\ semdFree_h \in SemdHeads /\ asl_h # semdFree_h
           /\ Put(SemdContents(a, f), asl_h, x) = SemdContents(x, f)
           /\ Put(SemdContents(a, f), semdFree_h, x) = SemdContents(a, x)
<1>1. asl_h # semdFree_h
  BY DEF asl_h, semdFree_h
<1>. QED BY <1>1 DEF SemdContents, SemdHeads, Put

\* What the two lists of descriptors read as.
LEMMA SemdsRead ==
    ASSUME NEW m, NEW a, NEW f, Semds(m, a, f)
    PROVE  /\ m \in Heap
           /\ a \in Seq(Proc) /\ f \in Seq(Proc) /\ NoDuplicates(a) /\ NoDuplicates(f)
           /\ Range(a) \cap Range(f) = {}
           /\ on(m, asl_h) = a /\ Circular(m, asl_h, MAXPROC)
           /\ on(m, semdFree_h) = f /\ Circular(m, semdFree_h, MAXPROC)
           /\ list_empty(m, semdFree_h) <=> f = <<>>
           /\ f # <<>> => m[semdFree_h].next = s_next(Head(f))
<1>. DEFINE c == SemdContents(a, f)
            H == SemdHeads
<1>1. Kind("s_next", H) /\ Rings(m, "s_next", H, c) /\ m \in Heap
  BY Kinds DEF Semds, Rings
<1>2. /\ c[asl_h] = a /\ c[semdFree_h] = f
      /\ asl_h \in H /\ semdFree_h \in H /\ asl_h # semdFree_h
  BY SemdContentsAt
<1>. HIDE DEF c, H
<1>3. Range(a) \cap Range(f) = {}
  BY <1>1, <1>2 DEF Rings
<1>4. /\ a \in Seq(Proc) /\ NoDuplicates(a)
      /\ on(m, asl_h) = a /\ Circular(m, asl_h, MAXPROC)
  BY <1>1, <1>2, RingsRead
<1>5. /\ f \in Seq(Proc) /\ NoDuplicates(f)
      /\ on(m, semdFree_h) = f /\ Circular(m, semdFree_h, MAXPROC)
      /\ list_empty(m, semdFree_h) <=> f = <<>>
      /\ f # <<>> => m[semdFree_h].next = <<"s_next", Head(f)>>
  BY <1>1, <1>2, RingsRead
<1>. QED BY <1>1, <1>3, <1>4, <1>5 DEF s_next

\* A change to other lists.
LEMMA OtherLists ==
    ASSUME NEW m, NEW t \in Heap
    PROVE  /\ \A a, f : Semds(m, a, f) /\ Same(m, t, SemdZone) => Semds(t, a, f)
           /\ \A f, r, w : Queues(m, f, r, w) /\ Same(m, t, PcbZone) => Queues(t, f, r, w)
<1>1. ASSUME NEW a, NEW f, Semds(m, a, f), Same(m, t, SemdZone) PROVE Semds(t, a, f)
  <2>. DEFINE c == SemdContents(a, f)
              H == SemdHeads
  <2>1. Kind("s_next", H) /\ Rings(m, "s_next", H, c) /\ Same(m, t, Zone("s_next", H))
    BY <1>1, Kinds DEF Semds, SemdZone
  <2>. HIDE DEF c, H
  <2>2. Rings(t, "s_next", H, c)
    BY <2>1, RingsFrame
  <2>. QED BY <2>2 DEF Semds, c, H
<1>2. ASSUME NEW f, NEW r, NEW w, Queues(m, f, r, w), Same(m, t, PcbZone) PROVE Queues(t, f, r, w)
  <2>. DEFINE c == Contents(f, r, w)
              H == PcbHeads
  <2>1. Kind("p_next", H) /\ Rings(m, "p_next", H, c) /\ Same(m, t, Zone("p_next", H))
    BY <1>2, Kinds DEF Queues, PcbZone
  <2>. HIDE DEF c, H
  <2>2. Rings(t, "p_next", H, c)
    BY <2>1, RingsFrame
  <2>. QED BY <2>2 DEF Queues, c, H
<1>. QED BY <1>1, <1>2

\* The first free descriptor moves to the front of the ASL.  Its queue is
\* empty already, so its initialization changes nothing.
LEMMA RetrieveFreeSemd ==
    ASSUME NEW m, NEW a, NEW f, Semds(m, a, f), f # <<>>,
           NEW free, NEW r, NEW w, Queues(m, free, r, w), w[Head(f)] = <<>>
    PROVE  /\ free_semd(m) = Head(f) /\ Head(f) \in Semd
           /\ Semds(retrieve_free_semd(m), <<Head(f)>> \o a, Tail(f))
           /\ SemdOnly(m, retrieve_free_semd(m))
<1>. DEFINE i == Head(f)
            c == SemdContents(a, f)
            H == SemdHeads
            c1 == SemdContents(a, Tail(f))
            m1 == list_del(m, m[semdFree_h].next)
            m2 == list_add(m1, m[semdFree_h].next, asl_h)
            m3 == INIT_LIST_HEAD(m2, procQ(i))
<1>1. f \in Seq(Proc) /\ NoDuplicates(f) /\ m[semdFree_h].next = s_next(i)
      /\ Range(a) \cap Range(f) = {}
  BY SemdsRead
<1>2. i \in Semd /\ i \in Range(f) /\ i \notin Range(Tail(f))
  BY <1>1, FirstAndRest, FewEnough
<1>3. Owner(m[semdFree_h].next) = i
  BY <1>1 DEF Owner, s_next
<1>4. /\ Kind("s_next", H) /\ Rings(m, "s_next", H, c)
      /\ c[semdFree_h] = f /\ semdFree_h \in H /\ c[semdFree_h] # <<>>
  <2>1. c[semdFree_h] = f /\ semdFree_h \in H
    BY SemdContentsAt
  <2>2. Kind("s_next", H) /\ Rings(m, "s_next", H, c)
    BY Kinds DEF Semds
  <2>. HIDE DEF c, H
  <2>. QED BY <2>1, <2>2
<1>5. Put(c, semdFree_h, Tail(f)) = c1
  BY SemdContentsAt
<1>6. Rings(m1, "s_next", H, c1) /\ Same(m, m1, Address \ Zone("s_next", H))
  <2>. HIDE DEF H, c, c1
  <2>1. /\ Rings(m1, "s_next", H, [c EXCEPT ![semdFree_h] = Tail(c[semdFree_h])])
        /\ Same(m, m1, Address \ Zone("s_next", H))
    BY <1>4, RingsPop
  <2>. QED BY <1>4, <1>5, <2>1 DEF Put
<1>7. /\ asl_h \in H /\ c1[asl_h] = a /\ i \in Proc
      /\ \A h \in H : i \notin Range(c1[h])
  <2>1. c1[asl_h] = a /\ c1[semdFree_h] = Tail(f) /\ asl_h \in H
    BY SemdContentsAt
  <2>2. i \notin Range(a)
    BY <1>1, <1>2
  <2>. HIDE DEF c1
  <2>. QED BY <1>2, <2>1, <2>2, FewEnough DEF SemdHeads
<1>8. Put(c1, asl_h, <<i>> \o a) = SemdContents(<<i>> \o a, Tail(f))
  <2>. DEFINE x == <<i>> \o a
  <2>. HIDE DEF x
  <2>. QED BY SemdContentsAt
<1>9. m2 = list_add(m1, <<"s_next", i>>, asl_h)
  BY <1>1 DEF s_next
<1>. HIDE DEF m1, m2
<1>10. Rings(m2, "s_next", H, SemdContents(<<i>> \o a, Tail(f))) /\ Same(m1, m2, Address \ Zone("s_next", H))
  <2>. HIDE DEF H, c1, i
  <2>1. /\ Rings(m2, "s_next", H, [c1 EXCEPT ![asl_h] = <<i>> \o c1[asl_h]])
        /\ Same(m1, m2, Address \ Zone("s_next", H))
    BY <1>4, <1>6, <1>7, <1>9, RingsPush
  <2>. QED BY <1>7, <1>8, <2>1 DEF Put
<1>11. Semds(m2, <<i>> \o a, Tail(f)) /\ SemdOnly(m, m2)
  BY <1>6, <1>10 DEF Semds, SemdOnly, SemdZone, Same
<1>12. m3 = m2
  <2>1. m2 \in Heap /\ Same(m, m2, PcbZone)
    BY <1>11, Kinds DEF Semds, Rings, SemdOnly, Same
  <2>2. Queues(m2, free, r, w)
    BY <2>1, OtherLists
  <2>3. Ring(m2, procQ(i), "p_next", <<>>)
    BY <1>2, <2>2, QueuesRead
  <2>4. m2[procQ(i)].next = procQ(i) /\ m2[procQ(i)].prev = procQ(i)
    BY <2>3 DEF Ring, Link
  <2>5. procQ(i) \in Address
    BY <1>2 DEF Address
  <2>6. m2[procQ(i)] = [next |-> procQ(i), prev |-> procQ(i)]
    <3>1. m2[procQ(i)] \in [next : Pointer, prev : Pointer]
      BY <2>1, <2>5 DEF Heap
    <3>. QED BY <2>4, <3>1
  <2>7. [m2 EXCEPT ![procQ(i)] = m2[procQ(i)]] = m2
    BY <2>1 DEF Heap
  <2>. QED BY <2>6, <2>7 DEF INIT_LIST_HEAD
<1>13. retrieve_free_semd(m) = m3 /\ free_semd(m) = i
  BY <1>3 DEF retrieve_free_semd, free_semd, m1, m2
<1>. HIDE DEF m3
<1>. QED BY <1>2, <1>11, <1>12, <1>13

\* A descriptor moves from the ASL to the front of the free ones.
LEMMA FreeSemdPtr ==
    ASSUME NEW m, NEW a, NEW f, Semds(m, a, f), NEW i, i \in Range(a)
    PROVE  LET r == list_add(list_del(m, s_next(i)), s_next(i), semdFree_h)
           IN  Semds(r, outProcQ(a, i), <<i>> \o f) /\ SemdOnly(m, r)
<1>. DEFINE c == SemdContents(a, f)
            H == SemdHeads
            b == outProcQ(a, i)
            c1 == SemdContents(b, f)
            m1 == list_del(m, s_next(i))
            m2 == list_add(m1, s_next(i), semdFree_h)
<1>1. a \in Seq(Proc) /\ NoDuplicates(a) /\ Range(a) \cap Range(f) = {}
  BY SemdsRead
<1>2. i \in Proc /\ Range(b) = Range(a) \ {i}
  <2>1. \A j \in DOMAIN a : a[j] \in Proc
    BY <1>1, ElementOfSeq
  <2>2. i \in Proc
    BY <2>1 DEF Range
  <2>. QED BY <1>1, <2>2, OutProcQSet
<1>3. Kind("s_next", H) /\ Rings(m, "s_next", H, c) /\ asl_h \in H /\ a = c[asl_h]
  BY Kinds, SemdContentsAt DEF Semds
<1>4. PICK k \in 1 .. Len(a) : a[k] = i /\ b = Removed(a, k)
  BY <1>1, OutPosition
<1>. HIDE DEF b
<1>5. Put(c, asl_h, b) = c1
  BY SemdContentsAt
<1>6. m1 = list_del(m, <<"s_next", a[k]>>)
  BY <1>4 DEF s_next
<1>7. Rings(m1, "s_next", H, c1) /\ Same(m, m1, Address \ Zone("s_next", H))
  <2>. HIDE DEF H, c, c1, m1
  <2>1. /\ Rings(m1, "s_next", H, [c EXCEPT ![asl_h] = Removed(a, k)])
        /\ Same(m, m1, Address \ Zone("s_next", H))
    BY <1>3, <1>6, RingsRemove
  <2>. QED BY <1>4, <1>5, <2>1 DEF Put
<1>8. /\ semdFree_h \in H /\ c1[semdFree_h] = f
      /\ \A h \in H : i \notin Range(c1[h])
  <2>1. c1[asl_h] = b /\ c1[semdFree_h] = f /\ semdFree_h \in H
    BY SemdContentsAt
  <2>2. i \notin Range(b) /\ i \notin Range(f)
    BY <1>1, <1>2
  <2>. HIDE DEF c1
  <2>. QED BY <2>1, <2>2 DEF SemdHeads
<1>9. Put(c1, semdFree_h, <<i>> \o f) = SemdContents(b, <<i>> \o f)
  <2>. DEFINE x == <<i>> \o f
  <2>. HIDE DEF x
  <2>. QED BY SemdContentsAt
<1>10. m2 = list_add(m1, <<"s_next", i>>, semdFree_h)
  BY DEF s_next
<1>. HIDE DEF m1, m2
<1>11. Rings(m2, "s_next", H, SemdContents(b, <<i>> \o f)) /\ Same(m1, m2, Address \ Zone("s_next", H))
  <2>. HIDE DEF H, c1
  <2>1. /\ Rings(m2, "s_next", H, [c1 EXCEPT ![semdFree_h] = <<i>> \o c1[semdFree_h]])
        /\ Same(m1, m2, Address \ Zone("s_next", H))
    BY <1>2, <1>3, <1>7, <1>8, <1>10, RingsPush
  <2>. QED BY <1>8, <1>9, <2>1 DEF Put
<1>12. Semds(m2, b, <<i>> \o f) /\ SemdOnly(m, m2)
  BY <1>7, <1>11 DEF Semds, SemdOnly, SemdZone, Same
<1>. QED BY <1>12 DEF b, m2, m1

\* getSemd finds the descriptor that has the key.
LEMMA GetSemd ==
    ASSUME NEW m, NEW a, NEW f, Semds(m, a, f), NEW k
    PROVE  /\ getSemd(m, k) = NULL <=> \A i \in Range(a) : s_key[i] # k
           /\ getSemd(m, k) # NULL => /\ getSemd(m, k) \in Range(a) /\ getSemd(m, k) \in Semd
                                      /\ s_key[getSemd(m, k)] = k
<1>. DEFINE Matching == {j \in 1 .. Len(a) : s_key[a[j]] = k}
<1>1. on(m, asl_h) = a /\ a \in Seq(Proc)
  BY SemdsRead
<1>2. DOMAIN a = 1 .. Len(a) /\ Len(a) \in Nat /\ \A j \in 1 .. Len(a) : a[j] \in Proc /\ a[j] # NULL
  BY <1>1, LenProperties, ElementOfSeq, ProcFacts
<1>3. CASE Matching = {}
  <2>1. getSemd(m, k) = NULL
    BY <1>1, <1>3 DEF getSemd, SelectInSeq
  <2>2. \A i \in Range(a) : s_key[i] # k
    BY <1>2, <1>3 DEF Range
  <2>. QED BY <2>1, <2>2
<1>4. CASE Matching # {}
  <2>. DEFINE at == Min(Matching)
  <2>1. at \in Matching
    <3>1. Matching \in SUBSET Nat
      OBVIOUS
    <3>. QED BY <1>4, <3>1, LeastExists
  <2>2. at \in 1 .. Len(a) /\ at # 0 /\ s_key[a[at]] = k
    BY <2>1
  <2>3. getSemd(m, k) = a[at]
    BY <1>1, <1>4, <2>2 DEF getSemd, SelectInSeq
  <2>. HIDE DEF at
  <2>4. a[at] \in Range(a) /\ a[at] # NULL /\ a[at] \in Semd
    BY <1>2, <2>2, FewEnough DEF Range
  <2>. QED BY <2>2, <2>3, <2>4
<1>. QED BY <1>3, <1>4

-----------------------------------------------------------------------------
(* The semaphore descriptors with their queues                             *)

\* What the queue of each descriptor holds: that of its key.
Waiting(active, key, queue) ==
    [i \in Semd |-> IF i \in Range(active) THEN queue[key[i]] ELSE <<>>]

\* The descriptors are shared out between the ASL and the free ones; those on
\* the ASL stand for the keys, each for another; all queues hold what they should.
Lists(m, key, active, free, pcbs, ready, keys, queue) ==
    /\ Semds(m, active, free)
    /\ Range(active) \cup Range(free) = Semd
    /\ DOMAIN key = Semd
    /\ \A i, j \in Range(active) : key[i] = key[j] => i = j
    /\ keys = {key[i] : i \in Range(active)}
    /\ keys \subseteq DOMAIN queue
    /\ Queues(m, pcbs, ready, Waiting(active, key, queue))

\* r differs from m in PCB and descriptor lists only.
ListsOnly(m, r) == Same(m, r, TreeZone)

\* Changes to lists of one kind leave the others and the tree alone.
LEMMA ListsOnlyFacts ==
    /\ \A m, r : PcbOnly(m, r) => ListsOnly(m, r) /\ Same(m, r, SemdZone)
    /\ \A m, r : SemdOnly(m, r) => ListsOnly(m, r) /\ Same(m, r, PcbZone)
    /\ \A m, r, t : ListsOnly(m, r) /\ ListsOnly(r, t) => ListsOnly(m, t)
    /\ \A m, r, t : PcbOnly(m, r) /\ PcbOnly(r, t) => PcbOnly(m, t)
<1>1. /\ TreeZone \subseteq Address \ PcbZone /\ TreeZone \subseteq Address \ SemdZone
      /\ SemdZone \subseteq Address \ PcbZone /\ PcbZone \subseteq Address \ SemdZone
  BY Kinds
<1>. QED BY <1>1 DEF PcbOnly, SemdOnly, ListsOnly, Same

\* A key changes its queue.
LEMMA WaitingPut ==
    ASSUME NEW a, NEW key, NEW queue,
           \A i, j \in Range(a) : key[i] = key[j] => i = j,
           \A j \in Range(a) : key[j] \in DOMAIN queue,
           NEW i, i \in Range(a), i \in Semd, NEW x
    PROVE  Put(Waiting(a, key, queue), i, x) = Waiting(a, key, Put(queue, key[i], x))
<1>. DEFINE k == key[i]
            s == [queue EXCEPT ![k] = x]
            w == Waiting(a, key, queue)
<1>1. k \in DOMAIN queue
  OBVIOUS
<1>2. s[k] = x /\ \A l \in DOMAIN queue \ {k} : s[l] = queue[l]
  BY <1>1
<1>. HIDE DEF s
<1>3. ASSUME NEW j \in Semd
      PROVE  (IF j = i THEN x ELSE w[j]) = IF j \in Range(a) THEN s[key[j]] ELSE <<>>
  <2>1. CASE j = i
    BY <1>2, <2>1
  <2>2. CASE j # i /\ j \in Range(a)
    <3>1. key[j] \in DOMAIN queue \ {k}
      BY <2>2
    <3>. QED BY <1>2, <2>2, <3>1 DEF Waiting
  <2>3. CASE j # i /\ j \notin Range(a)
    BY <2>3 DEF Waiting
  <2>. QED BY <2>1, <2>2, <2>3
<1>4. Put(w, i, x) = [j \in Semd |-> IF j = i THEN x ELSE w[j]]
  BY DEF Put, Waiting
<1>5. Put(w, i, x) = [j \in Semd |-> IF j \in Range(a) THEN s[key[j]] ELSE <<>>]
  <2>. HIDE DEF w
  <2>. QED BY <1>3, <1>4
<1>. QED BY <1>5 DEF Waiting, s, Put

\* insertBlocked, and the removal from the ready queue after it.
LEMMA InsertBlockedPtr ==
    ASSUME NEW a, NEW f, NEW pcbs, NEW ready, NEW keys, NEW queue,
           Lists(mem, s_key, a, f, pcbs, ready, keys, queue),
           NEW k, k \in DOMAIN queue,
           NEW p, Unlinked(p, pcbs, ready, Waiting(a, s_key, queue)),
           k \notin keys => Cardinality(keys) < MAXPROC,
           insertBlocked_ptr(mem, k, p)
    PROVE  /\ ListsOnly(mem, mem')
           /\ \E b, g :
                 Lists(mem', s_key', b, g, pcbs, IF ready = <<>> THEN <<>> ELSE Tail(ready),
                       keys \cup {k},
                       Put(queue, k, insertProcQ(IF k \in keys THEN queue[k] ELSE <<>>, p, priority)))
<1>. DEFINE w == Waiting(a, s_key, queue)
            rest == IF ready = <<>> THEN <<>> ELSE Tail(ready)
<1>1. /\ Semds(mem, a, f) /\ Range(a) \cup Range(f) = Semd /\ DOMAIN s_key = Semd
      /\ \A i, j \in Range(a) : s_key[i] = s_key[j] => i = j
      /\ keys = {s_key[i] : i \in Range(a)} /\ keys \subseteq DOMAIN queue
      /\ Queues(mem, pcbs, ready, w) /\ DOMAIN w = Semd
      /\ Unlinked(p, pcbs, ready, w)
  BY DEF Lists, Waiting
<1>2. /\ getSemd(mem, k) = NULL <=> k \notin keys
      /\ getSemd(mem, k) # NULL => /\ getSemd(mem, k) \in Range(a) /\ getSemd(mem, k) \in Semd
                                   /\ s_key[getSemd(mem, k)] = k
  <2>1. /\ getSemd(mem, k) = NULL <=> \A i \in Range(a) : s_key[i] # k
        /\ getSemd(mem, k) # NULL => /\ getSemd(mem, k) \in Range(a) /\ getSemd(mem, k) \in Semd
                                     /\ s_key[getSemd(mem, k)] = k
    BY <1>1, GetSemd
  <2>. QED BY <1>1, <2>1
<1>. HIDE DEF rest
<1>3. CASE k \in keys
  <2>. DEFINE i == getSemd(mem, k)
              s == insertProcQ(queue[k], p, priority)
              m1 == insertProcQ_ptr(mem, procQ(i), p, priority)
              m2 == removeProcQ_ptr(m1, ready_h)
  <2>1. i \in Range(a) /\ i \in Semd /\ s_key[i] = k
    BY <1>2, <1>3
  <2>2. w[i] = queue[k]
    BY <2>1 DEF Waiting
  <2>3. mem' = m2 /\ s_key' = s_key
    BY <1>2, <1>3 DEF insertBlocked_ptr
  <2>. HIDE DEF i, w
  <2>4. Queues(m1, pcbs, ready, Put(w, i, s)) /\ PcbOnly(mem, m1)
    BY <1>1, <2>1, <2>2, SemaphoreInsert
  <2>. HIDE DEF m1
  <2>5. DOMAIN Put(w, i, s) = Semd
    BY <1>1 DEF Put
  <2>6. Queues(m2, pcbs, rest, Put(w, i, s)) /\ PcbOnly(m1, m2)
    BY <2>4, <2>5, ReadyRemove DEF rest
  <2>7. PcbOnly(mem, m2)
    BY <2>4, <2>6, ListsOnlyFacts
  <2>8. m2 \in Heap
    BY <2>6, QueuesRead
  <2>9. Semds(m2, a, f)
    BY <1>1, <2>7, <2>8, OtherLists, ListsOnlyFacts
  <2>. HIDE DEF s, m2
  <2>10. Put(w, i, s) = Waiting(a, s_key, Put(queue, k, s))
    <3>1. \A j \in Range(a) : s_key[j] \in DOMAIN queue
      BY <1>1
    <3>2. Put(Waiting(a, s_key, queue), i, s) = Waiting(a, s_key, Put(queue, s_key[i], s))
      BY <1>1, <2>1, <3>1, WaitingPut
    <3>. QED BY <2>1, <3>2 DEF w
  <2>11. keys \cup {k} = keys /\ DOMAIN Put(queue, k, s) = DOMAIN queue
    BY <1>3 DEF Put
  <2>12. Lists(m2, s_key, a, f, pcbs, rest, keys \cup {k}, Put(queue, k, s))
    BY <1>1, <2>6, <2>9, <2>10, <2>11 DEF Lists
  <2>13. ListsOnly(mem, m2)
    BY <2>7, ListsOnlyFacts
  <2>. QED BY <1>3, <2>3, <2>12, <2>13 DEF rest, s
<1>4. CASE k \notin keys
  <2>. DEFINE i == Head(f)
              s == insertProcQ(<<>>, p, priority)
              m0 == retrieve_free_semd(mem)
              m1 == insertProcQ_ptr(m0, procQ(i), p, priority)
              m2 == removeProcQ_ptr(m1, ready_h)
              key == [s_key EXCEPT ![i] = k]
              b == <<i>> \o a
  <2>0. /\ a \in Seq(Proc) /\ f \in Seq(Proc) /\ Range(a) \cap Range(f) = {}
        /\ list_empty(mem, semdFree_h) <=> f = <<>>
    BY <1>1, SemdsRead
  <2>1. f # <<>>
    <3>. SUFFICES ASSUME f = <<>> PROVE FALSE
      OBVIOUS
    <3>1. Range(a) = Semd
      <4>1. Range(<<>>) = {}
        BY DEF Range
      <4>. QED BY <1>1, <4>1
    <3>2. IsFiniteSet(Semd) /\ Cardinality(Semd) = MAXPROC
      BY FewEnough
    <3>. DEFINE g == [j \in Semd |-> s_key[j]]
    <3>3. g \in Bijection(Semd, keys)
      BY <1>1, <3>1 DEF Bijection, Injection, Surjection, IsInjective
    <3>4. Cardinality(Semd) = Cardinality(keys)
      <4>1. ExistsBijection(Semd, keys)
        BY <3>3 DEF ExistsBijection
      <4>. QED BY <3>2, <4>1, FS_Bijection
    <3>. QED BY <1>4, <3>2, <3>4, MaxProcAssumption
  <2>2. i \in Range(f) /\ i \in Semd /\ i \notin Range(a) /\ f = <<i>> \o Tail(f)
        /\ Range(f) = {i} \cup Range(Tail(f)) /\ i \in Proc
    <3>1. i \in Proc /\ Range(f) = {i} \cup Range(Tail(f))
      BY <2>0, <2>1, FirstAndRest
    <3>2. f = <<i>> \o Tail(f)
      BY <2>0, <2>1
    <3>. QED BY <2>0, <3>1, <3>2, FewEnough
  <2>3. w[i] = <<>>
    BY <2>2 DEF Waiting
  <2>4. mem' = m2 /\ s_key' = key
    <3>1. free_semd(mem) = i
      BY <1>1, <2>1, <2>3, RetrieveFreeSemd
    <3>. QED BY <1>2, <1>4, <2>0, <2>1, <3>1 DEF insertBlocked_ptr
  <2>5. Semds(m0, b, Tail(f)) /\ SemdOnly(mem, m0)
    BY <1>1, <2>1, <2>3, RetrieveFreeSemd
  <2>. HIDE DEF m0, i, w
  <2>6. Queues(m0, pcbs, ready, w)
    <3>1. m0 \in Heap
      BY <2>5, SemdsRead
    <3>. QED BY <1>1, <2>5, <3>1, OtherLists, ListsOnlyFacts
  <2>7. Queues(m1, pcbs, ready, Put(w, i, s)) /\ PcbOnly(m0, m1)
    BY <1>1, <2>2, <2>3, <2>6, SemaphoreInsert
  <2>. HIDE DEF m1
  <2>8. DOMAIN Put(w, i, s) = Semd
    BY <1>1 DEF Put
  <2>9. Queues(m2, pcbs, rest, Put(w, i, s)) /\ PcbOnly(m1, m2)
    BY <2>7, <2>8, ReadyRemove DEF rest
  <2>10. PcbOnly(m0, m2) /\ m2 \in Heap
    BY <2>7, <2>9, ListsOnlyFacts, QueuesRead
  <2>11. Semds(m2, b, Tail(f))
    BY <2>5, <2>10, OtherLists, ListsOnlyFacts
  <2>. HIDE DEF s, m2
  <2>12. Range(b) = Range(a) \cup {i}
    BY <2>0, <2>2, PushProperties
  <2>. HIDE DEF b
  <2>13. key[i] = k /\ (\A j \in Range(a) : key[j] = s_key[j]) /\ DOMAIN key = Semd
    BY <1>1, <2>2
  <2>. HIDE DEF key
  <2>14. Put(w, i, s) = Waiting(b, key, Put(queue, k, s))
    <3>. DEFINE v == Put(queue, k, s)
    <3>1. v[k] = s /\ \A l \in DOMAIN queue \ {k} : v[l] = queue[l]
      BY DEF Put
    <3>. HIDE DEF v
    <3>2. ASSUME NEW j \in Semd
          PROVE  (IF j = i THEN s ELSE w[j]) = IF j \in Range(b) THEN v[key[j]] ELSE <<>>
      <4>1. CASE j = i
        BY <2>12, <2>13, <3>1, <4>1
      <4>2. CASE j # i /\ j \in Range(a)
        <5>1. s_key[j] \in DOMAIN queue \ {k}
          BY <1>1, <1>4, <4>2
        <5>. QED BY <2>12, <2>13, <3>1, <4>2, <5>1 DEF w, Waiting
      <4>3. CASE j # i /\ j \notin Range(a)
        BY <2>12, <4>3 DEF w, Waiting
      <4>. QED BY <4>1, <4>2, <4>3
    <3>3. Put(w, i, s) = [j \in Semd |-> IF j = i THEN s ELSE w[j]]
      BY <1>1 DEF Put
    <3>. QED BY <3>2, <3>3 DEF Waiting, v
  <2>15. /\ Range(b) \cup Range(Tail(f)) = Semd
         /\ \A j, l \in Range(b) : key[j] = key[l] => j = l
         /\ keys \cup {k} = {key[j] : j \in Range(b)}
         /\ keys \cup {k} \subseteq DOMAIN Put(queue, k, s)
    <3>1. Range(b) \cup Range(Tail(f)) = Semd
      BY <1>1, <2>2, <2>12
    <3>2. \A j \in Range(a) : key[j] \in keys /\ key[j] # k
      BY <1>1, <1>4, <2>13
    <3>3. \A j, l \in Range(b) : key[j] = key[l] => j = l
      BY <1>1, <2>12, <2>13, <3>2
    <3>4. keys \cup {k} = {key[j] : j \in Range(b)}
      BY <1>1, <2>12, <2>13
    <3>5. keys \cup {k} \subseteq DOMAIN Put(queue, k, s)
      BY <1>1 DEF Put
    <3>. QED BY <3>1, <3>3, <3>4, <3>5
  <2>16. Lists(m2, key, b, Tail(f), pcbs, rest, keys \cup {k}, Put(queue, k, s))
    BY <2>9, <2>11, <2>13, <2>14, <2>15 DEF Lists
  <2>17. ListsOnly(mem, m2)
    BY <2>5, <2>10, ListsOnlyFacts
  <2>. QED BY <1>4, <2>4, <2>16, <2>17 DEF rest, s
<1>. QED BY <1>3, <1>4

\* removeProcQ takes what outProcQ would take first.
LEMMA OutHead ==
    ASSUME NEW q \in Seq(Proc), q # <<>>, NoDuplicates(q)
    PROVE  outProcQ(q, Head(q)) = Tail(q)
<1>1. 1 \in DOMAIN q /\ Head(q) = q[1] /\ DOMAIN q = 1 .. Len(q)
  BY LenProperties, EmptySeq
<1>2. Head(q) \in Range(q)
  BY <1>1 DEF Range
<1>3. PICK k \in 1 .. Len(q) : q[k] = Head(q) /\ outProcQ(q, Head(q)) = Removed(q, k)
  BY <1>2, OutPosition
<1>4. k = 1
  BY <1>1, <1>3 DEF NoDuplicates
<1>. QED BY <1>3, <1>4, RemovedRange

\* The end of removeBlocked and of outBlocked: a descriptor whose queue has
\* become empty is freed.
LEMMA FreeSemdIfEmpty ==
    ASSUME NEW m, NEW key, NEW a, NEW f, NEW pcbs, NEW ready, NEW keys, NEW queue,
           Lists(m, key, a, f, pcbs, ready, keys, queue),
           NEW i, i \in Range(a), NEW rest, NEW t, PcbOnly(m, t),
           Queues(t, pcbs, ready, Put(Waiting(a, key, queue), i, rest))
    PROVE  LET r == freeSemdIfEmpty(t, i)
           IN  /\ ListsOnly(m, r)
               /\ \E b, g :
                     Lists(r, key, b, g, pcbs, ready,
                           IF rest = <<>> THEN keys \ {key[i]} ELSE keys,
                           Put(queue, key[i], rest))
<1>. DEFINE k == key[i]
            w == Waiting(a, key, queue)
            v == Put(w, i, rest)
            next == Put(queue, k, rest)
            r == freeSemdIfEmpty(t, i)
<1>1. /\ Semds(m, a, f) /\ Range(a) \cup Range(f) = Semd /\ DOMAIN key = Semd
      /\ \A j, l \in Range(a) : key[j] = key[l] => j = l
      /\ keys = {key[j] : j \in Range(a)} /\ keys \subseteq DOMAIN queue
      /\ DOMAIN w = Semd /\ i \in Semd
  BY DEF Lists, Waiting
<1>2. v = Waiting(a, key, next) /\ DOMAIN next = DOMAIN queue
  <2>1. \A j \in Range(a) : key[j] \in DOMAIN queue
    BY <1>1
  <2>2. v = Waiting(a, key, next)
    BY <1>1, <2>1, WaitingPut
  <2>. QED BY <2>2 DEF Put
<1>3. v[i] = rest /\ \A j \in Semd \ {i} : v[j] = w[j]
  BY <1>1 DEF Put
<1>4. next[k] = rest /\ \A l \in DOMAIN queue \ {k} : next[l] = queue[l]
  BY <1>1 DEF Put
<1>. HIDE DEF v, next, w
<1>5. Queues(t, pcbs, ready, v) /\ t \in Heap
  BY QueuesRead DEF v, w
<1>6. Semds(t, a, f) /\ ListsOnly(m, t)
  BY <1>1, <1>5, OtherLists, ListsOnlyFacts
<1>7. list_empty(t, procQ(i)) <=> rest = <<>>
  BY <1>1, <1>3, <1>5, QueuesRead
<1>8. CASE rest # <<>>
  <2>1. r = t
    BY <1>7, <1>8 DEF freeSemdIfEmpty
  <2>2. Lists(t, key, a, f, pcbs, ready, keys, next)
    BY <1>1, <1>2, <1>5, <1>6 DEF Lists
  <2>. QED BY <1>6, <1>8, <2>1, <2>2 DEF next
<1>9. CASE rest = <<>>
  <2>. DEFINE b == outProcQ(a, i)
              g == <<i>> \o f
  <2>1. r = list_add(list_del(t, s_next(i)), s_next(i), semdFree_h)
    BY <1>7, <1>9 DEF freeSemdIfEmpty
  <2>. HIDE DEF r
  <2>2. Semds(r, b, g) /\ SemdOnly(t, r)
    BY <1>6, <2>1, FreeSemdPtr
  <2>3. /\ a \in Seq(Proc) /\ NoDuplicates(a) /\ f \in Seq(Proc) /\ i \in Proc
        /\ r \in Heap
    BY <1>1, <2>2, SemdsRead, FewEnough
  <2>4. Range(b) = Range(a) \ {i}
    BY <2>3, OutProcQSet
  <2>5. Range(g) = Range(f) \cup {i}
    BY <2>3, PushProperties
  <2>. HIDE DEF b, g
  <2>6. Queues(r, pcbs, ready, v)
    BY <1>5, <2>2, <2>3, OtherLists, ListsOnlyFacts
  <2>7. v = Waiting(b, key, next)
    <3>1. ASSUME NEW j \in Semd
          PROVE  (IF j \in Range(a) THEN next[key[j]] ELSE <<>>)
                   = IF j \in Range(b) THEN next[key[j]] ELSE <<>>
      <4>1. CASE j = i
        BY <1>4, <1>9, <2>4, <4>1
      <4>2. CASE j # i
        BY <2>4, <4>2
      <4>. QED BY <4>1, <4>2
    <3>. QED BY <1>2, <3>1 DEF Waiting
  <2>8. /\ Range(b) \cup Range(g) = Semd
        /\ \A j, l \in Range(b) : key[j] = key[l] => j = l
        /\ keys \ {k} = {key[j] : j \in Range(b)}
        /\ keys \ {k} \subseteq DOMAIN next
    BY <1>1, <1>2, <2>4, <2>5
  <2>9. Lists(r, key, b, g, pcbs, ready, keys \ {k}, next)
    BY <1>1, <2>2, <2>6, <2>7, <2>8 DEF Lists
  <2>10. ListsOnly(m, r)
    BY <1>6, <2>2, ListsOnlyFacts
  <2>. QED BY <1>9, <2>9, <2>10 DEF next, r
<1>. QED BY <1>8, <1>9

\* outBlocked.
LEMMA OutBlockedPtr ==
    ASSUME NEW m, NEW a, NEW f, NEW pcbs, NEW ready, NEW keys, NEW queue,
           Lists(m, s_key, a, f, pcbs, ready, keys, queue),
           NEW p, NEW k, k = p_semkey[p], k \in keys
    PROVE  LET rest == outProcQ(queue[k], p)
           IN  /\ ListsOnly(m, outBlocked(m, p))
               /\ \E b, g :
                     Lists(outBlocked(m, p), s_key, b, g, pcbs, ready,
                           IF rest = <<>> THEN keys \ {k} ELSE keys, Put(queue, k, rest))
<1>. DEFINE w == Waiting(a, s_key, queue)
            i == getSemd(m, k)
            t == outProcQ_ptr(m, procQ(i), p)
            rest == outProcQ(queue[k], p)
<1>1. /\ Semds(m, a, f) /\ keys = {s_key[j] : j \in Range(a)}
      /\ DOMAIN w = Semd /\ Queues(m, pcbs, ready, w)
  BY DEF Lists, Waiting
<1>2. i # NULL /\ i \in Range(a) /\ i \in Semd /\ s_key[i] = k
  BY <1>1, GetSemd
<1>3. w[i] = queue[k]
  BY <1>2 DEF Waiting
<1>4. outBlocked(m, p) = freeSemdIfEmpty(t, i)
  BY <1>2 DEF outBlocked
<1>. HIDE DEF w, i
<1>5. Queues(t, pcbs, ready, Put(w, i, rest)) /\ PcbOnly(m, t)
  BY <1>1, <1>2, <1>3, SemaphoreOut
<1>. HIDE DEF t, rest
<1>6. /\ ListsOnly(m, freeSemdIfEmpty(t, i))
      /\ \E b, g :
            Lists(freeSemdIfEmpty(t, i), s_key, b, g, pcbs, ready,
                  IF rest = <<>> THEN keys \ {s_key[i]} ELSE keys, Put(queue, s_key[i], rest))
  BY <1>2, <1>5, FreeSemdIfEmpty DEF w
<1>. QED BY <1>2, <1>4, <1>6 DEF rest

\* removeBlocked, when there is a descriptor.
LEMMA RemoveBlockedPtr ==
    ASSUME NEW m, NEW a, NEW f, NEW pcbs, NEW ready, NEW keys, NEW queue,
           Lists(m, s_key, a, f, pcbs, ready, keys, queue),
           NEW k, k \in keys, queue[k] # <<>>
    PROVE  LET rest == Tail(queue[k])
           IN  /\ ListsOnly(m, removeBlocked(m, k))
               /\ \E b, g :
                     Lists(removeBlocked(m, k), s_key, b, g, pcbs, ready,
                           IF rest = <<>> THEN keys \ {k} ELSE keys, Put(queue, k, rest))
<1>. DEFINE w == Waiting(a, s_key, queue)
            i == getSemd(m, k)
            t == removeProcQ_ptr(m, procQ(i))
            rest == Tail(queue[k])
<1>1. /\ Semds(m, a, f) /\ keys = {s_key[j] : j \in Range(a)}
      /\ DOMAIN w = Semd /\ Queues(m, pcbs, ready, w)
  BY DEF Lists, Waiting
<1>2. i # NULL /\ i \in Range(a) /\ i \in Semd /\ s_key[i] = k
  BY <1>1, GetSemd
<1>3. w[i] = queue[k]
  BY <1>2 DEF Waiting
<1>4. removeBlocked(m, k) = freeSemdIfEmpty(t, i)
  <2>1. ~list_empty(m, procQ(i))
    BY <1>1, <1>2, <1>3, QueuesRead
  <2>. QED BY <1>2, <2>1 DEF removeBlocked
<1>. HIDE DEF w, i
<1>5. Queues(t, pcbs, ready, Put(w, i, rest)) /\ PcbOnly(m, t)
  <2>1. /\ Queues(t, pcbs, ready, Put(w, i, IF w[i] = <<>> THEN <<>> ELSE Tail(w[i])))
        /\ PcbOnly(m, t)
    BY <1>1, <1>2, SemaphoreRemove
  <2>. QED BY <1>3, <2>1
<1>. HIDE DEF t, rest
<1>6. /\ ListsOnly(m, freeSemdIfEmpty(t, i))
      /\ \E b, g :
            Lists(freeSemdIfEmpty(t, i), s_key, b, g, pcbs, ready,
                  IF rest = <<>> THEN keys \ {s_key[i]} ELSE keys, Put(queue, s_key[i], rest))
  BY <1>2, <1>5, FreeSemdIfEmpty DEF w
<1>. QED BY <1>2, <1>4, <1>6 DEF rest

-----------------------------------------------------------------------------
(* All lists together                                                      *)

\* The lists hold the free PCBs, the ready ones, and the queues of the keys.
Agrees(m, key, pcbs, ready, keys, queue) ==
    \E a, f : Lists(m, key, a, f, pcbs, ready, keys, queue)

\* p is on none of them.
Loose(p, pcbs, ready, keys, queue) ==
    /\ p \in Proc /\ p \notin Range(pcbs) /\ p \notin Range(ready)
    /\ \A k \in keys : p \notin Range(queue[k])

\* A PCB in none of the sequences is on none of the lists.
LEMMA LooseIsUnlinked ==
    ASSUME NEW m, NEW key, NEW a, NEW f, NEW pcbs, NEW ready, NEW keys, NEW queue,
           Lists(m, key, a, f, pcbs, ready, keys, queue),
           NEW p, Loose(p, pcbs, ready, keys, queue)
    PROVE  Unlinked(p, pcbs, ready, Waiting(a, key, queue))
<1>1. Range(<<>>) = {}
  BY DEF Range
<1>2. ASSUME NEW i \in Semd PROVE p \notin Range(Waiting(a, key, queue)[i])
  <2>1. CASE i \in Range(a)
    <3>1. Waiting(a, key, queue)[i] = queue[key[i]] /\ key[i] \in keys
      BY <2>1 DEF Waiting, Lists
    <3>. QED BY <3>1 DEF Loose
  <2>2. CASE i \notin Range(a)
    <3>1. Waiting(a, key, queue)[i] = <<>>
      BY <2>2 DEF Waiting
    <3>. QED BY <1>1, <3>1
  <2>. QED BY <2>1, <2>2
<1>. QED BY <1>2 DEF Unlinked, Loose

\* The free list and the ready queue change.
LEMMA ListsChange ==
    ASSUME NEW m, NEW key, NEW a, NEW f, NEW pcbs, NEW ready, NEW keys, NEW queue,
           Lists(m, key, a, f, pcbs, ready, keys, queue),
           NEW t, PcbOnly(m, t), NEW p, NEW r, Queues(t, p, r, Waiting(a, key, queue))
    PROVE  Agrees(t, key, p, r, keys, queue) /\ ListsOnly(m, t)
<1>1. t \in Heap
  BY QueuesRead
<1>2. Semds(m, a, f)
  BY DEF Lists
<1>3. Semds(t, a, f) /\ ListsOnly(m, t)
  BY <1>1, <1>2, OtherLists, ListsOnlyFacts
<1>4. Lists(t, key, a, f, p, r, keys, queue)
  BY <1>3 DEF Lists
<1>. QED BY <1>3, <1>4 DEF Agrees

\* What the operations on the ready queue and on the free list do.
LEMMA ReadyAgrees ==
    ASSUME NEW m, NEW key, NEW pcbs, NEW ready, NEW keys, NEW queue,
           Agrees(m, key, pcbs, ready, keys, queue), NEW p, NEW prio
    PROVE  /\ Loose(p, pcbs, ready, keys, queue) =>
                 /\ Agrees(insertProcQ_ptr(m, ready_h, p, prio), key, pcbs,
                           insertProcQ(ready, p, prio), keys, queue)
                 /\ ListsOnly(m, insertProcQ_ptr(m, ready_h, p, prio))
           /\ Agrees(removeProcQ_ptr(m, ready_h), key, pcbs,
                     IF ready = <<>> THEN <<>> ELSE Tail(ready), keys, queue)
           /\ ListsOnly(m, removeProcQ_ptr(m, ready_h))
           /\ Agrees(outProcQ_ptr(m, ready_h, p), key, pcbs, outProcQ(ready, p), keys, queue)
           /\ ListsOnly(m, outProcQ_ptr(m, ready_h, p))
           /\ Loose(p, pcbs, ready, keys, queue) =>
                 /\ Agrees(freePcb_ptr(m, p), key, <<p>> \o pcbs, ready, keys, queue)
                 /\ ListsOnly(m, freePcb_ptr(m, p))
<1>. PICK a, f : Lists(m, key, a, f, pcbs, ready, keys, queue)
  BY DEF Agrees
<1>. DEFINE w == Waiting(a, key, queue)
<1>1. DOMAIN w = Semd /\ Queues(m, pcbs, ready, w)
  BY DEF Lists, Waiting
<1>2. Loose(p, pcbs, ready, keys, queue) => Unlinked(p, pcbs, ready, w)
  BY LooseIsUnlinked
<1>. HIDE DEF w
<1>3. ASSUME Loose(p, pcbs, ready, keys, queue)
      PROVE  /\ Agrees(insertProcQ_ptr(m, ready_h, p, prio), key, pcbs,
                       insertProcQ(ready, p, prio), keys, queue)
             /\ ListsOnly(m, insertProcQ_ptr(m, ready_h, p, prio))
  <2>. DEFINE t == insertProcQ_ptr(m, ready_h, p, prio)
              s == insertProcQ(ready, p, prio)
  <2>1. Queues(t, pcbs, s, w) /\ PcbOnly(m, t)
    BY <1>1, <1>2, <1>3, ReadyInsert
  <2>. HIDE DEF t, s
  <2>2. Agrees(t, key, pcbs, s, keys, queue) /\ ListsOnly(m, t)
    BY <2>1, ListsChange DEF w
  <2>. QED BY <2>2 DEF t, s
<1>4. /\ Agrees(removeProcQ_ptr(m, ready_h), key, pcbs,
                IF ready = <<>> THEN <<>> ELSE Tail(ready), keys, queue)
      /\ ListsOnly(m, removeProcQ_ptr(m, ready_h))
  <2>. DEFINE t == removeProcQ_ptr(m, ready_h)
              s == IF ready = <<>> THEN <<>> ELSE Tail(ready)
  <2>1. Queues(t, pcbs, s, w) /\ PcbOnly(m, t)
    BY <1>1, ReadyRemove
  <2>. HIDE DEF t, s
  <2>2. Agrees(t, key, pcbs, s, keys, queue) /\ ListsOnly(m, t)
    BY <2>1, ListsChange DEF w
  <2>. QED BY <2>2 DEF t, s
<1>5. /\ Agrees(outProcQ_ptr(m, ready_h, p), key, pcbs, outProcQ(ready, p), keys, queue)
      /\ ListsOnly(m, outProcQ_ptr(m, ready_h, p))
  <2>. DEFINE t == outProcQ_ptr(m, ready_h, p)
              s == outProcQ(ready, p)
  <2>1. Queues(t, pcbs, s, w) /\ PcbOnly(m, t)
    BY <1>1, ReadyOut
  <2>. HIDE DEF t, s
  <2>2. Agrees(t, key, pcbs, s, keys, queue) /\ ListsOnly(m, t)
    BY <2>1, ListsChange DEF w
  <2>. QED BY <2>2 DEF t, s
<1>6. ASSUME Loose(p, pcbs, ready, keys, queue)
      PROVE  /\ Agrees(freePcb_ptr(m, p), key, <<p>> \o pcbs, ready, keys, queue)
             /\ ListsOnly(m, freePcb_ptr(m, p))
  <2>. DEFINE t == freePcb_ptr(m, p)
              s == <<p>> \o pcbs
  <2>1. Queues(t, s, ready, w) /\ PcbOnly(m, t)
    BY <1>1, <1>2, <1>6, FreePcbPtr
  <2>. HIDE DEF t, s
  <2>2. Agrees(t, key, s, ready, keys, queue) /\ ListsOnly(m, t)
    BY <2>1, ListsChange DEF w
  <2>. QED BY <2>2 DEF t, s
<1>. QED BY <1>3, <1>4, <1>5, <1>6

\* Changes in the tree leave the lists alone.
LEMMA TreeKeepsLists ==
    ASSUME NEW m, NEW key, NEW pcbs, NEW ready, NEW keys, NEW queue,
           Agrees(m, key, pcbs, ready, keys, queue),
           NEW t \in Heap, Same(m, t, Address \ TreeZone)
    PROVE  Agrees(t, key, pcbs, ready, keys, queue)
<1>1. PICK a, f : Lists(m, key, a, f, pcbs, ready, keys, queue)
  BY DEF Agrees
<1>2. Same(m, t, PcbZone) /\ Same(m, t, SemdZone)
  BY Kinds DEF Same
<1>3. Semds(t, a, f) /\ Queues(t, pcbs, ready, Waiting(a, key, queue))
  BY <1>1, <1>2, OtherLists DEF Lists
<1>. QED BY <1>1, <1>3 DEF Lists, Agrees

\* What the lists read as.
LEMMA AgreesRead ==
    ASSUME NEW m, NEW key, NEW pcbs, NEW ready, NEW keys, NEW queue,
           Agrees(m, key, pcbs, ready, keys, queue)
    PROVE  /\ m \in Heap
           /\ pcbs \in Seq(Proc) /\ ready \in Seq(Proc)
           /\ on(m, pcbFree_h) = pcbs /\ Circular(m, pcbFree_h, MAXPROC)
           /\ list_empty(m, pcbFree_h) <=> pcbs = <<>>
           /\ pcbs # <<>> => m[pcbFree_h].next = p_next(Head(pcbs))
           /\ on(m, ready_h) = ready /\ Circular(m, ready_h, MAXPROC)
<1>1. PICK a, f : Lists(m, key, a, f, pcbs, ready, keys, queue)
  BY DEF Agrees
<1>2. Queues(m, pcbs, ready, Waiting(a, key, queue))
  BY <1>1 DEF Lists
<1>. QED BY <1>2, QueuesRead

\* What getSemd finds.
LEMMA AgreesSemd ==
    ASSUME NEW m, NEW pcbs, NEW ready, NEW keys, NEW queue,
           Agrees(m, s_key, pcbs, ready, keys, queue), NEW k
    PROVE  /\ getSemd(m, k) = NULL <=> k \notin keys
           /\ k \in keys => on(m, procQ(getSemd(m, k))) = queue[k]
<1>1. PICK a, f : Lists(m, s_key, a, f, pcbs, ready, keys, queue)
  BY DEF Agrees
<1>2. /\ Semds(m, a, f) /\ keys = {s_key[i] : i \in Range(a)}
      /\ Queues(m, pcbs, ready, Waiting(a, s_key, queue))
  BY <1>1 DEF Lists
<1>3. /\ getSemd(m, k) = NULL <=> \A i \in Range(a) : s_key[i] # k
      /\ getSemd(m, k) # NULL => /\ getSemd(m, k) \in Range(a) /\ getSemd(m, k) \in Semd
                                 /\ s_key[getSemd(m, k)] = k
  BY <1>2, GetSemd
<1>4. getSemd(m, k) = NULL <=> k \notin keys
  BY <1>2, <1>3
<1>5. ASSUME k \in keys PROVE on(m, procQ(getSemd(m, k))) = queue[k]
  <2>. DEFINE i == getSemd(m, k)
  <2>1. i \in Range(a) /\ i \in Semd /\ s_key[i] = k
    BY <1>3, <1>4, <1>5
  <2>. HIDE DEF i
  <2>2. on(m, procQ(i)) = Waiting(a, s_key, queue)[i]
    BY <1>2, <2>1, QueuesRead
  <2>3. Waiting(a, s_key, queue)[i] = queue[k]
    BY <2>1 DEF Waiting
  <2>. QED BY <2>2, <2>3 DEF i
<1>. QED BY <1>4, <1>5

\* From m to r the PCB p lost its children and its siblings.
Cleared(m, r, p) ==
    /\ r[child_of(p)] = [next |-> NULL, prev |-> NULL]
    /\ r[p_sib(p)] = [next |-> p_sib(p), prev |-> p_sib(p)]
    /\ Same(m, r, TreeZone \ {child_of(p), p_sib(p)})

\* allocPcb takes the first free PCB and initializes its other list_heads.
LEMMA AllocPcbPtr ==
    ASSUME NEW m, NEW key, NEW pcbs, NEW ready, NEW keys, NEW queue,
           Agrees(m, key, pcbs, ready, keys, queue), pcbs # <<>>,
           NEW p, p = Head(pcbs), Loose(p, Tail(pcbs), ready, keys, queue)
    PROVE  LET r == allocPcb_ptr(m)
           IN  /\ Owner(m[pcbFree_h].next) = p
               /\ Agrees(r, key, Tail(pcbs), ready, keys, queue)
               /\ Cleared(m, r, p)
<1>. PICK a, f : Lists(m, key, a, f, pcbs, ready, keys, queue)
  BY DEF Agrees
<1>. DEFINE w == Waiting(a, key, queue)
            c == Contents(pcbs, ready, w)
            d == Contents(Tail(pcbs), ready, w)
            H == PcbHeads
            none == [next |-> NULL, prev |-> NULL]
            m1 == list_del(m, m[pcbFree_h].next)
            m2 == [m1 EXCEPT ![child_of(p)] = none]
            m3 == INIT_LIST_HEAD(m2, p_next(p))
            m4 == INIT_LIST_HEAD(m3, p_sib(p))
<1>1. Queues(m, pcbs, ready, w) /\ p \in Proc /\ Semds(m, a, f)
  BY DEF Lists, Loose
<1>2. m[pcbFree_h].next = p_next(p) /\ Owner(m[pcbFree_h].next) = p
  <2>1. m[pcbFree_h].next = p_next(Head(pcbs))
    BY <1>1, QueuesRead
  <2>. QED BY <2>1 DEF p_next, Owner
<1>3. allocPcb_ptr(m) = m4
  BY <1>2 DEF allocPcb_ptr
<1>4. /\ Kind("p_next", H) /\ Rings(m, "p_next", H, c)
      /\ pcbFree_h \in H /\ c[pcbFree_h] = pcbs /\ c[pcbFree_h] # <<>>
      /\ Put(c, pcbFree_h, Tail(pcbs)) = d
  BY <1>1, Kinds, ContentsAt, ContentsChange DEF Queues
<1>5. Rings(m1, "p_next", H, d) /\ Same(m, m1, Address \ Zone("p_next", H))
  <2>. HIDE DEF c, d, H
  <2>1. /\ Rings(m1, "p_next", H, [c EXCEPT ![pcbFree_h] = Tail(c[pcbFree_h])])
        /\ Same(m, m1, Address \ Zone("p_next", H))
    BY <1>4, RingsPop
  <2>. QED BY <1>4, <2>1 DEF Put
<1>6. \A h \in H : p \notin Range(d[h])
  <2>1. Unlinked(p, Tail(pcbs), ready, w)
    <3>1. Unlinked(p, <<>>, ready, w)
      <4>1. Range(<<>>) = {}
        BY DEF Range
      <4>2. \A i \in Semd : p \notin Range(w[i])
        <5>1. ASSUME NEW i \in Semd PROVE p \notin Range(w[i])
          <6>1. CASE i \in Range(a)
            <7>1. w[i] = queue[key[i]] /\ key[i] \in keys
              BY <6>1 DEF Waiting, Lists
            <7>. QED BY <7>1 DEF Loose
          <6>2. CASE i \notin Range(a)
            BY <4>1, <6>2 DEF Waiting
          <6>. QED BY <6>1, <6>2
        <5>. QED BY <5>1
      <4>. QED BY <4>1, <4>2 DEF Loose, Unlinked
    <3>. QED BY <3>1 DEF Unlinked, Loose
  <2>. QED BY <2>1, UnlinkedNowhere
<1>7. /\ child_of(p) \in TreeZone /\ p_sib(p) \in TreeZone /\ p_next(p) \in PcbZone
      /\ child_of(p) \in Address /\ p_sib(p) \in Address /\ p_next(p) \in Address
      /\ child_of(p) # p_sib(p) /\ child_of(p) # p_next(p) /\ p_sib(p) # p_next(p)
      /\ <<"p_next", p>> = p_next(p)
  BY <1>1 DEF TreeZone, PcbZone, Zone, Address, child_of, p_sib, p_next
<1>8. PcbZone = Zone("p_next", H)
  BY DEF PcbZone
<1>. HIDE DEF H, d, m1
<1>9. m1 \in Heap /\ none \in [next : Pointer, prev : Pointer]
  BY <1>5 DEF Rings, Pointer
<1>10. m2 \in Heap /\ m2[child_of(p)] = none /\ \A x \in Address \ {child_of(p)} : m2[x] = m1[x]
  BY <1>7, <1>9 DEF Heap
<1>. HIDE DEF m2, none
<1>11. Rings(m2, "p_next", H, d)
  <2>1. Same(m1, m2, Zone("p_next", H))
    BY <1>7, <1>8, <1>10, Kinds DEF Same
  <2>. QED BY <1>4, <1>5, <1>10, <2>1, RingsFrame
<1>12. m3 \in Heap /\ \A x \in Address \ {p_next(p)} : m3[x] = m2[x]
  BY <1>7, <1>10, InitListHead
<1>. HIDE DEF m3
<1>13. Rings(m3, "p_next", H, d)
  BY <1>1, <1>4, <1>6, <1>7, <1>11, <1>12, RingsLoose
<1>14. /\ m4 \in Heap /\ m4[p_sib(p)] = [next |-> p_sib(p), prev |-> p_sib(p)]
       /\ \A x \in Address \ {p_sib(p)} : m4[x] = m3[x]
  BY <1>7, <1>12, InitListHead
<1>. HIDE DEF m4
<1>15. Rings(m4, "p_next", H, d)
  <2>1. Same(m3, m4, Zone("p_next", H))
    BY <1>7, <1>8, <1>14, Kinds DEF Same
  <2>. QED BY <1>4, <1>13, <1>14, <2>1, RingsFrame
<1>16. m4[child_of(p)] = none
  BY <1>7, <1>10, <1>12, <1>14
<1>17. Same(m, m1, SemdZone) /\ Same(m, m1, TreeZone)
  BY <1>5, <1>8, Kinds DEF Same
<1>18. Same(m1, m4, Address \ {child_of(p), p_next(p), p_sib(p)})
  BY <1>10, <1>12, <1>14 DEF Same
<1>19. Same(m, m4, SemdZone) /\ Same(m, m4, TreeZone \ {child_of(p), p_sib(p)})
  BY <1>7, <1>17, <1>18, Kinds DEF Same
<1>20. Semds(m4, a, f) /\ Queues(m4, Tail(pcbs), ready, w)
  BY <1>1, <1>14, <1>15, <1>19, OtherLists DEF Queues, d, H
<1>21. Agrees(m4, key, Tail(pcbs), ready, keys, queue)
  BY <1>20 DEF Agrees, Lists
<1>22. Cleared(m, m4, p)
  BY <1>14, <1>16, <1>19 DEF Cleared, none
<1>. HIDE DEF m4
<1>. QED BY <1>2, <1>3, <1>21, <1>22

-----------------------------------------------------------------------------
(* The process tree                                                        *)

Sibs == {p_sib(p) : p \in Proc}

\* A PCB was never linked to siblings, or it is linked to list_heads of siblings.
SibTyped(m) == \A p \in Proc : m[p_sib(p)].next \in Sibs \cup {NULL} /\ m[p_sib(p)].prev \in Sibs \cup {NULL}

\* The pointers that lead from p to its children q.
Family(m, p, q) ==
    IF q = <<>> THEN m[child_of(p)].next = NULL
    ELSE /\ m[child_of(p)].next = child_of(Head(q))
         /\ m[child_of(Head(q))].prev = child_of(p)
         /\ Ring(m, p_sib(Head(q)), "p_sib", Tail(q))

\* The list_heads of the tree.
LEMMA TreeAddresses ==
    /\ \A p \in Proc : /\ child_of(p) \in Address /\ child_of(p) \in TreeZone /\ child_of(p) # NULL
                       /\ p_sib(p) \in Address /\ p_sib(p) \in TreeZone /\ p_sib(p) # NULL
                       /\ p_sib(p) \in Sibs /\ child_of(p) \notin Sibs
    /\ \A x, y : /\ child_of(x) = child_of(y) => x = y
                 /\ p_sib(x) = p_sib(y) => x = y
                 /\ child_of(x) # p_sib(y)
                 /\ Owner(child_of(x)) = x /\ Owner(p_sib(x)) = x
                 /\ p_sib(x) = <<"p_sib", x>>
    /\ Sibs \subseteq TreeZone /\ Sibs \subseteq Address /\ TreeZone \subseteq Address
    /\ NULL \in Pointer /\ Address \subseteq Pointer /\ NULL \notin Address
<1>1. \A p \in Proc : child_of(p) \in Address /\ p_sib(p) \in Address
  BY DEF Address
<1>2. \A p \in Proc : child_of(p) \in TreeZone /\ p_sib(p) \in TreeZone /\ p_sib(p) \in Sibs
  BY DEF TreeZone, Sibs
<1>3. \A x, y : /\ child_of(x) = child_of(y) => x = y
                /\ p_sib(x) = p_sib(y) => x = y
                /\ child_of(x) # p_sib(y)
                /\ Owner(child_of(x)) = x /\ Owner(p_sib(x)) = x
                /\ p_sib(x) = <<"p_sib", x>>
  BY DEF child_of, p_sib, Owner
<1>4. \A p \in Proc : child_of(p) \notin Sibs
  BY <1>3 DEF Sibs
<1>5. Sibs \subseteq TreeZone /\ TreeZone \subseteq Address
  BY Kinds DEF Sibs, TreeZone
<1>. QED BY <1>1, <1>2, <1>3, <1>4, <1>5, PtrAssumption DEF Pointer

\* What the pointers of a family say.
LEMMA FamilyReads ==
    ASSUME NEW m, NEW p \in Proc, NEW q \in Seq(Proc), Family(m, p, q)
    PROVE  /\ emptyChild(m, p) <=> q = <<>>
           /\ q # <<>> => /\ eldest(m, p) = Head(q) /\ Head(q) \in Proc /\ Head(q) \in Range(q)
                          /\ Tail(q) \in Seq(Proc) /\ q = <<Head(q)>> \o Tail(q)
                          /\ Range(Tail(q)) \subseteq Range(q)
                          /\ Ring(m, p_sib(Head(q)), "p_sib", Tail(q))
                          /\ on(m, p_sib(Head(q))) = Tail(q)
                          /\ Circular(m, p_sib(Head(q)), MAXPROC)
                          /\ mem = m => childrenOf(p) = q
           /\ q = <<>> /\ mem = m => childrenOf(p) = q
<1>1. CASE q = <<>>
  BY <1>1 DEF Family, emptyChild, childrenOf
<1>2. CASE q # <<>>
  <2>. DEFINE e == Head(q)
              t == Tail(q)
  <2>1. e \in Proc /\ t \in Seq(Proc) /\ e \in Range(q) /\ Range(t) \subseteq Range(q)
    BY <1>2, FirstAndRest
  <2>2. q = <<e>> \o t
    BY <1>2
  <2>3. m[child_of(p)].next = child_of(e) /\ Ring(m, p_sib(e), "p_sib", t)
    BY <1>2 DEF Family
  <2>. HIDE DEF e, t
  <2>4. on(m, p_sib(e)) = t /\ Circular(m, p_sib(e), MAXPROC)
    BY <2>1, <2>3, RingReads
  <2>5. ~emptyChild(m, p) /\ eldest(m, p) = e
    BY <2>1, <2>3, TreeAddresses DEF emptyChild, eldest
  <2>6. mem = m => childrenOf(p) = q
    BY <2>2, <2>4, <2>5 DEF childrenOf
  <2>. QED BY <1>2, <2>1, <2>2, <2>3, <2>4, <2>5, <2>6 DEF e, t
<1>. QED BY <1>1, <1>2

\* A family that nothing touches.
LEMMA FamilyFrame ==
    ASSUME NEW m, NEW r, NEW p \in Proc, NEW q \in Seq(Proc), Family(m, p, q),
           r[child_of(p)].next = m[child_of(p)].next,
           q # <<>> => r[child_of(Head(q))].prev = m[child_of(Head(q))].prev,
           \A x \in Range(q) : r[p_sib(x)] = m[p_sib(x)]
    PROVE  Family(r, p, q)
<1>1. CASE q = <<>>
  BY <1>1 DEF Family
<1>2. CASE q # <<>>
  <2>. DEFINE e == Head(q)
              t == Tail(q)
  <2>1. /\ e \in Range(q) /\ t \in Seq(Proc) /\ Range(t) \subseteq Range(q)
        /\ Ring(m, p_sib(e), "p_sib", t)
    BY <1>2, FamilyReads
  <2>2. \A a \in Foot(p_sib(e), "p_sib", t) : \E x \in Range(q) : a = p_sib(x)
    <3>1. \A i \in DOMAIN t : t[i] \in Range(q)
      BY <2>1 DEF Range
    <3>2. \A i \in DOMAIN t : <<"p_sib", t[i]>> = p_sib(t[i])
      BY TreeAddresses
    <3>. HIDE DEF e, t
    <3>. QED BY <2>1, <3>1, <3>2 DEF Foot
  <2>3. \A a \in Foot(p_sib(e), "p_sib", t) : r[a] = m[a]
    BY <2>2
  <2>. HIDE DEF t, e
  <2>4. Ring(r, p_sib(e), "p_sib", t)
    BY <2>1, <2>3, RingFrame
  <2>. QED BY <1>2, <2>4 DEF Family, e, t
<1>. QED BY <1>1, <1>2

\* Unlinking any PCB from its siblings, stale ones included, touches siblings only.
LEMMA SibDel ==
    ASSUME NEW m \in Heap, SibTyped(m), NEW x \in Proc
    PROVE  LET r == list_del(m, p_sib(x))
           IN  r \in Heap /\ SibTyped(r) /\ Same(m, r, Address \ Sibs)
<1>. DEFINE r == list_del(m, p_sib(x))
            prev == m[p_sib(x)].prev
            next == m[p_sib(x)].next
<1>1. /\ r \in Heap
      /\ prev \in Address => /\ r[prev].next = next
                             /\ r[prev].prev = IF prev = next THEN prev ELSE m[prev].prev
      /\ next \in Address => /\ r[next].prev = prev
                             /\ r[next].next = IF prev = next THEN next ELSE m[next].next
      /\ \A a \in Address \ {prev, next} : r[a] = m[a]
  <2>1. p_sib(x) \in Address
    BY TreeAddresses
  <2>. QED BY <2>1, ListDel
<1>2. prev \in Sibs \cup {NULL} /\ next \in Sibs \cup {NULL}
  BY DEF SibTyped
<1>. HIDE DEF r, prev, next
<1>3. Same(m, r, Address \ Sibs)
  <2>1. \A a \in Address \ Sibs : a # prev /\ a # next
    BY <1>2, TreeAddresses
  <2>. QED BY <1>1, <2>1 DEF Same
<1>4. ASSUME NEW y \in Proc
      PROVE  r[p_sib(y)].next \in Sibs \cup {NULL} /\ r[p_sib(y)].prev \in Sibs \cup {NULL}
  <2>. DEFINE a == p_sib(y)
  <2>0. /\ a \in Address /\ a \in Sibs
        /\ m[a].next \in Sibs \cup {NULL} /\ m[a].prev \in Sibs \cup {NULL}
    BY TreeAddresses DEF SibTyped
  <2>. HIDE DEF a
  <2>1. CASE a # prev /\ a # next
    <3>1. r[a] = m[a]
      BY <1>1, <2>0, <2>1
    <3>. QED BY <2>0, <3>1 DEF a
  <2>2. CASE a = prev
    <3>1. r[a].next = next /\ r[a].prev \in {a, m[a].prev}
      BY <1>1, <2>0, <2>2
    <3>. QED BY <1>2, <2>0, <3>1 DEF a
  <2>3. CASE a = next
    <3>1. r[a].prev = prev /\ r[a].next \in {a, m[a].next}
      BY <1>1, <2>0, <2>3
    <3>. QED BY <1>2, <2>0, <3>1 DEF a
  <2>. QED BY <2>1, <2>2, <2>3
<1>. QED BY <1>1, <1>3, <1>4 DEF SibTyped, r

\* Linking a PCB between two siblings.
LEMMA SibAdd ==
    ASSUME NEW m \in Heap, SibTyped(m), NEW new \in Sibs, NEW prev \in Sibs, NEW next \in Sibs,
           new # prev, new # next
    PROVE  SibTyped(list_add_between(m, new, prev, next))
<1>. DEFINE r == list_add_between(m, new, prev, next)
<1>0. new \in Address /\ prev \in Address /\ next \in Address
  BY TreeAddresses
<1>1. /\ r[new] = [next |-> next, prev |-> prev]
      /\ r[prev].next = new /\ r[next].prev = new
      /\ prev # next => r[prev].prev = m[prev].prev /\ r[next].next = m[next].next
      /\ \A a \in Address \ {new, prev, next} : r[a] = m[a]
  BY <1>0, AddBetween
<1>. HIDE DEF r
<1>2. ASSUME NEW y \in Proc
      PROVE  r[p_sib(y)].next \in Sibs \cup {NULL} /\ r[p_sib(y)].prev \in Sibs \cup {NULL}
  <2>. DEFINE a == p_sib(y)
  <2>0. a \in Address /\ m[a].next \in Sibs \cup {NULL} /\ m[a].prev \in Sibs \cup {NULL}
    BY TreeAddresses DEF SibTyped
  <2>. HIDE DEF a
  <2>1. CASE a \notin {new, prev, next}
    BY <1>1, <2>0, <2>1 DEF a
  <2>2. CASE a = new
    BY <1>1, <2>2 DEF a
  <2>3. CASE a = prev
    <3>1. r[a].next = new /\ r[a].prev \in {new, m[a].prev}
      BY <1>1, <2>3
    <3>. QED BY <2>0, <3>1 DEF a
  <2>4. CASE a = next
    <3>1. r[a].prev = new /\ r[a].next \in {new, m[a].next}
      BY <1>1, <2>4
    <3>. QED BY <2>0, <3>1 DEF a
  <2>. QED BY <2>1, <2>2, <2>3, <2>4
<1>. QED BY <1>2 DEF SibTyped, r

\* The same list_heads of siblings give the same types.
LEMMA SibFrame ==
    ASSUME NEW m, NEW r, SibTyped(m), \A y \in Proc : r[p_sib(y)] = m[p_sib(y)]
    PROVE  SibTyped(r)
  BY DEF SibTyped

\* The ends of a sequence that grows at its tail.
LEMMA AppendEnds ==
    ASSUME NEW S, NEW q \in Seq(S), NEW x \in S
    PROVE  /\ Append(q, x) # <<>> /\ Append(q, x) \in Seq(S)
           /\ q = <<>> => Head(Append(q, x)) = x /\ Tail(Append(q, x)) = <<>>
           /\ q # <<>> => /\ Head(Append(q, x)) = Head(q)
                          /\ Tail(Append(q, x)) = Append(Tail(q), x)
<1>1. q = <<>> => Head(Append(q, x)) = x /\ Tail(Append(q, x)) = <<>>
  OBVIOUS
<1>2. Append(q, x) # <<>> /\ Append(q, x) \in Seq(S)
  BY AppendProperties
<1>3. ASSUME q # <<>>
      PROVE  Head(Append(q, x)) = Head(q) /\ Tail(Append(q, x)) = Append(Tail(q), x)
  <2>. DEFINE u == Append(q, x)
              t == Tail(q)
              n == Len(q)
              v == Tail(u)
              w == Append(t, x)
  <2>1. /\ u \in Seq(S) /\ u # <<>> /\ Len(u) = n + 1 /\ u[n + 1] = x
        /\ \A i \in 1 .. n : u[i] = q[i]
    BY AppendProperties
  <2>2. /\ n \in Nat /\ n > 0 /\ t \in Seq(S) /\ Len(t) = n - 1 /\ Head(q) = q[1]
        /\ \A i \in 1 .. n - 1 : t[i] = q[i + 1]
    BY <1>3, HeadTailProperties, LenProperties, EmptySeq
  <2>. HIDE DEF u, n, t
  <2>3. Head(u) = u[1] /\ v \in Seq(S) /\ Len(v) = n /\ \A i \in 1 .. n : v[i] = u[i + 1]
    BY <2>1, <2>2, HeadTailProperties
  <2>4. w \in Seq(S) /\ Len(w) = n /\ w[n] = x /\ \A i \in 1 .. n - 1 : w[i] = t[i]
    <3>1. w \in Seq(S) /\ Len(w) = Len(t) + 1 /\ w[Len(t) + 1] = x /\ \A i \in 1 .. Len(t) : w[i] = t[i]
      BY <2>2, AppendProperties
    <3>2. Len(t) + 1 = n
      BY <2>2
    <3>. HIDE DEF w
    <3>. QED BY <2>2, <3>1, <3>2
  <2>. HIDE DEF v, w
  <2>5. ASSUME NEW i \in 1 .. n PROVE v[i] = w[i]
    <3>1. CASE i = n
      BY <2>1, <2>2, <2>3, <2>4, <3>1
    <3>2. CASE i # n
      <4>1. i \in 1 .. n - 1 /\ i + 1 \in 1 .. n
        BY <2>2, <3>2
      <4>. QED BY <2>1, <2>2, <2>3, <2>4, <4>1
    <3>. QED BY <3>1, <3>2
  <2>6. v = w
    BY <2>2, <2>3, <2>4, <2>5, SeqEqual
  <2>. QED BY <1>3, <2>1, <2>2, <2>3, <2>6 DEF u, v, w, t
<1>. QED BY <1>1, <1>2, <1>3

\* The members of a family are at addresses of siblings.
LEMMA FootOfFamily ==
    ASSUME NEW e \in Proc, NEW t \in Seq(Proc)
    PROVE  /\ Foot(p_sib(e), "p_sib", t) \subseteq Sibs
           /\ Foot(p_sib(e), "p_sib", t) \subseteq Address
           /\ \A y : p_sib(y) \in Foot(p_sib(e), "p_sib", t) => y = e \/ y \in Range(t)
<1>1. \A i \in DOMAIN t : t[i] \in Proc /\ <<"p_sib", t[i]>> = p_sib(t[i])
  BY TreeAddresses, ElementOfSeq, LenProperties
<1>2. \A i \in DOMAIN t : p_sib(t[i]) \in Sibs
  BY <1>1, TreeAddresses
<1>3. Foot(p_sib(e), "p_sib", t) = {p_sib(e)} \cup {p_sib(t[i]) : i \in DOMAIN t}
  BY <1>1 DEF Foot
<1>4. Foot(p_sib(e), "p_sib", t) \subseteq Sibs
  BY <1>2, <1>3, TreeAddresses
<1>5. ASSUME NEW y, p_sib(y) \in Foot(p_sib(e), "p_sib", t) PROVE y = e \/ y \in Range(t)
  <2>1. y = e \/ \E i \in DOMAIN t : y = t[i]
    BY <1>3, <1>5, TreeAddresses
  <2>. QED BY <2>1 DEF Range
<1>. QED BY <1>4, <1>5, TreeAddresses

\* Linking x at the tail.
LEMMA RingAddTail ==
    ASSUME NEW m \in Heap, NEW head, NEW tag, NEW q \in Seq(Proc), Ring(m, head, tag, q),
           Foot(head, tag, q) \subseteq Address,
           NEW x \in Proc, x \notin Range(q), <<tag, x>> \in Address, <<tag, x>> # head
    PROVE  LET r == list_add_tail(m, <<tag, x>>, head)
           IN  /\ r \in Heap
               /\ Ring(r, head, tag, Append(q, x))
               /\ \A a \in Address \ (Foot(head, tag, q) \cup {<<tag, x>>}) : r[a] = m[a]
<1>. DEFINE k == Len(q) + 1
            r == list_add_between(m, <<tag, x>>, Link(head, tag, q, k - 1), Link(head, tag, q, k))
<1>1. k \in 1 .. Len(q) + 1 /\ k - 1 = Len(q) /\ Len(q) \in Nat
  BY LenProperties
<1>2. Inserted(q, k, x) = Append(q, x)
  BY InsertedEnds
<1>3. /\ Link(head, tag, q, k) = head
      /\ m[head].prev = Link(head, tag, q, k - 1)
  <2>1. Link(head, tag, q, Len(q) + 1) = head /\ Len(q) \in 0 .. Len(q)
    BY <1>1, LinkFacts
  <2>. QED BY <1>1, <2>1 DEF Ring
<1>4. list_add_tail(m, <<tag, x>>, head) = r
  BY <1>3 DEF list_add_tail
<1>. HIDE DEF k
<1>5. /\ r \in Heap /\ Ring(r, head, tag, Inserted(q, k, x))
      /\ \A a \in Address \ (Foot(head, tag, q) \cup {<<tag, x>>}) : r[a] = m[a]
  BY <1>1, RingInsert
<1>. HIDE DEF r
<1>. QED BY <1>2, <1>4, <1>5

\* From m to r only the links of p to its children and those of the members
\* to each other changed.
TreeOnly(m, r, p, members) ==
    /\ Same(m, r, Address \ TreeZone)
    /\ \A y \in Proc \ {p} : r[child_of(y)].next = m[child_of(y)].next
    /\ \A y \in Proc \ members : /\ r[child_of(y)].prev = m[child_of(y)].prev
                                 /\ r[p_sib(y)] = m[p_sib(y)]

\* insertChild makes x the last child of p.
LEMMA InsertChildPtr ==
    ASSUME NEW m \in Heap, SibTyped(m), NEW p \in Proc, NEW x \in Proc, p # x,
           NEW q \in Seq(Proc), Family(m, p, q), x \notin Range(q), m[child_of(x)].next = NULL
    PROVE  LET r == insertChild(m, p, x)
           IN  /\ r \in Heap /\ SibTyped(r) /\ TreeOnly(m, r, p, Range(q) \cup {x})
               /\ Family(r, p, Append(q, x))
<1>. DEFINE r == insertChild(m, p, x)
<1>0. /\ child_of(p) \in Address /\ child_of(x) \in Address /\ p_sib(x) \in Address
      /\ child_of(p) \in Pointer /\ child_of(x) \in Pointer /\ NULL \in Pointer
      /\ child_of(p) # child_of(x) /\ p_sib(x) \in Sibs
  BY TreeAddresses
<1>1. CASE q = <<>>
  <2>. DEFINE m1 == WithNext(m, child_of(p), child_of(x))
              m2 == WithPrev(m1, child_of(x), child_of(p))
              m3 == INIT_LIST_HEAD(m2, p_sib(x))
  <2>1. /\ m1 \in Heap /\ m1[child_of(p)] = [next |-> child_of(x), prev |-> m[child_of(p)].prev]
        /\ \A b \in Address \ {child_of(p)} : m1[b] = m[b]
    BY <1>0, SetNext
  <2>. HIDE DEF m1
  <2>2. /\ m2 \in Heap /\ m2[child_of(x)] = [next |-> m1[child_of(x)].next, prev |-> child_of(p)]
        /\ \A b \in Address \ {child_of(x)} : m2[b] = m1[b]
    BY <1>0, <2>1, SetPrev
  <2>. HIDE DEF m2
  <2>3. /\ m3 \in Heap /\ m3[p_sib(x)] = [next |-> p_sib(x), prev |-> p_sib(x)]
        /\ \A b \in Address \ {p_sib(x)} : m3[b] = m2[b]
    BY <1>0, <2>2, InitListHead
  <2>. HIDE DEF m3
  <2>4. r = m3
    <3>1. emptyChild(m, p)
      BY <1>1, FamilyReads
    <3>. QED BY <3>1 DEF insertChild, m3, m2, m1, WithNext, WithPrev
  <2>. HIDE DEF r
  <2>5. /\ m3[child_of(p)].next = child_of(x) /\ m3[child_of(x)].prev = child_of(p)
        /\ m3[child_of(x)].next = m[child_of(x)].next /\ m3[child_of(p)].prev = m[child_of(p)].prev
    BY <1>0, <2>1, <2>2, <2>3, TreeAddresses
  <2>6. \A b \in Address \ {child_of(p), child_of(x), p_sib(x)} : m3[b] = m[b]
    BY <2>1, <2>2, <2>3
  <2>7. Same(m, m3, Address \ TreeZone)
    BY <2>6, TreeAddresses DEF Same
  <2>8. /\ \A y \in Proc \ {p} : m3[child_of(y)].next = m[child_of(y)].next
        /\ \A y \in Proc \ {x} : m3[child_of(y)].prev = m[child_of(y)].prev
        /\ \A y \in Proc \ {x} : m3[p_sib(y)] = m[p_sib(y)]
    BY <2>5, <2>6, TreeAddresses
  <2>9. Family(m3, p, Append(q, x))
    <3>1. Ring(m3, p_sib(x), "p_sib", <<>>)
      BY <2>3, RingInit
    <3>2. /\ Append(q, x) # <<>> /\ Head(Append(q, x)) = x /\ Tail(Append(q, x)) = <<>>
      BY <1>1, AppendEnds
    <3>. QED BY <2>5, <3>1, <3>2 DEF Family
  <2>10. SibTyped(m3)
    BY <1>0, <2>3, <2>8 DEF SibTyped
  <2>11. TreeOnly(m, m3, p, Range(q) \cup {x})
    BY <2>7, <2>8 DEF TreeOnly
  <2>. HIDE DEF m3
  <2>. QED BY <2>3, <2>4, <2>9, <2>10, <2>11 DEF r
<1>2. CASE q # <<>>
  <2>. DEFINE e == Head(q)
              t == Tail(q)
              u == Append(t, x)
              last == m[p_sib(e)].prev
              m1 == list_add_tail(m, p_sib(x), p_sib(e))
              m2 == WithNext(m1, child_of(x), NULL)
  <2>1. /\ e \in Proc /\ e \in Range(q) /\ t \in Seq(Proc) /\ Range(t) \subseteq Range(q)
        /\ Ring(m, p_sib(e), "p_sib", t) /\ ~emptyChild(m, p) /\ eldest(m, p) = e
        /\ m[child_of(p)].next = child_of(e) /\ m[child_of(e)].prev = child_of(p)
    BY <1>2, FamilyReads DEF Family
  <2>. HIDE DEF e, t
  <2>4. r = m2
    BY <2>1 DEF insertChild, m2, m1, WithNext
  <2>5. /\ x # e /\ x \notin Range(t) /\ p_sib(x) # p_sib(e) /\ <<"p_sib", x>> = p_sib(x)
    BY <2>1, TreeAddresses
  <2>6. /\ Foot(p_sib(e), "p_sib", t) \subseteq Address /\ Foot(p_sib(e), "p_sib", t) \subseteq Sibs
        /\ \A y : p_sib(y) \in Foot(p_sib(e), "p_sib", t) => y = e \/ y \in Range(t)
    BY <2>1, FootOfFamily
  <2>. HIDE DEF r
  <2>7. /\ m1 \in Heap /\ Ring(m1, p_sib(e), "p_sib", u)
        /\ \A a \in Address \ (Foot(p_sib(e), "p_sib", t) \cup {p_sib(x)}) : m1[a] = m[a]
    <3>. DEFINE tag == "p_sib"
                h == p_sib(e)
                y == <<tag, x>>
    <3>1. y = p_sib(x) /\ y \in Address /\ y # h
      BY <1>0, <2>5
    <3>2. Ring(m, h, tag, t) /\ Foot(h, tag, t) \subseteq Address
      BY <2>1, <2>6
    <3>. HIDE DEF h, tag
    <3>3. /\ list_add_tail(m, y, h) \in Heap /\ Ring(list_add_tail(m, y, h), h, tag, Append(t, x))
          /\ \A a \in Address \ (Foot(h, tag, t) \cup {y}) : list_add_tail(m, y, h)[a] = m[a]
      BY <2>1, <2>5, <3>1, <3>2, RingAddTail
    <3>. HIDE DEF y
    <3>. QED BY <3>1, <3>3 DEF h, tag
  <2>9. SibTyped(m1)
    <3>1. last \in Foot(p_sib(e), "p_sib", t)
      <4>1. /\ Len(t) \in 0 .. Len(t) /\ Len(t) \in Int
            /\ Link(p_sib(e), "p_sib", t, Len(t) + 1) = p_sib(e)
            /\ \A i \in Int : Link(p_sib(e), "p_sib", t, i) \in Foot(p_sib(e), "p_sib", t)
        BY <2>1, LinkFacts
      <4>2. last = Link(p_sib(e), "p_sib", t, Len(t))
        BY <2>1, <4>1 DEF Ring
      <4>. QED BY <4>1, <4>2
    <3>. HIDE DEF last
    <3>2. last \in Sibs /\ p_sib(e) \in Sibs /\ p_sib(x) # last
      <4>1. last # p_sib(x)
        BY <2>5, <2>6, <3>1
      <4>. QED BY <2>1, <2>6, <3>1, <4>1, TreeAddresses
    <3>3. m1 = list_add_between(m, p_sib(x), last, p_sib(e))
      BY DEF list_add_tail, last
    <3>. HIDE DEF m1
    <3>. QED BY <1>0, <2>5, <3>2, <3>3, SibAdd
  <2>. HIDE DEF m1, u, last
  <2>10. /\ m2 \in Heap /\ m2[child_of(x)] = [next |-> NULL, prev |-> m1[child_of(x)].prev]
         /\ \A b \in Address \ {child_of(x)} : m2[b] = m1[b]
    BY <1>0, <2>7, SetNext
  <2>. HIDE DEF m2
  <2>11. \A y \in Proc : /\ m2[child_of(y)].next = m[child_of(y)].next
                         /\ m2[child_of(y)].prev = m[child_of(y)].prev
    <3>1. \A y \in Proc : m1[child_of(y)] = m[child_of(y)]
      <4>1. \A y \in Proc : child_of(y) \in Address /\ child_of(y) \notin Sibs
        BY TreeAddresses
      <4>. QED BY <1>0, <2>6, <2>7, <4>1
    <3>2. \A y \in Proc : y # x => m2[child_of(y)] = m1[child_of(y)]
      BY <2>10, TreeAddresses
    <3>. QED BY <2>10, <3>1, <3>2
  <2>12. \A y \in Proc : m2[p_sib(y)] = m1[p_sib(y)]
    BY <2>10, TreeAddresses
  <2>13. SibTyped(m2)
    BY <2>9, <2>12, SibFrame
  <2>14. ASSUME NEW y \in Proc \ (Range(q) \cup {x}) PROVE m2[p_sib(y)] = m[p_sib(y)]
    <3>1. p_sib(y) \notin Foot(p_sib(e), "p_sib", t) /\ p_sib(y) # p_sib(x) /\ p_sib(y) \in Address
      BY <2>1, <2>6, TreeAddresses
    <3>. QED BY <2>7, <2>12, <3>1
  <2>15. Same(m, m2, Address \ TreeZone)
    <3>1. \A a \in Address \ TreeZone : a \notin Sibs /\ a # child_of(x)
      BY TreeAddresses
    <3>. QED BY <1>0, <2>6, <2>7, <2>10, <3>1 DEF Same
  <2>16. Family(m2, p, Append(q, x))
    <3>1. Ring(m2, p_sib(e), "p_sib", u)
      <4>1. u \in Seq(Proc)
        BY <2>1, AppendProperties DEF u
      <4>2. \A a \in Foot(p_sib(e), "p_sib", u) : m2[a] = m1[a]
        BY <2>1, <2>10, <4>1, FootOfFamily, TreeAddresses
      <4>. QED BY <2>7, <4>1, <4>2, RingFrame
    <3>2. Append(q, x) # <<>> /\ Head(Append(q, x)) = e /\ Tail(Append(q, x)) = u
      BY <1>2, AppendEnds DEF e, t, u
    <3>. QED BY <2>1, <2>11, <3>1, <3>2 DEF Family
  <2>17. TreeOnly(m, m2, p, Range(q) \cup {x})
    BY <2>11, <2>14, <2>15 DEF TreeOnly
  <2>. QED BY <2>4, <2>10, <2>13, <2>16, <2>17 DEF r
<1>. QED BY <1>1, <1>2

\* removeChild takes the eldest child of p away; the next one takes its place.
LEMMA RemoveChildPtr ==
    ASSUME NEW m \in Heap, SibTyped(m), NEW p \in Proc, NEW q \in Seq(Proc), q # <<>>,
           Family(m, p, q)
    PROVE  LET r == removeChild(m, p)
           IN  /\ r \in Heap /\ SibTyped(r) /\ TreeOnly(m, r, p, Range(q))
               /\ Family(r, p, Tail(q))
<1>. DEFINE r == removeChild(m, p)
            e == Head(q)
            t == Tail(q)
            g1 == WithPrev(m, child_of(e), NULL)
<1>1. /\ e \in Proc /\ e \in Range(q) /\ t \in Seq(Proc) /\ Range(t) \subseteq Range(q)
      /\ Ring(m, p_sib(e), "p_sib", t) /\ ~emptyChild(m, p) /\ eldest(m, p) = e
      /\ m[child_of(p)].next = child_of(e) /\ m[child_of(e)].prev = child_of(p)
  BY FamilyReads DEF Family
<1>. HIDE DEF e, t
<1>2. /\ child_of(p) \in Address /\ child_of(e) \in Address /\ p_sib(e) \in Address
      /\ child_of(p) \in Pointer /\ NULL \in Pointer
  BY <1>1, TreeAddresses
<1>3. /\ g1 \in Heap /\ g1[child_of(e)] = [next |-> m[child_of(e)].next, prev |-> NULL]
      /\ \A b \in Address \ {child_of(e)} : g1[b] = m[b]
  BY <1>2, SetPrev
<1>4. list_empty(g1, p_sib(e)) <=> t = <<>>
  <2>1. g1[p_sib(e)] = m[p_sib(e)]
    BY <1>2, <1>3, TreeAddresses
  <2>2. list_empty(m, p_sib(e)) <=> t = <<>>
    BY <1>1, RingEmpty
  <2>. QED BY <2>1, <2>2 DEF list_empty
<1>5. CASE t = <<>>
  <2>. DEFINE g2 == WithNext(g1, child_of(p), NULL)
  <2>1. r = g2
    BY <1>1, <1>4, <1>5 DEF removeChild, g2, g1, WithNext, WithPrev
  <2>. HIDE DEF g1, r
  <2>2. /\ g2 \in Heap /\ g2[child_of(p)] = [next |-> NULL, prev |-> g1[child_of(p)].prev]
        /\ \A b \in Address \ {child_of(p)} : g2[b] = g1[b]
    BY <1>2, <1>3, SetNext
  <2>. HIDE DEF g2
  <2>3. \A b \in Address \ {child_of(p), child_of(e)} : g2[b] = m[b]
    BY <1>3, <2>2
  <2>4. \A y \in Proc : g2[p_sib(y)] = m[p_sib(y)]
    BY <2>3, TreeAddresses
  <2>5. /\ \A y \in Proc \ {p} : g2[child_of(y)].next = m[child_of(y)].next
        /\ \A y \in Proc \ {e} : g2[child_of(y)].prev = m[child_of(y)].prev
    BY <1>2, <1>3, <2>2, TreeAddresses
  <2>6. SibTyped(g2) /\ Same(m, g2, Address \ TreeZone)
    BY <1>1, <2>3, <2>4, SibFrame, TreeAddresses DEF Same
  <2>7. Family(g2, p, t)
    BY <1>5, <2>2 DEF Family
  <2>8. TreeOnly(m, g2, p, Range(q))
    BY <1>1, <2>4, <2>5, <2>6 DEF TreeOnly
  <2>. QED BY <2>1, <2>2, <2>6, <2>7, <2>8 DEF r, t
<1>6. CASE t # <<>>
  <2>. DEFINE s == Head(t)
              u == Tail(t)
              g2 == WithNext(g1, child_of(p), child_of(s))
              g3 == WithPrev(g2, child_of(s), child_of(p))
              g4 == list_del(g3, p_sib(e))
  <2>1. s \in Proc /\ s \in Range(t) /\ s \in Range(q) /\ u \in Seq(Proc)
    BY <1>1, <1>6, FirstAndRest
  <2>2. Owner(g1[p_sib(e)].next) = s
    <3>1. m[p_sib(e)].next = <<"p_sib", s>>
      BY <1>1, <1>6, RingEmpty
    <3>2. g1[p_sib(e)] = m[p_sib(e)]
      BY <1>2, <1>3, TreeAddresses
    <3>. QED BY <3>1, <3>2, TreeAddresses
  <2>. HIDE DEF s, u
  <2>3. r = g4
    <3>1. ~list_empty(g1, p_sib(e))
      BY <1>4, <1>6
    <3>. QED BY <1>1, <2>2, <3>1 DEF removeChild, g4, g3, g2, g1, WithNext, WithPrev
  <2>. HIDE DEF g1, r
  <2>4. child_of(s) \in Address /\ child_of(s) \in Pointer
    BY <2>1, TreeAddresses
  <2>5. /\ g2 \in Heap /\ g2[child_of(p)] = [next |-> child_of(s), prev |-> g1[child_of(p)].prev]
        /\ \A b \in Address \ {child_of(p)} : g2[b] = g1[b]
    BY <1>2, <1>3, <2>4, SetNext
  <2>. HIDE DEF g2
  <2>6. /\ g3 \in Heap /\ g3[child_of(s)] = [next |-> g2[child_of(s)].next, prev |-> child_of(p)]
        /\ \A b \in Address \ {child_of(s)} : g3[b] = g2[b]
    BY <1>2, <2>4, <2>5, SetPrev
  <2>. HIDE DEF g3
  <2>7. \A b \in Address \ {child_of(p), child_of(e), child_of(s)} : g3[b] = m[b]
    BY <1>3, <2>5, <2>6
  <2>8. \A a \in Sibs : g3[a] = m[a]
    BY <2>7, TreeAddresses DEF Sibs
  <2>9. SibTyped(g3)
    BY <2>8, SibFrame, TreeAddresses
  <2>10. Ring(g3, p_sib(e), "p_sib", t)
    <3>1. \A a \in Foot(p_sib(e), "p_sib", t) : g3[a] = m[a]
      BY <1>1, <2>8, FootOfFamily
    <3>. QED BY <1>1, <3>1, RingFrame
  <2>11. /\ Ring(g4, p_sib(s), "p_sib", u)
         /\ \A a \in Address \ Foot(p_sib(e), "p_sib", t) : g4[a] = g3[a]
    <3>. DEFINE tag == "p_sib"
                h == <<tag, e>>
    <3>1. h = p_sib(e) /\ <<tag, Head(t)>> = p_sib(s)
      BY TreeAddresses DEF s
    <3>2. Ring(g3, h, tag, t) /\ Foot(h, tag, t) \subseteq Address
      BY <1>1, <2>10, <3>1, FootOfFamily
    <3>. HIDE DEF tag
    <3>3. /\ Ring(list_del(g3, h), <<tag, Head(t)>>, tag, Tail(t))
          /\ \A a \in Address \ Foot(h, tag, t) : list_del(g3, h)[a] = g3[a]
      BY ONLY <1>1, <1>6, <2>6, <3>2, RingPop
    <3>. QED BY <3>1, <3>3 DEF u, tag
  <2>12. g4 \in Heap /\ SibTyped(g4) /\ Same(g3, g4, Address \ Sibs)
    BY <1>1, <2>6, <2>9, SibDel
  <2>. HIDE DEF g4
  <2>13. \A y \in Proc : g4[child_of(y)] = g3[child_of(y)]
    BY <2>12, TreeAddresses DEF Same
  <2>14. /\ g4[child_of(p)].next = child_of(s) /\ g4[child_of(s)].prev = child_of(p)
         /\ \A y \in Proc \ {p} : g4[child_of(y)].next = m[child_of(y)].next
         /\ \A y \in Proc \ {e, s} : g4[child_of(y)].prev = m[child_of(y)].prev
    <3>1. g3[child_of(p)].next = child_of(s) /\ g3[child_of(s)].prev = child_of(p)
      BY <1>2, <2>4, <2>5, <2>6
    <3>2. \A y \in Proc \ {p} : g3[child_of(y)].next = m[child_of(y)].next
      <4>1. \A y \in Proc \ {p} : child_of(y) \in Address /\ child_of(y) # child_of(p)
        BY TreeAddresses
      <4>. QED BY <1>2, <1>3, <2>4, <2>5, <2>6, <4>1
    <3>3. \A y \in Proc \ {e, s} : g3[child_of(y)].prev = m[child_of(y)].prev
      <4>1. \A y \in Proc \ {e, s} : /\ child_of(y) \in Address
                                     /\ child_of(y) # child_of(e) /\ child_of(y) # child_of(s)
        BY TreeAddresses
      <4>. QED BY <1>2, <1>3, <2>5, <2>6, <4>1
    <3>. QED BY <2>1, <2>13, <3>1, <3>2, <3>3
  <2>15. ASSUME NEW y \in Proc \ Range(q) PROVE g4[p_sib(y)] = m[p_sib(y)]
    <3>1. p_sib(y) \notin Foot(p_sib(e), "p_sib", t) /\ p_sib(y) \in Address /\ p_sib(y) \in Sibs
      BY <1>1, FootOfFamily, TreeAddresses
    <3>. QED BY <2>8, <2>11, <3>1
  <2>16. Same(m, g4, Address \ TreeZone)
    <3>1. \A a \in Address \ TreeZone :
             a \notin Sibs /\ a # child_of(p) /\ a # child_of(e) /\ a # child_of(s)
      BY <1>1, <2>1, TreeAddresses
    <3>. QED BY <2>7, <2>12, <3>1 DEF Same
  <2>17. Family(g4, p, t)
    BY <1>6, <2>11, <2>14 DEF Family, s, u
  <2>18. TreeOnly(m, g4, p, Range(q))
    <3>1. \A y \in Proc \ Range(q) : y \notin {e, s}
      BY <1>1, <2>1
    <3>. QED BY <2>14, <2>15, <2>16, <3>1 DEF TreeOnly
  <2>. QED BY <2>3, <2>12, <2>17, <2>18 DEF r, t
<1>. QED BY <1>5, <1>6

\* What a removal behind the head leaves at the head.
LEMMA RemovedEnds ==
    ASSUME NEW S, NEW q \in Seq(S), NEW k \in 2 .. Len(q)
    PROVE  /\ Removed(q, k) # <<>> /\ Head(Removed(q, k)) = Head(q)
           /\ Tail(Removed(q, k)) = Removed(Tail(q), k - 1)
           /\ k - 1 \in 1 .. Len(Tail(q)) /\ Tail(q)[k - 1] = q[k]
<1>. DEFINE n == Len(q)
            t == Tail(q)
            s == Removed(q, k)
            v == Tail(s)
            w == Removed(t, k - 1)
<1>1. /\ n \in Nat /\ n > 1 /\ q # <<>> /\ k \in 1 .. Len(q) /\ n - 1 \in Nat /\ n - 1 > 0
      /\ n - 2 \in Nat
  BY LenProperties, EmptySeq
<1>2. /\ t \in Seq(S) /\ Len(t) = n - 1 /\ Head(q) = q[1]
      /\ \A i \in 1 .. n - 1 : t[i] = q[i + 1]
  BY <1>1, HeadTailProperties
<1>3. s \in Seq(S) /\ DOMAIN s = 1 .. n - 1 /\ \A i \in 1 .. n - 1 : s[i] = IF i < k THEN q[i] ELSE q[i + 1]
  BY <1>1, RemovedRange DEF Removed
<1>4. Len(s) = n - 1
  BY <1>1, <1>3, LenProperties
<1>. HIDE DEF s, t, n
<1>5. s # <<>> /\ Head(s) = q[1]
  <2>1. s # <<>>
    BY <1>1, <1>3, <1>4, EmptySeq
  <2>2. Head(s) = s[1] /\ 1 \in 1 .. n - 1 /\ 1 < k
    BY <1>1, <1>3, <2>1
  <2>. QED BY <1>3, <2>1, <2>2
<1>6. v \in Seq(S) /\ Len(v) = n - 2 /\ \A i \in 1 .. n - 2 : v[i] = s[i + 1]
  <2>1. v \in Seq(S) /\ Len(v) = Len(s) - 1 /\ \A i \in 1 .. Len(v) : v[i] = s[i + 1]
    BY <1>3, <1>5, HeadTailProperties
  <2>. HIDE DEF v
  <2>. QED BY <1>1, <1>4, <2>1
<1>7. k - 1 \in 1 .. Len(t) /\ t[k - 1] = q[k]
  <2>1. k - 1 \in 1 .. n - 1 /\ (k - 1) + 1 = k
    BY <1>1 DEF n
  <2>. QED BY <1>2, <2>1
<1>8. w \in Seq(S) /\ Len(w) = n - 2 /\ \A i \in 1 .. n - 2 : w[i] = IF i < k - 1 THEN t[i] ELSE t[i + 1]
  <2>1. w \in Seq(S)
    BY <1>2, <1>7, RemovedRange
  <2>2. Len(t) - 1 = n - 2
    BY <1>1, <1>2
  <2>3. DOMAIN w = 1 .. n - 2 /\ \A i \in 1 .. n - 2 : w[i] = IF i < k - 1 THEN t[i] ELSE t[i + 1]
    BY <2>2 DEF Removed
  <2>. HIDE DEF w
  <2>4. Len(w) = n - 2
    <3>1. \A z \in Seq(S) : DOMAIN z = 1 .. n - 2 => Len(z) = n - 2
      BY <1>1, LenProperties
    <3>. QED BY <2>1, <2>3, <3>1
  <2>. QED BY <2>1, <2>3, <2>4
<1>. HIDE DEF v, w
<1>9. ASSUME NEW i \in 1 .. n - 2 PROVE v[i] = w[i]
  <2>1. i \in 1 .. n - 1 /\ i + 1 \in 1 .. n - 1 /\ (i + 1 < k <=> i < k - 1) /\ k \in Int
    BY <1>1
  <2>2. CASE i < k - 1
    <3>1. v[i] = q[i + 1] /\ w[i] = t[i]
      BY <1>3, <1>6, <1>8, <2>1, <2>2
    <3>. QED BY <1>2, <2>1, <3>1
  <2>3. CASE ~(i < k - 1)
    <3>1. v[i] = q[(i + 1) + 1] /\ w[i] = t[i + 1]
      BY <1>3, <1>6, <1>8, <2>1, <2>3
    <3>. QED BY <1>2, <2>1, <3>1
  <2>. QED BY <2>2, <2>3
<1>10. v = w
  BY <1>1, <1>6, <1>8, <1>9, SeqEqual
<1>. QED BY <1>2, <1>5, <1>7, <1>10 DEF v, w, s, t

\* list_del of a younger child takes it from between its siblings.
LEMMA OutChildPtr ==
    ASSUME NEW m \in Heap, SibTyped(m), NEW p \in Proc, NEW q \in Seq(Proc), Family(m, p, q),
           NEW x \in Range(q), x # Head(q)
    PROVE  LET r == list_del(m, p_sib(x))
           IN  /\ r \in Heap /\ SibTyped(r) /\ TreeOnly(m, r, p, Range(q))
               /\ Family(r, p, outProcQ(q, x))
<1>. DEFINE r == list_del(m, p_sib(x))
            e == Head(q)
            t == Tail(q)
<1>1. PICK k \in 1 .. Len(q) : q[k] = x /\ outProcQ(q, x) = Removed(q, k)
  BY OutPosition
<1>2. k \in 2 .. Len(q) /\ q # <<>> /\ x \in Proc
  <2>1. Len(q) \in Nat /\ q # <<>> /\ Head(q) = q[1] /\ \A i \in 1 .. Len(q) : q[i] \in Proc
    BY <1>1, LenProperties, EmptySeq, ElementOfSeq
  <2>. QED BY <1>1, <2>1
<1>3. /\ Removed(q, k) # <<>> /\ Head(Removed(q, k)) = e
      /\ Tail(Removed(q, k)) = Removed(t, k - 1)
      /\ k - 1 \in 1 .. Len(t) /\ t[k - 1] = x
  BY <1>1, <1>2, RemovedEnds
<1>4. /\ e \in Proc /\ e \in Range(q) /\ t \in Seq(Proc) /\ Range(t) \subseteq Range(q)
      /\ Ring(m, p_sib(e), "p_sib", t)
      /\ m[child_of(p)].next = child_of(e) /\ m[child_of(e)].prev = child_of(p)
  BY <1>2, FamilyReads DEF Family
<1>. HIDE DEF e, t
<1>5. /\ Ring(r, p_sib(e), "p_sib", Removed(t, k - 1))
      /\ \A a \in Address \ Foot(p_sib(e), "p_sib", t) : r[a] = m[a]
  <2>1. Foot(p_sib(e), "p_sib", t) \subseteq Address
    BY <1>4, FootOfFamily
  <2>2. r = list_del(m, <<"p_sib", t[k - 1]>>)
    BY <1>3, TreeAddresses
  <2>. DEFINE tag == "p_sib"
              h == p_sib(e)
              j == k - 1
  <2>3. /\ Ring(m, h, tag, t) /\ Foot(h, tag, t) \subseteq Address /\ m \in Heap
        /\ t \in Seq(Proc) /\ j \in 1 .. Len(t) /\ r = list_del(m, <<tag, t[j]>>)
    BY <1>3, <1>4, <2>1, <2>2
  <2>. HIDE DEF r, tag, h, j
  <2>4. /\ Ring(r, h, tag, Removed(t, j))
        /\ \A a \in Address \ Foot(h, tag, t) : r[a] = m[a]
    BY ONLY <2>3, RingRemove
  <2>. QED BY <2>4 DEF tag, h, j
<1>6. r \in Heap /\ SibTyped(r) /\ Same(m, r, Address \ Sibs)
  BY <1>2, SibDel
<1>. HIDE DEF r
<1>7. r[child_of(p)] = m[child_of(p)] /\ r[child_of(e)] = m[child_of(e)]
  BY <1>4, <1>6, TreeAddresses DEF Same
<1>8. Family(r, p, outProcQ(q, x))
  BY <1>1, <1>3, <1>4, <1>5, <1>7 DEF Family
<1>9. ASSUME NEW y \in Proc \ Range(q) PROVE r[p_sib(y)] = m[p_sib(y)]
  <2>1. p_sib(y) \notin Foot(p_sib(e), "p_sib", t) /\ p_sib(y) \in Address
    BY <1>4, FootOfFamily, TreeAddresses
  <2>. QED BY <1>5, <2>1
<1>10. TreeOnly(m, r, p, Range(q))
  <2>1. /\ \A a \in Address \ TreeZone : a \in Address \ Sibs
        /\ \A y \in Proc : child_of(y) \in Address \ Sibs
    BY TreeAddresses
  <2>2. /\ Same(m, r, Address \ TreeZone)
        /\ \A y \in Proc : r[child_of(y)] = m[child_of(y)]
    BY <1>6, <2>1 DEF Same
  <2>. QED BY <1>9, <2>2 DEF TreeOnly
<1>. QED BY <1>6, <1>8, <1>10 DEF r

-----------------------------------------------------------------------------
(* The invariant *)

\* The kernel has panicked, or is about to: it kills a PCB that is free already.
Panicking == pc \in Panics \/ (pc = "remove" /\ Head(frames) \in Free)

\* The lists hold the sequences of Scheduler.
ListsHold == Agrees(mem, s_key, pcbFree, ready_queue, semd_h, s_procQ)

Families == \A p \in Proc : Family(mem, p, p_child[p])

\* list_del of a PCB that left its siblings before goes through pointers of
\* old: they still lead to siblings, so that the lists are never touched.
PtrInv ==
    /\ SchedulerInv
    /\ ListsHold
    /\ SibTyped(mem)
    /\ Panicking \/ Families

\* What the queues and the tree say while nothing is wrong.
LEMMA PtrFacts ==
    ASSUME PtrInv
    PROVE  /\ LinkInv /\ TypeOK /\ SemkeyNamesQueue /\ mem \in Heap
           /\ p_child \in [Proc -> Seq(Proc)] /\ p_parent \in [Proc -> Proc \cup {NULL}]
           /\ semd_h \subseteq Key /\ Free \subseteq Proc /\ Ready \subseteq Proc
           /\ pcbFree \in Seq(Proc) /\ ready_queue \in Seq(Proc) /\ NoDuplicates(pcbFree)
           /\ Free \cap Ready = {} /\ Free \cup Ready \subseteq Unkeyed
           /\ pc \in {"init", "user", "children"} => Families
           /\ \A x \in Proc : p_child[x] \in Seq(Proc) /\ Range(p_child[x]) \subseteq Proc
           /\ \A x \in Proc : Range(p_child[x]) \cap Free = {}
           /\ \A x, y \in Proc : x # y => Range(p_child[x]) \cap Range(p_child[y]) = {}
<1>1. LinkInv /\ TypeOK /\ SemkeyNamesQueue
  BY DEF PtrInv, SchedulerInv, QueueInv, LinkInv
<1>2. mem \in Heap
  BY AgreesRead DEF PtrInv, ListsHold
<1>3. /\ p_child \in [Proc -> Seq(Proc)] /\ p_parent \in [Proc -> Proc \cup {NULL}]
      /\ Free \subseteq Proc
      /\ \A x \in Proc : p_child[x] \in Seq(Proc) /\ Range(p_child[x]) \subseteq Proc
  BY <1>1, TreeTypes
<1>4. \A x, c \in Proc : c \in Range(p_child[x]) => p_parent[c] = x /\ c \notin Free
  BY DEF PtrInv, SchedulerInv, TreeInv
<1>5. /\ semd_h \subseteq Key /\ pcbFree \in Seq(Proc) /\ ready_queue \in Seq(Proc)
      /\ NoDuplicates(pcbFree) /\ Free \cap Ready = {} /\ Free \cup Ready \subseteq Unkeyed
  BY <1>1 DEF LinkInv, TypeOK
<1>6. Ready \subseteq Proc
  BY <1>5, RangeOfSeq DEF Ready
<1>7. pc \in {"init", "user", "children"} => Families
  BY DEF PtrInv, Panicking, Panics
<1>8. /\ \A x \in Proc : Range(p_child[x]) \cap Free = {}
      /\ \A x, y \in Proc : x # y => Range(p_child[x]) \cap Range(p_child[y]) = {}
  BY <1>3, <1>4
<1>. QED BY <1>1, <1>2, <1>3, <1>5, <1>6, <1>7, <1>8

\* A PCB without p_semkey that is on neither list is on none.
LEMMA LooseUnkeyed ==
    ASSUME NEW keys \in SUBSET Key, NEW queue, NEW semkey,
           \A q \in Proc, k \in Key : semkey[q] = k <=> q \in Range(queue[k]),
           NEW p \in Proc, semkey[p] = NULL,
           NEW pcbs, NEW ready, p \notin Range(pcbs), p \notin Range(ready)
    PROVE  Loose(p, pcbs, ready, keys, queue)
  BY ProcFacts DEF Loose

\* Operations on the lists leave the tree alone.
LEMMA ListsKeepTree ==
    ASSUME NEW m, NEW r, SibTyped(m), ListsOnly(m, r), NEW c, \A x \in Proc : c[x] \in Seq(Proc)
    PROVE  /\ SibTyped(r)
           /\ (\A x \in Proc : Family(m, x, c[x])) => \A x \in Proc : Family(r, x, c[x])
<1>1. \A x \in Proc : r[p_sib(x)] = m[p_sib(x)] /\ r[child_of(x)] = m[child_of(x)]
  BY TreeAddresses DEF ListsOnly, Same
<1>2. SibTyped(r)
  BY <1>1, SibFrame
<1>3. ASSUME NEW x \in Proc, Family(m, x, c[x]) PROVE Family(r, x, c[x])
  <2>. DEFINE q == c[x]
  <2>1. q \in Seq(Proc) /\ Range(q) \subseteq Proc /\ (q # <<>> => Head(q) \in Proc)
    BY RangeOfSeq, FirstAndRest
  <2>. HIDE DEF q
  <2>2. Family(r, x, q)
    BY <1>1, <1>3, <2>1, FamilyFrame DEF q
  <2>. QED BY <2>2 DEF q
<1>. QED BY <1>2, <1>3

\* What is done to p and its children leaves the other families alone.
LEMMA OtherFamily ==
    ASSUME NEW m, NEW r, NEW p, NEW members, TreeOnly(m, r, p, members),
           NEW y \in Proc \ {p}, NEW q \in Seq(Proc), Family(m, y, q), Range(q) \cap members = {}
    PROVE  Family(r, y, q)
<1>1. Range(q) \subseteq Proc /\ (q # <<>> => Head(q) \in Proc /\ Head(q) \in Range(q))
  BY RangeOfSeq, FirstAndRest
<1>2. /\ r[child_of(y)].next = m[child_of(y)].next
      /\ \A x \in Range(q) : /\ r[child_of(x)].prev = m[child_of(x)].prev
                             /\ r[p_sib(x)] = m[p_sib(x)]
  BY <1>1 DEF TreeOnly
<1>. QED BY <1>1, <1>2, FamilyFrame

\* allocPcb leaves a PCB without children, a sibling of itself.
LEMMA AllocFamilies ==
    ASSUME NEW m, NEW r, SibTyped(m), NEW p \in Proc, NEW c, \A x \in Proc : c[x] \in Seq(Proc),
           \A x \in Proc : Family(m, x, c[x]) /\ p \notin Range(c[x]),
           Cleared(m, r, p)
    PROVE  /\ SibTyped(r) /\ r[child_of(p)].next = NULL
           /\ Family(r, p, <<>>)
           /\ \A x \in Proc \ {p} : Family(r, x, c[x])
<1>1. \A y \in Proc \ {p} : r[child_of(y)] = m[child_of(y)] /\ r[p_sib(y)] = m[p_sib(y)]
  BY TreeAddresses DEF Cleared, Same
<1>2. SibTyped(r)
  BY <1>1, TreeAddresses DEF SibTyped, Cleared
<1>3. Family(r, p, <<>>) /\ r[child_of(p)].next = NULL
  BY DEF Family, Cleared
<1>4. ASSUME NEW y \in Proc \ {p} PROVE Family(r, y, c[y])
  <2>. DEFINE q == c[y]
  <2>1. q \in Seq(Proc) /\ Family(m, y, q) /\ p \notin Range(q)
    OBVIOUS
  <2>2. Range(q) \subseteq Proc /\ (q # <<>> => Head(q) \in Proc /\ Head(q) \in Range(q))
    BY <2>1, RangeOfSeq, FirstAndRest
  <2>. HIDE DEF q
  <2>3. Family(r, y, q)
    BY <1>1, <2>1, <2>2, FamilyFrame
  <2>. QED BY <2>3 DEF q
<1>. QED BY <1>2, <1>3, <1>4

\* stop_running_proc and schedule_proc.
LEMMA StopPtr ==
    ASSUME NEW m, NEW key, NEW pcbs, NEW ready, NEW keys, NEW queue,
           Agrees(m, key, pcbs, ready, keys, queue), NEW prio, stop_running_proc(ready, prio),
           running_proc # idle_proc => Loose(running_proc, pcbs, ready, keys, queue)
    PROVE  LET r == stop_running_proc_ptr(m, prio)
           IN  Agrees(r, key, pcbs, ready_queue', keys, queue) /\ ListsOnly(m, r)
<1>1. CASE running_proc = idle_proc
  BY <1>1 DEF stop_running_proc, stop_running_proc_ptr, ListsOnly, Same
<1>2. CASE running_proc # idle_proc
  <2>. DEFINE reset == [prio EXCEPT ![running_proc] = original_priority[running_proc]]
  <2>1. /\ ready_queue' = insertProcQ(ready, running_proc, reset)
        /\ stop_running_proc_ptr(m, prio) = insertProcQ_ptr(m, ready_h, running_proc, reset)
    BY <1>2 DEF stop_running_proc, stop_running_proc_ptr
  <2>. HIDE DEF reset
  <2>. QED BY <1>2, <2>1, ReadyAgrees
<1>. QED BY <1>1, <1>2

\* schedule_proc.
LEMMA SchedulePtr ==
    ASSUME NEW m, NEW key, NEW pcbs, NEW keys, NEW queue,
           Agrees(m, key, pcbs, ready_queue, keys, queue), NEW p, NEW prio, schedule_proc(p, prio),
           Loose(p, pcbs, ready_queue, keys, queue),
           running_proc # idle_proc => Loose(running_proc, pcbs, ready_queue, keys, queue)
    PROVE  LET r == schedule_proc_ptr(m, p, prio)
           IN  Agrees(r, key, pcbs, ready_queue', keys, queue) /\ ListsOnly(m, r)
<1>1. CASE prio[p] > prio[running_proc] \/ running_proc = idle_proc
  <2>1. /\ stop_running_proc(ready_queue, prio)
        /\ schedule_proc_ptr(m, p, prio) = stop_running_proc_ptr(m, prio)
    BY <1>1 DEF schedule_proc, schedule_proc_ptr
  <2>. QED BY <2>1, StopPtr
<1>2. CASE ~(prio[p] > prio[running_proc] \/ running_proc = idle_proc)
  <2>1. /\ ready_queue' = insertProcQ(ready_queue, p, prio)
        /\ schedule_proc_ptr(m, p, prio) = insertProcQ_ptr(m, ready_h, p, prio)
    BY <1>2 DEF schedule_proc, schedule_proc_ptr
  <2>. QED BY <2>1, ReadyAgrees
<1>. QED BY <1>1, <1>2

-----------------------------------------------------------------------------
(* Every action keeps the pointers in step with the sequences. *)

\* A step that changes only lists, not the tree.
LEMMA PtrListsOnly ==
    ASSUME PtrInv, SchedulerInv', ListsHold', ListsOnly(mem, mem'), p_child' = p_child,
           Panicking => Panicking'
    PROVE  PtrInv'
<1>1. SibTyped(mem) /\ \A x \in Proc : p_child[x] \in Seq(Proc)
  BY PtrFacts DEF PtrInv
<1>2. SibTyped(mem') /\ (Families => Families')
  BY <1>1, ListsKeepTree DEF Families
<1>. QED BY <1>2 DEF PtrInv

\* The PCB that allocPcb takes.
LEMMA AllocPtr ==
    ASSUME PtrInv, pc \in {"init", "user"}, NEW p \in Proc, NEW prio, allocPcb(p, prio)
    PROVE  LET r == allocPcb_ptr(mem)
           IN  /\ ~list_empty(mem, pcbFree_h) /\ Owner(mem[pcbFree_h].next) = p
               /\ p \in Free /\ pcbFree' = Tail(pcbFree)
               /\ Loose(p, Tail(pcbFree), ready_queue, semd_h, s_procQ)
               /\ Agrees(r, s_key, Tail(pcbFree), ready_queue, semd_h, s_procQ)
               /\ r \in Heap /\ SibTyped(r) /\ r[child_of(p)].next = NULL
               /\ \A x \in Proc \ {p} : Family(r, x, p_child[x])
<1>. DEFINE r == allocPcb_ptr(mem)
            rest == Tail(pcbFree)
<1>1. pcbFree # <<>> /\ p = Head(pcbFree) /\ pcbFree' = rest
  BY DEF allocPcb
<1>2. /\ p \in Free /\ p \notin Range(rest) /\ Range(rest) \subseteq Free
      /\ p_semkey[p] = NULL /\ p \notin Ready
  <2>1. Range(pcbFree) = {Head(pcbFree)} \cup Range(rest) /\ Head(pcbFree) \notin Range(rest)
    BY <1>1, PtrFacts, FirstAndRest
  <2>2. p \in Free /\ p \notin Range(rest) /\ Range(rest) \subseteq Free
    BY <1>1, <2>1 DEF Free
  <2>. QED BY <2>2, PtrFacts DEF Unkeyed
<1>. HIDE DEF rest
<1>3. Loose(p, rest, ready_queue, semd_h, s_procQ)
  <2>1. /\ \A q \in Proc, k \in Key : p_semkey[q] = k <=> q \in Range(s_procQ[k])
        /\ semd_h \in SUBSET Key
    BY PtrFacts DEF SemkeyNamesQueue, Queued
  <2>. QED BY <1>2, <2>1, LooseUnkeyed DEF Ready
<1>4. /\ ~list_empty(mem, pcbFree_h)
      /\ Agrees(mem, s_key, pcbFree, ready_queue, semd_h, s_procQ)
  BY <1>1, AgreesRead DEF PtrInv, ListsHold
<1>5. /\ Owner(mem[pcbFree_h].next) = p
      /\ Agrees(r, s_key, rest, ready_queue, semd_h, s_procQ)
      /\ Cleared(mem, r, p)
  <2>1. /\ Agrees(mem, s_key, pcbFree, ready_queue, semd_h, s_procQ)
        /\ pcbFree # <<>> /\ p = Head(pcbFree)
        /\ Loose(p, Tail(pcbFree), ready_queue, semd_h, s_procQ)
    BY <1>1, <1>3, <1>4 DEF rest
  <2>. QED BY ONLY <2>1, AllocPcbPtr DEF rest
<1>. HIDE DEF r
<1>6. r \in Heap
  BY <1>5, AgreesRead
<1>7. /\ SibTyped(mem) /\ \A x \in Proc : p_child[x] \in Seq(Proc)
      /\ \A x \in Proc : Family(mem, x, p_child[x]) /\ p \notin Range(p_child[x])
  BY <1>2, PtrFacts DEF PtrInv, Families
<1>8. SibTyped(r) /\ r[child_of(p)].next = NULL /\ \A x \in Proc \ {p} : Family(r, x, p_child[x])
  BY <1>5, <1>7, AllocFamilies
<1>. QED BY <1>1, <1>2, <1>3, <1>4, <1>5, <1>6, <1>8 DEF r, rest

\* init_proc keeps the invariant.
LEMMA InitProcPtr ==
    ASSUME PtrInv, SchedulerInv', NEW prio \in Priorities, init_proc_ptr(prio) PROVE PtrInv'
<1>1. /\ pc = "init" /\ s_key' = s_key /\ semd_h' = semd_h /\ s_procQ' = s_procQ
      /\ init_proc(prio)
  BY DEF init_proc_ptr, init_proc, semVars
<1>2. ASSUME NEW p \in Proc, allocPcb(p, prio), p_child' = [p_child EXCEPT ![p] = <<>>],
             ready_queue' = insertProcQ(ready_queue, p, priority')
      PROVE  PtrInv'
  <2>. DEFINE r == allocPcb_ptr(mem)
              t == insertProcQ_ptr(r, ready_h, p, priority')
  <2>1. /\ ~list_empty(mem, pcbFree_h) /\ Owner(mem[pcbFree_h].next) = p
        /\ pcbFree' = Tail(pcbFree)
        /\ Loose(p, Tail(pcbFree), ready_queue, semd_h, s_procQ)
        /\ Agrees(r, s_key, Tail(pcbFree), ready_queue, semd_h, s_procQ)
        /\ SibTyped(r) /\ r[child_of(p)].next = NULL
        /\ \A x \in Proc \ {p} : Family(r, x, p_child[x])
    BY <1>1, <1>2, AllocPtr
  <2>2. mem' = t
    BY <2>1 DEF init_proc_ptr
  <2>. HIDE DEF r
  <2>3. /\ Agrees(t, s_key, Tail(pcbFree), insertProcQ(ready_queue, p, priority'), semd_h, s_procQ)
        /\ ListsOnly(r, t)
    BY <2>1, ReadyAgrees
  <2>4. ListsHold'
    BY <1>1, <1>2, <2>1, <2>2, <2>3 DEF ListsHold
  <2>5. \A x \in Proc : p_child'[x] \in Seq(Proc) /\ Family(r, x, p_child'[x])
    <3>1. p_child'[p] = <<>> /\ \A x \in Proc \ {p} : p_child'[x] = p_child[x]
      BY <1>2, PtrFacts
    <3>2. Family(r, p, <<>>)
      BY <2>1 DEF Family
    <3>3. \A x \in Proc \ {p} : p_child'[x] \in Seq(Proc) /\ Family(r, x, p_child'[x])
      BY <2>1, <3>1, PtrFacts
    <3>4. p_child'[p] \in Seq(Proc) /\ Family(r, p, p_child'[p])
      BY <3>1, <3>2
    <3>. QED BY <3>3, <3>4
  <2>. HIDE DEF t
  <2>6. SibTyped(mem') /\ Families'
    BY <2>1, <2>2, <2>3, <2>5, ListsKeepTree DEF Families
  <2>. QED BY <2>4, <2>6 DEF PtrInv
<1>3. ASSUME pcbFree = <<>>, pc' = "TooManyProcs", UNCHANGED <<pcbFree, pcbVars, treeVars, ready_queue>>
      PROVE  PtrInv'
  <2>1. mem' = mem
    <3>1. list_empty(mem, pcbFree_h)
      BY <1>3, AgreesRead DEF PtrInv, ListsHold
    <3>. QED BY <3>1 DEF init_proc_ptr
  <2>2. ListsHold' /\ SibTyped(mem')
    BY <1>1, <1>3, <2>1 DEF PtrInv, ListsHold
  <2>3. Panicking'
    BY <1>3 DEF Panicking, Panics
  <2>. QED BY <2>2, <2>3 DEF PtrInv
<1>. QED BY <1>1, <1>2, <1>3 DEF init_proc

\* set_running_proc(removeProcQ(&ready_queue))
LEMMA DispatchPtr ==
    ASSUME NEW m, NEW key, NEW pcbs, NEW keys, NEW queue,
           Agrees(m, key, pcbs, ready_queue, keys, queue),
           ready_queue' = IF ready_queue = <<>> THEN <<>> ELSE Tail(ready_queue)
    PROVE  LET r == removeProcQ_ptr(m, ready_h)
           IN  Agrees(r, key, pcbs, ready_queue', keys, queue) /\ ListsOnly(m, r)
  BY ReadyAgrees

\* launch keeps the invariant.
LEMMA LaunchPtr == ASSUME PtrInv, SchedulerInv', launch_ptr PROVE PtrInv'
<1>1. /\ pc = "init" /\ s_key' = s_key /\ mem' = removeProcQ_ptr(mem, ready_h)
      /\ UNCHANGED <<pcbFree, semd_h, s_procQ, p_child>>
      /\ ready_queue' = IF ready_queue = <<>> THEN <<>> ELSE Tail(ready_queue)
  BY DEF launch_ptr, launch, run_first_ready, semVars, treeVars
<1>2. ListsHold' /\ ListsOnly(mem, mem')
  BY <1>1, DispatchPtr DEF PtrInv, ListsHold
<1>. QED BY <1>1, <1>2, PtrListsOnly DEF Panicking, Panics

\* The running process is on no list.
LEMMA RunningIsLoose ==
    ASSUME PtrInv, pc = "user", running_proc # idle_proc
    PROVE  /\ running_proc \in Proc /\ running_proc \notin Free /\ p_semkey[running_proc] = NULL
           /\ running_proc \notin Ready
           /\ Loose(running_proc, pcbFree, ready_queue, semd_h, s_procQ)
<1>1. running_proc \in Proc /\ running_proc \notin Free \cup Ready /\ p_semkey[running_proc] = NULL
  <2>1. LinkInv
    BY PtrFacts
  <2>. QED BY <2>1, UserShare DEF InSyscall, Unkeyed
<1>2. /\ \A q \in Proc, k \in Key : p_semkey[q] = k <=> q \in Range(s_procQ[k])
      /\ semd_h \in SUBSET Key
  BY PtrFacts DEF SemkeyNamesQueue, Queued
<1>. QED BY <1>1, <1>2, LooseUnkeyed DEF Free, Ready

\* create_process keeps the invariant.
LEMMA CreateProcessPtr ==
    ASSUME PtrInv, SchedulerInv', NEW prio \in Priorities, create_process_ptr(prio) PROVE PtrInv'
<1>1. /\ pc = "user" /\ InSyscall /\ s_key' = s_key /\ semd_h' = semd_h /\ s_procQ' = s_procQ
      /\ create_process(prio) /\ running_proc # idle_proc
  BY DEF create_process_ptr, create_process, InSyscall, semVars
<1>2. ASSUME NEW p \in Proc, allocPcb(p, prio),
             p_child' = [p_child EXCEPT ![p] = <<>>, ![running_proc] = Append(@, p)],
             schedule_proc(p, [priority EXCEPT ![p] = prio])
      PROVE  PtrInv'
  <2>. DEFINE r == allocPcb_ptr(mem)
              parent == running_proc
              q == p_child[parent]
              t == insertChild(r, parent, p)
              prios == [priority EXCEPT ![p] = prio]
              u == schedule_proc_ptr(t, p, prios)
              rest == Tail(pcbFree)
  <2>1. /\ ~list_empty(mem, pcbFree_h) /\ Owner(mem[pcbFree_h].next) = p
        /\ p \in Free /\ pcbFree' = rest
        /\ Loose(p, rest, ready_queue, semd_h, s_procQ)
        /\ Agrees(r, s_key, rest, ready_queue, semd_h, s_procQ)
        /\ r \in Heap /\ SibTyped(r) /\ r[child_of(p)].next = NULL
        /\ \A x \in Proc \ {p} : Family(r, x, p_child[x])
    BY <1>1, <1>2, AllocPtr
  <2>2. /\ parent \in Proc /\ parent # p
        /\ Loose(parent, rest, ready_queue, semd_h, s_procQ)
    <3>1. /\ parent \in Proc /\ parent \notin Free
          /\ Loose(parent, pcbFree, ready_queue, semd_h, s_procQ)
      BY <1>1, RunningIsLoose
    <3>2. Range(rest) \subseteq Range(pcbFree)
      BY <1>2, PtrFacts, FirstAndRest DEF allocPcb
    <3>. QED BY <2>1, <3>1, <3>2 DEF Loose
  <2>3. mem' = u
    BY <2>1 DEF create_process_ptr
  <2>4. /\ q \in Seq(Proc) /\ Family(r, parent, q) /\ p \notin Range(q)
    BY <2>1, <2>2, PtrFacts
  <2>. HIDE DEF r, parent, q, rest
  <2>5. /\ t \in Heap /\ SibTyped(t) /\ TreeOnly(r, t, parent, Range(q) \cup {p})
        /\ Family(t, parent, Append(q, p))
    <3>1. /\ r \in Heap /\ SibTyped(r) /\ parent \in Proc /\ p \in Proc /\ parent # p
          /\ q \in Seq(Proc) /\ Family(r, parent, q) /\ p \notin Range(q)
          /\ r[child_of(p)].next = NULL
      BY <2>1, <2>2, <2>4
    <3>. QED BY ONLY <3>1, InsertChildPtr
  <2>. HIDE DEF t, prios
  <2>6. Agrees(t, s_key, rest, ready_queue, semd_h, s_procQ)
    BY <2>1, <2>5, TreeKeepsLists DEF TreeOnly
  <2>7. Agrees(u, s_key, rest, ready_queue', semd_h, s_procQ) /\ ListsOnly(t, u)
    BY <1>2, <2>1, <2>2, <2>6, SchedulePtr DEF prios, parent
  <2>8. ListsHold'
    BY <1>1, <2>1, <2>3, <2>7 DEF ListsHold
  <2>9. /\ p_child'[parent] = Append(q, p) /\ p_child'[p] = <<>>
        /\ \A x \in Proc \ {p, parent} : p_child'[x] = p_child[x]
    <3>1. p_child \in [Proc -> Seq(Proc)]
      BY PtrFacts
    <3>. QED BY <1>2, <2>2, <3>1 DEF q, parent
  <2>10. ASSUME NEW y \in Proc \ {p, parent} PROVE Family(t, y, p_child[y])
    <3>. DEFINE c == p_child[y]
                members == Range(q) \cup {p}
    <3>1. c \in Seq(Proc) /\ Family(r, y, c)
      BY <2>1, PtrFacts
    <3>2. Range(c) \cap members = {}
      BY <2>1, <2>2, PtrFacts DEF q
    <3>. HIDE DEF members, c
    <3>3. Family(t, y, c)
      BY <2>5, <3>1, <3>2, OtherFamily DEF members
    <3>. QED BY <3>3 DEF c
  <2>11. \A x \in Proc : p_child'[x] \in Seq(Proc) /\ Family(t, x, p_child'[x])
    <3>1. Family(t, p, <<>>)
      BY <2>1, <2>2, <2>5 DEF Family, TreeOnly
    <3>2. Append(q, p) \in Seq(Proc) /\ <<>> \in Seq(Proc)
      BY <2>4, AppendProperties
    <3>. QED BY <2>2, <2>5, <2>9, <2>10, <3>1, <3>2, PtrFacts
  <2>. HIDE DEF u
  <2>12. SibTyped(mem') /\ Families'
    BY <2>3, <2>5, <2>7, <2>11, ListsKeepTree DEF Families
  <2>. QED BY <2>8, <2>12 DEF PtrInv
<1>3. ASSUME pcbFree = <<>>, UNCHANGED <<pcbFree, pcbVars, treeVars, ready_queue, running_proc>>
      PROVE  PtrInv'
  <2>1. mem' = mem
    <3>1. list_empty(mem, pcbFree_h)
      BY <1>3, AgreesRead DEF PtrInv, ListsHold
    <3>. QED BY <3>1 DEF create_process_ptr
  <2>2. ListsHold' /\ ListsOnly(mem, mem') /\ p_child' = p_child
    BY <1>1, <1>3, <2>1 DEF PtrInv, ListsHold, ListsOnly, Same, treeVars
  <2>. QED BY <1>1, <2>2, PtrListsOnly DEF Panicking, Panics
<1>. QED BY <1>1, <1>2, <1>3 DEF create_process

\* The operations of asl.c, whatever the descriptors.
LEMMA InsertBlockedAgrees ==
    ASSUME NEW pcbs, NEW ready, NEW keys, NEW queue,
           Agrees(mem, s_key, pcbs, ready, keys, queue), NEW k, k \in DOMAIN queue,
           NEW p, Loose(p, pcbs, ready, keys, queue),
           k \notin keys => Cardinality(keys) < MAXPROC, insertBlocked_ptr(mem, k, p)
    PROVE  /\ ListsOnly(mem, mem')
           /\ Agrees(mem', s_key', pcbs, IF ready = <<>> THEN <<>> ELSE Tail(ready), keys \cup {k},
                     Put(queue, k, insertProcQ(IF k \in keys THEN queue[k] ELSE <<>>, p, priority)))
<1>1. PICK a, f : Lists(mem, s_key, a, f, pcbs, ready, keys, queue)
  BY DEF Agrees
<1>2. Unlinked(p, pcbs, ready, Waiting(a, s_key, queue))
  BY <1>1, LooseIsUnlinked
<1>. DEFINE all == keys \cup {k}
            rest == IF ready = <<>> THEN <<>> ELSE Tail(ready)
            next == Put(queue, k, insertProcQ(IF k \in keys THEN queue[k] ELSE <<>>, p, priority))
<1>3. /\ ListsOnly(mem, mem')
      /\ \E b, g : Lists(mem', s_key', b, g, pcbs, rest, all, next)
  BY <1>1, <1>2, InsertBlockedPtr
<1>. HIDE DEF all, rest, next
<1>4. Agrees(mem', s_key', pcbs, rest, all, next)
  BY <1>3 DEF Agrees
<1>. QED BY <1>3, <1>4 DEF all, rest, next

\* removeBlocked and outBlocked.
LEMMA UnlinkBlockedAgrees ==
    ASSUME NEW m, NEW pcbs, NEW ready, NEW keys, NEW queue,
           Agrees(m, s_key, pcbs, ready, keys, queue), NEW k, k \in keys,
           NEW p, NEW t, NEW rest,
           \/ t = removeBlocked(m, k) /\ queue[k] # <<>> /\ rest = Tail(queue[k])
           \/ t = outBlocked(m, p) /\ k = p_semkey[p] /\ rest = outProcQ(queue[k], p)
    PROVE  /\ ListsOnly(m, t)
           /\ Agrees(t, s_key, pcbs, ready, IF rest = <<>> THEN keys \ {k} ELSE keys,
                     Put(queue, k, rest))
<1>1. PICK a, f : Lists(m, s_key, a, f, pcbs, ready, keys, queue)
  BY DEF Agrees
<1>. DEFINE left == IF rest = <<>> THEN keys \ {k} ELSE keys
            next == Put(queue, k, rest)
<1>2. ListsOnly(m, t) /\ \E b, g : Lists(t, s_key, b, g, pcbs, ready, left, next)
  <2>1. CASE t = removeBlocked(m, k) /\ queue[k] # <<>> /\ rest = Tail(queue[k])
    BY <1>1, <2>1, RemoveBlockedPtr
  <2>2. CASE t = outBlocked(m, p) /\ k = p_semkey[p] /\ rest = outProcQ(queue[k], p)
    BY <1>1, <2>2, OutBlockedPtr
  <2>. QED BY <2>1, <2>2
<1>. HIDE DEF left, next
<1>3. Agrees(t, s_key, pcbs, ready, left, next)
  BY <1>2 DEF Agrees
<1>. QED BY <1>2, <1>3 DEF left, next

\* passeren keeps the invariant.
LEMMA PasserenPtr == ASSUME PtrInv, SchedulerInv', NEW k \in Sem, passeren_ptr(k) PROVE PtrInv'
<1>1. /\ pc = "user" /\ InSyscall /\ running_proc # idle_proc /\ passeren(k) /\ k \in Key
      /\ pcbFree' = pcbFree /\ p_child' = p_child
  BY ProcFacts DEF passeren_ptr, passeren, InSyscall, treeVars
<1>2. CASE semval[k] > 0
  <2>1. /\ UNCHANGED <<mem, s_key, ready_queue, semd_h, s_procQ>>
    BY <1>1, <1>2, PtrFacts DEF passeren_ptr, passeren, TypeOK
  <2>2. ListsHold' /\ ListsOnly(mem, mem')
    BY <1>1, <2>1 DEF PtrInv, ListsHold, ListsOnly, Same
  <2>. QED BY <1>1, <2>2, PtrListsOnly DEF Panicking, Panics
<1>3. CASE ~(semval[k] > 0)
  <2>. DEFINE queue == insertProcQ(Waiters(k), running_proc, priority)
              rest == IF ready_queue = <<>> THEN <<>> ELSE Tail(ready_queue)
  <2>1. Cardinality(semd_h) < MAXPROC /\ FreeSemd(k)
    BY <1>1, PtrFacts, EnoughSemds DEF FreeSemd
  <2>2. insertBlocked(k, running_proc) /\ run_first_ready /\ insertBlocked_ptr(mem, k, running_proc)
    BY <1>1, <1>3, <2>1 DEF passeren, passeren_ptr
  <2>3. /\ semd_h' = semd_h \cup {k} /\ s_procQ' = Put(s_procQ, k, queue) /\ ready_queue' = rest
    BY <2>2 DEF insertBlocked, run_first_ready, Put
  <2>4. k \in DOMAIN s_procQ
    BY <1>1, PtrFacts DEF TypeOK
  <2>5. /\ ListsOnly(mem, mem')
        /\ Agrees(mem', s_key', pcbFree, rest, semd_h \cup {k},
                  Put(s_procQ, k,
                      insertProcQ(IF k \in semd_h THEN s_procQ[k] ELSE <<>>, running_proc, priority)))
    BY <1>1, <2>1, <2>2, <2>4, RunningIsLoose, InsertBlockedAgrees DEF PtrInv, ListsHold
  <2>6. ListsHold'
    BY <1>1, <2>3, <2>5 DEF ListsHold, Waiters
  <2>. QED BY <1>1, <2>5, <2>6, PtrListsOnly DEF Panicking, Panics
<1>. QED BY <1>2, <1>3

\* verhogen keeps the invariant.
LEMMA VerhogenPtr == ASSUME PtrInv, SchedulerInv', NEW k \in Sem, verhogen_ptr(k) PROVE PtrInv'
<1>1. /\ pc = "user" /\ InSyscall /\ running_proc # idle_proc /\ verhogen(k) /\ k \in Key
      /\ pcbFree' = pcbFree /\ p_child' = p_child /\ s_key' = s_key
  BY ProcFacts DEF verhogen_ptr, verhogen, InSyscall, treeVars
<1>2. /\ Agrees(mem, s_key, pcbFree, ready_queue, semd_h, s_procQ)
      /\ k \in semd_h <=> Waiters(k) # <<>>
      /\ getSemd(mem, k) = NULL <=> k \notin semd_h
      /\ k \in semd_h => on(mem, procQ(getSemd(mem, k))) = s_procQ[k] /\ Waiters(k) = s_procQ[k]
  <2>1. Agrees(mem, s_key, pcbFree, ready_queue, semd_h, s_procQ)
    BY DEF PtrInv, ListsHold
  <2>2. k \in semd_h <=> s_procQ[k] # <<>>
    BY <1>1, PtrFacts DEF SemkeyNamesQueue
  <2>. QED BY <2>1, <2>2, AgreesSemd DEF Waiters
<1>3. CASE Waiters(k) = <<>>
  <2>1. UNCHANGED <<mem, ready_queue, semd_h, s_procQ>>
    BY <1>1, <1>2, <1>3 DEF verhogen_ptr, verhogen
  <2>2. ListsHold' /\ ListsOnly(mem, mem')
    BY <1>1, <2>1 DEF PtrInv, ListsHold, ListsOnly, Same
  <2>. QED BY <1>1, <2>2, PtrListsOnly DEF Panicking, Panics
<1>4. CASE Waiters(k) # <<>>
  <2>. DEFINE queue == s_procQ[k]
              p == Head(queue)
              rest == Tail(queue)
              prio == wakeup_priorities(p, Range(rest))
              m1 == removeBlocked(mem, k)
              m2 == schedule_proc_ptr(m1, p, prio)
  <2>1. /\ Waiters(k) = queue /\ queue # <<>> /\ k \in semd_h
        /\ queue \in Seq(Proc) /\ NoDuplicates(queue) /\ s_procQ \in [Key -> Seq(Proc)]
    BY <1>1, <1>2, <1>4, PtrFacts DEF LinkInv, TypeOK
  <2>2. unlinkBlocked(k, p) /\ schedule_proc(p, prio) /\ mem' = m2
    BY <1>1, <1>2, <2>1 DEF verhogen, verhogen_ptr
  <2>3. /\ p \in Proc /\ p \in Range(queue) /\ p_semkey[p] = k /\ k # NULL
        /\ p \notin Free /\ p \notin Ready
    <3>1. p \in Proc /\ p \in Range(queue)
      BY <2>1, FirstAndRest
    <3>2. p_semkey[p] = k /\ k # NULL
      BY <1>1, <3>1, PtrFacts, ProcFacts DEF SemkeyNamesQueue, Queued
    <3>. QED BY <3>1, <3>2, PtrFacts DEF Unkeyed
  <2>4. /\ s_procQ' = Put(s_procQ, k, rest)
        /\ semd_h' = IF rest = <<>> THEN semd_h \ {k} ELSE semd_h
        /\ p_semkey' = [p_semkey EXCEPT ![p] = NULL]
    <3>1. outProcQ(queue, p) = rest
      BY <2>1, OutHead
    <3>. QED BY <2>2, <3>1 DEF unlinkBlocked, Put
  <2>5. ListsOnly(mem, m1) /\ Agrees(m1, s_key, pcbFree, ready_queue, semd_h', s_procQ')
    <3>1. /\ ListsOnly(mem, m1)
          /\ Agrees(m1, s_key, pcbFree, ready_queue, IF rest = <<>> THEN semd_h \ {k} ELSE semd_h,
                    Put(s_procQ, k, rest))
      BY <1>2, <2>1, UnlinkBlockedAgrees
    <3>. QED BY <2>4, <3>1
  <2>6. /\ \A q \in Proc, l \in Key : p_semkey'[q] = l <=> q \in Range(s_procQ'[l])
        /\ semd_h' \in SUBSET Key
    <3>1. SemkeyNamesQueue'
      BY DEF SchedulerInv, QueueInv, LinkInv
    <3>. QED BY <3>1 DEF SemkeyNamesQueue, Queued
  <2>7. /\ running_proc \in Proc /\ p_semkey[running_proc] = NULL
        /\ running_proc \notin Free /\ running_proc \notin Ready
    BY <1>1, RunningIsLoose
  <2>8. p_semkey'[p] = NULL /\ p_semkey'[running_proc] = NULL
    <3>1. p_semkey \in [Proc -> Key \cup {NULL}]
      BY PtrFacts DEF TypeOK
    <3>. QED BY <2>3, <2>4, <2>7, <3>1
  <2>. HIDE DEF p, prio, m1, rest, queue
  <2>9. /\ Loose(p, pcbFree, ready_queue, semd_h', s_procQ')
        /\ Loose(running_proc, pcbFree, ready_queue, semd_h', s_procQ')
    <3>1. /\ p \notin Range(pcbFree) /\ p \notin Range(ready_queue)
          /\ running_proc \notin Range(pcbFree) /\ running_proc \notin Range(ready_queue)
      BY <2>3, <2>7 DEF Free, Ready
    <3>. DEFINE semkey == p_semkey'
                keys == semd_h'
                next == s_procQ'
    <3>2. /\ \A q \in Proc, l \in Key : semkey[q] = l <=> q \in Range(next[l])
          /\ keys \in SUBSET Key /\ semkey[p] = NULL /\ semkey[running_proc] = NULL
      BY <2>6, <2>8
    <3>. HIDE DEF semkey, keys, next
    <3>3. Loose(p, pcbFree, ready_queue, keys, next)
      BY <2>3, <3>1, <3>2, LooseUnkeyed
    <3>4. Loose(running_proc, pcbFree, ready_queue, keys, next)
      BY <2>7, <3>1, <3>2, LooseUnkeyed
    <3>. QED BY <3>3, <3>4 DEF keys, next
  <2>10. Agrees(m2, s_key, pcbFree, ready_queue', semd_h', s_procQ') /\ ListsOnly(m1, m2)
    BY <2>2, <2>5, <2>9, SchedulePtr
  <2>11. ListsHold' /\ ListsOnly(mem, mem')
    BY <1>1, <2>2, <2>5, <2>10, ListsOnlyFacts DEF ListsHold
  <2>. QED BY <1>1, <2>11, PtrListsOnly DEF Panicking, Panics
<1>. QED BY <1>3, <1>4

\* time_slice_callback keeps the invariant.
LEMMA TimeSlicePtr == ASSUME PtrInv, SchedulerInv', time_slice_ptr PROVE PtrInv'
<1>. DEFINE prio == aged(Ready)
            preempt == ready_queue # <<>> /\ prio[running_proc] <= prio[Head(ready_queue)]
            m1 == removeProcQ_ptr(mem, ready_h)
<1>1. /\ pc = "user" /\ s_key' = s_key /\ p_child' = p_child
      /\ UNCHANGED <<pcbFree, semd_h, s_procQ>>
      /\ preempt => stop_running_proc(Tail(ready_queue), prio)
      /\ ~preempt => ready_queue' = ready_queue
  BY DEF time_slice_ptr, time_slice_callback, semVars, treeVars, Ready
<1>2. Agrees(mem, s_key, pcbFree, ready_queue, semd_h, s_procQ) /\ on(mem, ready_h) = ready_queue
  BY AgreesRead DEF PtrInv, ListsHold
<1>3. mem' = IF preempt THEN stop_running_proc_ptr(m1, prio) ELSE mem
  BY <1>2 DEF time_slice_ptr, Ready
<1>. HIDE DEF prio, m1
<1>4. CASE preempt
  <2>. DEFINE rest == Tail(ready_queue)
  <2>0. ready_queue # <<>> /\ Range(rest) \subseteq Range(ready_queue)
    BY <1>4, PtrFacts, FirstAndRest
  <2>1. Agrees(m1, s_key, pcbFree, rest, semd_h, s_procQ) /\ ListsOnly(mem, m1)
    BY <1>2, <2>0, ReadyAgrees DEF m1
  <2>2. running_proc # idle_proc => Loose(running_proc, pcbFree, rest, semd_h, s_procQ)
    BY <1>1, <2>0, RunningIsLoose DEF Loose
  <2>. HIDE DEF rest
  <2>3. Agrees(mem', s_key, pcbFree, ready_queue', semd_h, s_procQ) /\ ListsOnly(m1, mem')
    <3>1. mem' = stop_running_proc_ptr(m1, prio) /\ stop_running_proc(rest, prio)
      BY <1>1, <1>3, <1>4 DEF rest
    <3>. QED BY <2>1, <2>2, <3>1, StopPtr
  <2>4. ListsHold' /\ ListsOnly(mem, mem')
    BY <1>1, <2>1, <2>3, ListsOnlyFacts DEF ListsHold
  <2>. QED BY <1>1, <2>4, PtrListsOnly DEF Panicking, Panics
<1>5. CASE ~preempt
  <2>1. ListsHold' /\ ListsOnly(mem, mem')
    BY <1>1, <1>2, <1>3, <1>5 DEF ListsHold, ListsOnly, Same
  <2>. QED BY <1>1, <2>1, PtrListsOnly DEF Panicking, Panics
<1>. QED BY <1>4, <1>5

\* outChild takes p from its parent's list.  A PCB that is in no such list is
\* free already.
LEMMA OutChildFamilies ==
    ASSUME PtrInv, pc = "user", NEW p \in Proc, p_parent[p] # NULL,
           p_child[p_parent[p]] # <<>>, outChild(p)
    PROVE  LET r == outChild_ptr(mem, p)
           IN  /\ ListsHold => Agrees(r, s_key, pcbFree, ready_queue, semd_h, s_procQ)
               /\ SibTyped(r)
               /\ p \in Free \/ \A x \in Proc : p_child'[x] \in Seq(Proc) /\ Family(r, x, p_child'[x])
<1>. DEFINE r == outChild_ptr(mem, p)
            parent == p_parent[p]
            q == p_child[parent]
            left == outProcQ(q, p)
<1>1. /\ mem \in Heap /\ SibTyped(mem) /\ parent \in Proc /\ q \in Seq(Proc) /\ q # <<>>
      /\ p_child \in [Proc -> Seq(Proc)]
      /\ \A x \in Proc : p_child[x] \in Seq(Proc) /\ Family(mem, x, p_child[x])
      /\ \A x \in Proc : x # parent => Range(p_child[x]) \cap Range(q) = {}
  BY PtrFacts DEF PtrInv, Families
<1>2. NoDuplicates(q) /\ left \in Seq(Proc)
  <2>1. NoDuplicates(q)
    BY <1>1 DEF PtrInv, SchedulerInv, TreeInv
  <2>. QED BY <1>1, <2>1, OutProcQSet
<1>3. Family(mem, parent, q) /\ ~emptyChild(mem, parent) /\ eldest(mem, parent) = Head(q)
  BY <1>1, FamilyReads
<1>4. \A x \in Proc : p_child'[x] = IF x = parent THEN left ELSE p_child[x]
  BY <1>1 DEF outChild
<1>5. ASSUME r \in Heap, Same(mem, r, Address \ TreeZone), ListsHold
      PROVE  Agrees(r, s_key, pcbFree, ready_queue, semd_h, s_procQ)
  BY <1>5, TreeKeepsLists DEF ListsHold
<1>6. ASSUME TreeOnly(mem, r, parent, Range(q)), Family(r, parent, left)
      PROVE  \A x \in Proc : p_child'[x] \in Seq(Proc) /\ Family(r, x, p_child'[x])
  <2>1. ASSUME NEW y \in Proc \ {parent} PROVE Family(r, y, p_child[y])
    <3>. DEFINE c == p_child[y]
                members == Range(q)
    <3>1. c \in Seq(Proc) /\ Family(mem, y, c) /\ Range(c) \cap members = {}
      BY <1>1
    <3>. HIDE DEF c, members, r, parent
    <3>2. Family(r, y, c)
      BY <1>6, <3>1, OtherFamily DEF members
    <3>. QED BY <3>2 DEF c
  <2>. QED BY <1>1, <1>2, <1>4, <1>6, <2>1
<1>7. CASE Head(q) = p
  <2>1. r = removeChild(mem, parent)
    BY <1>3, <1>7 DEF outChild_ptr
  <2>2. left = Tail(q)
    BY <1>1, <1>2, <1>7, OutHead
  <2>. HIDE DEF r, parent, q, left
  <2>3. /\ r \in Heap /\ SibTyped(r) /\ TreeOnly(mem, r, parent, Range(q))
        /\ Family(r, parent, left)
    BY <1>1, <1>3, <2>1, <2>2, RemoveChildPtr
  <2>. QED BY <1>5, <1>6, <2>3 DEF TreeOnly, r
<1>8. CASE Head(q) # p /\ p \in Range(q)
  <2>1. r = list_del(mem, p_sib(p))
    BY <1>3, <1>8 DEF outChild_ptr
  <2>. HIDE DEF r, parent, q
  <2>2. /\ r \in Heap /\ SibTyped(r) /\ TreeOnly(mem, r, parent, Range(q))
        /\ Family(r, parent, left)
    BY <1>1, <1>3, <1>8, <2>1, OutChildPtr
  <2>. QED BY <1>5, <1>6, <2>2 DEF TreeOnly, r
<1>9. CASE p \notin Range(q)
  <2>0. Head(q) # p
    BY <1>1, <1>9, FirstAndRest
  <2>1. r = list_del(mem, p_sib(p))
    BY <1>3, <2>0 DEF outChild_ptr
  <2>2. p \in Free
    BY <1>9 DEF PtrInv, SchedulerInv, TreeInv, Entered
  <2>. HIDE DEF r
  <2>3. r \in Heap /\ SibTyped(r) /\ Same(mem, r, Address \ Sibs)
    BY <1>1, <2>1, SibDel
  <2>4. Same(mem, r, Address \ TreeZone)
    BY <2>3, TreeAddresses DEF Same
  <2>. QED BY <1>5, <2>2, <2>3, <2>4 DEF r
<1>. QED BY <1>7, <1>8, <1>9

\* terminate_proc keeps the invariant, up to its first recursive call.
LEMMA TerminateProcPtr == ASSUME PtrInv, SchedulerInv', NEW p \in Proc, terminate_proc_ptr(p) PROVE PtrInv'
<1>1. /\ pc = "user" /\ InSyscall /\ running_proc # idle_proc /\ terminate_proc(p) /\ s_key' = s_key
      /\ UNCHANGED <<pcbFree, semd_h, s_procQ>>
  BY DEF terminate_proc_ptr, terminate_proc, InSyscall, semVars
<1>2. /\ Agrees(mem, s_key, pcbFree, ready_queue, semd_h, s_procQ)
      /\ Loose(running_proc, pcbFree, ready_queue, semd_h, s_procQ)
      /\ Families /\ p_parent[p] \in Proc \cup {NULL} /\ NULL \notin Proc
  BY <1>1, PtrFacts, RunningIsLoose, ProcFacts DEF PtrInv, ListsHold
<1>3. p_parent[p] # NULL => (emptyChild(mem, p_parent[p]) <=> p_child[p_parent[p]] = <<>>)
  <2>1. \A x \in Proc : p_child[x] \in Seq(Proc) /\ Family(mem, x, p_child[x])
    BY <1>2, PtrFacts DEF Families
  <2>. QED BY <1>2, <2>1, FamilyReads
<1>4. CASE p_parent[p] # NULL /\ p_child[p_parent[p]] = <<>>
  <2>1. pc' = "TreeBroken" /\ UNCHANGED <<treeVars, ready_queue, mem>>
    BY <1>1, <1>3, <1>4 DEF terminate_proc, terminate_proc_ptr
  <2>2. ListsHold' /\ ListsOnly(mem, mem') /\ p_child' = p_child
    BY <1>1, <1>2, <2>1 DEF ListsHold, ListsOnly, Same, treeVars
  <2>. QED BY <1>1, <2>2, PtrListsOnly DEF Panicking, Panics
<1>5. CASE ~(p_parent[p] # NULL /\ p_child[p_parent[p]] = <<>>)
  <2>. DEFINE r == IF p_parent[p] = NULL THEN mem ELSE outChild_ptr(mem, p)
              t == insertProcQ_ptr(r, ready_h, running_proc, priority)
  <2>1. /\ ready_queue' = insertProcQ(ready_queue, running_proc, priority)
        /\ frames' = <<p>> /\ pc' = "remove"
        /\ p_parent[p] = NULL => p_child' = p_child
        /\ p_parent[p] # NULL => outChild(p)
    BY <1>1, <1>5 DEF terminate_proc, treeVars
  <2>2. mem' = t
    BY <1>3, <1>5 DEF terminate_proc_ptr
  <2>3. /\ Agrees(r, s_key, pcbFree, ready_queue, semd_h, s_procQ) /\ SibTyped(r)
        /\ p \in Free \/ \A x \in Proc : p_child'[x] \in Seq(Proc) /\ Family(r, x, p_child'[x])
    <3>1. CASE p_parent[p] = NULL
      BY <1>2, <2>1, <3>1, PtrFacts DEF PtrInv, Families
    <3>2. CASE p_parent[p] # NULL
      <4>1. /\ Agrees(outChild_ptr(mem, p), s_key, pcbFree, ready_queue, semd_h, s_procQ)
            /\ SibTyped(outChild_ptr(mem, p))
            /\ \/ p \in Free
               \/ \A x \in Proc : p_child'[x] \in Seq(Proc) /\ Family(outChild_ptr(mem, p), x, p_child'[x])
        BY <1>1, <1>2, <1>5, <2>1, <3>2, OutChildFamilies DEF ListsHold
      <4>. QED BY <3>2, <4>1
    <3>. QED BY <3>1, <3>2
  <2>. HIDE DEF r
  <2>4. /\ Agrees(t, s_key, pcbFree, ready_queue', semd_h, s_procQ) /\ ListsOnly(r, t)
    BY <1>2, <2>1, <2>3, ReadyAgrees
  <2>. HIDE DEF t
  <2>5. ListsHold'
    BY <1>1, <2>2, <2>4 DEF ListsHold
  <2>6. SibTyped(mem')
    BY <2>2, <2>3, <2>4, TreeAddresses, SibFrame DEF ListsOnly, Same
  <2>7. Panicking' \/ Families'
    <3>1. CASE p \in Free
      <4>1. Free' = Free /\ Head(frames') = p
        BY <1>1, <2>1 DEF Free
      <4>. QED BY <2>1, <3>1, <4>1 DEF Panicking
    <3>2. CASE \A x \in Proc : p_child'[x] \in Seq(Proc) /\ Family(r, x, p_child'[x])
      <4>1. \A x \in Proc : Family(t, x, p_child'[x])
        BY <2>3, <2>4, <3>2, ListsKeepTree
      <4>. QED BY <2>2, <4>1 DEF Families
    <3>. QED BY <2>3, <3>1, <3>2
  <2>. QED BY <2>5, <2>6, <2>7 DEF PtrInv
<1>. QED BY <1>4, <1>5

\* recursive_remove_proc: the PCB leaves its queue and becomes free.
LEMMA RecursiveRemovePtr == ASSUME PtrInv, SchedulerInv', recursive_remove_ptr PROVE PtrInv'
<1>. DEFINE p == Head(frames)
            k == p_semkey[p]
            removed == IF k # NULL THEN outBlocked(mem, p)
                       ELSE IF dev_w_list[p] # NULL THEN mem ELSE outProcQ_ptr(mem, ready_h, p)
<1>1. /\ pc = "remove" /\ recursive_remove_proc /\ s_key' = s_key /\ p_child' = p_child
      /\ frames' = frames
      /\ mem' = IF pc' = "NotFound" THEN removed ELSE freePcb_ptr(removed, p)
  BY DEF recursive_remove_ptr, recursive_remove_proc, treeVars
<1>2. /\ p \in Proc /\ dev_w_list[p] = NULL
      /\ \/ p \notin Free /\ pc' = "children"
         \/ p \in Free /\ pc' = "NotFound"
  <2>1. TreeInv /\ Lost = {} /\ dev_w_list = [q \in Proc |-> NULL] /\ Head(frames) \in Proc
    BY <1>1, FrameFacts DEF PtrInv, SchedulerInv, QueueInv, Killing
  <2>2. /\ p \in Proc
        /\ \/ p \notin Free /\ pc' = "children"
           \/ p \in Free /\ pc' = "NotFound"
    BY <1>1, <2>1, RemoveFinds
  <2>. QED BY <2>1, <2>2
<1>3. /\ Agrees(mem, s_key, pcbFree, ready_queue, semd_h, s_procQ)
      /\ k \in Key \cup {NULL} /\ NULL \notin Key
  BY <1>2, PtrFacts, ProcFacts DEF PtrInv, ListsHold, TypeOK
<1>4. /\ \A q \in Proc, l \in Key : p_semkey'[q] = l <=> q \in Range(s_procQ'[l])
      /\ semd_h' \in SUBSET Key
  <2>1. SemkeyNamesQueue'
    BY DEF SchedulerInv, QueueInv, LinkInv
  <2>. QED BY <2>1 DEF SemkeyNamesQueue, Queued
<1>5. CASE p \in Free
  <2>1. k = NULL /\ p \notin Ready
    BY <1>5, PtrFacts DEF Unkeyed
  <2>2. UNCHANGED <<pcbFree, ready_queue, semd_h, s_procQ>> /\ pc' = "NotFound"
    BY <1>1, <1>2, <1>5, <2>1 DEF recursive_remove_proc, Ready
  <2>3. mem' = outProcQ_ptr(mem, ready_h, p)
    BY <1>1, <1>2, <2>1, <2>2
  <2>4. outProcQ(ready_queue, p) = ready_queue
    BY <2>1, PtrFacts, OutAbsent DEF Ready
  <2>. HIDE DEF p, k, removed
  <2>5. Agrees(mem', s_key, pcbFree, ready_queue, semd_h, s_procQ) /\ ListsOnly(mem, mem')
    BY <1>3, <2>3, <2>4, ReadyAgrees
  <2>6. ListsHold' /\ Panicking'
    BY <1>1, <2>2, <2>5 DEF ListsHold, Panicking, Panics
  <2>. QED BY <1>1, <2>5, <2>6, PtrListsOnly
<1>6. CASE p \notin Free
  <2>1. pc' = "children" /\ ~Panicking
    BY <1>1, <1>2, <1>6 DEF Panicking, Panics
  <2>2. mem' = freePcb_ptr(removed, p) /\ p_semkey'[p] = NULL /\ p \notin Range(ready_queue')
        /\ pcbFree' = <<p>> \o pcbFree
        /\ ListsOnly(mem, removed)
        /\ Agrees(removed, s_key, pcbFree, ready_queue', semd_h', s_procQ')
    <3>0. mem' = freePcb_ptr(removed, p)
      BY <1>1, <2>1
    <3>1. CASE k # NULL
      <4>. DEFINE queue == s_procQ[k]
                  rest == outProcQ(queue, p)
      <4>1. /\ k \in Key /\ p \in Range(Waiters(k)) /\ unlinkBlocked(k, p) /\ freePcb(p)
            /\ ready_queue' = ready_queue
        BY <1>1, <1>2, <1>3, <2>1, <3>1 DEF recursive_remove_proc
      <4>2. /\ s_procQ' = Put(s_procQ, k, rest)
            /\ semd_h' = IF rest = <<>> THEN semd_h \ {k} ELSE semd_h
            /\ p_semkey' = [p_semkey EXCEPT ![p] = NULL]
            /\ pcbFree' = <<p>> \o pcbFree
        BY <4>1 DEF unlinkBlocked, freePcb, Put
      <4>3. k \in semd_h
        <5>1. Range(<<>>) = {}
          BY DEF Range
        <5>. QED BY <4>1, <5>1 DEF Waiters
      <4>4. removed = outBlocked(mem, p)
        BY <3>1
      <4>5. p \notin Ready /\ p_semkey'[p] = NULL
        <5>1. p_semkey \in [Proc -> Key \cup {NULL}]
          BY PtrFacts DEF TypeOK
        <5>2. p \notin Ready
          BY <3>1, PtrFacts DEF Unkeyed
        <5>. QED BY <1>2, <4>2, <5>1, <5>2
      <4>. DEFINE t == outBlocked(mem, p)
      <4>6. /\ ListsOnly(mem, t)
            /\ Agrees(t, s_key, pcbFree, ready_queue, IF rest = <<>> THEN semd_h \ {k} ELSE semd_h,
                      Put(s_procQ, k, rest))
        <5>. DEFINE queues == s_procQ
        <5>1. \/ t = removeBlocked(mem, k) /\ queues[k] # <<>> /\ rest = Tail(queues[k])
              \/ t = outBlocked(mem, p) /\ k = p_semkey[p] /\ rest = outProcQ(queues[k], p)
          OBVIOUS
        <5>2. k \in semd_h /\ Agrees(mem, s_key, pcbFree, ready_queue, semd_h, queues)
          BY <1>3, <4>3
        <5>. HIDE DEF t, p, k, rest, queues
        <5>3. /\ ListsOnly(mem, t)
              /\ Agrees(t, s_key, pcbFree, ready_queue, IF rest = <<>> THEN semd_h \ {k} ELSE semd_h,
                        Put(queues, k, rest))
          BY ONLY <5>1, <5>2, UnlinkBlockedAgrees
        <5>. QED BY <5>3 DEF queues
      <4>. HIDE DEF rest, t
      <4>. QED BY <3>0, <4>1, <4>2, <4>4, <4>5, <4>6 DEF Ready, t
    <3>2. CASE k = NULL
      <4>1. /\ p \in Range(ready_queue) /\ ready_queue' = outProcQ(ready_queue, p) /\ freePcb(p)
            /\ UNCHANGED <<p_semkey, semd_h, s_procQ>>
        BY <1>1, <1>2, <2>1, <3>2 DEF recursive_remove_proc
      <4>2. removed = outProcQ_ptr(mem, ready_h, p)
        BY <1>2, <3>2
      <4>3. p \notin Range(ready_queue')
        <5>1. NoDuplicates(ready_queue) /\ ready_queue \in Seq(Proc)
          BY PtrFacts DEF LinkInv
        <5>. QED BY <4>1, <5>1, OutProcQSet
      <4>4. p_semkey'[p] = NULL /\ pcbFree' = <<p>> \o pcbFree
        BY <3>2, <4>1 DEF freePcb
      <4>5. /\ Agrees(removed, s_key, pcbFree, outProcQ(ready_queue, p), semd_h, s_procQ)
            /\ ListsOnly(mem, removed)
        <5>. HIDE DEF p, k, removed
        <5>. QED BY <1>3, <4>2, ReadyAgrees
      <4>. HIDE DEF removed
      <4>. QED BY <3>0, <4>1, <4>3, <4>4, <4>5
    <3>. QED BY <3>1, <3>2
  <2>3. Loose(p, pcbFree, ready_queue', semd_h', s_procQ')
    <3>1. p \notin Range(pcbFree)
      BY <1>6 DEF Free
    <3>. DEFINE semkey == p_semkey'
                keys == semd_h'
                next == s_procQ'
                ready == ready_queue'
    <3>2. /\ \A q \in Proc, l \in Key : semkey[q] = l <=> q \in Range(next[l])
          /\ keys \in SUBSET Key /\ semkey[p] = NULL /\ p \in Proc /\ p \notin Range(ready)
      BY <1>2, <1>4, <2>2
    <3>. HIDE DEF semkey, keys, next, ready, p, k, removed
    <3>3. Loose(p, pcbFree, ready, keys, next)
      BY <3>1, <3>2, LooseUnkeyed
    <3>. QED BY <3>3 DEF keys, next, ready
  <2>. HIDE DEF p, k, removed
  <2>4. /\ Agrees(mem', s_key, <<p>> \o pcbFree, ready_queue', semd_h', s_procQ')
        /\ ListsOnly(removed, mem')
    BY <2>2, <2>3, ReadyAgrees
  <2>5. ListsHold' /\ ListsOnly(mem, mem')
    BY <1>1, <2>2, <2>4, ListsOnlyFacts DEF ListsHold
  <2>. QED BY <1>1, <2>1, <2>5, PtrListsOnly
<1>. QED BY <1>5, <1>6

\* recursive_remove_proc: the next child.
LEMMA RemoveChildStepPtr == ASSUME PtrInv, SchedulerInv', remove_child_ptr PROVE PtrInv'
<1>. DEFINE p == Head(frames)
            q == p_child[p]
            r == removeChild(mem, p)
<1>1. /\ pc = "children" /\ s_key' = s_key /\ mem' = r /\ q # <<>>
      /\ UNCHANGED <<pcbFree, ready_queue, semd_h, s_procQ>>
      /\ p_child' = [p_child EXCEPT ![p] = Tail(@)]
  BY DEF remove_child_ptr, remove_child, semVars
<1>2. p \in Proc
  <2>1. LinkInv /\ Killing
    BY <1>1, PtrFacts DEF Killing
  <2>. QED BY <2>1, FrameFacts
<1>3. /\ mem \in Heap /\ SibTyped(mem) /\ q \in Seq(Proc) /\ Family(mem, p, q)
      /\ Agrees(mem, s_key, pcbFree, ready_queue, semd_h, s_procQ)
      /\ \A x \in Proc : p_child[x] \in Seq(Proc) /\ Family(mem, x, p_child[x])
      /\ \A x \in Proc \ {p} : Range(p_child[x]) \cap Range(q) = {}
  BY <1>1, <1>2, PtrFacts DEF PtrInv, ListsHold, Families
<1>4. \A x \in Proc : p_child'[x] = IF x = p THEN Tail(q) ELSE p_child[x]
  BY <1>1, <1>2, PtrFacts
<1>. HIDE DEF p, q, r
<1>5. /\ r \in Heap /\ SibTyped(r) /\ TreeOnly(mem, r, p, Range(q)) /\ Family(r, p, Tail(q))
  BY <1>1, <1>2, <1>3, RemoveChildPtr DEF r
<1>6. Agrees(r, s_key, pcbFree, ready_queue, semd_h, s_procQ)
  BY <1>3, <1>5, TreeKeepsLists DEF TreeOnly
<1>7. ASSUME NEW y \in Proc \ {p} PROVE Family(r, y, p_child[y])
  <2>. DEFINE c == p_child[y]
              members == Range(q)
  <2>1. c \in Seq(Proc) /\ Family(mem, y, c) /\ Range(c) \cap members = {}
    BY <1>3
  <2>. HIDE DEF c, members
  <2>2. Family(r, y, c)
    BY <1>5, <2>1, OtherFamily DEF members
  <2>. QED BY <2>2 DEF c
<1>8. Families'
  BY <1>1, <1>4, <1>5, <1>7 DEF Families
<1>9. ListsHold' /\ SibTyped(mem')
  BY <1>1, <1>5, <1>6 DEF ListsHold
<1>. QED BY <1>8, <1>9 DEF PtrInv

\* The end of terminate_proc keeps the invariant.
LEMMA TerminateReturnPtr == ASSUME PtrInv, SchedulerInv', terminate_return_ptr PROVE PtrInv'
<1>1. /\ pc = "children" /\ pc' = "user" /\ s_key' = s_key /\ p_child' = p_child
      /\ UNCHANGED <<pcbFree, semd_h, s_procQ>>
  BY DEF terminate_return_ptr, terminate_return, semVars, treeVars
<1>2. Agrees(mem, s_key, pcbFree, ready_queue, semd_h, s_procQ) /\ on(mem, ready_h) = ready_queue
  BY AgreesRead DEF PtrInv, ListsHold
<1>3. Agrees(mem', s_key, pcbFree, ready_queue', semd_h, s_procQ) /\ ListsOnly(mem, mem')
  <2>1. CASE running_proc \in Range(ready_queue)
    <3>1. /\ ready_queue' = outProcQ(ready_queue, running_proc)
          /\ mem' = outProcQ_ptr(mem, ready_h, running_proc)
      BY <1>2, <2>1 DEF terminate_return_ptr, terminate_return
    <3>. QED BY <1>2, <3>1, ReadyAgrees
  <2>2. CASE running_proc \notin Range(ready_queue)
    <3>1. /\ ready_queue' = IF ready_queue = <<>> THEN <<>> ELSE Tail(ready_queue)
          /\ mem' = removeProcQ_ptr(mem, ready_h)
      BY <1>2, <2>2 DEF terminate_return_ptr, terminate_return, run_first_ready
    <3>. QED BY <1>2, <3>1, DispatchPtr
  <2>. QED BY <2>1, <2>2
<1>4. ListsHold'
  BY <1>1, <1>3 DEF ListsHold
<1>. QED BY <1>1, <1>3, <1>4, PtrListsOnly DEF Panicking, Panics

\* The steps without pointers, and stuttering.
LEMMA NoPointersPtr == ASSUME PtrInv, SchedulerInv', no_pointers \/ UNCHANGED ptrVars PROVE PtrInv'
<1>1. /\ UNCHANGED <<mem, s_key, pcbFree, ready_queue, semd_h, s_procQ, p_child>>
      /\ pc' = pc /\ (pc # "children" => frames' = frames)
  BY DEF no_pointers, remove_return, halted, ptrVars, vars, semVars, treeVars
<1>2. ListsHold' /\ ListsOnly(mem, mem')
  BY <1>1 DEF PtrInv, ListsHold, ListsOnly, Same
<1>3. Panicking => Panicking'
  BY <1>1 DEF Panicking, Panics, Free
<1>. QED BY <1>1, <1>2, <1>3, PtrListsOnly

\* A step on the pointers is a step of Scheduler.
LEMMA PtrNextIsNext == PtrNext => Next
  BY DEF PtrNext, Next, starting, semaphore_call, process_call, terminating, no_pointers,
         init_proc_ptr, launch_ptr, create_process_ptr, passeren_ptr, verhogen_ptr, time_slice_ptr,
         terminate_proc_ptr, recursive_remove_ptr, remove_child_ptr, terminate_return_ptr

\* Every step keeps the invariant.
LEMMA PtrInvNext == PtrInv /\ [PtrNext]_ptrVars => PtrInv'
<1>. SUFFICES ASSUME PtrInv, [PtrNext]_ptrVars PROVE PtrInv'
  OBVIOUS
<1>1. SchedulerInv'
  <2>1. [Next]_vars
    BY PtrNextIsNext DEF ptrVars
  <2>. QED BY <2>1, SchedulerInvNext DEF PtrInv
<1>2. ASSUME NEW prio \in Priorities, init_proc_ptr(prio) PROVE PtrInv'
  BY <1>1, <1>2, InitProcPtr
<1>3. ASSUME NEW prio \in Priorities, create_process_ptr(prio) PROVE PtrInv'
  BY <1>1, <1>3, CreateProcessPtr
<1>4. ASSUME NEW k \in Sem, passeren_ptr(k) PROVE PtrInv'
  BY <1>1, <1>4, PasserenPtr
<1>5. ASSUME NEW k \in Sem, verhogen_ptr(k) PROVE PtrInv'
  BY <1>1, <1>5, VerhogenPtr
<1>6. ASSUME NEW p \in Proc, terminate_proc_ptr(p) PROVE PtrInv'
  BY <1>1, <1>6, TerminateProcPtr
<1>7. CASE launch_ptr
  BY <1>1, <1>7, LaunchPtr
<1>8. CASE time_slice_ptr
  BY <1>1, <1>8, TimeSlicePtr
<1>9. CASE recursive_remove_ptr
  BY <1>1, <1>9, RecursiveRemovePtr
<1>10. CASE remove_child_ptr
  BY <1>1, <1>10, RemoveChildStepPtr
<1>11. CASE terminate_return_ptr
  BY <1>1, <1>11, TerminateReturnPtr
<1>12. CASE no_pointers \/ UNCHANGED ptrVars
  BY <1>1, <1>12, NoPointersPtr
<1>. QED
  BY <1>2, <1>3, <1>4, <1>5, <1>6, <1>7, <1>8, <1>9, <1>10, <1>11, <1>12 DEF PtrNext

-----------------------------------------------------------------------------
(* Start-up *)

\* f is a record of the loop of initPcbs: f[i] is the heap after i PCBs.
Frees(m, n, f) ==
    f = [i \in 0 .. n |-> IF i = 0 THEN INIT_LIST_HEAD(m, pcbFree_h)
                          ELSE freePcb_ptr(f[i - 1], MAXPROC - i)]

\* The loop has a record.
LEMMA FreesExist == ASSUME NEW m, NEW n \in Nat PROVE \E f : Frees(m, n, f)
<1>. DEFINE Bad == {k \in Nat : ~ \E f : Frees(m, k, f)}
            start == INIT_LIST_HEAD(m, pcbFree_h)
            step(x, i) == freePcb_ptr(x, MAXPROC - i)
<1>. SUFFICES ASSUME Bad # {} PROVE FALSE
  OBVIOUS
<1>1. PICK k \in Bad : \A j \in Bad : k <= j
  <2>1. Bad \in SUBSET Nat
    OBVIOUS
  <2>. QED BY <2>1, LeastExists
<1>2. \A l, f : Frees(m, l, f) <=> f = [i \in 0 .. l |-> IF i = 0 THEN start ELSE step(f[i - 1], i)]
  BY DEF Frees
<1>3. k \in Nat /\ \A f : ~Frees(m, k, f)
  BY <1>1
<1>4. k # 0
  <2>. SUFFICES ASSUME k = 0 PROVE FALSE
    OBVIOUS
  <2>. DEFINE f == [i \in 0 .. 0 |-> start]
  <2>. HIDE DEF start, step
  <2>1. f = [i \in 0 .. 0 |-> IF i = 0 THEN start ELSE step(f[i - 1], i)]
    OBVIOUS
  <2>. HIDE DEF f
  <2>. QED BY <1>2, <1>3, <2>1
<1>5. k - 1 \in Nat /\ k - 1 \notin Bad
  BY <1>1, <1>3, <1>4
<1>6. PICK f : Frees(m, k - 1, f)
  BY <1>5
<1>. DEFINE g == [i \in 0 .. k |-> IF i < k THEN f[i] ELSE step(f[k - 1], k)]
<1>. HIDE DEF start, step, Bad
<1>7. f = [i \in 0 .. k - 1 |-> IF i = 0 THEN start ELSE step(f[i - 1], i)]
  BY <1>2, <1>6
<1>8. ASSUME NEW i \in 0 .. k PROVE g[i] = IF i = 0 THEN start ELSE step(g[i - 1], i)
  <2>1. CASE i < k
    <3>1. i \in 0 .. k - 1
      BY <1>3, <2>1
    <3>2. g[i] = f[i] /\ (i # 0 => g[i - 1] = f[i - 1])
      BY <1>3, <2>1
    <3>3. f[i] = IF i = 0 THEN start ELSE step(f[i - 1], i)
      BY <1>7, <3>1
    <3>. QED BY <3>2, <3>3
  <2>2. CASE ~(i < k)
    <3>1. i = k /\ k - 1 \in 0 .. k /\ k - 1 < k
      BY <1>3, <1>5, <2>2
    <3>2. g[i] = step(f[k - 1], k) /\ g[i - 1] = f[k - 1]
      BY <3>1
    <3>. QED BY <1>4, <3>1, <3>2
  <2>. QED BY <2>1, <2>2
<1>9. g = [i \in 0 .. k |-> g[i]]
  OBVIOUS
<1>. HIDE DEF g
<1>10. g = [i \in 0 .. k |-> IF i = 0 THEN start ELSE step(g[i - 1], i)]
  BY <1>8, <1>9
<1>. QED BY <1>2, <1>3, <1>10

\* The PCBs that the loop has freed, and the descriptors that that of initASL has.
FreedPcbs(n) == [j \in 1 .. n |-> MAXPROC - n + j - 1]
FreedSemds(n) == [j \in 1 .. n |-> n - j]

\* A sequence that is x and then q.
LEMMA Prepended ==
    ASSUME NEW q \in Seq(Proc), NEW x \in Proc, NEW n, n = Len(q) + 1, NEW s,
           s = [j \in 1 .. n |-> IF j = 1 THEN x ELSE q[j - 1]]
    PROVE  s = <<x>> \o q
<1>1. Len(q) \in Nat
  BY LenProperties
<1>2. \A j \in 1 .. n : ~(j < 1)
  BY <1>1
<1>3. Inserted(q, 1, x) = [j \in 1 .. n |-> IF j < 1 THEN q[j] ELSE IF j = 1 THEN x ELSE q[j - 1]]
  BY DEF Inserted
<1>4. s = Inserted(q, 1, x)
  BY <1>2, <1>3
<1>. QED BY <1>4, InsertedEnds

\* The free lists grow by one PCB, or one descriptor, that was not on them.
LEMMA FreedGrow ==
    ASSUME NEW n \in Nat, n < MAXPROC
    PROVE  LET x == MAXPROC - (n + 1)
           IN  /\ FreedPcbs(n) \in Seq(Proc) /\ FreedSemds(n) \in Seq(Proc)
               /\ x \in Proc /\ x \notin Range(FreedPcbs(n))
               /\ n \in Proc /\ n \notin Range(FreedSemds(n))
               /\ FreedPcbs(n + 1) = <<x>> \o FreedPcbs(n)
               /\ FreedSemds(n + 1) = <<n>> \o FreedSemds(n)
<1>. DEFINE x == MAXPROC - (n + 1)
            p == FreedPcbs(n)
            s == FreedSemds(n)
<1>1. MAXPROC \in Nat /\ Proc = 0 .. MAXPROC - 1
  BY MaxProcAssumption DEF Proc
<1>2. /\ DOMAIN p = 1 .. n /\ \A j \in 1 .. n : p[j] = MAXPROC - n + j - 1
      /\ p = [j \in 1 .. n |-> p[j]]
  BY DEF FreedPcbs
<1>3. /\ DOMAIN s = 1 .. n /\ \A j \in 1 .. n : s[j] = n - j
      /\ s = [j \in 1 .. n |-> s[j]]
  BY DEF FreedSemds
<1>4. /\ FreedPcbs(n + 1) = [j \in 1 .. n + 1 |-> MAXPROC - (n + 1) + j - 1]
      /\ FreedSemds(n + 1) = [j \in 1 .. n + 1 |-> n + 1 - j]
  BY DEF FreedPcbs, FreedSemds
<1>. HIDE DEF p, s
<1>5. x \in Proc /\ n \in Proc
  BY <1>1
<1>6. \A j \in 1 .. n : /\ p[j] \in Proc /\ p[j] # x
                        /\ s[j] \in Proc /\ s[j] # n
  BY <1>1, <1>2, <1>3
<1>7. p \in Seq(Proc) /\ Len(p) = n /\ s \in Seq(Proc) /\ Len(s) = n
  BY <1>2, <1>3, <1>6, FunctionIsSeq
<1>8. x \notin Range(p) /\ n \notin Range(s)
  BY <1>2, <1>3, <1>6 DEF Range
<1>9. \A j \in 1 .. n + 1 : j # 1 => j - 1 \in 1 .. n
  OBVIOUS
<1>10. FreedPcbs(n + 1) = [j \in 1 .. n + 1 |-> IF j = 1 THEN x ELSE p[j - 1]]
  <2>1. ASSUME NEW j \in 1 .. n + 1
        PROVE  MAXPROC - (n + 1) + j - 1 = IF j = 1 THEN x ELSE p[j - 1]
    <3>1. CASE j = 1
      BY <1>1, <3>1
    <3>2. CASE j # 1
      <4>1. p[j - 1] = MAXPROC - n + (j - 1) - 1
        BY <1>2, <1>9, <3>2
      <4>. QED BY <1>1, <3>2, <4>1
    <3>. QED BY <3>1, <3>2
  <2>. HIDE DEF x
  <2>. QED BY <1>4, <2>1
<1>11. FreedSemds(n + 1) = [j \in 1 .. n + 1 |-> IF j = 1 THEN n ELSE s[j - 1]]
  <2>1. ASSUME NEW j \in 1 .. n + 1 PROVE n + 1 - j = IF j = 1 THEN n ELSE s[j - 1]
    <3>1. CASE j = 1
      BY <3>1
    <3>2. CASE j # 1
      <4>1. s[j - 1] = n - (j - 1)
        BY <1>3, <1>9, <3>2
      <4>. QED BY <3>2, <4>1
    <3>. QED BY <3>1, <3>2
  <2>. QED BY <1>4, <2>1
<1>. HIDE DEF x
<1>12. FreedPcbs(n + 1) = <<x>> \o p
  BY <1>5, <1>7, <1>10, Prepended
<1>13. FreedSemds(n + 1) = <<n>> \o s
  BY <1>5, <1>7, <1>11, Prepended
<1>. QED BY <1>5, <1>7, <1>8, <1>12, <1>13 DEF x, p, s

\* The free list after n PCBs.
Freed(m, r, n) ==
    /\ Rings(r, "p_next", {pcbFree_h}, [h \in {pcbFree_h} |-> FreedPcbs(n)])
    /\ Same(m, r, Address \ Zone("p_next", {pcbFree_h}))

\* Before the other sentinels exist the PCBs are on the free list only.
LEMMA FreeKind == Kind("p_next", {pcbFree_h}) /\ pcbFree_h \in Address /\ \A p \in Proc : p_next(p) = <<"p_next", p>>
<1>1. pcbFree_h \in PcbHeads
  BY DEF PcbHeads
<1>. QED BY <1>1, Kinds DEF Kind, p_next

\* initPcbs leaves all PCBs on the free list, in order.
LEMMA InitPcbsPtr ==
    ASSUME NEW m \in Heap
    PROVE  Freed(m, initPcbs(m), MAXPROC)
<1>. DEFINE f == CHOOSE f : Frees(m, MAXPROC, f)
            start == INIT_LIST_HEAD(m, pcbFree_h)
            Bad == {k \in 0 .. MAXPROC : ~Freed(m, f[k], k)}
<1>1. MAXPROC \in Nat
  BY MaxProcAssumption
<1>2. Frees(m, MAXPROC, f)
  BY <1>1, FreesExist
<1>3. initPcbs(m) = f[MAXPROC]
  BY DEF initPcbs, Frees
<1>. HIDE DEF f
<1>4. f[0] = start /\ \A k \in 1 .. MAXPROC : f[k] = freePcb_ptr(f[k - 1], MAXPROC - k)
  BY <1>1, <1>2 DEF Frees
<1>5. Freed(m, start, 0)
  <2>1. /\ start \in Heap /\ start[pcbFree_h] = [next |-> pcbFree_h, prev |-> pcbFree_h]
        /\ \A a \in Address \ {pcbFree_h} : start[a] = m[a]
    BY FreeKind, InitListHead
  <2>. HIDE DEF start
  <2>2. FreedPcbs(0) = <<>> /\ <<>> \in Seq(Proc)
    BY DEF FreedPcbs
  <2>3. Ring(start, pcbFree_h, "p_next", <<>>)
    BY <2>1, RingInit
  <2>4. Rings(start, "p_next", {pcbFree_h}, [h \in {pcbFree_h} |-> <<>>])
    BY <2>1, <2>2, <2>3 DEF Rings
  <2>5. Same(m, start, Address \ Zone("p_next", {pcbFree_h}))
    BY <2>1 DEF Same, Zone
  <2>. QED BY <2>2, <2>4, <2>5 DEF Freed
<1>6. ASSUME NEW k \in 1 .. MAXPROC, Freed(m, f[k - 1], k - 1) PROVE Freed(m, f[k], k)
  <2>. DEFINE n == k - 1
              x == MAXPROC - k
              r == f[n]
              t == f[k]
              q == FreedPcbs(n)
              H == {pcbFree_h}
              c == [h \in H |-> q]
  <2>0. n \in Nat /\ n < MAXPROC /\ n + 1 = k
    BY <1>1
  <2>1. x \in Proc /\ x \notin Range(q) /\ FreedPcbs(k) = <<x>> \o q
    BY <2>0, FreedGrow
  <2>2. Kind("p_next", H) /\ Rings(r, "p_next", H, c) /\ Same(m, r, Address \ Zone("p_next", H))
    BY <1>6, FreeKind DEF Freed
  <2>3. t = list_add(r, <<"p_next", x>>, pcbFree_h)
    BY <1>4 DEF freePcb_ptr, p_next
  <2>. DEFINE more == [c EXCEPT ![pcbFree_h] = <<x>> \o c[pcbFree_h]]
              next == [h \in H |-> <<x>> \o q]
  <2>4. more = next /\ pcbFree_h \in H /\ c[pcbFree_h] = q /\ \A h \in H : x \notin Range(c[h])
    BY <2>1
  <2>. HIDE DEF H, c, n, x, r, t, q
  <2>5. Rings(t, "p_next", H, more) /\ Same(r, t, Address \ Zone("p_next", H))
    BY <2>1, <2>2, <2>3, <2>4, RingsPush
  <2>6. Same(m, t, Address \ Zone("p_next", H))
    BY <2>2, <2>5 DEF Same
  <2>. HIDE DEF more
  <2>. QED BY <2>1, <2>4, <2>5, <2>6 DEF Freed, H, t
<1>7. Bad = {}
  <2>. SUFFICES ASSUME Bad # {} PROVE FALSE
    OBVIOUS
  <2>1. Bad \in SUBSET Nat
    OBVIOUS
  <2>2. PICK k \in Bad : \A j \in Bad : k <= j
    BY <2>1, LeastExists
  <2>3. k # 0
    BY <1>4, <1>5, <2>2
  <2>4. k \in 1 .. MAXPROC /\ k - 1 \in 0 .. MAXPROC /\ k - 1 \notin Bad
    BY <1>1, <2>2, <2>3
  <2>. QED BY <1>6, <2>2, <2>4
<1>. QED BY <1>1, <1>3, <1>7

\* initASL: the heap before the loop, and a step of it.
initial_semds(m) == INIT_LIST_HEAD(INIT_LIST_HEAD(m, asl_h), semdFree_h)
add_semd(m, i) == list_add(INIT_LIST_HEAD(INIT_LIST_HEAD(m, s_next(i)), procQ(i)), s_next(i), semdFree_h)

\* f is a record of that of initASL: f[i] is the heap after i descriptors.
Adds(m, n, f) ==
    f = [i \in 0 .. n |-> IF i = 0 THEN initial_semds(m)
                          ELSE add_semd(f[i - 1], i - 1)]

\* The loop has a record.
LEMMA AddsExist == ASSUME NEW m, NEW n \in Nat PROVE \E f : Adds(m, n, f)
<1>. DEFINE Bad == {k \in Nat : ~ \E f : Adds(m, k, f)}
            start == initial_semds(m)
            step(x, i) == add_semd(x, i - 1)
<1>. SUFFICES ASSUME Bad # {} PROVE FALSE
  OBVIOUS
<1>1. PICK k \in Bad : \A j \in Bad : k <= j
  <2>1. Bad \in SUBSET Nat
    OBVIOUS
  <2>. QED BY <2>1, LeastExists
<1>2. \A l, f : Adds(m, l, f) <=> f = [i \in 0 .. l |-> IF i = 0 THEN start ELSE step(f[i - 1], i)]
  BY DEF Adds
<1>3. k \in Nat /\ \A f : ~Adds(m, k, f)
  BY <1>1
<1>4. k # 0
  <2>. SUFFICES ASSUME k = 0 PROVE FALSE
    OBVIOUS
  <2>. DEFINE f == [i \in 0 .. 0 |-> start]
  <2>. HIDE DEF start, step
  <2>1. f = [i \in 0 .. 0 |-> IF i = 0 THEN start ELSE step(f[i - 1], i)]
    OBVIOUS
  <2>. HIDE DEF f
  <2>. QED BY <1>2, <1>3, <2>1
<1>5. k - 1 \in Nat /\ k - 1 \notin Bad
  BY <1>1, <1>3, <1>4
<1>6. PICK f : Adds(m, k - 1, f)
  BY <1>5
<1>. DEFINE g == [i \in 0 .. k |-> IF i < k THEN f[i] ELSE step(f[k - 1], k)]
<1>. HIDE DEF start, step, Bad
<1>7. f = [i \in 0 .. k - 1 |-> IF i = 0 THEN start ELSE step(f[i - 1], i)]
  BY <1>2, <1>6
<1>8. ASSUME NEW i \in 0 .. k PROVE g[i] = IF i = 0 THEN start ELSE step(g[i - 1], i)
  <2>1. CASE i < k
    <3>1. i \in 0 .. k - 1
      BY <1>3, <2>1
    <3>2. g[i] = f[i] /\ (i # 0 => g[i - 1] = f[i - 1])
      BY <1>3, <2>1
    <3>3. f[i] = IF i = 0 THEN start ELSE step(f[i - 1], i)
      BY <1>7, <3>1
    <3>. QED BY <3>2, <3>3
  <2>2. CASE ~(i < k)
    <3>1. i = k /\ k - 1 \in 0 .. k /\ k - 1 < k
      BY <1>3, <1>5, <2>2
    <3>2. g[i] = step(f[k - 1], k) /\ g[i - 1] = f[k - 1]
      BY <3>1
    <3>. QED BY <1>4, <3>1, <3>2
  <2>. QED BY <2>1, <2>2
<1>9. g = [i \in 0 .. k |-> g[i]]
  OBVIOUS
<1>. HIDE DEF g
<1>10. g = [i \in 0 .. k |-> IF i = 0 THEN start ELSE step(g[i - 1], i)]
  BY <1>8, <1>9
<1>. QED BY <1>2, <1>3, <1>10

ProcQs == {procQ(i) : i \in Semd}

\* The descriptors after n of them.
Added(m, r, n) ==
    /\ Semds(r, <<>>, FreedSemds(n))
    /\ \A i \in 0 .. n - 1 : r[procQ(i)] = [next |-> procQ(i), prev |-> procQ(i)]
    /\ Same(m, r, Address \ (SemdZone \cup ProcQs))

\* The list_heads of descriptors.
LEMMA SemdAddresses ==
    /\ \A i \in Semd : /\ procQ(i) \in Address /\ procQ(i) \notin SemdZone /\ procQ(i) \in ProcQs
                       /\ s_next(i) \in Address /\ s_next(i) \in SemdZone /\ s_next(i) \notin ProcQs
                       /\ s_next(i) \notin SemdHeads /\ s_next(i) = <<"s_next", i>>
    /\ \A i, j \in Semd : i # j => procQ(i) # procQ(j)
    /\ asl_h \in Address \ ProcQs /\ semdFree_h \in Address \ ProcQs /\ asl_h # semdFree_h
    /\ SemdHeads \subseteq SemdZone /\ SemdZone \subseteq Address
<1>. USE DEF procQ, s_next, asl_h, semdFree_h
<1>1. \A i \in Semd : procQ(i) \in Address /\ s_next(i) \in Address /\ procQ(i) \in ProcQs
  BY DEF Address, ProcQs
<1>2. \A a \in ProcQs : a[1] = "s_procQ"
  BY DEF ProcQs
<1>3. \A i \in Semd : s_next(i) \in SemdZone /\ s_next(i) \notin SemdHeads
  BY FewEnough DEF SemdZone, Zone, SemdHeads
<1>4. \A a \in SemdZone : a[1] \in {"semdFree_h", "semd_h", "s_next"}
  BY DEF SemdZone, Zone, SemdHeads
<1>5. \A i \in Semd : procQ(i) \notin SemdZone /\ s_next(i) \notin ProcQs
  BY <1>2, <1>4
<1>6. asl_h \in Address \ ProcQs /\ semdFree_h \in Address \ ProcQs
  BY <1>2 DEF Address
<1>7. SemdHeads \subseteq SemdZone /\ SemdZone \subseteq Address
  BY Kinds DEF SemdZone, Zone
<1>. QED BY <1>1, <1>3, <1>5, <1>6, <1>7

\* One more descriptor becomes free.
LEMMA AddSemd ==
    ASSUME NEW m, NEW r, NEW n \in Nat, n < MAXPROC, Added(m, r, n)
    PROVE  Added(m, add_semd(r, n), n + 1)
<1>. DEFINE H == SemdHeads
            d == FreedSemds(n)
            c == SemdContents(<<>>, d)
            s == INIT_LIST_HEAD(r, s_next(n))
            t == INIT_LIST_HEAD(s, procQ(n))
            u == add_semd(r, n)
            self == [next |-> procQ(n), prev |-> procQ(n)]
<1>1. /\ n \in Proc /\ n \in Semd /\ n \notin Range(d) /\ FreedSemds(n + 1) = <<n>> \o d
  BY FreedGrow, FewEnough
<1>2. Kind("s_next", H) /\ Rings(r, "s_next", H, c) /\ r \in Heap
  BY Kinds DEF Added, Semds, Rings
<1>3. \A h \in H : n \notin Range(c[h])
  <2>1. Range(<<>>) = {}
    BY DEF Range
  <2>. QED BY <1>1, <2>1 DEF SemdContents
<1>4. s \in Heap /\ \A a \in Address \ {s_next(n)} : s[a] = r[a]
  BY <1>1, <1>2, InitListHead, SemdAddresses
<1>5. t \in Heap /\ t[procQ(n)] = self /\ \A a \in Address \ {procQ(n)} : t[a] = s[a]
  <2>. HIDE DEF s
  <2>. QED BY <1>1, <1>4, InitListHead, SemdAddresses
<1>6. u = list_add(t, <<"s_next", n>>, semdFree_h)
  BY DEF add_semd, s_next
<1>. DEFINE more == [c EXCEPT ![semdFree_h] = <<n>> \o c[semdFree_h]]
<1>7. more = SemdContents(<<>>, FreedSemds(n + 1)) /\ semdFree_h \in H
  <2>1. Put(c, semdFree_h, <<n>> \o d) = SemdContents(<<>>, <<n>> \o d) /\ c[semdFree_h] = d
    BY SemdContentsAt
  <2>. QED BY <1>1, <2>1, SemdContentsAt DEF Put
<1>. HIDE DEF s, t, u, d, self, more
<1>8. Rings(t, "s_next", H, c)
  <2>1. \A a \in Address \ {s_next(n), procQ(n)} : t[a] = r[a]
    BY <1>4, <1>5
  <2>. HIDE DEF c, H
  <2>2. ASSUME NEW h \in H PROVE Ring(t, h, "s_next", c[h])
    <3>. DEFINE q == c[h]
    <3>1. /\ q \in Seq(Proc) /\ Foot(h, "s_next", q) \subseteq SemdZone
          /\ <<"s_next", n>> \notin Foot(h, "s_next", q)
      BY <1>1, <1>2, <1>3, RingsApart DEF H, SemdZone
    <3>2. \A a \in Foot(h, "s_next", q) : t[a] = r[a]
      BY <1>1, <2>1, <3>1, SemdAddresses
    <3>3. Ring(r, h, "s_next", q)
      BY <1>2 DEF Rings
    <3>. HIDE DEF q
    <3>4. Ring(t, h, "s_next", q)
      BY <3>1, <3>2, <3>3, RingFrame
    <3>. QED BY <3>4 DEF q
  <2>. QED BY <1>2, <1>5, <2>2 DEF Rings
<1>9. Rings(u, "s_next", H, more) /\ Same(t, u, Address \ Zone("s_next", H))
  <2>. HIDE DEF c, H
  <2>1. semdFree_h \in H
    BY <1>7
  <2>. QED BY <1>1, <1>2, <1>3, <1>6, <1>8, <2>1, RingsPush DEF more
<1>10. Semds(u, <<>>, FreedSemds(n + 1))
  BY <1>7, <1>9 DEF Semds
<1>11. Same(t, u, Address \ SemdZone)
  BY <1>9 DEF SemdZone
<1>12. Same(m, u, Address \ (SemdZone \cup ProcQs))
  <2>1. Same(m, r, Address \ (SemdZone \cup ProcQs))
    BY DEF Added
  <2>. QED BY <1>1, <1>4, <1>5, <1>11, <2>1, SemdAddresses DEF Same
<1>13. ASSUME NEW i \in 0 .. n PROVE u[procQ(i)] = [next |-> procQ(i), prev |-> procQ(i)]
  <2>1. i \in Semd
    BY MaxProcAssumption DEF Semd
  <2>2. u[procQ(i)] = t[procQ(i)]
    BY <1>11, <2>1, SemdAddresses DEF Same
  <2>3. CASE i = n
    BY <1>5, <2>2, <2>3 DEF self
  <2>4. CASE i # n
    <3>1. procQ(i) \in Address \ {procQ(n), s_next(n)}
      BY <1>1, <2>1, <2>4, SemdAddresses
    <3>2. t[procQ(i)] = r[procQ(i)]
      BY <1>4, <1>5, <3>1
    <3>3. i \in 0 .. n - 1
      BY <2>4
    <3>. QED BY <2>2, <3>2, <3>3 DEF Added
  <2>. QED BY <2>3, <2>4
<1>14. 0 .. (n + 1) - 1 = 0 .. n
  OBVIOUS
<1>. QED BY <1>10, <1>12, <1>13, <1>14 DEF Added, u

\* initASL leaves all descriptors free, with empty queues, and the ASL empty.
LEMMA InitASLPtr ==
    ASSUME NEW m \in Heap
    PROVE  Added(m, initASL(m), MAXPROC)
<1>. DEFINE f == CHOOSE f : Adds(m, MAXPROC, f)
            start == initial_semds(m)
            Bad == {k \in 0 .. MAXPROC : ~Added(m, f[k], k)}
<1>1. MAXPROC \in Nat
  BY MaxProcAssumption
<1>2. Adds(m, MAXPROC, f)
  BY <1>1, AddsExist
<1>3. initASL(m) = f[MAXPROC]
  BY DEF initASL, Adds, initial_semds, add_semd
<1>. HIDE DEF f
<1>4. f[0] = start /\ \A k \in 1 .. MAXPROC : f[k] = add_semd(f[k - 1], k - 1)
  BY <1>1, <1>2 DEF Adds
<1>5. Added(m, start, 0)
  <2>. DEFINE a == INIT_LIST_HEAD(m, asl_h)
  <2>1. /\ a \in Heap /\ a[asl_h] = [next |-> asl_h, prev |-> asl_h]
        /\ \A b \in Address \ {asl_h} : a[b] = m[b]
    BY SemdAddresses, InitListHead
  <2>2. start = INIT_LIST_HEAD(a, semdFree_h)
    BY DEF initial_semds
  <2>. HIDE DEF a, start
  <2>3. /\ start \in Heap /\ start[semdFree_h] = [next |-> semdFree_h, prev |-> semdFree_h]
        /\ \A b \in Address \ {semdFree_h} : start[b] = a[b]
    BY <2>1, <2>2, SemdAddresses, InitListHead
  <2>4. start[asl_h] = [next |-> asl_h, prev |-> asl_h]
    BY <2>1, <2>3, SemdAddresses
  <2>5. FreedSemds(0) = <<>> /\ <<>> \in Seq(Proc) /\ Range(<<>>) = {}
    BY DEF FreedSemds, Range
  <2>6. Ring(start, asl_h, "s_next", <<>>) /\ Ring(start, semdFree_h, "s_next", <<>>)
    BY <2>3, <2>4, RingInit
  <2>7. Rings(start, "s_next", SemdHeads, SemdContents(<<>>, <<>>))
    BY <2>3, <2>5, <2>6 DEF Rings, SemdContents, SemdHeads
  <2>8. Same(m, start, Address \ (SemdZone \cup ProcQs))
    BY <2>1, <2>3, SemdAddresses DEF Same, SemdHeads
  <2>. QED BY <2>5, <2>7, <2>8 DEF Added, Semds
<1>6. ASSUME NEW k \in 1 .. MAXPROC, Added(m, f[k - 1], k - 1) PROVE Added(m, f[k], k)
  <2>. DEFINE n == k - 1
              r == f[n]
  <2>1. n \in Nat /\ n < MAXPROC /\ n + 1 = k
    BY <1>1
  <2>2. f[k] = add_semd(r, n) /\ Added(m, r, n)
    BY <1>4, <1>6
  <2>. HIDE DEF n, r
  <2>. QED BY <2>1, <2>2, AddSemd
<1>7. Bad = {}
  <2>. SUFFICES ASSUME Bad # {} PROVE FALSE
    OBVIOUS
  <2>1. Bad \in SUBSET Nat
    OBVIOUS
  <2>2. PICK k \in Bad : \A j \in Bad : k <= j
    BY <2>1, LeastExists
  <2>3. k # 0
    BY <1>4, <1>5, <2>2
  <2>4. k \in 1 .. MAXPROC /\ k - 1 \in 0 .. MAXPROC /\ k - 1 \notin Bad
    BY <1>1, <2>2, <2>3
  <2>. QED BY <1>6, <2>2, <2>4
<1>. QED BY <1>1, <1>3, <1>7

\* Where the steps of start-up write.
LEMMA StartAddresses ==
    /\ ready_h \in Address \ SemdZone /\ ready_h \notin ProcQs /\ ready_h # pcbFree_h
    /\ PcbHeads = {pcbFree_h, ready_h} \cup ProcQs
    /\ LET Z == Zone("p_next", {pcbFree_h})
       IN  /\ Z \subseteq PcbZone /\ ready_h \notin Z /\ Z \cap ProcQs = {} /\ Z \cap SemdZone = {}
           /\ Z \cap TreeZone = {}
    /\ ProcQs \subseteq PcbZone /\ ready_h \in PcbZone
<1>. DEFINE Z == Zone("p_next", {pcbFree_h})
<1>1. PcbHeads = {pcbFree_h, ready_h} \cup ProcQs
  BY DEF PcbHeads, ProcQs
<1>2. ready_h \in PcbZone /\ ProcQs \subseteq PcbZone /\ Z \subseteq PcbZone
  BY <1>1 DEF PcbZone, Zone
<1>3. /\ \A a \in Z : a[1] \in {"pcbFree_h", "p_next"}
      /\ \A a \in ProcQs : a[1] = "s_procQ"
  BY DEF Zone, pcbFree_h, ProcQs, procQ
<1>4. ready_h[1] = "ready_queue" /\ ready_h # pcbFree_h
  BY DEF ready_h, pcbFree_h
<1>5. ready_h \notin Z /\ ready_h \notin ProcQs /\ Z \cap ProcQs = {}
  BY <1>3, <1>4
<1>. QED BY <1>1, <1>2, <1>4, <1>5, Kinds

\* The lists after start-up: everything is free.
LEMMA PtrInitLists ==
    ASSUME PtrInit
    PROVE  ListsHold /\ \A a \in TreeZone : mem[a] = [next |-> NULL, prev |-> NULL]
<1>. DEFINE m == initPcbs(zeroed)
            r == initASL(m)
            Z == Zone("p_next", {pcbFree_h})
            F == FreedSemds(MAXPROC)
            w == Waiting(<<>>, s_key, s_procQ)
            c == Contents(pcbFree, <<>>, w)
<1>1. MAXPROC \in Nat /\ Semd = 0 .. MAXPROC - 1 /\ Semd = Proc
  BY MaxProcAssumption, FewEnough DEF Semd
<1>2. zeroed \in Heap
  BY DEF zeroed, Heap, Pointer
<1>3. Freed(zeroed, m, MAXPROC) /\ m \in Heap
  BY <1>2, InitPcbsPtr DEF Freed, Rings
<1>4. Added(m, r, MAXPROC) /\ r \in Heap
  <2>. HIDE DEF m
  <2>. QED BY <1>3, InitASLPtr DEF Added, Semds, Rings
<1>5. /\ mem = INIT_LIST_HEAD(r, ready_h) /\ s_key = [i \in Semd |-> NULL]
      /\ pcbFree = [i \in 1 .. MAXPROC |-> i - 1] /\ ready_queue = <<>> /\ semd_h = {}
  BY DEF PtrInit, Init
<1>. HIDE DEF m, r
<1>6. /\ mem \in Heap /\ mem[ready_h] = [next |-> ready_h, prev |-> ready_h]
      /\ \A a \in Address \ {ready_h} : mem[a] = r[a]
  BY <1>4, <1>5, StartAddresses, InitListHead
<1>7. \A a \in Address \ (SemdZone \cup ProcQs) : r[a] = m[a]
  BY <1>4 DEF Added, Same
<1>8. \A a \in Address \ Z : m[a] = [next |-> NULL, prev |-> NULL]
  BY <1>3 DEF Freed, Same, zeroed
<1>9. ASSUME NEW a \in TreeZone PROVE mem[a] = [next |-> NULL, prev |-> NULL]
  <2>1. /\ a \in Address /\ a \notin SemdZone /\ a \notin PcbZone
    BY Kinds
  <2>2. a # ready_h /\ a \notin ProcQs /\ a \notin Z
    BY <2>1, StartAddresses
  <2>. QED BY <1>6, <1>7, <1>8, <2>1, <2>2
<1>10. Semds(mem, <<>>, F)
  <2>1. Same(r, mem, SemdZone)
    BY <1>6, StartAddresses, SemdAddresses DEF Same
  <2>2. Semds(r, <<>>, F)
    BY <1>4 DEF Added
  <2>. HIDE DEF F
  <2>. QED BY <1>6, <2>1, <2>2, OtherLists
<1>11. Range(<<>>) = {} /\ Range(F) = Semd
  <2>1. Range(<<>>) = {}
    BY DEF Range
  <2>2. DOMAIN F = 1 .. MAXPROC /\ \A j \in 1 .. MAXPROC : F[j] = MAXPROC - j
    BY DEF FreedSemds
  <2>. HIDE DEF F
  <2>3. \A j \in 1 .. MAXPROC : F[j] \in Semd
    BY <1>1, <2>2
  <2>4. ASSUME NEW i \in Semd PROVE i \in Range(F)
    <3>1. MAXPROC - i \in 1 .. MAXPROC /\ MAXPROC - (MAXPROC - i) = i
      BY <1>1
    <3>2. F[MAXPROC - i] = i
      BY <2>2, <3>1
    <3>. QED BY <2>2, <3>1, <3>2 DEF Range
  <2>5. Range(F) = {F[j] : j \in 1 .. MAXPROC}
    BY <2>2 DEF Range
  <2>. QED BY <2>1, <2>3, <2>4, <2>5
<1>12. \A i \in Semd : w[i] = <<>>
  BY <1>11 DEF Waiting
<1>13. pcbFree = FreedPcbs(MAXPROC) /\ pcbFree \in Seq(Proc)
  <2>1. \A j \in 1 .. MAXPROC : MAXPROC - MAXPROC + j - 1 = j - 1 /\ j - 1 \in Proc
    BY <1>1
  <2>2. pcbFree = FreedPcbs(MAXPROC)
    BY <1>5, <2>1 DEF FreedPcbs
  <2>3. pcbFree \in Seq(Proc)
    BY <1>1, <1>5, <2>1, IsASeq
  <2>. QED BY <2>2, <2>3
<1>14. Ring(mem, pcbFree_h, "p_next", pcbFree)
  <2>. DEFINE q == FreedPcbs(MAXPROC)
              one == [h \in {pcbFree_h} |-> q]
  <2>1. Rings(m, "p_next", {pcbFree_h}, one) /\ one[pcbFree_h] = q /\ q \in Seq(Proc)
    BY <1>3, <1>13 DEF Freed
  <2>. HIDE DEF one, q, Z
  <2>2. Foot(pcbFree_h, "p_next", q) \subseteq Z /\ Foot(pcbFree_h, "p_next", q) \subseteq Address
    <3>1. pcbFree_h \in {pcbFree_h}
      OBVIOUS
    <3>. QED BY <2>1, <3>1, FreeKind, RingsApart DEF Z
  <2>3. \A a \in Z \cap Address : mem[a] = m[a]
    BY <1>6, <1>7, StartAddresses DEF Z
  <2>4. Ring(m, pcbFree_h, "p_next", q)
    BY <2>1 DEF Rings
  <2>5. \A a \in Foot(pcbFree_h, "p_next", q) : mem[a] = m[a]
    BY <2>2, <2>3
  <2>6. Ring(mem, pcbFree_h, "p_next", q)
    BY <2>1, <2>4, <2>5, RingFrame
  <2>. QED BY <1>13, <2>6 DEF q
<1>15. Ring(mem, ready_h, "p_next", <<>>)
  BY <1>6, RingInit
<1>16. ASSUME NEW i \in Semd PROVE Ring(mem, procQ(i), "p_next", <<>>)
  <2>1. r[procQ(i)] = [next |-> procQ(i), prev |-> procQ(i)]
    BY <1>1, <1>4 DEF Added
  <2>2. mem[procQ(i)] = r[procQ(i)]
    BY <1>6, SemdAddresses, StartAddresses
  <2>. QED BY <2>1, <2>2, RingInit
<1>17. /\ c[pcbFree_h] = pcbFree
       /\ \A h \in PcbHeads \ {pcbFree_h} : c[h] = <<>>
  <2>. HIDE DEF w
  <2>. QED BY <1>12, ContentsAt
<1>18. Queues(mem, pcbFree, <<>>, w)
  <2>1. DOMAIN c = PcbHeads /\ c = [h \in PcbHeads |-> c[h]]
    BY DEF Contents
  <2>. HIDE DEF c, w
  <2>2. c \in [PcbHeads -> Seq(Proc)]
    <3>1. \A h \in PcbHeads : c[h] \in Seq(Proc)
      <4>1. <<>> \in Seq(Proc)
        OBVIOUS
      <4>. QED BY <1>13, <1>17, <4>1
    <3>. QED BY <2>1, <3>1
  <2>3. ASSUME NEW h \in PcbHeads PROVE Ring(mem, h, "p_next", c[h])
    BY <1>14, <1>15, <1>16, <1>17, <2>3, StartAddresses DEF ProcQs
  <2>4. \A h, g \in PcbHeads : h # g => Range(c[h]) \cap Range(c[g]) = {}
    BY <1>11, <1>17
  <2>5. Rings(mem, "p_next", PcbHeads, c)
    BY <1>6, <2>2, <2>3, <2>4 DEF Rings
  <2>. QED BY <2>5 DEF Queues, c
<1>19. Lists(mem, s_key, <<>>, F, pcbFree, <<>>, {}, s_procQ)
  <2>1. DOMAIN s_key = Semd
    BY <1>5
  <2>. HIDE DEF F
  <2>. QED BY <1>10, <1>11, <1>18, <2>1 DEF Lists, w
<1>20. ListsHold
  <2>. HIDE DEF F
  <2>. QED BY <1>5, <1>19 DEF ListsHold, Agrees
<1>. QED BY <1>9, <1>20

\* The invariant holds after start-up.
LEMMA PtrInvInit == PtrInit => PtrInv
<1>. SUFFICES ASSUME PtrInit PROVE PtrInv
  OBVIOUS
<1>1. ListsHold /\ \A a \in TreeZone : mem[a] = [next |-> NULL, prev |-> NULL]
  BY PtrInitLists
<1>2. Init /\ SchedulerInv /\ p_child = [p \in Proc |-> <<>>]
  BY SchedulerInvInit DEF PtrInit, Init
<1>3. \A p \in Proc : mem[child_of(p)].next = NULL /\ mem[p_sib(p)].next = NULL /\ mem[p_sib(p)].prev = NULL
  BY <1>1, TreeAddresses
<1>4. Families
  BY <1>2, <1>3 DEF Families, Family
<1>5. SibTyped(mem)
  BY <1>3 DEF SibTyped
<1>. QED BY <1>1, <1>2, <1>4, <1>5 DEF PtrInv

-----------------------------------------------------------------------------
(* The properties *)

\* One key for each descriptor on the ASL.
LEMMA AsManyKeys ==
    ASSUME NEW a \in Seq(Proc), NoDuplicates(a), NEW key,
           \A i, j \in Range(a) : key[i] = key[j] => i = j
    PROVE  Len(a) = Cardinality({key[i] : i \in Range(a)})
<1>. DEFINE n == Len(a)
            T == {key[i] : i \in Range(a)}
            f == [j \in 1 .. n |-> key[a[j]]]
<1>1. n \in Nat /\ DOMAIN a = 1 .. n /\ Range(a) = {a[j] : j \in 1 .. n}
  BY LenProperties DEF Range
<1>2. f \in [1 .. n -> T]
  BY <1>1
<1>3. \A i, j \in 1 .. n : f[i] = f[j] => i = j
  <2>. SUFFICES ASSUME NEW i \in 1 .. n, NEW j \in 1 .. n, f[i] = f[j] PROVE i = j
    OBVIOUS
  <2>1. a[i] \in Range(a) /\ a[j] \in Range(a) /\ key[a[i]] = key[a[j]]
    BY <1>1
  <2>2. a[i] = a[j]
    BY <2>1
  <2>. QED BY <1>1, <2>2 DEF NoDuplicates
<1>4. \A t \in T : \E j \in 1 .. n : f[j] = t
  BY <1>1
<1>. HIDE DEF f, T
<1>5. f \in Bijection(1 .. n, T)
  BY <1>2, <1>3, <1>4 DEF Bijection, Injection, Surjection, IsInjective
<1>6. ExistsBijection(1 .. n, T)
  BY <1>5 DEF ExistsBijection
<1>7. IsFiniteSet(1 .. n) /\ Cardinality(1 .. n) = n
  BY <1>1, FS_Interval
<1>. QED BY <1>6, <1>7, FS_Bijection DEF T

\* Two lists that share nothing, one after the other.
LEMMA ApartConcat ==
    ASSUME NEW S, NEW a \in Seq(S), NEW f \in Seq(S), NoDuplicates(a), NoDuplicates(f),
           Range(a) \cap Range(f) = {}
    PROVE  NoDuplicates(a \o f) /\ Range(a \o f) = Range(a) \cup Range(f)
<1>. DEFINE s == a \o f
            n == Len(a)
            l == Len(f)
<1>1. /\ n \in Nat /\ DOMAIN a = 1 .. n /\ l \in Nat /\ DOMAIN f = 1 .. l
  BY LenProperties
<1>2. /\ s \in Seq(S) /\ Len(s) = n + l
      /\ \A i \in 1 .. Len(s) : s[i] = IF i <= n THEN a[i] ELSE f[i - n]
  BY ConcatProperties
<1>. HIDE DEF s
<1>3. DOMAIN s = 1 .. n + l
  BY <1>2, LenProperties
<1>4. \A i \in DOMAIN s : \/ i \in 1 .. n /\ s[i] = a[i] /\ s[i] \in Range(a)
                          \/ i > n /\ i - n \in 1 .. l /\ s[i] = f[i - n] /\ s[i] \in Range(f)
  <2>. SUFFICES ASSUME NEW i \in DOMAIN s
                PROVE  \/ i \in 1 .. n /\ s[i] = a[i] /\ s[i] \in Range(a)
                       \/ i > n /\ i - n \in 1 .. l /\ s[i] = f[i - n] /\ s[i] \in Range(f)
    OBVIOUS
  <2>1. CASE i <= n
    <3>1. i \in 1 .. n /\ s[i] = a[i]
      BY <1>1, <1>2, <1>3, <2>1
    <3>. QED BY <1>1, <3>1 DEF Range
  <2>2. CASE ~(i <= n)
    <3>1. i > n /\ i - n \in 1 .. l /\ s[i] = f[i - n]
      BY <1>1, <1>2, <1>3, <2>2
    <3>. QED BY <1>1, <3>1 DEF Range
  <2>. QED BY <2>1, <2>2
<1>5. ASSUME NEW i \in DOMAIN s, NEW j \in DOMAIN s, s[i] = s[j] PROVE i = j
  <2>1. CASE i \in 1 .. n
    <3>1. j \in 1 .. n /\ a[i] = a[j]
      BY <1>4, <1>5, <2>1
    <3>. QED BY <1>1, <2>1, <3>1 DEF NoDuplicates
  <2>2. CASE i \notin 1 .. n
    <3>1. /\ i - n \in 1 .. l /\ j - n \in 1 .. l /\ f[i - n] = f[j - n]
      BY <1>4, <1>5, <2>2
    <3>2. i - n = j - n
      BY <1>1, <3>1 DEF NoDuplicates
    <3>3. i \in Int /\ j \in Int /\ n \in Int
      BY <1>1, <1>3
    <3>. QED BY <3>2, <3>3
  <2>. QED BY <2>1, <2>2
<1>6. Range(s) \subseteq Range(a) \cup Range(f)
  BY <1>4 DEF Range
<1>7. ASSUME NEW i \in 1 .. n PROVE a[i] \in Range(s)
  <2>1. i \in 1 .. n + l /\ s[i] = a[i]
    BY <1>1, <1>2
  <2>. QED BY <1>3, <2>1 DEF Range
<1>8. ASSUME NEW i \in 1 .. l PROVE f[i] \in Range(s)
  <2>1. i + n \in 1 .. n + l /\ ~(i + n <= n) /\ (i + n) - n = i
    BY <1>1
  <2>2. s[i + n] = f[i]
    BY <1>2, <2>1
  <2>. QED BY <1>3, <2>1, <2>2 DEF Range
<1>9. Range(a) \cup Range(f) \subseteq Range(s)
  <2>1. Range(a) = {a[i] : i \in 1 .. n} /\ Range(f) = {f[i] : i \in 1 .. l}
    BY <1>1 DEF Range
  <2>. QED BY <1>7, <1>8, <2>1
<1>. QED BY <1>5, <1>6, <1>9 DEF NoDuplicates, s

\* What the invariant says of the queues, of the descriptors and of the tree.
LEMMA PtrInvQueues == PtrInv => QueuesAgree
<1>. SUFFICES ASSUME PtrInv PROVE QueuesAgree
  OBVIOUS
<1>. QED BY AgreesRead DEF PtrInv, ListsHold, QueuesAgree

LEMMA PtrInvSemds == PtrInv => SemdsAgree
<1>. SUFFICES ASSUME PtrInv PROVE SemdsAgree
  OBVIOUS
<1>1. Agrees(mem, s_key, pcbFree, ready_queue, semd_h, s_procQ)
  BY DEF PtrInv, ListsHold
<1>2. PICK a, f : Lists(mem, s_key, a, f, pcbFree, ready_queue, semd_h, s_procQ)
  BY <1>1 DEF Agrees
<1>3. /\ Semds(mem, a, f) /\ Range(a) \cup Range(f) = Semd
      /\ \A i, j \in Range(a) : s_key[i] = s_key[j] => i = j
      /\ semd_h = {s_key[i] : i \in Range(a)}
      /\ Queues(mem, pcbFree, ready_queue, Waiting(a, s_key, s_procQ))
  BY <1>2 DEF Lists
<1>4. /\ a \in Seq(Proc) /\ f \in Seq(Proc) /\ NoDuplicates(a) /\ NoDuplicates(f)
      /\ Range(a) \cap Range(f) = {}
      /\ on(mem, asl_h) = a /\ Circular(mem, asl_h, MAXPROC)
      /\ on(mem, semdFree_h) = f /\ Circular(mem, semdFree_h, MAXPROC)
  BY <1>3, SemdsRead
<1>5. NoDuplicates(a \o f) /\ Range(a \o f) = Semd
  <2>1. NoDuplicates(a \o f) /\ Range(a \o f) = Range(a) \cup Range(f)
    <3>1. /\ a \in Seq(Proc) /\ f \in Seq(Proc) /\ NoDuplicates(a) /\ NoDuplicates(f)
          /\ Range(a) \cap Range(f) = {}
      BY <1>4
    <3>. QED BY ONLY <3>1, ApartConcat
  <2>. QED BY <1>3, <2>1
<1>6. Len(a) = Cardinality(semd_h)
  BY <1>3, <1>4, AsManyKeys
<1>7. ASSUME NEW i \in Range(a)
      PROVE  /\ s_key[i] \in semd_h /\ on(mem, procQ(i)) = s_procQ[s_key[i]]
             /\ Circular(mem, procQ(i), MAXPROC)
  <2>1. i \in Semd /\ s_key[i] \in semd_h /\ Waiting(a, s_key, s_procQ)[i] = s_procQ[s_key[i]]
    BY <1>3 DEF Waiting
  <2>. DEFINE w == Waiting(a, s_key, s_procQ)
  <2>. HIDE DEF w
  <2>2. Queues(mem, pcbFree, ready_queue, w)
    BY <1>3 DEF w
  <2>3. on(mem, procQ(i)) = w[i] /\ Circular(mem, procQ(i), MAXPROC)
    BY <2>1, <2>2, QueuesRead
  <2>. QED BY <2>1, <2>3 DEF w
<1>8. \A k \in semd_h : getSemd(mem, k) # NULL
  BY <1>1, AgreesSemd
<1>. QED BY <1>4, <1>5, <1>6, <1>7, <1>8 DEF SemdsAgree

LEMMA PtrInvTree == PtrInv => TreeAgrees
<1>. SUFFICES ASSUME PtrInv, ~Panicking PROVE TreeAgrees
  BY DEF TreeAgrees, Panicking
<1>1. \A p \in Proc : p_child[p] \in Seq(Proc) /\ Family(mem, p, p_child[p])
  BY PtrFacts DEF PtrInv, Families
<1>2. ASSUME NEW p \in Proc
      PROVE  /\ childrenOf(p) = p_child[p]
             /\ p_child[p] # <<>> => /\ Circular(mem, p_sib(eldest(mem, p)), MAXPROC)
                                    /\ mem[child_of(eldest(mem, p))].prev = child_of(p)
  <2>. DEFINE q == p_child[p]
  <2>1. q \in Seq(Proc) /\ Family(mem, p, q)
    BY <1>1
  <2>. HIDE DEF q
  <2>2. childrenOf(p) = q
    BY <2>1, FamilyReads
  <2>3. q # <<>> => eldest(mem, p) = Head(q) /\ Circular(mem, p_sib(Head(q)), MAXPROC)
    BY <2>1, FamilyReads
  <2>4. q # <<>> => mem[child_of(Head(q))].prev = child_of(p)
    BY <2>1 DEF Family
  <2>. QED BY <2>2, <2>3, <2>4 DEF q
<1>. QED BY <1>2 DEF TreeAgrees

\* The invariant of the pointers: whatever the calls, the lists of listx.h hold
\* the sequences, and the links of the tree its children.
THEOREM PointersInvariant == PtrSpec => []PtrInv
  BY PtrInvInit, PtrInvNext, PTL DEF PtrSpec

\* Every step on the pointers is a step of the process layer.
THEOREM PointersImplementScheduler == PtrSpec => Init /\ [][Next]_vars
<1>1. PtrInit => Init
  BY DEF PtrInit
<1>2. [PtrNext]_ptrVars => [Next]_vars
  BY PtrNextIsNext DEF ptrVars
<1>. QED BY <1>1, <1>2, PTL DEF PtrSpec

\* The free list and the ready queue, walked through p_next in either
\* direction, are the queues of the process layer (pcb.c, listx.h): no stale
\* pointer that list_del leaves is ever followed.
THEOREM QueuesStayWhole == PtrSpec => []QueuesAgree
  BY PointersInvariant, PtrInvQueues, PTL

\* Every descriptor is on the ASL or free, and those on the ASL stand for
\* different semaphores and hold their waiters in order (asl.c).
THEOREM SemdsStayWhole == PtrSpec => []SemdsAgree
  BY PointersInvariant, PtrInvSemds, PTL

\* The eldest child leads to all children, through every insertChild,
\* removeChild and outChild, until the kernel panics (pcb.c).
THEOREM TreeStaysWhole == PtrSpec => []TreeAgrees
  BY PointersInvariant, PtrInvTree, PTL
=============================================================================
