--------------------------- MODULE TailQueueProofs ---------------------------
(***************************************************************************)
(* What the list operations of app/comm_parser.c do to a list, for every    *)
(* list: insert_list_element puts the element in the place its order names, *)
(* pop_list_element takes it out, and neither disturbs the others.          *)
(***************************************************************************)
EXTENDS TailQueue, FiniteSetTheorems, SequenceTheorems, WellFoundedInduction,
        TLAPS

(* SelectInSeq takes the least of a set of positions; it is one of them.    *)
LEMMA MinOfPositions ==
  ASSUME NEW n \in Nat, NEW I \in SUBSET (1 .. n), I # {}
  PROVE  Min(I) \in I /\ \A j \in I : Min(I) <= j
<1> DEFINE R == {p \in Nat \X Nat : p[1] < p[2]}
<1>0. IsWellFoundedOn(R, Nat)
  BY NatLessThanWellFounded DEF OpToRel
<1>1. \E x \in I : \A y \in I : ~(<<y, x>> \in R)
  BY <1>0, WFMin, I \subseteq Nat
<1>2. \E x \in I : \A y \in I : x <= y
  <2>1. PICK x \in I : \A y \in I : <<y, x>> \notin R
    BY <1>1
  <2>2. ASSUME NEW y \in I PROVE x <= y
    <3>1. x \in Nat /\ y \in Nat
      OBVIOUS
    <3>2. ~(y < x)
      BY <2>1, <3>1
    <3> QED BY <3>1, <3>2
  <2> QED BY <2>2
<1> QED BY <1>2 DEF Min

(* A lookup by id (pop_list_element, get_list_element) finds an element with*)
(* that id, or reports 0 exactly when the list has none.                    *)
LEMMA PositionOfFirst ==
  ASSUME NEW S, NEW list \in Seq(S), NEW id
  PROVE  /\ PositionOf(list, id) \in 0 .. Len(list)
         /\ PositionOf(list, id) = 0 <=> ~Contains(list, id)
         /\ PositionOf(list, id) # 0 => list[PositionOf(list, id)] = id
<1> DEFINE I == {i \in 1 .. Len(list) : list[i] = id}
<1>1. PositionOf(list, id) = IF I # {} THEN Min(I) ELSE 0
  BY DEF PositionOf, SelectInSeq
<1>2. I # {} => Min(I) \in I
  <2> SUFFICES ASSUME I # {} PROVE Min(I) \in I
    OBVIOUS
  <2>1. Len(list) \in Nat /\ I \in SUBSET (1 .. Len(list))
    BY LenProperties
  <2> QED BY <2>1, MinOfPositions
<1> QED BY <1>1, <1>2 DEF Contains

(* TAILQ_INSERT_HEAD, _BEFORE and _AFTER: the element is at position k, those*)
(* from k on moved one place up.                                            *)
LEMMA InsertAtShape ==
  ASSUME NEW S, NEW list \in Seq(S), NEW id \in S,
         NEW k \in 1 .. Len(list) + 1
  PROVE  LET ins == InsertAt(list, k, id)
         IN  /\ ins \in Seq(S)
             /\ Len(ins) = Len(list) + 1
             /\ \A i \in 1 .. Len(list) + 1 :
                  ins[i] = IF i < k THEN list[i]
                           ELSE IF i = k THEN id ELSE list[i - 1]
<1> DEFINE n == Len(list)
           A == SubSeq(list, 1, k - 1)
           B == SubSeq(list, k, n)
<1>1. n \in Nat /\ \A i \in 1 .. n : list[i] \in S
  BY LenProperties, ElementOfSeq
<1>2. /\ A \in Seq(S)
      /\ Len(A) = k - 1
      /\ \A i \in 1 .. k - 1 : A[i] = list[i]
  BY <1>1, SubSeqProperties, \A i \in 1 .. k - 1 : list[i] \in S
<1>3. /\ B \in Seq(S)
      /\ Len(B) = n - k + 1
      /\ \A i \in 1 .. n - k + 1 : B[i] = list[k + i - 1]
  <2>1. \A i \in k .. n : list[i] \in S
    BY <1>1
  <2> QED BY <1>1, <2>1, SubSeqProperties
<1>4. <<id>> \in Seq(S) /\ Len(<<id>>) = 1 /\ <<id>>[1] = id
  OBVIOUS
<1> HIDE DEF A, B
<1>5. /\ A \o <<id>> \in Seq(S)
      /\ Len(A \o <<id>>) = k
      /\ \A i \in 1 .. k : (A \o <<id>>)[i] = IF i < k THEN list[i] ELSE id
  BY <1>1, <1>2, <1>4, ConcatProperties
<1>6. /\ (A \o <<id>>) \o B \in Seq(S)
      /\ Len((A \o <<id>>) \o B) = n + 1
      /\ \A i \in 1 .. n + 1 :
           ((A \o <<id>>) \o B)[i] = IF i <= k THEN (A \o <<id>>)[i]
                                    ELSE B[i - k]
  BY <1>1, <1>3, <1>5, ConcatProperties
<1>7. InsertAt(list, k, id) = (A \o <<id>>) \o B
  BY DEF InsertAt, A, B
<1>8. ASSUME NEW i \in 1 .. n + 1
      PROVE  InsertAt(list, k, id)[i] =
               IF i < k THEN list[i] ELSE IF i = k THEN id ELSE list[i - 1]
  <2>1. CASE i <= k
    BY <1>1, <1>5, <1>6, <1>7, <2>1
  <2>2. CASE i > k
    <3>1. i - k \in 1 .. n - k + 1 /\ k + (i - k) - 1 = i - 1
      BY <1>1, <2>2
    <3> QED BY <1>1, <1>3, <1>6, <1>7, <2>2, <3>1
  <2> QED BY <1>1, <2>1, <2>2
<1> QED BY <1>6, <1>7, <1>8

(* TAILQ_REMOVE: the elements after position k moved one place down.        *)
LEMMA RemoveAtShape ==
  ASSUME NEW S, NEW list \in Seq(S), NEW k \in 1 .. Len(list)
  PROVE  LET rest == RemoveAt(list, k)
         IN  /\ rest \in Seq(S)
             /\ Len(rest) = Len(list) - 1
             /\ \A i \in 1 .. Len(list) - 1 :
                  rest[i] = IF i < k THEN list[i] ELSE list[i + 1]
<1> DEFINE n == Len(list)
           A == SubSeq(list, 1, k - 1)
           B == SubSeq(list, k + 1, n)
<1>1. n \in Nat /\ \A i \in 1 .. n : list[i] \in S
  BY LenProperties, ElementOfSeq
<1>2. /\ A \in Seq(S)
      /\ Len(A) = k - 1
      /\ \A i \in 1 .. k - 1 : A[i] = list[i]
  BY <1>1, SubSeqProperties, \A i \in 1 .. k - 1 : list[i] \in S
<1>3. /\ B \in Seq(S)
      /\ Len(B) = n - k
      /\ \A i \in 1 .. n - k : B[i] = list[k + i]
  <2>1. \A i \in k + 1 .. n : list[i] \in S
    BY <1>1
  <2>2. \A i \in 1 .. n - (k + 1) + 1 : B[i] = list[k + 1 + i - 1]
    BY <1>1, <2>1, SubSeqProperties
  <2> QED BY <1>1, <2>1, <2>2, SubSeqProperties
<1> HIDE DEF A, B
<1>4. /\ A \o B \in Seq(S)
      /\ Len(A \o B) = n - 1
      /\ \A i \in 1 .. n - 1 : (A \o B)[i] = IF i < k THEN A[i] ELSE B[i - (k - 1)]
  BY <1>1, <1>2, <1>3, ConcatProperties
<1>5. RemoveAt(list, k) = A \o B
  BY DEF RemoveAt, A, B
<1>6. ASSUME NEW i \in 1 .. n - 1
      PROVE  (A \o B)[i] = IF i < k THEN list[i] ELSE list[i + 1]
  <2>1. CASE i < k
    BY <1>1, <1>2, <1>4, <2>1
  <2>2. CASE i >= k
    <3>1. i - (k - 1) \in 1 .. n - k /\ k + (i - (k - 1)) = i + 1
      BY <1>1, <2>2
    <3> QED BY <1>1, <1>3, <1>4, <2>2, <3>1
  <2>3. i < k \/ i >= k
    BY <1>1
  <2> QED BY <2>1, <2>2, <2>3
<1> QED BY <1>4, <1>5, <1>6

(* A list with one more element, at position k, the others in their order.  *)
InsertedAt(ins, S, list, id, k) ==
  /\ ins \in Seq(S)
  /\ Len(ins) = Len(list) + 1
  /\ \A i \in 1 .. Len(list) + 1 :
       ins[i] = IF i < k THEN list[i] ELSE IF i = k THEN id ELSE list[i - 1]

(* The position that an insert order and its reference name.                *)
Named(list, order, ref, k) ==
  /\ order = Prepend => k = 1
  /\ order = AppendTail => k = Len(list) + 1
  /\ order = Before /\ Contains(list, ref) => list[k] = ref
  /\ order = After /\ Contains(list, ref) => list[k - 1] = ref
  /\ Relative(order) /\ ~Contains(list, ref) => k = Len(list) + 1

(* insert_list_element links the element in one place, next to its          *)
(* reference or at an end, and leaves the order of the others as it was.    *)
THEOREM InsertElementPlaces ==
  ASSUME NEW S, NEW list \in Seq(S), NEW id \in S,
         NEW order \in InsertOrder \ {NoOrder}, NEW ref
  PROVE  \E k \in 1 .. Len(list) + 1 :
           /\ InsertedAt(InsertElement(list, id, order, ref), S, list, id, k)
           /\ Named(list, order, ref, k)
<1> DEFINE n  == Len(list)
           at == PositionOf(list, ref)
           ins == InsertElement(list, id, order, ref)
           Shape(k) == InsertedAt(ins, S, list, id, k)
<1>1. n \in Nat /\ at \in 0 .. n
      /\ (at = 0 <=> ~Contains(list, ref)) /\ (at # 0 => list[at] = ref)
  BY PositionOfFirst, LenProperties
<1>2. ASSUME NEW k \in 1 .. n + 1, ins = InsertAt(list, k, id)
      PROVE  Shape(k)
  <2>1. LET new == InsertAt(list, k, id)
        IN  /\ new \in Seq(S)
            /\ Len(new) = n + 1
            /\ \A i \in 1 .. n + 1 :
                 new[i] = IF i < k THEN list[i]
                          ELSE IF i = k THEN id ELSE list[i - 1]
    BY InsertAtShape
  <2> HIDE DEF ins
  <2> QED BY <1>2, <2>1 DEF InsertedAt
<1>3. ASSUME ins = Append(list, id)
      PROVE  Shape(n + 1)
  <2>1. /\ ins \in Seq(S)
        /\ Len(ins) = n + 1
        /\ \A i \in 1 .. n : ins[i] = list[i]
        /\ ins[n + 1] = id
    BY <1>3, AppendProperties
  <2> HIDE DEF ins
  <2> QED BY <1>1, <2>1 DEF InsertedAt
<1> HIDE DEF at, Shape
<1>4. CASE order = Prepend
  <2>1. ins = InsertAt(list, 1, id)
    BY <1>4 DEF InsertElement, Relative, Prepend, AppendTail, Before, After
  <2> QED BY <1>1, <1>2, <1>4, <2>1
       DEF Shape, Named, Relative, Prepend, AppendTail, Before, After
<1>5. CASE order = AppendTail \/ (Relative(order) /\ at = 0)
  <2>1. ins = Append(list, id)
    BY <1>5 DEF InsertElement, Relative, Prepend, AppendTail, Before, After, at
  <2>2. order # Prepend
    BY <1>5 DEF Relative, Prepend, AppendTail, Before, After
  <2>3. order = AppendTail \/ ~Contains(list, ref)
    BY <1>1, <1>5
  <2> QED BY <1>1, <1>3, <2>1, <2>2, <2>3
       DEF Shape, Named, AppendTail, Before, After
<1>6. CASE order = Before /\ at # 0
  <2>1. ins = InsertAt(list, at, id)
    BY <1>6 DEF InsertElement, Relative, Prepend, AppendTail, Before, After, at
  <2>2. at \in 1 .. n + 1
    BY <1>1, <1>6
  <2> QED BY <1>1, <1>2, <1>6, <2>1, <2>2
       DEF Shape, Named, Relative, Prepend, AppendTail, Before, After
<1>7. CASE order = After /\ at # 0
  <2>1. ins = InsertAt(list, at + 1, id)
    BY <1>7 DEF InsertElement, Relative, Prepend, AppendTail, Before, After, at
  <2>2. at + 1 \in 1 .. n + 1 /\ (at + 1) - 1 = at
    BY <1>1, <1>7
  <2> QED BY <1>1, <1>2, <1>7, <2>1, <2>2
       DEF Shape, Named, Relative, Prepend, AppendTail, Before, After
<1> QED BY <1>4, <1>5, <1>6, <1>7 DEF InsertOrder, Relative

(* What the tree needs of it: the list gains the element and nothing else.  *)
LEMMA InsertElementSet ==
  ASSUME NEW S, NEW list \in Seq(S), NEW id \in S,
         NEW order \in InsertOrder, NEW ref
  PROVE  LET ins == InsertElement(list, id, order, ref)
         IN  /\ ins \in Seq(S)
             /\ ToSet(ins) = ToSet(list) \cup (IF order = NoOrder THEN {} ELSE {id})
             /\ IsInjective(list) /\ id \notin ToSet(list) => IsInjective(ins)
<1> DEFINE n == Len(list)
           ins == InsertElement(list, id, order, ref)
<1>1. n \in Nat /\ DOMAIN list = 1 .. n /\ \A i \in 1 .. n : list[i] \in S
  BY LenProperties, ElementOfSeq
<1>2. CASE order = NoOrder
  <2>1. ins = list
    BY <1>2 DEF InsertElement, Relative, Prepend, AppendTail, Before, After,
                NoOrder
  <2> QED BY <1>2, <2>1
<1>3. CASE order # NoOrder
  <2>1. order \in InsertOrder \ {NoOrder}
    BY <1>3
  <2>2. PICK k \in 1 .. n + 1 : InsertedAt(ins, S, list, id, k)
    BY <2>1, InsertElementPlaces
  <2>3. /\ ins \in Seq(S)
        /\ Len(ins) = n + 1
        /\ \A i \in 1 .. n + 1 :
             ins[i] = IF i < k THEN list[i]
                      ELSE IF i = k THEN id ELSE list[i - 1]
    BY <2>2 DEF InsertedAt
  <2> HIDE DEF ins
  <2>4. DOMAIN ins = 1 .. n + 1
    BY <2>3, LenProperties
  <2>5. ASSUME NEW i \in 1 .. n + 1
        PROVE  ins[i] \in ToSet(list) \cup {id}
    <3>1. i < k => i \in 1 .. n
      BY <1>1
    <3>2. i > k => i - 1 \in 1 .. n
      BY <1>1
    <3>3. i < k \/ i = k \/ i > k
      BY <1>1
    <3> QED BY <1>1, <2>3, <3>1, <3>2, <3>3 DEF ToSet
  <2>6. ASSUME NEW i \in 1 .. n
        PROVE  \E j \in 1 .. n + 1 : ins[j] = list[i]
    <3>1. CASE i < k
      BY <1>1, <2>3, <3>1
    <3>2. CASE i >= k
      <4>1. i + 1 \in 1 .. n + 1 /\ i + 1 > k /\ (i + 1) - 1 = i
        BY <1>1, <3>2
      <4>2. ins[i + 1] = list[i]
        BY <1>1, <2>3, <4>1
      <4> QED BY <4>1, <4>2
    <3> QED BY <1>1, <3>1, <3>2
  <2>7. ins[k] = id
    BY <1>1, <2>3
  <2>8. ToSet(ins) = ToSet(list) \cup {id}
    BY <1>1, <2>4, <2>5, <2>6, <2>7 DEF ToSet
  <2>9. ASSUME IsInjective(list), id \notin ToSet(list),
               NEW i \in 1 .. n + 1, NEW j \in 1 .. n + 1, i < j
        PROVE  ins[i] # ins[j]
    <3>1. \A m \in 1 .. n : list[m] # id
      BY <1>1, <2>9 DEF ToSet
    <3>2. \A a, b \in 1 .. n : list[a] = list[b] => a = b
      BY <1>1, <2>9 DEF IsInjective
    <3>3. CASE j < k
      <4>1. i \in 1 .. n /\ j \in 1 .. n /\ i < k /\ i # j
        BY <1>1, <2>9, <3>3
      <4> QED BY <2>3, <3>2, <3>3, <4>1
    <3>4. CASE j = k
      <4>1. i \in 1 .. n /\ i < k
        BY <1>1, <2>9, <3>4
      <4> QED BY <2>3, <2>7, <3>1, <3>4, <4>1
    <3>5. CASE j > k
      <4>1. j - 1 \in 1 .. n /\ ins[j] = list[j - 1]
        BY <1>1, <2>3, <3>5
      <4>2. CASE i < k
        <5>1. i \in 1 .. n /\ i # j - 1
          BY <1>1, <3>5, <4>2
        <5> QED BY <2>3, <3>2, <4>1, <4>2, <5>1
      <4>3. CASE i = k
        BY <2>7, <3>1, <4>1, <4>3
      <4>4. CASE i > k
        <5>1. i - 1 \in 1 .. n /\ i - 1 # j - 1 /\ ins[i] = list[i - 1]
          BY <1>1, <2>3, <2>9, <4>4
        <5> QED BY <3>2, <4>1, <5>1
      <4> QED BY <1>1, <4>2, <4>3, <4>4
    <3> QED BY <1>1, <3>3, <3>4, <3>5
  <2>10. IsInjective(list) /\ id \notin ToSet(list) => IsInjective(ins)
    <3> SUFFICES ASSUME IsInjective(list), id \notin ToSet(list),
                        NEW i \in 1 .. n + 1, NEW j \in 1 .. n + 1, i # j
                 PROVE  ins[i] # ins[j]
      BY <2>4 DEF IsInjective
    <3>1. i < j \/ j < i
      BY <1>1
    <3> QED BY <2>9, <3>1
  <2> QED BY <1>3, <2>3, <2>8, <2>10 DEF ins
<1> QED BY <1>2, <1>3

(* pop_list_element unlinks an element, which was there only once.          *)
LEMMA PopElementSet ==
  ASSUME NEW S, NEW list \in Seq(S), NEW id
  PROVE  LET rest == PopElement(list, id)
         IN  /\ rest \in Seq(S)
             /\ ToSet(rest) \subseteq ToSet(list)
             /\ ToSet(list) \ {id} \subseteq ToSet(rest)
             /\ IsInjective(list) => IsInjective(rest) /\ id \notin ToSet(rest)
<1> DEFINE n == Len(list)
           rest == PopElement(list, id)
           k == PositionOf(list, id)
<1>1. /\ n \in Nat /\ DOMAIN list = 1 .. n
      /\ k \in 0 .. n /\ (k = 0 <=> ~Contains(list, id))
      /\ k # 0 => list[k] = id
  BY LenProperties, PositionOfFirst
<1>2. rest = IF Contains(list, id) THEN RemoveAt(list, k) ELSE list
  BY DEF PopElement, RemoveFirst, Contains, PositionOf
<1> HIDE DEF rest, k
<1>3. CASE ~Contains(list, id)
  BY <1>1, <1>2, <1>3 DEF Contains, ToSet, rest
<1>4. CASE Contains(list, id)
  <2>1. k \in 1 .. n /\ list[k] = id
    BY <1>1, <1>4
  <2>2. /\ rest \in Seq(S)
        /\ Len(rest) = n - 1
        /\ \A i \in 1 .. n - 1 : rest[i] = IF i < k THEN list[i] ELSE list[i + 1]
    BY <1>2, <1>4, <2>1, RemoveAtShape
  <2>3. DOMAIN rest = 1 .. n - 1
    BY <2>2, LenProperties
  <2>4. ASSUME NEW i \in 1 .. n - 1
        PROVE  \E j \in 1 .. n : j # k /\ rest[i] = list[j]
                                /\ j = (IF i < k THEN i ELSE i + 1)
    <3>1. CASE i < k
      BY <1>1, <2>1, <2>2, <3>1
    <3>2. CASE i >= k
      <4>1. i + 1 \in 1 .. n /\ i + 1 # k /\ ~(i < k)
        BY <1>1, <2>1, <3>2
      <4> QED BY <2>2, <4>1
    <3> QED BY <1>1, <2>1, <3>1, <3>2
  <2>5. ToSet(rest) \subseteq ToSet(list)
    BY <1>1, <2>3, <2>4 DEF ToSet
  <2>6. ASSUME NEW j \in 1 .. n, j # k
        PROVE  list[j] \in ToSet(rest)
    <3>1. CASE j < k
      <4>1. j \in 1 .. n - 1
        BY <1>1, <2>1, <3>1
      <4> QED BY <2>2, <2>3, <3>1, <4>1 DEF ToSet
    <3>2. CASE j > k
      <4>1. j - 1 \in 1 .. n - 1 /\ ~(j - 1 < k) /\ (j - 1) + 1 = j
        BY <1>1, <2>1, <3>2
      <4>2. rest[j - 1] = list[j]
        BY <2>2, <4>1
      <4> QED BY <2>3, <4>1, <4>2 DEF ToSet
    <3> QED BY <1>1, <2>1, <2>6, <3>1, <3>2
  <2>7. ToSet(list) \ {id} \subseteq ToSet(rest)
    BY <1>1, <2>1, <2>6 DEF ToSet
  <2>8. ASSUME IsInjective(list) PROVE IsInjective(rest)
    <3> SUFFICES ASSUME NEW a \in 1 .. n - 1, NEW b \in 1 .. n - 1,
                        rest[a] = rest[b]
                 PROVE  a = b
      BY <2>3 DEF IsInjective
    <3>1. PICK i \in 1 .. n : rest[a] = list[i] /\ i = (IF a < k THEN a ELSE a + 1)
      BY <2>4
    <3>2. PICK j \in 1 .. n : rest[b] = list[j] /\ j = (IF b < k THEN b ELSE b + 1)
      BY <2>4
    <3>3. i = j
      BY <1>1, <2>8, <3>1, <3>2 DEF IsInjective
    <3> QED BY <1>1, <2>1, <3>1, <3>2, <3>3
  <2>9. ASSUME IsInjective(list) PROVE id \notin ToSet(rest)
    <3> SUFFICES ASSUME NEW i \in 1 .. n - 1, rest[i] = id PROVE FALSE
      BY <2>3 DEF ToSet
    <3>1. PICK j \in 1 .. n : j # k /\ rest[i] = list[j]
      BY <2>4
    <3> QED BY <1>1, <2>1, <2>9, <3>1 DEF IsInjective
  <2> QED BY <2>2, <2>5, <2>7, <2>8, <2>9 DEF rest
<1> QED BY <1>3, <1>4

(***************************************************************************)
(* The order of a list.                                                     *)
(***************************************************************************)

Precedes(list, a, b) ==
  \E i, j \in DOMAIN list : i < j /\ list[i] = a /\ list[j] = b

(* insert_list_element keeps the order of those that are there. *)
LEMMA InsertOrderKept ==
  ASSUME NEW S, NEW list \in Seq(S), NEW id \in S,
         NEW order \in InsertOrder, NEW ref, NEW a, NEW b,
         Precedes(list, a, b)
  PROVE  Precedes(InsertElement(list, id, order, ref), a, b)
<1> DEFINE n == Len(list)
           ins == InsertElement(list, id, order, ref)
<1>1. n \in Nat /\ DOMAIN list = 1 .. n
  BY LenProperties
<1>2. CASE order = NoOrder
  <2>1. ins = list
    BY <1>2 DEF InsertElement, Relative, Prepend, AppendTail, Before, After,
                NoOrder
  <2> QED BY <2>1
<1>3. CASE order # NoOrder
  <2>1. PICK k \in 1 .. n + 1 : InsertedAt(ins, S, list, id, k)
    BY <1>3, InsertElementPlaces
  <2> HIDE DEF ins
  <2>2. /\ ins \in Seq(S) /\ Len(ins) = n + 1
        /\ \A i \in 1 .. n + 1 :
             ins[i] = IF i < k THEN list[i] ELSE IF i = k THEN id ELSE list[i - 1]
    BY <2>1 DEF InsertedAt
  <2>3. DOMAIN ins = 1 .. n + 1
    BY <2>2, LenProperties
  <2>4. PICK i \in 1 .. n, j \in 1 .. n : i < j /\ list[i] = a /\ list[j] = b
    BY <1>1 DEF Precedes
  <2> DEFINE at(m) == IF m < k THEN m ELSE m + 1
  <2>5. ASSUME NEW m \in 1 .. n PROVE at(m) \in 1 .. n + 1 /\ ins[at(m)] = list[m]
    <3>1. CASE m < k
      BY <1>1, <2>2, <3>1
    <3>2. CASE ~(m < k)
      <4>1. m + 1 \in 1 .. n + 1 /\ ~(m + 1 < k) /\ m + 1 # k /\ (m + 1) - 1 = m
        BY <1>1, <3>2
      <4> QED BY <2>2, <3>2, <4>1
    <3> QED BY <3>1, <3>2
  <2>6. at(i) < at(j)
    BY <1>1, <2>4
  <2> HIDE DEF at
  <2>7. at(i) \in DOMAIN ins /\ at(j) \in DOMAIN ins
        /\ ins[at(i)] = a /\ ins[at(j)] = b
    BY <2>3, <2>4, <2>5
  <2> QED BY <2>6, <2>7 DEF Precedes, ins
<1> QED BY <1>2, <1>3

(* pop_list_element keeps the order of those that stay. *)
LEMMA PopOrderKept ==
  ASSUME NEW S, NEW list \in Seq(S), NEW id, NEW a, NEW b, a # id, b # id,
         Precedes(list, a, b)
  PROVE  Precedes(PopElement(list, id), a, b)
<1> DEFINE n == Len(list)
           rest == PopElement(list, id)
           k == PositionOf(list, id)
<1>1. /\ n \in Nat /\ DOMAIN list = 1 .. n
      /\ k \in 0 .. n /\ (k = 0 <=> ~Contains(list, id))
      /\ k # 0 => list[k] = id
  BY LenProperties, PositionOfFirst
<1>2. rest = IF Contains(list, id) THEN RemoveAt(list, k) ELSE list
  BY DEF PopElement, RemoveFirst, Contains, PositionOf
<1> HIDE DEF rest, k
<1>3. CASE ~Contains(list, id)
  BY <1>2, <1>3 DEF rest
<1>4. CASE Contains(list, id)
  <2>1. k \in 1 .. n /\ list[k] = id
    BY <1>1, <1>4
  <2>2. /\ rest \in Seq(S)
        /\ Len(rest) = n - 1
        /\ \A i \in 1 .. n - 1 : rest[i] = IF i < k THEN list[i] ELSE list[i + 1]
    BY <1>2, <1>4, <2>1, RemoveAtShape
  <2>3. DOMAIN rest = 1 .. n - 1
    BY <2>2, LenProperties
  <2>4. PICK i \in 1 .. n, j \in 1 .. n : i < j /\ list[i] = a /\ list[j] = b
    BY <1>1 DEF Precedes
  <2>5. i # k /\ j # k
    BY <2>1, <2>4
  <2> DEFINE at(m) == IF m < k THEN m ELSE m - 1
  <2>6. ASSUME NEW m \in 1 .. n, m # k
        PROVE  at(m) \in 1 .. n - 1 /\ rest[at(m)] = list[m]
    <3>1. CASE m < k
      BY <1>1, <2>1, <2>2, <3>1
    <3>2. CASE ~(m < k)
      <4>1. m - 1 \in 1 .. n - 1 /\ ~(m - 1 < k) /\ (m - 1) + 1 = m
        BY <1>1, <2>1, <2>6, <3>2
      <4> QED BY <2>2, <3>2, <4>1
    <3> QED BY <3>1, <3>2
  <2>7. at(i) < at(j)
    BY <1>1, <2>1, <2>4, <2>5
  <2> HIDE DEF at
  <2>8. at(i) \in DOMAIN rest /\ at(j) \in DOMAIN rest
        /\ rest[at(i)] = a /\ rest[at(j)] = b
    BY <2>3, <2>4, <2>5, <2>6
  <2> QED BY <2>7, <2>8 DEF Precedes, rest
<1> QED BY <1>3, <1>4

(* Two lists of the same elements in the same order are one list: there is  *)
(* no first place where they differ.                                        *)
LEMMA OrderDetermines ==
  ASSUME NEW T, NEW p \in Seq(T), NEW q \in Seq(T),
         IsInjective(p), IsInjective(q), ToSet(p) = ToSet(q),
         \A a, b \in ToSet(p) : Precedes(p, a, b) => Precedes(q, a, b)
  PROVE  p = q
<1> DEFINE m == Len(p)
           n == Len(q)
           Same(i) == i <= m /\ i <= n /\ p[i] = q[i]
<1>1. /\ m \in Nat /\ DOMAIN p = 1 .. m
      /\ n \in Nat /\ DOMAIN q = 1 .. n
  BY LenProperties
<1>2. /\ \A i, j \in 1 .. m : p[i] = p[j] => i = j
      /\ \A i, j \in 1 .. n : q[i] = q[j] => i = j
  BY <1>1 DEF IsInjective
<1>3. /\ \A i \in 1 .. m : p[i] \in ToSet(p) /\ \E j \in 1 .. n : q[j] = p[i]
      /\ \A j \in 1 .. n : q[j] \in ToSet(p) /\ \E i \in 1 .. m : p[i] = q[j]
  BY <1>1 DEF ToSet
<1>4. ASSUME NEW i \in Nat, i > 0, i <= m \/ i <= n,
             \A k \in 1 .. i - 1 : Same(k)
      PROVE  Same(i)
  <2>1. CASE i <= m
    <3>1. i \in 1 .. m
      BY <1>1, <1>4, <2>1
    <3>2. PICK j \in 1 .. n : q[j] = p[i]
      BY <1>3, <3>1
    <3>3. ~(j < i)
      <4> SUFFICES ASSUME j < i PROVE FALSE
        OBVIOUS
      <4>1. j \in 1 .. i - 1 /\ j \in 1 .. m
        BY <1>1, <2>1
      <4> QED BY <1>2, <1>4, <3>1, <3>2, <4>1
    <3>4. CASE j = i
      BY <1>1, <2>1, <3>2, <3>4
    <3>5. CASE j > i
      <4>1. i \in 1 .. n
        BY <1>1, <1>4, <3>5
      <4>2. PICK k \in 1 .. m : p[k] = q[i]
        BY <1>3, <4>1
      <4>3. ~(k < i)
        <5> SUFFICES ASSUME k < i PROVE FALSE
          OBVIOUS
        <5>1. k \in 1 .. i - 1 /\ k \in 1 .. n
          BY <1>1, <3>5
        <5> QED BY <1>2, <1>4, <4>1, <4>2, <5>1
      <4>4. k # i
        BY <1>2, <3>2, <3>5, <4>1, <4>2
      <4>5. Precedes(p, p[i], p[k])
        BY <1>1, <3>1, <4>3, <4>4 DEF Precedes
      <4>6. PICK x \in 1 .. n, y \in 1 .. n : x < y /\ q[x] = p[i] /\ q[y] = p[k]
        <5>1. p[i] \in ToSet(p) /\ p[k] \in ToSet(p)
          BY <1>3, <3>1
        <5>2. Precedes(q, p[i], p[k])
          BY <4>5, <5>1
        <5> QED BY <1>1, <5>2 DEF Precedes
      <4>7. x = j /\ y = i
        BY <1>2, <3>2, <4>1, <4>2, <4>6
      <4> QED BY <3>5, <4>6, <4>7
    <3> QED BY <1>1, <3>1, <3>3, <3>4, <3>5
  <2>2. CASE i <= n /\ ~(i <= m)
    <3>1. i \in 1 .. n
      BY <1>1, <1>4, <2>2
    <3>2. PICK j \in 1 .. m : p[j] = q[i]
      BY <1>3, <3>1
    <3>3. j \in 1 .. i - 1 /\ j \in 1 .. n
      BY <1>1, <2>2
    <3> QED BY <1>2, <1>4, <3>1, <3>2, <3>3
  <2> QED BY <1>4, <2>1, <2>2
<1> DEFINE k == IF m <= n THEN n ELSE m
           D == {i \in 1 .. k : ~Same(i)}
<1>5. k \in Nat /\ m <= k /\ n <= k
  BY <1>1
<1>6. D = {}
  <2> SUFFICES ASSUME D # {} PROVE FALSE
    OBVIOUS
  <2> HIDE DEF k
  <2>1. D \in SUBSET (1 .. k)
    OBVIOUS
  <2> DEFINE i == Min(D)
  <2>2. i \in D /\ \A j \in D : i <= j
    BY <1>5, <2>1, MinOfPositions
  <2> HIDE DEF i
  <2>3. \A j \in 1 .. i - 1 : Same(j)
    BY <1>5, <2>2
  <2>4. i <= m \/ i <= n
    BY <1>5, <2>2 DEF k
  <2> QED BY <1>4, <1>5, <2>2, <2>3, <2>4
<1>7. \A i \in 1 .. k : Same(i)
  BY <1>6
<1>8. m = n
  <2>1. k > 0 => k <= m /\ k <= n
    <3> HIDE DEF k
    <3> QED BY <1>5, <1>7
  <2>2. m \in Nat /\ n \in Nat
    BY <1>1
  <2> HIDE DEF m, n, D
  <2> QED BY <2>1, <2>2
<1> QED BY <1>1, <1>5, <1>7, <1>8, SeqEqual

(***************************************************************************)
(* Copying what passes a test (add_exists_surfaces_to_layer).               *)
(***************************************************************************)

(* The count of the array goes up by one at each element that passes.       *)
LEMMA RankSteps ==
  ASSUME NEW n \in Nat, NEW I \in SUBSET (1 .. n)
  PROVE  /\ IsFiniteSet(I) /\ Cardinality(I) \in Nat
         /\ \A i \in Int : Rank(I, i) \in Nat
         /\ Rank(I, 0) = 0
         /\ Rank(I, n) = Cardinality(I)
         /\ \A i \in Nat : Rank(I, i + 1) =
              IF i + 1 \in I THEN Rank(I, i) + 1 ELSE Rank(I, i)
<1> DEFINE J(i) == {j \in I : j <= i}
<1>1. IsFiniteSet(I) /\ Cardinality(I) \in Nat
  <2>1. IsFiniteSet(1 .. n)
    BY FS_Interval
  <2> QED BY <2>1, FS_Subset, FS_CardinalityType
<1>2. ASSUME NEW i \in Int PROVE IsFiniteSet(J(i)) /\ Rank(I, i) = Cardinality(J(i))
  <2>1. J(i) \in SUBSET I
    OBVIOUS
  <2> QED BY <1>1, <2>1, FS_Subset DEF Rank
<1>3. \A i \in Int : Rank(I, i) \in Nat
  BY <1>2, FS_CardinalityType
<1>4. Rank(I, 0) = 0 /\ Rank(I, n) = Cardinality(I)
  <2>1. \A j \in I : j \in Nat /\ j > 0 /\ j <= n
    OBVIOUS
  <2>2. J(0) = {}
    <3>1. \A j \in I : ~(j <= 0)
      BY <2>1
    <3> QED BY <3>1
  <2>3. J(n) = I
    BY <2>1
  <2> HIDE DEF J
  <2> QED BY <1>2, <2>2, <2>3, FS_EmptySet
<1>5. ASSUME NEW i \in Nat
      PROVE  Rank(I, i + 1) = IF i + 1 \in I THEN Rank(I, i) + 1 ELSE Rank(I, i)
  <2>1. i \in Int /\ i + 1 \in Int
    OBVIOUS
  <2>2. IF i + 1 \in I THEN J(i + 1) = J(i) \cup {i + 1} ELSE J(i + 1) = J(i)
    <3>1. \A j \in I : j \in Nat /\ (j <= i + 1 <=> j <= i \/ j = i + 1)
      OBVIOUS
    <3> QED BY <3>1
  <2>3. i + 1 \notin J(i)
    OBVIOUS
  <2> HIDE DEF J
  <2> QED BY <1>2, <2>1, <2>2, <2>3, FS_AddElement
<1> QED BY <1>1, <1>3, <1>4, <1>5

(* So the counts of two that pass differ, the later one's being higher ...  *)
LEMMA RankIncreases ==
  ASSUME NEW n \in Nat, NEW I \in SUBSET (1 .. n), NEW i \in Nat, NEW j \in I, i < j
  PROVE  Rank(I, i) < Rank(I, j)
<1>1. IsFiniteSet(I)
  BY RankSteps
<1> DEFINE A == {k \in I : k <= i}
           B == {k \in I : k <= j}
<1>2. IsFiniteSet(B) /\ A \in SUBSET B /\ A # B
  <2>1. \A k \in I : k \in Nat
    OBVIOUS
  <2>2. A \in SUBSET B /\ j \in B /\ j \notin A
    <3>1. \A k \in I : k <= i => k <= j
      BY <2>1
    <3>2. j <= j /\ ~(j <= i)
      BY <2>1
    <3> QED BY <3>1, <3>2
  <2>3. B \in SUBSET I
    OBVIOUS
  <2> QED BY <1>1, <2>2, <2>3, FS_Subset
<1>3. IsFiniteSet(A) /\ Cardinality(A) <= Cardinality(B)
      /\ Cardinality(A) # Cardinality(B)
  BY <1>2, FS_Subset
<1>4. Cardinality(A) \in Nat /\ Cardinality(B) \in Nat
  BY <1>2, <1>3, FS_CardinalityType
<1>5. Rank(I, i) = Cardinality(A) /\ Rank(I, j) = Cardinality(B)
  BY DEF Rank
<1> HIDE DEF A, B
<1> QED BY <1>3, <1>4, <1>5

(* ... and every place of the array is some element's.                      *)
LEMMA RankReaches ==
  ASSUME NEW n \in Nat, NEW I \in SUBSET (1 .. n), NEW m \in 1 .. Cardinality(I)
  PROVE  \E i \in I : Rank(I, i) = m
<1> DEFINE J == {i \in 1 .. n : Rank(I, i) >= m}
           i == Min(J)
<1>1. /\ Cardinality(I) \in Nat
      /\ \A k \in Int : Rank(I, k) \in Nat
      /\ Rank(I, 0) = 0
      /\ Rank(I, n) = Cardinality(I)
      /\ \A k \in Nat : Rank(I, k + 1) =
           IF k + 1 \in I THEN Rank(I, k) + 1 ELSE Rank(I, k)
  BY RankSteps
<1>2. n \in J
  <2>1. n # 0
    BY <1>1
  <2> QED BY <1>1, <2>1
<1>3. i \in J /\ \A j \in J : i <= j
  BY <1>2, MinOfPositions, J \in SUBSET (1 .. n)
<1> HIDE DEF i
<1>4. i \in 1 .. n /\ Rank(I, i) >= m
  BY <1>3
<1>5. i - 1 \in Nat /\ (i - 1) + 1 = i
  BY <1>4
<1>6. Rank(I, i - 1) < m
  <2>1. CASE i = 1
    BY <1>1, <2>1
  <2>2. CASE i # 1
    <3>1. i - 1 \in 1 .. n /\ i - 1 \notin J
      BY <1>3, <1>4, <2>2
    <3>2. Rank(I, i - 1) \in Nat
      BY <1>1, <1>5
    <3> QED BY <3>1, <3>2
  <2> QED BY <2>1, <2>2
<1>7. Rank(I, i) = IF i \in I THEN Rank(I, i - 1) + 1 ELSE Rank(I, i - 1)
  BY <1>1, <1>5
<1>8. Rank(I, i) \in Nat /\ Rank(I, i - 1) \in Nat
  BY <1>1, <1>4
<1> QED BY <1>4, <1>6, <1>7, <1>8

(* The array holds what passes, each element once and in the order of the   *)
(* list: place m is taken from position f[m].                               *)
LEMMA KeptPicks ==
  ASSUME NEW T, NEW list \in Seq(T), NEW S
  PROVE  LET q == Kept(list, S)
         IN  /\ q \in Seq(T) /\ Len(q) <= Len(list)
             /\ \E f \in [1 .. Len(q) -> {i \in DOMAIN list : list[i] \in S}] :
                  /\ \A m \in 1 .. Len(q) : q[m] = list[f[m]]
                  /\ \A m, p \in 1 .. Len(q) : m < p => f[m] < f[p]
                  /\ \A i \in DOMAIN list : list[i] \in S =>
                       \E m \in 1 .. Len(q) : f[m] = i
<1> DEFINE n == Len(list)
           I == {i \in DOMAIN list : list[i] \in S}
           k == Cardinality(I)
           q == Kept(list, S)
           f == [m \in 1 .. k |-> CHOOSE i \in I : Rank(I, i) = m]
<1>1. n \in Nat /\ DOMAIN list = 1 .. n /\ \A i \in 1 .. n : list[i] \in T
  BY LenProperties, ElementOfSeq
<1>2. I \in SUBSET (1 .. n)
  BY <1>1
<1>3. IsFiniteSet(I) /\ k \in Nat /\ \A i \in Int : Rank(I, i) \in Nat
  BY <1>1, <1>2, RankSteps
<1>4. \A m \in 1 .. k : \E i \in I : Rank(I, i) = m
  BY <1>1, <1>2, RankReaches
<1>5. q = [m \in 1 .. k |-> list[CHOOSE i \in I : Rank(I, i) = m]]
  BY DEF Kept
<1>6. \A m \in 1 .. k : f[m] \in I /\ Rank(I, f[m]) = m /\ q[m] = list[f[m]]
  <2> HIDE DEF I
  <2> QED BY <1>4, <1>5
<1>7. f \in [1 .. k -> I]
  <2> HIDE DEF I
  <2> QED BY <1>4
<1>8. q \in [1 .. k -> T]
  <2>1. \A m \in 1 .. k : q[m] \in T
    BY <1>1, <1>2, <1>6
  <2> HIDE DEF I
  <2> QED BY <1>5, <2>1
<1>9. q \in Seq(T) /\ Len(q) = k
  <2> HIDE DEF q, k
  <2> QED BY <1>3, <1>8
<1>10. k <= n
  <2>1. IsFiniteSet(1 .. n) /\ Cardinality(1 .. n) = n
    <3>1. Cardinality(1 .. n) = IF 1 > n THEN 0 ELSE n - 1 + 1
      BY <1>1, FS_Interval
    <3> HIDE DEF n
    <3> QED BY <1>1, <3>1, FS_Interval
  <2> HIDE DEF n, I
  <2> QED BY <1>2, <2>1, FS_Subset
<1>11. ASSUME NEW i \in I, NEW j \in I, Rank(I, i) <= Rank(I, j) PROVE i <= j
  <2> SUFFICES ASSUME j < i PROVE FALSE
    BY <1>1
  <2>1. i \in Nat /\ j \in Nat
    BY <1>1
  <2>2. Rank(I, j) < Rank(I, i)
    BY <1>1, <1>2, <2>1, RankIncreases
  <2> QED BY <1>3, <1>11, <2>1, <2>2
<1>12. ASSUME NEW m \in 1 .. k, NEW p \in 1 .. k, m < p
       PROVE  f[m] < f[p]
  <2>1. /\ f[m] \in I /\ Rank(I, f[m]) = m
        /\ f[p] \in I /\ Rank(I, f[p]) = p
    BY <1>6
  <2>2. f[m] \in Int /\ f[p] \in Int
    BY <1>1, <2>1
  <2> HIDE DEF I, f, k
  <2>3. f[m] <= f[p]
    <3>1. Rank(I, f[m]) <= Rank(I, f[p])
      BY <1>3, <1>12, <2>1
    <3> QED BY <1>11, <2>1, <3>1
  <2>4. f[m] # f[p]
    BY <1>3, <1>12, <2>1
  <2> QED BY <2>2, <2>3, <2>4
<1>13. ASSUME NEW i \in I PROVE \E m \in 1 .. k : f[m] = i
  <2> DEFINE m == Rank(I, i)
  <2>1. i \in 1 .. n /\ i - 1 \in Nat
    BY <1>1
  <2>2. m \in Nat /\ Rank(I, i - 1) \in Nat
    BY <1>3, <2>1
  <2>3. m > 0
    <3>1. i - 1 < i
      BY <2>1
    <3> HIDE DEF I
    <3>2. Rank(I, i - 1) < m
      BY <1>1, <1>2, <2>1, <3>1, RankIncreases
    <3> QED BY <2>2, <3>2
  <2>4. m <= k
    <3>1. CASE i = n
      BY <1>1, <1>2, <3>1, RankSteps
    <3>2. CASE i # n
      <4>1. {j \in I : j <= i} \in SUBSET I
        OBVIOUS
      <4> QED BY <1>3, <4>1, FS_Subset DEF Rank
    <3> QED BY <3>1, <3>2
  <2>5. m \in 1 .. k
    BY <1>3, <2>2, <2>3, <2>4
  <2>6. f[m] \in I /\ Rank(I, f[m]) = m
    BY <1>6, <2>5
  <2>7. f[m] <= i /\ i <= f[m]
    <3>1. Rank(I, f[m]) <= Rank(I, i) /\ Rank(I, i) <= Rank(I, f[m])
      <4> HIDE DEF f, I
      <4> QED BY <2>2, <2>6
    <3> HIDE DEF I, f, m
    <3> QED BY <1>11, <2>6, <3>1
  <2>8. f[m] \in Int /\ i \in Int
    BY <1>1, <2>6
  <2> HIDE DEF f, m, I
  <2>9. f[m] = i
    BY <2>7, <2>8
  <2> QED BY <2>5, <2>9
<1> HIDE DEF f, q, k
<1>14. \A m \in 1 .. k : q[m] = list[f[m]]
  BY <1>6
<1> QED BY <1>7, <1>9, <1>10, <1>12, <1>13, <1>14 DEF q

LEMMA KeptSet ==
  ASSUME NEW T, NEW list \in Seq(T), NEW S
  PROVE  LET q == Kept(list, S)
         IN  /\ q \in Seq(T) /\ Len(q) <= Len(list)
             /\ ToSet(q) = ToSet(list) \cap S
             /\ IsInjective(list) => IsInjective(q)
             /\ \A a, b \in S : Precedes(list, a, b) <=> Precedes(q, a, b)
<1> DEFINE q == Kept(list, S)
           I == {i \in DOMAIN list : list[i] \in S}
<1>1. q \in Seq(T) /\ Len(q) <= Len(list)
  BY KeptPicks
<1>2. PICK f \in [1 .. Len(q) -> I] :
        /\ \A m \in 1 .. Len(q) : q[m] = list[f[m]]
        /\ \A m, p \in 1 .. Len(q) : m < p => f[m] < f[p]
        /\ \A i \in DOMAIN list : list[i] \in S => \E m \in 1 .. Len(q) : f[m] = i
  BY KeptPicks
<1> HIDE DEF q
<1>3. /\ Len(q) \in Nat /\ DOMAIN q = 1 .. Len(q)
      /\ Len(list) \in Nat /\ DOMAIN list = 1 .. Len(list)
  BY <1>1, LenProperties
<1>4. \A m \in 1 .. Len(q) : f[m] \in DOMAIN list /\ list[f[m]] \in S
  BY <1>2
<1>5. ToSet(q) = ToSet(list) \cap S
  <2>1. ToSet(q) \subseteq ToSet(list) \cap S
    BY <1>2, <1>3, <1>4 DEF ToSet
  <2>2. ASSUME NEW i \in DOMAIN list, list[i] \in S PROVE list[i] \in ToSet(q)
    <3>1. PICK m \in 1 .. Len(q) : f[m] = i
      BY <1>2, <2>2
    <3>2. q[m] = list[i]
      BY <1>2, <3>1
    <3> QED BY <1>3, <3>2 DEF ToSet
  <2> QED BY <2>1, <2>2 DEF ToSet
<1>6. ASSUME IsInjective(list) PROVE IsInjective(q)
  <2> SUFFICES ASSUME NEW m \in 1 .. Len(q), NEW p \in 1 .. Len(q), q[m] = q[p]
               PROVE  m = p
    BY <1>3 DEF IsInjective
  <2>1. f[m] = f[p]
    BY <1>2, <1>4, <1>6 DEF IsInjective
  <2>2. f[m] \in Int /\ f[p] \in Int
    BY <1>3, <1>4
  <2>3. ~(m < p) /\ ~(p < m)
    BY <1>2, <2>1, <2>2
  <2> QED BY <1>3, <2>3
<1>7. ASSUME NEW a \in S, NEW b \in S, Precedes(q, a, b)
      PROVE  Precedes(list, a, b)
  <2>1. PICK m \in 1 .. Len(q), p \in 1 .. Len(q) : m < p /\ q[m] = a /\ q[p] = b
    BY <1>3, <1>7 DEF Precedes
  <2> QED BY <1>2, <1>4, <2>1 DEF Precedes
<1>8. ASSUME NEW a \in S, NEW b \in S, Precedes(list, a, b)
      PROVE  Precedes(q, a, b)
  <2>1. PICK i \in DOMAIN list, j \in DOMAIN list : i < j /\ list[i] = a /\ list[j] = b
    BY <1>8 DEF Precedes
  <2>2. PICK m \in 1 .. Len(q) : f[m] = i
    BY <1>2, <2>1
  <2>3. PICK p \in 1 .. Len(q) : f[p] = j
    BY <1>2, <2>1
  <2>4. ~(p <= m)
    <3>1. p < m => j < i
      BY <1>2, <2>2, <2>3
    <3>2. p = m => j = i
      BY <2>2, <2>3
    <3>3. p <= m <=> p < m \/ p = m
      BY <1>3
    <3> QED BY <1>3, <2>1, <3>1, <3>2, <3>3
  <2>5. m < p
    BY <1>3, <2>4
  <2>6. q[m] = a /\ q[p] = b
    BY <1>2, <2>1, <2>2, <2>3
  <2> QED BY <1>3, <2>5, <2>6 DEF Precedes
<1> QED BY <1>1, <1>5, <1>6, <1>7, <1>8 DEF q

(* A list is Kept(list, S) if it has those elements, in that order.         *)
LEMMA KeptIs ==
  ASSUME NEW T, NEW list \in Seq(T), NEW S, NEW q \in Seq(T),
         IsInjective(list), IsInjective(q), ToSet(q) = ToSet(list) \cap S,
         \A a, b \in S : Precedes(list, a, b) => Precedes(q, a, b)
  PROVE  Kept(list, S) = q
<1> DEFINE p == Kept(list, S)
<1>1. /\ p \in Seq(T) /\ IsInjective(p)
      /\ ToSet(p) = ToSet(list) \cap S
      /\ \A a, b \in S : Precedes(list, a, b) <=> Precedes(p, a, b)
  BY KeptSet
<1> HIDE DEF p
<1>2. \A a, b \in ToSet(p) : Precedes(p, a, b) => Precedes(q, a, b)
  BY <1>1
<1>3. p = q
  BY <1>1, <1>2, OrderDetermines
<1> QED BY <1>3 DEF p

(* Two lists that agree on S are the same there.                            *)
LEMMA KeptSame ==
  ASSUME NEW T, NEW list \in Seq(T), NEW new \in Seq(T), NEW S,
         IsInjective(list), IsInjective(new), ToSet(list) \cap S = ToSet(new) \cap S,
         \A a, b \in S : Precedes(list, a, b) => Precedes(new, a, b)
  PROVE  Kept(list, S) = Kept(new, S)
<1> DEFINE q == Kept(new, S)
<1>1. /\ q \in Seq(T) /\ IsInjective(q)
      /\ ToSet(q) = ToSet(new) \cap S
      /\ \A a, b \in S : Precedes(new, a, b) <=> Precedes(q, a, b)
  BY KeptSet
<1> HIDE DEF q
<1>2. \A a, b \in S : Precedes(list, a, b) => Precedes(q, a, b)
  BY <1>1
<1>3. Kept(list, S) = q
  BY <1>1, <1>2, KeptIs
<1> QED BY <1>3 DEF q

(* Only the elements of the list that are in S matter.                      *)
LEMMA KeptOnly ==
  ASSUME NEW T, NEW list \in Seq(T), NEW S, NEW R, IsInjective(list),
         ToSet(list) \cap S = ToSet(list) \cap R
  PROVE  Kept(list, S) = Kept(list, R)
<1> DEFINE q == Kept(list, R)
<1>1. /\ q \in Seq(T) /\ IsInjective(q)
      /\ ToSet(q) = ToSet(list) \cap R
      /\ \A a, b \in R : Precedes(list, a, b) <=> Precedes(q, a, b)
  BY KeptSet
<1> HIDE DEF q
<1>2. ASSUME NEW a \in S, NEW b \in S, Precedes(list, a, b)
      PROVE  Precedes(q, a, b)
  <2>1. a \in ToSet(list) /\ b \in ToSet(list)
    BY <1>2 DEF Precedes, ToSet
  <2>2. a \in R /\ b \in R
    BY <2>1
  <2> QED BY <1>1, <1>2, <2>2
<1>3. Kept(list, S) = q
  BY <1>1, <1>2, KeptIs
<1> QED BY <1>3 DEF q

LEMMA KeptAll ==
  ASSUME NEW T, NEW list \in Seq(T), NEW S, IsInjective(list),
         ToSet(list) \subseteq S
  PROVE  Kept(list, S) = list
<1>1. ToSet(list) = ToSet(list) \cap S
  OBVIOUS
<1> QED BY <1>1, KeptIs

LEMMA KeptKept ==
  ASSUME NEW T, NEW list \in Seq(T), NEW S, NEW R, IsInjective(list)
  PROVE  Kept(Kept(list, S), R) = Kept(list, S \cap R)
<1> DEFINE q == Kept(list, S)
           r == Kept(q, R)
<1>1. /\ q \in Seq(T) /\ IsInjective(q)
      /\ ToSet(q) = ToSet(list) \cap S
      /\ \A a, b \in S : Precedes(list, a, b) <=> Precedes(q, a, b)
  BY KeptSet
<1> HIDE DEF q
<1>2. /\ r \in Seq(T) /\ IsInjective(r)
      /\ ToSet(r) = ToSet(q) \cap R
      /\ \A a, b \in R : Precedes(q, a, b) <=> Precedes(r, a, b)
  BY <1>1, KeptSet
<1> HIDE DEF r
<1>3. \A a, b \in S \cap R : Precedes(list, a, b) => Precedes(r, a, b)
  BY <1>1, <1>2
<1>4. ToSet(r) = ToSet(list) \cap (S \cap R)
  BY <1>1, <1>2
<1>5. Kept(list, S \cap R) = r
  BY <1>2, <1>3, <1>4, KeptIs
<1> QED BY <1>5 DEF q, r

(* What is not in S may be linked into the list and unlinked from it.       *)
LEMMA KeptInsert ==
  ASSUME NEW T, NEW list \in Seq(T), NEW id \in T, NEW order \in InsertOrder,
         NEW ref, NEW S, IsInjective(list), id \notin ToSet(list), id \notin S
  PROVE  Kept(InsertElement(list, id, order, ref), S) = Kept(list, S)
<1> DEFINE ins == InsertElement(list, id, order, ref)
<1>1. /\ ins \in Seq(T) /\ IsInjective(ins)
      /\ ToSet(ins) = ToSet(list) \cup (IF order = NoOrder THEN {} ELSE {id})
  BY InsertElementSet
<1>2. \A a, b \in S : Precedes(list, a, b) => Precedes(ins, a, b)
  BY InsertOrderKept
<1> HIDE DEF ins
<1>3. ToSet(list) \cap S = ToSet(ins) \cap S
  BY <1>1
<1>4. Kept(list, S) = Kept(ins, S)
  BY <1>1, <1>2, <1>3, KeptSame
<1> QED BY <1>4 DEF ins

LEMMA KeptPop ==
  ASSUME NEW T, NEW list \in Seq(T), NEW id, NEW S, IsInjective(list), id \notin S
  PROVE  Kept(PopElement(list, id), S) = Kept(list, S)
<1> DEFINE rest == PopElement(list, id)
<1>1. /\ rest \in Seq(T) /\ IsInjective(rest)
      /\ ToSet(rest) \subseteq ToSet(list)
      /\ ToSet(list) \ {id} \subseteq ToSet(rest)
  BY PopElementSet
<1>2. \A a, b \in S : Precedes(list, a, b) => Precedes(rest, a, b)
  BY PopOrderKept
<1> HIDE DEF rest
<1>3. ToSet(list) \cap S = ToSet(rest) \cap S
  BY <1>1
<1>4. Kept(list, S) = Kept(rest, S)
  BY <1>1, <1>2, <1>3, KeptSame
<1> QED BY <1>4 DEF rest

(* Unlinking is keeping the others.                                         *)
LEMMA PopIsWithout ==
  ASSUME NEW T, NEW list \in Seq(T), NEW id, IsInjective(list)
  PROVE  PopElement(list, id) = Without(list, id)
<1> DEFINE rest == PopElement(list, id)
           S == ToSet(list) \ {id}
<1>1. /\ rest \in Seq(T) /\ IsInjective(rest)
      /\ ToSet(rest) \subseteq ToSet(list)
      /\ ToSet(list) \ {id} \subseteq ToSet(rest)
      /\ id \notin ToSet(rest)
  BY PopElementSet
<1>2. Kept(rest, S) = Kept(list, S)
  BY KeptPop
<1> HIDE DEF rest
<1>3. ToSet(rest) \subseteq S
  BY <1>1
<1>4. Kept(rest, S) = rest
  BY <1>1, <1>3, KeptAll
<1> QED BY <1>2, <1>4 DEF rest, Without

(* What can be said of the elements of a list without one of them.          *)
LEMMA WithoutSet ==
  ASSUME NEW T, NEW list \in Seq(T), NEW id
  PROVE  /\ Without(list, id) \in Seq(T)
         /\ ToSet(Without(list, id)) = ToSet(list) \ {id}
         /\ IsInjective(list) => IsInjective(Without(list, id))
<1>1. ToSet(list) \cap (ToSet(list) \ {id}) = ToSet(list) \ {id}
  OBVIOUS
<1> QED BY <1>1, KeptSet DEF Without

LEMMA AppendSet ==
  ASSUME NEW T, NEW list \in Seq(T), NEW id \in T
  PROVE  /\ Append(list, id) \in Seq(T)
         /\ ToSet(Append(list, id)) = ToSet(list) \cup {id}
         /\ IsInjective(list) /\ id \notin ToSet(list)
              => IsInjective(Append(list, id))
         /\ \A a, b : Precedes(list, a, b) => Precedes(Append(list, id), a, b)
         /\ \A a \in ToSet(list) : Precedes(Append(list, id), a, id)
<1> DEFINE n == Len(list)
           q == Append(list, id)
<1>1. n \in Nat /\ DOMAIN list = 1 .. n
  BY LenProperties
<1>2. /\ q \in Seq(T) /\ Len(q) = n + 1
      /\ \A i \in 1 .. n : q[i] = list[i]
      /\ q[n + 1] = id
  BY AppendProperties
<1> HIDE DEF q
<1>3. DOMAIN q = 1 .. n + 1
  BY <1>2, LenProperties
<1>4. 1 .. n + 1 = (1 .. n) \cup {n + 1}
  BY <1>1
<1>5. ToSet(q) = ToSet(list) \cup {id}
  BY <1>1, <1>2, <1>3, <1>4 DEF ToSet
<1>6. IsInjective(list) /\ id \notin ToSet(list) => IsInjective(q)
  <2> SUFFICES ASSUME IsInjective(list), id \notin ToSet(list),
                      NEW i \in 1 .. n + 1, NEW j \in 1 .. n + 1, q[i] = q[j]
               PROVE  i = j
    BY <1>3 DEF IsInjective
  <2>1. \A k \in 1 .. n : list[k] # id
    BY <1>1 DEF ToSet
  <2>2. \A a, b \in 1 .. n : list[a] = list[b] => a = b
    BY <1>1 DEF IsInjective
  <2> QED BY <1>2, <1>4, <2>1, <2>2
<1>7. \A a, b : Precedes(list, a, b) => Precedes(q, a, b)
  BY <1>1, <1>2, <1>3, <1>4 DEF Precedes
<1>8. ASSUME NEW a \in ToSet(list) PROVE Precedes(q, a, id)
  <2>1. PICK i \in 1 .. n : list[i] = a
    BY <1>1 DEF ToSet
  <2>2. i < n + 1 /\ i \in 1 .. n + 1 /\ n + 1 \in 1 .. n + 1
    BY <1>1
  <2> QED BY <1>2, <1>3, <2>1, <2>2 DEF Precedes
<1> QED BY <1>2, <1>5, <1>6, <1>7, <1>8 DEF q

(* One more pass of the loop: the element at k comes after those found in   *)
(* front of it.                                                             *)
LEMMA KeptAppend ==
  ASSUME NEW T, NEW list \in Seq(T), IsInjective(list), NEW k \in DOMAIN list,
         NEW q \in Seq(T), q = Kept(list, ToSet(q)),
         \A e \in ToSet(q) : \E i \in DOMAIN list : i < k /\ list[i] = e
  PROVE  Append(q, list[k]) = Kept(list, ToSet(q) \cup {list[k]})
<1> DEFINE x == list[k]
           new == Append(q, x)
           S == ToSet(q) \cup {x}
<1>1. /\ Len(list) \in Nat /\ DOMAIN list = 1 .. Len(list)
      /\ x \in T /\ x \in ToSet(list)
  BY LenProperties, ElementOfSeq DEF ToSet
<1>2. \A i, j \in DOMAIN list : list[i] = list[j] => i = j
  BY DEF IsInjective
<1>3. x \notin ToSet(q)
  BY <1>1, <1>2
<1>4. /\ IsInjective(q) /\ ToSet(q) \subseteq ToSet(list)
      /\ \A a, b \in ToSet(q) : Precedes(list, a, b) <=> Precedes(q, a, b)
  BY KeptSet
<1>5. /\ new \in Seq(T) /\ ToSet(new) = S
      /\ IsInjective(new)
      /\ \A a, b : Precedes(q, a, b) => Precedes(new, a, b)
      /\ \A a \in ToSet(q) : Precedes(new, a, x)
  BY <1>1, <1>3, <1>4, AppendSet
<1> HIDE DEF new
<1>6. ASSUME NEW a \in S, NEW b \in S, Precedes(list, a, b)
      PROVE  Precedes(new, a, b)
  <2>1. PICK i \in DOMAIN list, j \in DOMAIN list : i < j /\ list[i] = a /\ list[j] = b
    BY <1>6 DEF Precedes
  <2>2. CASE b = x
    <3>1. a # x
      BY <1>1, <1>2, <2>1, <2>2
    <3> QED BY <1>5, <2>2, <3>1
  <2>3. CASE b # x
    <3>1. PICK m \in DOMAIN list : m < k /\ list[m] = b
      BY <2>3
    <3>2. m = j
      BY <1>2, <2>1, <3>1
    <3>3. a # x
      <4>1. a = x => i = k
        BY <1>2, <2>1
      <4> QED BY <1>1, <2>1, <3>1, <3>2, <4>1
    <3> QED BY <1>4, <1>5, <1>6, <2>3, <3>3
  <2> QED BY <2>2, <2>3
<1>7. ToSet(new) = ToSet(list) \cap S
  BY <1>1, <1>4, <1>5
<1> HIDE DEF S
<1>8. Kept(list, S) = new
  BY <1>5, <1>6, <1>7, KeptIs
<1> QED BY <1>8 DEF new, S

==============================================================================
