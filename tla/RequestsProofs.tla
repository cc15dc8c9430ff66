--------------------------- MODULE RequestsProofs ---------------------------
(***************************************************************************)
(* Proofs about the requests of app/ilm_control_wrapper.c, for any surfaces,*)
(* layers and layouts: a request ends the program only in a race, a commit  *)
(* changes whole layouts, and it renders the list of the request.           *)
(***************************************************************************)
EXTENDS Requests, TailQueueProofs

Layout == [Parts -> Look \cup {NoLook}]

Arguments ==
  [surface : Surface \cup {NoId}, layer : Layer \cup {NoId},
   look : Look \cup {NoLook}, list : Lists]

(* The last value of step: of the calls of set_surface, or of the surfaces *)
(* to look up.                                                              *)
LastStep == Max({Len(Part), Cardinality(Surface)}) + 1

(* The types, with those of the arguments. *)
Types ==
  /\ alive \in SUBSET Surface
  /\ shown \in [Surface -> Layout]
  /\ pending \in [Surface -> Layout]
  /\ order \in [Layer -> Lists]
  /\ pendingOrder \in [Layer -> Lists]
  /\ call \in {"idle", "set_surface", "remove_surface", "render", "commit"}
  /\ arg \in Arguments
  /\ step \in 0 .. LastStep
  /\ found \in Lists
  /\ stayed \in SUBSET alive
  /\ gone \in SUBSET (Surface \ stayed)
  /\ process \in {"running", "exited"}

(* What a request relies on was there when it was looked up. *)
FoundInv ==
  /\ call \in {"set_surface", "remove_surface"} => arg.surface \in alive \cup gone
  /\ ToSet(found) \subseteq alive \cup gone
  /\ call = "render" => step > 0

(* Only the surface of the request has a layout that is not displayed; if   *)
(* it stayed, its parts were set up to the call at hand.                    *)
PendingInv ==
  /\ \A s \in Surface : s # arg.surface \/ call \notin {"set_surface", "commit"}
                        => pending[s] = shown[s]
  /\ call = "set_surface" => arg.surface \in Surface /\ step \in 1 .. 4
  /\ call = "set_surface" /\ arg.surface \in stayed =>
       \A i \in 1 .. 4 : pending[arg.surface][Part[i]] =
         IF i < step THEN arg.look ELSE shown[arg.surface][Part[i]]
  /\ call = "commit" /\ arg.surface \in stayed =>
       \/ pending[arg.surface] = shown[arg.surface]
       \/ \A p, q \in Parts : pending[arg.surface][p] = pending[arg.surface][q]

(* A list of the surfaces that a request has to render: those of its list   *)
(* in their order, and of the first n all that stayed.                      *)
Renders(q, n) ==
  /\ q = Kept(arg.list, ToSet(q))
  /\ \A i \in DOMAIN arg.list :
       i <= n /\ arg.list[i] \in stayed => arg.list[i] \in ToSet(q)

(* What was found comes from the places that were passed, and goes into the *)
(* render order that is committed; no render order names what is gone.      *)
OrderInv ==
  /\ \A l \in Layer : ToSet(pendingOrder[l]) \subseteq alive
  /\ call = "render" =>
       /\ step <= Len(arg.list) + 1
       /\ \A s \in ToSet(found) :
            \E i \in DOMAIN arg.list : i < step /\ arg.list[i] = s
       /\ Renders(found, step - 1)
  /\ call = "commit" /\ arg.surface = NoId =>
       \A l \in Layer : arg.layer = l => Renders(pendingOrder[l], Len(arg.list))

RequestsInv == Types /\ FoundInv /\ PendingInv /\ OrderInv /\ ExitsOnlyInRace

LEMMA PartsNamed ==
  /\ Len(Part) = 4
  /\ \A i \in 1 .. 4 : Part[i] \in Parts
  /\ \A p \in Parts : \E i \in 1 .. 4 : p = Part[i]
  /\ \A i, j \in 1 .. 4 : Part[i] = Part[j] => i = j
BY DEF Part, Parts, ToSet

LEMMA StepBounds ==
  /\ Cardinality(Surface) \in Nat
  /\ LastStep \in Nat /\ LastStep >= 5 /\ LastStep >= Cardinality(Surface) + 1
<1> DEFINE n == Cardinality(Surface)
<1>1. n \in Nat
  BY SurfaceAssumption, FS_CardinalityType
<1>2. Len(Part) = 4
  BY PartsNamed
<1> HIDE DEF n
<1>3. \E x \in {4, n} : \A y \in {4, n} : x >= y
  <2>1. 4 >= n \/ n >= 4
    BY <1>1
  <2> QED BY <1>1, <2>1
<1>4. Max({4, n}) \in {4, n} /\ \A y \in {4, n} : Max({4, n}) >= y
  BY <1>3 DEF Max
<1> QED BY <1>1, <1>2, <1>4 DEF LastStep, n

(* The lists of a layer: those without a surface twice are short enough.    *)
LEMMA ListsMeans ==
  \A q : q \in Lists <=> q \in Seq(Surface) /\ IsInjective(q)
<1> DEFINE n == Cardinality(Surface)
<1>1. n \in Nat
  BY StepBounds
<1>2. ASSUME NEW q \in Seq(Surface), IsInjective(q) PROVE Len(q) <= n
  <2>1. Len(q) \in Nat /\ DOMAIN q = 1 .. Len(q) /\ q \in [1 .. Len(q) -> Surface]
    BY LenProperties
  <2>2. q \in Injection(1 .. Len(q), Surface)
    BY <1>2, <2>1 DEF IsInjective, Injection
  <2>3. Cardinality(1 .. Len(q)) <= n
    BY <2>2, SurfaceAssumption, FS_Injection
  <2>4. Cardinality(1 .. Len(q)) = IF 1 > Len(q) THEN 0 ELSE Len(q) - 1 + 1
    BY <2>1, FS_Interval
  <2> HIDE DEF n
  <2> QED BY <1>1, <2>1, <2>3, <2>4
<1>3. ASSUME NEW q \in Seq(Surface), Len(q) <= n PROVE q \in SeqOf(Surface, n)
  <2>1. Len(q) \in 0 .. n /\ q \in [1 .. Len(q) -> Surface]
    BY <1>1, <1>3, LenProperties
  <2> HIDE DEF n
  <2> QED BY <2>1 DEF SeqOf
<1>4. ASSUME NEW q \in SeqOf(Surface, n) PROVE q \in Seq(Surface)
  BY <1>4 DEF SeqOf
<1> HIDE DEF n
<1> QED BY <1>2, <1>3, <1>4 DEF Lists, n

LEMMA ListFacts ==
  ASSUME NEW q \in Lists
  PROVE  /\ q \in Seq(Surface) /\ IsInjective(q)
         /\ Len(q) \in Nat /\ Len(q) <= Cardinality(Surface)
         /\ DOMAIN q = 1 .. Len(q)
         /\ ToSet(q) \subseteq Surface
<1>1. q \in Seq(Surface) /\ IsInjective(q)
  BY ListsMeans
<1>2. PICK m \in 0 .. Cardinality(Surface) : q \in [1 .. m -> Surface]
  BY DEF Lists, SeqOf
<1>3. Len(q) = m
  BY <1>1, <1>2, LenProperties, StepBounds
<1> QED BY <1>1, <1>2, <1>3, LenProperties, StepBounds, ElementOfSeq DEF ToSet

LEMMA KeptLists ==
  ASSUME NEW q \in Lists, NEW S
  PROVE  /\ Kept(q, S) \in Lists /\ ToSet(Kept(q, S)) = ToSet(q) \cap S
         /\ \A s : /\ Without(q, s) \in Lists
                   /\ ToSet(Without(q, s)) = ToSet(q) \ {s}
BY ListsMeans, KeptSet, WithoutSet

LEMMA EmptyList == <<>> \in Lists /\ ToSet(<<>>) = {}
<1>1. <<>> \in Seq(Surface) /\ IsInjective(<<>>)
  BY EmptySeq DEF IsInjective
<1>2. ToSet(<<>>) = {}
  BY DEF ToSet
<1> QED BY <1>1, <1>2, ListsMeans

(* What is left of a list when a surface goes. *)
LEMMA RendersWithout ==
  ASSUME NEW q \in Lists, NEW list \in Lists, q = Kept(list, ToSet(q)), NEW S
  PROVE  Kept(q, S) = Kept(list, ToSet(Kept(q, S)))
<1>1. q \in Seq(Surface) /\ list \in Seq(Surface) /\ IsInjective(list)
  BY ListsMeans
<1>2. Kept(q, S) = Kept(list, ToSet(q) \cap S)
  BY <1>1, KeptKept
<1>3. ToSet(Kept(q, S)) = ToSet(q) \cap S
  BY KeptLists
<1> QED BY <1>2, <1>3

(* Setting one field of the arguments at a time. *)
LEMMA SetArgument ==
  ASSUME NEW a \in Arguments
  PROVE  /\ \A s \in Surface : /\ [a EXCEPT !.surface = s] \in Arguments
                               /\ [a EXCEPT !.surface = s].surface = s
         /\ \A l \in Layer : /\ [a EXCEPT !.layer = l] \in Arguments
                             /\ [a EXCEPT !.layer = l].surface = a.surface
         /\ \A look \in Look : /\ [a EXCEPT !.look = look] \in Arguments
                               /\ [a EXCEPT !.look = look].surface = a.surface
         /\ \A list \in Lists : [a EXCEPT !.list = list] \in Arguments
BY DEF Arguments

LEMMA IdleTyped == Idle \in Arguments
BY EmptyList DEF Idle, Arguments

(* What a step of an application does. *)
LEMMA AppearsKeeps ==
  ASSUME RequestsInv, NEW s \in Surface, Appears(s)
  PROVE  RequestsInv'
<1> USE DEF Appears, displayVars, callVars, history
<1>1. Types'
  BY DEF RequestsInv, Types
<1>2. FoundInv'
  BY DEF RequestsInv, FoundInv
<1>3. PendingInv' /\ ExitsOnlyInRace'
  BY DEF RequestsInv, PendingInv, ExitsOnlyInRace
<1>4. OrderInv'
  BY DEF RequestsInv, OrderInv, Renders
<1> QED BY <1>1, <1>2, <1>3, <1>4 DEF RequestsInv

LEMMA DisappearsKeeps ==
  ASSUME RequestsInv, NEW s \in Surface, Disappears(s)
  PROVE  RequestsInv'
<1> USE DEF Disappears, callVars
<1>1. Unlaid \in Layout
  BY DEF Unlaid, Layout
<1>2. \A l \in Layer : /\ order'[l] \in Lists /\ pendingOrder'[l] \in Lists
                       /\ ToSet(pendingOrder'[l]) = ToSet(pendingOrder[l]) \ {s}
  BY KeptLists DEF RequestsInv, Types
<1>3. Types'
  BY <1>1, <1>2 DEF RequestsInv, Types
<1>4. FoundInv'
  BY DEF RequestsInv, FoundInv
<1>5. \A t \in Surface : t # s => shown'[t] = shown[t] /\ pending'[t] = pending[t]
  BY DEF RequestsInv, Types
<1>6. shown'[s] = pending'[s] /\ s \notin stayed'
  BY DEF RequestsInv, Types
<1>7. stayed' \subseteq stayed /\ stayed \subseteq Surface
  BY DEF RequestsInv, Types
<1>8. PendingInv'
  BY <1>5, <1>6, <1>7 DEF RequestsInv, PendingInv
<1>9. ExitsOnlyInRace'
  BY DEF RequestsInv, ExitsOnlyInRace
<1>10. OrderInv'
  <2>1. \A l \in Layer : ToSet(pendingOrder'[l]) \subseteq alive'
    BY <1>2 DEF RequestsInv, OrderInv
  <2>2. call = "render" => Renders(found, step - 1)'
    BY <1>7 DEF RequestsInv, OrderInv, Renders
  <2>3. ASSUME call = "commit", arg.surface = NoId, NEW l \in Layer, arg.layer = l
        PROVE  Renders(pendingOrder[l], Len(arg.list))'
    <3>1. Renders(pendingOrder[l], Len(arg.list))
      BY <2>3 DEF RequestsInv, OrderInv
    <3>2. pendingOrder[l] \in Lists /\ arg.list \in Lists
      BY DEF RequestsInv, Types, Arguments
    <3>3. pendingOrder'[l] = Kept(pendingOrder[l], ToSet(pendingOrder[l]) \ {s})
      BY DEF Without
    <3>4. pendingOrder'[l] = Kept(arg.list, ToSet(pendingOrder'[l]))
      BY <3>1, <3>2, <3>3, RendersWithout DEF Renders
    <3> QED BY <1>2, <1>6, <1>7, <3>1, <3>4 DEF Renders
  <2> QED BY <2>1, <2>2, <2>3 DEF RequestsInv, OrderInv
<1> QED BY <1>3, <1>4, <1>8, <1>9, <1>10 DEF RequestsInv

(* A request begins with nothing found, and with a surface that exists. *)
LEMMA BeginKeeps ==
  ASSUME RequestsInv, process = "running",
         NEW f \in {"set_surface", "remove_surface", "render"}, NEW a, Begin(f, a),
         a \in Arguments,
         f # "render" => a.surface \in alive
  PROVE  RequestsInv'
<1> USE DEF RequestsInv, Begin, displayVars
<1>1. Types'
  BY EmptyList, StepBounds DEF Types
<1>2. FoundInv'
  BY EmptyList DEF FoundInv
<1>3. \A s \in Surface : pending'[s] = shown'[s]
  BY DEF PendingInv
<1>4. /\ call' = "set_surface" => arg'.surface \in Surface /\ step' \in 1 .. 4
      /\ \A i \in 1 .. 4 : ~(i < step')
  BY DEF Types
<1>5. PendingInv'
  BY <1>3, <1>4 DEF PendingInv
<1>6. ExitsOnlyInRace'
  BY DEF ExitsOnlyInRace
<1>7. OrderInv'
  <2>1. arg' \in Arguments /\ arg'.list \in Lists
    BY DEF Arguments
  <2>2. Len(arg'.list) \in Nat /\ DOMAIN arg'.list = 1 .. Len(arg'.list)
    BY <2>1, ListFacts
  <2>3. Kept(arg'.list, {}) = <<>>
    <3>1. /\ arg'.list \in Seq(Surface) /\ IsInjective(arg'.list)
          /\ <<>> \in Seq(Surface) /\ IsInjective(<<>>)
      BY <2>1, EmptyList, ListsMeans
    <3>2. ToSet(<<>>) = ToSet(arg'.list) \cap {}
      BY EmptyList
    <3> QED BY <3>1, <3>2, KeptIs
  <2>4. Renders(found, step - 1)'
    <3>1. \A i \in DOMAIN arg'.list : ~(i <= step' - 1)
      BY <2>2
    <3> QED BY <2>3, <3>1, EmptyList DEF Renders
  <2>5. step' <= Len(arg'.list) + 1 /\ ToSet(found') = {} /\ call' # "commit"
    BY <2>2, EmptyList
  <2> QED BY <2>4, <2>5 DEF OrderInv
<1> QED BY <1>1, <1>2, <1>5, <1>6, <1>7

(* A call that may fail names only what had been found. *)
LEMMA FailureIsRace ==
  ASSUME RequestsInv, NEW S, Fails(S),
         S \subseteq ToSet(found) \cup {arg.surface}, S \subseteq alive \cup gone
  PROVE  RequestsInv'
<1> USE DEF RequestsInv, Fails, displayVars, callVars, history
<1>1. Types' /\ FoundInv' /\ PendingInv' /\ OrderInv'
  BY DEF Types, FoundInv, PendingInv, OrderInv, Renders
<1>2. PICK s \in S : s \notin alive
  OBVIOUS
<1>3. ExitsOnlyInRace'
  BY <1>2 DEF ExitsOnlyInRace
<1> QED BY <1>1, <1>3

LEMMA SetPartKeeps ==
  ASSUME RequestsInv, process = "running", SetPart
  PROVE  RequestsInv'
<1> DEFINE s == arg.surface
<1>1. call = "set_surface" /\ s \in Surface /\ step \in 1 .. 4 /\ s \in alive \cup gone
  BY DEF SetPart, RequestsInv, PendingInv, FoundInv
<1>2. CASE Fails({s})
  BY <1>1, <1>2, FailureIsRace
<1>3. CASE ~Fails({s})
  <2>1. /\ pending' = IF s \in alive THEN [pending EXCEPT ![s][Part[step]] = arg.look]
                                     ELSE pending
        /\ step' = step + 1
        /\ call' = IF step = 4 THEN "commit" ELSE call
        /\ UNCHANGED <<alive, shown, arg, found, history, process>>
    BY <1>3, PartsNamed DEF SetPart
  <2>2. Part[step] \in Parts /\ arg.look \in Look \cup {NoLook}
    BY <1>1, PartsNamed DEF RequestsInv, Types, Arguments
  <2>3. Types'
    <3>1. step' \in 0 .. LastStep
      BY <1>1, <2>1, StepBounds
    <3>2. UNCHANGED <<order, pendingOrder>>
      BY <1>3 DEF SetPart
    <3> QED BY <1>1, <2>1, <2>2, <3>1, <3>2 DEF RequestsInv, Types, Layout, history
  <2>4. FoundInv'
    BY <1>1, <2>1 DEF RequestsInv, FoundInv, history
  <2>5. \A t \in Surface : t # s => pending'[t] = shown'[t]
    BY <1>1, <2>1 DEF RequestsInv, Types, PendingInv
  <2>6. ASSUME s \in stayed
        PROVE  \A i \in 1 .. 4 : pending'[s][Part[i]] =
                 IF i < step' THEN arg.look ELSE shown[s][Part[i]]
    <3>1. s \in alive
      BY <2>6 DEF RequestsInv, Types
    <3>2. pending'[s] = [pending[s] EXCEPT ![Part[step]] = arg.look]
      BY <1>1, <2>1, <3>1 DEF RequestsInv, Types
    <3>3. pending[s] \in Layout
      BY <1>1 DEF RequestsInv, Types
    <3> SUFFICES ASSUME NEW i \in 1 .. 4
                 PROVE  pending'[s][Part[i]] =
                          IF i < step' THEN arg.look ELSE shown[s][Part[i]]
      OBVIOUS
    <3>4. Part[i] \in Parts /\ (Part[i] = Part[step] <=> i = step)
      BY <1>1, PartsNamed
    <3>5. pending'[s][Part[i]] = IF i = step THEN arg.look ELSE pending[s][Part[i]]
      BY <3>2, <3>3, <3>4 DEF Layout
    <3>6. pending[s][Part[i]] = IF i < step THEN arg.look ELSE shown[s][Part[i]]
      BY <1>1, <2>6 DEF RequestsInv, PendingInv
    <3>7. i < step' <=> i < step \/ i = step
      BY <1>1, <2>1
    <3> QED BY <3>5, <3>6, <3>7
  <2>7. ASSUME s \in stayed, step = 4, NEW p \in Parts
        PROVE  pending'[s][p] = arg.look
    <3>1. PICK i \in 1 .. 4 : p = Part[i]
      BY PartsNamed
    <3>2. i < step'
      BY <2>1, <2>7
    <3> QED BY <2>6, <2>7, <3>1, <3>2
  <2>8. PendingInv'
    BY <1>1, <2>1, <2>5, <2>6, <2>7 DEF PendingInv, history
  <2>9. ExitsOnlyInRace'
    BY <2>1 DEF ExitsOnlyInRace
  <2>10. OrderInv'
    <3>1. s # NoId
      BY <1>1, NoIdAssumption
    <3>2. UNCHANGED pendingOrder
      BY <1>3 DEF SetPart
    <3> QED BY <1>1, <2>1, <3>1, <3>2 DEF RequestsInv, OrderInv
  <2> QED BY <2>3, <2>4, <2>8, <2>9, <2>10 DEF RequestsInv
<1> QED BY <1>2, <1>3

LEMMA RemoveSurfaceKeeps ==
  ASSUME RequestsInv, process = "running", RemoveSurface
  PROVE  RequestsInv'
<1>1. call = "remove_surface" /\ arg.surface \in alive \cup gone
  BY DEF RemoveSurface, RequestsInv, FoundInv
<1>2. CASE Fails({arg.surface})
  BY <1>1, <1>2, FailureIsRace
<1>3. CASE ~Fails({arg.surface})
  <2>1. /\ call' = "commit"
        /\ UNCHANGED <<alive, shown, pending, step, arg, found, history, process>>
    BY <1>3 DEF RemoveSurface
  <2>2. FoundInv' /\ ExitsOnlyInRace'
    BY <2>1 DEF RequestsInv, FoundInv, ExitsOnlyInRace, history
  <2>3. arg.surface \in Surface
    BY <1>1 DEF RequestsInv, Types
  <2>4. PendingInv'
    BY <1>1, <2>1, <2>3 DEF RequestsInv, PendingInv, history
  <2>5. /\ pendingOrder' \in [Layer -> Lists] /\ order' = order
        /\ \A l \in Layer : ToSet(pendingOrder'[l]) \subseteq ToSet(pendingOrder[l])
    <3>1. /\ pendingOrder' = [pendingOrder EXCEPT
                 ![arg.layer] = Without(pendingOrder[arg.layer], arg.surface)]
          /\ order' = order
      BY <1>3 DEF RemoveSurface
    <3>2. pendingOrder \in [Layer -> Lists]
      BY DEF RequestsInv, Types
    <3>3. \A l \in Layer : /\ Without(pendingOrder[l], arg.surface) \in Lists
                           /\ ToSet(Without(pendingOrder[l], arg.surface))
                                \subseteq ToSet(pendingOrder[l])
      BY <3>2, KeptLists
    <3> QED BY <3>1, <3>2, <3>3
  <2>6. Types'
    BY <2>1, <2>5 DEF RequestsInv, Types, history
  <2>7. OrderInv'
    <3>1. arg.surface # NoId
      BY <2>3, NoIdAssumption
    <3> QED BY <2>1, <2>5, <3>1 DEF RequestsInv, OrderInv
  <2> QED BY <2>2, <2>4, <2>6, <2>7 DEF RequestsInv
<1> QED BY <1>2, <1>3

LEMMA LookUpKeeps ==
  ASSUME RequestsInv, process = "running", LookUp
  PROVE  RequestsInv'
<1> USE DEF LookUp, displayVars, history
<1> DEFINE list == arg.list
           x == list[step]
<1>1. /\ list \in Lists /\ list \in Seq(Surface) /\ IsInjective(list)
      /\ Len(list) \in Nat /\ DOMAIN list = 1 .. Len(list)
      /\ step \in DOMAIN list /\ step + 1 \in 0 .. LastStep
      /\ call = "render" /\ arg' = arg
  <2>1. list \in Lists /\ step \in Nat /\ step > 0 /\ step <= Len(list)
    BY DEF RequestsInv, Types, FoundInv, Arguments
  <2> QED BY <2>1, ListFacts, StepBounds
<1>2. /\ found \in Lists /\ found \in Seq(Surface)
      /\ found = Kept(list, ToSet(found))
      /\ \A s \in ToSet(found) : \E i \in DOMAIN list : i < step /\ list[i] = s
      /\ \A i \in DOMAIN list :
           i <= step - 1 /\ list[i] \in stayed => list[i] \in ToSet(found)
  BY <1>1, ListsMeans DEF RequestsInv, Types, OrderInv, Renders
<1>3. x \in Surface /\ x \in ToSet(list)
  BY <1>1 DEF ToSet
<1>4. /\ found' \in Seq(Surface)
      /\ ToSet(found') = ToSet(found) \cup ({x} \cap alive)
      /\ found' = Kept(list, ToSet(found'))
  <2>1. CASE x \in alive
    <3>1. found' = Append(found, x)
      BY <2>1
    <3>2. found' \in Seq(Surface) /\ ToSet(found') = ToSet(found) \cup {x}
      BY <1>2, <1>3, <3>1, AppendSet
    <3>3. Append(found, x) = Kept(list, ToSet(found) \cup {x})
      <4>1. \A k \in DOMAIN list :
              (\A s \in ToSet(found) : \E i \in DOMAIN list : i < k /\ list[i] = s)
                => Append(found, list[k]) = Kept(list, ToSet(found) \cup {list[k]})
        <5>1. /\ list \in Seq(Surface) /\ IsInjective(list)
              /\ found \in Seq(Surface) /\ found = Kept(list, ToSet(found))
          BY <1>1, <1>2
        <5> HIDE DEF list
        <5> QED BY ONLY <5>1, KeptAppend
      <4> QED BY <1>1, <1>2, <4>1
    <3> QED BY <2>1, <3>1, <3>2, <3>3
  <2>2. CASE x \notin alive
    BY <1>2, <2>2
  <2> QED BY <2>1, <2>2
<1>5. found' \in Lists
  <2>1. IsInjective(Kept(list, ToSet(found')))
    BY <1>1, KeptSet
  <2> QED BY <1>4, <2>1, ListsMeans
<1>6. Types'
  BY <1>1, <1>5 DEF RequestsInv, Types
<1>7. FoundInv'
  BY <1>1, <1>4 DEF RequestsInv, FoundInv
<1>8. PendingInv' /\ ExitsOnlyInRace'
  BY DEF RequestsInv, PendingInv, ExitsOnlyInRace
<1>9. OrderInv'
  <2>1. ASSUME NEW s \in ToSet(found')
        PROVE  \E i \in DOMAIN list : i < step' /\ list[i] = s
    <3>1. CASE s = x
      BY <1>1, <3>1
    <3>2. CASE s # x
      <4>1. PICK i \in DOMAIN list : i < step /\ list[i] = s
        BY <1>2, <1>4, <3>2
      <4>2. i < step + 1
        BY <1>1, <4>1
      <4> QED BY <4>1, <4>2
    <3> QED BY <3>1, <3>2
  <2>2. Renders(found, step - 1)'
    <3> SUFFICES ASSUME NEW i \in DOMAIN list, i <= step' - 1, list[i] \in stayed
                 PROVE  list[i] \in ToSet(found')
      BY <1>1, <1>4 DEF Renders
    <3>1. CASE i = step
      BY <1>4, <3>1 DEF RequestsInv, Types
    <3>2. CASE i # step
      <4>1. i <= step - 1
        BY <1>1, <3>2
      <4> QED BY <1>2, <1>4, <4>1
    <3> QED BY <3>1, <3>2
  <2>3. step' <= Len(list) + 1
    BY <1>1
  <2> QED BY <1>1, <2>1, <2>2, <2>3 DEF RequestsInv, OrderInv
<1> QED BY <1>6, <1>7, <1>8, <1>9 DEF RequestsInv

LEMMA SetRenderOrderKeeps ==
  ASSUME RequestsInv, process = "running", SetRenderOrder
  PROVE  RequestsInv'
<1>1. call = "render" /\ ToSet(found) \subseteq alive \cup gone
  BY DEF SetRenderOrder, RequestsInv, FoundInv
<1>2. CASE Fails(ToSet(found))
  BY <1>1, <1>2, FailureIsRace
<1>3. CASE ~Fails(ToSet(found))
  <2>1. /\ call' = "commit"
        /\ UNCHANGED <<alive, shown, pending, step, arg, found, history, process>>
    BY <1>3 DEF SetRenderOrder
  <2>2. FoundInv' /\ ExitsOnlyInRace'
    BY <2>1 DEF RequestsInv, FoundInv, ExitsOnlyInRace, history
  <2>3. arg.surface \in stayed => arg.surface \in Surface
    BY DEF RequestsInv, Types
  <2>4. PendingInv'
    BY <1>1, <2>1, <2>3 DEF RequestsInv, PendingInv, history
  <2> DEFINE q == Kept(found, alive)
  <2>5. /\ pendingOrder' = [pendingOrder EXCEPT ![arg.layer] = q]
        /\ order' = order
    BY <1>3 DEF SetRenderOrder
  <2>6. /\ found \in Lists /\ arg.list \in Lists /\ pendingOrder \in [Layer -> Lists]
        /\ Renders(found, step - 1)
        /\ step \in Nat /\ step > Len(arg.list) /\ step <= Len(arg.list) + 1
    BY <1>1, <1>3, StepBounds
       DEF RequestsInv, Types, Arguments, OrderInv, SetRenderOrder
  <2>7. q \in Lists /\ ToSet(q) = ToSet(found) \cap alive
    BY <2>6, KeptLists
  <2>8. q = Kept(arg.list, ToSet(q))
    BY <2>6, RendersWithout DEF Renders
  <2> HIDE DEF q
  <2>9. Types'
    BY <2>1, <2>5, <2>6, <2>7 DEF RequestsInv, Types, history
  <2>10. \A l \in Layer : pendingOrder'[l] = IF l = arg.layer THEN q ELSE pendingOrder[l]
    BY <2>5, <2>6
  <2>11. Renders(q, Len(arg.list))'
    <3>1. Len(arg.list) \in Nat /\ DOMAIN arg.list = 1 .. Len(arg.list)
      BY <2>6, ListFacts
    <3>2. \A i \in DOMAIN arg.list : i <= step - 1
      BY <2>6, <3>1
    <3>3. stayed' = stayed /\ stayed \subseteq alive /\ arg' = arg /\ q' = q
      BY <2>1 DEF RequestsInv, Types, history, q
    <3> QED BY <2>6, <2>7, <2>8, <3>2, <3>3 DEF Renders
  <2>12. OrderInv'
    <3>1. \A l \in Layer : ToSet(pendingOrder'[l]) \subseteq alive'
      BY <2>1, <2>7, <2>10 DEF RequestsInv, OrderInv
    <3>2. ASSUME NEW l \in Layer, arg'.layer = l
          PROVE  Renders(pendingOrder[l], Len(arg.list))'
      <4>1. pendingOrder'[l] = q'
        BY <2>1, <2>10, <3>2 DEF q
      <4> QED BY <2>11, <4>1 DEF Renders
    <3> QED BY <2>1, <3>1, <3>2 DEF OrderInv
  <2> QED BY <2>2, <2>4, <2>9, <2>12 DEF RequestsInv
<1> QED BY <1>2, <1>3

LEMMA CommitKeeps ==
  ASSUME RequestsInv, process = "running", Commit
  PROVE  RequestsInv'
<1> USE DEF Commit, history
<1>1. Types'
  BY IdleTyped, EmptyList, StepBounds DEF RequestsInv, Types
<1>2. FoundInv'
  BY EmptyList DEF FoundInv
<1>3. PendingInv'
  BY DEF PendingInv
<1>4. ExitsOnlyInRace' /\ OrderInv'
  BY DEF ExitsOnlyInRace, OrderInv, RequestsInv
<1> QED BY <1>1, <1>2, <1>3, <1>4 DEF RequestsInv

LEMMA InvInit == Init => RequestsInv
<1> SUFFICES ASSUME Init PROVE RequestsInv
  OBVIOUS
<1>1. Types
  BY IdleTyped, EmptyList, StepBounds DEF Init, Types, Layout, Unlaid
<1>2. FoundInv /\ PendingInv /\ ExitsOnlyInRace
  BY EmptyList DEF Init, FoundInv, PendingInv, ExitsOnlyInRace
<1>3. OrderInv
  BY EmptyList DEF Init, OrderInv
<1> QED BY <1>1, <1>2, <1>3 DEF RequestsInv

LEMMA InvNext == RequestsInv /\ [Next]_vars => RequestsInv'
<1> SUFFICES ASSUME RequestsInv, [Next]_vars PROVE RequestsInv'
  OBVIOUS
<1>1. CASE UNCHANGED vars
  BY <1>1 DEF vars, displayVars, callVars, history, RequestsInv, Types, FoundInv,
              PendingInv, OrderInv, Renders, ExitsOnlyInRace
<1>2. CASE Next
  <2>1. process = "running"
    BY <1>2 DEF Next
  <2>2. ASSUME NEW s \in Surface, Appears(s) \/ Disappears(s) PROVE RequestsInv'
    BY <2>2, AppearsKeeps, DisappearsKeeps
  <2>3. ASSUME NEW s \in Surface, NEW look \in Look, BeginSetSurface(s, look)
        PROVE  RequestsInv'
    <3> DEFINE a == [Idle EXCEPT !.surface = s, !.look = look]
    <3>1. a \in Arguments
          /\ a.surface = s
      <4> DEFINE b == [Idle EXCEPT !.surface = s]
      <4>1. b \in Arguments /\ b.surface = s
        BY IdleTyped, SetArgument
      <4>2. a = [b EXCEPT !.look = look]
        OBVIOUS
      <4> HIDE DEF a, b
      <4> QED BY <4>1, <4>2, SetArgument
    <3>2. Begin("set_surface", a) /\ s \in alive
      BY <2>3 DEF BeginSetSurface
    <3> HIDE DEF a
    <3> QED BY <2>1, <3>1, <3>2, BeginKeeps
  <2>4. ASSUME NEW l \in Layer, NEW s \in Surface, BeginRemoveSurface(l, s)
        PROVE  RequestsInv'
    <3> DEFINE a == [Idle EXCEPT !.surface = s, !.layer = l]
    <3>1. a \in Arguments
          /\ a.surface = s
      <4> DEFINE b == [Idle EXCEPT !.surface = s]
      <4>1. b \in Arguments /\ b.surface = s
        BY IdleTyped, SetArgument
      <4>2. a = [b EXCEPT !.layer = l]
        OBVIOUS
      <4> HIDE DEF a, b
      <4> QED BY <4>1, <4>2, SetArgument
    <3>2. Begin("remove_surface", a) /\ s \in alive
      BY <2>4 DEF BeginRemoveSurface
    <3> HIDE DEF a
    <3> QED BY <2>1, <3>1, <3>2, BeginKeeps
  <2>5. ASSUME NEW l \in Layer, NEW list \in Lists, BeginRender(l, list)
        PROVE  RequestsInv'
    <3> DEFINE a == [Idle EXCEPT !.layer = l, !.list = list]
    <3>1. a \in Arguments
      BY IdleTyped, SetArgument
    <3>2. Begin("render", a)
      BY <2>5 DEF BeginRender
    <3> HIDE DEF a
    <3> QED BY <2>1, <3>1, <3>2, BeginKeeps
  <2>6. CASE SetPart
    BY <2>1, <2>6, SetPartKeeps
  <2>7. CASE RemoveSurface
    BY <2>1, <2>7, RemoveSurfaceKeeps
  <2>8. CASE LookUp
    BY <2>1, <2>8, LookUpKeeps
  <2>9. CASE SetRenderOrder
    BY <2>1, <2>9, SetRenderOrderKeeps
  <2>10. CASE Commit
    BY <2>1, <2>10, CommitKeeps
  <2> QED BY <1>2, <2>2, <2>3, <2>4, <2>5, <2>6, <2>7, <2>8, <2>9, <2>10
          DEF Next, Main
<1> QED BY <1>1, <1>2

(* The invariant of the requests: what a request names was there when it was *)
(* looked up, and only its own surface has a layout that is not displayed.   *)
THEOREM RequestsInvariant == Spec => []RequestsInv
BY InvInit, InvNext, PTL DEF Spec

(* A request of ilm_control_wrapper.c ends the program only if a surface it  *)
(* had found went away before it was complete.                               *)
THEOREM ExitsAreRaces == Spec => []ExitsOnlyInRace
<1>1. RequestsInv => ExitsOnlyInRace
  BY DEF RequestsInv
<1> QED BY <1>1, RequestsInvariant, PTL

(* wrap_ilm_set_surface makes its four calls before it commits: no commit    *)
(* changes a part of the layout of a surface that stayed, and not the rest.  *)
THEOREM LayoutsWhole == Spec => LayoutsChangeWhole
<1> DEFINE Whole == \A s \in stayed' : shown'[s] # shown[s] =>
                      \A p, q \in Parts : shown'[s][p] = shown'[s][q]
<1>1. RequestsInv /\ RequestsInv' /\ [Next]_vars => [Whole]_vars
  <2> SUFFICES ASSUME RequestsInv, RequestsInv', Next,
                      NEW s \in stayed', shown'[s] # shown[s],
                      NEW p \in Parts, NEW q \in Parts
               PROVE  shown'[s][p] = shown'[s][q]
    OBVIOUS
  <2>1. s \in Surface
    BY DEF RequestsInv, Types
  <2>2. CASE Commit
    <3>1. call = "commit" /\ shown' = pending /\ stayed' = stayed
      BY <2>2 DEF Commit, history
    <3>2. s = arg.surface
      BY <2>1, <3>1 DEF RequestsInv, PendingInv
    <3> QED BY <3>1, <3>2 DEF RequestsInv, PendingInv
  <2>3. ASSUME NEW t \in Surface, Disappears(t) PROVE FALSE
    <3>1. s # t /\ shown' = [shown EXCEPT ![t] = Unlaid]
      BY <2>3 DEF Disappears
    <3> QED BY <2>1, <3>1 DEF RequestsInv, Types
  <2>4. ASSUME \/ \E t \in Surface : Appears(t)
               \/ \E t \in Surface, look \in Look : BeginSetSurface(t, look)
               \/ \E l \in Layer, t \in Surface : BeginRemoveSurface(l, t)
               \/ \E l \in Layer, list \in Lists : BeginRender(l, list)
               \/ SetPart \/ RemoveSurface \/ LookUp \/ SetRenderOrder
        PROVE  FALSE
    <3>1. shown' = shown
      BY <2>4 DEF Appears, BeginSetSurface, BeginRemoveSurface, BeginRender, Begin,
                  SetPart, RemoveSurface, LookUp, SetRenderOrder, Fails, displayVars
    <3> QED BY <3>1
  <2> QED BY <2>2, <2>3, <2>4 DEF Next, Main
<1> QED BY <1>1, RequestsInvariant, PTL DEF Spec, LayoutsChangeWhole

(* The variables keep their types: no request and no surface that goes away  *)
(* in the middle of one puts a surface twice in a render order, and the      *)
(* array of surfaces that were found never outgrows the layer's list.        *)
THEOREM RequestsTypeCorrect == Spec => []TypeOK
<1>1. RequestsInv => TypeOK
  BY DEF RequestsInv, Types, TypeOK, Layout, LastStep
<1> QED BY <1>1, RequestsInvariant, PTL

(* add_exists_surfaces_to_layer: the commit of a render order shows, in the  *)
(* order of the list, every surface of it that stayed and none that is gone. *)
THEOREM RendersTheList == Spec => RendersList
<1> DEFINE Rendered ==
      \A l \in Layer : call = "commit" /\ call' = "idle"
                       /\ arg.layer = l /\ arg.surface = NoId =>
        /\ ToSet(arg.list) \cap stayed \subseteq ToSet(order'[l])
        /\ order'[l] = Kept(arg.list, ToSet(order'[l]))
        /\ ToSet(order'[l]) \subseteq alive
<1>1. RequestsInv /\ [Next]_vars => [Rendered]_vars
  <2> SUFFICES ASSUME RequestsInv, Next, NEW l \in Layer,
                      call = "commit", call' = "idle",
                      arg.layer = l, arg.surface = NoId
               PROVE  /\ ToSet(arg.list) \cap stayed \subseteq ToSet(order'[l])
                      /\ order'[l] = Kept(arg.list, ToSet(order'[l]))
                      /\ ToSet(order'[l]) \subseteq alive
    OBVIOUS
  <2>1. Commit
    BY DEF Next, Main, Appears, Disappears, BeginSetSurface, BeginRemoveSurface,
           BeginRender, Begin, SetPart, RemoveSurface, LookUp, SetRenderOrder,
           callVars
  <2>2. order' = pendingOrder
    BY <2>1 DEF Commit
  <2>3. /\ Renders(pendingOrder[l], Len(arg.list))
        /\ ToSet(pendingOrder[l]) \subseteq alive
    BY DEF RequestsInv, OrderInv
  <2>4. \A i \in DOMAIN arg.list : i <= Len(arg.list)
    BY ListFacts DEF RequestsInv, Types, Arguments
  <2> QED BY <2>2, <2>3, <2>4 DEF Renders, ToSet
<1> QED BY <1>1, RequestsInvariant, PTL DEF Spec, RendersList

=============================================================================
