-------------------------- MODULE PropertiesProofs --------------------------
(***************************************************************************)
(* Whatever keys messages give and lack, what is held becomes what Parsed   *)
(* says and nothing in between, between commands the controller shows what  *)
(* is held, and uninitialized memory reaches the tree and the display only  *)
(* through elements created without a key.  Everything rests on what the    *)
(* copies src_prop of the parsing functions are between two keys (CopyInv). *)
(***************************************************************************)
EXTENDS Properties, SequenceTheorems, TLAPS

-----------------------------------------------------------------------------
(***************************************************************************)
(* What holds between the reading of one key and of the next.               *)
(***************************************************************************)

Reading == {"size", "layout", "store"}

(* The first n - 1 of a list of keys. *)
KeysBefore(keys, n) == {keys[i] : i \in {j \in DOMAIN keys : j < n}}

(* Properties once some keys of the message at hand have been read. *)
ReadUpTo(p, keys) ==
  [key \in DOMAIN p |-> IF key \in keys \cap DOMAIN job.given THEN job.given[key]
                                                              ELSE p[key]]

(* The element at hand and the copies made of its properties have types.    *)
JobOK ==
  pc # "idle" =>
    /\ job.elem \in Element
    /\ job.type \in {"add", "modify"}
    /\ job.fresh \in BOOLEAN
    /\ job.given \in Given(job.elem)
    /\ dst \in [KeysOf(job.elem) -> Field]
    /\ src \in [KeysOf(job.elem) -> Field]
    /\ lp \in [LayoutKey -> Field]
    /\ ~job.fresh => job.elem \in DOMAIN held
    /\ job.fresh => job.type = "add"
    /\ pc = "size" => job.elem \in Layer /\ k <= Len(SizeKeys) + 1
    /\ pc = "layout" => k <= Len(LayoutKeys) + 1

(* Until the copy is stored, dst is what it was made of: what the tree has, *)
(* or uninitialized memory.                                                 *)
SourceInv ==
  pc \in Reading =>
    dst = IF job.fresh THEN Uninitialized(KeysOf(job.elem)) ELSE held[job.elem]

(* The copies differ from what they were made of in the keys read so far,   *)
(* which a command that adds has found all.                                 *)
CopyInv ==
  /\ pc = "size" =>
       /\ src = ReadUpTo(dst, KeysBefore(SizeKeys, k))
       /\ job.type = "add" => KeysBefore(SizeKeys, k) \subseteq DOMAIN job.given
  /\ pc \in {"layout", "store"} /\ job.type = "add" /\ job.elem \in Layer =>
       SizeKey \subseteq DOMAIN job.given
  /\ pc = "layout" =>
       /\ src = ReadUpTo(dst, SizeKey)
       /\ lp = ReadUpTo(Layout(dst), KeysBefore(LayoutKeys, k))
       /\ job.type = "add" => KeysBefore(LayoutKeys, k) \subseteq DOMAIN job.given
  /\ pc = "store" =>
       src = ReadUpTo(dst, IF \/ job.type = "modify"
                              \/ LayoutKey \subseteq DOMAIN job.given
                           THEN SizeKey \cup LayoutKey ELSE SizeKey)

(* Where the parsing ends, a new element has become what Parsed says, and   *)
(* one that was given every key has what it was given.                      *)
ParsedInv ==
  pc = "apply" =>
    /\ job.fresh => dst = Parsed(Uninitialized(KeysOf(job.elem)))
    /\ DOMAIN job.given = KeysOf(job.elem) =>
         (IF job.fresh THEN dst ELSE held[job.elem]) = job.given

ReadInv == TypeOK /\ JobOK /\ SourceInv /\ CopyInv /\ ParsedInv

(* Elements but the one that is about to be applied are shown as held.      *)
ShownInv ==
  \A e \in DOMAIN held :
    \/ pc = "apply" /\ job.elem = e
    \/ /\ e \in Layer => e \in DOMAIN shown \cap DOMAIN size
       /\ e \in DOMAIN shown => shown[e] = Layout(held[e])

-----------------------------------------------------------------------------
(***************************************************************************)
(* Keys and functions of keys.                                              *)
(***************************************************************************)

(* No key is both one of a size and one of a layout.                        *)
LEMMA KeyLists ==
  /\ SizeKeys \in Seq(STRING) /\ Len(SizeKeys) \in Nat
  /\ DOMAIN SizeKeys = 1 .. Len(SizeKeys)
  /\ LayoutKeys \in Seq(STRING) /\ Len(LayoutKeys) \in Nat
  /\ DOMAIN LayoutKeys = 1 .. Len(LayoutKeys)
  /\ SizeKey \cap LayoutKey = {}
<1> DEFINE n == Len(SizeKeys)
           m == Len(LayoutKeys)
           all == SizeKeys \o LayoutKeys
<1>1. /\ SizeKeys \in Seq(STRING) /\ n \in Nat /\ DOMAIN SizeKeys = 1 .. n
      /\ LayoutKeys \in Seq(STRING) /\ m \in Nat /\ DOMAIN LayoutKeys = 1 .. m
  BY KeysAssumption, LenProperties
<1>2. /\ all \in Seq(STRING) /\ Len(all) = n + m
      /\ \A i \in 1 .. n + m :
           all[i] = IF i <= n THEN SizeKeys[i] ELSE LayoutKeys[i - n]
  BY <1>1, ConcatProperties
<1>3. DOMAIN all = 1 .. n + m
  BY <1>2, LenProperties
<1>4. IsInjective(all)
  BY KeysAssumption
<1> HIDE DEF all, n, m
<1>5. ASSUME NEW key \in SizeKey, key \in LayoutKey PROVE FALSE
  <2>1. PICK i \in 1 .. n : SizeKeys[i] = key
    BY <1>1 DEF SizeKey, Range
  <2>2. PICK j \in 1 .. m : LayoutKeys[j] = key
    BY <1>1, <1>5 DEF LayoutKey, Range
  <2>3. i \in 1 .. n + m /\ n + j \in 1 .. n + m /\ i # n + j
    BY <1>1
  <2>4. all[i] = key
    BY <1>1, <1>2, <2>1, <2>3
  <2>5. all[n + j] = key
    <3>1. ~(n + j <= n) /\ (n + j) - n = j
      BY <1>1
    <3> QED BY <1>2, <2>2, <2>3, <3>1
  <2> QED BY <1>3, <1>4, <2>3, <2>4, <2>5 DEF IsInjective
<1> QED BY <1>1, <1>5 DEF n, m

(* An element has the keys of its kind.                                     *)
LEMMA ElementKeys ==
  ASSUME NEW e \in Element
  PROVE  /\ LayoutKey \subseteq KeysOf(e)
         /\ e \in Layer => KeysOf(e) = SizeKey \cup LayoutKey
         /\ e \in Surface => KeysOf(e) = LayoutKey /\ e \notin Layer
BY KindsAssumption DEF KeysOf, Element

(* One key more of a list.                                                  *)
LEMMA NextKey ==
  ASSUME NEW S, NEW keys \in Seq(S), NEW n \in Nat, 1 <= n
  PROVE  /\ KeysBefore(keys, 1) = {}
         /\ KeysBefore(keys, n) \subseteq Range(keys)
         /\ n > Len(keys) => KeysBefore(keys, n) = Range(keys)
         /\ n <= Len(keys) =>
              /\ keys[n] \in Range(keys)
              /\ KeysBefore(keys, n + 1) = KeysBefore(keys, n) \cup {keys[n]}
<1>1. DOMAIN keys = 1 .. Len(keys) /\ Len(keys) \in Nat
  BY LenProperties
<1>2. {j \in DOMAIN keys : j < 1} = {}
  BY <1>1
<1>3. n > Len(keys) => {j \in DOMAIN keys : j < n} = DOMAIN keys
  BY <1>1
<1>4. n <= Len(keys) => n \in DOMAIN keys
        /\ {j \in DOMAIN keys : j < n + 1} = {j \in DOMAIN keys : j < n} \cup {n}
  BY <1>1
<1> QED BY <1>2, <1>3, <1>4 DEF KeysBefore, Range

(* Reading one key more of a message.                                       *)
LEMMA ReadOne ==
  ASSUME NEW p, NEW keys, NEW key \in DOMAIN p
  PROVE  Read(ReadUpTo(p, keys), key) = ReadUpTo(p, keys \cup {key})
<1> DEFINE q == ReadUpTo(p, keys)
<1>1. DOMAIN q = DOMAIN p
  BY DEF ReadUpTo
<1>2. CASE Missing(key)
  BY <1>2 DEF Read, Missing, ReadUpTo
<1>3. CASE ~Missing(key)
  <2>1. Read(q, key) = [q EXCEPT ![key] = job.given[key]]
    BY <1>3 DEF Read
  <2>2. Read(q, key) = [x \in DOMAIN p |-> IF x = key THEN job.given[key] ELSE q[x]]
    BY <1>1, <2>1
  <2> QED BY <1>3, <2>2 DEF ReadUpTo, Missing
<1> QED BY <1>2, <1>3

(* Properties that have been read up to some keys are properties still.     *)
LEMMA ReadTyped ==
  ASSUME JobOK, pc # "idle", NEW keys, NEW S \in SUBSET KeysOf(job.elem),
         NEW p \in [S -> Field]
  PROVE  ReadUpTo(p, keys) \in [S -> Field]
<1>1. PICK given \in SUBSET KeysOf(job.elem) : job.given \in [given -> Value]
  BY DEF JobOK, Given
<1> QED BY <1>1 DEF ReadUpTo, Field

(* What a message gives has values.                                         *)
LEMMA GivenTyped ==
  ASSUME NEW e, NEW g \in Given(e)
  PROVE  /\ DOMAIN g \subseteq KeysOf(e) /\ g \in [DOMAIN g -> Value]
         /\ \A key \in DOMAIN g : g[key] \in Value /\ g[key] # Garbage
BY KeysAssumption DEF Given

-----------------------------------------------------------------------------
(***************************************************************************)
(* The steps.                                                               *)
(***************************************************************************)

(* A command starts to parse an element, from a copy of what is held if the *)
(* element is not new.                                                      *)
Starts(j, from) ==
  /\ Parse(j, from)
  /\ j.elem \in Element /\ j.type \in {"add", "modify"} /\ j.fresh \in BOOLEAN
  /\ j.given \in Given(j.elem)
  /\ j.fresh => j.type = "add"
  /\ ~j.fresh => j.elem \in DOMAIN held
  /\ from = IF j.fresh THEN Uninitialized(KeysOf(j.elem)) ELSE held[j.elem]

(* A command takes elements out of the tree, and at most one layer from the *)
(* controller.                                                              *)
Drops ==
  /\ pc = "idle"
  /\ DOMAIN held' \subseteq DOMAIN held
  /\ \A e \in DOMAIN held' : held'[e] = held[e]
  /\ \/ UNCHANGED <<shown, size>>
     \/ \E l \in Layer \ DOMAIN held' :
          shown' = Without(shown, l) /\ size' = Without(size, l)
  /\ UNCHANGED <<alive, parser, incomplete>>

LEMMA CommandSteps ==
  ASSUME TypeOK, Command
  PROVE  /\ (\E j, from : Starts(j, from)) \/ Drops
         /\ on' \in [Surface -> SUBSET Layer]
<1> DEFINE Goal == /\ (\E j, from : Starts(j, from)) \/ Drops
                   /\ on' \in [Surface -> SUBSET Layer]
<1>0. on \in [Surface -> SUBSET Layer] /\ Layer \subseteq Element /\ Surface \subseteq Element
  BY DEF TypeOK, Element
<1>1. ASSUME NEW l \in Layer, NEW g \in Given(l), AddLayer(l, g) PROVE Goal
  <2> DEFINE j == [elem |-> l, type |-> "add", fresh |-> l \notin DOMAIN held,
                   given |-> g]
             from == IF l \in DOMAIN held THEN held[l] ELSE Uninitialized(KeysOf(l))
  <2>1. Parse(j, from) /\ on' = on
    BY <1>1 DEF AddLayer
  <2>2. /\ j.elem = l /\ j.type = "add" /\ j.given = g
        /\ j.fresh = (l \notin DOMAIN held)
    OBVIOUS
  <2> HIDE DEF j
  <2>3. Starts(j, from)
    BY <1>0, <2>1, <2>2 DEF Starts
  <2> HIDE DEF from
  <2> QED BY <1>0, <2>1, <2>3
<1>2. ASSUME NEW e \in Element, NEW g \in Given(e), Modify(e, g) PROVE Goal
  <2> DEFINE j == [elem |-> e, type |-> "modify", fresh |-> FALSE, given |-> g]
  <2>1. Parse(j, held[e]) /\ on' = on /\ e \in DOMAIN held
    BY <1>2 DEF Modify
  <2>2. j.elem = e /\ j.type = "modify" /\ j.given = g /\ j.fresh = FALSE
    OBVIOUS
  <2> HIDE DEF j
  <2>3. Starts(j, held[e])
    BY <2>1, <2>2 DEF Starts
  <2> QED BY <1>0, <2>1, <2>3
<1>3. ASSUME NEW l \in Layer, NEW s \in Surface, NEW g \in Given(s),
             AddSurface(l, s, g)
      PROVE  Goal
  <2> DEFINE j == [elem |-> s, type |-> "add", fresh |-> l \notin on[s], given |-> g]
             from == IF l \in on[s] THEN held[s] ELSE Uninitialized(KeysOf(s))
  <2>1. /\ Parse(j, from) /\ on' = [on EXCEPT ![s] = @ \cup {l}]
        /\ l \in on[s] => s \in DOMAIN held
    BY <1>3 DEF AddSurface
  <2>2. /\ j.elem = s /\ j.type = "add" /\ j.given = g
        /\ j.fresh = (l \notin on[s])
    OBVIOUS
  <2> HIDE DEF j
  <2>3. Starts(j, from)
    BY <1>0, <2>1, <2>2 DEF Starts
  <2> HIDE DEF from
  <2>4. on' \in [Surface -> SUBSET Layer]
    BY <1>0, <2>1
  <2> QED BY <2>3, <2>4
<1>4. ASSUME NEW L \in SUBSET Layer, DropLayers(L)
      PROVE  /\ pc = "idle"
             /\ DOMAIN held' \subseteq DOMAIN held \ L
             /\ \A e \in DOMAIN held' : held'[e] = held[e]
             /\ UNCHANGED <<alive, parser, incomplete>>
             /\ on' \in [Surface -> SUBSET Layer]
  BY <1>0, <1>4 DEF DropLayers, Restrict
<1>5. CASE RemoveAll
  <2>1. DropLayers(Layer) /\ UNCHANGED <<shown, size>>
    BY <1>5 DEF RemoveAll
  <2> QED BY <1>4, <2>1 DEF Drops
<1>6. ASSUME NEW l \in Layer, RemoveLayer(l) PROVE Goal
  <2>1. DropLayers({l}) /\ shown' = Without(shown, l) /\ size' = Without(size, l)
    BY <1>6 DEF RemoveLayer
  <2>2. {l} \in SUBSET Layer
    OBVIOUS
  <2> QED BY <1>4, <2>1, <2>2 DEF Drops
<1>7. ASSUME NEW l \in Layer, NEW s \in Surface, RemoveSurface(l, s) PROVE Goal
  <2>1. DOMAIN held' \subseteq DOMAIN held /\ \A e \in DOMAIN held' : held'[e] = held[e]
    BY <1>7 DEF RemoveSurface, Without, Restrict
  <2>2. on' = [on EXCEPT ![s] = @ \ {l}] /\ pc = "idle"
        /\ UNCHANGED <<controller, parser, incomplete>>
    BY <1>7 DEF RemoveSurface
  <2> QED BY <1>0, <2>1, <2>2 DEF Drops, controller
<1> QED BY <1>0, <1>1, <1>2, <1>3, <1>5, <1>6, <1>7 DEF Command

(* wrap_ilm_set_layer and wrap_ilm_set_surface change one element at the    *)
(* controller, which then has the layout.                                   *)
LEMMA ShowFacts ==
  ASSUME TypeOK, NEW e \in Element, NEW p \in [KeysOf(e) -> Field], Show(e, p)
  PROVE  /\ DOMAIN shown' \subseteq alive \cup DOMAIN size'
         /\ DOMAIN shown \subseteq DOMAIN shown' /\ DOMAIN size \subseteq DOMAIN size'
         /\ DOMAIN size' \subseteq Layer
         /\ e \in Layer => e \in DOMAIN shown' \cap DOMAIN size'
         /\ e \in DOMAIN shown' => shown'[e] = Layout(p)
         /\ \A d \in DOMAIN shown' : d # e => d \in DOMAIN shown /\ shown'[d] = shown[d]
         /\ \A d \in DOMAIN size : size'[d] = size[d]
         /\ \A d \in DOMAIN size' \ DOMAIN size : d = e /\ size'[d] = Size(p)
<1>1. CASE e \in Surface \ alive
  <2>1. e \notin DOMAIN shown /\ e \notin Layer
    BY <1>1, KindsAssumption DEF TypeOK
  <2>2. UNCHANGED <<shown, size>>
    BY <1>1 DEF Show
  <2> QED BY <2>1, <2>2 DEF TypeOK
<1>2. CASE e \notin Surface \ alive
  <2>1. /\ shown' = With(shown, e, Layout(p))
        /\ size' = IF e \in Layer \ DOMAIN size THEN With(size, e, Size(p)) ELSE size
    BY <1>2 DEF Show
  <2>2. /\ DOMAIN shown' = DOMAIN shown \cup {e}
        /\ \A d \in DOMAIN shown' :
             shown'[d] = IF d = e THEN Layout(p) ELSE shown[d]
    BY <2>1 DEF With
  <2>3. /\ DOMAIN size' = DOMAIN size \cup ({e} \cap Layer)
        /\ \A d \in DOMAIN size : size'[d] = size[d]
        /\ \A d \in DOMAIN size' \ DOMAIN size : d = e /\ size'[d] = Size(p)
    BY <2>1 DEF With
  <2>4. DOMAIN shown \subseteq alive \cup DOMAIN size /\ DOMAIN size \subseteq Layer
        /\ e \in alive \cup Layer
    BY <1>2 DEF TypeOK, Element
  <2> QED BY <2>2, <2>3, <2>4
<1> QED BY <1>1, <1>2

(* The layout and the size of an element's properties.                      *)
LEMMA PartsTyped ==
  ASSUME NEW e \in Element, NEW p \in [KeysOf(e) -> Field]
  PROVE  /\ Layout(p) \in [LayoutKey -> Field]
         /\ e \in Layer => Size(p) \in [SizeKey -> Field]
BY ElementKeys DEF Layout, Size, Restrict

-----------------------------------------------------------------------------
(***************************************************************************)
(* Types.                                                                   *)
(***************************************************************************)

Typed == TypeOK' /\ JobOK'

LEMMA TypeInit == Init => ReadInv
BY KeyLists, ElementKeys
DEF Init, ReadInv, TypeOK, JobOK, SourceInv, CopyInv, ParsedInv, Reading, NoProp, NoJob

LEMMA TypeCommand ==
  ASSUME TypeOK, JobOK, Command
  PROVE  Typed
<1> USE DEF Typed
<1>0. Len(SizeKeys) \in Nat /\ Len(LayoutKeys) \in Nat
  BY KeyLists
<1>1. on' \in [Surface -> SUBSET Layer]
  BY CommandSteps
<1>2. ASSUME NEW j, NEW from, Starts(j, from) PROVE Typed
  <2>1. from \in [KeysOf(j.elem) -> Field]
    BY <1>2 DEF Starts, TypeOK, Uninitialized, Field
  <2>2. Layout(from) \in [LayoutKey -> Field]
    BY <1>2, <2>1, PartsTyped DEF Starts
  <2>3. /\ pc' = (IF j.elem \in Layer THEN "size" ELSE "layout") /\ k' = 1
        /\ job' = j /\ dst' = from /\ src' = from /\ lp' = Layout(from)
        /\ UNCHANGED <<held, alive, shown, size>>
        /\ incomplete' = incomplete
    BY <1>2 DEF Starts, Parse, controller
  <2>4. TypeOK'
    BY <1>0, <1>1, <1>2, <2>3 DEF TypeOK, Starts
  <2>5. JobOK'
    BY <1>0, <1>2, <2>1, <2>2, <2>3 DEF JobOK, Starts
  <2> QED BY <2>4, <2>5
<1>3. CASE Drops
  <2>1. /\ DOMAIN held' \subseteq DOMAIN held
        /\ \A e \in DOMAIN held' : held'[e] = held[e]
        /\ UNCHANGED <<alive, pc, k, incomplete>> /\ pc = "idle"
    BY <1>3 DEF Drops, parser
  <2>2. /\ DOMAIN shown' \subseteq alive \cup DOMAIN size'
        /\ \A e \in DOMAIN shown' : shown'[e] \in [LayoutKey -> Field]
        /\ DOMAIN size' \subseteq Layer
        /\ \A l \in DOMAIN size' : size'[l] \in [SizeKey -> Field]
    BY <1>3 DEF Drops, Without, Restrict, TypeOK
  <2> QED BY <1>1, <2>1, <2>2 DEF TypeOK, JobOK
<1> QED BY <1>2, <1>3, CommandSteps

LEMMA TypeReading ==
  ASSUME TypeOK, JobOK, ReadSize \/ ReadKey \/ Store
  PROVE  Typed
<1> USE DEF Typed
<1>0. /\ Len(SizeKeys) \in Nat /\ Len(LayoutKeys) \in Nat
      /\ \A i \in 1 .. Len(SizeKeys) : SizeKeys[i] \in SizeKey
      /\ \A i \in 1 .. Len(LayoutKeys) : LayoutKeys[i] \in LayoutKey
  BY KeyLists DEF SizeKey, LayoutKey, Range
<1>1. pc # "idle"
  BY DEF ReadSize, ReadKey, Store
<1>2. /\ job.elem \in Element /\ src \in [KeysOf(job.elem) -> Field]
      /\ lp \in [LayoutKey -> Field] /\ dst \in [KeysOf(job.elem) -> Field]
      /\ k \in Nat /\ 1 <= k
      /\ ~job.fresh => job.elem \in DOMAIN held
      /\ LayoutKey \subseteq KeysOf(job.elem)
  BY <1>1, ElementKeys DEF JobOK, TypeOK
<1>3. ASSUME NEW S, NEW p \in [S -> Field], NEW key \in S
      PROVE  Read(p, key) \in [S -> Field]
  <2>1. ~Missing(key) => job.given[key] \in Field
    BY <1>1, GivenTyped DEF JobOK, Missing, Field
  <2> QED BY <1>3, <2>1 DEF Read
<1>4. UNCHANGED <<on, alive, shown, size, job, incomplete>>
  BY DEF ReadSize, ReadKey, Store, tree, controller
<1>5. CASE ReadSize
  <2>1. pc = "size" /\ UNCHANGED <<held, dst>>
    BY <1>5 DEF ReadSize, tree
  <2>2. job.elem \in Layer /\ KeysOf(job.elem) = SizeKey \cup LayoutKey
    BY <1>1, <1>2, <2>1, ElementKeys DEF JobOK
  <2>3. CASE k > Len(SizeKeys)
    <3>1. pc' = "layout" /\ k' = 1 /\ lp' = Layout(src) /\ src' = src
      BY <1>5, <2>3 DEF ReadSize
    <3>2. lp' \in [LayoutKey -> Field]
      BY <1>2, <3>1, PartsTyped
    <3> QED BY <1>0, <1>4, <2>1, <3>1, <3>2 DEF TypeOK, JobOK
  <2>4. CASE ~(k > Len(SizeKeys)) /\ pc' = "apply"
    <3>1. UNCHANGED <<k, src, lp>>
      BY <1>5, <2>1, <2>4 DEF ReadSize
    <3> QED BY <1>4, <2>1, <2>4, <3>1 DEF TypeOK, JobOK
  <2>5. CASE ~(k > Len(SizeKeys)) /\ pc' # "apply"
    <3>1. src' = Read(src, SizeKeys[k]) /\ k' = k + 1 /\ UNCHANGED <<pc, lp>>
      BY <1>5, <2>5 DEF ReadSize
    <3>2. src' \in [KeysOf(job.elem) -> Field]
      BY <1>0, <1>2, <1>3, <2>2, <2>5, <3>1
    <3>3. k' \in 1 .. Len(SizeKeys) + Len(LayoutKeys) + 1 /\ k' <= Len(SizeKeys) + 1
      BY <1>0, <1>2, <2>5, <3>1
    <3> QED BY <1>4, <2>1, <3>1, <3>2, <3>3 DEF TypeOK, JobOK
  <2> QED BY <2>3, <2>4, <2>5
<1>6. CASE ReadKey
  <2>1. pc = "layout" /\ UNCHANGED <<held, dst>>
    BY <1>6 DEF ReadKey, tree
  <2>2. CASE k > Len(LayoutKeys)
    <3>1. pc' = "store" /\ src' = Over(lp, src) /\ UNCHANGED <<k, lp>>
      BY <1>6, <2>2 DEF ReadKey
    <3>2. src' \in [KeysOf(job.elem) -> Field]
      BY <1>2, <3>1 DEF Over
    <3> QED BY <1>4, <2>1, <3>1, <3>2 DEF TypeOK, JobOK
  <2>3. CASE ~(k > Len(LayoutKeys)) /\ pc' = "store"
    <3>1. UNCHANGED <<k, src, lp>>
      BY <1>6, <2>1, <2>3 DEF ReadKey
    <3> QED BY <1>4, <2>1, <2>3, <3>1 DEF TypeOK, JobOK
  <2>4. CASE ~(k > Len(LayoutKeys)) /\ pc' # "store"
    <3>1. lp' = Read(lp, LayoutKeys[k]) /\ k' = k + 1 /\ UNCHANGED <<pc, src>>
      BY <1>6, <2>4 DEF ReadKey
    <3>2. lp' \in [LayoutKey -> Field]
      BY <1>0, <1>2, <1>3, <2>4, <3>1
    <3>3. k' \in 1 .. Len(SizeKeys) + Len(LayoutKeys) + 1 /\ k' <= Len(LayoutKeys) + 1
      BY <1>0, <1>2, <2>4, <3>1
    <3> QED BY <1>4, <2>1, <3>1, <3>2, <3>3 DEF TypeOK, JobOK
  <2> QED BY <2>2, <2>3, <2>4
<1>7. CASE Store
  <2>1. pc = "store" /\ pc' = "apply" /\ UNCHANGED <<k, src, lp>>
    BY <1>7 DEF Store
  <2>2. /\ DOMAIN held' = DOMAIN held
        /\ \A e \in DOMAIN held' : held'[e] = held[e] \/ (e = job.elem /\ held'[e] = src)
        /\ dst' = dst \/ dst' = src
    BY <1>2, <1>7 DEF Store
  <2>3. DOMAIN held' \subseteq Element
        /\ \A e \in DOMAIN held' : held'[e] \in [KeysOf(e) -> Field]
    BY <1>2, <2>2 DEF TypeOK
  <2> QED BY <1>2, <1>4, <2>1, <2>2, <2>3 DEF TypeOK, JobOK
<1> QED BY <1>5, <1>6, <1>7

(* What Apply puts into the tree and shows. *)
LEMMA ApplySteps ==
  ASSUME TypeOK, JobOK, Apply
  PROVE  /\ pc = "apply" /\ pc' = "idle" /\ k' = 1
         /\ UNCHANGED <<on, alive>>
         /\ incomplete' \in SUBSET Element
         /\ job.elem \in Element
         /\ DOMAIN held' = DOMAIN held \cup {job.elem}
         /\ \A e \in DOMAIN held : e # job.elem => held'[e] = held[e]
         /\ held'[job.elem] = IF job.fresh THEN dst ELSE held[job.elem]
         /\ held'[job.elem] \in [KeysOf(job.elem) -> Field]
         /\ Show(job.elem, held'[job.elem])
<1>1. /\ pc = "apply" /\ pc' = "idle" /\ k' = 1
      /\ UNCHANGED <<on, alive>> /\ Record
      /\ held' = IF job.fresh THEN With(held, job.elem, dst) ELSE held
      /\ Show(job.elem, held'[job.elem])
  BY DEF Apply
<1>2. /\ job.elem \in Element /\ dst \in [KeysOf(job.elem) -> Field]
      /\ ~job.fresh => job.elem \in DOMAIN held
  BY <1>1 DEF JobOK
<1>3. /\ DOMAIN held' = DOMAIN held \cup {job.elem}
      /\ \A e \in DOMAIN held : e # job.elem => held'[e] = held[e]
      /\ held'[job.elem] = IF job.fresh THEN dst ELSE held[job.elem]
  BY <1>1, <1>2 DEF With
<1>4. incomplete' \in SUBSET Element
  BY <1>1, <1>2 DEF Record, TypeOK
<1> QED BY <1>1, <1>2, <1>3, <1>4 DEF TypeOK

LEMMA TypeShown ==
  ASSUME TypeOK, NEW e \in Element, NEW p \in [KeysOf(e) -> Field], Show(e, p)
  PROVE  /\ DOMAIN shown' \subseteq alive \cup DOMAIN size'
         /\ \A d \in DOMAIN shown' : shown'[d] \in [LayoutKey -> Field]
         /\ DOMAIN size' \subseteq Layer
         /\ \A l \in DOMAIN size' : size'[l] \in [SizeKey -> Field]
<1>1. Layout(p) \in [LayoutKey -> Field] /\ (e \in Layer => Size(p) \in [SizeKey -> Field])
  BY PartsTyped
<1> QED BY <1>1, ShowFacts DEF TypeOK

LEMMA TypeStep ==
  ASSUME TypeOK, JobOK, [Next]_vars
  PROVE  Typed
<1> USE DEF Typed
<1>1. CASE Apply
  <2>1. /\ DOMAIN held' \subseteq Element
        /\ \A e \in DOMAIN held' : held'[e] \in [KeysOf(e) -> Field]
        /\ pc' = "idle" /\ k' = 1 /\ UNCHANGED <<on, alive>>
        /\ incomplete' \in SUBSET Element
    BY <1>1, ApplySteps DEF TypeOK
  <2>2. /\ DOMAIN shown' \subseteq alive \cup DOMAIN size'
        /\ \A d \in DOMAIN shown' : shown'[d] \in [LayoutKey -> Field]
        /\ DOMAIN size' \subseteq Layer
        /\ \A l \in DOMAIN size' : size'[l] \in [SizeKey -> Field]
    BY <1>1, ApplySteps, TypeShown
  <2> QED BY <2>1, <2>2, KeyLists DEF TypeOK, JobOK
<1>2. ASSUME NEW s \in Surface, Configured(s) PROVE Typed
  <2>1. /\ s \in Element /\ held[s] \in [KeysOf(s) -> Field] /\ Show(s, held[s])
        /\ UNCHANGED <<tree, alive, parser, incomplete>>
    BY <1>2 DEF Configured, TypeOK, Element
  <2>2. /\ DOMAIN shown' \subseteq alive \cup DOMAIN size'
        /\ \A d \in DOMAIN shown' : shown'[d] \in [LayoutKey -> Field]
        /\ DOMAIN size' \subseteq Layer
        /\ \A l \in DOMAIN size' : size'[l] \in [SizeKey -> Field]
    BY <2>1, TypeShown
  <2> QED BY <2>1, <2>2 DEF TypeOK, JobOK, tree, parser
<1>3. ASSUME NEW s \in Surface, Appears(s) PROVE Typed
  <2>1. alive' = alive \cup {s} /\ UNCHANGED <<tree, shown, size, parser, incomplete>>
    BY <1>3 DEF Appears
  <2> QED BY <2>1 DEF TypeOK, JobOK, tree, parser
<1>4. ASSUME NEW s \in Surface, Disappears(s) PROVE Typed
  <2>1. /\ alive' = alive \ {s} /\ shown' = Without(shown, s)
        /\ UNCHANGED <<tree, size, parser, incomplete>>
    BY <1>4 DEF Disappears
  <2>2. /\ DOMAIN shown' = DOMAIN shown \ {s}
        /\ \A e \in DOMAIN shown' : shown'[e] = shown[e]
    BY <2>1 DEF Without, Restrict
  <2> QED BY <2>1, <2>2 DEF TypeOK, JobOK, tree, parser
<1>5. CASE UNCHANGED vars
  BY <1>5 DEF vars, tree, controller, parser, TypeOK, JobOK
<1> QED BY <1>1, <1>2, <1>3, <1>4, <1>5, TypeCommand, TypeReading DEF Next

-----------------------------------------------------------------------------

(***************************************************************************)
(* What the copies are between two keys.                                    *)
(***************************************************************************)

Copied == SourceInv' /\ CopyInv' /\ ParsedInv'

(* A copy that no key has been read into is what it was made of.            *)
LEMMA NothingRead ==
  ASSUME NEW S, NEW p \in [S -> Field], NEW keys, keys \cap S = {}
  PROVE  ReadUpTo(p, keys) = p
BY DEF ReadUpTo

(* What the copies come to when all keys have been read, or the first that  *)
(* is missing has been met, is what Parsed says.                            *)
LEMMA ParsedIs ==
  ASSUME JobOK, pc # "idle", NEW p \in [KeysOf(job.elem) -> Field]
  PROVE  /\ \/ job.type = "modify"
            \/ /\ LayoutKey \subseteq DOMAIN job.given
               /\ job.elem \in Layer => SizeKey \subseteq DOMAIN job.given
            => Parsed(p) = ReadUpTo(p, SizeKey \cup LayoutKey)
         /\ job.type = "add" /\ job.elem \in Layer
              /\ ~(SizeKey \subseteq DOMAIN job.given)
            => Parsed(p) = p
         /\ job.type = "add" /\ ~(LayoutKey \subseteq DOMAIN job.given)
              /\ (job.elem \in Layer => SizeKey \subseteq DOMAIN job.given)
            => Parsed(p) = ReadUpTo(p, SizeKey)
         /\ DOMAIN job.given = KeysOf(job.elem) => Parsed(p) = job.given
<1> DEFINE missing == KeysOf(job.elem) \ DOMAIN job.given
<1>1. /\ job.elem \in Element /\ job.type \in {"add", "modify"}
      /\ DOMAIN job.given \subseteq KeysOf(job.elem)
      /\ job.given \in [DOMAIN job.given -> Value]
  BY GivenTyped DEF JobOK
<1>2. /\ LayoutKey \subseteq KeysOf(job.elem)
      /\ KeysOf(job.elem) \subseteq SizeKey \cup LayoutKey
      /\ job.elem \in Layer => SizeKey \subseteq KeysOf(job.elem)
      /\ job.elem \notin Layer => KeysOf(job.elem) = LayoutKey
      /\ SizeKey \cap LayoutKey = {}
  BY <1>1, ElementKeys, KeyLists DEF Element
<1>3. ReadUpTo(p, SizeKey \cup LayoutKey) = Over(job.given, p)
  BY <1>1, <1>2 DEF ReadUpTo, Over
<1>4. ReadUpTo(p, SizeKey) = Over(Restrict(job.given, DOMAIN job.given \cap SizeKey), p)
  BY <1>1, <1>2 DEF ReadUpTo, Over, Restrict
<1>5. Over(job.given, p) = job.given \/ DOMAIN job.given # KeysOf(job.elem)
  BY <1>1 DEF Over
<1>6. /\ job.type = "modify" \/ missing = {} => Parsed(p) = Over(job.given, p)
      /\ job.type = "add" /\ missing \cap SizeKey # {} => Parsed(p) = p
      /\ job.type = "add" /\ missing # {} /\ missing \cap SizeKey = {} =>
           Parsed(p) = Over(Restrict(job.given, DOMAIN job.given \cap SizeKey), p)
  BY DEF Parsed
<1> QED BY <1>1, <1>2, <1>3, <1>4, <1>5, <1>6

LEMMA CopyStarts ==
  ASSUME TypeOK, NEW j, NEW from, Starts(j, from)
  PROVE  Copied
<1>1. /\ j.elem \in Element /\ from \in [KeysOf(j.elem) -> Field]
      /\ from = IF j.fresh THEN Uninitialized(KeysOf(j.elem)) ELSE held[j.elem]
  BY DEF Starts, TypeOK, Uninitialized, Field
<1>2. /\ pc' = (IF j.elem \in Layer THEN "size" ELSE "layout") /\ k' = 1
      /\ job' = j /\ dst' = from /\ src' = from /\ lp' = Layout(from)
      /\ held' = held
  BY DEF Starts, Parse
<1>3. KeysBefore(SizeKeys, 1) = {} /\ KeysBefore(LayoutKeys, 1) = {}
  BY KeyLists, NextKey
<1>4. SourceInv' /\ ParsedInv'
  BY <1>1, <1>2 DEF SourceInv, ParsedInv
<1>5. CASE j.elem \in Layer
  <2>1. src' = ReadUpTo(dst, {})'
    BY <1>1, <1>2 DEF ReadUpTo
  <2> QED BY <1>2, <1>3, <1>4, <1>5, <2>1 DEF CopyInv, Copied
<1>6. CASE j.elem \notin Layer
  <2>1. KeysOf(j.elem) = LayoutKey
    BY <1>1, <1>6, ElementKeys DEF Element
  <2>2. src' = ReadUpTo(dst, SizeKey)'
    BY <1>1, <1>2, <2>1, KeyLists DEF ReadUpTo
  <2>3. lp' = ReadUpTo(Layout(dst), {})'
    BY <1>1, <1>2, <2>1 DEF ReadUpTo, Layout, Restrict
  <2> QED BY <1>2, <1>3, <1>4, <1>6, <2>2, <2>3 DEF CopyInv, Copied
<1> QED BY <1>5, <1>6

LEMMA CopySize ==
  ASSUME ReadInv, ReadSize
  PROVE  Copied
<1> DEFINE read == KeysBefore(SizeKeys, k)
<1>1. /\ pc = "size" /\ UNCHANGED <<held, job, dst, incomplete>>
  BY DEF ReadSize, tree
<1>2. /\ job.elem \in Layer /\ job.elem \in Element
      /\ KeysOf(job.elem) = SizeKey \cup LayoutKey
      /\ dst \in [SizeKey \cup LayoutKey -> Field] /\ k \in Nat /\ 1 <= k
      /\ job.type \in {"add", "modify"}
  BY <1>1, ElementKeys DEF ReadInv, JobOK, TypeOK
<1>3. /\ src = ReadUpTo(dst, read)
      /\ job.type = "add" => read \subseteq DOMAIN job.given
      /\ dst = IF job.fresh THEN Uninitialized(KeysOf(job.elem)) ELSE held[job.elem]
  BY <1>1 DEF ReadInv, CopyInv, SourceInv, Reading
<1>4. /\ KeysBefore(LayoutKeys, 1) = {}
      /\ k > Len(SizeKeys) => read = SizeKey
      /\ k <= Len(SizeKeys) => /\ SizeKeys[k] \in SizeKey
                               /\ KeysBefore(SizeKeys, k + 1) = read \cup {SizeKeys[k]}
  BY <1>2, KeyLists, NextKey DEF SizeKey
<1> HIDE DEF read
<1>5. SourceInv'
  BY <1>1, <1>3 DEF SourceInv
<1>6. CASE k > Len(SizeKeys)
  <2>1. pc' = "layout" /\ k' = 1 /\ lp' = Layout(src) /\ src' = src
    BY <1>1, <1>6 DEF ReadSize
  <2>2. Layout(src) = Layout(dst)
    BY <1>2, <1>3, <1>4, <1>6, KeyLists DEF ReadUpTo, Layout, Restrict
  <2>3. lp' = ReadUpTo(Layout(dst), {})'
    BY <1>1, <1>2, <2>1, <2>2 DEF ReadUpTo, Layout, Restrict
  <2>4. src' = ReadUpTo(dst, SizeKey)'
    BY <1>1, <1>3, <1>4, <1>6, <2>1 DEF ReadUpTo
  <2>5. ParsedInv'
    BY <1>1, <2>1 DEF ParsedInv
  <2> QED BY <1>1, <1>3, <1>4, <1>5, <1>6, <2>1, <2>3, <2>4, <2>5
          DEF CopyInv, Copied
<1>7. CASE k <= Len(SizeKeys) /\ job.type = "add" /\ Missing(SizeKeys[k])
  <2>1. pc' = "apply"
    BY <1>1, <1>2, <1>7, KeyLists DEF ReadSize
  <2>2. ~(SizeKey \subseteq DOMAIN job.given)
    BY <1>4, <1>7 DEF Missing
  <2>3. job.fresh => dst = Parsed(Uninitialized(KeysOf(job.elem)))
    BY <1>1, <1>2, <1>3, <1>7, <2>2, ParsedIs DEF ReadInv
  <2>4. DOMAIN job.given # KeysOf(job.elem)
    BY <1>2, <2>2
  <2>5. ParsedInv'
    BY <1>1, <2>3, <2>4 DEF ParsedInv, Parsed
  <2> QED BY <1>5, <2>1, <2>5 DEF CopyInv, Copied
<1>8. CASE k <= Len(SizeKeys) /\ ~(job.type = "add" /\ Missing(SizeKeys[k]))
  <2>1. pc' = pc /\ k' = k + 1 /\ src' = Read(src, SizeKeys[k])
    BY <1>1, <1>2, <1>8, KeyLists DEF ReadSize
  <2>2. src' = ReadUpTo(dst, KeysBefore(SizeKeys, k + 1))
    <3>1. SizeKeys[k] \in DOMAIN dst
      BY <1>2, <1>4, <1>8
    <3>2. Read(ReadUpTo(dst, read), SizeKeys[k]) = ReadUpTo(dst, read \cup {SizeKeys[k]})
      BY <3>1, ReadOne
    <3> QED BY <1>3, <1>4, <1>8, <2>1, <3>2
  <2>3. src' = ReadUpTo(dst, KeysBefore(SizeKeys, k))'
    BY <1>1, <2>1, <2>2 DEF ReadUpTo
  <2>4. job.type = "add" => KeysBefore(SizeKeys, k + 1) \subseteq DOMAIN job.given
    BY <1>3, <1>4, <1>8 DEF Missing
  <2>5. ParsedInv'
    BY <1>1, <2>1 DEF ParsedInv
  <2> QED BY <1>1, <1>5, <2>1, <2>3, <2>4, <2>5 DEF CopyInv, Copied
<1> QED BY <1>2, <1>6, <1>7, <1>8, KeyLists

LEMMA CopyKey ==
  ASSUME ReadInv, ReadKey
  PROVE  Copied
<1> DEFINE read == KeysBefore(LayoutKeys, k)
<1>1. /\ pc = "layout" /\ UNCHANGED <<held, job, dst, incomplete>>
  BY DEF ReadKey, tree
<1>2. /\ job.elem \in Element /\ LayoutKey \subseteq KeysOf(job.elem)
      /\ KeysOf(job.elem) \subseteq SizeKey \cup LayoutKey
      /\ dst \in [KeysOf(job.elem) -> Field] /\ k \in Nat /\ 1 <= k
      /\ job.type \in {"add", "modify"}
  BY <1>1, ElementKeys DEF ReadInv, JobOK, TypeOK, Element
<1>3. /\ src = ReadUpTo(dst, SizeKey) /\ lp = ReadUpTo(Layout(dst), read)
      /\ job.type = "add" => read \subseteq DOMAIN job.given
      /\ job.type = "add" /\ job.elem \in Layer => SizeKey \subseteq DOMAIN job.given
      /\ dst = IF job.fresh THEN Uninitialized(KeysOf(job.elem)) ELSE held[job.elem]
  BY <1>1 DEF ReadInv, CopyInv, SourceInv, Reading
<1>4. /\ k > Len(LayoutKeys) => read = LayoutKey
      /\ k <= Len(LayoutKeys) =>
           /\ LayoutKeys[k] \in LayoutKey
           /\ KeysBefore(LayoutKeys, k + 1) = read \cup {LayoutKeys[k]}
  BY <1>2, KeyLists, NextKey DEF LayoutKey
<1> HIDE DEF read
<1>5. SourceInv'
  BY <1>1, <1>3 DEF SourceInv
<1>6. CASE k > Len(LayoutKeys)
  <2>1. pc' = "store" /\ src' = Over(lp, src)
    BY <1>1, <1>6 DEF ReadKey
  <2>2. src' = ReadUpTo(dst, SizeKey \cup LayoutKey)
    BY <1>2, <1>3, <1>4, <1>6, <2>1, KeyLists DEF Over, ReadUpTo, Layout, Restrict
  <2>3. src' = ReadUpTo(dst, SizeKey \cup LayoutKey)'
    BY <1>1, <2>2 DEF ReadUpTo
  <2>4. job.type = "modify" \/ LayoutKey \subseteq DOMAIN job.given
    BY <1>2, <1>3, <1>4, <1>6
  <2>5. ParsedInv'
    BY <1>1, <2>1 DEF ParsedInv
  <2> QED BY <1>1, <1>3, <1>5, <2>1, <2>3, <2>4, <2>5 DEF CopyInv, Copied
<1>7. CASE k <= Len(LayoutKeys) /\ job.type = "add" /\ Missing(LayoutKeys[k])
  <2>1. pc' = "store" /\ src' = src
    BY <1>1, <1>2, <1>7, KeyLists DEF ReadKey
  <2>2. ~(LayoutKey \subseteq DOMAIN job.given)
    BY <1>4, <1>7 DEF Missing
  <2>3. src' = ReadUpTo(dst, SizeKey)'
    BY <1>1, <1>3, <2>1 DEF ReadUpTo
  <2>4. ParsedInv'
    BY <1>1, <2>1 DEF ParsedInv
  <2> QED BY <1>1, <1>3, <1>5, <1>7, <2>1, <2>2, <2>3, <2>4 DEF CopyInv, Copied
<1>8. CASE k <= Len(LayoutKeys) /\ ~(job.type = "add" /\ Missing(LayoutKeys[k]))
  <2>1. pc' = pc /\ k' = k + 1 /\ lp' = Read(lp, LayoutKeys[k]) /\ src' = src
    BY <1>1, <1>2, <1>8, KeyLists DEF ReadKey
  <2>2. DOMAIN Layout(dst) = LayoutKey
    BY DEF Layout, Restrict
  <2>3. lp' = ReadUpTo(Layout(dst), KeysBefore(LayoutKeys, k + 1))
    BY <1>3, <1>4, <1>8, <2>1, <2>2, ReadOne
  <2>4. lp' = ReadUpTo(Layout(dst), KeysBefore(LayoutKeys, k))'
    BY <1>1, <2>1, <2>3 DEF ReadUpTo
  <2>5. src' = ReadUpTo(dst, SizeKey)'
    BY <1>1, <1>3, <2>1 DEF ReadUpTo
  <2>6. job.type = "add" => KeysBefore(LayoutKeys, k + 1) \subseteq DOMAIN job.given
    BY <1>3, <1>4, <1>8 DEF Missing
  <2>7. ParsedInv'
    BY <1>1, <2>1 DEF ParsedInv
  <2> QED BY <1>1, <1>3, <1>5, <2>1, <2>4, <2>5, <2>6, <2>7 DEF CopyInv, Copied
<1> QED BY <1>2, <1>6, <1>7, <1>8, KeyLists

(* What Store puts into the tree. *)
LEMMA StoreSteps ==
  ASSUME ReadInv, Store
  PROVE  /\ pc = "store" /\ pc' = "apply" /\ job' = job /\ incomplete' = incomplete
         /\ job.elem \in Element
         /\ src \in [KeysOf(job.elem) -> Field]
         /\ src = Parsed(IF job.fresh THEN Uninitialized(KeysOf(job.elem))
                                      ELSE held[job.elem])
         /\ DOMAIN job.given = KeysOf(job.elem) => src = job.given
         /\ job.fresh => dst' = src /\ held' = held
         /\ ~job.fresh => job.elem \in DOMAIN held
                            /\ held' = [held EXCEPT ![job.elem] = src]
<1>1. pc = "store" /\ pc' = "apply" /\ job' = job /\ incomplete' = incomplete
  BY DEF Store
<1>2. /\ job.elem \in Element /\ src \in [KeysOf(job.elem) -> Field]
      /\ dst \in [KeysOf(job.elem) -> Field]
      /\ dst = IF job.fresh THEN Uninitialized(KeysOf(job.elem)) ELSE held[job.elem]
      /\ ~job.fresh => job.elem \in DOMAIN held
      /\ job.type \in {"add", "modify"}
      /\ job.type = "add" /\ job.elem \in Layer => SizeKey \subseteq DOMAIN job.given
      /\ src = ReadUpTo(dst, IF \/ job.type = "modify"
                                \/ LayoutKey \subseteq DOMAIN job.given
                             THEN SizeKey \cup LayoutKey ELSE SizeKey)
  BY <1>1 DEF ReadInv, JobOK, SourceInv, CopyInv, Reading
<1>3. src = Parsed(dst) /\ (DOMAIN job.given = KeysOf(job.elem) => src = job.given)
  BY <1>1, <1>2, ParsedIs DEF ReadInv
<1> QED BY <1>1, <1>2, <1>3 DEF Store

LEMMA CopyStore ==
  ASSUME ReadInv, Store
  PROVE  Copied
<1>1. pc = "store" /\ pc' = "apply" /\ job' = job /\ incomplete' = incomplete
  BY StoreSteps
<1>2. SourceInv' /\ CopyInv'
  BY <1>1 DEF SourceInv, CopyInv, Reading
<1>3. /\ job.fresh => dst' = Parsed(Uninitialized(KeysOf(job.elem)))
      /\ DOMAIN job.given = KeysOf(job.elem) =>
           (IF job.fresh THEN dst' ELSE held'[job.elem]) = job.given
  BY StoreSteps
<1>4. ParsedInv'
  BY <1>1, <1>3 DEF ParsedInv, Parsed
<1> QED BY <1>2, <1>4 DEF Copied

LEMMA ReadStep ==
  ASSUME ReadInv, [Next]_vars
  PROVE  ReadInv'
<1>1. TypeOK' /\ JobOK' /\ TypeOK /\ JobOK
  BY TypeStep DEF ReadInv, Typed
<1>2. CASE Drops \/ Apply
  <2>1. pc' = "idle"
    BY <1>2 DEF Drops, Apply, parser
  <2> QED BY <1>1, <2>1 DEF ReadInv, SourceInv, CopyInv, ParsedInv, Reading
<1>3. CASE \/ \E s \in Surface : Appears(s) \/ Disappears(s) \/ Configured(s)
           \/ UNCHANGED vars
  <2>1. UNCHANGED <<held, pc, k, job, dst, src, lp, incomplete>>
    BY <1>3 DEF Appears, Disappears, Configured, vars, tree, parser
  <2> QED BY <1>1, <2>1 DEF ReadInv, SourceInv, CopyInv, ParsedInv, Parsed, ReadUpTo
<1>4. CASE Command /\ ~Drops
  BY <1>1, <1>4, CommandSteps, CopyStarts DEF ReadInv, Copied
<1>5. CASE ReadSize \/ ReadKey \/ Store
  BY <1>1, <1>5, CopySize, CopyKey, CopyStore DEF ReadInv, Copied
<1> QED BY <1>2, <1>3, <1>4, <1>5 DEF Next

LEMMA ReadInvariant == Spec => []ReadInv
BY TypeInit, ReadStep, PTL DEF Spec

(* The tree, the copies and the controller hold the types that the parsing  *)
(* functions and the requests give them, key by key.                        *)
THEOREM PropertiesTypeCorrect == Spec => []TypeOK
<1>1. ReadInv => TypeOK
  BY DEF ReadInv
<1> QED BY <1>1, ReadInvariant, PTL

-----------------------------------------------------------------------------
(***************************************************************************)
(* What is stored.                                                          *)
(***************************************************************************)

(* A command changes the properties of what it names into what Parsed says *)
(* and into nothing else, although it stores key by key in a copy of a copy *)
(* and one that adds gives up at the first key that is missing.             *)
THEOREM StoresAllOrNothing == Spec => StoresWhole
<1> DEFINE Whole(e) ==
      (e \in DOMAIN held => held'[e] # held[e]) =>
        /\ e = job.elem
        /\ held'[e] = Parsed(IF job.fresh THEN Uninitialized(KeysOf(e))
                                          ELSE held[e])
           Stored == \A e \in DOMAIN held' : Whole(e)
<1>1. ASSUME ReadInv, [Next]_vars, NEW e \in DOMAIN held'
      PROVE  Whole(e)
  <2>1. TypeOK /\ JobOK
    BY <1>1 DEF ReadInv
  <2>2. CASE Drops
    BY <1>1, <2>2 DEF Drops
  <2>3. CASE Command /\ ~Drops
    BY <2>1, <2>3, CommandSteps DEF Starts, Parse
  <2>4. CASE Apply
    <3>1. job.fresh => dst = Parsed(Uninitialized(KeysOf(job.elem)))
      BY <1>1, <2>4 DEF ReadInv, ParsedInv, Apply
    <3>2. ~job.fresh => job.elem \in DOMAIN held
      BY <2>1, <2>4 DEF JobOK, Apply
    <3> QED BY <1>1, <2>1, <2>4, <3>1, <3>2, ApplySteps
  <2>5. CASE Store
    BY <1>1, <2>5, StoreSteps
  <2>6. CASE \/ ReadSize \/ ReadKey \/ UNCHANGED vars
             \/ \E s \in Surface : Appears(s) \/ Disappears(s) \/ Configured(s)
    BY <2>6 DEF ReadSize, ReadKey, Appears, Disappears, Configured, vars, tree
  <2> QED BY <1>1, <2>2, <2>3, <2>4, <2>5, <2>6 DEF Next
<1>2. ReadInv /\ [Next]_vars => [Stored]_vars
  BY <1>1
<1> HIDE DEF Stored
<1>3. Spec => [][Stored]_vars
  BY <1>2, ReadInvariant, PTL DEF Spec
<1> QED BY <1>3 DEF StoresWhole, Stored

-----------------------------------------------------------------------------
(***************************************************************************)
(* What is shown.                                                           *)
(***************************************************************************)

(* An element that has been shown as it is held is so until it is changed.  *)
LEMMA ShownKept ==
  ASSUME ReadInv, ShownInv,
         DOMAIN held' \subseteq DOMAIN held,
         \A e \in DOMAIN held' :
           /\ held'[e] = held[e]
           /\ e \in Layer => \/ e \in DOMAIN shown' \cap DOMAIN size'
                             \/ e \notin DOMAIN shown \cap DOMAIN size
           /\ e \in DOMAIN shown' => e \in DOMAIN shown /\ shown'[e] = shown[e],
         pc = "apply" => pc' = "apply" /\ job' = job
  PROVE  ShownInv'
BY DEF ShownInv

LEMMA ShownStep ==
  ASSUME ReadInv, ShownInv, [Next]_vars
  PROVE  ShownInv'
<1>0. TypeOK /\ JobOK
  BY DEF ReadInv
<1>1. CASE Drops
  BY <1>1, ShownKept DEF Drops, Without, Restrict
<1>2. CASE Command /\ ~Drops
  <2>1. UNCHANGED <<held, shown, size>> /\ pc = "idle"
    BY <1>0, <1>2, CommandSteps DEF Starts, Parse, controller
  <2> QED BY <2>1, ShownKept
<1>3. CASE ReadSize \/ ReadKey \/ UNCHANGED vars
  <2>1. UNCHANGED <<held, shown, size>> /\ (pc = "apply" => pc' = "apply" /\ job' = job)
    BY <1>3 DEF ReadSize, ReadKey, vars, tree, controller, parser
  <2> QED BY <2>1, ShownKept
<1>4. CASE Store
  <2>1. /\ DOMAIN held' = DOMAIN held
        /\ \A e \in DOMAIN held : e # job.elem => held'[e] = held[e]
        /\ pc = "store" /\ pc' = "apply" /\ job' = job
        /\ UNCHANGED <<shown, size>>
    BY <1>4, StoreSteps DEF Store, controller
  <2> QED BY <2>1 DEF ShownInv
<1>5. CASE Apply
  <2> DEFINE e == job.elem
  <2>1. /\ pc' = "idle" /\ DOMAIN held' = DOMAIN held \cup {e} /\ e \in Element
        /\ \A d \in DOMAIN held : d # e => held'[d] = held[d]
        /\ held'[e] \in [KeysOf(e) -> Field] /\ Show(e, held'[e])
    BY <1>0, <1>5, ApplySteps
  <2> HIDE DEF e
  <2>2. /\ DOMAIN shown \subseteq DOMAIN shown' /\ DOMAIN size \subseteq DOMAIN size'
        /\ e \in Layer => e \in DOMAIN shown' \cap DOMAIN size'
        /\ e \in DOMAIN shown' => shown'[e] = Layout(held'[e])
        /\ \A d \in DOMAIN shown' : d # e => d \in DOMAIN shown /\ shown'[d] = shown[d]
    BY <1>0, <2>1, ShowFacts
  <2>3. ASSUME NEW d \in DOMAIN held', d # e
        PROVE  /\ d \in Layer => d \in DOMAIN shown' \cap DOMAIN size'
               /\ d \in DOMAIN shown' => shown'[d] = Layout(held'[d])
    BY <2>1, <2>2, <2>3 DEF ShownInv, e
  <2> QED BY <2>1, <2>2, <2>3 DEF ShownInv
<1>6. ASSUME NEW s \in Surface, Configured(s) PROVE ShownInv'
  <2>1. /\ s \in Element /\ s \in DOMAIN held /\ held[s] \in [KeysOf(s) -> Field]
        /\ Show(s, held[s]) /\ UNCHANGED <<held, pc, job>> /\ pc = "idle"
    BY <1>0, <1>6 DEF Configured, TypeOK, Element, tree, parser
  <2>2. /\ DOMAIN shown \subseteq DOMAIN shown' /\ DOMAIN size \subseteq DOMAIN size'
        /\ s \in DOMAIN shown' => shown'[s] = Layout(held[s])
        /\ \A d \in DOMAIN shown' : d # s => d \in DOMAIN shown /\ shown'[d] = shown[d]
    BY <1>0, <2>1, ShowFacts
  <2> QED BY <2>1, <2>2 DEF ShownInv
<1>7. ASSUME NEW s \in Surface, Appears(s) PROVE ShownInv'
  BY <1>7, ShownKept DEF Appears, tree, parser
<1>8. ASSUME NEW s \in Surface, Disappears(s) PROVE ShownInv'
  <2>1. /\ UNCHANGED <<held, size, pc, job>> /\ s \notin Layer
        /\ DOMAIN shown' = DOMAIN shown \ {s}
        /\ \A e \in DOMAIN shown' : shown'[e] = shown[e]
    BY <1>8, KindsAssumption DEF Disappears, Without, Restrict, tree, parser
  <2> QED BY <2>1, ShownKept
<1> QED BY <1>1, <1>2, <1>3, <1>4, <1>5, <1>6, <1>7, <1>8 DEF Next

(* Between commands each layer and surface has the layout that the tree     *)
(* holds for it, whichever keys the last command for it gave and lacked,    *)
(* and whichever layer of a surface it named.                               *)
THEOREM ShowsAsHeld == Spec => []ShownAsHeld
<1>1. Init => ShownInv
  BY DEF Init, ShownInv
<1>2. ReadInv /\ ShownInv /\ [Next]_vars => ShownInv'
  BY ShownStep
<1>3. ReadInv /\ ShownInv => ShownAsHeld
  <2>1. ASSUME ReadInv, NEW s \in Surface, s \in DOMAIN held
        PROVE  Layout(held[s]) = held[s]
    <3>1. s \in Element /\ held[s] \in [KeysOf(s) -> Field]
      BY <2>1 DEF ReadInv, TypeOK, Element
    <3>2. held[s] \in [LayoutKey -> Field]
      BY <3>1, ElementKeys
    <3> QED BY <3>2 DEF Layout, Restrict
  <2> QED BY <2>1 DEF ShownAsHeld, ShownInv
<1> QED BY <1>1, <1>2, <1>3, ReadInvariant, PTL DEF Spec

-----------------------------------------------------------------------------
(***************************************************************************)
(* What is uninitialized.                                                   *)
(***************************************************************************)

(* An element without an uninitialized value, wherever it is.               *)
Clean(f, e) == e \in DOMAIN f => Garbage \notin Range(f[e])

CleanElement(e) == Clean(held, e) /\ Clean(shown, e)

LEMMA CleanParts ==
  ASSUME NEW e \in Element, NEW p \in [KeysOf(e) -> Field], Garbage \notin Range(p)
  PROVE  /\ Garbage \notin Range(Layout(p))
         /\ e \in Layer => Garbage \notin Range(Size(p))
<1>1. \A key \in KeysOf(e) : p[key] # Garbage
  BY DEF Range
<1> QED BY <1>1, ElementKeys DEF Layout, Size, Restrict, Range

(* Reading keys of a message into a clean copy leaves it clean.             *)
LEMMA CleanRead ==
  ASSUME JobOK, pc # "idle", NEW S, NEW p \in [S -> Field], NEW keys,
         Garbage \notin Range(p)
  PROVE  Garbage \notin Range(ReadUpTo(p, keys))
<1>1. \A key \in DOMAIN job.given : job.given[key] # Garbage
  BY GivenTyped DEF JobOK
<1>2. \A key \in S : p[key] # Garbage
  BY DEF Range
<1> QED BY <1>1, <1>2 DEF ReadUpTo, Range

LEMMA CleanShow ==
  ASSUME TypeOK, NEW d \in Element, NEW p \in [KeysOf(d) -> Field], Show(d, p),
         NEW e \in Element,
         IF d = e THEN Garbage \notin Range(p) ELSE Clean(shown, e)
  PROVE  Clean(shown, e)'
<1>1. d = e => Garbage \notin Range(Layout(p))
  BY CleanParts
<1>2. /\ d \in DOMAIN shown' => shown'[d] = Layout(p)
      /\ \A x \in DOMAIN shown' : x # d => x \in DOMAIN shown /\ shown'[x] = shown[x]
  BY ShowFacts
<1> QED BY <1>1, <1>2 DEF Clean

LEMMA CleanStep ==
  ASSUME ReadInv, [Next]_vars, NEW e \in Element, e \notin incomplete',
         e \notin incomplete => CleanElement(e)
  PROVE  CleanElement(e)'
<1>0. TypeOK /\ JobOK
  BY DEF ReadInv
<1>1. CASE Drops
  <2>1. /\ DOMAIN held' \subseteq DOMAIN held
        /\ \A d \in DOMAIN held' : held'[d] = held[d]
        /\ DOMAIN shown' \subseteq DOMAIN shown
        /\ \A d \in DOMAIN shown' : shown'[d] = shown[d]
        /\ incomplete' = incomplete
    BY <1>1 DEF Drops, Without, Restrict
  <2> QED BY <2>1 DEF CleanElement, Clean
<1>2. CASE \/ Command /\ ~Drops
           \/ ReadSize \/ ReadKey \/ UNCHANGED vars
           \/ \E s \in Surface : Appears(s)
  <2>1. UNCHANGED <<held, shown>> /\ e \notin incomplete
    <3>1. CASE Command /\ ~Drops
      BY <1>0, <3>1, CommandSteps DEF Starts, Parse, controller
    <3>2. CASE ~(Command /\ ~Drops)
      BY <1>2, <3>2 DEF ReadSize, ReadKey, Appears, vars, tree, controller
    <3> QED BY <3>1, <3>2
  <2> QED BY <2>1 DEF CleanElement, Clean
<1>3. CASE Store
  <2>1. e \notin incomplete /\ shown' = shown
    BY <1>3 DEF Store, controller
  <2>2. ASSUME ~job.fresh, e = job.elem PROVE Garbage \notin Range(src)
    <3>1. held[e] \in [KeysOf(e) -> Field] /\ Garbage \notin Range(held[e])
      BY <1>0, <1>3, <2>1, <2>2, StoreSteps DEF TypeOK, CleanElement, Clean
    <3>2. \E keys : src = ReadUpTo(held[e], keys)
      BY <1>3, <2>2 DEF ReadInv, SourceInv, CopyInv, Store, Reading
    <3>3. pc # "idle"
      BY <1>3 DEF Store
    <3> QED BY <1>0, <3>1, <3>2, <3>3, CleanRead
  <2>3. Clean(held, e)'
    BY <1>3, <2>1, <2>2, StoreSteps DEF CleanElement, Clean
  <2> QED BY <2>1, <2>3 DEF CleanElement, Clean
<1>4. CASE Apply
  <2>1. /\ pc = "apply" /\ job.elem \in Element
        /\ DOMAIN held' = DOMAIN held \cup {job.elem}
        /\ \A d \in DOMAIN held : d # job.elem => held'[d] = held[d]
        /\ held'[job.elem] = IF job.fresh THEN dst ELSE held[job.elem]
        /\ held'[job.elem] \in [KeysOf(job.elem) -> Field]
        /\ Show(job.elem, held'[job.elem])
        /\ ~job.fresh => job.elem \in DOMAIN held
    BY <1>0, <1>4, ApplySteps DEF JobOK
  <2>2. /\ e # job.elem => e \notin incomplete
        /\ e = job.elem /\ DOMAIN job.given # KeysOf(e) =>
             ~job.fresh /\ e \notin incomplete
    BY <1>0, <1>4, <2>1 DEF Apply, Record, JobOK
  <2>3. ASSUME job.elem = e PROVE Garbage \notin Range(held'[e])
    <3>1. CASE DOMAIN job.given = KeysOf(e)
      <4>1. held'[e] = job.given
        BY <1>4, <2>1, <2>3, <3>1 DEF ReadInv, ParsedInv
      <4>2. Garbage \notin Range(job.given)
        BY <1>0, <2>1, GivenTyped DEF JobOK, Range
      <4> QED BY <4>1, <4>2
    <3>2. CASE DOMAIN job.given # KeysOf(e)
      BY <2>1, <2>2, <2>3, <3>2 DEF CleanElement, Clean
    <3> QED BY <3>1, <3>2
  <2>4. Clean(held, e)'
    BY <2>1, <2>2, <2>3 DEF CleanElement, Clean
  <2>5. Clean(shown, e)'
    BY <1>0, <2>1, <2>2, <2>3, CleanShow DEF CleanElement
  <2> QED BY <2>4, <2>5 DEF CleanElement
<1>5. ASSUME NEW s \in Surface, Configured(s) PROVE CleanElement(e)'
  <2>1. /\ s \in Element /\ s \in DOMAIN held /\ held[s] \in [KeysOf(s) -> Field]
        /\ Show(s, held[s]) /\ UNCHANGED <<held, incomplete>>
    BY <1>0, <1>5 DEF Configured, TypeOK, Element, tree
  <2>2. CleanElement(e)
    BY <2>1
  <2>3. Clean(shown, e)'
    BY <1>0, <2>1, <2>2, CleanShow DEF CleanElement, Clean
  <2> QED BY <2>1, <2>2, <2>3 DEF CleanElement, Clean
<1>6. ASSUME NEW s \in Surface, Disappears(s) PROVE CleanElement(e)'
  <2>1. /\ UNCHANGED <<held, incomplete>>
        /\ DOMAIN shown' = DOMAIN shown \ {s}
        /\ \A d \in DOMAIN shown' : shown'[d] = shown[d]
    BY <1>6 DEF Disappears, Without, Restrict, tree
  <2> QED BY <2>1 DEF CleanElement, Clean
<1> QED BY <1>1, <1>2, <1>3, <1>4, <1>5, <1>6 DEF Next

(* A size that was given, or wholly uninitialized.                          *)
WholeSize(z) == Garbage \in Range(z) => Range(z) = {Garbage}

(* The controller knows the layers of the tree, with whole sizes.           *)
SizeInv ==
  /\ Layer \cap DOMAIN held \subseteq DOMAIN size
  /\ \A l \in DOMAIN size : WholeSize(size[l])

(* A new layer has the size it was given, or an uninitialized one.          *)
LEMMA FreshSize ==
  ASSUME JobOK, pc # "idle", job.elem \in Layer, job.type = "add",
         NEW p, p = Parsed(Uninitialized(KeysOf(job.elem)))
  PROVE  WholeSize(Size(p))
<1> DEFINE none == Uninitialized(KeysOf(job.elem))
<1>1. /\ none \in [KeysOf(job.elem) -> Field]
      /\ KeysOf(job.elem) = SizeKey \cup LayoutKey
      /\ \A key \in DOMAIN job.given : job.given[key] # Garbage
  BY ElementKeys, GivenTyped DEF JobOK, Uninitialized, Field
<1>2. CASE ~(SizeKey \subseteq DOMAIN job.given)
  <2>1. p = none
    BY <1>1, <1>2, ParsedIs
  <2>2. Size(p) = [key \in SizeKey |-> Garbage]
    BY <1>1, <2>1 DEF Size, Restrict, Uninitialized
  <2> QED BY <2>2 DEF WholeSize, Range
<1>3. CASE SizeKey \subseteq DOMAIN job.given
  <2>1. \E keys : p = ReadUpTo(none, SizeKey \cup keys)
    <3>1. \/ p = ReadUpTo(none, SizeKey \cup LayoutKey)
          \/ p = ReadUpTo(none, SizeKey)
      BY <1>1, <1>3, ParsedIs
    <3>2. SizeKey = SizeKey \cup {}
      OBVIOUS
    <3> QED BY <3>1, <3>2
  <2>2. Size(p) = [key \in SizeKey |-> job.given[key]]
    BY <1>1, <1>3, <2>1 DEF Size, Restrict, ReadUpTo, Uninitialized
  <2> QED BY <1>1, <1>3, <2>2 DEF WholeSize, Range
<1> QED BY <1>2, <1>3

LEMMA SizeStep ==
  ASSUME ReadInv, SizeInv, [Next]_vars
  PROVE  SizeInv'
<1>0. TypeOK /\ JobOK
  BY DEF ReadInv
<1>1. CASE Drops
  BY <1>1 DEF Drops, Without, Restrict, SizeInv, WholeSize
<1>2. CASE \/ Command /\ ~Drops
           \/ ReadSize \/ ReadKey \/ UNCHANGED vars
           \/ \E s \in Surface : Appears(s) \/ Disappears(s)
  <2>1. UNCHANGED <<held, size>>
    <3>1. CASE Command /\ ~Drops
      BY <1>0, <3>1, CommandSteps DEF Starts, Parse, controller
    <3>2. CASE ~(Command /\ ~Drops)
      BY <1>2, <3>2 DEF ReadSize, ReadKey, Appears, Disappears, vars, tree, controller
    <3> QED BY <3>1, <3>2
  <2> QED BY <2>1 DEF SizeInv, WholeSize
<1>3. CASE Store
  <2>1. DOMAIN held' = DOMAIN held /\ size' = size
    BY <1>3, StoreSteps DEF Store, controller
  <2> QED BY <2>1 DEF SizeInv, WholeSize
<1>4. ASSUME NEW e \in Element, NEW p \in [KeysOf(e) -> Field], Show(e, p),
             DOMAIN held' \subseteq DOMAIN held \cup {e},
             e \in Layer \ DOMAIN held => WholeSize(Size(p))
      PROVE  SizeInv'
  <2>1. /\ DOMAIN size \subseteq DOMAIN size' /\ DOMAIN size' \subseteq Layer
        /\ e \in Layer => e \in DOMAIN size'
        /\ \A d \in DOMAIN size : size'[d] = size[d]
        /\ \A d \in DOMAIN size' \ DOMAIN size : d = e /\ size'[d] = Size(p)
    BY <1>0, <1>4, ShowFacts
  <2>2. Layer \cap DOMAIN held' \subseteq DOMAIN size'
    BY <1>4, <2>1 DEF SizeInv
  <2>3. ASSUME NEW d \in DOMAIN size' \ DOMAIN size PROVE WholeSize(size'[d])
    BY <1>4, <2>1, <2>3 DEF SizeInv
  <2>4. \A d \in DOMAIN size : WholeSize(size'[d])
    BY <2>1 DEF SizeInv
  <2> QED BY <2>2, <2>3, <2>4 DEF SizeInv, WholeSize
<1>5. CASE Apply
  <2>1. /\ pc = "apply" /\ job.elem \in Element
        /\ DOMAIN held' = DOMAIN held \cup {job.elem}
        /\ held'[job.elem] = IF job.fresh THEN dst ELSE held[job.elem]
        /\ held'[job.elem] \in [KeysOf(job.elem) -> Field]
        /\ Show(job.elem, held'[job.elem])
        /\ ~job.fresh => job.elem \in DOMAIN held
        /\ job.fresh => job.type = "add"
        /\ job.fresh => dst = Parsed(Uninitialized(KeysOf(job.elem)))
    BY <1>0, <1>5, ApplySteps DEF JobOK, ReadInv, ParsedInv
  <2>2. job.elem \in Layer \ DOMAIN held => WholeSize(Size(held'[job.elem]))
    BY <1>0, <2>1, FreshSize
  <2> QED BY <1>4, <2>1, <2>2
<1>6. ASSUME NEW s \in Surface, Configured(s) PROVE SizeInv'
  <2>1. /\ s \in Element /\ s \in DOMAIN held /\ held[s] \in [KeysOf(s) -> Field]
        /\ Show(s, held[s]) /\ held' = held
    BY <1>0, <1>6 DEF Configured, TypeOK, Element, tree
  <2> QED BY <1>4, <2>1
<1> QED BY <1>1, <1>2, <1>3, <1>5, <1>6 DEF Next

(* Uninitialized memory reaches the tree and the display only through       *)
(* elements that a message created without one of their keys, for as long   *)
(* as no message gives all of them; and no size of a layer is half of it.   *)
THEOREM GarbageIsOfIncomplete == Spec => []GarbageOfIncomplete
<1> DEFINE CleanInv == \A e \in Element \ incomplete : CleanElement(e)
<1>1. Init => CleanInv /\ SizeInv
  BY DEF Init, CleanElement, Clean, SizeInv
<1>2. ReadInv /\ CleanInv /\ [Next]_vars => CleanInv'
  BY CleanStep
<1>3. ReadInv /\ SizeInv /\ [Next]_vars => SizeInv'
  BY SizeStep
<1>4. CleanInv /\ SizeInv => GarbageOfIncomplete
  BY DEF GarbageOfIncomplete, CleanElement, Clean, SizeInv, WholeSize
<1> HIDE DEF CleanInv
<1> QED BY <1>1, <1>2, <1>3, <1>4, ReadInvariant, PTL DEF Spec

=============================================================================
