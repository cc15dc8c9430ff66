------------------------ MODULE WindowManagerProofs ------------------------
(***************************************************************************)
(* The window manager keeps its types, never holds an id twice in its tree, *)
(* and never names a layer or a screen the ivi-controller does not have, for*)
(* every set of screens, layers and surfaces, every message and every       *)
(* schedule of events.  The inductive invariant is TreeInv; the lemmas show *)
(* that each group of steps preserves it.                                   *)
(***************************************************************************)
EXTENDS WindowManager, TailQueueProofs, FiniteSetTheorems

(* Looking an id up in a list is asking whether it is one of its elements.  *)
LEMMA ContainsMember ==
  ASSUME NEW S, NEW list \in Seq(S), NEW e
  PROVE  Contains(list, e) <=> e \in ToSet(list)
BY LenProperties DEF Contains, ToSet

(* The elements of a list have the type of the list.                        *)
LEMMA MembersTyped ==
  ASSUME NEW S, NEW list \in Seq(S)
  PROVE  ToSet(list) \subseteq S
BY LenProperties, ElementOfSeq DEF ToSet

(* TAILQ_INIT: an empty list has a type and no duplicates.                  *)
LEMMA EmptySequence ==
  /\ \A S : <<>> \in Seq(S)
  /\ IsInjective(<<>>)
  /\ ToSet(<<>>) = {}
BY EmptySeq DEF IsInjective, ToSet

(* The default configuration (init_default_config) names every screen once, *)
(* in whatever order the controller reports them.                           *)
LEMMA SetToSeqsShape ==
  ASSUME NEW S, IsFiniteSet(S), NEW q \in SetToSeqs(S)
  PROVE  q \in Seq(S) /\ IsInjective(q)
<1>1. Cardinality(S) \in Nat
  BY FS_CardinalityType
<1>2. /\ q \in [1 .. Cardinality(S) -> S]
      /\ \A i, j \in 1 .. Cardinality(S) : i # j => q[i] # q[j]
  BY DEF SetToSeqs
<1>3. DOMAIN q = 1 .. Cardinality(S)
  BY <1>2
<1> QED BY <1>1, <1>2, <1>3, SeqDef DEF IsInjective

(* pop_layer finds a screen that has the layer, if any screen of the tree has.*)
LEMMA HomeOfFirst ==
  ASSUME TypeOK, NEW l \in Layer
  PROVE  /\ HomeOf(l) \in 0 .. Len(screens)
         /\ HomeOf(l) = 0 <=> ~InTree(l)
         /\ HomeOf(l) # 0 => l \in ToSet(layers[screens[HomeOf(l)]])
<1> DEFINE I == {i \in 1 .. Len(screens) : Contains(layers[screens[i]], l)}
<1>1. /\ Len(screens) \in Nat /\ DOMAIN screens = 1 .. Len(screens)
      /\ \A i \in 1 .. Len(screens) : screens[i] \in Screen
  BY LenProperties, ElementOfSeq DEF TypeOK
<1>2. HomeOf(l) = IF I # {} THEN Min(I) ELSE 0
  BY DEF HomeOf, SelectInSeq
<1>3. I # {} => Min(I) \in I
  BY <1>1, MinOfPositions
<1>4. InTree(l) <=> I # {}
  BY <1>1 DEF InTree
<1>5. \A i \in I : l \in ToSet(layers[screens[i]])
  BY <1>1, ContainsMember DEF TypeOK
<1> HIDE DEF I
<1>6. I \subseteq 1 .. Len(screens)
  BY DEF I
<1>7. CASE I = {}
  BY <1>1, <1>2, <1>4, <1>7
<1>8. CASE I # {}
  <2>1. HomeOf(l) \in I
    BY <1>2, <1>3, <1>8
  <2>2. HomeOf(l) \in 1 .. Len(screens)
    BY <1>6, <2>1
  <2> QED BY <1>1, <1>4, <1>5, <1>8, <2>1, <2>2
<1> QED BY <1>7, <1>8

(* pop_layer takes the layer out of the tree: of a tree of the right shape, *)
(* no list holds it any more.                                               *)
LEMMA PopLayerSets ==
  ASSUME TypeOK, NEW l \in Layer
  PROVE  /\ PopLayer(l) \in [Screen -> Seq(Layer)]
         /\ \A c \in Screen : ToSet(PopLayer(l)[c]) \subseteq ToSet(layers[c])
         /\ OneOfEach => \A c \in Screen : IsInjective(PopLayer(l)[c])
         /\ TreeShape /\ LayersListed
              => \A c \in Screen : l \notin ToSet(PopLayer(l)[c])
<1> DEFINE h == screens[HomeOf(l)]
           rest == PopElement(layers[h], l)
<1>1. /\ screens \in Seq(Screen) /\ layers \in [Screen -> Seq(Layer)]
      /\ DOMAIN screens = 1 .. Len(screens)
      /\ \A i \in 1 .. Len(screens) : screens[i] \in Screen
  BY LenProperties, ElementOfSeq DEF TypeOK
<1>2. CASE HomeOf(l) = 0
  <2>1. PopLayer(l) = layers
    BY <1>2 DEF PopLayer
  <2>2. \A i \in 1 .. Len(screens) : l \notin ToSet(layers[screens[i]])
    BY <1>1, <1>2, HomeOfFirst, ContainsMember DEF InTree
  <2>3. LayersListed => \A c \in Screen : l \notin ToSet(layers[c])
    BY <1>1, <2>2 DEF LayersListed, ToSet
  <2> QED BY <1>1, <2>1, <2>3 DEF OneOfEach
<1>3. CASE HomeOf(l) # 0
  <2>1. HomeOf(l) \in 1 .. Len(screens) /\ l \in ToSet(layers[h])
    BY <1>1, <1>3, HomeOfFirst, LenProperties
  <2>2. h \in Screen
    BY <1>1, <2>1
  <2>3. /\ rest \in Seq(Layer)
        /\ ToSet(rest) \subseteq ToSet(layers[h])
        /\ IsInjective(layers[h]) => IsInjective(rest) /\ l \notin ToSet(rest)
    BY <1>1, <2>2, PopElementSet
  <2>4. PopLayer(l) = [layers EXCEPT ![h] = rest]
    BY <1>3 DEF PopLayer
  <2> HIDE DEF h, rest
  <2>5. PopLayer(l) \in [Screen -> Seq(Layer)]
    BY <1>1, <2>2, <2>3, <2>4
  <2>6. \A c \in Screen : PopLayer(l)[c] = IF c = h THEN rest ELSE layers[c]
    BY <1>1, <2>2, <2>4
  <2>7. ASSUME TreeShape, NEW c \in Screen, c # h
        PROVE  l \notin ToSet(layers[c])
    BY <2>1, <2>2, <2>7 DEF TreeShape, OneHome
  <2> QED BY <2>2, <2>3, <2>5, <2>6, <2>7 DEF TreeShape, OneOfEach
<1> QED BY <1>2, <1>3

(* remove_surface_properties keeps referred_cnt in the range of its type, even*)
(* where it wraps around.                                                   *)
LEMMA ReleaseType ==
  ASSUME TypeOK, NEW drops \in [Surface -> Nat], Release(drops)
  PROVE  /\ registered' \in SUBSET Surface
         /\ refcnt' \in [Surface -> 0 .. CountMod - 1]
         /\ propLook' \in [Surface -> Look \cup {NoLook}]
<1> DEFINE left(s) == (IF refcnt[s] = 0 THEN CountMod ELSE refcnt[s]) - drops[s]
           kept == {s \in registered : left(s) > 0}
<1>1. CountMod \in Nat \ {0}
  BY CountAssumption
<1>2. \A s \in Surface : left(s) \in Int
  BY <1>1 DEF TypeOK
<1>3. \A s \in Surface : left(s) % CountMod \in 0 .. CountMod - 1
  BY <1>1, <1>2
<1>4. /\ registered' = kept
      /\ refcnt' = [s \in Surface |->
                      IF s \in kept THEN left(s) % CountMod ELSE 0]
      /\ propLook' = [s \in Surface |->
                        IF s \in kept THEN propLook[s] ELSE NoLook]
  BY DEF Release
<1>5. 0 \in 0 .. CountMod - 1
  BY <1>1
<1> QED BY <1>3, <1>4, <1>5 DEF TypeOK

(* A surface is on finitely many layers.                                    *)
LEMMA LayersOfCount ==
  ASSUME NEW s \in Surface
  PROVE  Cardinality(LayersOf(s)) \in Nat
<1>1. LayersOf(s) \subseteq Layer
  BY DEF LayersOf
<1> QED BY <1>1, FiniteAssumption, FS_Subset, FS_CardinalityType

(* parse_insert_info only yields insert orders and references of its type.  *)
LEMMA InsertInfoType ==
  ASSUME NEW ids, NEW ins \in InsertInfo(ids)
  PROVE  ins.order \in InsertOrder /\ ins.ref \in ids \cup {NoId}
BY OrderAssumption DEF InsertInfo

(* A handler that returns leaves no screen, layer or order behind.          *)
LEMMA NoCtxType ==
  NoCtx \in [screen : Screen \cup {NoId}, layer : Layer \cup {NoId},
             order : InsertOrder, ref : Layer \cup Surface \cup {NoId}]
BY DEF NoCtx, InsertOrder

(* The types hold before parser_init reads the configuration.               *)
LEMMA TypeInit == Init => TypeOK
<1> SUFFICES ASSUME Init PROVE TypeOK
  OBVIOUS
<1>1. CountMod \in Nat \ {0} /\ 0 \in 0 .. CountMod - 1
  BY CountAssumption
<1> QED BY <1>1, EmptySequence, NoCtxType DEF Init, TypeOK

(* One lemma for the steps that end an array or a handler.                  *)
LEMMA TypeEnd ==
  ASSUME TypeOK, EndOfArray \/ ReturnEarly \/ BuildUnknownScreen
  PROVE  TypeOK'
<1> USE DEF TypeOK, treeVars, propVars
<1>1. ASSUME ConfigDone PROVE screens' \in Seq(Screen)
  <2>1. CASE screens = <<>>
    <3>1. screens' \in SetToSeqs(Connected)
      BY <1>1, <2>1 DEF ConfigDone, DefaultScreens
    <3>2. screens' \in Seq(Connected)
      BY <3>1, SetToSeqsShape, FiniteAssumption
    <3> QED BY <3>2, SeqMonotonic, ScreenAssumption
  <2>2. CASE screens # <<>>
    BY <1>1, <2>2 DEF ConfigDone
  <2> QED BY <2>1, <2>2
<1>2. CASE BuildUnknownScreen
  BY <1>1, <1>2, NoCtxType DEF BuildUnknownScreen, ConfigDone, Return
<1>3. CASE EndScreens
  BY <1>1, <1>3, NoCtxType DEF EndScreens, ConfigDone, Return
<1>4. CASE EndLayers
  BY <1>4, NoCtxType DEF EndLayers, Return, Loop, Requires, Building
<1>5. CASE EndSurfaces
  BY <1>5, NoCtxType DEF EndSurfaces, Return, Loop, Requires, Building
<1>6. CASE ReturnEarly
  BY <1>6, NoCtxType DEF ReturnEarly, Return
<1> QED BY <1>2, <1>3, <1>4, <1>5, <1>6 DEF EndOfArray

(* The passes through the "screens" and "layers" loops. *)
LEMMA TypeLayers ==
  ASSUME TypeOK,
         \/ StartInitialScreen
         \/ \E c \in Screen : BuildScreen(c)
         \/ \E c \in Screen, ins \in InsertInfo(Layer) : AddLayerScreen(c, ins)
         \/ \E ins \in InsertInfo(Surface) : AddSurfaceScreen(ins)
         \/ \E l \in Layer, look \in Look : AddLayer(l, look)
         \/ \E l \in Layer : RemoveLayer(l)
         \/ \E l \in Layer, look \in Look : ModifyLayer(l, look)
         \/ \E l \in Layer : EnterLayer(l)
  PROVE  TypeOK'
<1> USE DEF TypeOK, treeVars, propVars, loopVars
<1>1. CASE StartInitialScreen
  <2>1. [s \in Surface |-> Cardinality(LayersOf(s))] \in [Surface -> Nat]
    BY LayersOfCount
  <2>2. /\ registered' \in SUBSET Surface
        /\ refcnt' \in [Surface -> 0 .. CountMod - 1]
        /\ propLook' \in [Surface -> Look \cup {NoLook}]
    BY <1>1, <2>1, ReleaseType DEF StartInitialScreen
  <2> QED BY <1>1, <2>2, EmptySequence DEF StartInitialScreen, AllCommands
<1>2. ASSUME NEW c \in Screen, BuildScreen(c) PROVE TypeOK'
  <2>1. screens' \in Seq(Screen)
    BY <1>2, AppendProperties DEF BuildScreen
  <2> QED BY <1>2, <2>1, NoCtxType DEF BuildScreen, Loop, NoCtx
<1>3. ASSUME NEW c \in Screen, NEW ins \in InsertInfo(Layer),
             AddLayerScreen(c, ins)
      PROVE  TypeOK'
  BY <1>3, InsertInfoType, NoCtxType DEF AddLayerScreen, Loop, NoCtx
<1>4. ASSUME NEW ins \in InsertInfo(Surface), AddSurfaceScreen(ins)
      PROVE  TypeOK'
  BY <1>4, InsertInfoType, NoCtxType DEF AddSurfaceScreen, Loop, NoCtx, Building
<1>5. ASSUME NEW l \in Layer, NEW look \in Look, AddLayer(l, look)
      PROVE  TypeOK'
  <2>1. ctx.screen \in Screen /\ ctx.order \in InsertOrder
    BY <1>5 DEF AddLayer
  <2>2. PopLayer(l) \in [Screen -> Seq(Layer)]
    BY PopLayerSets
  <2>3. InsertElement(PopLayer(l)[ctx.screen], l, ctx.order, ctx.ref)
          \in Seq(Layer)
    BY <2>1, <2>2, InsertElementSet
  <2>4. layers' \in [Screen -> Seq(Layer)]
    BY <1>5, <2>1, <2>2, <2>3 DEF AddLayer
  <2>5. /\ surfaces' \in [Layer -> Seq(Surface)]
        /\ layerProp' \in [Layer -> Look \cup {NoLook}]
    <3>1. <<>> \in Seq(Surface)
      BY EmptySequence
    <3>2. \/ /\ surfaces' = [surfaces EXCEPT ![l] = <<>>]
             /\ layerProp' = [layerProp EXCEPT ![l] = NoLook]
          \/ /\ surfaces' = surfaces
             /\ layerProp' = [layerProp EXCEPT ![l] = look]
      BY <1>5 DEF AddLayer
    <3> QED BY <3>1, <3>2
  <2>6. CASE cmd \in Building
    <3>1. pc' = "surfaces" /\ cmd' = cmd /\ ctx' = [ctx EXCEPT !.layer = l]
      BY <1>5, <2>6 DEF AddLayer, Loop
    <3>2. /\ ctx' \in [screen : Screen \cup {NoId}, layer : Layer \cup {NoId},
                       order : InsertOrder, ref : Layer \cup Surface \cup {NoId}]
          /\ ctx'.screen = ctx.screen /\ ctx'.layer = l
      BY <3>1
    <3> HIDE DEF loopVars
    <3> QED BY <1>5, <2>1, <2>4, <2>5, <3>1, <3>2 DEF AddLayer
  <2>7. CASE cmd \notin Building
    <3>1. UNCHANGED <<pc, cmd, ctx>>
      BY <1>5, <2>7 DEF AddLayer
    <3> QED BY <1>5, <2>4, <2>5, <3>1 DEF AddLayer
  <2> QED BY <2>6, <2>7
<1>6. ASSUME NEW l \in Layer, RemoveLayer(l) PROVE TypeOK'
  <2>1. CASE InTree(l)
    <3>1. [s \in Surface |-> IF l \in LayersOf(s) THEN 1 ELSE 0]
            \in [Surface -> Nat]
      OBVIOUS
    <3>2. /\ registered' \in SUBSET Surface
          /\ refcnt' \in [Surface -> 0 .. CountMod - 1]
          /\ propLook' \in [Surface -> Look \cup {NoLook}]
      BY <1>6, <2>1, <3>1, ReleaseType DEF RemoveLayer
    <3>3. layers' \in [Screen -> Seq(Layer)]
      BY <1>6, <2>1, PopLayerSets DEF RemoveLayer
    <3>4. /\ surfaces' \in [Layer -> Seq(Surface)]
          /\ layerProp' \in [Layer -> Look \cup {NoLook}]
      <4>1. <<>> \in Seq(Surface)
        BY EmptySequence
      <4>2. /\ surfaces' = [surfaces EXCEPT ![l] = <<>>]
            /\ layerProp' = [layerProp EXCEPT ![l] = NoLook]
        BY <1>6, <2>1 DEF RemoveLayer
      <4> QED BY <4>1, <4>2
    <3>5. UNCHANGED <<screens, process, pc, cmd, ctx>>
      BY <1>6 DEF RemoveLayer
    <3> QED BY <3>2, <3>3, <3>4, <3>5
  <2>2. CASE ~InTree(l)
    BY <1>6, <2>2 DEF RemoveLayer
  <2> QED BY <2>1, <2>2
<1>7. ASSUME NEW l \in Layer, NEW look \in Look, ModifyLayer(l, look)
      PROVE  TypeOK'
  BY <1>7 DEF ModifyLayer
<1>8. ASSUME NEW l \in Layer, EnterLayer(l) PROVE TypeOK'
  BY <1>8 DEF EnterLayer, Loop, Building
<1> QED BY <1>1, <1>2, <1>3, <1>4, <1>5, <1>6, <1>7, <1>8

(* The passes through the "surfaces" loops. *)
LEMMA TypeSurfaces ==
  ASSUME TypeOK,
         \/ \E s \in Surface, look \in Look, g \in Garbage : AddSurface(s, look, g)
         \/ \E s \in Surface, look \in Look : UpdateSurface(s, look)
         \/ \E s \in Surface : UpdateUnregistered(s)
         \/ \E s \in Surface : RemoveSurface(s)
         \/ \E s \in Surface, look \in Look : ModifySurface(s, look)
         \/ ModifyUnknownSurface
  PROVE  TypeOK'
<1> USE DEF TypeOK, treeVars, propVars, loopVars
<1>1. ASSUME NEW s \in Surface, NEW look \in Look, NEW g \in Garbage,
             AddSurface(s, look, g)
      PROVE  TypeOK'
  <2>1. (g + 1) % CountMod \in 0 .. CountMod - 1
    BY CountAssumption
  <2>2. /\ registered' \in SUBSET Surface
        /\ refcnt' \in [Surface -> 0 .. CountMod - 1]
        /\ propLook' \in [Surface -> Look \cup {NoLook}]
    BY <1>1, <2>1 DEF AddSurface, Reference
  <2>3. ctx.layer \in Layer /\ ctx.order \in InsertOrder
    BY <1>1 DEF AddSurface, AddsSurfaces, Building
  <2>4. InsertElement(surfaces[ctx.layer], s, ctx.order, ctx.ref) \in Seq(Surface)
    BY <2>3, InsertElementSet
  <2>5. surfaces' \in [Layer -> Seq(Surface)]
    BY <1>1, <2>3, <2>4 DEF AddSurface
  <2> QED BY <1>1, <2>2, <2>5 DEF AddSurface
<1>2. ASSUME NEW s \in Surface, NEW look \in Look, UpdateSurface(s, look)
      PROVE  TypeOK'
  <2>1. ctx.layer \in Layer /\ ctx.order \in InsertOrder
    BY <1>2 DEF UpdateSurface, AddsSurfaces, Building
  <2>2. PopElement(surfaces[ctx.layer], s) \in Seq(Surface)
    BY <2>1, PopElementSet
  <2>3. InsertElement(PopElement(surfaces[ctx.layer], s), s, ctx.order, ctx.ref)
          \in Seq(Surface)
    BY <2>1, <2>2, InsertElementSet
  <2>4. surfaces' \in [Layer -> Seq(Surface)]
    BY <1>2, <2>1, <2>3 DEF UpdateSurface
  <2> QED BY <1>2, <2>4 DEF UpdateSurface
<1>3. ASSUME NEW s \in Surface, UpdateUnregistered(s) PROVE TypeOK'
  BY <1>3 DEF UpdateUnregistered
<1>4. ASSUME NEW s \in Surface, RemoveSurface(s) PROVE TypeOK'
  <2>1. [t \in Surface |-> IF t = s /\ ctx.layer \in LayersOf(s) THEN 1 ELSE 0]
          \in [Surface -> Nat]
    OBVIOUS
  <2>2. /\ registered' \in SUBSET Surface
        /\ refcnt' \in [Surface -> 0 .. CountMod - 1]
        /\ propLook' \in [Surface -> Look \cup {NoLook}]
    BY <1>4, <2>1, ReleaseType DEF RemoveSurface
  <2>3. ctx.layer \in Layer
    BY <1>4 DEF RemoveSurface
  <2>4. PopElement(surfaces[ctx.layer], s) \in Seq(Surface)
    BY <2>3, PopElementSet
  <2>5. surfaces' \in [Layer -> Seq(Surface)]
    BY <1>4, <2>4 DEF RemoveSurface
  <2> QED BY <1>4, <2>2, <2>5 DEF RemoveSurface, Requires
<1>5. ASSUME NEW s \in Surface, NEW look \in Look, ModifySurface(s, look)
      PROVE  TypeOK'
  BY <1>5 DEF ModifySurface
<1>6. CASE ModifyUnknownSurface
  BY <1>6, NoCtxType DEF ModifyUnknownSurface, Return
<1> QED BY <1>1, <1>2, <1>3, <1>4, <1>5, <1>6

(* Every step keeps the types.                                              *)
LEMMA TypeStep == TypeOK /\ [Next]_vars => TypeOK'
<1> SUFFICES ASSUME TypeOK, [Next]_vars PROVE TypeOK'
  OBVIOUS
<1>1. CASE HandleCreated \/ NoCommand
  BY <1>1 DEF HandleCreated, NoCommand, TypeOK, treeVars, propVars
<1>2. CASE HandleConfigured
  BY <1>2 DEF HandleConfigured, ShowSurface, Requires, TypeOK, treeVars, propVars
<1>3. ASSUME NEW c \in Commands, StartCommand(c) PROVE TypeOK'
  <2>1. c \in AllCommands \ {"initial_screen"}
    BY <1>3, CommandAssumption DEF StartCommand
  <2>2. CASE c \in {"add_layer", "add_surface"}
    BY <1>3, <2>2 DEF StartCommand, TypeOK, treeVars, propVars, AllCommands
  <2>3. CASE c \in {"remove_layer", "modify_layer", "remove_surface"}
    BY <1>3, <2>3
    DEF StartCommand, TypeOK, treeVars, propVars, AllCommands, Building
  <2>4. CASE c = "modify_surface"
    BY <1>3, <2>4
    DEF StartCommand, TypeOK, treeVars, propVars, AllCommands, Building
  <2> QED BY <2>1, <2>2, <2>3, <2>4 DEF AllCommands
<1>4. CASE World
  BY <1>4 DEF World, TypeOK, treeVars, propVars, loopVars
<1>5. CASE UNCHANGED vars
  BY <1>5 DEF vars, TypeOK, treeVars, propVars, loopVars
<1> QED
  BY <1>1, <1>2, <1>3, <1>4, <1>5, TypeEnd, TypeLayers, TypeSurfaces DEF Next, Main

(* Every variable has its type, and no loop runs without its object.        *)
THEOREM TypeCorrect == Spec => []TypeOK
BY TypeInit, TypeStep, PTL DEF Spec

-----------------------------------------------------------------------------

(* The parts of TreeInv that speak of the tree and the controller.          *)
TreePart == TreeShape /\ TreeExists /\ LayersListed

(* A step that leaves the tree alone, and takes no layer from the controller,*)
(* keeps the shape of the tree and its existence on the controller's side.  *)
LEMMA TreeUnchanged ==
  ASSUME TreePart, UNCHANGED <<screens, layers, surfaces>>,
         ilmLayers \subseteq ilmLayers'
  PROVE  TreePart'
BY DEF TreePart, TreeShape, OneOfEach, OneHome, TreeExists, LayersListed

(* Every layer that get_layer finds exists at the controller.               *)
LEMMA InTreeExists ==
  ASSUME TypeOK, TreePart, NEW l \in Layer, InTree(l)
  PROVE  l \in ilmLayers
<1>1. PICK i \in DOMAIN screens : Contains(layers[screens[i]], l)
  BY DEF InTree
<1>2. screens[i] \in Screen
  BY LenProperties, ElementOfSeq DEF TypeOK
<1>3. l \in ToSet(layers[screens[i]])
  BY <1>1, <1>2, ContainsMember DEF TypeOK
<1> QED BY <1>2, <1>3 DEF TreePart, TreeExists

(* The invariant holds before parser_init reads the configuration.          *)
LEMMA TreeInit == Init => TreeInv
<1> SUFFICES ASSUME Init PROVE TreeInv
  OBVIOUS
<1>1. TypeOK
  BY TypeInit
<1>2. TreePart
  BY EmptySequence
  DEF Init, TreePart, TreeShape, OneOfEach, OneHome, TreeExists, LayersListed
<1>3. LoopObjects /\ NeverExits
  BY DEF Init, LoopObjects, NeverExits
<1> QED BY <1>1, <1>2, <1>3 DEF TreeInv, TreePart

(* The end of parser_init: every layer list is still empty if it adds the   *)
(* default screens.                                                         *)
LEMMA TreeConfigDone ==
  ASSUME TypeOK, TreePart, ConfigDone, UNCHANGED <<layers, surfaces, ilmLayers>>
  PROVE  TreePart'
<1>1. CASE screens = <<>>
  <2>1. screens' \in Seq(Connected) /\ IsInjective(screens')
    BY <1>1, SetToSeqsShape, FiniteAssumption DEF ConfigDone, DefaultScreens
  <2>2. ToSet(screens') \subseteq Connected
    BY <2>1, MembersTyped
  <2>3. \A c \in Screen : ToSet(layers[c]) = {}
    BY <1>1, EmptySequence DEF TreePart, LayersListed
  <2> QED BY <2>1, <2>2, <2>3
       DEF TreePart, TreeShape, OneOfEach, OneHome, TreeExists, LayersListed
<1>2. CASE screens # <<>>
  <2>1. screens' = screens
    BY <1>2 DEF ConfigDone
  <2> QED BY <2>1, TreeUnchanged
<1> QED BY <1>1, <1>2

(* add_screen: parse_all_in_screen adds a screen that exists, once.         *)
LEMMA TreeBuildScreen ==
  ASSUME TypeOK, TreePart, NEW c \in Screen, BuildScreen(c)
  PROVE  TreePart' /\ c \in ToSet(screens')
<1>1. screens \in Seq(Screen) /\ (Contains(screens, c) <=> c \in ToSet(screens))
  BY ContainsMember DEF TypeOK
<1>2. CASE c \in ToSet(screens)
  <2>1. UNCHANGED <<screens, layers, surfaces, ilmLayers>>
    BY <1>1, <1>2 DEF BuildScreen, ilmVars
  <2> QED BY <1>2, <2>1, TreeUnchanged
<1>3. CASE c \notin ToSet(screens)
  <2>1. /\ screens' = Append(screens, c) /\ c \in Connected
        /\ UNCHANGED <<layers, surfaces, ilmLayers>>
    BY <1>1, <1>3 DEF BuildScreen, ilmVars
  <2>2. ToSet(screens') = ToSet(screens) \cup {c}
    BY <1>1, <2>1, AppendSet
  <2>3. IsInjective(screens')
    BY <1>1, <1>3, <2>1, AppendSet DEF TreePart, TreeShape, OneOfEach
  <2> QED BY <2>1, <2>2, <2>3
       DEF TreePart, TreeShape, OneOfEach, OneHome, TreeExists, LayersListed
<1> QED BY <1>2, <1>3

(* A layer is unlinked from its one place before it is linked again.        *)
LEMMA TreeAddLayer ==
  ASSUME TypeOK, TreePart, LoopObjects,
         NEW l \in Layer, NEW look \in Look, AddLayer(l, look)
  PROVE  TreePart' /\ l \in ilmLayers'
<1> DEFINE c == ctx.screen
           popped == PopLayer(l)
           list == InsertElement(popped[c], l, ctx.order, ctx.ref)
<1>1. c \in Screen /\ c \in ToSet(screens) /\ ctx.order \in InsertOrder
  BY DEF AddLayer, LoopObjects, TypeOK
<1>2. /\ popped \in [Screen -> Seq(Layer)]
      /\ \A d \in Screen : /\ ToSet(popped[d]) \subseteq ToSet(layers[d])
                          /\ IsInjective(popped[d])
                          /\ l \notin ToSet(popped[d])
  BY PopLayerSets DEF TreePart, TreeShape
<1>3. /\ ToSet(list) \subseteq ToSet(popped[c]) \cup {l}
      /\ IsInjective(list)
  <2> HIDE DEF popped
  <2>1. LET ins == InsertElement(popped[c], l, ctx.order, ctx.ref)
        IN  /\ ToSet(ins) = ToSet(popped[c])
                              \cup (IF ctx.order = NoOrder THEN {} ELSE {l})
            /\ IsInjective(popped[c]) /\ l \notin ToSet(popped[c])
                 => IsInjective(ins)
    BY <1>1, <1>2, InsertElementSet
  <2> QED BY <1>1, <1>2, <2>1
<1>4. layers' = [popped EXCEPT ![c] = list]
  BY DEF AddLayer
<1> HIDE DEF c, popped, list
<1>5. \A d \in Screen : layers'[d] = IF d = c THEN list ELSE popped[d]
  BY <1>1, <1>2, <1>4
<1>6. /\ ilmLayers' = ilmLayers \cup {l} /\ screens' = screens
      /\ surfaces' = surfaces \/ surfaces' = [surfaces EXCEPT ![l] = <<>>]
  BY DEF AddLayer, SetLayers
<1>7. OneOfEach'
  <2>1. \A d \in Screen : IsInjective(layers'[d])
    BY <1>2, <1>3, <1>5
  <2>2. \A k \in Layer : IsInjective(surfaces'[k])
    BY <1>6, EmptySequence DEF TreePart, TreeShape, OneOfEach, TypeOK
  <2> QED BY <1>6, <2>1, <2>2 DEF TreePart, TreeShape, OneOfEach
<1>8. OneHome'
  <2>1. \A d, e \in Screen : d # e => ToSet(popped[d]) \cap ToSet(popped[e]) = {}
    BY <1>2 DEF TreePart, TreeShape, OneHome
  <2> SUFFICES ASSUME NEW d \in Screen, NEW e \in Screen, d # e
               PROVE  ToSet(layers'[d]) \cap ToSet(layers'[e]) = {}
    BY DEF OneHome
  <2>2. CASE d = c
    BY <1>2, <1>3, <1>5, <2>1, <2>2
  <2>3. CASE e = c
    BY <1>2, <1>3, <1>5, <2>1, <2>3
  <2>4. CASE d # c /\ e # c
    BY <1>5, <2>1, <2>4
  <2> QED BY <2>2, <2>3, <2>4
<1>9. TreeExists' /\ LayersListed'
  BY <1>1, <1>2, <1>3, <1>5, <1>6 DEF TreePart, TreeExists, LayersListed
<1> QED BY <1>6, <1>7, <1>8, <1>9 DEF TreePart, TreeShape

(* A layer is destroyed together with its one place in the tree.            *)
LEMMA TreeRemoveLayer ==
  ASSUME TypeOK, TreePart, NEW l \in Layer, RemoveLayer(l)
  PROVE  TreePart'
<1>1. ilmLayers' = ilmLayers \ {l} /\ screens' = screens
  BY DEF RemoveLayer, DestroyLayer
<1>2. PopLayer(l) = layers \/ InTree(l)
  BY HomeOfFirst DEF PopLayer
<1>3. /\ layers' = PopLayer(l)
      /\ surfaces' = surfaces \/ surfaces' = [surfaces EXCEPT ![l] = <<>>]
  BY <1>2 DEF RemoveLayer
<1>4. \A c \in Screen : /\ ToSet(layers'[c]) \subseteq ToSet(layers[c])
                       /\ IsInjective(layers'[c])
                       /\ l \notin ToSet(layers'[c])
  BY <1>3, PopLayerSets DEF TreePart, TreeShape
<1>5. \A k \in Layer : IsInjective(surfaces'[k])
  BY <1>3, EmptySequence DEF TreePart, TreeShape, OneOfEach, TypeOK
<1>6. TreeShape'
  BY <1>1, <1>4, <1>5 DEF TreePart, TreeShape, OneOfEach, OneHome
<1>7. TreeExists' /\ LayersListed'
  BY <1>1, <1>4 DEF TreePart, TreeExists, LayersListed
<1> QED BY <1>6, <1>7 DEF TreePart

(* A surface list changes: it still holds each surface once.                *)
LEMMA TreeSurfaces ==
  ASSUME TypeOK, TreePart, NEW l \in Layer, NEW list,
         surfaces' = [surfaces EXCEPT ![l] = list], IsInjective(list),
         UNCHANGED <<screens, layers, ilmLayers>>
  PROVE  TreePart'
<1>1. \A k \in Layer : surfaces'[k] = IF k = l THEN list ELSE surfaces[k]
  BY DEF TypeOK
<1> QED BY <1>1
     DEF TreePart, TreeShape, OneOfEach, OneHome, TreeExists, LayersListed

(* The steps of the main loop, of the events and of the applications.       *)
LEMMA InvLoop ==
  ASSUME TypeOK, TreePart, LoopObjects, NeverExits,
         \/ HandleCreated \/ HandleConfigured \/ NoCommand
         \/ \E c \in Commands : StartCommand(c)
         \/ StartInitialScreen
         \/ World
         \/ UNCHANGED vars
  PROVE  TreePart' /\ LoopObjects' /\ NeverExits'
<1> USE DEF treeVars, propVars, loopVars, ilmVars
<1>1. CASE HandleCreated \/ NoCommand
  BY <1>1, TreeUnchanged DEF HandleCreated, NoCommand, LoopObjects, NeverExits
<1>2. CASE HandleConfigured
  <2>1. \A s : {l \in LayersOf(s) : InTree(l)} \subseteq ilmLayers
    BY InTreeExists DEF LayersOf
  <2>2. TreePart' /\ LoopObjects'
    BY <1>2, TreeUnchanged DEF HandleConfigured, LoopObjects
  <2>3. process' \in {process, "crashed"}
    BY <1>2, <2>1 DEF HandleConfigured, ShowSurface, Requires
  <2> QED BY <2>2, <2>3 DEF NeverExits
<1>3. ASSUME NEW c \in Commands, StartCommand(c)
      PROVE  TreePart' /\ LoopObjects' /\ NeverExits'
  <2>1. TreePart' /\ NeverExits'
    BY <1>3, TreeUnchanged DEF StartCommand, NeverExits
  <2>2. c \in AllCommands /\ c # "initial_screen" /\ cmd' = c
    BY <1>3, CommandAssumption DEF StartCommand
  <2>3. pc' # "surfaces" \/ c = "modify_surface"
    BY <1>3, <2>2 DEF StartCommand, AllCommands
  <2>4. pc' # "layers" \/ c \notin {"add_layer", "add_surface"}
    BY <1>3, <2>2 DEF StartCommand, AllCommands
  <2> QED BY <2>1, <2>2, <2>3, <2>4 DEF LoopObjects, Building, AllCommands
<1>4. CASE StartInitialScreen
  <2>1. TreePart'
    BY <1>4, EmptySequence
    DEF StartInitialScreen, TreePart, TreeShape, OneOfEach, OneHome,
        TreeExists, LayersListed
  <2> QED BY <1>4, <2>1 DEF StartInitialScreen, LoopObjects, NeverExits
<1>5. CASE World
  <2>1. UNCHANGED <<screens, layers, surfaces, ilmLayers>>
    BY <1>5 DEF World, Applications, SurfaceAppears, SurfaceDisappears,
                SurfaceConfigures
  <2> QED BY <1>5, <2>1, TreeUnchanged DEF World, LoopObjects, NeverExits
<1>6. CASE UNCHANGED vars
  BY <1>6, TreeUnchanged DEF vars, LoopObjects, NeverExits
<1> QED BY <1>1, <1>2, <1>3, <1>4, <1>5, <1>6

(* The ends of arrays and handlers.  What they ask to be rendered exists.   *)
LEMMA InvEnd ==
  ASSUME TypeOK, TreePart, LoopObjects, NeverExits,
         EndOfArray \/ ReturnEarly \/ BuildUnknownScreen
  PROVE  TreePart' /\ LoopObjects' /\ NeverExits'
<1> USE DEF treeVars, propVars, loopVars, ilmVars
<1>1. CASE BuildUnknownScreen
  <2>1. pc' = "poll" /\ UNCHANGED <<layers, surfaces, ilmLayers, process>>
    BY <1>1 DEF BuildUnknownScreen, ConfigDone, Return
  <2>2. TreePart'
    BY <1>1, <2>1, TreeConfigDone, TreeUnchanged DEF BuildUnknownScreen
  <2> QED BY <2>1, <2>2 DEF LoopObjects, NeverExits
<1>2. CASE EndScreens
  <2>1. pc' = "poll" /\ UNCHANGED <<layers, surfaces, ilmLayers, process>>
    BY <1>2 DEF EndScreens, ConfigDone, Return
  <2>2. TreePart'
    BY <1>2, <2>1, TreeConfigDone, TreeUnchanged DEF EndScreens
  <2> QED BY <2>1, <2>2 DEF LoopObjects, NeverExits
<1>3. CASE EndLayers
  <2>1. ilmLayers \subseteq ilmLayers' /\ UNCHANGED <<screens, layers, surfaces>>
    BY <1>3 DEF EndLayers, SetLayers
  <2>2. pc' \in {"screens", "poll"}
    BY <1>3 DEF EndLayers, Loop, Return
  <2>3. process' # "exited"
    <3>1. pc = "layers" /\ cmd \in Building \cup {"add_layer"}
            => ctx.screen \in Connected
      BY DEF LoopObjects, TreePart, TreeExists
    <3> QED BY <1>3, <3>1 DEF EndLayers, Requires, NeverExits
  <2> QED BY <2>1, <2>2, <2>3, TreeUnchanged DEF LoopObjects, NeverExits
<1>4. CASE EndSurfaces
  <2>1. UNCHANGED <<ilmLayers, screens, layers, surfaces>>
    BY <1>4 DEF EndSurfaces
  <2>2. process' # "exited"
    BY <1>4 DEF EndSurfaces, Requires, NeverExits, LoopObjects
  <2>3. LoopObjects'
    <3>1. CASE cmd = "modify_surface"
      BY <1>4, <3>1 DEF EndSurfaces, Building, Return, LoopObjects
    <3>2. CASE cmd # "modify_surface"
      <4>1. /\ pc' = "layers" /\ cmd' = cmd /\ pc = "surfaces"
            /\ ctx' = [ctx EXCEPT !.layer = NoId]
            /\ cmd \in Building \cup {"add_surface", "remove_surface"}
        BY <1>4, <3>2 DEF EndSurfaces, Loop
      <4>2. ctx'.screen = ctx.screen
        BY <4>1 DEF TypeOK
      <4> QED BY <2>1, <4>1, <4>2 DEF LoopObjects, Building
    <3> QED BY <3>1, <3>2
  <2> QED BY <2>1, <2>2, <2>3, TreeUnchanged DEF NeverExits
<1>5. CASE ReturnEarly
  BY <1>5, TreeUnchanged DEF ReturnEarly, Return, LoopObjects, NeverExits
<1> QED BY <1>1, <1>2, <1>3, <1>4, <1>5 DEF EndOfArray

(* The passes through the "screens" and "layers" loops.                     *)
LEMMA InvLayers ==
  ASSUME TypeOK, TreePart, LoopObjects, NeverExits,
         \/ \E c \in Screen : BuildScreen(c)
         \/ \E c \in Screen, ins \in InsertInfo(Layer) : AddLayerScreen(c, ins)
         \/ \E ins \in InsertInfo(Surface) : AddSurfaceScreen(ins)
         \/ \E l \in Layer, look \in Look : AddLayer(l, look)
         \/ \E l \in Layer : RemoveLayer(l)
         \/ \E l \in Layer, look \in Look : ModifyLayer(l, look)
         \/ \E l \in Layer : EnterLayer(l)
  PROVE  TreePart' /\ LoopObjects' /\ NeverExits'
<1> USE DEF treeVars, propVars, loopVars, ilmVars
<1>1. ASSUME NEW c \in Screen, BuildScreen(c)
      PROVE  TreePart' /\ LoopObjects' /\ NeverExits'
  <2>1. TreePart' /\ c \in ToSet(screens')
    BY <1>1, TreeBuildScreen
  <2>2. pc' = "layers" /\ ctx'.screen = c /\ process' = process
    BY <1>1 DEF BuildScreen, Loop, NoCtx
  <2> QED BY <2>1, <2>2 DEF LoopObjects, NeverExits
<1>2. ASSUME NEW c \in Screen, NEW ins \in InsertInfo(Layer),
             AddLayerScreen(c, ins)
      PROVE  TreePart' /\ LoopObjects' /\ NeverExits'
  <2>1. TreePart' /\ screens' = screens /\ process' = process
    BY <1>2, TreeUnchanged DEF AddLayerScreen
  <2>2. c \in ToSet(screens)
    BY <1>2, ContainsMember DEF AddLayerScreen, TypeOK
  <2>3. pc' = "layers" /\ ctx'.screen = c
    BY <1>2 DEF AddLayerScreen, Loop, NoCtx
  <2> QED BY <2>1, <2>2, <2>3 DEF LoopObjects, NeverExits
<1>3. ASSUME NEW ins \in InsertInfo(Surface), AddSurfaceScreen(ins)
      PROVE  TreePart' /\ LoopObjects' /\ NeverExits'
  <2>1. TreePart' /\ process' = process
    BY <1>3, TreeUnchanged DEF AddSurfaceScreen
  <2>2. pc' = "layers" /\ cmd' = "add_surface"
    BY <1>3 DEF AddSurfaceScreen, Loop
  <2> QED BY <2>1, <2>2 DEF LoopObjects, NeverExits, Building
<1>4. ASSUME NEW l \in Layer, NEW look \in Look, AddLayer(l, look)
      PROVE  TreePart' /\ LoopObjects' /\ NeverExits'
  <2>1. TreePart' /\ l \in ilmLayers'
    BY <1>4, TreeAddLayer
  <2>2. /\ pc = "layers" /\ cmd \in Building \cup {"add_layer"}
        /\ screens' = screens /\ process' = process /\ cmd' = cmd
    BY <1>4 DEF AddLayer, Loop
  <2>3. ctx'.screen = ctx.screen /\ (pc' = "surfaces" => ctx'.layer = l)
    <3>1. CASE cmd \in Building
      BY <1>4, <3>1 DEF AddLayer, Loop, TypeOK
    <3>2. CASE cmd \notin Building
      BY <1>4, <3>2 DEF AddLayer
    <3> QED BY <3>1, <3>2
  <2> QED BY <2>1, <2>2, <2>3 DEF LoopObjects, NeverExits
<1>5. ASSUME NEW l \in Layer, RemoveLayer(l)
      PROVE  TreePart' /\ LoopObjects' /\ NeverExits'
  <2>1. TreePart'
    BY <1>5, TreeRemoveLayer
  <2>2. UNCHANGED loopVars /\ pc = "layers" /\ cmd = "remove_layer"
    BY <1>5 DEF RemoveLayer
  <2> QED BY <2>1, <2>2 DEF LoopObjects, NeverExits, Building
<1>6. ASSUME NEW l \in Layer, NEW look \in Look, ModifyLayer(l, look)
      PROVE  TreePart' /\ LoopObjects' /\ NeverExits'
  <2>1. /\ ilmLayers \subseteq ilmLayers' /\ UNCHANGED loopVars
        /\ UNCHANGED <<screens, layers, surfaces>>
    BY <1>6 DEF ModifyLayer, SetLayers
  <2>2. TreePart'
    BY <2>1, TreeUnchanged
  <2> QED BY <2>1, <2>2 DEF LoopObjects, NeverExits
<1>7. ASSUME NEW l \in Layer, EnterLayer(l)
      PROVE  TreePart' /\ LoopObjects' /\ NeverExits'
  <2>1. TreePart' /\ process' = process /\ ilmLayers' = ilmLayers
    BY <1>7, TreeUnchanged DEF EnterLayer
  <2>2. l \in ilmLayers
    BY <1>7, InTreeExists DEF EnterLayer
  <2>3. /\ pc' = "surfaces" /\ cmd' \in {"add_surface", "remove_surface"}
        /\ ctx'.layer = l
    BY <1>7 DEF EnterLayer, Loop, TypeOK
  <2> QED BY <2>1, <2>2, <2>3 DEF LoopObjects, NeverExits, Building
<1> QED BY <1>1, <1>2, <1>3, <1>4, <1>5, <1>6, <1>7

(* The passes through the "surfaces" loops.                                 *)
LEMMA InvSurfaces ==
  ASSUME TypeOK, TreePart, LoopObjects, NeverExits,
         \/ \E s \in Surface, look \in Look, g \in Garbage : AddSurface(s, look, g)
         \/ \E s \in Surface, look \in Look : UpdateSurface(s, look)
         \/ \E s \in Surface : UpdateUnregistered(s)
         \/ \E s \in Surface : RemoveSurface(s)
         \/ \E s \in Surface, look \in Look : ModifySurface(s, look)
         \/ ModifyUnknownSurface
  PROVE  TreePart' /\ LoopObjects' /\ NeverExits'
<1> USE DEF treeVars, propVars, loopVars, ilmVars
<1> DEFINE here == surfaces[ctx.layer]
<1>0. pc = "surfaces" /\ cmd # "modify_surface"
        => /\ ctx.layer \in Layer /\ here \in Seq(Surface)
           /\ IsInjective(here) /\ ctx.order \in InsertOrder
  BY DEF TypeOK, TreePart, TreeShape, OneOfEach
<1>1. ASSUME NEW s \in Surface, NEW look \in Look, NEW g \in Garbage,
             AddSurface(s, look, g)
      PROVE  TreePart' /\ LoopObjects' /\ NeverExits'
  <2> DEFINE list == InsertElement(here, s, ctx.order, ctx.ref)
  <2>1. pc = "surfaces" /\ cmd # "modify_surface"
    BY <1>1 DEF AddSurface, AddsSurfaces, Building
  <2>2. s \notin ToSet(here)
    BY <1>0, <1>1, <2>1, ContainsMember DEF AddSurface
  <2>3. IsInjective(list)
    BY <1>0, <2>1, <2>2, InsertElementSet
  <2>4. /\ surfaces' = [surfaces EXCEPT ![ctx.layer] = list]
        /\ UNCHANGED <<screens, layers, ilmLayers>> /\ UNCHANGED loopVars
    BY <1>1 DEF AddSurface
  <2> HIDE DEF list
  <2>5. TreePart'
    BY <1>0, <2>1, <2>3, <2>4, TreeSurfaces
  <2> QED BY <2>4, <2>5 DEF LoopObjects, NeverExits
<1>2. ASSUME NEW s \in Surface, NEW look \in Look, UpdateSurface(s, look)
      PROVE  TreePart' /\ LoopObjects' /\ NeverExits'
  <2> DEFINE rest == PopElement(here, s)
             list == InsertElement(rest, s, ctx.order, ctx.ref)
  <2>1. pc = "surfaces" /\ cmd # "modify_surface"
    BY <1>2 DEF UpdateSurface, AddsSurfaces, Building
  <2>2. rest \in Seq(Surface) /\ IsInjective(rest) /\ s \notin ToSet(rest)
    BY <1>0, <2>1, PopElementSet
  <2>3. IsInjective(list)
    <3> HIDE DEF rest
    <3> QED BY <1>0, <2>1, <2>2, InsertElementSet
  <2>4. /\ surfaces' = [surfaces EXCEPT ![ctx.layer] = list]
        /\ UNCHANGED <<screens, layers, ilmLayers>> /\ UNCHANGED loopVars
    BY <1>2 DEF UpdateSurface
  <2> HIDE DEF list
  <2>5. TreePart'
    BY <1>0, <2>1, <2>3, <2>4, TreeSurfaces
  <2> QED BY <2>4, <2>5 DEF LoopObjects, NeverExits
<1>3. ASSUME NEW s \in Surface, UpdateUnregistered(s)
      PROVE  TreePart' /\ LoopObjects' /\ NeverExits'
  BY <1>3, TreeUnchanged DEF UpdateUnregistered, LoopObjects, NeverExits
<1>4. ASSUME NEW s \in Surface, RemoveSurface(s)
      PROVE  TreePart' /\ LoopObjects' /\ NeverExits'
  <2> DEFINE rest == PopElement(here, s)
  <2>1. pc = "surfaces" /\ cmd = "remove_surface"
    BY <1>4 DEF RemoveSurface
  <2>2. IsInjective(rest)
    BY <1>0, <2>1, PopElementSet
  <2>3. /\ surfaces' = [surfaces EXCEPT ![ctx.layer] = rest]
        /\ UNCHANGED <<screens, layers, ilmLayers, pc, cmd, ctx>>
    BY <1>4 DEF RemoveSurface
  <2>4. process' # "exited"
    BY <1>4, <2>1 DEF RemoveSurface, Requires, NeverExits, LoopObjects
  <2> HIDE DEF rest
  <2>5. TreePart'
    BY <1>0, <2>1, <2>2, <2>3, TreeSurfaces
  <2> QED BY <2>3, <2>4, <2>5 DEF LoopObjects, NeverExits
<1>5. ASSUME NEW s \in Surface, NEW look \in Look, ModifySurface(s, look)
      PROVE  TreePart' /\ LoopObjects' /\ NeverExits'
  BY <1>5, TreeUnchanged DEF ModifySurface, LoopObjects, NeverExits
<1>6. CASE ModifyUnknownSurface
  BY <1>6, TreeUnchanged DEF ModifyUnknownSurface, Return, LoopObjects, NeverExits
<1> QED BY <1>1, <1>2, <1>3, <1>4, <1>5, <1>6

(* Every step preserves the invariant.                                      *)
LEMMA TreeInvStep == TreeInv /\ [Next]_vars => TreeInv'
<1> SUFFICES ASSUME TreeInv, [Next]_vars PROVE TreeInv'
  OBVIOUS
<1>1. TypeOK /\ TreePart /\ LoopObjects /\ NeverExits
  BY DEF TreeInv, TreePart
<1>2. TypeOK'
  BY <1>1, TypeStep
<1>3. TreePart' /\ LoopObjects' /\ NeverExits'
  BY <1>1, InvLoop, InvEnd, InvLayers, InvSurfaces DEF Next, Main
<1> QED BY <1>2, <1>3 DEF TreeInv, TreePart

(* The inductive invariant holds in every reachable state.                  *)
THEOREM TreeInvariant == Spec => []TreeInv
BY TreeInit, TreeInvStep, PTL DEF Spec

(* No id is in the tree twice, however malformed the messages are.          *)
THEOREM TreeShaped == Spec => []TreeShape
<1>1. TreeInv => TreeShape
  BY DEF TreeInv
<1> QED BY <1>1, TreeInvariant, PTL

(* No order of messages and events makes a request for a layer or a screen  *)
(* the controller does not have.                                            *)
THEOREM NoExit == Spec => []NeverExits
<1>1. TreeInv => NeverExits
  BY DEF TreeInv
<1> QED BY <1>1, TreeInvariant, PTL

(***************************************************************************)
(* The reference counts of comm_parser.c.  A step treats a surface in one   *)
(* of three ways: it leaves its count alone, takes one off it per layer     *)
(* that the surface leaves, or adds the surface once more.  Nothing is      *)
(* assumed of the uninitialized memory that counts start from.              *)
(***************************************************************************)

(* The count and the properties stay, and so do the layers, but for those   *)
(* lost to a message without insert order.                                  *)
Quiet(s) ==
  /\ LayersOf(s)' \subseteq LayersOf(s)
  /\ s \in registered' <=> s \in registered
  /\ refcnt'[s] = refcnt[s]
  /\ ctx.order # NoOrder => LayersOf(s)' = LayersOf(s)

(* What is left of a count, before it wraps, when n references are dropped. *)
CountAfter(s, n) == (IF refcnt[s] = 0 THEN CountMod ELSE refcnt[s]) - n

(* remove_surface_properties, once for each layer the surface leaves.       *)
Released(s) ==
  /\ LayersOf(s)' \subseteq LayersOf(s)
  /\ LET n == Cardinality(LayersOf(s) \ LayersOf(s)')
     IN  /\ s \in registered' <=> s \in registered /\ CountAfter(s, n) > 0
         /\ s \in registered' => refcnt'[s] = CountAfter(s, n) % CountMod

(* add_surface_properties: the count is overwritten.                        *)
Added(s) ==
  /\ pc = "surfaces" /\ cmd \in AddsSurfaces
  /\ s \in registered'
  /\ ctx.order # NoOrder => ~(LayersOf(s)' \subseteq LayersOf(s))

Treated(s) == Quiet(s) \/ Released(s) \/ Added(s)

(* The layers that a surface leaves are those it was on, less those it is   *)
(* on.                                                                      *)
LEMMA LeavingLayers ==
  ASSUME NEW S \in SUBSET Layer, NEW T \in SUBSET S
  PROVE  /\ Cardinality(S) \in Nat /\ Cardinality(T) \in Nat
         /\ Cardinality(S \ T) = Cardinality(S) - Cardinality(T)
         /\ Cardinality(T) <= Cardinality(S)
         /\ Cardinality(S) <= Cardinality(Layer)
         /\ T # {} => Cardinality(T) >= 1
<1>1. IsFiniteSet(S) /\ IsFiniteSet(T)
  BY FiniteAssumption, FS_Subset
<1>2. Cardinality(S) \in Nat /\ Cardinality(T) \in Nat
  BY <1>1, FS_CardinalityType
<1>3. S \cap T = T
  OBVIOUS
<1>4. Cardinality(S \ T) = Cardinality(S) - Cardinality(T)
  BY <1>1, <1>3, FS_Difference
<1>5. Cardinality(T) <= Cardinality(S) /\ Cardinality(S) <= Cardinality(Layer)
  BY <1>1, FiniteAssumption, FS_Subset
<1>6. T # {} => Cardinality(T) >= 1
  BY <1>1, <1>2, FS_EmptySet
<1> QED BY <1>2, <1>4, <1>5, <1>6

(* The layers of a surface are those whose list holds it.                   *)
LEMMA OnLayer ==
  ASSUME TypeOK, NEW l \in Layer, NEW s \in Surface
  PROVE  /\ l \in LayersOf(s) <=> s \in ToSet(surfaces[l])
         /\ l \in LayersOf(s) <=> Contains(surfaces[l], s)
BY ContainsMember DEF LayersOf, TypeOK

(* One surface list changes, and at most by losing or gaining elements.     *)
LEMMA OneListChanges ==
  ASSUME TypeOK, TypeOK', NEW l \in Layer, NEW list,
         surfaces' = [surfaces EXCEPT ![l] = list], NEW s \in Surface
  PROVE  /\ l \in LayersOf(s)' <=> s \in ToSet(list)
         /\ (s \in ToSet(list) => s \in ToSet(surfaces[l]))
              => LayersOf(s)' \subseteq LayersOf(s)
         /\ LayersOf(s)' \subseteq LayersOf(s) \cup {l}
<1>1. surfaces'[l] = list /\ surfaces' \in [Layer -> Seq(Surface)]
      /\ surfaces \in [Layer -> Seq(Surface)]
  BY DEF TypeOK
<1>2. \A k \in Layer : k # l => surfaces'[k] = surfaces[k]
  BY DEF TypeOK
<1>3. \A k \in Layer : k # l => (k \in LayersOf(s)' <=> k \in LayersOf(s))
  BY <1>2 DEF LayersOf
<1>4. LayersOf(s)' \subseteq Layer
  BY DEF LayersOf
<1>5. l \in LayersOf(s)' <=> s \in ToSet(list)
  BY <1>1, ContainsMember DEF LayersOf
<1>6. l \in LayersOf(s) <=> s \in ToSet(surfaces[l])
  BY OnLayer
<1> QED BY <1>3, <1>4, <1>5, <1>6

(* The one list that changes tells which layers a surface is on.            *)
LEMMA OthersKept ==
  ASSUME TypeOK, TypeOK', NEW l \in Layer, NEW list,
         surfaces' = [surfaces EXCEPT ![l] = list], NEW s \in Surface
  PROVE  LayersOf(s)' = (LayersOf(s) \ {l})
                          \cup (IF s \in ToSet(list) THEN {l} ELSE {})
<1>1. surfaces \in [Layer -> Seq(Surface)]
  BY DEF TypeOK
<1>2. \A k \in Layer : k # l => surfaces'[k] = surfaces[k]
  BY <1>1
<1>3. \A k \in Layer : k # l => (k \in LayersOf(s)' <=> k \in LayersOf(s))
  BY <1>2 DEF LayersOf
<1>4. LayersOf(s)' \subseteq Layer /\ LayersOf(s) \subseteq Layer
  BY DEF LayersOf
<1>5. l \in LayersOf(s)' <=> s \in ToSet(list)
  BY OneListChanges
<1> QED BY <1>3, <1>4, <1>5

(* What Release does to one surface. *)
LEMMA ReleaseOf ==
  ASSUME NEW drops, Release(drops), NEW s \in Surface,
         LayersOf(s)' \subseteq LayersOf(s),
         drops[s] = Cardinality(LayersOf(s) \ LayersOf(s)')
  PROVE  Released(s)
<1> DEFINE left(t) == (IF refcnt[t] = 0 THEN CountMod ELSE refcnt[t]) - drops[t]
           kept == {t \in registered : left(t) > 0}
<1>1. /\ registered' = kept
      /\ refcnt' = [t \in Surface |-> IF t \in kept THEN left(t) % CountMod ELSE 0]
  BY DEF Release
<1>2. left(s) = CountAfter(s, Cardinality(LayersOf(s) \ LayersOf(s)'))
  BY DEF CountAfter
<1>3. s \in kept <=> s \in registered /\ left(s) > 0
  OBVIOUS
<1>4. s \in kept => refcnt'[s] = left(s) % CountMod
  BY <1>1
<1> HIDE DEF kept, left
<1> QED BY <1>1, <1>2, <1>3, <1>4 DEF Released

(* A surface leaves one layer, and one reference is dropped. *)
LEMMA ReleaseOne ==
  ASSUME NEW drops, Release(drops), NEW s \in Surface, NEW l \in Layer,
         LayersOf(s)' = LayersOf(s) \ {l},
         drops[s] = IF l \in LayersOf(s) THEN 1 ELSE 0
  PROVE  Released(s)
<1>1. LayersOf(s) \ LayersOf(s)' = IF l \in LayersOf(s) THEN {l} ELSE {}
  OBVIOUS
<1>2. Cardinality(LayersOf(s) \ LayersOf(s)') = IF l \in LayersOf(s) THEN 1 ELSE 0
  BY <1>1, FS_EmptySet, FS_Singleton
<1> QED BY <1>2, ReleaseOf

(* Most steps leave the surface lists and the counts alone. *)
LEMMA QuietTreatment ==
  ASSUME \/ HandleCreated \/ HandleConfigured \/ NoCommand \/ World
         \/ UNCHANGED vars
         \/ \E c \in Commands : StartCommand(c)
         \/ \E c \in Screen : BuildScreen(c)
         \/ BuildUnknownScreen
         \/ \E c \in Screen, ins \in InsertInfo(Layer) : AddLayerScreen(c, ins)
         \/ \E ins \in InsertInfo(Surface) : AddSurfaceScreen(ins)
         \/ \E l \in Layer, look \in Look : ModifyLayer(l, look)
         \/ \E l \in Layer : EnterLayer(l)
         \/ \E s \in Surface : UpdateUnregistered(s)
         \/ \E s \in Surface, look \in Look : ModifySurface(s, look)
         \/ ModifyUnknownSurface \/ EndOfArray \/ ReturnEarly,
         NEW t \in Surface
  PROVE  Quiet(t)
<1>1. UNCHANGED <<surfaces, registered, refcnt>>
  BY DEF HandleCreated, HandleConfigured, NoCommand, StartCommand, BuildScreen,
         BuildUnknownScreen, AddLayerScreen, AddSurfaceScreen, ModifyLayer,
         EnterLayer, UpdateUnregistered, ModifySurface, ModifyUnknownSurface,
         EndOfArray, EndScreens, EndLayers, EndSurfaces, ReturnEarly, World,
         vars, treeVars, propVars
<1> QED BY <1>1 DEF Quiet, LayersOf

(* initial_screen drops the references of all layers; a layer added without *)
(* insert order is lost with its surfaces; remove_layer drops one reference *)
(* of each of its surfaces.                                                 *)
LEMMA LayerTreatment ==
  ASSUME TypeOK, TypeOK',
         \/ StartInitialScreen
         \/ \E l \in Layer, look \in Look : AddLayer(l, look)
         \/ \E l \in Layer : RemoveLayer(l),
         NEW t \in Surface
  PROVE  Quiet(t) \/ Released(t)
<1> USE DEF propVars, loopVars
<1>1. CASE StartInitialScreen
  <2>1. surfaces' = [l \in Layer |-> <<>>]
        /\ Release([s \in Surface |-> Cardinality(LayersOf(s))])
    BY <1>1 DEF StartInitialScreen
  <2>2. LayersOf(t)' = {}
    BY <2>1 DEF LayersOf, Contains
  <2>3. [s \in Surface |-> Cardinality(LayersOf(s))][t]
          = Cardinality(LayersOf(t) \ LayersOf(t)')
    <3>1. LayersOf(t) \ LayersOf(t)' = LayersOf(t)
      BY <2>2
    <3> QED BY <3>1
  <2> QED BY <2>1, <2>2, <2>3, ReleaseOf
<1>2. ASSUME NEW l \in Layer, NEW look \in Look, AddLayer(l, look)
      PROVE  Quiet(t)
  <2>1. /\ UNCHANGED <<registered, refcnt>>
        /\ ctx.order # NoOrder => surfaces' = surfaces
        /\ surfaces' = surfaces \/ surfaces' = [surfaces EXCEPT ![l] = <<>>]
    BY <1>2 DEF AddLayer
  <2>2. surfaces' = surfaces => LayersOf(t)' = LayersOf(t)
    BY DEF LayersOf
  <2>3. surfaces' = [surfaces EXCEPT ![l] = <<>>] => LayersOf(t)' \subseteq LayersOf(t)
    BY EmptySequence, OneListChanges
  <2> QED BY <2>1, <2>2, <2>3 DEF Quiet
<1>3. ASSUME NEW l \in Layer, RemoveLayer(l) PROVE Quiet(t) \/ Released(t)
  <2> DEFINE drops == [s \in Surface |-> IF l \in LayersOf(s) THEN 1 ELSE 0]
  <2>1. CASE ~InTree(l)
    <3>1. UNCHANGED <<surfaces, registered, refcnt>>
      BY <1>3, <2>1 DEF RemoveLayer
    <3> QED BY <3>1 DEF Quiet, LayersOf
  <2>2. CASE InTree(l)
    <3>1. surfaces' = [surfaces EXCEPT ![l] = <<>>] /\ Release(drops)
      BY <1>3, <2>2 DEF RemoveLayer
    <3>2. LayersOf(t)' = LayersOf(t) \ {l}
      <4>1. LayersOf(t)' = (LayersOf(t) \ {l})
                             \cup (IF t \in ToSet(<<>>) THEN {l} ELSE {})
        BY ONLY TypeOK, TypeOK', <3>1, OthersKept
      <4> QED BY <4>1, EmptySequence
    <3>3. drops[t] = IF l \in LayersOf(t) THEN 1 ELSE 0
      OBVIOUS
    <3> HIDE DEF drops
    <3> QED BY <3>1, <3>2, <3>3, ReleaseOne
  <2> QED BY <2>1, <2>2
<1> QED BY <1>1, <1>2, <1>3

(* A surface is added to a layer, moved within it, or removed from it.      *)
LEMMA SurfaceTreatment ==
  ASSUME TreeInv, TypeOK',
         \/ \E s \in Surface, look \in Look, g \in Garbage : AddSurface(s, look, g)
         \/ \E s \in Surface, look \in Look : UpdateSurface(s, look)
         \/ \E s \in Surface : RemoveSurface(s),
         NEW t \in Surface
  PROVE  Treated(t)
<1>0. TypeOK
  BY DEF TreeInv
<1> USE DEF propVars, loopVars
<1> DEFINE l == ctx.layer
           here == surfaces[l]
<1>1. pc = "surfaces" /\ cmd # "modify_surface"
        => /\ l \in Layer /\ here \in Seq(Surface) /\ IsInjective(here)
           /\ ctx.order \in InsertOrder
           /\ l \in LayersOf(t) <=> t \in ToSet(here)
  BY <1>0, OnLayer DEF TypeOK, TreeInv, TreeShape, OneOfEach
<1>2. ASSUME NEW s \in Surface, NEW look \in Look, NEW g \in Garbage,
             AddSurface(s, look, g)
      PROVE  Treated(t)
  <2> DEFINE list == InsertElement(here, s, ctx.order, ctx.ref)
  <2>1. pc = "surfaces" /\ cmd # "modify_surface" /\ cmd \in AddsSurfaces
    BY <1>2 DEF AddSurface, AddsSurfaces, Building
  <2>2. s \notin ToSet(here)
    BY <1>1, <1>2, <2>1, ContainsMember DEF AddSurface
  <2>3. ToSet(list) = ToSet(here) \cup (IF ctx.order = NoOrder THEN {} ELSE {s})
    <3>1. LET ins == InsertElement(here, s, ctx.order, ctx.ref)
          IN  ToSet(ins) = ToSet(here)
                             \cup (IF ctx.order = NoOrder THEN {} ELSE {s})
      BY <1>1, <2>1, InsertElementSet
    <3> QED BY <3>1
  <2>4. surfaces' = [surfaces EXCEPT ![l] = list]
    BY <1>2 DEF AddSurface
  <2> HIDE DEF list
  <2>5. LayersOf(t)' = (LayersOf(t) \ {l}) \cup (IF t \in ToSet(list) THEN {l} ELSE {})
    BY <1>0, <1>1, <2>1, <2>4, OthersKept
  <2>6. /\ registered' = registered \cup {s}
        /\ t # s => refcnt'[t] = refcnt[t]
    BY <1>0, <1>2 DEF AddSurface, Reference, TypeOK
  <2>7. CASE t = s
    <3>1. ctx.order # NoOrder => ~(LayersOf(t)' \subseteq LayersOf(t))
      BY <1>1, <2>1, <2>2, <2>3, <2>5, <2>7
    <3> QED BY <2>1, <2>6, <2>7, <3>1 DEF Added, Treated
  <2>8. CASE t # s
    <3>1. LayersOf(t)' = LayersOf(t)
      BY <1>1, <2>1, <2>3, <2>5, <2>8
    <3> QED BY <2>6, <2>8, <3>1 DEF Quiet, Treated
  <2> QED BY <2>7, <2>8
<1>3. ASSUME NEW s \in Surface, NEW look \in Look, UpdateSurface(s, look)
      PROVE  Treated(t)
  <2> DEFINE rest == PopElement(here, s)
             list == InsertElement(rest, s, ctx.order, ctx.ref)
  <2>1. /\ pc = "surfaces" /\ cmd # "modify_surface"
        /\ UNCHANGED <<registered, refcnt>>
    BY <1>3 DEF UpdateSurface, AddsSurfaces, Building
  <2>2. s \in ToSet(here)
    BY <1>1, <1>3, <2>1, ContainsMember DEF UpdateSurface
  <2>3. rest \in Seq(Surface) /\ ToSet(rest) = ToSet(here) \ {s}
    BY <1>1, <2>1, PopElementSet
  <2>4. surfaces' = [surfaces EXCEPT ![l] = list]
    BY <1>3 DEF UpdateSurface
  <2>5. ToSet(list) = ToSet(rest) \cup (IF ctx.order = NoOrder THEN {} ELSE {s})
    <3> HIDE DEF rest
    <3>1. LET ins == InsertElement(rest, s, ctx.order, ctx.ref)
          IN  ToSet(ins) = ToSet(rest)
                             \cup (IF ctx.order = NoOrder THEN {} ELSE {s})
      BY <1>1, <2>1, <2>3, InsertElementSet
    <3> QED BY <3>1
  <2> HIDE DEF list, rest
  <2>6. LayersOf(t)' = (LayersOf(t) \ {l}) \cup (IF t \in ToSet(list) THEN {l} ELSE {})
    BY <1>0, <1>1, <2>1, <2>4, OthersKept
  <2>7. /\ LayersOf(t)' \subseteq LayersOf(t)
        /\ ctx.order # NoOrder => LayersOf(t)' = LayersOf(t)
    BY <1>1, <2>1, <2>2, <2>3, <2>5, <2>6
  <2> QED BY <2>1, <2>7 DEF Quiet, Treated
<1>4. ASSUME NEW s \in Surface, RemoveSurface(s) PROVE Treated(t)
  <2> DEFINE rest == PopElement(here, s)
             drops == [u \in Surface |-> IF u = s /\ l \in LayersOf(s) THEN 1 ELSE 0]
  <2>1. /\ pc = "surfaces" /\ cmd = "remove_surface"
        /\ surfaces' = [surfaces EXCEPT ![l] = rest]
        /\ Release(drops)
    BY <1>4 DEF RemoveSurface
  <2>2. ToSet(rest) = ToSet(here) \ {s}
    BY <1>1, <2>1, PopElementSet
  <2> HIDE DEF rest
  <2>3. LayersOf(t)' = (LayersOf(t) \ {l}) \cup (IF t \in ToSet(rest) THEN {l} ELSE {})
    BY <1>0, <1>1, <2>1, OthersKept
  <2>4. drops[t] = IF t = s /\ l \in LayersOf(s) THEN 1 ELSE 0
    OBVIOUS
  <2> HIDE DEF drops
  <2>5. CASE t = s
    <3>1. LayersOf(t)' = LayersOf(t) \ {l}
      BY <2>2, <2>3, <2>5
    <3> QED BY <1>1, <2>1, <2>4, <2>5, <3>1, ReleaseOne DEF Treated
  <2>6. CASE t # s
    <3>1. LayersOf(t)' = LayersOf(t)
      BY <1>1, <2>1, <2>2, <2>3, <2>6
    <3>2. LayersOf(t) \ LayersOf(t)' = {}
      BY <3>1
    <3>3. Cardinality(LayersOf(t) \ LayersOf(t)') = 0
      BY <3>2, FS_EmptySet
    <3>4. Released(t)
      BY <2>1, <2>4, <2>6, <3>1, <3>3, ReleaseOf
    <3> QED BY <3>4 DEF Treated
  <2> QED BY <2>5, <2>6
<1> QED BY <1>2, <1>3, <1>4

(* Each step treats each surface in one of the three ways. *)
LEMMA ThreeWays ==
  ASSUME TreeInv, [Next]_vars, NEW t \in Surface
  PROVE  Treated(t)
<1>1. TypeOK /\ TypeOK'
  BY TreeInvStep DEF TreeInv
<1> QED BY <1>1, QuietTreatment, LayerTreatment, SurfaceTreatment
   DEF Next, Main, Treated

-----------------------------------------------------------------------------
(* Only a surface whose layers are not covered crashes a handler.           *)
LEMMA CrashUncovered ==
  ASSUME TreeInv, Next, process' = "crashed"
  PROVE  \E s \in Surface : LayersOf(s) # {} /\ s \notin registered
<1>0. TypeOK /\ process = "running"
  BY DEF TreeInv, Next, Main, World
<1> USE DEF loopVars
<1>1. \/ HandleConfigured
      \/ \E s \in Surface : UpdateUnregistered(s)
  BY <1>0
  DEF Next, Main, World, HandleCreated, NoCommand, StartCommand,
      StartInitialScreen, BuildScreen, BuildUnknownScreen, AddLayerScreen,
      AddSurfaceScreen, AddLayer, RemoveLayer, ModifyLayer, EnterLayer,
      AddSurface, UpdateSurface, RemoveSurface, ModifySurface,
      ModifyUnknownSurface, EndOfArray, EndScreens, EndLayers, EndSurfaces,
      ReturnEarly, Requires
<1>2. CASE HandleConfigured
  <2>1. PICK s : {k \in LayersOf(s) : InTree(k)} # {} /\ s \notin registered
    BY <1>0, <1>2 DEF HandleConfigured, ShowSurface, Requires
  <2>2. PICK k \in LayersOf(s) : InTree(k)
    BY <2>1
  <2>3. k \in Layer /\ Contains(surfaces[k], s)
    BY <2>2 DEF LayersOf
  <2>4. s \in Surface
    BY <1>0, <2>3, ElementOfSeq DEF Contains, TypeOK
  <2> QED BY <2>1, <2>2, <2>4
<1>3. ASSUME NEW s \in Surface, UpdateUnregistered(s)
      PROVE  LayersOf(s) # {} /\ s \notin registered
  BY <1>0, <1>3 DEF UpdateUnregistered, AddsSurfaces, Building, LayersOf, TypeOK
<1> QED BY <1>1, <1>2, <1>3

(* A count that covers the layers of a surface covers those it keeps.       *)
LEMMA CoverStep ==
  ASSUME TypeOK, NEW s \in Surface, Quiet(s) \/ Released(s), Covered(s)
  PROVE  Covered(s)'
<1> DEFINE L == LayersOf(s)
           K == LayersOf(s)'
<1>1. K \in SUBSET L /\ L \in SUBSET Layer
  BY DEF Quiet, Released, LayersOf
<1> SUFFICES ASSUME K # {}
             PROVE  s \in registered' /\ refcnt'[s] >= Cardinality(K)
  BY DEF Covered
<1>2. s \in registered /\ refcnt[s] >= Cardinality(L)
  BY <1>1 DEF Covered
<1>3. refcnt[s] \in 0 .. CountMod - 1 /\ CountMod \in Nat
  BY CountAssumption DEF TypeOK
<1>4. CASE Quiet(s)
  <2>1. s \in registered' /\ refcnt'[s] = refcnt[s]
    BY <1>2, <1>4 DEF Quiet
  <2> HIDE DEF L, K
  <2>2. Cardinality(K) <= Cardinality(L) /\ Cardinality(K) \in Nat
        /\ Cardinality(L) \in Nat
    BY <1>1, LeavingLayers
  <2> QED BY <1>2, <1>3, <2>1, <2>2
<1>5. CASE Released(s)
  <2> DEFINE n == Cardinality(L \ K)
             left == CountAfter(s, n)
  <2>1. /\ s \in registered' <=> s \in registered /\ left > 0
        /\ s \in registered' => refcnt'[s] = left % CountMod
    BY <1>5 DEF Released
  <2>2. left = (IF refcnt[s] = 0 THEN CountMod ELSE refcnt[s]) - n
    BY DEF CountAfter
  <2> HIDE DEF L, K, left
  <2>3. /\ Cardinality(K) \in Nat /\ Cardinality(L) \in Nat
        /\ n = Cardinality(L) - Cardinality(K)
        /\ Cardinality(K) <= Cardinality(L) /\ Cardinality(K) >= 1
    BY <1>1, LeavingLayers
  <2> HIDE DEF n
  <2>4. left >= Cardinality(K) /\ left \in 1 .. CountMod - 1
    BY <1>2, <1>3, <2>2, <2>3
  <2>5. left % CountMod = left
    BY <1>3, <2>4
  <2> QED BY <1>2, <2>1, <2>4, <2>5
<1> QED BY <1>4, <1>5

(* Whatever the counts start from, only adding a surface once more leaves   *)
(* layers uncovered that were covered, and only such a surface crashes a    *)
(* handler: no removal and no early return frees properties too early.      *)
THEOREM OnlyAddsMatter == Spec => OnlyAddsUncover
<1> DEFINE A == /\ \A s \in Surface :
                     Covered(s) /\ ~Covered(s)' =>
                       pc = "surfaces" /\ cmd \in AddsSurfaces /\ s \in registered'
                /\ process' = "crashed" => \E s \in Surface : ~Covered(s)
<1>1. TreeInv /\ Next => A
  <2> SUFFICES ASSUME TreeInv, Next PROVE A
    OBVIOUS
  <2>1. \A s \in Surface : LayersOf(s) # {} /\ s \notin registered => ~Covered(s)
    BY DEF Covered
  <2>2. process' = "crashed" => \E s \in Surface : ~Covered(s)
    BY <2>1, CrashUncovered
  <2>3. ASSUME NEW s \in Surface, Covered(s), ~Covered(s)'
        PROVE  pc = "surfaces" /\ cmd \in AddsSurfaces /\ s \in registered'
    <3>1. Treated(s) /\ TypeOK
      BY ThreeWays DEF TreeInv
    <3>2. Added(s)
      BY <2>3, <3>1, CoverStep DEF Treated
    <3> QED BY <3>2 DEF Added
  <2> QED BY <2>2, <2>3
<1>2. TreeInv /\ [Next]_vars => [A]_vars
  BY <1>1
<1> QED BY <1>2, TreeInvariant, PTL DEF Spec, OnlyAddsUncover

(* What is left of a count is what the unsigned int holds, and it is 0 only *)
(* if as many references were dropped as were counted.                      *)
LEMMA WrappedCount ==
  ASSUME NEW m \in Nat \ {0}, NEW r \in 0 .. m - 1, NEW n \in 0 .. m - 1
  PROVE  LET left == (IF r = 0 THEN m ELSE r) - n
         IN  IF r \in 1 .. n THEN ~(left > 0)
             ELSE left > 0 /\ left % m = (r - n) % m
<1>1. CASE r = 0
  <2>1. CASE n = 0
    BY <1>1, <2>1
  <2>2. CASE n # 0
    <3>1. m - n \in 1 .. m - 1
      BY <2>2
    <3>2. (m - n) % m = m - n
      BY <3>1
    <3>3. (0 - n) % m = m - n
      BY <3>1
    <3> QED BY <1>1, <3>1, <3>2, <3>3
  <2> QED BY <2>1, <2>2
<1>2. CASE r # 0
  BY <1>2
<1> QED BY <1>1, <1>2

(* As long as a surface cannot be on 2^32 layers, one reference is dropped  *)
(* for each layer a surface leaves, whatever its count started from, and    *)
(* its properties are freed exactly when that makes the count 0.            *)
THEOREM OneReleasePerLayer ==
  ASSUME Cardinality(Layer) < CountMod
  PROVE  Spec => ReleasedPerLayer
<1> DEFINE B(s) == IF refcnt[s] \in 1 .. Left(s)
                   THEN s \notin registered'
                   ELSE /\ s \in registered'
                        /\ refcnt'[s] = (refcnt[s] - Left(s)) % CountMod
           A == \A s \in registered :
                  ctx.order # NoOrder /\ LayersOf(s)' \subseteq LayersOf(s) => B(s)
<1>1. ASSUME TreeInv, [Next]_vars, NEW s \in registered,
             ctx.order # NoOrder, LayersOf(s)' \subseteq LayersOf(s)
      PROVE  B(s)
  <2>1. TypeOK /\ s \in Surface
    BY <1>1 DEF TreeInv, TypeOK
  <2>2. refcnt[s] \in 0 .. CountMod - 1 /\ CountMod \in Nat \ {0}
    BY <2>1, CountAssumption DEF TypeOK
  <2>3. Left(s) = Cardinality(LayersOf(s) \ LayersOf(s)')
    BY <1>1 DEF Left
  <2>4. Left(s) \in 0 .. CountMod - 1
    <3>1. LayersOf(s) \in SUBSET Layer /\ LayersOf(s)' \in SUBSET LayersOf(s)
      BY <1>1 DEF LayersOf
    <3>2. Cardinality(Layer) \in Nat
      BY FiniteAssumption, FS_CardinalityType
    <3>3. /\ Cardinality(LayersOf(s)) \in Nat /\ Cardinality(LayersOf(s)') \in Nat
          /\ Cardinality(LayersOf(s) \ LayersOf(s)')
               = Cardinality(LayersOf(s)) - Cardinality(LayersOf(s)')
          /\ Cardinality(LayersOf(s)') <= Cardinality(LayersOf(s))
          /\ Cardinality(LayersOf(s)) <= Cardinality(Layer)
      BY ONLY <3>1, LeavingLayers
    <3> HIDE DEF LayersOf
    <3> QED BY <2>2, <2>3, <3>2, <3>3
  <2> HIDE DEF Left
  <2>5. Treated(s)
    BY <1>1, <2>1, ThreeWays
  <2>6. CASE Quiet(s)
    <3>1. LayersOf(s) \ LayersOf(s)' = {}
      BY <1>1, <2>6 DEF Quiet
    <3>2. Left(s) = 0
      BY <2>3, <3>1, FS_EmptySet
    <3>3. refcnt[s] % CountMod = refcnt[s]
      BY <2>2
    <3> QED BY <1>1, <2>2, <2>6, <3>2, <3>3 DEF Quiet
  <2>7. CASE Released(s)
    <3> DEFINE left == CountAfter(s, Left(s))
    <3>1. /\ s \in registered' <=> left > 0
          /\ s \in registered' => refcnt'[s] = left % CountMod
      BY <1>1, <2>3, <2>7 DEF Released
    <3>2. left = (IF refcnt[s] = 0 THEN CountMod ELSE refcnt[s]) - Left(s)
      BY DEF CountAfter
    <3> HIDE DEF left
    <3>3. IF refcnt[s] \in 1 .. Left(s) THEN ~(left > 0)
          ELSE left > 0 /\ left % CountMod = (refcnt[s] - Left(s)) % CountMod
      BY <2>2, <2>4, <3>2, WrappedCount
    <3> QED BY <3>1, <3>3
  <2>8. ~Added(s)
    BY <1>1 DEF Added
  <2> QED BY <2>5, <2>6, <2>7, <2>8 DEF Treated
<1>2. TreeInv /\ [Next]_vars => A
  BY <1>1
<1> HIDE DEF A
<1>3. TreeInv /\ [Next]_vars => [A]_vars
  BY <1>2
<1>4. Spec => [][A]_vars
  BY <1>3, TreeInvariant, PTL DEF Spec
<1> QED BY <1>4 DEF A, ReleasedPerLayer

==============================================================================
