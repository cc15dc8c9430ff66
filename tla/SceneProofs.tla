----------------------------- MODULE SceneProofs -----------------------------
(***************************************************************************)
(* WindowManager implements Scene: whatever the messages, each step moves   *)
(* one layer or one surface and leaves the others in their places.          *)
(***************************************************************************)
EXTENDS WindowManagerProofs

(***************************************************************************)
(* Lists.  Scene speaks of them with its own copies of the library's        *)
(* operators.                                                               *)
(***************************************************************************)

LEMMA SameSets == \A list : TheScene!ToSet(list) = ToSet(list)
BY DEF TheScene!ToSet, ToSet

LEMMA SameInjective == \A list : TheScene!IsInjective(list) <=> IsInjective(list)
BY DEF TheScene!IsInjective, IsInjective

LEMMA MovesMeans ==
  ASSUME NEW list, NEW new, NEW x
  PROVE  TheScene!Moves(list, new, x) <=>
           /\ IsInjective(new)
           /\ ToSet(new) \ {x} = ToSet(list) \ {x}
           /\ \A a, b \in ToSet(list) \ {x} :
                TheScene!Precedes(list, a, b) => TheScene!Precedes(new, a, b)
BY SameSets, SameInjective DEF TheScene!Moves

LEMMA SameOrder ==
  \A list, a, b : TheScene!Precedes(list, a, b) <=> Precedes(list, a, b)
BY DEF TheScene!Precedes, Precedes

LEMMA MovesInsert ==
  ASSUME NEW S, NEW list \in Seq(S), NEW id \in S, NEW order \in InsertOrder,
         NEW ref, IsInjective(list), id \notin ToSet(list)
  PROVE  TheScene!Moves(list, InsertElement(list, id, order, ref), id)
<1> DEFINE ins == InsertElement(list, id, order, ref)
<1>1. /\ ToSet(ins) = ToSet(list) \cup (IF order = NoOrder THEN {} ELSE {id})
      /\ IsInjective(ins)
  BY InsertElementSet
<1>2. \A a, b : TheScene!Precedes(list, a, b) => TheScene!Precedes(ins, a, b)
  BY InsertOrderKept, SameOrder
<1> QED BY <1>1, <1>2, MovesMeans

LEMMA MovesPop ==
  ASSUME NEW S, NEW list \in Seq(S), NEW id, IsInjective(list)
  PROVE  TheScene!Moves(list, PopElement(list, id), id)
<1> DEFINE rest == PopElement(list, id)
<1>1. /\ ToSet(rest) \subseteq ToSet(list)
      /\ ToSet(list) \ {id} \subseteq ToSet(rest)
      /\ IsInjective(rest)
  BY PopElementSet
<1>2. \A a, b : a # id /\ b # id /\ TheScene!Precedes(list, a, b)
                  => TheScene!Precedes(rest, a, b)
  BY PopOrderKept, SameOrder
<1> QED BY <1>1, <1>2, MovesMeans

LEMMA MovesTwice ==
  ASSUME NEW p, NEW q, NEW r, NEW x,
         TheScene!Moves(p, q, x), TheScene!Moves(q, r, x)
  PROVE  TheScene!Moves(p, r, x)
BY MovesMeans

LEMMA MovesNone ==
  ASSUME NEW list, NEW x, IsInjective(list)
  PROVE  TheScene!Moves(list, list, x)
BY MovesMeans

(***************************************************************************)
(* One lemma for each kind of step.                                         *)
(***************************************************************************)

(* pop_layer takes the layer off its screen and moves no other. *)
LEMMA PopLayerMoves ==
  ASSUME TypeOK, TreeShape, NEW l \in Layer, NEW c \in Screen
  PROVE  TheScene!Moves(layers[c], PopLayer(l)[c], l)
<1>1. layers \in [Screen -> Seq(Layer)] /\ IsInjective(layers[c])
  BY DEF TypeOK, TreeShape, OneOfEach
<1>2. PopLayer(l)[c] = layers[c] \/ PopLayer(l)[c] = PopElement(layers[c], l)
  BY <1>1 DEF PopLayer
<1> QED BY <1>1, <1>2, MovesNone, MovesPop

(* decide_add_or_update_layer. *)
LEMMA AddLayerScene ==
  ASSUME TypeOK, TreePart, LoopObjects, TreeShape',
         NEW l \in Layer, NEW look \in Look, AddLayer(l, look)
  PROVE  TheScene!MoveLayer(l)
<1> DEFINE c == ctx.screen
           popped == PopLayer(l)
           list == InsertElement(popped[c], l, ctx.order, ctx.ref)
<1>1. c \in Screen /\ ctx.order \in InsertOrder
  BY DEF AddLayer, TypeOK
<1>2. /\ popped \in [Screen -> Seq(Layer)]
      /\ \A d \in Screen : IsInjective(popped[d]) /\ l \notin ToSet(popped[d])
  BY PopLayerSets DEF TreePart, TreeShape
<1>3. \A d \in Screen : TheScene!Moves(layers[d], popped[d], l)
  BY PopLayerMoves DEF TreePart
<1>4. layers' = [popped EXCEPT ![c] = list] /\ screens' = screens
  BY DEF AddLayer
<1> HIDE DEF popped, c
<1>5. /\ TheScene!Moves(popped[c], list, l)
      /\ ToSet(list) = ToSet(popped[c])
                         \cup (IF ctx.order = NoOrder THEN {} ELSE {l})
  BY <1>1, <1>2, MovesInsert, InsertElementSet
<1> HIDE DEF list
<1>6. \A d \in Screen : layers'[d] = IF d = c THEN list ELSE popped[d]
  BY <1>1, <1>2, <1>4
<1>7. \A d \in Screen : TheScene!Moves(layers[d], layers'[d], l)
  BY <1>3, <1>5, <1>6, MovesTwice
<1>8. DOMAIN layers' = Screen
  BY <1>2, <1>4
<1>9. \A d, e \in Screen : l \in ToSet(layers'[d]) \cap ToSet(layers'[e]) => d = e
  BY DEF TreeShape, OneHome
<1>10. (\E d \in Screen : l \in ToSet(layers'[d])) <=> ctx.order # NoOrder
  BY <1>1, <1>2, <1>5, <1>6
<1>11. surfaces' = IF ctx.order = NoOrder THEN [surfaces EXCEPT ![l] = <<>>]
                                          ELSE surfaces
  BY DEF AddLayer
<1> QED BY <1>4, <1>7, <1>8, <1>9, <1>10, <1>11, SameSets DEF TheScene!MoveLayer

(* remove_layer. *)
LEMMA RemoveLayerScene ==
  ASSUME TypeOK, TreePart, TreeShape', NEW l \in Layer, RemoveLayer(l)
  PROVE  TheScene!MoveLayer(l) \/ UNCHANGED TheScene!sceneVars
<1>1. CASE ~InTree(l)
  BY <1>1 DEF RemoveLayer, TheScene!sceneVars
<1>2. CASE InTree(l)
  <2>1. /\ layers' = PopLayer(l) /\ screens' = screens
        /\ surfaces' = [surfaces EXCEPT ![l] = <<>>]
    BY <1>2 DEF RemoveLayer
  <2>2. /\ PopLayer(l) \in [Screen -> Seq(Layer)]
        /\ \A d \in Screen : l \notin ToSet(PopLayer(l)[d])
    BY PopLayerSets DEF TreePart, TreeShape
  <2>3. \A d \in Screen : TheScene!Moves(layers[d], layers'[d], l)
    BY <2>1, PopLayerMoves DEF TreePart
  <2> QED BY <2>1, <2>2, <2>3, SameSets DEF TheScene!MoveLayer
<1> QED BY <1>1, <1>2

(* decide_add_or_update_surface and remove_surface. *)
LEMMA SurfaceScene ==
  ASSUME TypeOK, TreePart, NEW s \in Surface,
         \/ \E look \in Look, g \in Garbage : AddSurface(s, look, g)
         \/ \E look \in Look : UpdateSurface(s, look)
         \/ RemoveSurface(s)
  PROVE  \E l \in Layer : TheScene!MoveSurface(l, s)
<1> DEFINE l == ctx.layer
           old == surfaces[l]
           popped == PopElement(old, s)
<1>1. l \in Layer /\ ctx.order \in InsertOrder
  BY DEF AddSurface, UpdateSurface, RemoveSurface, TypeOK, AddsSurfaces, Building
<1>2. old \in Seq(Surface) /\ IsInjective(old)
      /\ (Contains(old, s) <=> s \in ToSet(old))
  BY <1>1, ContainsMember DEF TypeOK, TreePart, TreeShape, OneOfEach
<1>3. /\ popped \in Seq(Surface) /\ IsInjective(popped) /\ s \notin ToSet(popped)
      /\ TheScene!Moves(old, popped, s)
  BY <1>2, PopElementSet, MovesPop
<1>4. surfaces \in [Layer -> Seq(Surface)]
  BY DEF TypeOK
<1>5. SUFFICES ASSUME NEW list, surfaces' = [surfaces EXCEPT ![l] = list],
                      TheScene!Moves(old, list, s), UNCHANGED <<screens, layers>>
               PROVE  TheScene!MoveSurface(l, s)
  <2>1. ASSUME NEW look \in Look, NEW g \in Garbage, AddSurface(s, look, g)
        PROVE  \E list : /\ surfaces' = [surfaces EXCEPT ![l] = list]
                         /\ TheScene!Moves(old, list, s)
                         /\ UNCHANGED <<screens, layers>>
    <3> DEFINE list == InsertElement(old, s, ctx.order, ctx.ref)
    <3>1. surfaces' = [surfaces EXCEPT ![l] = list] /\ UNCHANGED <<screens, layers>>
      BY <2>1 DEF AddSurface
    <3>2. s \notin ToSet(old)
      BY <1>2, <2>1 DEF AddSurface
    <3>3. TheScene!Moves(old, list, s)
      BY <1>1, <1>2, <3>2, MovesInsert
    <3> QED BY <3>1, <3>3
  <2>2. ASSUME NEW look \in Look, UpdateSurface(s, look)
        PROVE  \E list : /\ surfaces' = [surfaces EXCEPT ![l] = list]
                         /\ TheScene!Moves(old, list, s)
                         /\ UNCHANGED <<screens, layers>>
    <3> DEFINE list == InsertElement(popped, s, ctx.order, ctx.ref)
    <3>1. surfaces' = [surfaces EXCEPT ![l] = list] /\ UNCHANGED <<screens, layers>>
      BY <2>2 DEF UpdateSurface
    <3> HIDE DEF popped
    <3>2. TheScene!Moves(popped, list, s)
      BY <1>1, <1>3, MovesInsert
    <3>3. TheScene!Moves(old, list, s)
      BY <1>3, <3>2, MovesTwice
    <3> QED BY <3>1, <3>3
  <2>3. CASE RemoveSurface(s)
    <3>1. surfaces' = [surfaces EXCEPT ![l] = popped] /\ UNCHANGED <<screens, layers>>
      BY <2>3 DEF RemoveSurface
    <3> QED BY <1>1, <1>3, <1>5, <3>1
  <2> QED BY <1>1, <1>5, <2>1, <2>2, <2>3
<1>6. surfaces'[l] = list /\ surfaces' = [surfaces EXCEPT ![l] = surfaces'[l]]
  BY <1>1, <1>4, <1>5
<1> QED BY <1>5, <1>6 DEF TheScene!MoveSurface

(* parse_all_in_screen and the default configuration. *)
LEMMA ScreenScene ==
  ASSUME TypeOK, TreePart, TreeShape',
         \/ \E c \in Screen : BuildScreen(c)
         \/ EndScreens \/ BuildUnknownScreen
  PROVE  TheScene!AddScreens
<1>1. UNCHANGED <<layers, surfaces>>
  BY DEF BuildScreen, EndScreens, BuildUnknownScreen
<1>2. IsInjective(screens') /\ screens \in Seq(Screen)
  BY DEF TreeShape, OneOfEach, TypeOK
<1>3. \/ screens' = screens
      \/ screens = <<>> /\ screens' \in SetToSeqs(Connected)
      \/ \E c \in Screen : screens' = Append(screens, c)
  BY DEF BuildScreen, EndScreens, BuildUnknownScreen, ConfigDone, DefaultScreens
<1>4. TheScene!IsPrefix(screens, screens')
  <2>1. CASE screens' = screens
    BY <1>2, <2>1 DEF TheScene!IsPrefix
  <2>2. CASE screens = <<>> /\ screens' \in SetToSeqs(Connected)
    <3>1. screens' \in Seq(Connected)
      BY <2>2, SetToSeqsShape, FiniteAssumption
    <3>2. Len(screens) = 0 /\ Len(screens') \in Nat
      BY <2>2, <3>1
    <3>3. SubSeq(screens, 1, 0) = <<>> /\ SubSeq(screens', 1, 0) = <<>>
      BY <2>2, <3>1
    <3> QED BY <3>2, <3>3 DEF TheScene!IsPrefix
  <2>3. ASSUME NEW c \in Screen, screens' = Append(screens, c)
        PROVE  TheScene!IsPrefix(screens, screens')
    BY <1>2, <2>3 DEF TheScene!IsPrefix
  <2> QED BY <1>3, <2>1, <2>2, <2>3
<1> QED BY <1>1, <1>2, <1>4, SameInjective DEF TheScene!AddScreens

(* Every step of WindowManager is one of Scene, or leaves it alone. *)
LEMMA StepScene ==
  ASSUME TypeOK, TreePart, LoopObjects, NeverExits, TreeShape', [Next]_vars
  PROVE  [TheScene!Next]_TheScene!sceneVars
<1> USE DEF TheScene!sceneVars, treeVars, vars, TheScene!Next
<1>1. CASE HandleCreated \/ HandleConfigured \/ NoCommand
  BY <1>1 DEF HandleCreated, HandleConfigured, NoCommand
<1>2. CASE (\E c \in Commands : StartCommand(c)) \/ World
  BY <1>2 DEF StartCommand, World
<1>3. CASE StartInitialScreen
  BY <1>3 DEF StartInitialScreen, TheScene!Clear
<1>4. CASE (\E c \in Screen : BuildScreen(c)) \/ EndScreens \/ BuildUnknownScreen
  BY <1>4, ScreenScene
<1>5. CASE \/ \E c \in Screen, ins \in InsertInfo(Layer) : AddLayerScreen(c, ins)
           \/ \E ins \in InsertInfo(Surface) : AddSurfaceScreen(ins)
  BY <1>5 DEF AddLayerScreen, AddSurfaceScreen
<1>6. ASSUME NEW l \in Layer, NEW look \in Look, AddLayer(l, look)
      PROVE  TheScene!Next
  BY <1>6, AddLayerScene
<1>7. ASSUME NEW l \in Layer, RemoveLayer(l)
      PROVE  [TheScene!Next]_TheScene!sceneVars
  BY <1>7, RemoveLayerScene
<1>8. CASE \/ \E l \in Layer, look \in Look : ModifyLayer(l, look)
           \/ \E l \in Layer : EnterLayer(l)
  BY <1>8 DEF ModifyLayer, EnterLayer
<1>9. ASSUME NEW s \in Surface,
             \/ \E look \in Look, g \in Garbage : AddSurface(s, look, g)
             \/ \E look \in Look : UpdateSurface(s, look)
             \/ RemoveSurface(s)
      PROVE  TheScene!Next
  BY <1>9, SurfaceScene
<1>10. CASE \/ \E s \in Surface : UpdateUnregistered(s)
            \/ \E s \in Surface, look \in Look : ModifySurface(s, look)
            \/ ModifyUnknownSurface
  BY <1>10 DEF UpdateUnregistered, ModifySurface, ModifyUnknownSurface
<1>11. CASE EndLayers \/ EndSurfaces \/ ReturnEarly
  BY <1>11 DEF EndLayers, EndSurfaces, ReturnEarly
<1>12. CASE UNCHANGED vars
  BY <1>12
<1> QED
  BY <1>1, <1>2, <1>3, <1>4, <1>5, <1>6, <1>7, <1>8, <1>9, <1>10, <1>11, <1>12
  DEF Next, Main, EndOfArray

(* The window manager implements Scene: a step of a handler changes the    *)
(* place of one layer or of one surface, or clears the scene, and nothing   *)
(* else, for every message and any number of screens, layers and surfaces.  *)
THEOREM SceneImplemented == Spec => ImplementsScene
<1>1. Init => TheScene!Empty
  BY DEF Init, TheScene!Empty
<1>2. TreeInv /\ TreeInv' /\ [Next]_vars => [TheScene!Next]_TheScene!sceneVars
  BY StepScene DEF TreeInv, TreePart
<1>3. Spec => []TreeInv
  BY TreeInvariant
<1> QED BY <1>1, <1>2, <1>3, PTL DEF Spec, ImplementsScene, TheScene!Spec

=============================================================================
