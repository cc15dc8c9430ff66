------------------------ MODULE WindowManagerDisplay ------------------------
(***************************************************************************)
(* What the tree of comm_parser.c and the display of the ivi-controller     *)
(* have to do with each other: how far the one follows the other at each    *)
(* point of a handler, and that it has caught up between the handlers.      *)
(***************************************************************************)
EXTENDS Display, WindowManagerProofs

(* A layer of the tree is in the layer list of some screen.                 *)
Placed(l) == \E c \in Screen : l \in ToSet(layers[c])

LEMMA PlacedInTree ==
  ASSUME TypeOK, LayersListed, NEW l \in Layer
  PROVE  InTree(l) <=> Placed(l)
<1>1. /\ DOMAIN screens = 1 .. Len(screens)
      /\ \A i \in DOMAIN screens : screens[i] \in Screen
  BY LenProperties, ElementOfSeq DEF TypeOK
<1>2. \A c \in Screen : Contains(layers[c], l) <=> l \in ToSet(layers[c])
  BY ContainsMember DEF TypeOK
<1>3. ASSUME NEW c \in Screen, l \in ToSet(layers[c]) PROVE InTree(l)
  <2>1. c \in ToSet(screens)
    BY <1>3 DEF LayersListed
  <2>2. PICK i \in DOMAIN screens : screens[i] = c
    BY <2>1 DEF ToSet
  <2> QED BY <1>2, <1>3, <2>2 DEF InTree
<1> QED BY <1>1, <1>2, <1>3 DEF InTree, Placed

(* A list without elements is the empty list.                               *)
LEMMA NoMembers ==
  ASSUME NEW S, NEW list \in Seq(S), ToSet(list) = {}
  PROVE  list = <<>>
<1> DEFINE n == Len(list)
<1>1. n \in Nat /\ DOMAIN list = 1 .. n
  BY LenProperties
<1> HIDE DEF n
<1>2. n = 0
  <2>1. n # 0 => 1 \in 1 .. n
    BY <1>1
  <2>2. n # 0 => list[1] \in ToSet(list)
    BY <1>1, <2>1 DEF ToSet
  <2> QED BY <2>2
<1> QED BY <1>2, EmptySeq DEF n

(* A layer that add_layer or remove_layer has unlinked is gone from every   *)
(* list, and the lists are otherwise as they were.                          *)
LEMMA PopLayerIsWithout ==
  ASSUME TypeOK, TreePart, NEW l \in Layer, NEW c \in Screen
  PROVE  PopLayer(l)[c] = Without(layers[c], l)
<1> DEFINE h == screens[HomeOf(l)]
<1>1. /\ screens \in Seq(Screen) /\ layers \in [Screen -> Seq(Layer)]
      /\ DOMAIN screens = 1 .. Len(screens) /\ Len(screens) \in Nat
      /\ \A i \in 1 .. Len(screens) : screens[i] \in Screen
      /\ IsInjective(layers[c])
  BY LenProperties, ElementOfSeq DEF TypeOK, TreePart, TreeShape, OneOfEach
<1>2. l \notin ToSet(layers[c]) => Without(layers[c], l) = layers[c]
  <2> SUFFICES ASSUME l \notin ToSet(layers[c])
               PROVE  Without(layers[c], l) = layers[c]
    OBVIOUS
  <2>1. ToSet(layers[c]) \subseteq ToSet(layers[c]) \ {l}
    OBVIOUS
  <2>2. layers[c] \in Seq(Layer)
    BY <1>1
  <2> QED BY ONLY <1>1, <2>1, <2>2, KeptAll DEF Without
<1>3. CASE HomeOf(l) = 0
  <2>1. ~InTree(l)
    BY <1>3, HomeOfFirst
  <2>2. l \notin ToSet(layers[c])
    BY <2>1, PlacedInTree DEF Placed, TreePart
  <2> QED BY <1>2, <1>3, <2>2 DEF PopLayer
<1>4. CASE HomeOf(l) # 0
  <2>1. h \in Screen /\ l \in ToSet(layers[h])
    BY <1>1, <1>4, HomeOfFirst
  <2>2. PopLayer(l)[c] = IF c = h THEN PopElement(layers[h], l) ELSE layers[c]
    BY <1>1, <1>4, <2>1 DEF PopLayer
  <2>3. c # h => l \notin ToSet(layers[c])
    BY <2>1 DEF TreePart, TreeShape, OneHome
  <2>4. PopElement(layers[c], l) = Without(layers[c], l)
    BY <1>1, PopIsWithout
  <2> QED BY <1>2, <2>2, <2>3, <2>4
<1> QED BY <1>3, <1>4

(* add_layer moves the layer to the screen at hand, or loses it.            *)
LEMMA AddLayerSets ==
  ASSUME TypeOK, TreePart, NEW l \in Layer, NEW look \in Look, AddLayer(l, look)
  PROVE  /\ ctx.screen \in Screen
         /\ \A d \in Screen : ToSet(layers'[d]) =
              (ToSet(layers[d]) \ {l})
                \cup (IF d = ctx.screen /\ ctx.order # NoOrder THEN {l} ELSE {})
<1> DEFINE c == ctx.screen
           popped == PopLayer(l)
           list == InsertElement(popped[c], l, ctx.order, ctx.ref)
<1>1. /\ c \in Screen /\ ctx.order \in InsertOrder
      /\ layers' = [popped EXCEPT ![c] = list]
      /\ popped \in [Screen -> Seq(Layer)]
  BY PopLayerSets DEF AddLayer, TypeOK
<1>2. \A d \in Screen : ToSet(popped[d]) = ToSet(layers[d]) \ {l}
  <2>1. \A d \in Screen : layers[d] \in Seq(Layer)
    BY DEF TypeOK
  <2> QED BY <2>1, PopLayerIsWithout, WithoutSet
<1> HIDE DEF popped
<1>3. ToSet(list) = ToSet(popped[c]) \cup (IF ctx.order = NoOrder THEN {} ELSE {l})
  BY <1>1, InsertElementSet
<1> HIDE DEF list
<1> QED BY <1>1, <1>2, <1>3

(* remove_layer takes the layer out of the tree, if it is in the tree.      *)
LEMMA RemoveLayerSets ==
  ASSUME TypeOK, TreePart, NEW l \in Layer, RemoveLayer(l)
  PROVE  /\ layers' = PopLayer(l)
         /\ \A d \in Screen : ToSet(layers'[d]) = ToSet(layers[d]) \ {l}
<1>1. PopLayer(l) = layers \/ InTree(l)
  BY HomeOfFirst DEF PopLayer
<1>2. layers' = PopLayer(l)
  BY <1>1 DEF RemoveLayer
<1>3. \A d \in Screen : layers[d] \in Seq(Layer)
  BY DEF TypeOK
<1> QED BY <1>2, <1>3, PopLayerIsWithout, WithoutSet

-----------------------------------------------------------------------------
(***************************************************************************)
(* The requests, and what they leave at the controller.                     *)
(***************************************************************************)

(* Render orders hold an id once, and a layer shows what exists.            *)
OrdersInv ==
  /\ IlmTypeOK
  /\ \A l \in Layer : /\ IsInjective(layerOrder[l])
                      /\ ToSet(layerOrder[l]) \subseteq alive
  /\ \A c \in Screen : IsInjective(screenOrder[c])

(* The element a handler works on is in the tree, a layer keeps surfaces    *)
(* only there, and once the configuration is read the callback is there.    *)
WorkInv ==
  /\ pc = "surfaces" /\ cmd \in {"add_surface", "remove_surface"}
       => Placed(ctx.layer)
  /\ pc = "surfaces" /\ cmd \in Building
       => ctx.layer \in ToSet(layers[ctx.screen])
  /\ pc \in {"layers", "surfaces"} /\ cmd \in Building
       => ctx.order = AppendTail
  /\ \A l \in Layer : surfaces[l] # <<>> => Placed(l)
  /\ cmd # "config" => listening
  /\ pc \in {"poll", "client"} => cmd = "idle"

(* What a step can do to the render orders of layers.                       *)
LEMMA LayerOrderSteps ==
  ASSUME TypeOK, TreePart, LoopObjects, WorkInv, [Next]_vars
  PROVE  \/ alive \subseteq alive' /\ layerOrder' = layerOrder
         \/ /\ alive' = alive
            /\ \E L \in SUBSET Layer : /\ RenderSurfaces(L, surfaces)
                                       /\ \A l \in L : Placed(l)
         \/ \E s \in Surface :
              /\ alive' = alive \ {s}
              /\ layerOrder' = [l \in Layer |-> Without(layerOrder[l], s)]
         \/ /\ alive' = alive
            /\ \E l \in Layer, s \in Surface :
                 layerOrder' = [layerOrder EXCEPT ![l] = Without(@, s)]
         \/ /\ alive' = alive
            /\ \E l \in Layer : layerOrder' = [layerOrder EXCEPT ![l] = <<>>]
<1> USE DEF treeVars, propVars, loopVars, ilmVars
<1> DEFINE Goal ==
         \/ alive \subseteq alive' /\ layerOrder' = layerOrder
         \/ /\ alive' = alive
            /\ \E L \in SUBSET Layer : /\ RenderSurfaces(L, surfaces)
                                       /\ \A l \in L : Placed(l)
         \/ \E s \in Surface :
              /\ alive' = alive \ {s}
              /\ layerOrder' = [l \in Layer |-> Without(layerOrder[l], s)]
         \/ /\ alive' = alive
            /\ \E l \in Layer, s \in Surface :
                 layerOrder' = [layerOrder EXCEPT ![l] = Without(@, s)]
         \/ /\ alive' = alive
            /\ \E l \in Layer : layerOrder' = [layerOrder EXCEPT ![l] = <<>>]
<1>1. CASE HandleConfigured
  <2> DEFINE s == Head(pipe).id
             on == {l \in LayersOf(s) : InTree(l)}
  <2>1. \A l \in on : l \in Layer /\ Placed(l)
    BY PlacedInTree DEF LayersOf, TreePart
  <2>2. alive' = alive /\ (layerOrder' = layerOrder \/ RenderSurfaces(on, surfaces))
    BY <1>1 DEF HandleConfigured, ShowSurface
  <2> HIDE DEF on
  <2> QED BY <2>1, <2>2
<1>2. CASE EndLayers
  <2> DEFINE L == ToSet(layers[ctx.screen])
  <2>1. alive' = alive /\ (layerOrder' = layerOrder
                            \/ (/\ cmd \in Building \cup {"add_layer"}
                                /\ pc = "layers"
                                /\ RenderSurfaces(L, surfaces)))
    BY <1>2 DEF EndLayers
  <2>2. pc = "layers" /\ cmd \in Building \cup {"add_layer"}
          => /\ ctx.screen \in Screen /\ L \subseteq Layer
             /\ \A l \in L : Placed(l)
    BY MembersTyped DEF TypeOK, Placed
  <2> HIDE DEF L
  <2> QED BY <2>1, <2>2
<1>3. CASE EndSurfaces
  <2>1. alive' = alive /\ (layerOrder' = layerOrder
                            \/ (/\ pc = "surfaces" /\ cmd = "add_surface"
                                /\ RenderSurfaces({ctx.layer}, surfaces)))
    BY <1>3 DEF EndSurfaces
  <2>2. pc = "surfaces" /\ cmd = "add_surface"
          => ctx.layer \in Layer /\ Placed(ctx.layer)
    BY DEF TypeOK, WorkInv
  <2>3. pc = "surfaces" /\ cmd = "add_surface"
          => {ctx.layer} \in SUBSET Layer /\ \A l \in {ctx.layer} : Placed(l)
    BY <2>2
  <2> QED BY <2>1, <2>3
<1>4. ASSUME NEW s \in Surface, RemoveSurface(s) PROVE Goal
  <2>1. ctx.layer \in Layer
    BY <1>4 DEF TypeOK, RemoveSurface
  <2>2. alive' = alive /\ (layerOrder' = layerOrder \/
           layerOrder' = [layerOrder EXCEPT ![ctx.layer] = Without(@, s)])
    BY <1>4 DEF RemoveSurface, TakeOffLayer
  <2> QED BY <2>1, <2>2
<1>5. ASSUME NEW l \in Layer, RemoveLayer(l) PROVE Goal
  BY <1>5 DEF RemoveLayer, DestroyLayer
<1>6. CASE World
  BY <1>6 DEF World, Applications, SurfaceAppears, SurfaceDisappears,
              SurfaceConfigures
<1>7. CASE \/ HandleCreated \/ NoCommand \/ UNCHANGED vars
           \/ \E c \in Commands : StartCommand(c)
           \/ StartInitialScreen
           \/ \E c \in Screen : BuildScreen(c)
           \/ BuildUnknownScreen
           \/ \E c \in Screen, ins \in InsertInfo(Layer) : AddLayerScreen(c, ins)
           \/ \E ins \in InsertInfo(Surface) : AddSurfaceScreen(ins)
           \/ \E l \in Layer, look \in Look : AddLayer(l, look)
           \/ \E l \in Layer, look \in Look : ModifyLayer(l, look)
           \/ \E l \in Layer : EnterLayer(l)
           \/ \E s \in Surface, look \in Look, g \in Garbage : AddSurface(s, look, g)
           \/ \E s \in Surface, look \in Look : UpdateSurface(s, look)
           \/ \E s \in Surface : UpdateUnregistered(s)
           \/ \E s \in Surface, look \in Look : ModifySurface(s, look)
           \/ ModifyUnknownSurface \/ EndScreens \/ ReturnEarly
  <2>1. UNCHANGED <<alive, layerOrder>>
    BY <1>7 DEF HandleCreated, NoCommand, vars, StartCommand, StartInitialScreen,
         BuildScreen, BuildUnknownScreen, AddLayerScreen, AddSurfaceScreen,
         AddLayer, ModifyLayer, EnterLayer, AddSurface, UpdateSurface,
         UpdateUnregistered, ModifySurface, ModifyUnknownSurface, EndScreens,
         ReturnEarly
  <2> QED BY <2>1
<1> QED BY <1>1, <1>2, <1>3, <1>4, <1>5, <1>6, <1>7 DEF Next, Main, EndOfArray

(* What a step can do to the render orders of screens.                      *)
LEMMA ScreenOrderSteps ==
  ASSUME TypeOK, TreePart, LoopObjects, [Next]_vars
  PROVE  \/ screenOrder' = screenOrder
         \/ \E c \in ToSet(screens) : /\ pc = "layers"
                                      /\ cmd \in Building \cup {"add_layer"}
                                      /\ ctx.screen = c
                                      /\ screens' = screens
                                      /\ RenderLayers(c, layers[c])
         \/ \E l \in Layer :
              screenOrder' = [c \in Screen |-> Without(screenOrder[c], l)]
<1> USE DEF treeVars, propVars, loopVars, ilmVars
<1>1. CASE EndLayers
  BY <1>1 DEF EndLayers, LoopObjects
<1>2. ASSUME NEW l \in Layer, RemoveLayer(l)
      PROVE  screenOrder' = [c \in Screen |-> Without(screenOrder[c], l)]
  BY <1>2 DEF RemoveLayer, DestroyLayer
<1>3. CASE \/ HandleCreated \/ HandleConfigured \/ NoCommand \/ UNCHANGED vars
           \/ \E c \in Commands : StartCommand(c)
           \/ StartInitialScreen \/ World
           \/ \E c \in Screen : BuildScreen(c)
           \/ BuildUnknownScreen
           \/ \E c \in Screen, ins \in InsertInfo(Layer) : AddLayerScreen(c, ins)
           \/ \E ins \in InsertInfo(Surface) : AddSurfaceScreen(ins)
           \/ \E l \in Layer, look \in Look : AddLayer(l, look)
           \/ \E l \in Layer, look \in Look : ModifyLayer(l, look)
           \/ \E l \in Layer : EnterLayer(l)
           \/ \E s \in Surface, look \in Look, g \in Garbage : AddSurface(s, look, g)
           \/ \E s \in Surface, look \in Look : UpdateSurface(s, look)
           \/ \E s \in Surface : UpdateUnregistered(s)
           \/ \E s \in Surface : RemoveSurface(s)
           \/ \E s \in Surface, look \in Look : ModifySurface(s, look)
           \/ ModifyUnknownSurface \/ EndScreens \/ EndSurfaces \/ ReturnEarly
  BY <1>3
  DEF HandleCreated, HandleConfigured, NoCommand, vars, StartCommand,
      StartInitialScreen, World, Applications, SurfaceAppears,
      SurfaceDisappears, SurfaceConfigures, BuildScreen, BuildUnknownScreen,
      AddLayerScreen, AddSurfaceScreen, AddLayer, ModifyLayer, EnterLayer,
      AddSurface, UpdateSurface, UpdateUnregistered, RemoveSurface,
      ModifySurface, ModifyUnknownSurface, EndScreens, EndSurfaces, ReturnEarly
<1> QED BY <1>1, <1>2, <1>3 DEF Next, Main, EndOfArray

(* What a render request leaves: the surfaces of each list that exist.      *)
LEMMA RenderSurfacesSets ==
  ASSUME TypeOK, TreePart, OrdersInv, NEW L \in SUBSET Layer,
         RenderSurfaces(L, surfaces)
  PROVE  /\ layerOrder' \in [Layer -> Seq(Surface)]
         /\ \A l \in Layer \ L : layerOrder'[l] = layerOrder[l]
         /\ \A l \in L : /\ layerOrder'[l] = Kept(surfaces[l], alive)
                         /\ IsInjective(layerOrder'[l])
                         /\ ToSet(layerOrder'[l]) = ToSet(surfaces[l]) \cap alive
<1>1. \A l \in Layer : /\ surfaces[l] \in Seq(Surface) /\ IsInjective(surfaces[l])
                       /\ layerOrder[l] \in Seq(Surface)
  BY DEF TypeOK, TreePart, TreeShape, OneOfEach, OrdersInv, IlmTypeOK
<1>2. \A l \in Layer : /\ Kept(surfaces[l], alive) \in Seq(Surface)
                       /\ ToSet(Kept(surfaces[l], alive)) = ToSet(surfaces[l]) \cap alive
                       /\ IsInjective(Kept(surfaces[l], alive))
  BY <1>1, KeptSet
<1>3. layerOrder' = [l \in Layer |-> IF l \in L THEN Kept(surfaces[l], alive)
                                                ELSE layerOrder[l]]
  BY DEF RenderSurfaces, Existing
<1> QED BY <1>1, <1>2, <1>3

(* Render orders stay free of duplicates and of what does not exist.        *)
LEMMA OrdersStep ==
  ASSUME TypeOK, TreePart, LoopObjects, WorkInv, OrdersInv, [Next]_vars
  PROVE  /\ layerOrder' \in [Layer -> Seq(Surface)]
         /\ \A l \in Layer : /\ IsInjective(layerOrder'[l])
                             /\ ToSet(layerOrder'[l]) \subseteq alive'
         /\ screenOrder' \in [Screen -> Seq(Layer)]
         /\ \A c \in Screen : IsInjective(screenOrder'[c])
<1>0. /\ layerOrder \in [Layer -> Seq(Surface)]
      /\ screenOrder \in [Screen -> Seq(Layer)]
      /\ \A l \in Layer : /\ IsInjective(layerOrder[l])
                          /\ ToSet(layerOrder[l]) \subseteq alive
      /\ \A c \in Screen : IsInjective(screenOrder[c])
  BY DEF OrdersInv, IlmTypeOK
<1> DEFINE Layered == /\ layerOrder' \in [Layer -> Seq(Surface)]
                      /\ \A l \in Layer : /\ IsInjective(layerOrder'[l])
                                          /\ ToSet(layerOrder'[l]) \subseteq alive'
           Screened == /\ screenOrder' \in [Screen -> Seq(Layer)]
                       /\ \A c \in Screen : IsInjective(screenOrder'[c])
<1>1. Layered
  <2>1. ASSUME alive \subseteq alive', layerOrder' = layerOrder PROVE Layered
    BY <1>0, <2>1
  <2>2. ASSUME alive' = alive, NEW L \in SUBSET Layer, RenderSurfaces(L, surfaces)
        PROVE  Layered
    BY <1>0, <2>2, RenderSurfacesSets
  <2>3. ASSUME NEW s \in Surface, alive' = alive \ {s},
               layerOrder' = [l \in Layer |-> Without(layerOrder[l], s)]
        PROVE  Layered
    <3>1. \A l \in Layer :
            /\ layerOrder'[l] = Without(layerOrder[l], s)
            /\ Without(layerOrder[l], s) \in Seq(Surface)
            /\ ToSet(Without(layerOrder[l], s)) = ToSet(layerOrder[l]) \ {s}
            /\ IsInjective(Without(layerOrder[l], s))
      <4>1. \A l \in Layer : layerOrder[l] \in Seq(Surface)
        BY <1>0
      <4>2. \A l \in Layer : layerOrder'[l] = Without(layerOrder[l], s)
        BY <2>3
      <4> QED BY <1>0, <4>1, <4>2, WithoutSet
    <3> QED BY <1>0, <2>3, <3>1
  <2>4. ASSUME alive' = alive, NEW l \in Layer, NEW s \in Surface,
               layerOrder' = [layerOrder EXCEPT ![l] = Without(@, s)]
        PROVE  Layered
    <3>1. /\ Without(layerOrder[l], s) \in Seq(Surface)
          /\ ToSet(Without(layerOrder[l], s)) = ToSet(layerOrder[l]) \ {s}
          /\ IsInjective(Without(layerOrder[l], s))
      <4>1. layerOrder[l] \in Seq(Surface) /\ IsInjective(layerOrder[l])
        BY <1>0
      <4> QED BY ONLY <4>1, WithoutSet
    <3> QED BY <1>0, <2>4, <3>1
  <2>5. ASSUME alive' = alive, NEW l \in Layer,
               layerOrder' = [layerOrder EXCEPT ![l] = <<>>]
        PROVE  Layered
    BY <1>0, <2>5, EmptySequence
  <2> HIDE DEF Layered
  <2> QED BY <2>1, <2>2, <2>3, <2>4, <2>5, LayerOrderSteps
<1>2. Screened
  <2>1. ASSUME screenOrder' = screenOrder PROVE Screened
    BY <1>0, <2>1
  <2>2. ASSUME NEW c \in ToSet(screens), RenderLayers(c, layers[c])
        PROVE  Screened
    <3>1. c \in Screen
      BY MembersTyped DEF TypeOK
    <3>2. layers[c] \in Seq(Layer) /\ IsInjective(layers[c])
      BY <3>1 DEF TypeOK, TreePart, TreeShape, OneOfEach
    <3> DEFINE S == Layer \ ToSet(layers[c])
    <3>3. \A d \in Screen : /\ Kept(screenOrder[d], S) \in Seq(Layer)
                            /\ IsInjective(Kept(screenOrder[d], S))
      BY <1>0, KeptSet
    <3>4. screenOrder' = [d \in Screen |-> IF d = c THEN layers[c]
                                           ELSE Kept(screenOrder[d], S)]
      BY <2>2 DEF RenderLayers
    <3> HIDE DEF S
    <3> QED BY <3>2, <3>3, <3>4
  <2>3. ASSUME NEW l \in Layer,
               screenOrder' = [c \in Screen |-> Without(screenOrder[c], l)]
        PROVE  Screened
    <3>1. \A c \in Screen :
            /\ screenOrder'[c] = Without(screenOrder[c], l)
            /\ Without(screenOrder[c], l) \in Seq(Layer)
            /\ IsInjective(Without(screenOrder[c], l))
      <4>1. \A c \in Screen : screenOrder[c] \in Seq(Layer)
        BY <1>0
      <4>2. \A c \in Screen : screenOrder'[c] = Without(screenOrder[c], l)
        BY <2>3
      <4> QED BY <1>0, <4>1, <4>2, WithoutSet
    <3> QED BY <2>3, <3>1
  <2> HIDE DEF Screened
  <2> QED BY <2>1, <2>2, <2>3, ScreenOrderSteps
<1> QED BY <1>1, <1>2

-----------------------------------------------------------------------------
(***************************************************************************)
(* The events on their way.                                                 *)
(***************************************************************************)

(* An event of the surface is in the pipe: its handling will render it.     *)
Pending(s) == \E i \in DOMAIN pipe : pipe[i].id = s

(* A callback writes an event.                                              *)
LEMMA EventWritten ==
  ASSUME NEW p \in Seq(Event), NEW e \in Event
  PROVE  /\ Append(p, e) \in Seq(Event)
         /\ \A s : (\E i \in DOMAIN p : p[i].id = s) \/ s = e.id
                     => \E i \in DOMAIN Append(p, e) : Append(p, e)[i].id = s
<1> DEFINE q == Append(p, e)
<1>1. /\ q \in Seq(Event) /\ Len(q) = Len(p) + 1 /\ Len(p) \in Nat
      /\ \A i \in 1 .. Len(p) : q[i] = p[i]
      /\ q[Len(p) + 1] = e
      /\ DOMAIN p = 1 .. Len(p)
  BY AppendProperties, LenProperties
<1>2. DOMAIN q = 1 .. Len(p) + 1
  BY <1>1, LenProperties
<1> HIDE DEF q
<1>3. ASSUME NEW s, NEW i \in DOMAIN p, p[i].id = s
      PROVE  i \in DOMAIN q /\ q[i].id = s
  BY <1>1, <1>2, <1>3
<1>4. Len(p) + 1 \in DOMAIN q /\ q[Len(p) + 1].id = e.id
  BY <1>1, <1>2
<1>5. \A s : (\E i \in DOMAIN p : p[i].id = s) \/ s = e.id
               => \E i \in DOMAIN q : q[i].id = s
  BY <1>3, <1>4
<1> QED BY <1>1, <1>5 DEF q

(* The main loop reads the oldest event.                                    *)
LEMMA EventRead ==
  ASSUME NEW p \in Seq(Event), p # <<>>
  PROVE  /\ Tail(p) \in Seq(Event) /\ Head(p) \in Event
         /\ \A s : (\E i \in DOMAIN p : p[i].id = s) /\ s # Head(p).id
                     => \E i \in DOMAIN Tail(p) : Tail(p)[i].id = s
<1> DEFINE q == Tail(p)
           n == Len(p)
<1>1. /\ q \in Seq(Event) /\ Len(q) = n - 1 /\ n \in Nat
      /\ \A i \in 1 .. Len(q) : q[i] = p[i + 1]
      /\ DOMAIN p = 1 .. n /\ Head(p) = p[1] /\ Head(p) \in Event
  BY HeadTailProperties, LenProperties
<1>2. DOMAIN q = 1 .. n - 1
  BY <1>1, LenProperties
<1> HIDE DEF q, n
<1>3. ASSUME NEW s, NEW i \in DOMAIN p, p[i].id = s, s # Head(p).id
      PROVE  \E j \in DOMAIN q : q[j].id = s
  <2>1. i # 1
    BY <1>1, <1>3
  <2>2. i - 1 \in DOMAIN q /\ (i - 1) + 1 = i
    BY <1>1, <1>2, <2>1
  <2>3. q[i - 1] = p[i]
    BY <1>1, <1>2, <2>2
  <2> QED BY <1>3, <2>2, <2>3
<1> QED BY <1>1, <1>3 DEF q

(* Every element of a finite set is in every sequence of its elements.      *)
LEMMA SetToSeqsCovers ==
  ASSUME NEW S, IsFiniteSet(S), NEW q \in SetToSeqs(S), NEW s \in S
  PROVE  \E i \in DOMAIN q : q[i] = s
<1> DEFINE n == Cardinality(S)
<1>1. n \in Nat
  BY FS_CardinalityType
<1>2. /\ q \in [1 .. n -> S]
      /\ \A i, j \in 1 .. n : i # j => q[i] # q[j]
  BY DEF SetToSeqs
<1>3. q \in Injection(1 .. n, S)
  BY <1>2 DEF Injection, IsInjective
<1>4. Cardinality(1 .. n) = n
  BY <1>1, FS_Interval
<1>5. q \in Surjection(1 .. n, S)
  BY <1>3, <1>4, FS_Injection
<1> QED BY <1>2, <1>5 DEF Surjection

(* ilm_registerNotification announces what exists behind what is pending.   *)
LEMMA Announced ==
  ASSUME OrdersInv, Register
  PROVE  /\ pipe' \in Seq(Event)
         /\ \A s : Pending(s) => Pending(s)'
         /\ ReplayOnRegister => \A s \in alive : Pending(s)'
<1>1. pipe \in Seq(Event) /\ alive \subseteq Surface
  BY DEF OrdersInv, IlmTypeOK
<1>2. CASE ~ReplayOnRegister
  BY <1>1, <1>2 DEF Register, Pending
<1>3. CASE ReplayOnRegister
  <2>1. PICK q \in SetToSeqs(alive) :
          pipe' = pipe \o [i \in DOMAIN q |-> CreatedEvent(q[i])]
    BY <1>3 DEF Register
  <2>2. IsFiniteSet(alive)
    BY <1>1, FiniteAssumption, FS_Subset
  <2>3. q \in Seq(alive) /\ \A s \in alive : \E i \in DOMAIN q : q[i] = s
    BY <2>2, SetToSeqsShape, SetToSeqsCovers
  <2> DEFINE new == [i \in DOMAIN q |-> CreatedEvent(q[i])]
             n == Len(pipe)
             m == Len(q)
  <2>4. /\ DOMAIN q = 1 .. m /\ m \in Nat /\ n \in Nat /\ DOMAIN pipe = 1 .. n
        /\ \A i \in 1 .. m : q[i] \in Surface
    BY <1>1, <2>3, LenProperties, ElementOfSeq
  <2>5. new \in Seq(Event) /\ Len(new) = m
    <3>1. new \in [1 .. m -> Event]
      BY <2>4 DEF CreatedEvent, Event
    <3>2. new \in Seq(Event)
      BY <2>4, <3>1, SeqDef
    <3> QED BY <2>4, <3>1, <3>2, LenProperties
  <2>6. \A i \in 1 .. m : new[i].id = q[i]
    BY <2>4 DEF CreatedEvent
  <2> HIDE DEF new, n, m
  <2>7. /\ pipe' = pipe \o new /\ pipe' \in Seq(Event) /\ Len(pipe') = n + m
        /\ \A i \in 1 .. n + m : pipe'[i] = IF i <= n THEN pipe[i] ELSE new[i - n]
    BY <1>1, <2>1, <2>5, ConcatProperties DEF n, new
  <2>8. DOMAIN pipe' = 1 .. n + m
    BY <2>7, LenProperties
  <2>9. ASSUME NEW s, NEW i \in 1 .. n, pipe[i].id = s PROVE Pending(s)'
    <3>1. i \in 1 .. n + m /\ i <= n
      BY <2>4
    <3>2. i \in DOMAIN pipe' /\ pipe'[i].id = s
      BY <2>7, <2>8, <2>9, <3>1
    <3> QED BY <3>2 DEF Pending
  <2>10. ASSUME NEW s \in alive PROVE Pending(s)'
    <3>1. PICK j \in 1 .. m : q[j] = s
      BY <2>3, <2>4
    <3>2. n + j \in 1 .. n + m /\ ~(n + j <= n) /\ (n + j) - n = j
      BY <2>4
    <3>3. n + j \in DOMAIN pipe' /\ pipe'[n + j].id = s
      BY <2>6, <2>7, <2>8, <3>1, <3>2
    <3> QED BY <3>3 DEF Pending
  <2>11. \A s : Pending(s) => Pending(s)'
    BY <2>4, <2>9 DEF Pending
  <2> QED BY <2>7, <2>10, <2>11
<1> QED BY <1>2, <1>3

(* The creation of a surface of the tree: its configuration takes the place *)
(* of the event that is read.                                               *)
LEMMA CreatedRead ==
  ASSUME OrdersInv, HandleCreated
  PROVE  /\ pipe' \in Seq(Event)
         /\ \A s : Pending(s) /\ (s # Head(pipe).id \/ s \in registered \cap alive)
                     => Pending(s)'
<1> DEFINE s == Head(pipe).id
<1>1. pipe \in Seq(Event) /\ pipe # <<>>
  BY DEF OrdersInv, IlmTypeOK, HandleCreated
<1>2. /\ Tail(pipe) \in Seq(Event) /\ s \in Surface
      /\ \A t : Pending(t) /\ t # s
           => \E i \in DOMAIN Tail(pipe) : Tail(pipe)[i].id = t
  BY <1>1, EventRead DEF Pending, Event
<1>3. CASE s \in registered /\ s \in alive
  <2>1. pipe' = Append(Tail(pipe), ConfiguredEvent(s))
    BY <1>3 DEF HandleCreated
  <2>2. ConfiguredEvent(s) \in Event /\ ConfiguredEvent(s).id = s
    BY <1>2 DEF ConfiguredEvent, Event
  <2> HIDE DEF s
  <2>3. /\ pipe' \in Seq(Event)
        /\ \A t : (\E i \in DOMAIN Tail(pipe) : Tail(pipe)[i].id = t) \/ t = s
             => \E i \in DOMAIN pipe' : pipe'[i].id = t
    BY <1>2, <2>1, <2>2, EventWritten
  <2> QED BY <1>2, <2>3 DEF Pending
<1>4. CASE ~(s \in registered /\ s \in alive)
  <2>1. pipe' = Tail(pipe)
    BY <1>4 DEF HandleCreated
  <2>2. pipe' \in Seq(Event) /\ \A t : Pending(t) /\ t # s => Pending(t)'
    BY <1>2, <2>1 DEF Pending
  <2> QED BY <1>4, <2>2
<1> QED BY <1>3, <1>4

(* The configuration of a surface is read.                                  *)
LEMMA ConfiguredRead ==
  ASSUME OrdersInv, HandleConfigured
  PROVE  /\ pipe' \in Seq(Event)
         /\ \A s : Pending(s) /\ s # Head(pipe).id => Pending(s)'
<1>1. pipe \in Seq(Event) /\ pipe # <<>> /\ pipe' = Tail(pipe)
  BY DEF OrdersInv, IlmTypeOK, HandleConfigured
<1> QED BY <1>1, EventRead DEF Pending

(* Applications only add events, one for each surface they create once the  *)
(* callback is there.                                                       *)
LEMMA WorldWrites ==
  ASSUME OrdersInv, World
  PROVE  /\ pipe' \in Seq(Event)
         /\ \A s : Pending(s) => Pending(s)'
         /\ \A s \in alive' \ alive : listening => Pending(s)'
<1>1. /\ pipe \in Seq(Event) /\ alive \subseteq Surface /\ notified \subseteq alive
      /\ \A s \in Surface : CreatedEvent(s) \in Event /\ ConfiguredEvent(s) \in Event
      /\ \A s \in Surface : CreatedEvent(s).id = s /\ ConfiguredEvent(s).id = s
  BY DEF OrdersInv, IlmTypeOK, CreatedEvent, ConfiguredEvent, Event
<1> DEFINE Goal == /\ pipe' \in Seq(Event)
                   /\ \A s : Pending(s) => Pending(s)'
                   /\ \A s \in alive' \ alive : listening => Pending(s)'
<1>2. ASSUME pipe' = pipe, ~listening \/ alive' \subseteq alive PROVE Goal
  BY <1>1, <1>2 DEF Pending
<1>3. ASSUME NEW e \in Event, pipe' = Append(pipe, e),
             alive' \subseteq alive \cup {e.id}
      PROVE  Goal
  <2>1. pipe' \in Seq(Event) /\ \A t : Pending(t) \/ t = e.id => Pending(t)'
    BY <1>1, <1>3, EventWritten DEF Pending
  <2> QED BY <1>3, <2>1
<1>4. ASSUME NEW s \in Surface, SurfaceAppears(s) PROVE Goal
  BY <1>1, <1>2, <1>3, <1>4 DEF SurfaceAppears
<1>5. ASSUME NEW s \in Surface, SurfaceDisappears(s) PROVE Goal
  BY <1>2, <1>5 DEF SurfaceDisappears
<1>6. ASSUME NEW s \in Surface, SurfaceConfigures(s) PROVE Goal
  BY <1>1, <1>3, <1>6 DEF SurfaceConfigures
<1> HIDE DEF Goal
<1> QED BY <1>4, <1>5, <1>6 DEF World, Applications, Goal

(* An event stays until it is read.                                         *)
LEMMA PipeSteps ==
  ASSUME OrdersInv, [Next]_vars
  PROVE  /\ pipe' \in Seq(Event)
         /\ ~HandleCreated /\ ~HandleConfigured
              => \A s : Pending(s) => Pending(s)'
<1>1. pipe \in Seq(Event)
  BY DEF OrdersInv, IlmTypeOK
<1>2. CASE HandleCreated \/ HandleConfigured
  BY <1>2, CreatedRead, ConfiguredRead
<1>3. CASE World
  BY <1>3, WorldWrites
<1>4. CASE EndScreens \/ BuildUnknownScreen
  <2>1. pipe' = pipe \/ Register
    BY <1>4 DEF EndScreens, BuildUnknownScreen, ConfigDone
  <2> QED BY <1>1, <2>1, Announced DEF Pending
<1>5. CASE \/ NoCommand \/ UNCHANGED vars
           \/ \E c \in Commands : StartCommand(c)
           \/ StartInitialScreen
           \/ \E c \in Screen : BuildScreen(c)
           \/ \E c \in Screen, ins \in InsertInfo(Layer) : AddLayerScreen(c, ins)
           \/ \E ins \in InsertInfo(Surface) : AddSurfaceScreen(ins)
           \/ \E l \in Layer, look \in Look : AddLayer(l, look)
           \/ \E l \in Layer : RemoveLayer(l)
           \/ \E l \in Layer, look \in Look : ModifyLayer(l, look)
           \/ \E l \in Layer : EnterLayer(l)
           \/ \E s \in Surface, look \in Look, g \in Garbage : AddSurface(s, look, g)
           \/ \E s \in Surface, look \in Look : UpdateSurface(s, look)
           \/ \E s \in Surface : UpdateUnregistered(s)
           \/ \E s \in Surface : RemoveSurface(s)
           \/ \E s \in Surface, look \in Look : ModifySurface(s, look)
           \/ ModifyUnknownSurface \/ EndLayers \/ EndSurfaces \/ ReturnEarly
  <2>1. pipe' = pipe
    BY <1>5 DEF NoCommand, vars, StartCommand, StartInitialScreen,
      BuildScreen, AddLayerScreen, AddSurfaceScreen, AddLayer, RemoveLayer,
      ModifyLayer, EnterLayer, AddSurface, UpdateSurface, UpdateUnregistered,
      RemoveSurface, ModifySurface, ModifyUnknownSurface, EndLayers,
      EndSurfaces, ReturnEarly, ilmVars
  <2> QED BY <1>1, <2>1 DEF Pending
<1> QED BY <1>2, <1>3, <1>4, <1>5 DEF Next, Main, EndOfArray

(* The controller's objects have their types, and callbacks are registered  *)
(* for surfaces that exist.                                                 *)
ObjectsOK ==
  /\ alive \subseteq Surface
  /\ ilmLayers \subseteq Layer
  /\ surfaceLook \in [Surface -> Look \cup {NoLook}]
  /\ layerLook \in [Layer -> Look \cup {NoLook}]
  /\ notified \subseteq alive
  /\ listening \in BOOLEAN

LEMMA ObjectsStep ==
  ASSUME TypeOK, ObjectsOK, pipe \in Seq(Event), [Next]_vars
  PROVE  ObjectsOK'
<1>0. /\ alive \subseteq Surface /\ ilmLayers \subseteq Layer
      /\ surfaceLook \in [Surface -> Look \cup {NoLook}]
      /\ layerLook \in [Layer -> Look \cup {NoLook}]
      /\ notified \subseteq alive /\ listening \in BOOLEAN
      /\ propLook \in [Surface -> Look \cup {NoLook}]
      /\ layerProp \in [Layer -> Look \cup {NoLook}]
  BY DEF TypeOK, ObjectsOK
<1> USE DEF treeVars, propVars, loopVars
<1>1. ASSUME NEW s \in Surface, NEW look \in Look \cup {NoLook},
             SetSurface(s, look),
             UNCHANGED <<alive, ilmLayers, layerLook, listening>>
      PROVE  ObjectsOK'
  BY <1>0, <1>1 DEF SetSurface, ObjectsOK
<1>2. ASSUME NEW L \in SUBSET Layer, NEW look, SetLayers(L, look),
             \A l \in L : look[l] \in Look \cup {NoLook},
             UNCHANGED <<alive, surfaceLook, notified, listening>>
      PROVE  ObjectsOK'
  BY <1>0, <1>2 DEF SetLayers, ObjectsOK
<1>3. ASSUME alive' = alive, notified' \subseteq notified \cup alive,
             listening' \in {listening, TRUE},
             UNCHANGED <<ilmLayers, surfaceLook, layerLook>>
      PROVE  ObjectsOK'
  BY <1>0, <1>3 DEF ObjectsOK
<1>4. CASE HandleConfigured
  <2>1. CASE UNCHANGED <<surfaceLook, notified>>
    BY <1>3, <1>4, <2>1 DEF HandleConfigured
  <2>2. CASE SetSurface(Head(pipe).id, propLook[Head(pipe).id])
    <3>1. Head(pipe).id \in Surface
      <4>1. pipe \in Seq(Event) /\ pipe # <<>>
        BY <1>4 DEF HandleConfigured
      <4>2. Head(pipe) \in Event
        BY <4>1, HeadTailProperties
      <4> QED BY <4>2 DEF Event
    <3>2. UNCHANGED <<alive, ilmLayers, layerLook, listening>>
      BY <1>4 DEF HandleConfigured
    <3> QED BY <1>0, <1>1, <2>2, <3>1, <3>2
  <2> QED BY <1>4, <2>1, <2>2 DEF HandleConfigured, ShowSurface
<1>5. CASE EndLayers
  <2>1. CASE pc = "layers" /\ cmd \in Building \cup {"add_layer"}
    <3> DEFINE L == ToSet(layers[ctx.screen])
    <3>1. L \in SUBSET Layer
      BY <2>1, MembersTyped DEF TypeOK
    <3>2. SetLayers(L, layerProp) /\ UNCHANGED <<alive, surfaceLook, notified, listening>>
      <4>1. cmd \notin {"add_surface", "remove_layer", "modify_layer", "remove_surface"}
        BY <2>1 DEF Building
      <4> QED BY <1>5, <4>1 DEF EndLayers
    <3> HIDE DEF L
    <3> QED BY <1>0, <1>2, <3>1, <3>2
  <2>2. CASE ~(pc = "layers" /\ cmd \in Building \cup {"add_layer"})
    BY <1>3, <1>5, <2>2 DEF EndLayers
  <2> QED BY <2>1, <2>2
<1>6. ASSUME NEW l \in Layer, NEW look \in Look, AddLayer(l, look) PROVE ObjectsOK'
  <2>1. /\ SetLayers({l}, [k \in {l} |-> look])
        /\ UNCHANGED <<alive, surfaceLook, notified, listening>>
    BY <1>6 DEF AddLayer
  <2>2. {l} \in SUBSET Layer /\ \A k \in {l} : [j \in {l} |-> look][k] \in Look
    OBVIOUS
  <2> QED BY <1>2, <2>1, <2>2
<1>7. ASSUME NEW l \in Layer, NEW look \in Look, ModifyLayer(l, look) PROVE ObjectsOK'
  <2>1. /\ SetLayers({l}, [k \in {l} |-> look])
        /\ UNCHANGED <<alive, surfaceLook, notified, listening>>
    BY <1>7 DEF ModifyLayer
  <2>2. {l} \in SUBSET Layer /\ \A k \in {l} : [j \in {l} |-> look][k] \in Look
    OBVIOUS
  <2> QED BY <1>2, <2>1, <2>2
<1>8. ASSUME NEW l \in Layer, RemoveLayer(l) PROVE ObjectsOK'
  BY <1>0, <1>8 DEF RemoveLayer, DestroyLayer, ObjectsOK
<1>9. ASSUME NEW s \in Surface, NEW look \in Look, NEW g \in Garbage,
             AddSurface(s, look, g)
      PROVE  ObjectsOK'
  BY <1>1, <1>9 DEF AddSurface
<1>10. ASSUME NEW s \in Surface, NEW look \in Look, UpdateSurface(s, look)
       PROVE  ObjectsOK'
  BY <1>1, <1>10 DEF UpdateSurface
<1>11. ASSUME NEW s \in Surface, NEW look \in Look, ModifySurface(s, look)
       PROVE  ObjectsOK'
  BY <1>1, <1>11 DEF ModifySurface
<1>12. ASSUME NEW s \in Surface, RemoveSurface(s) PROVE ObjectsOK'
  BY <1>3, <1>12 DEF RemoveSurface, TakeOffLayer
<1>13. CASE World
  BY <1>0, <1>13 DEF World, Applications, SurfaceAppears, SurfaceDisappears,
                     SurfaceConfigures, ObjectsOK
<1>14. CASE \/ HandleCreated \/ NoCommand \/ UNCHANGED vars
            \/ \E c \in Commands : StartCommand(c)
            \/ StartInitialScreen
            \/ \E c \in Screen : BuildScreen(c)
            \/ BuildUnknownScreen
            \/ \E c \in Screen, ins \in InsertInfo(Layer) : AddLayerScreen(c, ins)
            \/ \E ins \in InsertInfo(Surface) : AddSurfaceScreen(ins)
            \/ \E l \in Layer : EnterLayer(l)
            \/ \E s \in Surface : UpdateUnregistered(s)
            \/ ModifyUnknownSurface \/ EndScreens \/ EndSurfaces \/ ReturnEarly
  <2>1. /\ alive' = alive /\ UNCHANGED <<ilmLayers, surfaceLook, layerLook>>
        /\ listening' \in {listening, TRUE} /\ notified' \subseteq notified \cup alive
    BY <1>14
    DEF HandleCreated, NoCommand, vars, StartCommand, StartInitialScreen,
        BuildScreen, BuildUnknownScreen, AddLayerScreen, AddSurfaceScreen,
        EnterLayer, UpdateUnregistered, ModifyUnknownSurface, EndScreens,
        EndSurfaces, ReturnEarly, ConfigDone, Register, ilmVars
  <2> QED BY <1>3, <2>1
<1> QED
  BY <1>4, <1>5, <1>6, <1>7, <1>8, <1>9, <1>10, <1>11, <1>12, <1>13, <1>14
  DEF Next, Main, EndOfArray

-----------------------------------------------------------------------------
(***************************************************************************)
(* The element at hand.                                                     *)
(***************************************************************************)

(* Steps that leave the tree and the callback alone.                        *)
LEMMA WorkQuiet ==
  ASSUME WorkInv, UNCHANGED <<layers, surfaces>>, listening => listening',
         cmd' # "config" => listening',
         pc' \in {"poll", "client"} => cmd' = "idle",
         pc' = "surfaces" /\ cmd' \in {"add_surface", "remove_surface"}
           => Placed(ctx'.layer),
         pc' = "surfaces" /\ cmd' \in Building
           => ctx'.layer \in ToSet(layers[ctx'.screen]),
         pc' \in {"layers", "surfaces"} /\ cmd' \in Building
           => ctx'.order = AppendTail
  PROVE  WorkInv'
BY DEF WorkInv, Placed

(* The handlers find and keep the element they work on.                     *)
LEMMA WorkStep ==
  ASSUME TypeOK, TypeOK', TreePart, LoopObjects, WorkInv, [Next]_vars
  PROVE  WorkInv'
<1> USE DEF treeVars, propVars, loopVars, ilmVars
<1>0. \A l \in Layer : surfaces[l] # <<>> => Placed(l)
  BY DEF WorkInv
<1>1. CASE HandleCreated \/ HandleConfigured \/ NoCommand \/ World \/ UNCHANGED vars
  <2>1. UNCHANGED <<layers, surfaces, cmd, ctx, listening>>
    BY <1>1 DEF HandleCreated, HandleConfigured, NoCommand, World, Applications,
          SurfaceAppears, SurfaceDisappears, SurfaceConfigures, vars
  <2>2. pc' = pc \/ (pc \in {"poll", "client"} /\ pc' \in {"poll", "client"})
    BY <1>1 DEF HandleCreated, HandleConfigured, NoCommand, World, vars
  <2> QED BY <2>1, <2>2, WorkQuiet DEF WorkInv, Placed
<1>2. ASSUME NEW c \in Commands, StartCommand(c) PROVE WorkInv'
  <2>1. pc \in {"poll", "client"} /\ UNCHANGED <<layers, surfaces, ctx, listening>>
    BY <1>2 DEF StartCommand, AtClient
  <2>2. c \in AllCommands /\ c # "initial_screen" /\ cmd' = c
    BY <1>2, CommandAssumption DEF StartCommand
  <2>3. pc' # "surfaces" \/ c = "modify_surface"
    BY <1>2, <2>2 DEF StartCommand, AllCommands
  <2>4. pc' \in {"screens", "layers", "surfaces"}
    BY <1>2 DEF StartCommand
  <2> QED BY <2>1, <2>2, <2>3, <2>4, WorkQuiet DEF WorkInv, Building, AllCommands
<1>3. CASE StartInitialScreen
  <2>1. pc' = "screens" /\ cmd' = "initial_screen" /\ listening' = listening
        /\ \A l \in Layer : surfaces'[l] = <<>>
    BY <1>3 DEF StartInitialScreen
  <2>2. listening
    BY <1>3 DEF StartInitialScreen, AtClient, WorkInv
  <2> QED BY <2>1, <2>2 DEF WorkInv
<1>4. CASE BuildUnknownScreen \/ EndScreens
  <2>1. UNCHANGED <<layers, surfaces>> /\ pc' = "poll" /\ cmd' = "idle"
    BY <1>4 DEF BuildUnknownScreen, EndScreens, ConfigDone, Return
  <2>2. listening'
    BY <1>4 DEF BuildUnknownScreen, EndScreens, ConfigDone, Register, WorkInv, Building
  <2> QED BY <2>1, <2>2, WorkQuiet DEF Building
<1>5. ASSUME NEW c \in Screen, BuildScreen(c) PROVE WorkInv'
  <2>1. UNCHANGED <<layers, surfaces, cmd, listening>> /\ pc' = "layers"
        /\ ctx' = [NoCtx EXCEPT !.screen = c]
    BY <1>5 DEF BuildScreen, Loop
  <2>2. ctx'.order = AppendTail
    BY <2>1 DEF NoCtx
  <2> QED BY <2>1, <2>2, WorkQuiet DEF WorkInv
<1>6. CASE \/ \E c \in Screen, ins \in InsertInfo(Layer) : AddLayerScreen(c, ins)
           \/ \E ins \in InsertInfo(Surface) : AddSurfaceScreen(ins)
  <2>1. UNCHANGED <<layers, surfaces, cmd, listening>> /\ pc' = "layers"
        /\ cmd \in {"add_layer", "add_surface"}
    BY <1>6 DEF AddLayerScreen, AddSurfaceScreen, Loop
  <2> QED BY <2>1, WorkQuiet DEF WorkInv, Building
<1>7. ASSUME NEW l \in Layer, NEW look \in Look, AddLayer(l, look) PROVE WorkInv'
  <2> DEFINE c == ctx.screen
  <2>1. /\ pc = "layers" /\ cmd \in Building \cup {"add_layer"}
        /\ listening' = listening
    BY <1>7 DEF AddLayer
  <2>2. /\ c \in Screen
        /\ \A d \in Screen : ToSet(layers'[d]) =
             (ToSet(layers[d]) \ {l})
               \cup (IF d = c /\ ctx.order # NoOrder THEN {l} ELSE {})
    BY <1>7, AddLayerSets
  <2>5. \A k \in Layer : k # l /\ Placed(k) => Placed(k)'
    BY <2>2 DEF Placed
  <2>6. ctx.order # NoOrder => Placed(l)' /\ l \in ToSet(layers'[c])
    BY <2>2 DEF Placed
  <2>7. \A k \in Layer : surfaces'[k] # <<>> => Placed(k)'
    <3>1. CASE ctx.order = NoOrder
      <4>1. surfaces' = [surfaces EXCEPT ![l] = <<>>]
        BY <1>7, <3>1 DEF AddLayer
      <4>2. \A k \in Layer : surfaces'[k] = IF k = l THEN <<>> ELSE surfaces[k]
        BY <4>1 DEF TypeOK
      <4> QED BY <1>0, <2>5, <4>2
    <3>2. CASE ctx.order # NoOrder
      <4>1. surfaces' = surfaces
        BY <1>7, <3>2 DEF AddLayer
      <4> QED BY <1>0, <2>5, <2>6, <3>2, <4>1
    <3> QED BY <3>1, <3>2
  <2>8. CASE cmd \in Building
    <3>1. pc' = "surfaces" /\ cmd' = cmd /\ ctx' = [ctx EXCEPT !.layer = l]
      BY <1>7, <2>8 DEF AddLayer, Loop
    <3>2. ctx'.screen = c /\ ctx'.layer = l /\ ctx'.order = ctx.order
      BY <3>1 DEF TypeOK
    <3>3. ctx.order = AppendTail /\ ctx.order # NoOrder
      BY <2>1, <2>8 DEF WorkInv, AppendTail, NoOrder
    <3> HIDE DEF c
    <3>4. cmd # "config" => listening'
      BY <2>1 DEF WorkInv
    <3> QED BY <2>6, <2>7, <2>8, <3>1, <3>2, <3>3, <3>4 DEF WorkInv, Building
  <2>9. CASE cmd \notin Building
    <3>1. UNCHANGED <<pc, cmd, ctx>>
      BY <1>7, <2>9 DEF AddLayer
    <3> QED BY <2>1, <2>7, <2>9, <3>1 DEF WorkInv
  <2> QED BY <2>8, <2>9
<1>8. ASSUME NEW l \in Layer, RemoveLayer(l) PROVE WorkInv'
  <2>1. /\ pc' = "layers" /\ cmd' = "remove_layer" /\ listening' = listening
        /\ cmd = "remove_layer" /\ pc = "layers"
    BY <1>8 DEF RemoveLayer
  <2>2. CASE ~InTree(l)
    <3>1. UNCHANGED <<layers, surfaces>>
      BY <1>8, <2>2 DEF RemoveLayer
    <3> QED BY <2>1, <3>1 DEF WorkInv, Building, Placed
  <2>3. CASE InTree(l)
    <3>1. layers' = PopLayer(l) /\ surfaces' = [surfaces EXCEPT ![l] = <<>>]
      BY <1>8, <2>3 DEF RemoveLayer
    <3>2. \A d \in Screen : ToSet(layers'[d]) = ToSet(layers[d]) \ {l}
      BY <1>8, RemoveLayerSets
    <3>3. \A k \in Layer : surfaces'[k] = IF k = l THEN <<>> ELSE surfaces[k]
      BY <3>1 DEF TypeOK
    <3>4. \A k \in Layer : surfaces'[k] # <<>> => Placed(k)'
      BY <1>0, <3>2, <3>3 DEF Placed
    <3> QED BY <2>1, <3>4 DEF WorkInv, Building
  <2> QED BY <2>2, <2>3
<1>9. ASSUME NEW l \in Layer, NEW look \in Look, ModifyLayer(l, look) PROVE WorkInv'
  BY <1>9 DEF ModifyLayer, WorkInv, Placed
<1>10. ASSUME NEW l \in Layer, EnterLayer(l) PROVE WorkInv'
  <2>1. /\ UNCHANGED <<layers, surfaces, cmd, listening>> /\ pc' = "surfaces"
        /\ cmd \in {"add_surface", "remove_surface"} /\ ctx'.layer = l
    BY <1>10 DEF EnterLayer, Loop, TypeOK
  <2>2. Placed(l)
    BY <1>10, PlacedInTree DEF EnterLayer, TreePart
  <2> QED BY <2>1, <2>2, WorkQuiet DEF WorkInv, Building
<1>11. ASSUME NEW l \in Layer, Placed(l), NEW list,
              surfaces' = [surfaces EXCEPT ![l] = list],
              UNCHANGED <<layers, pc, cmd, ctx, listening>>
       PROVE  WorkInv'
  <2>1. \A k \in Layer : surfaces'[k] = IF k = l THEN list ELSE surfaces[k]
    BY <1>11 DEF TypeOK
  <2> QED BY <1>11, <2>1 DEF WorkInv, Placed
<1>12. CASE \/ \E s \in Surface, look \in Look, g \in Garbage : AddSurface(s, look, g)
            \/ \E s \in Surface, look \in Look : UpdateSurface(s, look)
            \/ \E s \in Surface : RemoveSurface(s)
  <2>1. /\ pc = "surfaces" /\ cmd # "modify_surface"
        /\ UNCHANGED <<layers, pc, cmd, ctx, listening>>
        /\ \E list : surfaces' = [surfaces EXCEPT ![ctx.layer] = list]
        /\ cmd \in Building \cup {"add_surface", "remove_surface"}
    BY <1>12 DEF AddSurface, UpdateSurface, RemoveSurface, AddsSurfaces, Building
  <2>2. ctx.layer \in Layer
    BY <2>1 DEF TypeOK
  <2>3. Placed(ctx.layer)
    BY <2>1 DEF WorkInv, Placed, TypeOK
  <2> QED BY <1>11, <2>1, <2>2, <2>3
<1>13. CASE \/ \E s \in Surface : UpdateUnregistered(s)
            \/ \E s \in Surface, look \in Look : ModifySurface(s, look)
  BY <1>13 DEF UpdateUnregistered, ModifySurface, WorkInv, Placed
<1>14. CASE EndLayers \/ EndSurfaces \/ ModifyUnknownSurface \/ ReturnEarly
  <2>1. UNCHANGED <<layers, surfaces, listening>>
    BY <1>14 DEF EndLayers, EndSurfaces, ModifyUnknownSurface, ReturnEarly
  <2>2. \/ pc' = "poll" /\ cmd' = "idle" /\ cmd # "config"
        \/ pc' = "screens" /\ cmd' = cmd
        \/ /\ pc' = "layers" /\ cmd' = cmd /\ pc = "surfaces"
           /\ ctx' = [ctx EXCEPT !.layer = NoId]
    BY <1>14 DEF EndLayers, EndSurfaces, ModifyUnknownSurface, ReturnEarly, Return,
                 Loop, Building
  <2>3. [ctx EXCEPT !.layer = NoId].order = ctx.order
    BY DEF TypeOK
  <2> QED BY <2>1, <2>2, <2>3, WorkQuiet DEF WorkInv, Building
<1> QED BY <1>1, <1>2, <1>3, <1>4, <1>5, <1>6, <1>7, <1>8, <1>9, <1>10, <1>12,
           <1>13, <1>14 DEF Next, Main, EndOfArray

-----------------------------------------------------------------------------
(***************************************************************************)
(* What holds of the display whatever the messages leave out.               *)
(***************************************************************************)

BaseInv == TreeInv /\ OrdersInv /\ WorkInv

LEMMA BaseParts ==
  ASSUME BaseInv
  PROVE  /\ TypeOK /\ TreePart /\ LoopObjects /\ OrdersInv /\ WorkInv
         /\ TreeShape /\ LayersListed /\ IlmTypeOK
BY DEF BaseInv, TreeInv, TreePart, OrdersInv

LEMMA BaseInit == Init => BaseInv
<1> SUFFICES ASSUME Init PROVE BaseInv
  OBVIOUS
<1>1. TreeInv
  BY TreeInit
<1>2. OrdersInv
  BY EmptySequence DEF Init, IlmInit, OrdersInv, IlmTypeOK
<1>3. WorkInv
  BY DEF Init, WorkInv
<1> QED BY <1>1, <1>2, <1>3 DEF BaseInv

LEMMA BaseStep == BaseInv /\ [Next]_vars => BaseInv'
<1> SUFFICES ASSUME BaseInv, [Next]_vars PROVE BaseInv'
  OBVIOUS
<1>1. TypeOK /\ TreePart /\ LoopObjects /\ OrdersInv /\ WorkInv /\ IlmTypeOK
  BY BaseParts
<1>2. TreeInv' /\ TypeOK'
  BY TreeInvStep DEF BaseInv, TreeInv
<1>3. WorkInv'
  BY <1>1, <1>2, WorkStep
<1>4. /\ layerOrder' \in [Layer -> Seq(Surface)]
      /\ \A l \in Layer : /\ IsInjective(layerOrder'[l])
                          /\ ToSet(layerOrder'[l]) \subseteq alive'
      /\ screenOrder' \in [Screen -> Seq(Layer)]
      /\ \A c \in Screen : IsInjective(screenOrder'[c])
  BY <1>1, OrdersStep
<1>5. ObjectsOK'
  BY <1>1, ObjectsStep DEF IlmTypeOK, ObjectsOK
<1>6. pipe' \in Seq(Event)
  BY <1>1, PipeSteps
<1>7. OrdersInv'
  BY <1>4, <1>5, <1>6 DEF OrdersInv, IlmTypeOK, ObjectsOK
<1> QED BY <1>2, <1>3, <1>7 DEF BaseInv

LEMMA BaseInvariant == Spec => []BaseInv
BY BaseInit, BaseStep, PTL DEF Spec

(* The controller's state has its types: the render orders that            *)
(* wrap_ilm_add_surfaces_to_layer and wrap_ilm_add_layer_to_screen ask for  *)
(* are lists of surfaces and of layers, events name surfaces, and only a    *)
(* surface that exists has a property callback.                             *)
THEOREM IlmTypeCorrect == Spec => []IlmTypeOK
<1>1. BaseInv => IlmTypeOK
  BY BaseParts
<1> QED BY <1>1, BaseInvariant, PTL

(* No step adds anything to the display of a screen or of a layer that is   *)
(* not in the tree, although initial_screen leaves both at the controller.  *)
THEOREM GhostsFade == Spec => GhostsOnlyFade
<1> DEFINE Fade ==
      /\ \A c \in Screen \ (ToSet(screens) \cup ToSet(screens')) :
           ToSet(screenOrder'[c]) \subseteq ToSet(screenOrder[c])
      /\ \A l \in Layer :
           ~InTree(l) /\ ~InTree(l)' =>
             ToSet(layerOrder'[l]) \subseteq ToSet(layerOrder[l])
<1>1. ASSUME BaseInv, [Next]_vars PROVE Fade
  <2>1. /\ TypeOK /\ TreePart /\ LoopObjects /\ OrdersInv /\ WorkInv
        /\ LayersListed
    BY <1>1, BaseParts
  <2>2. /\ layerOrder \in [Layer -> Seq(Surface)]
        /\ screenOrder \in [Screen -> Seq(Layer)]
    BY <2>1 DEF OrdersInv, IlmTypeOK
  <2>3. ASSUME NEW c \in Screen \ ToSet(screens)
        PROVE  ToSet(screenOrder'[c]) \subseteq ToSet(screenOrder[c])
    <3>0. screenOrder[c] \in Seq(Layer)
      BY <2>2
    <3>1. \A S : ToSet(Kept(screenOrder[c], S)) \subseteq ToSet(screenOrder[c])
      BY <3>0, KeptSet
    <3>2. CASE screenOrder' = screenOrder
      BY <3>2
    <3>3. ASSUME NEW d \in ToSet(screens), RenderLayers(d, layers[d])
          PROVE  ToSet(screenOrder'[c]) \subseteq ToSet(screenOrder[c])
      BY <2>3, <3>1, <3>3 DEF RenderLayers
    <3>4. ASSUME NEW l \in Layer,
                 screenOrder' = [d \in Screen |-> Without(screenOrder[d], l)]
          PROVE  ToSet(screenOrder'[c]) \subseteq ToSet(screenOrder[c])
      BY <3>1, <3>4 DEF Without
    <3> QED BY <1>1, <2>1, <3>2, <3>3, <3>4, ScreenOrderSteps
  <2>4. ASSUME NEW l \in Layer, ~Placed(l)
        PROVE  ToSet(layerOrder'[l]) \subseteq ToSet(layerOrder[l])
    <3>0. layerOrder[l] \in Seq(Surface)
      BY <2>2
    <3>1. \A s : ToSet(Without(layerOrder[l], s)) \subseteq ToSet(layerOrder[l])
      BY <3>0, WithoutSet
    <3>2. CASE layerOrder' = layerOrder
      BY <3>2
    <3>3. ASSUME NEW L \in SUBSET Layer, RenderSurfaces(L, surfaces),
                 \A k \in L : Placed(k)
          PROVE  ToSet(layerOrder'[l]) \subseteq ToSet(layerOrder[l])
      BY <2>4, <3>3 DEF RenderSurfaces
    <3>4. ASSUME NEW s \in Surface,
                 layerOrder' = [k \in Layer |-> Without(layerOrder[k], s)]
          PROVE  ToSet(layerOrder'[l]) \subseteq ToSet(layerOrder[l])
      BY <3>1, <3>4
    <3>5. ASSUME NEW k \in Layer, NEW s \in Surface,
                 layerOrder' = [layerOrder EXCEPT ![k] = Without(@, s)]
          PROVE  ToSet(layerOrder'[l]) \subseteq ToSet(layerOrder[l])
      BY <2>2, <3>1, <3>5
    <3>6. ASSUME NEW k \in Layer, layerOrder' = [layerOrder EXCEPT ![k] = <<>>]
          PROVE  ToSet(layerOrder'[l]) \subseteq ToSet(layerOrder[l])
      BY <2>2, <3>6, EmptySequence
    <3> QED BY <1>1, <2>1, <3>2, <3>3, <3>4, <3>5, <3>6, LayerOrderSteps
  <2> QED BY <2>1, <2>3, <2>4, PlacedInTree
<1>2. BaseInv /\ [Next]_vars => [Fade]_vars
  BY <1>1
<1> HIDE DEF Fade
<1>3. Spec => [][Fade]_vars
  BY <1>2, BaseInvariant, PTL DEF Spec
<1> QED BY <1>3 DEF GhostsOnlyFade, Fade

-----------------------------------------------------------------------------
(***************************************************************************)
(* What is on a layer.  While a handler is at work on a screen or a layer,  *)
(* the tree is ahead of the display there; everywhere else a step either    *)
(* leaves a layer of the tree alone, or changes tree and display together.  *)
(***************************************************************************)

(* config, initial_screen or add_layer is between the start and the end of  *)
(* the layers of a screen.                                                  *)
BuildsScreen ==
  \/ pc = "layers" /\ cmd \in Building \cup {"add_layer"}
  \/ pc = "surfaces" /\ cmd \in Building

(* The layer will be rendered at the end of the array at hand.              *)
InWork(l) ==
  \/ BuildsScreen /\ l \in ToSet(layers[ctx.screen])
  \/ pc = "surfaces" /\ cmd = "add_surface" /\ l = ctx.layer

(* The four things that can happen to a layer of the tree.                  *)
Untouched(l) ==
  /\ Placed(l) /\ ~InWork(l)
  /\ surfaces'[l] = surfaces[l]
  /\ layerOrder'[l] = layerOrder[l]
  /\ alive \subseteq alive'
  /\ HandleConfigured =>
       Head(pipe).id \notin ToSet(surfaces[l]) \/ Head(pipe).id \notin registered

Rendered(l) ==
  /\ surfaces'[l] = surfaces[l]
  /\ layerOrder'[l] = Kept(surfaces[l], alive)
  /\ alive' = alive
  /\ ~HandleCreated

LosesSurface(l) ==
  /\ Placed(l) /\ ~InWork(l)
  /\ surfaces'[l] = surfaces[l]
  /\ \E s \in Surface : /\ alive' = alive \ {s}
                        /\ layerOrder'[l] = Without(layerOrder[l], s)
  /\ ~HandleCreated /\ ~HandleConfigured

DropsSurface(l) ==
  /\ Placed(l) /\ ~InWork(l)
  /\ alive' = alive
  /\ \E s \in Surface :
       /\ surfaces'[l] = PopElement(surfaces[l], s)
       /\ layerOrder'[l] = IF s \in alive THEN Without(layerOrder[l], s)
                                          ELSE layerOrder[l]
  /\ ~HandleCreated /\ ~HandleConfigured

LayerSteps(l) ==
  Untouched(l) \/ Rendered(l) \/ LosesSurface(l) \/ DropsSurface(l)

(* An event of a surface that is on a layer of the tree renders the layer.  *)
LEMMA EventLayers ==
  ASSUME BaseInv, HandleCreated \/ HandleConfigured, NEW l \in Layer, Placed(l)'
  PROVE  LayerSteps(l)
<1> USE DEF treeVars, propVars, loopVars, ilmVars
<1>1. /\ pc = "poll" /\ pc' = "client"
      /\ UNCHANGED <<layers, surfaces>> /\ alive' = alive
  BY DEF HandleCreated, HandleConfigured
<1>2. Placed(l) /\ ~InWork(l)
  BY <1>1 DEF Placed, InWork, BuildsScreen
<1>3. CASE HandleCreated
  <2>1. layerOrder' = layerOrder /\ ~HandleConfigured
    BY <1>3 DEF HandleCreated, HandleConfigured
  <2> QED BY <1>1, <1>2, <2>1 DEF LayerSteps, Untouched
<1>4. CASE HandleConfigured
  <2> DEFINE s == Head(pipe).id
             on == {k \in LayersOf(s) : InTree(k)}
  <2>1. ~HandleCreated
    BY <1>4 DEF HandleCreated, HandleConfigured
  <2>2. s \in ToSet(surfaces[l]) <=> l \in on
    <3>1. TypeOK /\ LayersListed
      BY BaseParts
    <3>2. s \in Surface
      <4>1. pipe \in Seq(Event) /\ pipe # <<>>
        BY <1>4, BaseParts DEF HandleConfigured, IlmTypeOK
      <4>2. Head(pipe) \in Event
        BY <4>1, HeadTailProperties
      <4> QED BY <4>2 DEF Event
    <3>3. InTree(l)
      BY <1>2, <3>1, PlacedInTree
    <3> HIDE DEF s
    <3> QED BY <3>1, <3>2, <3>3, OnLayer
  <2>3. CASE layerOrder' = layerOrder /\ (on = {} \/ s \notin registered)
    BY <1>1, <1>2, <2>2, <2>3 DEF LayerSteps, Untouched
  <2>4. CASE RenderSurfaces(on, surfaces)
    <3>1. layerOrder'[l] = IF l \in on THEN Kept(surfaces[l], alive)
                                       ELSE layerOrder[l]
      BY <2>4 DEF RenderSurfaces, Existing
    <3> QED BY <1>1, <1>2, <2>1, <2>2, <3>1 DEF LayerSteps, Untouched, Rendered
  <2> QED BY <1>4, <2>3, <2>4 DEF HandleConfigured, ShowSurface
<1> QED BY <1>3, <1>4

(* Handlers start with nothing in work, and stop without leaving any.       *)
LEMMA ControlLayers ==
  ASSUME ~Malformed, BaseInv, NEW l \in Layer, Placed(l)', ~InWork(l)',
         \/ NoCommand \/ World \/ UNCHANGED vars
         \/ \E c \in Commands : StartCommand(c)
         \/ StartInitialScreen
         \/ \E c \in Screen : BuildScreen(c)
         \/ BuildUnknownScreen
         \/ \E c \in Screen, ins \in InsertInfo(Layer) : AddLayerScreen(c, ins)
         \/ \E ins \in InsertInfo(Surface) : AddSurfaceScreen(ins)
         \/ \E k \in Layer : EnterLayer(k)
         \/ ModifyUnknownSurface \/ EndScreens \/ ReturnEarly
  PROVE  LayerSteps(l)
<1> USE DEF treeVars, propVars, loopVars, ilmVars
<1>1. CASE StartInitialScreen
  BY <1>1 DEF StartInitialScreen, Placed, ToSet
<1>2. CASE World
  <2>1. UNCHANGED <<layers, surfaces, pc, cmd, ctx>> /\ ~HandleCreated /\ ~HandleConfigured
    BY <1>2 DEF World, HandleCreated, HandleConfigured
  <2>2. Placed(l) /\ ~InWork(l)
    BY <2>1 DEF Placed, InWork, BuildsScreen
  <2>3. \/ alive \subseteq alive' /\ layerOrder' = layerOrder
        \/ \E s \in Surface : /\ alive' = alive \ {s}
                              /\ layerOrder'[l] = Without(layerOrder[l], s)
    BY <1>2 DEF World, Applications, SurfaceAppears, SurfaceDisappears,
                SurfaceConfigures
  <2> QED BY <2>1, <2>2, <2>3 DEF LayerSteps, Untouched, LosesSurface
<1>3. CASE ~StartInitialScreen /\ ~World
  <2>1. UNCHANGED <<layers, surfaces, alive, layerOrder>>
    BY <1>3 DEF NoCommand, vars, StartCommand, BuildScreen, BuildUnknownScreen,
      AddLayerScreen, AddSurfaceScreen, EnterLayer, ModifyUnknownSurface,
      EndScreens, ReturnEarly
  <2>2. ~(pc = "poll" /\ pc' = "client")
    BY <1>3 DEF NoCommand, vars, StartCommand, BuildScreen, BuildUnknownScreen,
      AddLayerScreen, AddSurfaceScreen, EnterLayer, ModifyUnknownSurface,
      EndScreens, ReturnEarly, Loop, Return, ConfigDone
  <2>3. ~InWork(l) \/ UNCHANGED <<pc, cmd, ctx>>
    BY <1>3 DEF NoCommand, vars, StartCommand, AtClient, BuildScreen,
      BuildUnknownScreen, AddLayerScreen, AddSurfaceScreen, EnterLayer,
      ModifyUnknownSurface, EndScreens, ReturnEarly, InWork, BuildsScreen, Building
  <2>4. Placed(l) /\ ~InWork(l)
    BY <2>1, <2>3 DEF Placed, InWork, BuildsScreen
  <2> QED BY <2>1, <2>2, <2>4 DEF LayerSteps, Untouched, HandleConfigured
<1> QED BY <1>1, <1>2, <1>3

(* The ends of arrays render what was in work.                              *)
LEMMA EndLayersSteps ==
  ASSUME BaseInv, NEW l \in Layer, Placed(l)', ~InWork(l)', EndLayers \/ EndSurfaces
  PROVE  LayerSteps(l)
<1> USE DEF treeVars, propVars, loopVars, ilmVars
<1>1. /\ UNCHANGED <<layers, surfaces>> /\ alive' = alive
      /\ pc # "poll" /\ Placed(l)
      /\ ~HandleCreated /\ ~HandleConfigured
  BY DEF EndLayers, EndSurfaces, Placed, HandleCreated, HandleConfigured
<1>2. CASE EndLayers
  <2>1. CASE cmd \in Building \cup {"add_layer"}
    <3> DEFINE L == ToSet(layers[ctx.screen])
    <3>1. cmd \notin {"add_surface", "remove_layer", "modify_layer", "remove_surface"}
      BY <2>1 DEF Building
    <3>2. layerOrder'[l] = IF l \in L THEN Kept(surfaces[l], alive)
                                      ELSE layerOrder[l]
      BY <1>2, <3>1 DEF EndLayers, RenderSurfaces, Existing
    <3>3. l \notin L => ~InWork(l)
      BY <1>2 DEF EndLayers, InWork
    <3> QED BY <1>1, <3>2, <3>3 DEF LayerSteps, Rendered, Untouched
  <2>2. CASE cmd \notin Building \cup {"add_layer"}
    <3>1. layerOrder' = layerOrder
      BY <1>2, <2>2 DEF EndLayers
    <3>2. ~InWork(l)
      BY <1>2, <2>2 DEF EndLayers, InWork, BuildsScreen
    <3> QED BY <1>1, <3>1, <3>2 DEF LayerSteps, Untouched
  <2> QED BY <2>1, <2>2
<1>3. CASE EndSurfaces
  <2>1. CASE cmd = "add_surface"
    <3>1. layerOrder'[l] = IF l = ctx.layer THEN Kept(surfaces[l], alive)
                                            ELSE layerOrder[l]
      BY <1>3, <2>1 DEF EndSurfaces, Building, RenderSurfaces, Existing
    <3>2. l # ctx.layer => ~InWork(l)
      BY <2>1, <1>3 DEF InWork, BuildsScreen, EndSurfaces, Building
    <3> QED BY <1>1, <3>1, <3>2 DEF LayerSteps, Rendered, Untouched
  <2>2. CASE cmd # "add_surface"
    <3>1. layerOrder' = layerOrder
      BY <1>3, <2>2 DEF EndSurfaces
    <3>2. ~InWork(l)
      <4>1. CASE cmd = "modify_surface"
        BY <1>3, <4>1 DEF EndSurfaces, InWork, BuildsScreen, Building
      <4>2. CASE cmd # "modify_surface"
        <5>1. /\ pc' = "layers" /\ cmd' = cmd /\ pc = "surfaces"
              /\ ctx'.screen = ctx.screen
          BY <1>3, <2>2, <4>2, BaseParts DEF EndSurfaces, Loop, TypeOK
        <5> QED BY <1>1, <2>2, <5>1 DEF InWork, BuildsScreen
      <4> QED BY <4>1, <4>2
    <3> QED BY <1>1, <3>1, <3>2 DEF LayerSteps, Untouched
  <2> QED BY <2>1, <2>2
<1> QED BY <1>2, <1>3

(* The passes through the loops.                                            *)
LEMMA LoopLayers ==
  ASSUME BaseInv, BaseInv', NEW l \in Layer, Placed(l)', ~InWork(l)',
         \/ \E k \in Layer, look \in Look : AddLayer(k, look)
         \/ \E k \in Layer : RemoveLayer(k)
         \/ \E k \in Layer, look \in Look : ModifyLayer(k, look)
         \/ \E s \in Surface, look \in Look, g \in Garbage : AddSurface(s, look, g)
         \/ \E s \in Surface, look \in Look : UpdateSurface(s, look)
         \/ \E s \in Surface : UpdateUnregistered(s)
         \/ \E s \in Surface : RemoveSurface(s)
         \/ \E s \in Surface, look \in Look : ModifySurface(s, look)
  PROVE  LayerSteps(l)
<1> USE DEF treeVars, propVars, loopVars, ilmVars
<1>0. /\ TypeOK /\ TreePart /\ WorkInv /\ TypeOK' /\ IlmTypeOK
      /\ \A d \in Screen : layers[d] \in Seq(Layer)
  <2>1. TypeOK /\ TreePart /\ WorkInv /\ IlmTypeOK
    BY BaseParts
  <2>2. TypeOK'
    BY DEF BaseInv, TreeInv
  <2> QED BY <2>1, <2>2 DEF TypeOK
<1>1. pc # "poll" /\ ~HandleCreated /\ ~HandleConfigured
  BY DEF AddLayer, RemoveLayer, ModifyLayer, AddSurface, UpdateSurface,
         UpdateUnregistered, RemoveSurface, ModifySurface, HandleCreated,
         HandleConfigured
<1>2. ASSUME NEW k \in Layer, NEW look \in Look, AddLayer(k, look)
      PROVE  LayerSteps(l)
  <2> DEFINE c == ctx.screen
  <2>1. /\ pc = "layers" /\ cmd \in Building \cup {"add_layer"}
        /\ UNCHANGED <<alive, layerOrder>>
    BY <1>2 DEF AddLayer
  <2>2. /\ c \in Screen
        /\ \A d \in Screen : ToSet(layers'[d]) =
             (ToSet(layers[d]) \ {k})
               \cup (IF d = c /\ ctx.order # NoOrder THEN {k} ELSE {})
    BY <1>0, <1>2, AddLayerSets
  <2>5. ctx'.screen = c /\ BuildsScreen' /\ BuildsScreen
    <3>1. CASE cmd \in Building
      BY <1>0, <1>2, <2>1, <3>1 DEF AddLayer, Loop, BuildsScreen, TypeOK
    <3>2. CASE cmd \notin Building
      BY <1>2, <2>1, <3>2 DEF AddLayer, BuildsScreen
    <3> QED BY <3>1, <3>2
  <2> HIDE DEF c
  <2>6. l \notin ToSet(layers'[c])
    BY <2>5 DEF InWork
  <2>7. l # k
    <3>1. \A d \in Screen : d # c => k \notin ToSet(layers'[d])
      BY <2>2
    <3> QED BY <2>6, <3>1 DEF Placed
  <2>8. Placed(l)
    BY <2>2, <2>7 DEF Placed
  <2>9. ~InWork(l)
    <3>1. l \notin ToSet(layers[c])
      BY <2>2, <2>6, <2>7
    <3> QED BY <2>1, <3>1 DEF InWork, BuildsScreen, c
  <2>10. surfaces'[l] = surfaces[l]
    <3>1. surfaces' = surfaces \/ surfaces' = [surfaces EXCEPT ![k] = <<>>]
      BY <1>2 DEF AddLayer
    <3> QED BY <1>0, <2>7, <3>1 DEF TypeOK
  <2> QED BY <1>1, <2>1, <2>8, <2>9, <2>10 DEF LayerSteps, Untouched
<1>3. ASSUME NEW k \in Layer, RemoveLayer(k) PROVE LayerSteps(l)
  <2>1. /\ pc = "layers" /\ cmd = "remove_layer" /\ alive' = alive
        /\ UNCHANGED <<pc, cmd, ctx>>
        /\ layerOrder' = [layerOrder EXCEPT ![k] = <<>>]
    BY <1>3 DEF RemoveLayer, DestroyLayer
  <2>2. ~InWork(l)
    BY <2>1 DEF InWork, BuildsScreen, Building
  <2>3. l # k /\ Placed(l)
    <3>3. \A d \in Screen : ToSet(layers'[d]) = ToSet(layers[d]) \ {k}
      BY <1>0, <1>3, RemoveLayerSets
    <3> QED BY <3>3 DEF Placed
  <2>4. surfaces'[l] = surfaces[l]
    <3>1. surfaces' = surfaces \/ surfaces' = [surfaces EXCEPT ![k] = <<>>]
      BY <1>3 DEF RemoveLayer
    <3> QED BY <1>0, <2>3, <3>1 DEF TypeOK
  <2>5. layerOrder'[l] = layerOrder[l]
    BY <1>0, <2>1, <2>3 DEF IlmTypeOK
  <2> QED BY <1>1, <2>1, <2>2, <2>3, <2>4, <2>5 DEF LayerSteps, Untouched
<1>4. CASE \/ \E k \in Layer, look \in Look : ModifyLayer(k, look)
           \/ \E s \in Surface : UpdateUnregistered(s)
           \/ \E s \in Surface, look \in Look : ModifySurface(s, look)
  <2>1. UNCHANGED <<layers, surfaces, alive, layerOrder, pc, cmd, ctx>>
    BY <1>4 DEF ModifyLayer, UpdateUnregistered, ModifySurface
  <2>2. Placed(l) /\ ~InWork(l)
    BY <2>1 DEF Placed, InWork, BuildsScreen
  <2> QED BY <1>1, <2>1, <2>2 DEF LayerSteps, Untouched
<1>5. CASE \/ \E s \in Surface, look \in Look, g \in Garbage : AddSurface(s, look, g)
           \/ \E s \in Surface, look \in Look : UpdateSurface(s, look)
  <2>1. /\ pc = "surfaces" /\ cmd \in AddsSurfaces
        /\ UNCHANGED <<layers, alive, layerOrder, pc, cmd, ctx>>
        /\ \E list : surfaces' = [surfaces EXCEPT ![ctx.layer] = list]
    BY <1>5 DEF AddSurface, UpdateSurface
  <2>2. Placed(l) /\ ~InWork(l)
    BY <2>1 DEF Placed, InWork, BuildsScreen
  <2>3. l # ctx.layer
    BY <1>0, <2>1, <2>2 DEF InWork, BuildsScreen, WorkInv, AddsSurfaces
  <2>4. surfaces'[l] = surfaces[l]
    BY <1>0, <2>1, <2>3 DEF TypeOK
  <2> QED BY <1>1, <2>1, <2>2, <2>4 DEF LayerSteps, Untouched
<1>6. ASSUME NEW s \in Surface, RemoveSurface(s) PROVE LayerSteps(l)
  <2>1. /\ pc = "surfaces" /\ cmd = "remove_surface" /\ alive' = alive
        /\ UNCHANGED <<layers, pc, cmd, ctx>>
        /\ surfaces' = [surfaces EXCEPT ![ctx.layer] = PopElement(@, s)]
        /\ layerOrder' = IF s \in alive
                         THEN [layerOrder EXCEPT ![ctx.layer] = Without(@, s)]
                         ELSE layerOrder
    BY <1>6 DEF RemoveSurface, TakeOffLayer
  <2>2. Placed(l) /\ ~InWork(l)
    BY <2>1 DEF Placed, InWork, BuildsScreen, Building
  <2>3. CASE l = ctx.layer
    <3>1. surfaces'[l] = PopElement(surfaces[l], s)
      BY <1>0, <2>1, <2>3 DEF TypeOK
    <3>2. layerOrder'[l] = IF s \in alive THEN Without(layerOrder[l], s)
                                          ELSE layerOrder[l]
      BY <1>0, <2>1, <2>3 DEF IlmTypeOK
    <3> QED BY <1>1, <2>1, <2>2, <3>1, <3>2 DEF LayerSteps, DropsSurface
  <2>4. CASE l # ctx.layer
    <3>1. surfaces'[l] = surfaces[l]
      BY <1>0, <2>1, <2>4 DEF TypeOK
    <3>2. layerOrder'[l] = layerOrder[l]
      BY <1>0, <2>1, <2>4 DEF IlmTypeOK
    <3> QED BY <1>1, <2>1, <2>2, <3>1, <3>2 DEF LayerSteps, Untouched
  <2> QED BY <2>3, <2>4
<1> QED BY <1>2, <1>3, <1>4, <1>5, <1>6

(* Unless handlers return early, every layer of the tree that is not in     *)
(* work has come there in one of the four ways.                             *)
LEMMA LayerCases ==
  ASSUME ~Malformed, BaseInv, BaseInv', [Next]_vars,
         NEW l \in Layer, Placed(l)', ~InWork(l)'
  PROVE  LayerSteps(l)
BY EventLayers, ControlLayers, EndLayersSteps, LoopLayers DEF Next, Main, EndOfArray

(* A layer shows surfaces of its list, in the order of its list.            *)
Follows(l) == layerOrder[l] = Kept(surfaces[l], ToSet(layerOrder[l]))

FollowInv == \A l \in Layer : Placed(l) /\ ~InWork(l) => Follows(l)

(* Taking a surface off a layer, wherever it is in the list, and whether or *)
(* not the list has it, leaves the rest in order.                           *)
LEMMA WithoutFollows ==
  ASSUME NEW list \in Seq(Surface), IsInjective(list), NEW s,
         NEW order \in Seq(Surface), order = Kept(list, ToSet(order))
  PROVE  LET less == Without(order, s)
             rest == PopElement(list, s)
         IN  less = Kept(list, ToSet(less)) /\ less = Kept(rest, ToSet(less))
<1> DEFINE less == Without(order, s)
           rest == PopElement(list, s)
           S == ToSet(order) \ {s}
<1>1. ToSet(less) = S
  BY WithoutSet
<1>2. less = Kept(order, S)
  BY DEF Without
<1>3. Kept(Kept(list, ToSet(order)), S) = Kept(list, ToSet(order) \cap S)
  BY KeptKept
<1>4. ToSet(order) \cap S = S
  OBVIOUS
<1>5. less = Kept(list, S)
  BY <1>2, <1>3, <1>4
<1>6. Kept(rest, S) = Kept(list, S)
  BY KeptPop
<1> QED BY <1>1, <1>5, <1>6

LEMMA FollowStep ==
  ASSUME ~Malformed, FollowInv, BaseInv, BaseInv', [Next]_vars
  PROVE  FollowInv'
<1> SUFFICES ASSUME NEW l \in Layer, Placed(l)', ~InWork(l)'
             PROVE  Follows(l)'
  BY DEF FollowInv
<1> DEFINE list == surfaces[l]
           order == layerOrder[l]
<1>1. /\ list \in Seq(Surface) /\ IsInjective(list)
      /\ order \in Seq(Surface) /\ IsInjective(order) /\ ToSet(order) \subseteq alive
  BY BaseParts DEF TypeOK, TreeShape, OneOfEach, OrdersInv, IlmTypeOK
<1>2. LayerSteps(l)
  BY LayerCases
<1>3. CASE Untouched(l)
  BY <1>3 DEF Untouched, FollowInv, Follows
<1>4. CASE Rendered(l)
  <2>1. ToSet(Kept(list, alive)) = ToSet(list) \cap alive
    BY <1>1, KeptSet
  <2> DEFINE R == ToSet(Kept(list, alive))
  <2>2. ToSet(list) \cap alive = ToSet(list) \cap R
    BY <2>1
  <2> HIDE DEF R
  <2>3. Kept(list, alive) = Kept(list, R)
    BY <1>1, <2>2, KeptOnly
  <2> QED BY <1>4, <2>3 DEF Rendered, Follows, R
<1>5. CASE LosesSurface(l)
  <2>1. order = Kept(list, ToSet(order))
    BY <1>5 DEF LosesSurface, FollowInv, Follows
  <2>2. PICK s \in Surface : layerOrder'[l] = Without(order, s)
    BY <1>5 DEF LosesSurface
  <2>3. surfaces'[l] = list
    BY <1>5 DEF LosesSurface
  <2> HIDE DEF list, order
  <2>4. Without(order, s) = Kept(list, ToSet(Without(order, s)))
    BY <1>1, <2>1, WithoutFollows
  <2> QED BY <2>2, <2>3, <2>4 DEF Follows
<1>6. CASE DropsSurface(l)
  <2>1. order = Kept(list, ToSet(order))
    BY <1>6 DEF DropsSurface, FollowInv, Follows
  <2>2. PICK s \in Surface :
          /\ surfaces'[l] = PopElement(list, s)
          /\ layerOrder'[l] = IF s \in alive THEN Without(order, s) ELSE order
    BY <1>6 DEF DropsSurface
  <2> HIDE DEF list, order
  <2>3. s \notin alive => Without(order, s) = order
    <3>1. s \notin alive => ToSet(order) \subseteq ToSet(order) \ {s}
      BY <1>1
    <3> QED BY <1>1, <3>1, KeptAll DEF Without
  <2>4. Without(order, s) = Kept(PopElement(list, s), ToSet(Without(order, s)))
    BY <1>1, <2>1, WithoutFollows
  <2> QED BY <2>2, <2>3, <2>4 DEF Follows
<1> QED BY <1>2, <1>3, <1>4, <1>5, <1>6 DEF LayerSteps

LEMMA FollowInit == Init => FollowInv
<1> SUFFICES ASSUME Init, NEW l \in Layer PROVE ~Placed(l)
  BY DEF FollowInv
<1> QED BY EmptySequence DEF Init, Placed

(* A layer of the tree that no handler is at work on shows surfaces of its  *)
(* list, in the order of the list, in every reachable state.                *)
LEMMA FollowInvariant ==
  ASSUME ~Malformed
  PROVE  Spec => [](BaseInv /\ FollowInv)
<1>1. Init => BaseInv /\ FollowInv
  BY BaseInit, FollowInit
<1>2. BaseInv /\ FollowInv /\ [Next]_vars => BaseInv' /\ FollowInv'
  BY BaseStep, FollowStep
<1> QED BY <1>1, <1>2, PTL DEF Spec

(* parser_add_ivi_surface_by_event_notification renders whole layers from   *)
(* the tree, and takes no surface off any of them: where every message has  *)
(* its keys, no handler leaves a layer behind its list.                     *)
THEOREM EventsShow ==
  ASSUME ~Malformed
  PROVE  Spec => EventsOnlyShow
<1> DEFINE Show == pc = "poll" /\ pc' = "client" =>
      \A l \in Layer : ToSet(layerOrder[l]) \subseteq ToSet(layerOrder'[l])
<1>1. ASSUME BaseInv, BaseInv', FollowInv, [Next]_vars PROVE Show
  <2> SUFFICES ASSUME pc = "poll", pc' = "client", NEW l \in Layer
               PROVE  ToSet(layerOrder[l]) \subseteq ToSet(layerOrder'[l])
    OBVIOUS
  <2>1. surfaces[l] \in Seq(Surface) /\ ToSet(layerOrder[l]) \subseteq alive
        /\ TypeOK /\ LayersListed
    BY <1>1, BaseParts DEF TypeOK, OrdersInv
  <2>2. HandleCreated \/ HandleConfigured
    BY <1>1 DEF Next, Main, NoCommand, StartCommand, StartInitialScreen,
      BuildScreen, BuildUnknownScreen, ConfigDone, Return, Loop, AddLayerScreen,
      AddSurfaceScreen, AddLayer, RemoveLayer, ModifyLayer, EnterLayer,
      AddSurface, UpdateSurface, UpdateUnregistered, RemoveSurface,
      ModifySurface, ModifyUnknownSurface, EndOfArray, EndScreens, EndLayers,
      EndSurfaces, ReturnEarly, World, vars, loopVars
  <2>3. CASE layerOrder'[l] = layerOrder[l]
    BY <2>3
  <2>4. CASE layerOrder'[l] # layerOrder[l]
    <3> DEFINE on == {k \in LayersOf(Head(pipe).id) : InTree(k)}
    <3>1. HandleConfigured /\ RenderSurfaces(on, surfaces)
      BY <2>2, <2>4 DEF HandleCreated, HandleConfigured, ShowSurface
    <3>2. l \in on /\ layerOrder'[l] = Kept(surfaces[l], alive)
      BY <2>4, <3>1 DEF RenderSurfaces, Existing
    <3>3. Placed(l) /\ ~InWork(l)
      BY <2>1, <3>2, PlacedInTree DEF InWork, BuildsScreen
    <3>4. layerOrder[l] = Kept(surfaces[l], ToSet(layerOrder[l]))
      BY <1>1, <3>3 DEF FollowInv, Follows
    <3>5. \A S : ToSet(Kept(surfaces[l], S)) = ToSet(surfaces[l]) \cap S
      BY <2>1, KeptSet
    <3>6. ToSet(layerOrder[l]) \subseteq ToSet(surfaces[l])
      BY <3>4, <3>5
    <3> QED BY <2>1, <3>2, <3>5, <3>6
  <2> QED BY <2>3, <2>4
<1>2. BaseInv /\ FollowInv /\ BaseInv' /\ [Next]_vars => [Show]_vars
  BY <1>1
<1> HIDE DEF Show
<1>3. Spec => [][Show]_vars
  BY <1>2, FollowInvariant, PTL DEF Spec
<1> QED BY <1>3 DEF EventsOnlyShow, Show

-----------------------------------------------------------------------------
(***************************************************************************)
(* What is on a screen.                                                     *)
(***************************************************************************)

(* A screen shows its layers; while one of them is built, every other shows *)
(* what it will have lost to it once it is rendered.                        *)
ScreenInv ==
  /\ ~BuildsScreen =>
       \A c \in ToSet(screens) : screenOrder[c] = layers[c]
  /\ BuildsScreen =>
       /\ ctx.order # NoOrder
       /\ \A d \in ToSet(screens) \ {ctx.screen} :
            layers[d] = Kept(screenOrder[d], Layer \ ToSet(layers[ctx.screen]))
  /\ cmd = "config" /\ screens = <<>> =>
       \A c \in Screen : screenOrder[c] = <<>>

(* Nothing changes between a screen and its display.                        *)
LEMMA ScreenQuiet ==
  ASSUME ScreenInv, UNCHANGED <<layers, screenOrder>>,
         screens' = screens \/ screens' = <<>>,
         cmd' = cmd \/ cmd' # "config", cmd = "config" => screens' = screens,
         \/ ~BuildsScreen /\ ~BuildsScreen'
         \/ BuildsScreen /\ BuildsScreen' /\ ctx'.screen = ctx.screen
              /\ ctx'.order = ctx.order /\ screens' = screens
  PROVE  ScreenInv'
<1>1. ToSet(<<>>) = {}
  BY EmptySequence
<1> QED BY <1>1 DEF ScreenInv

(* The layer that is linked into the screen at hand leaves the others.      *)
LEMMA ScreenAddLayer ==
  ASSUME BaseInv, ScreenInv, NEW l \in Layer, NEW look \in Look, AddLayer(l, look)
  PROVE  ScreenInv'
<1> DEFINE c == ctx.screen
           popped == PopLayer(l)
           list == InsertElement(popped[c], l, ctx.order, ctx.ref)
<1>0. /\ TypeOK /\ TreePart /\ LoopObjects
      /\ \A d \in Screen : /\ layers[d] \in Seq(Layer) /\ IsInjective(layers[d])
                           /\ screenOrder[d] \in Seq(Layer)
                           /\ IsInjective(screenOrder[d])
      /\ ToSet(screens) \subseteq Screen
  BY BaseParts, MembersTyped
  DEF TypeOK, TreeShape, OneOfEach, OrdersInv, IlmTypeOK
<1>1. /\ pc = "layers" /\ cmd \in Building \cup {"add_layer"} /\ BuildsScreen
      /\ c \in Screen /\ ctx.order \in InsertOrder /\ ctx.order # NoOrder
      /\ UNCHANGED <<screens, screenOrder>> /\ cmd' = cmd
  BY <1>0 DEF AddLayer, Loop, TypeOK, ScreenInv, BuildsScreen
<1>2. /\ layers' = [popped EXCEPT ![c] = list]
      /\ popped \in [Screen -> Seq(Layer)]
  BY <1>0, PopLayerSets DEF AddLayer
<1>3. \A d \in Screen : /\ popped[d] = Without(layers[d], l)
                       /\ ToSet(popped[d]) = ToSet(layers[d]) \ {l}
  BY <1>0, PopLayerIsWithout, WithoutSet
<1>4. ToSet(list) = ToSet(layers[c]) \cup {l}
  <2>1. ToSet(list) = ToSet(popped[c]) \cup (IF ctx.order = NoOrder THEN {} ELSE {l})
    <3> HIDE DEF popped
    <3> QED BY <1>1, <1>2, InsertElementSet
  <2> QED BY <1>1, <1>3, <2>1
<1>5. BuildsScreen' /\ ctx'.screen = c /\ ctx'.order = ctx.order
  <2>1. CASE cmd \in Building
    BY <1>0, <1>1, <2>1 DEF AddLayer, Loop, BuildsScreen, TypeOK
  <2>2. CASE cmd \notin Building
    BY <1>1, <2>2 DEF AddLayer, BuildsScreen
  <2> QED BY <2>1, <2>2
<1> HIDE DEF popped, list
<1>6. layers'[c] = list
  BY <1>1, <1>2
<1> DEFINE E == ToSet(layers[c])
<1>7. ASSUME NEW d \in ToSet(screens), d # c
      PROVE  layers'[d] = Kept(screenOrder[d], Layer \ ToSet(layers'[c]))
  <2> DEFINE so == screenOrder[d]
  <2>1. d \in Screen /\ layers'[d] = Without(layers[d], l)
    BY <1>0, <1>2, <1>3, <1>7
  <2>2. layers[d] = Kept(so, Layer \ E)
    BY <1>1, <1>7 DEF ScreenInv
  <2>3. so \in Seq(Layer) /\ IsInjective(so)
    BY <1>0, <2>1
  <2> HIDE DEF so, E, c
  <2>4. ToSet(layers[d]) = ToSet(so) \cap (Layer \ E)
    BY <2>2, <2>3, KeptSet
  <2>5. ToSet(so) \subseteq Layer
    BY <2>3, MembersTyped
  <2> DEFINE S == ToSet(layers[d]) \ {l}
             R == Layer \ (E \cup {l})
  <2>6. Kept(Kept(so, Layer \ E), S) = Kept(so, (Layer \ E) \cap S)
    BY <2>3, KeptKept
  <2>7. ToSet(so) \cap ((Layer \ E) \cap S) = ToSet(so) \cap R
    BY <2>4, <2>5
  <2>8. Kept(so, (Layer \ E) \cap S) = Kept(so, R)
    <3> HIDE DEF S, R
    <3> QED BY <2>3, <2>7, KeptOnly
  <2>9. Layer \ ToSet(layers'[c]) = R
    BY <1>4, <1>6 DEF E
  <2> QED BY <2>1, <2>2, <2>6, <2>8, <2>9 DEF Without, so
<1>8. ~(cmd = "config" /\ screens = <<>>)
  <2>1. c \in ToSet(screens)
    BY <1>0, <1>1 DEF LoopObjects
  <2> QED BY <2>1, EmptySequence
<1> QED BY <1>1, <1>5, <1>7, <1>8 DEF ScreenInv

(* A layer is destroyed together with its place in the tree.                *)
LEMMA ScreenRemoveLayer ==
  ASSUME BaseInv, ScreenInv, NEW l \in Layer, RemoveLayer(l)
  PROVE  ScreenInv'
<1>1. TypeOK /\ TreePart /\ ToSet(screens) \subseteq Screen
  BY BaseParts, MembersTyped DEF TypeOK
<1>2. /\ UNCHANGED <<screens, pc, cmd, ctx>> /\ cmd = "remove_layer"
      /\ screenOrder' = [c \in Screen |-> Without(screenOrder[c], l)]
      /\ ~BuildsScreen /\ ~BuildsScreen'
  BY DEF RemoveLayer, DestroyLayer, loopVars, BuildsScreen, Building
<1>3. layers' = PopLayer(l)
  BY <1>1, RemoveLayerSets
<1>4. ASSUME NEW c \in ToSet(screens) PROVE screenOrder'[c] = layers'[c]
  BY <1>1, <1>2, <1>3, PopLayerIsWithout DEF ScreenInv
<1> QED BY <1>2, <1>4 DEF ScreenInv

(* The screens a configuration adds are shown as their lists.               *)
LEMMA ScreenBuildScreen ==
  ASSUME BaseInv, ScreenInv, NEW c \in Screen, BuildScreen(c)
  PROVE  ScreenInv'
<1>1. /\ TypeOK /\ TreePart /\ ToSet(screens) \subseteq Screen
      /\ Contains(screens, c) <=> c \in ToSet(screens)
  BY BaseParts, MembersTyped, ContainsMember DEF TypeOK
<1>2. /\ UNCHANGED <<layers, screenOrder, cmd>> /\ ~BuildsScreen
      /\ BuildsScreen' /\ ctx'.screen = c /\ ctx'.order = AppendTail
  BY DEF BuildScreen, Loop, BuildsScreen, NoCtx, ilmVars
<1>3. ToSet(screens') = ToSet(screens) \cup {c}
  BY <1>1, AppendSet DEF BuildScreen, TypeOK
<1>4. ASSUME NEW d \in ToSet(screens), d # c
      PROVE  layers[d] = Kept(screenOrder[d], Layer \ ToSet(layers[c]))
  <2>1. screenOrder[d] = layers[d] /\ d \in Screen
    BY <1>1, <1>2 DEF ScreenInv
  <2>2. layers[d] \in Seq(Layer) /\ IsInjective(layers[d])
    BY <1>1, <2>1 DEF TypeOK, TreePart, TreeShape, OneOfEach
  <2>3. ToSet(layers[d]) \subseteq Layer \ ToSet(layers[c])
    <3>1. ToSet(layers[d]) \cap ToSet(layers[c]) = {}
      BY <1>1, <1>4, <2>1 DEF TreePart, TreeShape, OneHome
    <3>2. ToSet(layers[d]) \subseteq Layer
      BY <2>2, MembersTyped
    <3> QED BY <3>1, <3>2
  <2> DEFINE S == Layer \ ToSet(layers[c])
  <2> HIDE DEF S
  <2>4. Kept(layers[d], S) = layers[d]
    BY <2>2, <2>3, KeptAll DEF S
  <2> QED BY <2>1, <2>4 DEF S
<1>5. screens' # <<>> /\ AppendTail # NoOrder
  BY <1>3, EmptySequence DEF AppendTail, NoOrder
<1> QED BY <1>2, <1>3, <1>4, <1>5 DEF ScreenInv

(* The screen that was built is rendered, and what it took from the others  *)
(* is gone from their displays as it is from their lists.                   *)
LEMMA ScreenEndLayers ==
  ASSUME BaseInv, ScreenInv, EndLayers
  PROVE  ScreenInv'
<1>1. /\ TypeOK /\ LoopObjects /\ ToSet(screens) \subseteq Screen
  BY BaseParts, MembersTyped DEF TypeOK
<1>2. /\ UNCHANGED <<screens, layers>> /\ pc = "layers" /\ ~BuildsScreen'
      /\ cmd' = cmd \/ cmd' = "idle"
  BY DEF EndLayers, treeVars, Loop, Return, BuildsScreen
<1>3. CASE cmd \in Building \cup {"add_layer"}
  <2>1. /\ BuildsScreen /\ ctx.screen \in ToSet(screens)
        /\ RenderLayers(ctx.screen, layers[ctx.screen])
    <3>1. cmd \notin {"add_surface", "remove_layer", "modify_layer", "remove_surface"}
      BY <1>3 DEF Building
    <3> QED BY <1>1, <1>2, <1>3, <3>1 DEF EndLayers, BuildsScreen, LoopObjects
  <2>2. \A c \in ToSet(screens) : screenOrder'[c] = layers[c]
    BY <1>1, <2>1 DEF RenderLayers, ScreenInv
  <2>3. screens # <<>>
    BY <2>1, EmptySequence
  <2> QED BY <1>2, <2>2, <2>3 DEF ScreenInv
<1>4. CASE cmd \notin Building \cup {"add_layer"}
  <2>1. screenOrder' = screenOrder /\ ~BuildsScreen
    BY <1>2, <1>4 DEF EndLayers, BuildsScreen, Building
  <2> QED BY <1>2, <1>4, <2>1, ScreenQuiet DEF Building
<1> QED BY <1>3, <1>4

(* parser_init adds the default screens to a display that is still empty.   *)
LEMMA ScreenConfigDone ==
  ASSUME BaseInv, ScreenInv, BuildUnknownScreen \/ EndScreens
  PROVE  ScreenInv'
<1>1. /\ UNCHANGED <<layers, screenOrder>> /\ pc = "screens" /\ ~BuildsScreen
      /\ pc' = "poll" /\ cmd' = "idle" /\ ~BuildsScreen'
  BY DEF BuildUnknownScreen, EndScreens, BuildsScreen, ConfigDone, Return
<1>2. CASE screens' = screens
  BY <1>1, <1>2, ScreenQuiet
<1>3. CASE screens' # screens
  <2>1. cmd = "config" /\ screens = <<>> /\ screens' \in DefaultScreens
    BY <1>3 DEF BuildUnknownScreen, EndScreens, ConfigDone
  <2>2. ToSet(screens') \subseteq Screen
    <3>1. screens' \in Seq(Connected)
      BY <2>1, SetToSeqsShape, FiniteAssumption DEF DefaultScreens
    <3> QED BY <3>1, MembersTyped, ScreenAssumption
  <2>3. \A c \in Screen : screenOrder[c] = <<>> /\ layers[c] = <<>>
    <3>1. \A c \in Screen : ToSet(layers[c]) = {} /\ layers[c] \in Seq(Layer)
      BY <2>1, BaseParts, EmptySequence DEF LayersListed, TypeOK
    <3>2. \A c \in Screen : layers[c] = <<>>
      BY <3>1, NoMembers
    <3> QED BY <2>1, <3>2 DEF ScreenInv
  <2> QED BY <1>1, <2>2, <2>3 DEF ScreenInv
<1> QED BY <1>2, <1>3

LEMMA ScreenStep ==
  ASSUME ~Malformed, NoOrder \notin InsertOrders, ScreenInv, BaseInv, [Next]_vars
  PROVE  ScreenInv'
<1> USE DEF treeVars, propVars, loopVars, ilmVars
<1>0. TypeOK /\ WorkInv
  BY BaseParts
<1>1. CASE \/ HandleCreated \/ HandleConfigured \/ NoCommand \/ World
           \/ UNCHANGED vars
           \/ \E l \in Layer, look \in Look : ModifyLayer(l, look)
           \/ \E s \in Surface, look \in Look, g \in Garbage : AddSurface(s, look, g)
           \/ \E s \in Surface, look \in Look : UpdateSurface(s, look)
           \/ \E s \in Surface : UpdateUnregistered(s)
           \/ \E s \in Surface : RemoveSurface(s)
           \/ \E s \in Surface, look \in Look : ModifySurface(s, look)
  <2>1. UNCHANGED <<screens, layers, screenOrder, cmd, ctx>>
    BY <1>1 DEF HandleCreated, HandleConfigured, NoCommand, World, Applications,
      SurfaceAppears, SurfaceDisappears, SurfaceConfigures, vars, ModifyLayer,
      AddSurface, UpdateSurface, UpdateUnregistered, RemoveSurface, ModifySurface
  <2>2. pc' = pc \/ (pc \in {"poll", "client"} /\ pc' \in {"poll", "client"})
    BY <1>1 DEF HandleCreated, HandleConfigured, NoCommand, World, vars, ModifyLayer,
      AddSurface, UpdateSurface, UpdateUnregistered, RemoveSurface, ModifySurface
  <2>3. \/ ~BuildsScreen /\ ~BuildsScreen'
        \/ BuildsScreen /\ BuildsScreen'
    BY <2>1, <2>2 DEF BuildsScreen
  <2> QED BY <2>1, <2>3, ScreenQuiet
<1>2. CASE \/ \E c \in Commands : StartCommand(c)
           \/ StartInitialScreen
           \/ \E ins \in InsertInfo(Surface) : AddSurfaceScreen(ins)
           \/ \E l \in Layer : EnterLayer(l)
           \/ ModifyUnknownSurface
  <2>1. UNCHANGED screenOrder /\ (cmd' = cmd \/ (cmd # "config" /\ cmd' # "config"))
    BY <1>0, <1>2, CommandAssumption DEF StartCommand, StartInitialScreen, AtClient,
      AddSurfaceScreen, EnterLayer, Loop, ModifyUnknownSurface, Return, WorkInv,
      AllCommands
  <2>2. ~BuildsScreen /\ ~BuildsScreen'
    BY <1>0, <1>2, CommandAssumption DEF StartCommand, StartInitialScreen, AtClient,
      AddSurfaceScreen, EnterLayer, Loop, ModifyUnknownSurface, Return, Building,
      BuildsScreen, AllCommands
  <2>3. CASE StartInitialScreen
    BY <2>1, <2>2, <2>3, EmptySequence DEF StartInitialScreen, ScreenInv
  <2>4. CASE ~StartInitialScreen
    <3>1. UNCHANGED <<screens, layers>>
      BY <1>2, <2>4 DEF StartCommand, AddSurfaceScreen, EnterLayer, ModifyUnknownSurface
    <3> QED BY <2>1, <2>2, <3>1, ScreenQuiet
  <2> QED BY <2>3, <2>4
<1>3. ASSUME NEW c \in Screen, NEW ins \in InsertInfo(Layer), AddLayerScreen(c, ins)
      PROVE  ScreenInv'
  <2>1. /\ UNCHANGED <<screens, layers, screenOrder, cmd>> /\ cmd = "add_layer"
        /\ ~BuildsScreen /\ ctx'.screen = c /\ ctx'.order = ins.order
    BY <1>3 DEF AddLayerScreen, Loop, BuildsScreen, NoCtx
  <2>2. ins.order # NoOrder
    BY <1>3 DEF InsertInfo
  <2>3. /\ TreePart /\ ToSet(screens) \subseteq Screen
    BY BaseParts, MembersTyped DEF TypeOK
  <2>4. ASSUME NEW d \in ToSet(screens), d # c
        PROVE  layers[d] = Kept(screenOrder[d], Layer \ ToSet(layers[c]))
    <3>1. screenOrder[d] = layers[d] /\ d \in Screen
      BY <2>1, <2>3 DEF ScreenInv
    <3>2. layers[d] \in Seq(Layer) /\ IsInjective(layers[d])
      BY <1>0, <2>3, <3>1 DEF TypeOK, TreePart, TreeShape, OneOfEach
    <3>3. ToSet(layers[d]) \cap ToSet(layers[c]) = {}
      BY <2>3, <2>4, <3>1 DEF TreePart, TreeShape, OneHome
    <3>4. ToSet(layers[d]) \subseteq Layer
      BY <3>2, MembersTyped
    <3> DEFINE S == Layer \ ToSet(layers[c])
    <3>5. ToSet(layers[d]) \subseteq S
      BY <3>3, <3>4
    <3> HIDE DEF S
    <3>6. Kept(layers[d], S) = layers[d]
      BY <3>2, <3>5, KeptAll
    <3> QED BY <3>1, <3>6 DEF S
  <2>5. BuildsScreen'
    BY <1>3 DEF AddLayerScreen, Loop, BuildsScreen
  <2> QED BY <2>1, <2>2, <2>4, <2>5 DEF ScreenInv
<1>4. CASE EndSurfaces
  <2>1. UNCHANGED <<screens, layers, screenOrder>>
        /\ (cmd' = cmd \/ (cmd # "config" /\ cmd' # "config"))
    BY <1>4 DEF EndSurfaces, Loop, Return
  <2>2. \/ ~BuildsScreen /\ ~BuildsScreen'
        \/ BuildsScreen /\ BuildsScreen' /\ ctx'.screen = ctx.screen
             /\ ctx'.order = ctx.order
    BY <1>0, <1>4 DEF EndSurfaces, Loop, Return, BuildsScreen, Building, TypeOK
  <2> QED BY <2>1, <2>2, ScreenQuiet
<1> QED BY <1>1, <1>2, <1>3, <1>4, ScreenAddLayer, ScreenRemoveLayer,
           ScreenBuildScreen, ScreenEndLayers, ScreenConfigDone
    DEF Next, Main, EndOfArray, ReturnEarly

(* Between handlers each screen of the tree shows exactly its layers, and   *)
(* each layer shows surfaces of its list in the order of the list: whatever *)
(* is moved, updated, removed and lost in between, where messages have      *)
(* their keys and name an order.                                            *)
THEOREM StackingFollows ==
  ASSUME ~Malformed, NoOrder \notin InsertOrders
  PROVE  Spec => []StackingFollowsTree
<1>1. Init => ScreenInv
  <2> SUFFICES ASSUME Init PROVE ScreenInv
    OBVIOUS
  <2>1. ~BuildsScreen /\ screens = <<>>
    BY DEF Init, BuildsScreen
  <2> QED BY <2>1, EmptySequence DEF Init, IlmInit, ScreenInv
<1>2. ScreenInv /\ BaseInv /\ [Next]_vars => ScreenInv'
  BY ScreenStep
<1>3. BaseInv /\ FollowInv /\ ScreenInv => StackingFollowsTree
  <2> SUFFICES ASSUME BaseInv, FollowInv, ScreenInv, pc \in {"poll", "client"},
                      NEW c \in ToSet(screens)
               PROVE  /\ screenOrder[c] = layers[c]
                      /\ \A l \in ToSet(layers[c]) :
                           layerOrder[l] = Kept(surfaces[l], ToSet(layerOrder[l]))
    BY DEF StackingFollowsTree
  <2>1. ~BuildsScreen /\ \A l : ~InWork(l)
    BY DEF BuildsScreen, InWork
  <2>2. c \in Screen /\ ToSet(layers[c]) \subseteq Layer
    BY BaseParts, MembersTyped DEF TypeOK
  <2>3. \A l \in ToSet(layers[c]) : l \in Layer /\ Placed(l)
    BY <2>2 DEF Placed
  <2> QED BY <2>1, <2>3 DEF ScreenInv, FollowInv, Follows
<1>4. Spec => [](BaseInv /\ FollowInv)
  BY FollowInvariant
<1> QED BY <1>1, <1>2, <1>3, <1>4, PTL DEF Spec

-----------------------------------------------------------------------------
(***************************************************************************)
(* What is still to come.  An event on its way stands for a surface that    *)
(* is not on the display yet, or not laid out; before the callback is       *)
(* registered, registering will bring the events.                           *)
(***************************************************************************)

Awaited(s) == Pending(s) \/ ~listening

(* Each surface of a layer that no handler is at work on is shown, or will  *)
(* be, unless it has lost its properties.                                   *)
ShowInv ==
  \A l \in Layer : Placed(l) /\ ~InWork(l) =>
    \A s \in (ToSet(surfaces[l]) \cap alive) \ lost :
      s \in ToSet(layerOrder[l]) \/ Awaited(s)

(* And it has the layout of its properties, or will have.                   *)
LookInv ==
  \A s \in alive \ lost : LayersOf(s) # {} =>
    surfaceLook[s] = propLook[s] \/ Awaited(s)

(* Layers are laid out with the handler's own requests.                     *)
LaidInv == \A l \in Layer : Placed(l) => layerLook[l] = layerProp[l]

(* A surface that is not lost has properties while it is on a layer.        *)
LostInv == Orphans \subseteq lost

(* A surface that is on a layer and not lost after a step has properties    *)
(* then, and had them before if it was on a layer before.                   *)
LEMMA NotLost ==
  ASSUME LostInv, [DNext]_dvars, NEW s \in Surface, s \notin lost', LayersOf(s)' # {}
  PROVE  /\ s \notin lost /\ s \in registered'
         /\ LayersOf(s) # {} => s \in registered
<1>1. CASE DNext
  <2>1. lost' = {t \in lost : LayersOf(t)' # {}} \cup Orphans'
    BY <1>1 DEF DNext
  <2>2. s \notin lost /\ s \notin Orphans'
    BY <2>1
  <2>3. s \notin Orphans
    BY <2>2 DEF LostInv
  <2> QED BY <2>2, <2>3 DEF Orphans
<1>2. CASE UNCHANGED dvars
  <2>1. lost' = lost /\ LayersOf(s)' = LayersOf(s) /\ registered' = registered
    BY <1>2 DEF dvars, vars, treeVars, propVars, LayersOf
  <2> QED BY <2>1 DEF LostInv, Orphans
<1> QED BY <1>1, <1>2

(* No surface is on a layer without properties and not lost.                *)
LEMMA LostStep == LostInv /\ [DNext]_dvars => LostInv'
<1> SUFFICES ASSUME LostInv, [DNext]_dvars PROVE LostInv'
  OBVIOUS
<1>1. CASE DNext
  BY <1>1 DEF DNext, LostInv
<1>2. CASE UNCHANGED dvars
  <2>1. Orphans' = Orphans /\ lost' = lost
    BY <1>2 DEF dvars, vars, treeVars, propVars, Orphans, LayersOf
  <2> QED BY <2>1 DEF LostInv
<1> QED BY <1>1, <1>2

(* Applications alone create and destroy surfaces; the callback, once       *)
(* registered, stays, and registering announces all that exist.             *)
LEMMA ListenSteps ==
  ASSUME OrdersInv, [Next]_vars
  PROVE  /\ alive' = alive \/ World
         /\ listening => listening'
         /\ listening' # listening => Register /\ alive' = alive
<1> USE DEF treeVars, propVars, loopVars, ilmVars
<1>1. CASE World
  BY <1>1 DEF World, Applications, SurfaceAppears, SurfaceDisappears,
              SurfaceConfigures
<1>2. CASE ~World
  <2>1. /\ alive' = alive
        /\ listening' = listening \/ Register
    BY <1>2 DEF Next, Main, HandleCreated, HandleConfigured, NoCommand,
      StartCommand, StartInitialScreen, BuildScreen, BuildUnknownScreen,
      ConfigDone, AddLayerScreen, AddSurfaceScreen, AddLayer, RemoveLayer,
      ModifyLayer, EnterLayer, AddSurface, UpdateSurface, UpdateUnregistered,
      RemoveSurface, ModifySurface, ModifyUnknownSurface, EndOfArray,
      EndScreens, EndLayers, EndSurfaces, ReturnEarly, vars
  <2>2. Register => listening' = TRUE
    BY DEF Register
  <2>3. listening \in BOOLEAN
    BY DEF OrdersInv, IlmTypeOK
  <2> QED BY <2>1, <2>2, <2>3
<1> QED BY <1>1, <1>2

(* A surface goes on being awaited until its configuration is handled, and  *)
(* one that comes to exist is awaited from then on.                         *)
LEMMA AwaitedStep ==
  ASSUME ReplayOnRegister, BaseInv, [Next]_vars, NEW s \in alive',
         s \in alive => Awaited(s) /\ s \in registered,
         s \in alive /\ HandleConfigured => Head(pipe).id # s
  PROVE  Awaited(s)'
<1>1. OrdersInv
  BY BaseParts
<1>2. CASE listening' # listening
  <2>1. Register /\ s \in alive
    BY <1>1, <1>2, ListenSteps
  <2> QED BY <1>1, <2>1, Announced DEF Awaited
<1>3. CASE listening' = listening /\ s \notin alive
  BY <1>1, <1>3, ListenSteps, WorldWrites DEF Awaited
<1>4. CASE listening' = listening /\ s \in alive
  <2>1. ASSUME Pending(s) PROVE Pending(s)'
    <3>1. CASE HandleCreated
      BY <1>1, <1>4, <2>1, <3>1, CreatedRead
    <3>2. CASE HandleConfigured
      BY <1>1, <1>4, <2>1, <3>2, ConfiguredRead
    <3>3. CASE ~HandleCreated /\ ~HandleConfigured
      BY <1>1, <2>1, <3>3, PipeSteps
    <3> QED BY <3>1, <3>2, <3>3
  <2> QED BY <1>4, <2>1 DEF Awaited
<1> QED BY <1>2, <1>3, <1>4

(* A surface of a list is on the layer.                                     *)
LEMMA ListedOn ==
  ASSUME TypeOK, NEW l \in Layer, NEW s \in ToSet(surfaces[l])
  PROVE  s \in Surface /\ l \in LayersOf(s)
<1>1. s \in Surface
  BY MembersTyped DEF TypeOK
<1> QED BY <1>1, OnLayer

LEMMA ShowStep ==
  ASSUME ~Malformed, ReplayOnRegister, BaseInv, BaseInv', LostInv,
         ShowInv, [Next]_vars, [DNext]_dvars
  PROVE  ShowInv'
<1> SUFFICES ASSUME NEW l \in Layer, Placed(l)', ~InWork(l)',
                    NEW s \in (ToSet(surfaces'[l]) \cap alive') \ lost'
             PROVE  s \in ToSet(layerOrder'[l]) \/ Awaited(s)'
  BY DEF ShowInv
<1>1. /\ surfaces[l] \in Seq(Surface) /\ IsInjective(surfaces[l])
      /\ layerOrder[l] \in Seq(Surface)
  BY BaseParts DEF TypeOK, TreeShape, OneOfEach, IlmTypeOK
<1>2. LayerSteps(l)
  BY LayerCases
<1>3. s \in Surface /\ LayersOf(s)' # {}
  <2>1. TypeOK'
    BY DEF BaseInv, TreeInv
  <2>2. surfaces' \in [Layer -> Seq(Surface)]
    BY <2>1 DEF TypeOK
  <2>3. s \in Surface
    BY <2>2, MembersTyped
  <2>4. Contains(surfaces'[l], s)
    BY <2>2, ContainsMember
  <2> QED BY <2>3, <2>4 DEF LayersOf
<1>4. s \notin lost /\ (s \in ToSet(surfaces[l]) => s \in registered)
  <2>1. s \notin lost /\ (LayersOf(s) # {} => s \in registered)
    BY <1>3, NotLost
  <2>2. s \in ToSet(surfaces[l]) => LayersOf(s) # {}
    BY BaseParts, ListedOn
  <2> QED BY <2>1, <2>2
<1>5. CASE Untouched(l)
  <2>1. /\ Placed(l) /\ ~InWork(l) /\ layerOrder'[l] = layerOrder[l]
        /\ s \in ToSet(surfaces[l])
        /\ HandleConfigured => Head(pipe).id # s
    BY <1>4, <1>5 DEF Untouched
  <2>2. s \in alive => s \in ToSet(layerOrder[l]) \/ Awaited(s)
    BY <1>4, <2>1 DEF ShowInv
  <2> QED BY <1>4, <2>1, <2>2, AwaitedStep
<1>6. CASE Rendered(l)
  <2>1. ToSet(layerOrder'[l]) = ToSet(surfaces[l]) \cap alive
    BY <1>1, <1>6, KeptSet DEF Rendered
  <2> QED BY <1>6, <2>1 DEF Rendered
<1>7. CASE LosesSurface(l)
  <2>1. PICK t \in Surface : /\ alive' = alive \ {t}
                             /\ layerOrder'[l] = Without(layerOrder[l], t)
    BY <1>7 DEF LosesSurface
  <2>2. /\ Placed(l) /\ ~InWork(l) /\ s \in ToSet(surfaces[l]) /\ s \in alive
        /\ ~HandleConfigured /\ s # t
    BY <1>7, <2>1 DEF LosesSurface
  <2>3. s \in ToSet(layerOrder[l]) \/ Awaited(s)
    BY <1>4, <2>2 DEF ShowInv
  <2>4. s \in ToSet(layerOrder[l]) => s \in ToSet(layerOrder'[l])
    BY <1>1, <2>1, <2>2, WithoutSet
  <2> QED BY <1>4, <2>2, <2>3, <2>4, AwaitedStep
<1>8. CASE DropsSurface(l)
  <2>1. PICK t \in Surface :
          /\ surfaces'[l] = PopElement(surfaces[l], t)
          /\ layerOrder'[l] = IF t \in alive THEN Without(layerOrder[l], t)
                                             ELSE layerOrder[l]
    BY <1>8 DEF DropsSurface
  <2>2. s \in ToSet(surfaces[l]) /\ s # t
    BY <1>1, <2>1, PopElementSet
  <2>3. /\ Placed(l) /\ ~InWork(l) /\ s \in alive /\ ~HandleConfigured
    BY <1>8 DEF DropsSurface
  <2>4. s \in ToSet(layerOrder[l]) \/ Awaited(s)
    BY <1>4, <2>2, <2>3 DEF ShowInv
  <2>5. s \in ToSet(layerOrder[l]) => s \in ToSet(layerOrder'[l])
    BY <1>1, <2>1, <2>2, WithoutSet
  <2> QED BY <1>4, <2>2, <2>3, <2>4, <2>5, AwaitedStep
<1> QED BY <1>2, <1>5, <1>6, <1>7, <1>8 DEF LayerSteps

(* A surface that stays on a layer, with the layout it has.                 *)
LEMMA LookKept ==
  ASSUME ReplayOnRegister, BaseInv, LookInv, [Next]_vars,
         NEW s \in alive \cap alive', s \in Surface, LayersOf(s) # {},
         s \notin lost, s \in registered,
         surfaceLook'[s] = surfaceLook[s], propLook'[s] = propLook[s],
         HandleConfigured => Head(pipe).id # s
  PROVE  surfaceLook'[s] = propLook'[s] \/ Awaited(s)'
BY AwaitedStep DEF LookInv

(* Properties that survive a release keep the layout.                       *)
LEMMA ReleaseLook ==
  ASSUME NEW drops, Release(drops), NEW s \in Surface, s \in registered'
  PROVE  propLook'[s] = propLook[s]
<1> DEFINE kept == {t \in registered :
             (IF refcnt[t] = 0 THEN CountMod ELSE refcnt[t]) - drops[t] > 0}
<1>1. /\ registered' = kept
      /\ propLook' = [t \in Surface |-> IF t \in kept THEN propLook[t] ELSE NoLook]
  BY DEF Release
<1> HIDE DEF kept
<1> QED BY <1>1

(* The handling of a configuration lays the surface out.                    *)
LEMMA LookConfigured ==
  ASSUME BaseInv, HandleConfigured,
         NEW s \in alive, s \in Surface, LayersOf(s) # {}, s \in registered
  PROVE  /\ propLook' = propLook
         /\ Head(pipe).id = s => surfaceLook'[s] = propLook'[s]
         /\ Head(pipe).id # s => surfaceLook'[s] = surfaceLook[s]
<1>1. propLook' = propLook
  BY DEF HandleConfigured, propVars
<1>2. TypeOK /\ LayersListed /\ WorkInv /\ surfaceLook \in [Surface -> Look \cup {NoLook}]
  BY BaseParts DEF IlmTypeOK
<1>3. CASE Head(pipe).id = s
  <2>1. PICK l \in Layer : l \in LayersOf(s)
    BY DEF LayersOf
  <2>2. surfaces[l] # <<>>
    BY <1>2, <2>1, OnLayer, EmptySequence
  <2>3. InTree(l)
    BY <1>2, <2>2, PlacedInTree DEF WorkInv
  <2>4. {k \in LayersOf(s) : InTree(k)} # {}
    BY <2>1, <2>3
  <2>5. SetSurface(s, propLook[s])
    BY <1>1, <1>3, <2>4 DEF HandleConfigured, ShowSurface
  <2> QED BY <1>1, <1>2, <1>3, <2>5 DEF SetSurface
<1>4. CASE Head(pipe).id # s
  <2>1. \/ surfaceLook' = surfaceLook
        \/ SetSurface(Head(pipe).id, propLook[Head(pipe).id])
    BY DEF HandleConfigured, ShowSurface
  <2> QED BY <1>1, <1>2, <1>4, <2>1 DEF SetSurface
<1> QED BY <1>3, <1>4

(* A surface loses layers and keeps its layouts, or both layouts are set.   *)
LEMMA LookSteps ==
  ASSUME BaseInv, BaseInv', [Next]_vars, ~HandleConfigured,
         NEW s \in alive \cap alive', s \in Surface, LayersOf(s)' # {},
         s \in registered'
  PROVE  \/ surfaceLook'[s] = propLook'[s]
         \/ /\ LayersOf(s) # {}
            /\ surfaceLook'[s] = surfaceLook[s]
            /\ propLook'[s] = propLook[s]
<1> USE DEF treeVars, propVars, loopVars, ilmVars
<1> DEFINE Kept2 == /\ LayersOf(s) # {}
                    /\ surfaceLook'[s] = surfaceLook[s]
                    /\ propLook'[s] = propLook[s]
           Goal == surfaceLook'[s] = propLook'[s] \/ Kept2
<1>0. /\ TypeOK /\ TypeOK' /\ TreeShape
      /\ surfaceLook \in [Surface -> Look \cup {NoLook}]
      /\ propLook \in [Surface -> Look \cup {NoLook}]
  <2>1. TypeOK /\ TreeShape /\ IlmTypeOK
    BY BaseParts
  <2>2. TypeOK'
    BY DEF BaseInv, TreeInv
  <2> QED BY <2>1, <2>2 DEF IlmTypeOK, TypeOK
<1>1. ASSUME NEW l \in Layer, NEW list, surfaces' = [surfaces EXCEPT ![l] = list],
             s \in ToSet(list) => s \in ToSet(surfaces[l])
      PROVE  LayersOf(s) # {}
  BY <1>0, <1>1, OneListChanges
<1>2. CASE surfaces' = surfaces /\ propLook' = propLook /\ surfaceLook' = surfaceLook
  BY <1>2 DEF LayersOf
<1>3. CASE World
  <2>1. /\ surfaces' = surfaces /\ propLook' = propLook
        /\ surfaceLook' = surfaceLook
             \/ \E t \in Surface : /\ surfaceLook' = [surfaceLook EXCEPT ![t] = NoLook]
                                   /\ alive' = alive \ {t}
    BY <1>3 DEF World, Applications, SurfaceAppears, SurfaceDisappears,
                SurfaceConfigures
  <2>2. surfaceLook'[s] = surfaceLook[s]
    BY <1>0, <2>1
  <2> QED BY <2>1, <2>2 DEF LayersOf
<1>4. CASE StartInitialScreen
  BY <1>4 DEF StartInitialScreen, LayersOf, Contains
<1>5. ASSUME NEW l \in Layer, NEW look \in Look, AddLayer(l, look) PROVE Goal
  <2>1. propLook' = propLook /\ surfaceLook' = surfaceLook
    BY <1>5 DEF AddLayer
  <2>2. surfaces' = surfaces \/ surfaces' = [surfaces EXCEPT ![l] = <<>>]
    BY <1>5 DEF AddLayer
  <2>3. LayersOf(s) # {}
    BY <1>1, <2>2, EmptySequence DEF LayersOf
  <2> QED BY <2>1, <2>3
<1>6. ASSUME NEW l \in Layer, RemoveLayer(l) PROVE Goal
  <2>1. surfaceLook' = surfaceLook
    BY <1>6 DEF RemoveLayer
  <2>2. surfaces' = surfaces \/ surfaces' = [surfaces EXCEPT ![l] = <<>>]
    BY <1>6 DEF RemoveLayer
  <2>3. LayersOf(s) # {}
    BY <1>1, <2>2, EmptySequence DEF LayersOf
  <2>4. propLook'[s] = propLook[s]
    <3>1. propLook' = propLook \/ \E drops : Release(drops)
      BY <1>6 DEF RemoveLayer
    <3> QED BY <3>1, ReleaseLook
  <2> QED BY <2>1, <2>3, <2>4
<1> DEFINE here == surfaces[ctx.layer]
<1>7. pc = "surfaces" /\ cmd # "modify_surface"
        => /\ ctx.layer \in Layer /\ here \in Seq(Surface)
           /\ ctx.order \in InsertOrder
  BY <1>0 DEF TypeOK
<1>8. ASSUME NEW t \in Surface, NEW look \in Look,
             propLook' = [propLook EXCEPT ![t] = look], SetSurface(t, look),
             s # t => LayersOf(s) # {}
      PROVE  Goal
  <2>1. CASE s = t
    BY <1>0, <1>8, <2>1 DEF SetSurface
  <2>2. CASE s # t
    BY <1>0, <1>8, <2>2 DEF SetSurface
  <2> QED BY <2>1, <2>2
<1>9. ASSUME NEW t \in Surface, NEW look \in Look, NEW g \in Garbage,
             AddSurface(t, look, g)
      PROVE  Goal
  <2> DEFINE list == InsertElement(here, t, ctx.order, ctx.ref)
  <2>1. /\ pc = "surfaces" /\ cmd # "modify_surface"
        /\ surfaces' = [surfaces EXCEPT ![ctx.layer] = list]
        /\ propLook' = [propLook EXCEPT ![t] = look] /\ SetSurface(t, look)
    BY <1>9 DEF AddSurface, AddsSurfaces, Building, Reference
  <2>2. ToSet(list) \subseteq ToSet(here) \cup {t}
    <3>1. LET ins == InsertElement(here, t, ctx.order, ctx.ref)
          IN  ToSet(ins) = ToSet(here)
                             \cup (IF ctx.order = NoOrder THEN {} ELSE {t})
      BY <1>7, <2>1, InsertElementSet
    <3> QED BY <3>1
  <2> HIDE DEF list, Goal
  <2>3. s # t => LayersOf(s) # {}
    BY <1>1, <1>7, <2>1, <2>2
  <2> QED BY <1>8, <2>1, <2>3
<1>10. ASSUME NEW t \in Surface, NEW look \in Look, UpdateSurface(t, look)
       PROVE  Goal
  <2> DEFINE rest == PopElement(here, t)
             list == InsertElement(rest, t, ctx.order, ctx.ref)
  <2>1. /\ pc = "surfaces" /\ cmd # "modify_surface"
        /\ surfaces' = [surfaces EXCEPT ![ctx.layer] = list]
        /\ propLook' = [propLook EXCEPT ![t] = look] /\ SetSurface(t, look)
    BY <1>10 DEF UpdateSurface, AddsSurfaces, Building
  <2>2. rest \in Seq(Surface) /\ ToSet(rest) \subseteq ToSet(here)
    BY <1>7, <2>1, PopElementSet
  <2>3. ToSet(list) \subseteq ToSet(here) \cup {t}
    <3> HIDE DEF rest
    <3>1. LET ins == InsertElement(rest, t, ctx.order, ctx.ref)
          IN  ToSet(ins) = ToSet(rest)
                             \cup (IF ctx.order = NoOrder THEN {} ELSE {t})
      BY <1>7, <2>1, <2>2, InsertElementSet
    <3> QED BY <2>2, <3>1
  <2> HIDE DEF list, Goal
  <2>4. s # t => LayersOf(s) # {}
    BY <1>1, <1>7, <2>1, <2>3
  <2> QED BY <1>8, <2>1, <2>4
<1>11. ASSUME NEW t \in Surface, NEW look \in Look, ModifySurface(t, look)
       PROVE  Goal
  <2>1. /\ surfaces' = surfaces
        /\ propLook' = [propLook EXCEPT ![t] = look] /\ SetSurface(t, look)
    BY <1>11 DEF ModifySurface
  <2>2. LayersOf(s) # {}
    BY <2>1 DEF LayersOf
  <2> HIDE DEF Goal
  <2> QED BY <1>8, <2>1, <2>2
<1>12. ASSUME NEW t \in Surface, RemoveSurface(t) PROVE Goal
  <2> DEFINE rest == PopElement(here, t)
  <2>1. /\ pc = "surfaces" /\ cmd = "remove_surface" /\ surfaceLook' = surfaceLook
        /\ surfaces' = [surfaces EXCEPT ![ctx.layer] = rest]
        /\ \E drops : Release(drops)
    BY <1>12 DEF RemoveSurface
  <2>2. ToSet(rest) \subseteq ToSet(here)
    BY <1>7, <2>1, PopElementSet
  <2> HIDE DEF rest
  <2>3. LayersOf(s) # {}
    BY <1>1, <1>7, <2>1, <2>2
  <2>4. propLook'[s] = propLook[s]
    BY <2>1, ReleaseLook
  <2> QED BY <2>1, <2>3, <2>4
<1>13. CASE \/ HandleCreated \/ NoCommand \/ UNCHANGED vars
            \/ \E c \in Commands : StartCommand(c)
            \/ \E c \in Screen : BuildScreen(c)
            \/ BuildUnknownScreen
            \/ \E c \in Screen, ins \in InsertInfo(Layer) : AddLayerScreen(c, ins)
            \/ \E ins \in InsertInfo(Surface) : AddSurfaceScreen(ins)
            \/ \E l \in Layer, look \in Look : ModifyLayer(l, look)
            \/ \E l \in Layer : EnterLayer(l)
            \/ \E t \in Surface : UpdateUnregistered(t)
            \/ ModifyUnknownSurface \/ EndOfArray \/ ReturnEarly
  <2>1. surfaces' = surfaces /\ propLook' = propLook /\ surfaceLook' = surfaceLook
    BY <1>13 DEF HandleCreated, NoCommand, vars, StartCommand, BuildScreen,
      BuildUnknownScreen, AddLayerScreen, AddSurfaceScreen, ModifyLayer,
      EnterLayer, UpdateUnregistered, ModifyUnknownSurface, EndOfArray,
      EndScreens, EndLayers, EndSurfaces, ReturnEarly
  <2> QED BY <1>2, <2>1
<1> QED BY <1>3, <1>4, <1>5, <1>6, <1>9, <1>10, <1>11, <1>12, <1>13 DEF Next, Main

(* Layers are laid out as the tree says.                                    *)
LEMMA LaidStep ==
  ASSUME BaseInv, LaidInv, [Next]_vars
  PROVE  LaidInv'
<1> USE DEF treeVars, propVars, loopVars, ilmVars
<1>0. /\ TypeOK /\ TreePart /\ LayersListed
      /\ layerProp \in [Layer -> Look \cup {NoLook}]
      /\ layerLook \in [Layer -> Look \cup {NoLook}]
  BY BaseParts DEF IlmTypeOK, TypeOK
<1>1. CASE UNCHANGED <<layers, layerProp, layerLook>>
  BY <1>1 DEF LaidInv, Placed
<1>2. CASE StartInitialScreen
  BY <1>2, EmptySequence DEF StartInitialScreen, LaidInv, Placed
<1>3. ASSUME NEW l \in Layer, NEW look \in Look, AddLayer(l, look)
      PROVE  LaidInv'
  <2>1. layerLook' = [k \in Layer |-> IF k = l THEN look ELSE layerLook[k]]
    BY <1>3 DEF AddLayer, SetLayers
  <2>2. /\ layerProp' = [layerProp EXCEPT ![l] = layerProp'[l]]
        /\ ctx.order # NoOrder => layerProp'[l] = look
    BY <1>0, <1>3 DEF AddLayer
  <2>3. /\ ctx.screen \in Screen
        /\ \A d \in Screen : ToSet(layers'[d]) =
             (ToSet(layers[d]) \ {l})
               \cup (IF d = ctx.screen /\ ctx.order # NoOrder THEN {l} ELSE {})
    BY <1>0, <1>3, AddLayerSets
  <2>4. \A k \in Layer : k # l /\ Placed(k)' => Placed(k)
    BY <2>3 DEF Placed
  <2>5. Placed(l)' => ctx.order # NoOrder
    BY <2>3 DEF Placed
  <2> QED BY <1>0, <2>1, <2>2, <2>4, <2>5 DEF LaidInv
<1>4. ASSUME NEW l \in Layer, RemoveLayer(l) PROVE LaidInv'
  <2>1. \A d \in Screen : ToSet(layers'[d]) = ToSet(layers[d]) \ {l}
    BY <1>0, <1>4, RemoveLayerSets
  <2>2. /\ layerLook' = [layerLook EXCEPT ![l] = NoLook]
        /\ layerProp' = [layerProp EXCEPT ![l] = layerProp'[l]]
    BY <1>0, <1>4 DEF RemoveLayer, DestroyLayer
  <2>3. \A k \in Layer : Placed(k)' => Placed(k) /\ k # l
    BY <2>1 DEF Placed
  <2> QED BY <1>0, <2>2, <2>3 DEF LaidInv
<1>5. ASSUME NEW l \in Layer, NEW look \in Look, ModifyLayer(l, look)
      PROVE  LaidInv'
  <2>1. /\ layerLook' = [k \in Layer |-> IF k = l THEN look ELSE layerLook[k]]
        /\ layerProp' = [layerProp EXCEPT ![l] = look] /\ layers' = layers
    BY <1>5 DEF ModifyLayer, SetLayers
  <2> QED BY <1>0, <2>1 DEF LaidInv, Placed
<1>6. CASE EndLayers
  <2>1. /\ UNCHANGED <<layers, layerProp>>
        /\ \/ layerLook' = layerLook
           \/ \E L : layerLook' = [k \in Layer |-> IF k \in L THEN layerProp[k]
                                                             ELSE layerLook[k]]
    BY <1>6 DEF EndLayers, SetLayers
  <2> QED BY <1>0, <2>1 DEF LaidInv, Placed
<1>7. CASE \/ HandleCreated \/ HandleConfigured \/ NoCommand \/ World
           \/ UNCHANGED vars
           \/ \E c \in Commands : StartCommand(c)
           \/ \E c \in Screen : BuildScreen(c)
           \/ BuildUnknownScreen
           \/ \E c \in Screen, ins \in InsertInfo(Layer) : AddLayerScreen(c, ins)
           \/ \E ins \in InsertInfo(Surface) : AddSurfaceScreen(ins)
           \/ \E l \in Layer : EnterLayer(l)
           \/ \E s \in Surface, look \in Look, g \in Garbage : AddSurface(s, look, g)
           \/ \E s \in Surface, look \in Look : UpdateSurface(s, look)
           \/ \E s \in Surface : UpdateUnregistered(s)
           \/ \E s \in Surface : RemoveSurface(s)
           \/ \E s \in Surface, look \in Look : ModifySurface(s, look)
           \/ ModifyUnknownSurface \/ EndScreens \/ EndSurfaces \/ ReturnEarly
  <2>1. UNCHANGED <<layers, layerProp, layerLook>>
    BY <1>7 DEF HandleCreated, HandleConfigured, NoCommand, World, Applications,
      SurfaceAppears, SurfaceDisappears, SurfaceConfigures, vars, StartCommand,
      BuildScreen, BuildUnknownScreen, AddLayerScreen, AddSurfaceScreen,
      EnterLayer, AddSurface, UpdateSurface, UpdateUnregistered, RemoveSurface,
      ModifySurface, ModifyUnknownSurface, EndScreens, EndSurfaces, ReturnEarly
  <2> QED BY <1>1, <2>1
<1> QED BY <1>2, <1>3, <1>4, <1>5, <1>6, <1>7 DEF Next, Main, EndOfArray

(* Surfaces of layers are laid out as the tree says, or will be.            *)
LEMMA LookStep ==
  ASSUME ReplayOnRegister, BaseInv, BaseInv', LostInv, LookInv,
         [Next]_vars, [DNext]_dvars
  PROVE  LookInv'
<1> SUFFICES ASSUME NEW s \in alive' \ lost', LayersOf(s)' # {}
             PROVE  surfaceLook'[s] = propLook'[s] \/ Awaited(s)'
  BY DEF LookInv
<1>1. s \in Surface
  BY BaseParts DEF BaseInv, OrdersInv, IlmTypeOK
<1>0. /\ s \notin lost /\ s \in registered'
      /\ LayersOf(s) # {} => s \in registered
  BY <1>1, NotLost
<1>2. CASE s \notin alive
  BY <1>2, AwaitedStep
<1>3. CASE s \in alive /\ HandleConfigured
  <2>1. surfaces' = surfaces
    BY <1>3 DEF HandleConfigured, treeVars
  <2>2. LayersOf(s) # {}
    BY <2>1 DEF LayersOf
  <2>3. CASE Head(pipe).id = s
    BY <1>0, <1>1, <1>3, <2>2, <2>3, LookConfigured
  <2>4. CASE Head(pipe).id # s
    <3>1. surfaceLook'[s] = surfaceLook[s] /\ propLook'[s] = propLook[s]
      BY <1>0, <1>1, <1>3, <2>2, <2>4, LookConfigured
    <3> QED BY <1>0, <1>1, <1>3, <2>2, <2>4, <3>1, LookKept
  <2> QED BY <2>3, <2>4
<1>4. CASE s \in alive /\ ~HandleConfigured
  <2>1. \/ surfaceLook'[s] = propLook'[s]
        \/ /\ LayersOf(s) # {}
           /\ surfaceLook'[s] = surfaceLook[s]
           /\ propLook'[s] = propLook[s]
    BY <1>0, <1>1, <1>4, LookSteps
  <2> QED BY <1>0, <1>1, <1>4, <2>1, LookKept
<1> QED BY <1>2, <1>3, <1>4

(* Once every event is handled, each layer of the tree shows all its        *)
(* surfaces that exist, and layers and surfaces have the layout that the    *)
(* tree holds for them, whatever raced with the applications and whatever   *)
(* the counts started from, but for surfaces that lost their properties     *)
(* while on a layer: where the controller announces the surfaces it has     *)
(* when the callback is registered, and messages have their keys.           *)
THEOREM Settled ==
  ASSUME ~Malformed, ReplayOnRegister
  PROVE  DSpec => []SettledDisplay
<1> DEFINE Shown == ShowInv /\ LookInv /\ LaidInv /\ LostInv
<1>1. DInit => Shown
  <2> SUFFICES ASSUME DInit PROVE Shown
    OBVIOUS
  <2>1. /\ ~listening /\ layers = [c \in Screen |-> <<>>] /\ lost = Orphans
    BY DEF DInit, Init, IlmInit
  <2> QED BY <2>1, EmptySequence
       DEF ShowInv, LookInv, LaidInv, LostInv, Placed, Awaited
<1>2. [DNext]_dvars => [Next]_vars
  BY DEF DNext, dvars
<1>3. Shown /\ BaseInv /\ BaseInv' /\ [DNext]_dvars => Shown'
  BY <1>2, ShowStep, LookStep, LaidStep, LostStep
<1>4. BaseInv /\ FollowInv /\ Shown => SettledDisplay
  <2> SUFFICES ASSUME BaseInv, FollowInv, Shown,
                      pc = "poll", cmd = "idle", pipe = <<>>,
                      NEW c \in ToSet(screens), NEW l \in ToSet(layers[c])
               PROVE  /\ layerLook[l] = layerProp[l]
                      /\ \A s \in (ToSet(surfaces[l]) \cap alive) \ lost :
                           /\ Contains(layerOrder[l], s)
                           /\ surfaceLook[s] = propLook[s]
    BY DEF SettledDisplay
  <2>1. c \in Screen /\ l \in Layer /\ Placed(l)
    <3>1. c \in Screen
      BY BaseParts, MembersTyped DEF TypeOK
    <3>2. l \in Layer
      BY <3>1, BaseParts, MembersTyped DEF TypeOK
    <3> QED BY <3>1, <3>2 DEF Placed
  <2>2. ~InWork(l)
    BY DEF InWork, BuildsScreen
  <2>3. \A s : ~Awaited(s)
    BY BaseParts DEF Awaited, Pending, WorkInv
  <2>4. ASSUME NEW s \in (ToSet(surfaces[l]) \cap alive) \ lost
        PROVE  Contains(layerOrder[l], s) /\ surfaceLook[s] = propLook[s]
    <3>1. s \in ToSet(layerOrder[l])
      BY <2>1, <2>2, <2>3 DEF ShowInv
    <3>2. layerOrder[l] \in Seq(Surface)
      BY <2>1, BaseParts DEF IlmTypeOK
    <3>3. LayersOf(s) # {}
      BY <2>1, BaseParts, ListedOn
    <3> QED BY <2>3, <3>1, <3>2, <3>3, ContainsMember DEF LookInv
  <2> QED BY <2>1, <2>4 DEF LaidInv
<1> HIDE DEF Shown
<1>5. DSpec => Spec
  BY <1>2, PTL DEF DSpec, DInit, Spec
<1>6. Spec => [](BaseInv /\ FollowInv)
  BY FollowInvariant
<1> QED BY <1>1, <1>3, <1>4, <1>5, <1>6, PTL DEF DSpec

==============================================================================
