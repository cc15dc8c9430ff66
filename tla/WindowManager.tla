--------------------------- MODULE WindowManager ---------------------------
(***************************************************************************)
(* uhmi-ivi-wm: the tree of screens, layers and surfaces that               *)
(* app/comm_parser.c keeps, the handlers of the layout commands and of the  *)
(* surface events that change it, and the requests they make of the         *)
(* ivi-controller through app/ilm_control_wrapper.c.                        *)
(*                                                                         *)
(* The program has one thread of its own.  One step of it is one pass       *)
(* through a loop over a JSON array of the message at hand, with all the    *)
(* changes and requests of that pass, or the handling of one event.  A      *)
(* message is not stored: each pass takes an arbitrary next element or      *)
(* finds the array at its end, so every message of every length is covered. *)
(* Applications act between any two steps.                                  *)
(*                                                                         *)
(* A "screens"/"layers"/"surfaces" array missing where the handler does not *)
(* return early is an empty array; a missing "id" there is the id 0, an id  *)
(* like any other.                                                          *)
(***************************************************************************)
EXTENDS IviController

CONSTANTS
  Commands,     \* names of the commands that clients send
  InsertOrders, \* insert orders in the messages that clients send
  Malformed,    \* do messages lack keys whose absence ends a handler early?
  Garbage,      \* values an uninitialized referred_cnt can read as
  CountMod,     \* 2^32 in the program: referred_cnt is an unsigned int
  NoId          \* no screen, layer or reference

Building == {"config", "initial_screen"}  \* both run parse_all_in_screen
AllCommands == {"add_surface", "remove_surface", "modify_surface",
                "add_layer", "remove_layer", "modify_layer",
                "initial_screen"}

ASSUME CommandAssumption == Commands \subseteq AllCommands
ASSUME OrderAssumption == InsertOrders \subseteq InsertOrder
ASSUME MalformedAssumption == Malformed \in BOOLEAN
ASSUME CountAssumption == /\ CountMod \in Nat \ {0}
                          /\ Garbage \subseteq 0 .. CountMod - 1
ASSUME FiniteAssumption ==
  IsFiniteSet(Layer) /\ IsFiniteSet(Connected) /\ IsFiniteSet(Surface)
ASSUME NoIdAssumption == NoId \notin Screen \cup Layer \cup Surface

VARIABLES
  screens,    \* screen_head: list of screens
  layers,     \* the layer list of each screen, empty if not in screen_head
  surfaces,   \* the surface list of each layer, empty if in no layer list
  layerProp,  \* layout of each layer of the tree
  registered, \* ids of the elements of surface_properties_head
  refcnt,     \* their referred_cnt
  propLook,   \* their layout
  process,    \* "running", "crashed" by a NULL dereference, or "exited"
  pc,         \* which loop of which handler is at its head
  cmd,        \* the command being handled
  ctx         \* screen, layer and insert order of the enclosing loops

treeVars == <<screens, layers, surfaces, layerProp>>
propVars == <<registered, refcnt, propLook>>
loopVars == <<process, pc, cmd, ctx>>
vars == <<treeVars, propVars, loopVars, ilmVars>>

NoCtx == [screen |-> NoId, layer |-> NoId,
          order |-> AppendTail, ref |-> NoId]

(* Every variable has its type, and the loop at hand has its screen or its *)
(* layer: no handler uses a screen_elm or layer_elm it has not set.        *)
TypeOK ==
  /\ screens \in Seq(Screen)
  /\ layers \in [Screen -> Seq(Layer)]
  /\ surfaces \in [Layer -> Seq(Surface)]
  /\ layerProp \in [Layer -> Look \cup {NoLook}]
  /\ registered \in SUBSET Surface
  /\ refcnt \in [Surface -> 0 .. CountMod - 1]
  /\ propLook \in [Surface -> Look \cup {NoLook}]
  /\ process \in {"running", "crashed", "exited"}
  /\ pc \in {"poll", "client", "screens", "layers", "surfaces"}
  /\ cmd \in AllCommands \cup {"config", "idle"}
  /\ ctx \in [screen : Screen \cup {NoId}, layer : Layer \cup {NoId},
              order : InsertOrder, ref : Layer \cup Surface \cup {NoId}]
  /\ pc = "layers" /\ cmd \in Building \cup {"add_layer"}
       => ctx.screen \in Screen
  /\ pc = "surfaces" /\ cmd \in Building => ctx.screen \in Screen
  /\ pc = "surfaces" /\ cmd # "modify_surface" => ctx.layer \in Layer

Init ==
  /\ IlmInit
  /\ screens = <<>>
  /\ layers = [c \in Screen |-> <<>>]
  /\ surfaces = [l \in Layer |-> <<>>]
  /\ layerProp = [l \in Layer |-> NoLook]
  /\ registered = {}
  /\ refcnt = [s \in Surface |-> 0]
  /\ propLook = [s \in Surface |-> NoLook]
  /\ process = "running"
  /\ pc = "screens"
  /\ cmd = "config"
  /\ ctx = NoCtx

-----------------------------------------------------------------------------
(***************************************************************************)
(* The tree.                                                                *)
(***************************************************************************)

(* get_layer: is a layer with this id in the list of some screen? *)
InTree(l) == \E i \in DOMAIN screens : Contains(layers[screens[i]], l)

(* The first screen, in list order, that has the layer; 0 if none does. *)
HomeOf(l) == SelectInSeq(screens, LAMBDA c : Contains(layers[c], l))

(* A slip: only the first screen is searched. *)
PopLayerOfFirst(l) ==
  IF screens = <<>> THEN layers
  ELSE [layers EXCEPT ![screens[1]] = PopElement(@, l)]

(* pop_layer: the layer lists once the layer is unlinked. *)
PopLayer(l) ==
  IF HomeOf(l) = 0 THEN layers
  ELSE [layers EXCEPT ![screens[HomeOf(l)]] = PopElement(@, l)]

(* The layers that a surface is on. *)
LayersOf(s) == {l \in Layer : Contains(surfaces[l], s)}

(* A slip: a layer is freed without its references to properties. *)
ReleaseForgotten(drops) == UNCHANGED propVars

(***************************************************************************)
(* remove_surface_properties, called drops[s] times for each surface s.     *)
(* The count is decremented before it is compared with 0, so it wraps       *)
(* around at 0; reaching 0 frees the element, and further calls find none.  *)
(***************************************************************************)
Release(drops) ==
  LET left(s) == (IF refcnt[s] = 0 THEN CountMod ELSE refcnt[s]) - drops[s]
      kept    == {s \in registered : left(s) > 0}
  IN  /\ registered' = kept
      /\ refcnt' = [s \in Surface |->
                      IF s \in kept THEN left(s) % CountMod ELSE 0]
      /\ propLook' = [s \in Surface |->
                        IF s \in kept THEN propLook[s] ELSE NoLook]

(***************************************************************************)
(* add_surface_properties: the caller's surface_properties_t, whose         *)
(* referred_cnt is whatever was on the stack, is counted up by one and      *)
(* copied over the element, new or not.                                     *)
(***************************************************************************)
Reference(s, look, garbage) ==
  /\ registered' = registered \cup {s}
  /\ refcnt' = [refcnt EXCEPT ![s] = (garbage + 1) % CountMod]
  /\ propLook' = [propLook EXCEPT ![s] = look]

-----------------------------------------------------------------------------
(***************************************************************************)
(* Control.                                                                 *)
(***************************************************************************)

(* Go on with a loop of the same handler. *)
Loop(label, context) ==
  /\ pc' = label
  /\ ctx' = context
  /\ UNCHANGED cmd

(* The handler returns to the main loop. *)
Return ==
  /\ pc' = "poll"
  /\ cmd' = "idle"
  /\ ctx' = NoCtx

(* A request that must find its object: if it does not, wrap_ilm_exit. *)
Requires(found) == process' = IF found THEN process ELSE "exited"

(* The insert order and reference of a screen element of a message. *)
InsertInfo(ids) ==
  {[order |-> o, ref |-> r] : o \in InsertOrders \cap {Before, After}, r \in ids}
    \cup {[order |-> o, ref |-> NoId] : o \in InsertOrders \ {Before, After}}

(* init_default_config: every screen there is, as the controller lists them. *)
DefaultScreens == SetToSeqs(Connected)

(***************************************************************************)
(* The end of parser_init: the default configuration if no screen was       *)
(* configured, then the registration for surface events.                    *)
(***************************************************************************)
ConfigDone ==
  /\ screens' \in IF screens = <<>> THEN DefaultScreens ELSE {screens}
  /\ Register
  /\ Return

-----------------------------------------------------------------------------
(***************************************************************************)
(* The main loop: at most one event from the pipe, then at most one         *)
(* command, then poll again.                                                *)
(***************************************************************************)

(* wrap_ilm_set_surfaceAddNotification: a surface of the tree gets its     *)
(* property callback, and asking for its properties fires the callback.    *)
HandleCreated ==
  /\ pc = "poll" /\ pipe # <<>> /\ Head(pipe).type = "created"
  /\ pc' = "client"
  /\ LET s == Head(pipe).id
     IN  IF s \in registered /\ s \in alive
         THEN /\ notified' = notified \cup {s}
              /\ pipe' = Append(Tail(pipe), ConfiguredEvent(s))
         ELSE /\ pipe' = Tail(pipe)
              /\ UNCHANGED notified
  /\ UNCHANGED <<treeVars, propVars, process, cmd, ctx, alive, ilmLayers,
                 layerOrder, screenOrder, surfaceLook, layerLook, listening>>

(* Three slips: only the surface itself is rendered, it is not laid out,   *)
(* or the layers are not rendered.                                         *)
ShowSurfaceAlone(s, on) ==
  /\ SetSurface(s, propLook[s])
  /\ RenderSurfaces(on, [l \in Layer |-> <<s>>])
  /\ Requires(on \subseteq ilmLayers)

ShowSurfaceUnlaid(s, on) ==
  /\ RenderSurfaces(on, surfaces)
  /\ Requires(on \subseteq ilmLayers)
  /\ UNCHANGED <<surfaceLook, notified>>

ShowSurfaceUnrendered(s, on) ==
  /\ SetSurface(s, propLook[s])
  /\ Requires(on \subseteq ilmLayers)
  /\ UNCHANGED layerOrder

(* The body of parser_add_ivi_surface_by_event_notification for the layers *)
(* that list the surface: lay the surface out and render each layer.       *)
ShowSurface(s, on) ==
  /\ SetSurface(s, propLook[s])
  /\ RenderSurfaces(on, surfaces)
  /\ Requires(on \subseteq ilmLayers)

(* parser_add_ivi_surface_by_event_notification.  The properties of a      *)
(* surface that is listed are used without asking whether there are any.   *)
HandleConfigured ==
  /\ pc = "poll" /\ pipe # <<>> /\ Head(pipe).type = "configured"
  /\ pc' = "client"
  /\ pipe' = Tail(pipe)
  /\ LET s  == Head(pipe).id
         on == {l \in LayersOf(s) : InTree(l)}
     IN  \/ /\ on = {}
            /\ UNCHANGED <<process, surfaceLook, notified, layerOrder>>
         \/ /\ on # {} /\ s \notin registered
            /\ process' = "crashed"
            /\ UNCHANGED <<surfaceLook, notified, layerOrder>>
         \/ /\ on # {} /\ s \in registered
            /\ ShowSurface(s, on)
  /\ UNCHANGED <<treeVars, propVars, cmd, ctx, alive, ilmLayers, screenOrder,
                 layerLook, listening>>

(* The main loop reaches the client socket. *)
AtClient == pc = "client" \/ (pc = "poll" /\ pipe = <<>>)

NoCommand ==
  /\ pc = "client"
  /\ pc' = "poll"
  /\ UNCHANGED <<treeVars, propVars, process, cmd, ctx, ilmVars>>

(* parser_parse_recv_command finds the handler of the command. *)
StartCommand(c) ==
  /\ AtClient
  /\ c # "initial_screen"
  /\ cmd' = c
  /\ pc' = CASE c \in {"add_layer", "add_surface"} -> "screens"
             [] c \in {"remove_layer", "modify_layer", "remove_surface"}
                  -> "layers"
             [] OTHER -> "surfaces"
  /\ UNCHANGED <<treeVars, propVars, process, ctx, ilmVars>>

(* parse_init_screen_command: remove_all, then parse_all_in_screen.        *)
(* Only started while the pipe is short (a bound: registering adds to it). *)
StartInitialScreen ==
  /\ AtClient
  /\ Len(pipe) < PipeMax
  /\ cmd' = "initial_screen"
  /\ pc' = "screens"
  /\ screens' = <<>>
  /\ layers' = [c \in Screen |-> <<>>]
  /\ surfaces' = [l \in Layer |-> <<>>]
  /\ layerProp' = [l \in Layer |-> NoLook]
  /\ Release([s \in Surface |-> Cardinality(LayersOf(s))])
  /\ UNCHANGED <<process, ctx, ilmVars>>

-----------------------------------------------------------------------------
(***************************************************************************)
(* The "screens" loops: config, initial_screen, add_layer, add_surface.     *)
(***************************************************************************)

(* parse_all_in_screen, a screen that exists. *)
BuildScreen(c) ==
  /\ pc = "screens" /\ cmd \in Building
  /\ c \in Connected
  /\ screens' = IF Contains(screens, c) THEN screens ELSE Append(screens, c)
  /\ Loop("layers", [NoCtx EXCEPT !.screen = c])
  /\ UNCHANGED <<layers, surfaces, layerProp, propVars, process, ilmVars>>

(* parse_all_in_screen, a screen that does not exist: return -1.  An       *)
(* initial_screen command then ends without registering for events.        *)
BuildUnknownScreen ==
  /\ pc = "screens" /\ cmd \in Building
  /\ Screen \ Connected # {}
  /\ \/ /\ cmd = "config"
        /\ ConfigDone
        /\ UNCHANGED notified
     \/ /\ cmd = "initial_screen"
        /\ Return
        /\ UNCHANGED <<screens, listening, notified, pipe>>
  /\ UNCHANGED <<layers, surfaces, layerProp, propVars, process, alive,
                 ilmLayers, layerOrder, screenOrder, surfaceLook, layerLook>>

(* parse_add_layer_command: a screen of the tree; others are skipped. *)
AddLayerScreen(c, ins) ==
  /\ pc = "screens" /\ cmd = "add_layer"
  /\ Contains(screens, c)
  /\ Loop("layers", [NoCtx EXCEPT !.screen = c, !.order = ins.order,
                                  !.ref = ins.ref])
  /\ UNCHANGED <<treeVars, propVars, process, ilmVars>>

(* parse_add_surface_command: only the insert order of a screen matters. *)
AddSurfaceScreen(ins) ==
  /\ pc = "screens" /\ cmd = "add_surface"
  /\ Loop("layers", [NoCtx EXCEPT !.order = ins.order, !.ref = ins.ref])
  /\ UNCHANGED <<treeVars, propVars, process, ilmVars>>

EndScreens ==
  /\ pc = "screens"
  /\ \/ /\ cmd = "config"
        /\ ConfigDone
     \/ /\ cmd = "initial_screen"
        /\ Register
        /\ Return
        /\ UNCHANGED screens
     \/ /\ cmd \notin Building
        /\ Return
        /\ UNCHANGED <<screens, listening, pipe>>
  /\ UNCHANGED <<layers, surfaces, layerProp, propVars, process, alive,
                 ilmLayers, layerOrder, screenOrder, surfaceLook, layerLook,
                 notified>>

-----------------------------------------------------------------------------
(***************************************************************************)
(* The "layers" loops: all commands but modify_surface.                     *)
(***************************************************************************)

(* decide_add_or_update_layer: unlink the layer from wherever it is, link  *)
(* it into the screen at hand and lay it out.  With NoOrder it is linked   *)
(* nowhere: the element is lost with its list of surfaces.                 *)
AddLayer(l, look) ==
  /\ pc = "layers" /\ cmd \in Building \cup {"add_layer"}
  /\ layers' = [PopLayer(l) EXCEPT ![ctx.screen] =
                  InsertElement(@, l, ctx.order, ctx.ref)]
  /\ IF ctx.order = NoOrder
     THEN /\ layerProp' = [layerProp EXCEPT ![l] = NoLook]
          /\ surfaces' = [surfaces EXCEPT ![l] = <<>>]
     ELSE /\ layerProp' = [layerProp EXCEPT ![l] = look]
          /\ UNCHANGED surfaces
  /\ SetLayers({l}, [k \in {l} |-> look])
  /\ IF cmd \in Building THEN Loop("surfaces", [ctx EXCEPT !.layer = l])
                         ELSE UNCHANGED <<pc, cmd, ctx>>
  /\ UNCHANGED <<screens, propVars, process, alive, layerOrder, screenOrder,
                 surfaceLook, notified, listening, pipe>>

(* parse_remove_layer_command: remove_layer if the layer is in the tree,   *)
(* and wrap_ilm_remove_layer in any case.                                  *)
RemoveLayer(l) ==
  /\ pc = "layers" /\ cmd = "remove_layer"
  /\ IF InTree(l)
     THEN /\ layers' = PopLayer(l)
          /\ surfaces' = [surfaces EXCEPT ![l] = <<>>]
          /\ layerProp' = [layerProp EXCEPT ![l] = NoLook]
          /\ Release([s \in Surface |-> IF l \in LayersOf(s) THEN 1 ELSE 0])
     ELSE UNCHANGED <<layers, surfaces, layerProp, propVars>>
  /\ DestroyLayer(l)
  /\ UNCHANGED <<screens, loopVars, alive, surfaceLook, notified, listening,
                 pipe>>

(* parse_modify_layer_command: a layer of the tree; others are skipped. *)
ModifyLayer(l, look) ==
  /\ pc = "layers" /\ cmd = "modify_layer"
  /\ InTree(l)
  /\ layerProp' = [layerProp EXCEPT ![l] = look]
  /\ SetLayers({l}, [k \in {l} |-> look])
  /\ UNCHANGED <<screens, layers, surfaces, propVars, loopVars, alive,
                 layerOrder, screenOrder, surfaceLook, notified, listening,
                 pipe>>

(* A slip: the layer found is not kept for the loop over its surfaces. *)
EnterLayerUnset(l) ==
  /\ pc = "layers" /\ cmd \in {"add_surface", "remove_surface"}
  /\ InTree(l)
  /\ Loop("surfaces", ctx)
  /\ UNCHANGED <<treeVars, propVars, process, ilmVars>>

(* A slip: the controller is asked for the layer, not the tree. *)
EnterLayerOfController(l) ==
  /\ pc = "layers" /\ cmd \in {"add_surface", "remove_surface"}
  /\ l \in ilmLayers
  /\ Loop("surfaces", [ctx EXCEPT !.layer = l])
  /\ UNCHANGED <<treeVars, propVars, process, ilmVars>>

(* add_surface and remove_surface: on to the surfaces of a layer of the    *)
(* tree; others are skipped.                                               *)
EnterLayer(l) ==
  /\ pc = "layers" /\ cmd \in {"add_surface", "remove_surface"}
  /\ InTree(l)
  /\ Loop("surfaces", [ctx EXCEPT !.layer = l])
  /\ UNCHANGED <<treeVars, propVars, process, ilmVars>>

(* The handlers that add layers end with add_layers_to_screen: lay out     *)
(* every layer of the screen, render its surfaces, then render the screen. *)
EndLayers ==
  /\ pc = "layers"
  /\ \/ /\ cmd \in Building \cup {"add_layer"}
        /\ LET list == layers[ctx.screen]
           IN  /\ SetLayers(ToSet(list), layerProp)
               /\ RenderSurfaces(ToSet(list), surfaces)
               /\ RenderLayers(ctx.screen, list)
        /\ Requires(ctx.screen \in Connected)
        /\ Loop("screens", NoCtx)
     \/ /\ cmd = "add_surface"
        /\ Loop("screens", NoCtx)
        /\ UNCHANGED <<process, ilmLayers, layerLook, layerOrder, screenOrder>>
     \/ /\ cmd \in {"remove_layer", "modify_layer", "remove_surface"}
        /\ Return
        /\ UNCHANGED <<process, ilmLayers, layerLook, layerOrder, screenOrder>>
  /\ UNCHANGED <<treeVars, propVars, alive, surfaceLook, notified, listening,
                 pipe>>

-----------------------------------------------------------------------------
(***************************************************************************)
(* The "surfaces" loops: config, initial_screen and the surface commands.   *)
(***************************************************************************)

AddsSurfaces == Building \cup {"add_surface"}

(* decide_add_or_update_surface, a surface that is not on the layer yet.   *)
(* With NoOrder it is counted and laid out, and then linked nowhere.       *)
AddSurface(s, look, garbage) ==
  /\ pc = "surfaces" /\ cmd \in AddsSurfaces
  /\ ~Contains(surfaces[ctx.layer], s)
  /\ Reference(s, look, garbage)
  /\ surfaces' = [surfaces EXCEPT ![ctx.layer] =
                    InsertElement(@, s, ctx.order, ctx.ref)]
  /\ SetSurface(s, look)
  /\ UNCHANGED <<screens, layers, layerProp, loopVars, alive, ilmLayers,
                 layerOrder, screenOrder, layerLook, listening, pipe>>

(* decide_add_or_update_surface, a surface of the layer: its place and the *)
(* layout it shares with all its layers change, its count does not.        *)
UpdateSurface(s, look) ==
  /\ pc = "surfaces" /\ cmd \in AddsSurfaces
  /\ Contains(surfaces[ctx.layer], s)
  /\ s \in registered
  /\ propLook' = [propLook EXCEPT ![s] = look]
  /\ surfaces' = [surfaces EXCEPT ![ctx.layer] =
                    InsertElement(PopElement(@, s), s, ctx.order, ctx.ref)]
  /\ SetSurface(s, look)
  /\ UNCHANGED <<screens, layers, layerProp, registered, refcnt, loopVars,
                 alive, ilmLayers, layerOrder, screenOrder, layerLook,
                 listening, pipe>>

(* The same, when the surface's properties are gone: NULL is dereferenced. *)
UpdateUnregistered(s) ==
  /\ pc = "surfaces" /\ cmd \in AddsSurfaces
  /\ Contains(surfaces[ctx.layer], s)
  /\ s \notin registered
  /\ process' = "crashed"
  /\ UNCHANGED <<treeVars, propVars, pc, cmd, ctx, ilmVars>>

(* A slip: a reference is released whether or not the layer had the surface. *)
RemoveSurfaceUnchecked(s) ==
  /\ pc = "surfaces" /\ cmd = "remove_surface"
  /\ LET l == ctx.layer
     IN  /\ surfaces' = [surfaces EXCEPT ![l] = PopElement(@, s)]
         /\ Release([t \in Surface |-> IF t = s THEN 1 ELSE 0])
         /\ TakeOffLayer(l, s)
         /\ Requires(s \in alive => l \in ilmLayers)
  /\ UNCHANGED <<screens, layers, layerProp, pc, cmd, ctx, alive, ilmLayers,
                 screenOrder, surfaceLook, layerLook, listening, pipe>>

(* parse_remove_surface_command: remove_surface, then                      *)
(* wrap_ilm_remove_surface whether or not the layer had the surface.       *)
RemoveSurface(s) ==
  /\ pc = "surfaces" /\ cmd = "remove_surface"
  /\ LET l == ctx.layer
     IN  /\ surfaces' = [surfaces EXCEPT ![l] = PopElement(@, s)]
         /\ Release([t \in Surface |->
                       IF t = s /\ l \in LayersOf(s) THEN 1 ELSE 0])
         /\ TakeOffLayer(l, s)
         /\ Requires(s \in alive => l \in ilmLayers)
  /\ UNCHANGED <<screens, layers, layerProp, pc, cmd, ctx, alive, ilmLayers,
                 screenOrder, surfaceLook, layerLook, listening, pipe>>

(* parse_modify_surface_command: a registered surface. *)
ModifySurface(s, look) ==
  /\ pc = "surfaces" /\ cmd = "modify_surface"
  /\ s \in registered
  /\ propLook' = [propLook EXCEPT ![s] = look]
  /\ SetSurface(s, look)
  /\ UNCHANGED <<treeVars, registered, refcnt, loopVars, alive, ilmLayers,
                 layerOrder, screenOrder, layerLook, listening, pipe>>

(* parse_modify_surface_command: any other surface ends the handler. *)
ModifyUnknownSurface ==
  /\ pc = "surfaces" /\ cmd = "modify_surface"
  /\ registered # Surface
  /\ Return
  /\ UNCHANGED <<treeVars, propVars, process, ilmVars>>

(* add_surface renders the layer (add_exists_surfaces_to_layer); the       *)
(* handlers that build screens leave that to the end of the layers.        *)
EndSurfaces ==
  /\ pc = "surfaces"
  /\ \/ /\ cmd = "add_surface"
        /\ RenderSurfaces({ctx.layer}, surfaces)
        /\ Requires(ctx.layer \in ilmLayers)
        /\ Loop("layers", [ctx EXCEPT !.layer = NoId])
     \/ /\ cmd \in Building \cup {"remove_surface"}
        /\ Loop("layers", [ctx EXCEPT !.layer = NoId])
        /\ UNCHANGED <<process, layerOrder>>
     \/ /\ cmd = "modify_surface"
        /\ Return
        /\ UNCHANGED <<process, layerOrder>>
  /\ UNCHANGED <<treeVars, propVars, alive, ilmLayers, screenOrder,
                 surfaceLook, layerLook, notified, listening, pipe>>

(***************************************************************************)
(* An element without its "id", or with no array below it: these handlers   *)
(* return where they are, and what they have not rendered stays so.         *)
(***************************************************************************)
ReturnEarly ==
  /\ Malformed
  /\ \/ pc = "layers" /\ cmd \notin Building
     \/ pc = "surfaces" /\ cmd \notin Building
  /\ Return
  /\ UNCHANGED <<treeVars, propVars, process, ilmVars>>

-----------------------------------------------------------------------------
EndOfArray == EndScreens \/ EndLayers \/ EndSurfaces

Main ==
  /\ process = "running"
  /\ \/ HandleCreated
     \/ HandleConfigured
     \/ NoCommand
     \/ \E c \in Commands : StartCommand(c)
     \/ "initial_screen" \in Commands /\ StartInitialScreen
     \/ \E c \in Screen : BuildScreen(c)
     \/ BuildUnknownScreen
     \/ \E c \in Screen, ins \in InsertInfo(Layer) : AddLayerScreen(c, ins)
     \/ \E ins \in InsertInfo(Surface) : AddSurfaceScreen(ins)
     \/ \E l \in Layer, look \in Look : AddLayer(l, look)
     \/ \E l \in Layer : RemoveLayer(l)
     \/ \E l \in Layer, look \in Look : ModifyLayer(l, look)
     \/ \E l \in Layer : EnterLayer(l)
     \/ \E s \in Surface, look \in Look, g \in Garbage : AddSurface(s, look, g)
     \/ \E s \in Surface, look \in Look : UpdateSurface(s, look)
     \/ \E s \in Surface : UpdateUnregistered(s)
     \/ \E s \in Surface : RemoveSurface(s)
     \/ \E s \in Surface, look \in Look : ModifySurface(s, look)
     \/ ModifyUnknownSurface
     \/ EndOfArray
     \/ ReturnEarly

World ==
  /\ process = "running"
  /\ Applications
  /\ UNCHANGED <<treeVars, propVars, loopVars>>

Next == Main \/ World

Spec == Init /\ [][Next]_vars

(***************************************************************************)
(* The main thread is never stopped, and every array of a message is        *)
(* finite: a loop that keeps returning to its head leaves it in the end.    *)
(* Applications owe nothing.                                                *)
(***************************************************************************)
Fairness ==
  /\ WF_vars(Main)
  /\ SF_vars(process = "running" /\ EndScreens)
  /\ SF_vars(process = "running" /\ EndLayers)
  /\ SF_vars(process = "running" /\ EndSurfaces)

FairSpec == Spec /\ Fairness

-----------------------------------------------------------------------------
(***************************************************************************)
(* Safety.                                                                  *)
(***************************************************************************)

OneOfEach ==
  /\ IsInjective(screens)
  /\ \A c \in Screen : IsInjective(layers[c])
  /\ \A l \in Layer : IsInjective(surfaces[l])

OneHome ==
  \A c, d \in Screen : c # d =>
    ToSet(layers[c]) \cap ToSet(layers[d]) = {}

(* However layers are added, moved between screens and dropped, no list    *)
(* holds an id twice and no layer is in the lists of two screens: looking  *)
(* up an id, which stops at the first match, never hides another element.  *)
TreeShape == OneOfEach /\ OneHome

(* No message, however malformed, and no order of commands and events      *)
(* makes the window manager name a layer or a screen the controller does   *)
(* not have, which would end the process in wrap_ilm_exit.                 *)
NeverExits == process # "exited"

(* What the controller has: every screen and layer of the tree. *)
TreeExists ==
  /\ ToSet(screens) \subseteq Connected
  /\ \A c \in Screen : ToSet(layers[c]) \subseteq ilmLayers

(* Only screens of the tree have layers. *)
LayersListed ==
  \A c \in Screen : ToSet(layers[c]) # {} => c \in ToSet(screens)

(* The screen and the layer a handler works on are of the tree, or, when   *)
(* the layer was just lost, at least of the controller.                    *)
LoopObjects ==
  /\ pc = "layers" /\ cmd \in Building \cup {"add_layer"}
       => ctx.screen \in ToSet(screens)
  /\ pc = "surfaces" /\ cmd \in Building => ctx.screen \in ToSet(screens)
  /\ pc = "surfaces" /\ cmd # "modify_surface" => ctx.layer \in ilmLayers

(* The inductive invariant behind TreeShape and NeverExits: a layer leaves *)
(* the controller only together with its one place in the tree.            *)
TreeInv ==
  TypeOK /\ TreeShape /\ TreeExists /\ LayersListed /\ LoopObjects /\ NeverExits

(* Each layer a surface is on is counted, and its properties are there. *)
Covered(s) ==
  LayersOf(s) # {} => s \in registered /\ refcnt[s] >= Cardinality(LayersOf(s))

(* The count that add_surface_properties starts from uninitialized memory  *)
(* is all that can go wrong with it.  A count that covers a surface's      *)
(* layers goes on to cover them, through every removal of surfaces, layers *)
(* and screens, update and early return, until the surface is added once   *)
(* more and the count is overwritten; and only a surface whose layers are   *)
(* not covered makes a handler dereference properties that are gone        *)
(* ("SFC Prop None!!!" of debug_print_all_list).                            *)
OnlyAddsUncover ==
  [][/\ \A s \in Surface :
          Covered(s) /\ ~Covered(s)' =>
            pc = "surfaces" /\ cmd \in AddsSurfaces /\ s \in registered'
     /\ process' = "crashed" => \E s \in Surface : ~Covered(s)]_vars

(* The layers a surface leaves in a step, none if it joins one. *)
Left(s) == IF LayersOf(s)' \subseteq LayersOf(s)
           THEN Cardinality(LayersOf(s) \ LayersOf(s)') ELSE 0

(* Whatever the count is, a command takes one off it for each layer that   *)
(* the surface leaves, even if one message takes it off several, and frees *)
(* the properties where that brings it to 0, and nowhere else; a count of  *)
(* 0 wraps instead, and the properties then stay (comm_parser.c:180).      *)
(* Elements that a message without insert order loses are not counted off. *)
ReleasedPerLayer ==
  [][\A s \in registered :
       ctx.order # NoOrder /\ LayersOf(s)' \subseteq LayersOf(s) =>
         IF refcnt[s] \in 1 .. Left(s)
         THEN s \notin registered'
         ELSE /\ s \in registered'
              /\ refcnt'[s] = (refcnt[s] - Left(s)) % CountMod]_vars

(* Between handlers, what is on the display is stacked as the tree says:   *)
(* each screen of the tree shows exactly its layers, and no layer shows a  *)
(* surface that is not on it, or in another order than its list.           *)
StackingFollowsTree ==
  pc \in {"poll", "client"} =>
    \A c \in ToSet(screens) :
      /\ screenOrder[c] = layers[c]
      /\ \A l \in ToSet(layers[c]) :
           layerOrder[l] = Kept(surfaces[l], ToSet(layerOrder[l]))

(* The handling of an event brings surfaces onto the display: it takes     *)
(* none off it, although it renders whole layers from the tree.            *)
EventsOnlyShow ==
  [][pc = "poll" /\ pc' = "client" =>
       \A l \in Layer : ToSet(layerOrder[l]) \subseteq ToSet(layerOrder'[l])]_vars

(* What initial_screen drops from the tree without a request stays at the *)
(* controller, but is dead: no command and no event adds anything to the   *)
(* display of a screen or of a layer that is not in the tree.              *)
GhostsOnlyFade ==
  [][/\ \A c \in Screen \ (ToSet(screens) \cup ToSet(screens')) :
          ToSet(screenOrder'[c]) \subseteq ToSet(screenOrder[c])
     /\ \A l \in Layer :
          ~InTree(l) /\ ~InTree(l)' =>
            ToSet(layerOrder'[l]) \subseteq ToSet(layerOrder[l])]_vars

(* A command moves what it names and nothing else: whatever a handler, its *)
(* early returns and the lists of the tree make of a message, each step    *)
(* changes the place of one layer or of one surface only, a layer keeps    *)
(* its surfaces while it is on some screen and loses them when it leaves.  *)
TheScene == INSTANCE Scene

ImplementsScene == TheScene!Spec

(***************************************************************************)
(* Liveness.                                                                *)
(***************************************************************************)

(* README: "When a surface is detected by running a wayland app, it is     *)
(* automatically added to a layer and displayed": a surface that exists    *)
(* and is on a layer of the tree is shown on it, unless it goes away or is *)
(* taken off the layer first.                                              *)
SurfacesAreDisplayed ==
  \A l \in Layer, s \in Surface :
    s \in alive /\ Contains(surfaces[l], s) /\ InTree(l)
      ~> \/ Contains(layerOrder[l], s)
         \/ s \notin alive
         \/ ~Contains(surfaces[l], s)

=============================================================================
