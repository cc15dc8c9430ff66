--------------------------- MODULE IviController ---------------------------
(***************************************************************************)
(* The other side of the ILM API: the surfaces, layers and screens that     *)
(* weston's ivi-controller holds, and the two callbacks through which it    *)
(* tells the window manager about surfaces.  None of it is in this          *)
(* repository; it is modelled from how app/ilm_control_wrapper.c uses it:   *)
(*                                                                         *)
(*  - applications create and destroy surfaces at any time;                 *)
(*  - a layer exists from ilm_layerCreateWithDimension to ilm_layerRemove;  *)
(*  - a render order replaces the previous one, and a layer is shown on     *)
(*    one screen at a time, so listing it on a screen takes it off another; *)
(*  - a request that names a layer or a screen the controller does not      *)
(*    have fails, and the wrapper then ends the process (wrap_ilm_exit).    *)
(*                                                                         *)
(* The callbacks only write an event to a pipe the main loop reads.         *)
(***************************************************************************)
EXTENDS TailQueue

CONSTANTS
  Screen,           \* screen ids that messages may name
  Connected,        \* the screens that ilm_getScreenIDs reports
  Layer,            \* layer ids
  Surface,          \* surface ids
  Look,             \* values of layout_properties_t that are told apart
  NoLook,           \* the layout of an object nobody has laid out yet
  ReplayOnRegister, \* does registering announce the surfaces that exist?
  PipeMax           \* bound: applications act while the pipe is shorter

ASSUME ScreenAssumption == Connected \subseteq Screen
ASSUME LookAssumption == NoLook \notin Look
ASSUME ReplayAssumption == ReplayOnRegister \in BOOLEAN
ASSUME PipeAssumption == PipeMax \in Nat \ {0}

VARIABLES
  alive,        \* surfaces that exist (ilm_getSurfaceIDs)
  ilmLayers,    \* layers that exist (ilm_getLayerIDs)
  layerOrder,   \* render order of each layer: surfaces, bottom first
  screenOrder,  \* render order of each screen: layers, bottom first
  surfaceLook,  \* layout applied to each surface
  layerLook,    \* layout applied to each layer
  notified,     \* surfaces with a registered property callback
  listening,    \* is notification_callback registered?
  pipe          \* events written by the callbacks, oldest first

ilmVars == <<alive, ilmLayers, layerOrder, screenOrder, surfaceLook,
             layerLook, notified, listening, pipe>>

(* cbdata: NTF_TYPE_CREATION_DELECTION and NTF_TYPE_SURFACE_PROP_CHANGE. *)
Event == [type : {"created", "configured"}, id : Surface]
CreatedEvent(s) == [type |-> "created", id |-> s]
ConfiguredEvent(s) == [type |-> "configured", id |-> s]

(* The state of the controller, and of the events on their way. *)
IlmTypeOK ==
  /\ alive \subseteq Surface
  /\ ilmLayers \subseteq Layer
  /\ layerOrder \in [Layer -> Seq(Surface)]
  /\ screenOrder \in [Screen -> Seq(Layer)]
  /\ surfaceLook \in [Surface -> Look \cup {NoLook}]
  /\ layerLook \in [Layer -> Look \cup {NoLook}]
  /\ notified \subseteq alive
  /\ listening \in BOOLEAN
  /\ pipe \in Seq(Event)

(* Applications may be running before the window manager starts. *)
IlmInit ==
  /\ alive \in SUBSET Surface
  /\ ilmLayers = {}
  /\ layerOrder = [l \in Layer |-> <<>>]
  /\ screenOrder = [c \in Screen |-> <<>>]
  /\ surfaceLook = [s \in Surface |-> NoLook]
  /\ layerLook = [l \in Layer |-> NoLook]
  /\ notified = {}
  /\ listening = FALSE
  /\ pipe = <<>>

-----------------------------------------------------------------------------
(***************************************************************************)
(* What applications do, and the callbacks it provokes.                     *)
(***************************************************************************)

(* A surface appears; notification_callback reports its creation. *)
SurfaceAppears(s) ==
  /\ s \notin alive
  /\ Len(pipe) < PipeMax
  /\ alive' = alive \cup {s}
  /\ pipe' = IF listening THEN Append(pipe, CreatedEvent(s)) ELSE pipe
  /\ UNCHANGED <<ilmLayers, layerOrder, screenOrder, surfaceLook, layerLook,
                 notified, listening>>

(* A surface goes away and takes its layout, its places in the render      *)
(* orders and its callback with it; its deletion is not reported.          *)
SurfaceDisappears(s) ==
  /\ s \in alive
  /\ alive' = alive \ {s}
  /\ layerOrder' = [l \in Layer |-> Without(layerOrder[l], s)]
  /\ surfaceLook' = [surfaceLook EXCEPT ![s] = NoLook]
  /\ notified' = notified \ {s}
  /\ UNCHANGED <<ilmLayers, screenOrder, layerLook, listening, pipe>>

(* An application configures a surface; surface_notification_callback      *)
(* reports it if it is registered.                                         *)
SurfaceConfigures(s) ==
  /\ s \in notified
  /\ Len(pipe) < PipeMax
  /\ pipe' = Append(pipe, ConfiguredEvent(s))
  /\ UNCHANGED <<alive, ilmLayers, layerOrder, screenOrder, surfaceLook,
                 layerLook, notified, listening>>

Applications ==
  \E s \in Surface : \/ SurfaceAppears(s)
                     \/ SurfaceDisappears(s)
                     \/ SurfaceConfigures(s)

-----------------------------------------------------------------------------
(***************************************************************************)
(* What the wrapper asks of the controller.  Each operator fixes the new    *)
(* value of the variables it is named for and leaves the others to the      *)
(* action that makes the request.                                           *)
(***************************************************************************)

(* The surfaces of a list that exist now, in the order of the list. *)
Existing(list) == Kept(list, alive)

(* A slip: the callback is registered where it should be dropped, and the  *)
(* surface is not looked up.                                               *)
SetSurfaceBlindly(s, look) ==
  /\ surfaceLook' = [surfaceLook EXCEPT ![s] = look]
  /\ notified' = notified \cup {s}

(* wrap_ilm_set_surface: nothing happens to a surface that does not exist. *)
SetSurface(s, look) ==
  /\ surfaceLook' = IF s \in alive THEN [surfaceLook EXCEPT ![s] = look]
                                   ELSE surfaceLook
  /\ notified' = IF s \in alive THEN notified \ {s} ELSE notified

(* A slip: wrap_ilm_create_layer is not called. *)
SetLayersUncreated(L, look) ==
  /\ layerLook' = [l \in Layer |-> IF l \in L THEN look[l] ELSE layerLook[l]]
  /\ UNCHANGED ilmLayers

(* wrap_ilm_set_layer for each layer of L, created first if need be. *)
SetLayers(L, look) ==
  /\ ilmLayers' = ilmLayers \cup L
  /\ layerLook' = [l \in Layer |-> IF l \in L THEN look[l] ELSE layerLook[l]]

(* A slip: the array of a render order is filled from its end. *)
RenderSurfacesReversed(L, lists) ==
  layerOrder' = [l \in Layer |-> IF l \in L THEN Reverse(Existing(lists[l]))
                                            ELSE layerOrder[l]]

(* add_exists_surfaces_to_layer for each layer of L: its render order      *)
(* becomes the surfaces of its list that exist.                            *)
RenderSurfaces(L, lists) ==
  layerOrder' = [l \in Layer |-> IF l \in L THEN Existing(lists[l])
                                            ELSE layerOrder[l]]

(* wrap_ilm_add_layer_to_screen. *)
RenderLayers(c, list) ==
  screenOrder' = [d \in Screen |->
                    IF d = c THEN list
                    ELSE Kept(screenOrder[d], Layer \ ToSet(list))]

(* wrap_ilm_remove_layer: nothing happens to a layer that does not exist. *)
DestroyLayer(l) ==
  /\ ilmLayers' = ilmLayers \ {l}
  /\ layerLook' = [layerLook EXCEPT ![l] = NoLook]
  /\ layerOrder' = [layerOrder EXCEPT ![l] = <<>>]
  /\ screenOrder' = [c \in Screen |-> Without(screenOrder[c], l)]

(* wrap_ilm_remove_surface. *)
TakeOffLayer(l, s) ==
  /\ layerOrder' = IF s \in alive THEN [layerOrder EXCEPT ![l] = Without(@, s)]
                                  ELSE layerOrder
  /\ notified' = IF s \in alive THEN notified \ {s} ELSE notified

(* ilm_registerNotification. *)
Register ==
  /\ listening' = TRUE
  /\ IF ReplayOnRegister
     THEN \E q \in SetToSeqs(alive) :
            pipe' = pipe \o [i \in DOMAIN q |-> CreatedEvent(q[i])]
     ELSE UNCHANGED pipe

=============================================================================
