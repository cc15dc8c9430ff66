------------------------------ MODULE Requests ------------------------------
(***************************************************************************)
(* The requests of app/ilm_control_wrapper.c about surfaces, call by call.  *)
(* WindowManager takes each request as one step; here a surface is looked   *)
(* up, the calls that follow change what is pending at the controller, and  *)
(* ilm_commitChanges puts it on the display.  Applications create and       *)
(* destroy surfaces between any two calls, on another thread.               *)
(*                                                                         *)
(* Layers come and go by requests of the window manager itself, so none     *)
(* can vanish during another request; only surfaces race.  A call that      *)
(* names a surface that has gone may fail, and then ends the process.       *)
(***************************************************************************)
EXTENDS TailQueue

CONSTANTS
  Surface, Layer,
  Look,       \* layouts that requests ask for
  NoLook,     \* the layout of a surface that was just created
  NoId

(* The parts of a layout, in the order of the calls of                     *)
(* wrap_ilm_set_surface.                                                    *)
Part == <<"destination", "source", "opacity", "visibility">>
Parts == ToSet(Part)

ASSUME SurfaceAssumption == IsFiniteSet(Surface)
ASSUME LookAssumption == NoLook \notin Look
ASSUME NoIdAssumption == NoId \notin Surface \cup Layer

VARIABLES
  alive,    \* surfaces that exist
  shown,    \* layout of each surface on the display, part by part
  pending,  \* the same, once committed
  order,    \* render order of each layer on the display
  pendingOrder,
  call,     \* "idle" or the wrapper function at work
  step,     \* how far it is: calls made, or surfaces looked up
  arg,      \* its arguments: surface, layer, layout, list of surfaces
  found,    \* surface_array_n
  stayed,   \* surfaces that have existed since the request began: history
  gone,     \* surfaces that went away since then: history
  process   \* "running" or "exited"

displayVars == <<shown, pending, order, pendingOrder>>
callVars == <<call, step, arg, found>>
history == <<stayed, gone>>
vars == <<alive, displayVars, callVars, history, process>>

Idle == [surface |-> NoId, layer |-> NoId, look |-> NoLook, list |-> <<>>]
Unlaid == [p \in Parts |-> NoLook]

(* The lists of surfaces that a layer may have: no surface twice. *)
Lists == {q \in SeqOf(Surface, Cardinality(Surface)) : IsInjective(q)}

(* The types; no surface is twice in a render order or among those found. *)
TypeOK ==
  /\ alive \in SUBSET Surface
  /\ shown \in [Surface -> [Parts -> Look \cup {NoLook}]]
  /\ pending \in [Surface -> [Parts -> Look \cup {NoLook}]]
  /\ order \in [Layer -> Lists]
  /\ pendingOrder \in [Layer -> Lists]
  /\ call \in {"idle", "set_surface", "remove_surface", "render", "commit"}
  /\ step \in 0 .. Max({Len(Part), Cardinality(Surface)}) + 1
  /\ found \in Lists
  /\ stayed \in SUBSET alive
  /\ gone \in SUBSET (Surface \ stayed)
  /\ process \in {"running", "exited"}

Init ==
  /\ alive \in SUBSET Surface
  /\ shown = [s \in Surface |-> Unlaid]
  /\ pending = shown
  /\ order = [l \in Layer |-> <<>>]
  /\ pendingOrder = order
  /\ call = "idle"
  /\ step = 0
  /\ arg = Idle
  /\ found = <<>>
  /\ stayed = {}
  /\ gone = {}
  /\ process = "running"

-----------------------------------------------------------------------------
(***************************************************************************)
(* Applications.                                                            *)
(***************************************************************************)

Appears(s) ==
  /\ s \notin alive
  /\ alive' = alive \cup {s}
  /\ UNCHANGED <<displayVars, callVars, history, process>>

(* The surface leaves the display and what is pending for it is dropped. *)
Disappears(s) ==
  /\ s \in alive
  /\ alive' = alive \ {s}
  /\ stayed' = stayed \ {s}
  /\ gone' = gone \cup {s}
  /\ shown' = [shown EXCEPT ![s] = Unlaid]
  /\ pending' = [pending EXCEPT ![s] = Unlaid]
  /\ order' = [l \in Layer |-> Without(order[l], s)]
  /\ pendingOrder' = [l \in Layer |-> Without(pendingOrder[l], s)]
  /\ UNCHANGED <<callVars, process>>

-----------------------------------------------------------------------------
(***************************************************************************)
(* The requests of the main thread.                                         *)
(***************************************************************************)

Begin(f, a) ==
  /\ call = "idle"
  /\ call' = f
  /\ step' = 1
  /\ arg' = a
  /\ found' = <<>>
  /\ stayed' = alive
  /\ gone' = {}
  /\ UNCHANGED <<alive, displayVars, process>>

(* wrap_ilm_set_surface and wrap_ilm_remove_surface begin by looking the   *)
(* surface up, and return if it does not exist.                            *)
BeginSetSurface(s, look) ==
  /\ s \in alive
  /\ Begin("set_surface", [Idle EXCEPT !.surface = s, !.look = look])

BeginRemoveSurface(l, s) ==
  /\ s \in alive
  /\ Begin("remove_surface", [Idle EXCEPT !.surface = s, !.layer = l])

BeginRender(l, list) ==
  Begin("render", [Idle EXCEPT !.layer = l, !.list = list])

(* A call that names surfaces may fail if one of them does not exist       *)
(* (ILM_SUCCESS != callResult): wrap_ilm_exit.                             *)
Fails(S) ==
  /\ ~(S \subseteq alive)
  /\ process' = "exited"
  /\ UNCHANGED <<alive, displayVars, callVars, history>>

(* A slip: each part is committed as soon as it is set. *)
SetPartAndCommit ==
  LET s == arg.surface
  IN  /\ call = "set_surface"
      /\ \/ /\ pending' = IF s \in alive
                          THEN [pending EXCEPT ![s][Part[step]] = arg.look]
                          ELSE pending
            /\ shown' = pending'
            /\ step' = step + 1
            /\ call' = IF step = Len(Part) THEN "commit" ELSE call
            /\ UNCHANGED <<alive, order, pendingOrder, arg, found, history, process>>
         \/ Fails({s})

(* One of the four calls of wrap_ilm_set_surface. *)
SetPart ==
  LET s == arg.surface
  IN  /\ call = "set_surface"
      /\ \/ /\ pending' = IF s \in alive
                          THEN [pending EXCEPT ![s][Part[step]] = arg.look]
                          ELSE pending
            /\ step' = step + 1
            /\ call' = IF step = Len(Part) THEN "commit" ELSE call
            /\ UNCHANGED <<alive, shown, order, pendingOrder, arg, found,
                           history, process>>
         \/ Fails({s})

(* ilm_layerRemoveSurface. *)
RemoveSurface ==
  LET s == arg.surface
  IN  /\ call = "remove_surface"
      /\ \/ /\ pendingOrder' = [pendingOrder EXCEPT ![arg.layer] = Without(@, s)]
            /\ call' = "commit"
            /\ UNCHANGED <<alive, shown, pending, order, step, arg, found,
                           history, process>>
         \/ Fails({s})

(* Two slips: a surface is not looked up; the first that does not exist     *)
(* ends the loop.                                                           *)
LookUpNone ==
  /\ call = "render" /\ step <= Len(arg.list)
  /\ found' = Append(found, arg.list[step])
  /\ step' = step + 1
  /\ UNCHANGED <<alive, displayVars, call, arg, history, process>>

LookUpUntilMissing ==
  /\ call = "render" /\ step <= Len(arg.list)
  /\ \/ /\ arg.list[step] \in alive
        /\ found' = Append(found, arg.list[step])
        /\ step' = step + 1
     \/ /\ arg.list[step] \notin alive
        /\ step' = Len(arg.list) + 1
        /\ UNCHANGED found
  /\ UNCHANGED <<alive, displayVars, call, arg, history, process>>

(* add_exists_surfaces_to_layer: the next surface of the list is looked up. *)
LookUp ==
  /\ call = "render" /\ step <= Len(arg.list)
  /\ found' = IF arg.list[step] \in alive THEN Append(found, arg.list[step])
                                          ELSE found
  /\ step' = step + 1
  /\ UNCHANGED <<alive, displayVars, call, arg, history, process>>

(* A slip: the surfaces are added to the layer's instead of replacing them. *)
SetRenderOrderAdding ==
  /\ call = "render" /\ step > Len(arg.list)
  /\ \/ /\ pendingOrder' = [pendingOrder EXCEPT ![arg.layer] = @ \o found]
        /\ call' = "commit"
        /\ UNCHANGED <<alive, shown, pending, order, step, arg, found, history, process>>
     \/ Fails(ToSet(found))

(* ilm_layerSetRenderOrder with the surfaces that were found. *)
SetRenderOrder ==
  /\ call = "render" /\ step > Len(arg.list)
  /\ \/ /\ pendingOrder' = [pendingOrder EXCEPT ![arg.layer] = Kept(found, alive)]
        /\ call' = "commit"
        /\ UNCHANGED <<alive, shown, pending, order, step, arg, found, history, process>>
     \/ Fails(ToSet(found))

(* ilm_commitChanges: all that is pending goes on the display. *)
Commit ==
  /\ call = "commit"
  /\ shown' = pending
  /\ order' = pendingOrder
  /\ call' = "idle"
  /\ step' = 0
  /\ arg' = Idle
  /\ found' = <<>>
  /\ UNCHANGED <<alive, pending, pendingOrder, history, process>>

Main ==
  \/ \E s \in Surface, look \in Look : BeginSetSurface(s, look)
  \/ \E l \in Layer, s \in Surface : BeginRemoveSurface(l, s)
  \/ \E l \in Layer, list \in Lists : BeginRender(l, list)
  \/ SetPart \/ RemoveSurface \/ LookUp \/ SetRenderOrder \/ Commit

Next ==
  /\ process = "running"
  /\ Main \/ \E s \in Surface : Appears(s) \/ Disappears(s)

Spec == Init /\ [][Next]_vars

-----------------------------------------------------------------------------
(* The window manager is ended by a request only if a surface that the     *)
(* request had found went away before it was complete (wrap_ilm_exit after *)
(* wrap_ilm_surface_exists).                                               *)
ExitsOnlyInRace ==
  process = "exited" => (ToSet(found) \cup {arg.surface}) \cap gone # {}

(* What a commit changes about a surface that was there all along is its   *)
(* whole layout: the display never shows the new place of a surface with   *)
(* the old part of its content, or a mixture of two layouts.               *)
LayoutsChangeWhole ==
  [][\A s \in stayed' : shown'[s] # shown[s] =>
       \A p, q \in Parts : shown'[s][p] = shown'[s][q]]_vars

(* What a commit of a render order puts on a layer: every surface of the   *)
(* list that was there all along, whatever came and went meanwhile, none   *)
(* that has gone, in the order of the list.                                *)
RendersList ==
  [][\A l \in Layer : call = "commit" /\ call' = "idle"
                      /\ arg.layer = l /\ arg.surface = NoId =>
       /\ ToSet(arg.list) \cap stayed \subseteq ToSet(order'[l])
       /\ order'[l] = Kept(arg.list, ToSet(order'[l]))
       /\ ToSet(order'[l]) \subseteq alive]_vars

=============================================================================
