------------------------------- MODULE Display -------------------------------
(***************************************************************************)
(* WindowManager with the history that tells when its display can be told   *)
(* to agree with its tree.  A surface can lose its properties while it is   *)
(* on a layer, since referred_cnt starts from uninitialized memory and      *)
(* remove_surface_properties believes it.  Events of such a surface are     *)
(* then ignored or crash the process, and a later add for another layer     *)
(* gives it properties again but not what it missed.                        *)
(***************************************************************************)
EXTENDS WindowManager

VARIABLE
  lost  \* surfaces without properties since they were last on no layer

dvars == <<vars, lost>>

(* On a layer, without the properties that the handlers dereference. *)
Orphans == {s \in Surface : LayersOf(s) # {} /\ s \notin registered}

DInit == Init /\ lost = Orphans

DNext ==
  /\ Next
  /\ lost' = {s \in lost : LayersOf(s)' # {}} \cup Orphans'

DSpec == DInit /\ [][DNext]_dvars

(* Once every event is handled, each layer shows all its surfaces that     *)
(* exist, and layers and surfaces have the layout the tree holds, whatever *)
(* raced with the applications' coming and going: but for surfaces that    *)
(* lost their properties while they were on a layer, and until they have   *)
(* been taken off every layer since.                                       *)
SettledDisplay ==
  pc = "poll" /\ cmd = "idle" /\ pipe = <<>> =>
    \A c \in ToSet(screens) : \A l \in ToSet(layers[c]) :
      /\ layerLook[l] = layerProp[l]
      /\ \A s \in (ToSet(surfaces[l]) \cap alive) \ lost :
           Contains(layerOrder[l], s) /\ surfaceLook[s] = propLook[s]

=============================================================================
