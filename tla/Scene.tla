-------------------------------- MODULE Scene --------------------------------
(***************************************************************************)
(* What a layout command may do to a scene of screens, layers and surfaces: *)
(* one layer, or one surface of one layer, is put in another place or taken *)
(* out, and nothing else changes its place.  A layer is on one screen at    *)
(* most, brings its surfaces along, and loses them when it leaves.  The     *)
(* places themselves are left open; WindowManager implements this.          *)
(***************************************************************************)
EXTENDS Integers, SequencesExt

CONSTANTS Screen, Layer, Surface

VARIABLES
  screens,   \* the screens that have been configured
  layers,    \* the layers of each screen, bottom first
  surfaces   \* the surfaces of each layer, bottom first

sceneVars == <<screens, layers, surfaces>>

Empty ==
  /\ screens = <<>>
  /\ layers = [c \in Screen |-> <<>>]
  /\ surfaces = [l \in Layer |-> <<>>]

Precedes(list, a, b) ==
  \E i, j \in DOMAIN list : i < j /\ list[i] = a /\ list[j] = b

(* A list and what becomes of it when x is put somewhere or nowhere: the   *)
(* others stay, in their order.                                            *)
Moves(list, new, x) ==
  /\ IsInjective(new)
  /\ ToSet(new) \ {x} = ToSet(list) \ {x}
  /\ \A a, b \in ToSet(list) \ {x} :
       Precedes(list, a, b) => Precedes(new, a, b)

AddScreens ==
  /\ IsPrefix(screens, screens') /\ IsInjective(screens')
  /\ UNCHANGED <<layers, surfaces>>

MoveLayer(l) ==
  /\ DOMAIN layers' = Screen
  /\ \A c \in Screen : Moves(layers[c], layers'[c], l)
  /\ \A c, d \in Screen :
       l \in ToSet(layers'[c]) \cap ToSet(layers'[d]) => c = d
  /\ surfaces' = IF \E c \in Screen : l \in ToSet(layers'[c])
                 THEN surfaces ELSE [surfaces EXCEPT ![l] = <<>>]
  /\ UNCHANGED screens

MoveSurface(l, s) ==
  /\ Moves(surfaces[l], surfaces'[l], s)
  /\ surfaces' = [surfaces EXCEPT ![l] = surfaces'[l]]
  /\ UNCHANGED <<screens, layers>>

Clear ==
  /\ screens' = <<>>
  /\ layers' = [c \in Screen |-> <<>>]
  /\ surfaces' = [l \in Layer |-> <<>>]

Next ==
  \/ AddScreens \/ Clear
  \/ \E l \in Layer : MoveLayer(l) \/ \E s \in Surface : MoveSurface(l, s)

Spec == Empty /\ [][Next]_sceneVars

=============================================================================
