----------------------------- MODULE Properties -----------------------------
(***************************************************************************)
(* How the layouts of app/comm_parser.c get their values, key by key.       *)
(* WindowManager takes a layout as one opaque value, any of which a message *)
(* may set; here a message gives some of the keys, in the copies that       *)
(* parse_add_properties and its callers make of what they are to change,    *)
(* and what reaches the controller is followed from there.                  *)
(*                                                                         *)
(* A key of another type than the one wanted is as good as missing.  The    *)
(* properties of a new layer or surface start as uninitialized memory of    *)
(* the stack.  Whether a surface's properties outlive one of its layers is  *)
(* the business of WindowManager; here they may or may not.                 *)
(***************************************************************************)
EXTENDS Integers, Sequences, Functions, FiniteSets

CONSTANTS
  Layer, Surface,
  SizeKeys,     \* keys of a layer only, in the order they are read: width ..
  LayoutKeys,   \* keys of a layout, in the order they are read: src_x ..
  Value,        \* what a message may give a key
  Garbage       \* what an uninitialized field holds

ASSUME KindsAssumption == Layer \cap Surface = {}
ASSUME KeysAssumption ==
  /\ SizeKeys \in Seq(STRING) /\ LayoutKeys \in Seq(STRING)
  /\ IsInjective(SizeKeys \o LayoutKeys)
  /\ Garbage \notin Value

VARIABLES
  held,       \* the properties of the elements of the tree, by id
  on,         \* the layers each surface is on
  alive,      \* surfaces that exist
  shown,      \* layouts at the controller
  size,       \* sizes of the layers of the controller, from their creation
  pc,         \* "idle", or the function at work
  k,          \* index of the next key
  job,        \* the element of the message at hand
  dst,        \* properties of an element that is not in the tree yet
  src,        \* src_prop of parse_layer_properties, parse_surface_properties
  lp,         \* src_prop of parse_add_properties, parse_mod_properties
  incomplete  \* elements created by a message that lacked a key, and not
              \* given every key by one since: history

tree == <<held, on>>
controller == <<alive, shown, size>>
parser == <<pc, k, job, dst, src, lp>>
vars == <<tree, controller, parser, incomplete>>

Element == Layer \cup Surface
SizeKey == Range(SizeKeys)
LayoutKey == Range(LayoutKeys)
KeysOf(e) == IF e \in Layer THEN SizeKey \cup LayoutKey ELSE LayoutKey
Size(p) == Restrict(p, SizeKey)
Layout(p) == Restrict(p, LayoutKey)
Field == Value \cup {Garbage}
Uninitialized(keys) == [key \in keys |-> Garbage]

(* The given keys of an element of a message, and their values. *)
Given(e) == UNION {[keys -> Value] : keys \in SUBSET KeysOf(e)}

(* f with g on the domain of g. *)
Over(g, f) == [x \in DOMAIN f |-> IF x \in DOMAIN g THEN g[x] ELSE f[x]]
With(f, x, v) == [y \in DOMAIN f \cup {x} |-> IF y = x THEN v ELSE f[y]]
Without(f, x) == Restrict(f, DOMAIN f \ {x})

NoJob == [elem |-> {}]
NoProp == [key \in {} |-> Garbage]

(* The types; whatever is held is held by all the keys of its kind. *)
TypeOK ==
  /\ DOMAIN held \subseteq Element
  /\ \A e \in DOMAIN held : held[e] \in [KeysOf(e) -> Field]
  /\ on \in [Surface -> SUBSET Layer]
  /\ alive \in SUBSET Surface
  /\ DOMAIN shown \subseteq alive \cup DOMAIN size
  /\ \A e \in DOMAIN shown : shown[e] \in [LayoutKey -> Field]
  /\ DOMAIN size \subseteq Layer
  /\ \A l \in DOMAIN size : size[l] \in [SizeKey -> Field]
  /\ pc \in {"idle", "size", "layout", "store", "apply"}
  /\ k \in 1 .. Len(SizeKeys) + Len(LayoutKeys) + 1
  /\ incomplete \in SUBSET Element

Init ==
  /\ held = [e \in {} |-> NoProp]
  /\ on = [s \in Surface |-> {}]
  /\ alive \in SUBSET Surface
  /\ shown = held
  /\ size = held
  /\ pc = "idle"
  /\ k = 1
  /\ job = NoJob
  /\ dst = NoProp /\ src = NoProp /\ lp = NoProp
  /\ incomplete = {}

-----------------------------------------------------------------------------
(***************************************************************************)
(* The element of a message: new, in the tree and named by a command that   *)
(* adds, or modified.                                                       *)
(***************************************************************************)

Parse(j, from) ==
  /\ pc = "idle"
  /\ pc' = IF j.elem \in Layer THEN "size" ELSE "layout"
  /\ k' = 1
  /\ job' = j
  /\ dst' = from
  /\ src' = from
  /\ lp' = Layout(from)
  /\ UNCHANGED <<held, controller, incomplete>>

AddLayer(l, g) ==
  /\ Parse([elem |-> l, type |-> "add", fresh |-> l \notin DOMAIN held, given |-> g],
           IF l \in DOMAIN held THEN held[l] ELSE Uninitialized(KeysOf(l)))
  /\ UNCHANGED on

(* A slip: the copy is not made from what it is to change. *)
AddSurfaceAnew(l, s, g) ==
  /\ l \in DOMAIN held
  /\ l \in on[s] => s \in DOMAIN held
  /\ Parse([elem |-> s, type |-> "add", fresh |-> l \notin on[s], given |-> g],
           Uninitialized(KeysOf(s)))
  /\ on' = [on EXCEPT ![s] = @ \cup {l}]

(* A surface new to a layer is new to the parser, even if its properties   *)
(* are held for another layer.  (If they are not held though it is on the   *)
(* layer, the handler dereferences NULL: OnlyAddsUncover of WindowManager.) *)
AddSurface(l, s, g) ==
  /\ l \in DOMAIN held
  /\ l \in on[s] => s \in DOMAIN held
  /\ Parse([elem |-> s, type |-> "add", fresh |-> l \notin on[s], given |-> g],
           IF l \in on[s] THEN held[s] ELSE Uninitialized(KeysOf(s)))
  /\ on' = [on EXCEPT ![s] = @ \cup {l}]

Modify(e, g) ==
  /\ e \in DOMAIN held
  /\ Parse([elem |-> e, type |-> "modify", fresh |-> FALSE, given |-> g], held[e])
  /\ UNCHANGED on

-----------------------------------------------------------------------------
(***************************************************************************)
(* The keys, one at a time.                                                 *)
(***************************************************************************)

Missing(key) == key \notin DOMAIN job.given

(* get_json_integer_value leaves its result alone if the key is missing.   *)
Read(p, key) == IF Missing(key) THEN p ELSE [p EXCEPT ![key] = job.given[key]]

(* A slip: a command that adds goes on without a key of the size. *)
ReadSizeOn ==
  /\ pc = "size"
  /\ IF k > Len(SizeKeys)
     THEN pc' = "layout" /\ k' = 1 /\ lp' = Layout(src) /\ UNCHANGED src
     ELSE src' = Read(src, SizeKeys[k]) /\ k' = k + 1 /\ UNCHANGED <<pc, lp>>
  /\ UNCHANGED <<tree, controller, job, dst, incomplete>>

(* parse_layer_properties: width and height.  A command that adds gives    *)
(* up at the first that is missing, with nothing stored.                   *)
ReadSize ==
  /\ pc = "size"
  /\ IF k > Len(SizeKeys)
     THEN /\ pc' = "layout" /\ k' = 1
          /\ lp' = Layout(src)
          /\ UNCHANGED src
     ELSE IF job.type = "add" /\ Missing(SizeKeys[k])
     THEN pc' = "apply" /\ UNCHANGED <<k, src, lp>>
     ELSE /\ src' = Read(src, SizeKeys[k])
          /\ k' = k + 1
          /\ UNCHANGED <<pc, lp>>
  /\ UNCHANGED <<tree, controller, job, dst, incomplete>>

(* A slip: the keys of a layout are read into the layout itself.           *)
ReadKeyInPlace ==
  /\ pc = "layout"
  /\ IF k > Len(LayoutKeys)
     THEN pc' = "store" /\ UNCHANGED <<k, held, dst, src>>
     ELSE IF job.type = "add" /\ Missing(LayoutKeys[k])
     THEN pc' = "store" /\ UNCHANGED <<k, held, dst, src>>
     ELSE /\ src' = Read(src, LayoutKeys[k])
          /\ IF job.fresh THEN dst' = src' /\ UNCHANGED held
             ELSE held' = [held EXCEPT ![job.elem] = src'] /\ UNCHANGED dst
          /\ k' = k + 1
          /\ UNCHANGED pc
  /\ UNCHANGED <<on, controller, job, lp, incomplete>>

(* parse_add_properties and parse_mod_properties.  One that adds gives up  *)
(* at the first key that is missing; its copy is lost, and its caller goes  *)
(* on as if nothing were wrong.                                             *)
ReadKey ==
  /\ pc = "layout"
  /\ IF k > Len(LayoutKeys)
     THEN /\ pc' = "store"
          /\ src' = Over(lp, src)
          /\ UNCHANGED <<k, lp>>
     ELSE IF job.type = "add" /\ Missing(LayoutKeys[k])
     THEN pc' = "store" /\ UNCHANGED <<k, src, lp>>
     ELSE /\ lp' = Read(lp, LayoutKeys[k])
          /\ k' = k + 1
          /\ UNCHANGED <<pc, src>>
  /\ UNCHANGED <<tree, controller, job, dst, incomplete>>

(* memcpy(dst_prop, &src_prop, ..) at the end of the callers. *)
Store ==
  /\ pc = "store"
  /\ pc' = "apply"
  /\ IF job.fresh THEN dst' = src /\ UNCHANGED held
     ELSE held' = [held EXCEPT ![job.elem] = src] /\ UNCHANGED dst
  /\ UNCHANGED <<on, controller, k, job, src, lp, incomplete>>

-----------------------------------------------------------------------------
(***************************************************************************)
(* The controller.                                                          *)
(***************************************************************************)

(* A slip: a surface is not looked up first. *)
ShowUnchecked(e, p) ==
  /\ shown' = With(shown, e, Layout(p))
  /\ size' = IF e \in Layer \ DOMAIN size THEN With(size, e, Size(p)) ELSE size

(* wrap_ilm_set_layer and wrap_ilm_set_surface: a layer is created with    *)
(* its size if the controller lacks it, and never resized; a surface that   *)
(* does not exist is left alone.                                            *)
Show(e, p) ==
  IF e \in Surface \ alive
  THEN UNCHANGED <<shown, size>>
  ELSE /\ shown' = With(shown, e, Layout(p))
       /\ size' = IF e \in Layer \ DOMAIN size THEN With(size, e, Size(p)) ELSE size

(* The message is through: did it give every key, or create without one?   *)
Record ==
  incomplete' =
    CASE DOMAIN job.given = KeysOf(job.elem) -> incomplete \ {job.elem}
      [] job.fresh /\ DOMAIN job.given # KeysOf(job.elem) ->
           incomplete \cup {job.elem}
      [] OTHER -> incomplete

(* A slip: what was read is applied, whether or not it was stored. *)
ApplyCopy ==
  /\ pc = "apply"
  /\ held' = IF job.fresh THEN With(held, job.elem, dst) ELSE held
  /\ Show(job.elem, IF job.elem \in Layer THEN src ELSE lp)
  /\ Record
  /\ pc' = "idle"
  /\ k' = 1 /\ job' = NoJob
  /\ dst' = NoProp /\ src' = NoProp /\ lp' = NoProp
  /\ UNCHANGED <<on, alive>>

(* A new element enters the tree, over the properties that another layer   *)
(* of the surface has; then the layout is applied.                          *)
Apply ==
  LET e == job.elem
  IN  /\ pc = "apply"
      /\ held' = IF job.fresh THEN With(held, e, dst) ELSE held
      /\ Show(e, held'[e])
      /\ Record
      /\ pc' = "idle"
      /\ k' = 1 /\ job' = NoJob
      /\ dst' = NoProp /\ src' = NoProp /\ lp' = NoProp
      /\ UNCHANGED <<on, alive>>

(* The properties of the surfaces of a layer may be freed with it. *)
DropLayers(L) ==
  /\ pc = "idle"
  /\ \E freed \in SUBSET {s \in Surface : on[s] \cap L # {}} :
       held' = Restrict(held, DOMAIN held \ (L \cup freed))
  /\ on' = [s \in Surface |-> on[s] \ L]
  /\ UNCHANGED <<alive, parser, incomplete>>

(* remove_layer: the layer leaves the controller with the tree. *)
RemoveLayer(l) ==
  /\ DropLayers({l})
  /\ size' = Without(size, l)
  /\ shown' = Without(shown, l)

(* remove_all, of initial_screen: the controller keeps the layers. *)
RemoveAll ==
  /\ DropLayers(Layer)
  /\ UNCHANGED <<shown, size>>

(* remove_surface. *)
RemoveSurface(l, s) ==
  /\ pc = "idle" /\ l \in on[s]
  /\ on' = [on EXCEPT ![s] = @ \ {l}]
  /\ held' \in {held, Without(held, s)}
  /\ UNCHANGED <<controller, parser, incomplete>>

Appears(s) ==
  /\ s \notin alive
  /\ alive' = alive \cup {s}
  /\ UNCHANGED <<tree, shown, size, parser, incomplete>>

Disappears(s) ==
  /\ s \in alive
  /\ alive' = alive \ {s}
  /\ shown' = Without(shown, s)
  /\ UNCHANGED <<tree, size, parser, incomplete>>

(* The configured event of a surface of the tree: its layout is applied. *)
Configured(s) ==
  /\ pc = "idle" /\ s \in DOMAIN held /\ on[s] # {}
  /\ Show(s, held[s])
  /\ UNCHANGED <<tree, alive, parser, incomplete>>

Command ==
  \/ \E l \in Layer : \E g \in Given(l) : AddLayer(l, g) \/ Modify(l, g)
  \/ \E s \in Surface : \E g \in Given(s) :
       Modify(s, g) \/ \E l \in Layer : AddSurface(l, s, g)
  \/ RemoveAll
  \/ \E l \in Layer : RemoveLayer(l) \/ \E s \in Surface : RemoveSurface(l, s)

Next ==
  \/ Command \/ ReadSize \/ ReadKey \/ Store \/ Apply
  \/ \E s \in Surface : Appears(s) \/ Disappears(s) \/ Configured(s)

Spec == Init /\ [][Next]_vars

-----------------------------------------------------------------------------
(* What the message at hand makes of the properties p of its element: one  *)
(* that modifies sets the keys it gives; one that adds sets every key, but  *)
(* none if it lacks a key of the size, and those of the size alone if it    *)
(* has them and lacks another (comm_parser.c:684, 709).                     *)
Parsed(p) ==
  LET missing == KeysOf(job.elem) \ DOMAIN job.given
  IN  CASE job.type = "modify" \/ missing = {} -> Over(job.given, p)
        [] job.type = "add" /\ missing \cap SizeKey # {} -> p
        [] OTHER -> Over(Restrict(job.given, DOMAIN job.given \cap SizeKey), p)

(* Properties that are held never mix what they were with part of what a   *)
(* command gives, and no command sets another element's: they become what   *)
(* Parsed says, all at once.  A surface that is new to a layer starts from  *)
(* uninitialized memory, even where it replaces the properties held for     *)
(* another layer (comm_parser.c:753, 167): an incomplete command then       *)
(* replaces a whole layout by garbage, and nothing less.                    *)
StoresWhole ==
  [][\A e \in DOMAIN held' :
       (e \in DOMAIN held => held'[e] # held[e]) =>
         /\ e = job.elem
         /\ held'[e] = Parsed(IF job.fresh THEN Uninitialized(KeysOf(e))
                                           ELSE held[e])]_vars

(* Between commands the controller shows each element as the tree holds    *)
(* it, whichever layer the last command for a surface named, complete or    *)
(* not; a surface that appeared since may have no layout yet.               *)
ShownAsHeld ==
  pc = "idle" =>
    /\ \A l \in Layer \cap DOMAIN held :
         l \in DOMAIN shown \cap DOMAIN size /\ shown[l] = Layout(held[l])
    /\ \A s \in Surface \cap DOMAIN held :
         s \in DOMAIN shown => shown[s] = held[s]

(* Uninitialized values are held and shown for no element but one that a   *)
(* message without one of its keys created, in the tree or for a further    *)
(* layer, and only until a message gives all of its keys: an incomplete     *)
(* message for an element that is there spoils nothing.  A size reaches the *)
(* controller as it was given or wholly uninitialized, never half read      *)
(* (comm_parser.c:684, 709, 753).                                           *)
GarbageOfIncomplete ==
  /\ \A e \in Element \ incomplete :
       /\ e \in DOMAIN held => Garbage \notin Range(held[e])
       /\ e \in DOMAIN shown => Garbage \notin Range(shown[e])
  /\ \A l \in DOMAIN size :
       Garbage \in Range(size[l]) => Range(size[l]) = {Garbage}

=============================================================================
