----------------------------- MODULE TailQueue -----------------------------
(***************************************************************************)
(* The TAILQ lists of app/comm_parser.c, as sequences of element ids.       *)
(* screen_head, the layers of a screen and the surfaces of a layer are all  *)
(* lists of this kind; an element is found by its id and the first match    *)
(* wins, so a list with two elements of one id would hide the second.       *)
(***************************************************************************)
EXTENDS Integers, FiniteSets, SequencesExt

(***************************************************************************)
(* What the insert_order key of a message stands for.  NoOrder is           *)
(* INSERT_ORDER_NONE: the key is missing or names no order.                 *)
(***************************************************************************)
Prepend == "prepend"
AppendTail == "append"
Before  == "before"
After   == "after"
NoOrder == "none"

InsertOrder == {Prepend, AppendTail, Before, After, NoOrder}

Relative(order) == order \in {Before, After}

(* The position of the first element with this id, 0 when there is none. *)
PositionOf(list, id) == SelectInSeq(list, LAMBDA e : e = id)

(* A slip: whatever is first is unlinked. *)
PopElementFirst(list, id) == IF Contains(list, id) THEN Tail(list) ELSE list

(* pop_list_element: unlink the first element with this id, if any. *)
PopElement(list, id) == RemoveFirst(list, id)

(***************************************************************************)
(* insert_list_element.  BEFORE and AFTER whose reference is not in the     *)
(* list fall back to APPEND; NoOrder links the element nowhere.             *)
(***************************************************************************)
InsertElement(list, id, order, ref) ==
  LET at == PositionOf(list, ref)
      o  == IF Relative(order) /\ at = 0 THEN AppendTail ELSE order
  IN  CASE o = Prepend    -> InsertAt(list, 1, id)
        [] o = AppendTail -> Append(list, id)
        [] o = Before     -> InsertAt(list, at, id)
        [] o = After      -> InsertAt(list, at + 1, id)
        [] OTHER          -> list

(***************************************************************************)
(* The loops that walk a list and copy to an array the ids that pass a      *)
(* test: the element at i, if it passes, goes to the place that the count   *)
(* of those before it gives.                                                *)
(***************************************************************************)
Rank(I, i) == Cardinality({j \in I : j <= i})

Kept(list, S) ==
  LET chosen == {i \in DOMAIN list : list[i] \in S}
  IN  [n \in 1 .. Cardinality(chosen) |->
         list[CHOOSE i \in chosen : Rank(chosen, i) = n]]

Without(list, id) == Kept(list, ToSet(list) \ {id})

=============================================================================
