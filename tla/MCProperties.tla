---------------------------- MODULE MCProperties ----------------------------
(* Properties for TLC: two keys of a layout stand for all, since no key is  *)
(* treated differently from the others of its kind.                         *)
EXTENDS Properties, TLC

Size1 == <<"width">>
Size2 == <<"width", "height">>
Layout2 == <<"dst_x", "opacity">>

(* Layers, surfaces and values are only ever compared. *)
Interchangeable ==
  Permutations(Layer) \cup Permutations(Surface) \cup Permutations(Value)

=============================================================================
