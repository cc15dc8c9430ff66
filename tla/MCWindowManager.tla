-------------------------- MODULE MCWindowManager --------------------------
(***************************************************************************)
(* Instances of WindowManager for TLC.  Layers are interchangeable, and so  *)
(* are surfaces, connected screens and looks: they are only ever compared.  *)
(***************************************************************************)
EXTENDS WindowManager

(* Kept takes the elements that SelectSeq takes, on all short lists; only   *)
(* Kept can be reasoned about in the proofs.                                *)
ASSUME KeptIsSelectSeq ==
  \A list \in SeqOf({1, 2, 3}, 4), S \in SUBSET {1, 2, 3} :
    Kept(list, S) = SelectSeq(list, LAMBDA e : e \in S)

Interchangeable ==
  UNION {Permutations(S) : S \in {Layer, Surface, Connected, Look}}

=============================================================================
