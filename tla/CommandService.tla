--------------------------- MODULE CommandService ---------------------------
(***************************************************************************)
(* What a client of the command socket may rely on: a command is executed   *)
(* at most once, only after it was submitted as a whole, and answered only  *)
(* after it was executed.  How it travels, and which client is served when, *)
(* is left open; Receiver implements this.                                  *)
(***************************************************************************)
EXTENDS SequencesExt

CONSTANT Request   \* the commands that clients may submit

VARIABLES
  submitted,  \* commands of which every byte was sent
  executed,   \* commands the parser was given, in that order
  answered    \* commands whose client was told they are done

serviceVars == <<submitted, executed, answered>>

Init ==
  /\ submitted = {}
  /\ executed = <<>>
  /\ answered = {}

Submit(r) ==
  /\ r \in Request \ submitted
  /\ submitted' = submitted \cup {r}
  /\ UNCHANGED <<executed, answered>>

Execute(r) ==
  /\ r \in submitted
  /\ ~Contains(executed, r)
  /\ executed' = Append(executed, r)
  /\ UNCHANGED <<submitted, answered>>

Answer(r) ==
  /\ Contains(executed, r)
  /\ r \notin answered
  /\ answered' = answered \cup {r}
  /\ UNCHANGED <<submitted, executed>>

(* Each step is about one command, submitted now or before. *)
Next == \E r \in submitted' : Submit(r) \/ Execute(r) \/ Answer(r)

Spec == Init /\ [][Next]_serviceVars

=============================================================================
