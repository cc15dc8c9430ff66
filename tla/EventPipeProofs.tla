--------------------------- MODULE EventPipeProofs ---------------------------
(***************************************************************************)
(* Proofs about EventPipe, for every set of surfaces and every capacity:    *)
(* what a series of writes of the main thread finds and leaves in the pipe  *)
(* is accounted for, and only a backlog can block it.                       *)
(***************************************************************************)
EXTENDS EventPipe, FiniteSetTheorems, TLAPS

(* What the sets of surfaces still to be announced cost. *)
LEMMA AnnounceCost ==
  ASSUME NEW A \in SUBSET Surface
  PROVE  /\ Cardinality(A) \in Nat
         /\ \A s \in A : Cardinality(A \ {s}) = Cardinality(A) - 1
<1>1. IsFiniteSet(A)
  BY SurfaceAssumption, FS_Subset
<1>2. Cardinality(A) \in Nat
  BY <1>1, FS_CardinalityType
<1>3. \A s \in A : Cardinality(A \ {s}) = Cardinality(A) - 1
  BY <1>1, FS_RemoveElement
<1> QED BY <1>2, <1>3

LEMMA EmptyCost == Cardinality({}) = 0
BY FS_EmptySet

LEMMA TypeInit == Init => TypeOK
<1> SUFFICES ASSUME Init PROVE TypeOK
  OBVIOUS
<1>1. Cardinality(announce) \in Nat
  BY AnnounceCost DEF Init
<1> QED BY <1>1 DEF Init, TypeOK, NoEvent

LEMMA TypeStep == TypeOK /\ [Next]_vars => TypeOK'
<1> SUFFICES ASSUME TypeOK, [Next]_vars PROVE TypeOK'
  OBVIOUS
<1> USE DEF TypeOK
<1>1. CASE ReadEvent
  <2>1. Head(pipe) \in Event /\ Tail(pipe) \in Seq(Event)
    BY <1>1 DEF ReadEvent
  <2>2. Head(pipe).id \in Surface /\ Len(Tail(pipe)) \in Nat
    BY <2>1 DEF Event
  <2> QED BY <1>1, <2>1, <2>2 DEF ReadEvent, Begun
<1>2. CASE Report
  BY <1>2 DEF Report, Configured, Event, NoEpisode
<1>3. CASE StartAnnouncing
  <2>1. Cardinality(announce') \in Nat
    BY <1>3, AnnounceCost DEF StartAnnouncing
  <2> QED BY <1>3, <2>1 DEF StartAnnouncing, Begun
<1>4. CASE AnnouncingDone
  BY <1>4 DEF AnnouncingDone, NoEpisode
<1>5. CASE EndPass \/ NoEventToRead
  BY <1>5 DEF EndPass, NoEventToRead
<1>6. ASSUME NEW s \in Surface, Announce(s) PROVE TypeOK'
  BY <1>6 DEF Announce, Created, Event
<1>7. CASE Write
  <2>1. writing \in Event
    BY <1>7 DEF Write
  <2>2. episode' \in [unread : Nat, came : Nat, due : Nat]
    BY <1>7 DEF Write
  <2> QED BY <1>7, <2>1, <2>2 DEF Write
<1>8. ASSUME NEW e \in Event, Notify(e) PROVE TypeOK'
  BY <1>8 DEF Notify
<1>9. CASE UNCHANGED vars
  BY <1>9 DEF vars
<1> QED
  BY <1>1, <1>2, <1>3, <1>4, <1>5, <1>6, <1>7, <1>8, <1>9 DEF Next, Main

(* Every variable keeps its type; a report always knows its surface. *)
THEOREM PipeTypeCorrect == Spec => []TypeOK
BY TypeInit, TypeStep, PTL DEF Spec

(***************************************************************************)
(* PipeAccounted.                                                           *)
(***************************************************************************)

LEMMA AccountedInit == Init => PipeAccounted
<1> SUFFICES ASSUME Init PROVE PipeAccounted
  OBVIOUS
<1>1. Cardinality(announce) \in Nat
  BY AnnounceCost DEF Init
<1> QED BY <1>1 DEF Init, PipeAccounted, IsWriting, StillToWrite

LEMMA AccountedStep ==
  TypeOK /\ TypeOK' /\ PipeAccounted /\ [Next]_vars => PipeAccounted'
<1> SUFFICES ASSUME TypeOK, TypeOK', PipeAccounted, [Next]_vars
             PROVE PipeAccounted'
  OBVIOUS
<1> DEFINE here == Cardinality(announce)
           next == Cardinality(announce')
<1>1. /\ here \in Nat /\ next \in Nat
      /\ \A s \in announce : Cardinality(announce \ {s}) = here - 1
  BY AnnounceCost DEF TypeOK
<1>2. announce' = announce => next = here
  OBVIOUS
<1>3. /\ Len(pipe) \in Nat /\ Len(pipe') \in Nat
      /\ episode.unread \in Nat /\ episode.came \in Nat /\ episode.due \in Nat
  BY DEF TypeOK
<1>4. announce = {} => here = 0
  BY EmptyCost
<1> HIDE DEF here, next
<1>5. /\ main # "announce" => announce = {}
      /\ main = "report" =>
           Len(pipe) = (episode.unread + episode.came + episode.due) - 1
      /\ main = "announce" =>
           Len(pipe) = (episode.unread + episode.came + episode.due) - here
  BY DEF PipeAccounted, IsWriting, StillToWrite, here
<1>6. SUFFICES
        /\ main' # "announce" => announce' = {}
        /\ main' = "report" =>
             Len(pipe') = (episode'.unread + episode'.came + episode'.due) - 1
        /\ main' = "announce" =>
             Len(pipe') = (episode'.unread + episode'.came + episode'.due) - next
  BY DEF PipeAccounted, IsWriting, StillToWrite, next
<1>7. CASE ReadEvent
  BY <1>3, <1>5, <1>7 DEF ReadEvent, Begun
<1>8. CASE Report
  BY <1>5, <1>8 DEF Report
<1>9. CASE StartAnnouncing
  <2>1. next = Cardinality(announce')
    BY DEF next
  <2> QED BY <1>1, <1>3, <1>9, <2>1 DEF StartAnnouncing, Begun
<1>10. CASE AnnouncingDone
  BY <1>10 DEF AnnouncingDone
<1>11. CASE EndPass \/ NoEventToRead
  BY <1>5, <1>11 DEF EndPass, NoEventToRead
<1>12. ASSUME NEW s \in Surface, Announce(s)
       PROVE /\ main' = "announce"
             /\ Len(pipe') =
                  (episode'.unread + episode'.came + episode'.due) - next
  <2>1. Len(pipe') = Len(pipe) + 1
    BY <1>12 DEF Announce, TypeOK
  <2>2. next = here - 1
    BY <1>1, <1>12 DEF Announce, next
  <2> QED BY <1>1, <1>3, <1>5, <1>12, <2>1, <2>2 DEF Announce
<1>13. CASE Write
  <2>1. Len(pipe') = Len(pipe) + 1
    BY <1>13 DEF Write, TypeOK, NoEvent
  <2>2. IsWriting =>
          /\ episode'.came = episode.came + 1
          /\ episode'.unread = episode.unread
          /\ episode'.due = episode.due
    BY <1>13 DEF Write, TypeOK
  <2>3. main' = main /\ announce' = announce /\ next = here
    BY <1>2, <1>13 DEF Write
  <2> DEFINE sum == episode.unread + episode.came + episode.due
             sumNext == episode'.unread + episode'.came + episode'.due
  <2>4. sum \in Int /\ sumNext \in Int
    BY <1>3 DEF TypeOK
  <2>5. IsWriting => sumNext = sum + 1
    BY <1>3, <2>2
  <2>6. /\ main = "report" => Len(pipe) = sum - 1
        /\ main = "announce" => Len(pipe) = sum - here
    BY <1>5
  <2> HIDE DEF sum, sumNext
  <2>7. /\ main' = "report" => Len(pipe') = sumNext - 1
        /\ main' = "announce" => Len(pipe') = sumNext - next
    BY <1>1, <1>3, <2>1, <2>3, <2>4, <2>5, <2>6 DEF IsWriting
  <2> QED BY <1>5, <2>3, <2>7 DEF sumNext
<1>14. ASSUME NEW e \in Event, Notify(e)
       PROVE UNCHANGED <<pipe, main, announce, episode>>
  BY <1>14 DEF Notify
<1>15. CASE UNCHANGED vars
  BY <1>2, <1>5, <1>15 DEF vars
<1> QED
  BY <1>2, <1>5, <1>7, <1>8, <1>9, <1>10, <1>11, <1>12, <1>13, <1>14, <1>15
     DEF Next, Main

LEMMA OnlyBacklogBlocks == TypeOK /\ PipeAccounted => BlocksOnlyOnBacklog
<1> SUFFICES ASSUME TypeOK, PipeAccounted, IsWriting,
                    StillToWrite > 0, ~HasRoom
             PROVE episode.unread + episode.came + episode.due > Capacity
  BY DEF BlocksOnlyOnBacklog
<1>1. Cardinality(announce) \in Nat
  BY AnnounceCost DEF TypeOK
<1>2. StillToWrite \in Nat
  BY <1>1 DEF StillToWrite
<1>3. /\ Len(pipe) \in Nat
      /\ episode.unread \in Nat /\ episode.came \in Nat /\ episode.due \in Nat
  BY DEF TypeOK
<1> QED BY <1>2, <1>3, CapacityAssumption DEF PipeAccounted, HasRoom

(* Whatever the number of surfaces and the capacity: the main thread never *)
(* blocks on the pipe that only it empties unless more events were unread, *)
(* came from the ILM thread and are its own to write than the pipe holds.   *)
THEOREM BacklogBlocks == Spec => []BlocksOnlyOnBacklog
<1>1. Spec => []TypeOK
  BY PipeTypeCorrect
<1>2. Spec => []PipeAccounted
  BY <1>1, AccountedInit, AccountedStep, PTL DEF Spec
<1> QED BY <1>1, <1>2, OnlyBacklogBlocks, PTL

=============================================================================
