------------------------------ MODULE EventPipe ------------------------------
(***************************************************************************)
(* The pipe between the ILM callbacks and the main loop, with its capacity. *)
(*                                                                         *)
(* A callback writes one cbdata and blocks while the pipe is full.  Only    *)
(* the main loop reads, one event per pass.  Callbacks run on a thread of   *)
(* the ILM library when an application does something, but on the main      *)
(* thread when the main thread causes them: registering for notification    *)
(* announces every surface that exists, and asking for the properties of a  *)
(* surface with a callback reports it.  A main thread that blocks in such   *)
(* a write waits for itself.                                                *)
(***************************************************************************)
EXTENDS Integers, FiniteSets, SequencesExt

CONSTANTS
  Surface,
  Capacity,  \* events that the pipe holds: 64 KiB of cbdata
  NoSurface

ASSUME SurfaceAssumption == IsFiniteSet(Surface) /\ NoSurface \notin Surface
ASSUME CapacityAssumption == Capacity \in Nat \ {0}

VARIABLES
  pipe,     \* events, oldest first
  writing,  \* what the ILM thread is in the middle of writing
  main,     \* "poll", "client", or writing in "report" or "announce"
  report,   \* the surface that the main thread reports to itself
  announce, \* the surfaces that it has still to announce to itself
  episode   \* history of its current series of writes, see Begun

vars == <<pipe, writing, main, report, announce, episode>>

Event == [type : {"created", "configured"}, id : Surface]
Created(s) == [type |-> "created", id |-> s]
Configured(s) == [type |-> "configured", id |-> s]
NoEvent == [type |-> "none", id |-> NoSurface]

(* The history of a series of writes of the main thread: the events that   *)
(* were unread when it began, those that the ILM thread wrote since, and   *)
(* how many events the main thread has to write.                            *)
Begun(due) == [unread |-> Len(pipe'), came |-> 0, due |-> due]
NoEpisode == [unread |-> 0, came |-> 0, due |-> 0]

IsWriting == main \in {"report", "announce"}

TypeOK ==
  /\ pipe \in Seq(Event)
  /\ writing \in Event \cup {NoEvent}
  /\ main \in {"poll", "client", "report", "announce"}
  /\ report \in Surface \cup {NoSurface}
  /\ main = "report" => report \in Surface
  /\ announce \in SUBSET Surface
  /\ episode \in [unread : Nat, came : Nat, due : Nat]

Init ==
  /\ pipe = <<>>
  /\ writing = NoEvent
  /\ main = "announce"      \* parser_init registers before the loop starts
  /\ report = NoSurface
  /\ announce \in SUBSET Surface
  /\ episode = [unread |-> 0, came |-> 0, due |-> Cardinality(announce)]

HasRoom == Len(pipe) < Capacity

-----------------------------------------------------------------------------
(* An application does something, and the ILM thread enters                *)
(* notification_callback or surface_notification_callback.                 *)
Notify(e) ==
  /\ writing = NoEvent
  /\ writing' = e
  /\ UNCHANGED <<pipe, main, report, announce, episode>>

(* The write of the ILM thread completes. *)
Write ==
  /\ writing # NoEvent
  /\ HasRoom
  /\ pipe' = Append(pipe, writing)
  /\ writing' = NoEvent
  /\ episode' = IF IsWriting THEN [episode EXCEPT !.came = @ + 1] ELSE episode
  /\ UNCHANGED <<main, report, announce>>

(* A slip: which surface is to report itself is not kept. *)
ReadEventForgotten ==
  /\ main = "poll"
  /\ pipe # <<>>
  /\ pipe' = Tail(pipe)
  /\ \/ main' = "client" /\ UNCHANGED episode
     \/ Head(pipe).type = "created" /\ main' = "report" /\ episode' = Begun(1)
  /\ UNCHANGED <<writing, report, announce>>

(* One event is read.  For a created event of a surface of the tree        *)
(* wrap_ilm_set_surfaceAddNotification has the surface report itself.      *)
ReadEvent ==
  /\ main = "poll"
  /\ pipe # <<>>
  /\ pipe' = Tail(pipe)
  /\ \/ main' = "client" /\ UNCHANGED <<report, episode>>
     \/ /\ Head(pipe).type = "created"
        /\ main' = "report"
        /\ report' = Head(pipe).id
        /\ episode' = Begun(1)
  /\ UNCHANGED <<writing, announce>>

(* poll finds the pipe empty; events may still come while a client is      *)
(* served.                                                                  *)
NoEventToRead ==
  /\ main = "poll"
  /\ pipe = <<>>
  /\ main' = "client"
  /\ UNCHANGED <<pipe, writing, report, announce, episode>>

(* surface_notification_callback on the main thread. *)
Report ==
  /\ main = "report"
  /\ HasRoom
  /\ pipe' = Append(pipe, Configured(report))
  /\ main' = "client"
  /\ report' = NoSurface
  /\ episode' = NoEpisode
  /\ UNCHANGED <<writing, announce>>

(* initial_screen: register again, whatever is unread by now. *)
StartAnnouncing ==
  /\ main = "client"
  /\ main' = "announce"
  /\ announce' \in SUBSET Surface
  /\ UNCHANGED <<pipe, writing, report>>
  /\ episode' = Begun(Cardinality(announce'))

(* A slip: the callback does not ask for surfaces only, and a layer of the *)
(* same id is announced as well.                                            *)
AnnounceLayersToo(s) ==
  /\ main = "announce"
  /\ s \in announce
  /\ HasRoom
  /\ pipe' = Append(pipe, Created(s))
  /\ announce' \in {announce, announce \ {s}}
  /\ UNCHANGED <<writing, main, report, episode>>

(* notification_callback on the main thread, once for each surface. *)
Announce(s) ==
  /\ main = "announce"
  /\ s \in announce
  /\ HasRoom
  /\ pipe' = Append(pipe, Created(s))
  /\ announce' = announce \ {s}
  /\ UNCHANGED <<writing, main, report, episode>>

AnnouncingDone ==
  /\ main = "announce"
  /\ announce = {}
  /\ main' = "poll"
  /\ episode' = NoEpisode
  /\ UNCHANGED <<pipe, writing, report, announce>>

(* The pass ends without a command that registers. *)
EndPass ==
  /\ main = "client"
  /\ main' = "poll"
  /\ UNCHANGED <<pipe, writing, report, announce, episode>>

Main ==
  \/ ReadEvent \/ NoEventToRead \/ Report
  \/ StartAnnouncing \/ AnnouncingDone \/ EndPass
  \/ \E s \in Surface : Announce(s)

Next == Main \/ Write \/ \E e \in Event : Notify(e)

Spec == Init /\ [][Next]_vars

(* The clients alone: every surface exists from the start on, no           *)
(* application does anything, and the main thread goes on whenever it can,  *)
(* a blocked write as soon as the pipe has room.                            *)
CommandsSpec ==
  /\ Init /\ announce = Surface
  /\ [][Main /\ (StartAnnouncing => announce' = Surface)]_vars
  /\ WF_vars(Main)

-----------------------------------------------------------------------------
(* What the main thread has still to write in the current series. *)
StillToWrite ==
  CASE main = "report"   -> 1
    [] main = "announce" -> Cardinality(announce)
    [] OTHER             -> 0

(* The inductive invariant behind BlocksOnlyOnBacklog: in a series of      *)
(* writes of the main thread the pipe holds what was unread, what came and *)
(* what the main thread has written, and nothing else.                      *)
PipeAccounted ==
  /\ main # "announce" => announce = {}
  /\ IsWriting =>
       Len(pipe) = (episode.unread + episode.came + episode.due) - StillToWrite

(* The main thread, which alone could make room, writes to its own pipe:   *)
(* one event for a surface that reports itself, one for each surface when   *)
(* it registers (surface_notification_callback, notification_callback).     *)
(* It can block there for ever, but only when the events it found unread,   *)
(* those the ILM thread wrote meanwhile and its own are more than the pipe  *)
(* holds: nothing else it does adds to them, however many layers exist.    *)
BlocksOnlyOnBacklog ==
  IsWriting /\ StillToWrite > 0 /\ ~HasRoom =>
    episode.unread + episode.came + episode.due > Capacity

(* README: after the start commands can be sent through the socket.  That  *)
(* needs a main thread that comes back to poll again and again.  It does   *)
(* not: a pass reads one event at most, an initial_screen writes one for   *)
(* each surface, and once enough are unread a write of its own blocks the   *)
(* main thread on the pipe that only it reads.                              *)
MainReturns == []<>(main = "poll")

=============================================================================
