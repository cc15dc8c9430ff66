------------------------------ MODULE Receiver ------------------------------
(***************************************************************************)
(* The command socket: the poll loop of app/main.c, the server half of      *)
(* app/comm_receiver.c, and the clients, example/wmsendcmd.c with the       *)
(* client half of comm_receiver.c.                                          *)
(*                                                                         *)
(* A request is a magic code, a size and a body.  A client sends the first  *)
(* two with one send each and the body in any number of pieces (a send of   *)
(* more than the socket buffer holds); the server never looks at where a    *)
(* send ended.  A byte is its position in the client's stream: what the     *)
(* server reads is an interval of positions, and it is a magic code, a      *)
(* size or a body exactly if it has the place of one.                       *)
(*                                                                         *)
(* The kernel is modelled from how both sides use it: streams are reliable  *)
(* and in order; what a client has sent stays readable after it closed; a   *)
(* client that closes with a reply unread makes one later recv of the       *)
(* server fail (ECONNRESET); a send to a closed peer is a SIGPIPE, which    *)
(* neither program handles.                                                 *)
(***************************************************************************)
EXTENDS Integers, FiniteSets, SequencesExt

CONSTANTS
  Client,
  Foreign,    \* clients with another magic code
  HeaderLen,  \* bytes of the magic code and of the size: 4 in the program
  BodyLen,    \* bytes of a body
  Rounds,     \* bound: requests that a client sends on its connection
  Backlog,    \* backlog of listen: 3 in the program
  Garbage,    \* what an uninitialized size may read as
  UIntMod,    \* 2^32 in the program: bytes_read is an unsigned int
  Killing,    \* when clients are killed: "never", "unserved" or "anytime"
  Event,      \* what the callbacks write to the pipe
  NoClient    \* accept_fd = -1

ASSUME ClientAssumption == Foreign \subseteq Client /\ NoClient \notin Client
ASSUME LengthAssumption == HeaderLen \in Nat \ {0} /\ BodyLen \in Nat \ {0}
ASSUME SizeAssumption == UIntMod \in Nat /\ 2 * BodyLen < UIntMod
ASSUME GarbageAssumption == Garbage \subseteq 0 .. UIntMod - 1
ASSUME BoundAssumption == Rounds \in Nat \ {0} /\ Backlog \in Nat
ASSUME KillingAssumption == Killing \in {"never", "unserved", "anytime"}

VARIABLES
  cpc,        \* what each client does next
  starts,     \* where in its stream each client's requests begin
  sent,       \* bytes that each client has sent
  left,       \* bytes of its current request that are still to be sent
  echoed,     \* did it get its magic code back?
  replies,    \* 4-byte replies on their way to each client
  acked,      \* its requests that it was told are done
  reset,      \* will a recv from it fail with ECONNRESET?
  listening,  \* did create_server_socket succeed?
  queue,      \* the connections not accepted yet
  spc,        \* where wait_event_loop is
  revents,    \* what poll reported
  accept_fd,  \* the client that is connected
  read,       \* bytes of each client's stream that the server has read
  size,       \* size of the body being read
  bytes_read, \* as acquire_body_from_client counts them
  body,       \* where in the stream the body being read begins
  resp,       \* response to the request at hand
  handled,    \* what the parser was given: history
  pipe        \* the pipe of the callbacks

clientVars == <<cpc, starts, sent, left, echoed, acked>>
loopVars == <<listening, spc, revents, accept_fd, size, bytes_read, body,
              resp, handled>>
vars == <<clientVars, replies, reset, queue, loopVars, read, pipe>>

RequestLen == 2 * HeaderLen + BodyLen

(* Where the request that a client is sending, or has sent last, begins. *)
Current(c) == sent[c] + left[c] - RequestLen

Exchanging == {"magic", "echo", "size", "body", "parse", "respond"}

TypeOK ==
  /\ cpc \in [Client -> {"connect", "send", "echo", "response", "gone",
                      "killed"}]
  /\ starts \in [Client -> SUBSET Nat]
  /\ sent \in [Client -> Nat]
  /\ left \in [Client -> 0 .. RequestLen]
  /\ echoed \in [Client -> BOOLEAN]
  /\ replies \in [Client -> Seq({"magic", "0", "-1"})]
  /\ acked \in [Client -> SUBSET Nat]
  /\ reset \in [Client -> BOOLEAN]
  /\ listening \in BOOLEAN
  /\ queue \in Seq(Client)
  /\ spc \in {"start", "poll", "pipe", "accept", "client", "killed"}
               \cup Exchanging
  /\ revents \in SUBSET {"event", "connection", "data", "hangup"}
  /\ accept_fd \in Client \cup {NoClient}
  /\ spc \in Exchanging => accept_fd \in Client
  /\ read \in [Client -> Nat]
  /\ size \in 0 .. UIntMod - 1
  /\ bytes_read \in 0 .. UIntMod - 1
  /\ body \in Nat
  /\ resp \in {"0", "-1"}
  /\ handled \in Seq([client : Client, from : Nat, len : Nat])
  /\ pipe \in Seq(Event)

Init ==
  /\ cpc = [c \in Client |-> "connect"]
  /\ starts = [c \in Client |-> {0}]
  /\ sent = [c \in Client |-> 0]
  /\ left = [c \in Client |-> RequestLen]
  /\ echoed = [c \in Client |-> FALSE]
  /\ replies = [c \in Client |-> <<>>]
  /\ acked = [c \in Client |-> {}]
  /\ reset = [c \in Client |-> FALSE]
  /\ listening = FALSE
  /\ queue = <<>>
  /\ spc = "start"
  /\ revents = {}
  /\ accept_fd = NoClient
  /\ read = [c \in Client |-> 0]
  /\ size = 0
  /\ bytes_read = 0
  /\ body = 0
  /\ resp = "-1"
  /\ handled = <<>>
  /\ pipe = <<>>

-----------------------------------------------------------------------------
(***************************************************************************)
(* The clients.                                                             *)
(***************************************************************************)

(* Nobody listens before the loop starts, or once the process is gone. *)
Serving == listening /\ spc # "killed"

(* connect_to_server; it waits while the backlog is full. *)
Connect(c) ==
  /\ cpc[c] = "connect"
  /\ \/ /\ Serving /\ Len(queue) <= Backlog
        /\ cpc' = [cpc EXCEPT ![c] = "send"]
        /\ queue' = Append(queue, c)
     \/ /\ ~Serving
        /\ cpc' = [cpc EXCEPT ![c] = "gone"]
        /\ UNCHANGED queue
  /\ UNCHANGED <<starts, sent, left, echoed, acked, replies, reset, loopVars,
                 read, pipe>>

(* How much one send takes: a whole header field, or a piece of the body. *)
Pieces(c) == IF left[c] > BodyLen THEN {HeaderLen} ELSE 1 .. left[c]

(* send_data_to_server and send_body_size_to_server. *)
Send(c) ==
  /\ cpc[c] = "send"
  /\ \/ /\ Serving
        /\ \E n \in Pieces(c) :
             /\ sent' = [sent EXCEPT ![c] = @ + n]
             /\ left' = [left EXCEPT ![c] = @ - n]
             /\ cpc' = [cpc EXCEPT ![c] = IF n = left[c] THEN "echo" ELSE @]
     \/ /\ ~Serving
        /\ cpc' = [cpc EXCEPT ![c] = "gone"]
        /\ UNCHANGED <<sent, left>>
  /\ UNCHANGED <<starts, echoed, acked, replies, reset, queue, loopVars, read,
                 pipe>>

(* A reply has arrived, or the server has gone and never will send one. *)
Readable(c) == replies[c] # <<>> \/ ~Serving
Reply(c) == IF replies[c] = <<>> THEN "none" ELSE Head(replies[c])
Consume(c) == replies' = [replies EXCEPT ![c] = IF @ = <<>> THEN @ ELSE Tail(@)]

(* recv_str_response_from_server: a wrong echo is reported, no more. *)
ReceiveEcho(c) ==
  /\ cpc[c] = "echo"
  /\ Readable(c)
  /\ Consume(c)
  /\ echoed' = [echoed EXCEPT ![c] = Reply(c) = "magic"]
  /\ cpc' = [cpc EXCEPT ![c] = "response"]
  /\ UNCHANGED <<starts, sent, left, acked, reset, queue, loopVars, read, pipe>>

(* recv_response_from_server.  wmsendcmd then exits; another client may go *)
(* on with its next request on the same connection.                        *)
ReceiveResponse(c) ==
  /\ cpc[c] = "response"
  /\ Readable(c)
  /\ Consume(c)
  /\ acked' = [acked EXCEPT ![c] = IF echoed[c] /\ Reply(c) = "0"
                                   THEN @ \cup {Current(c)} ELSE @]
  /\ \/ /\ cpc' = [cpc EXCEPT ![c] = "gone"]
        /\ reset' = [reset EXCEPT ![c] = replies'[c] # <<>>]
        /\ UNCHANGED <<starts, left>>
     \/ /\ Cardinality(starts[c]) < Rounds
        /\ cpc' = [cpc EXCEPT ![c] = "send"]
        /\ starts' = [starts EXCEPT ![c] = @ \cup {sent[c]}]
        /\ left' = [left EXCEPT ![c] = RequestLen]
        /\ UNCHANGED reset
  /\ UNCHANGED <<sent, echoed, queue, loopVars, read, pipe>>

(* Is the server about to serve this client, or serving it? *)
Served(c) ==
  /\ accept_fd = c
  /\ \/ spc \in Exchanging
     \/ spc \in {"pipe", "accept", "client"} /\ "data" \in revents
          /\ "hangup" \notin revents

(* A client is killed: its end of the connection is closed. *)
Killed(c) ==
  /\ cpc[c] \in {"send", "echo", "response"}
  /\ \/ Killing = "anytime"
     \/ Killing = "unserved" /\ ~Served(c)
  /\ cpc' = [cpc EXCEPT ![c] = "killed"]
  /\ reset' = [reset EXCEPT ![c] = replies[c] # <<>>]
  /\ UNCHANGED <<starts, sent, left, echoed, acked, replies, queue, loopVars,
                 read, pipe>>

ClientStep(c) == Connect(c) \/ Send(c) \/ ReceiveEcho(c) \/ ReceiveResponse(c)

(* The callbacks of the ILM thread. *)
EventArrives(e) ==
  /\ ~Contains(pipe, e)
  /\ pipe' = Append(pipe, e)
  /\ UNCHANGED <<clientVars, replies, reset, queue, loopVars, read>>

-----------------------------------------------------------------------------
(***************************************************************************)
(* The loop.                                                                *)
(***************************************************************************)

Gone(c) == cpc[c] \in {"gone", "killed"}
Waiting(c) == sent[c] - read[c]    \* bytes that can be read

(* wait_event_loop starts; create_server_socket may fail, unnoticed. *)
Start ==
  /\ spc = "start"
  /\ spc' = "poll"
  /\ listening' \in BOOLEAN
  /\ UNCHANGED <<clientVars, replies, reset, queue, revents, accept_fd, size,
                 bytes_read, body, resp, handled, read, pipe>>

(* What poll would report now.  An end of file is POLLIN and POLLHUP. *)
Ready ==
  (IF pipe # <<>> THEN {"event"} ELSE {})
    \cup (IF queue # <<>> THEN {"connection"} ELSE {})
    \cup (IF accept_fd = NoClient THEN {}
          ELSE (IF Waiting(accept_fd) > 0 \/ Gone(accept_fd)
                THEN {"data"} ELSE {})
                 \cup (IF Gone(accept_fd) THEN {"hangup"} ELSE {}))

Poll ==
  /\ spc = "poll"
  /\ Ready # {}
  /\ revents' = Ready
  /\ spc' = "pipe"
  /\ UNCHANGED <<clientVars, replies, reset, queue, listening, accept_fd, size,
                 bytes_read, body, resp, handled, read, pipe>>

(* One event is read and handled in each pass. *)
HandleEvent ==
  /\ spc = "pipe"
  /\ spc' = "accept"
  /\ pipe' = IF "event" \in revents THEN Tail(pipe) ELSE pipe
  /\ UNCHANGED <<clientVars, replies, reset, queue, listening, revents,
                 accept_fd, size, bytes_read, body, resp, handled, read>>

(* A slip: a second client is accepted over the first. *)
AcceptAnyway ==
  /\ spc = "accept"
  /\ spc' = "client"
  /\ IF "connection" \in revents
     THEN /\ accept_fd' = Head(queue)
          /\ queue' = Tail(queue)
     ELSE UNCHANGED <<accept_fd, queue>>
  /\ UNCHANGED <<clientVars, replies, reset, listening, revents, size,
                 bytes_read, body, resp, handled, read, pipe>>

(* connect_to_client, unless a client is connected. *)
Accept ==
  /\ spc = "accept"
  /\ spc' = "client"
  /\ IF "connection" \in revents /\ accept_fd = NoClient
     THEN /\ accept_fd' = Head(queue)
          /\ queue' = Tail(queue)
     ELSE UNCHANGED <<accept_fd, queue>>
  /\ UNCHANGED <<clientVars, replies, reset, listening, revents, size,
                 bytes_read, body, resp, handled, read, pipe>>

(* A slip: the pass goes on after the hang-up. *)
HangUpAndGoOn ==
  /\ spc = "client" /\ "hangup" \in revents
  /\ spc' = "magic"
  /\ accept_fd' = NoClient
  /\ UNCHANGED <<clientVars, replies, reset, queue, listening, revents, size,
                 bytes_read, body, resp, handled, read, pipe>>

(* A hang-up is looked at first: what the client sent before is dropped. *)
HangUp ==
  /\ spc = "client" /\ "hangup" \in revents
  /\ spc' = "poll"
  /\ accept_fd' = NoClient
  /\ UNCHANGED <<clientVars, replies, reset, queue, listening, revents, size,
                 bytes_read, body, resp, handled, read, pipe>>

(* A slip: data is looked at first. *)
StartExchangeFirst ==
  /\ spc = "client"
  /\ resp' = "-1"
  /\ spc' = IF "data" \in revents THEN "magic" ELSE "poll"
  /\ UNCHANGED <<clientVars, replies, reset, queue, listening, revents,
                 accept_fd, size, bytes_read, body, handled, read, pipe>>

(* There is a command to receive, or nothing to do for the client. *)
StartExchange ==
  /\ spc = "client" /\ "hangup" \notin revents
  /\ resp' = "-1"
  /\ spc' = IF "data" \in revents THEN "magic" ELSE "poll"
  /\ UNCHANGED <<clientVars, replies, reset, queue, listening, revents,
                 accept_fd, size, bytes_read, body, handled, read, pipe>>

-----------------------------------------------------------------------------
(***************************************************************************)
(* recv and send on the connection of client c.                             *)
(***************************************************************************)

(* recv returns: bytes have arrived, or the other end is closed. *)
Returns(c) == Waiting(c) > 0 \/ Gone(c)

(* The result of recv for n bytes: as many as there are, -1 for the error  *)
(* that is reported once, or 0 at the end of the stream.                   *)
Received(c, n) ==
  IF Waiting(c) >= n THEN n
  ELSE IF Waiting(c) > 0 THEN Waiting(c)
  ELSE IF reset[c] THEN -1 ELSE 0

(* What recv does to the stream. *)
Take(c, n) ==
  /\ read' = IF n > 0 THEN [read EXCEPT ![c] = @ + n] ELSE read
  /\ reset' = IF n < 0 THEN [reset EXCEPT ![c] = FALSE] ELSE reset

(* Can the n bytes read next, and garbage after them, pass for the magic   *)
(* code?  FALSE, TRUE or either.                                           *)
LooksLikeMagic(c, n) ==
  IF n < 0 THEN {FALSE}
  ELSE IF n = 0 THEN BOOLEAN
  ELSE IF c \in Foreign \/ read[c] \notin starts[c] THEN {FALSE}
  ELSE IF n = HeaderLen THEN {TRUE} ELSE BOOLEAN

(* The first half of exchange_magiccode_with_client. *)
ReceiveMagic ==
  /\ spc = "magic" /\ Returns(accept_fd)
  /\ LET n == Received(accept_fd, HeaderLen)
     IN  /\ \E ok \in LooksLikeMagic(accept_fd, n) :
              spc' = IF ok THEN "echo" ELSE "respond"
         /\ Take(accept_fd, n)
  /\ UNCHANGED <<clientVars, replies, queue, listening, revents, accept_fd,
                 size, bytes_read, body, resp, handled, pipe>>

(* send: the reply is on its way, or the process gets a SIGPIPE. *)
SendReply(c, reply, next) ==
  /\ replies' = IF Gone(c) THEN replies
                ELSE [replies EXCEPT ![c] = Append(@, reply)]
  /\ spc' = IF Gone(c) THEN "killed" ELSE next

(* The second half: the magic code goes back. *)
EchoMagic ==
  /\ spc = "echo"
  /\ SendReply(accept_fd, "magic", "size")
  /\ UNCHANGED <<clientVars, reset, queue, listening, revents, accept_fd, size,
                 bytes_read, body, resp, handled, read, pipe>>

(* The size that the n bytes read next are taken for. *)
SizeRead(c, n) ==
  IF n < 0 THEN {0}
  ELSE IF n = HeaderLen /\ read[c] - HeaderLen \in starts[c] THEN {BodyLen}
  ELSE Garbage

(* acquire_body_size_from_client; the loop takes the size for an int. *)
ReceiveSize ==
  /\ spc = "size" /\ Returns(accept_fd)
  /\ LET n == Received(accept_fd, HeaderLen)
     IN  /\ size' \in SizeRead(accept_fd, n)
         /\ Take(accept_fd, n)
  /\ spc' = IF 0 < size' /\ 2 * size' < UIntMod THEN "body" ELSE "respond"
  /\ bytes_read' = 0
  /\ body' = read'[accept_fd]
  /\ UNCHANGED <<clientVars, replies, queue, listening, revents, accept_fd,
                 resp, handled, pipe>>

(* A slip: one recv is taken to be enough. *)
ReceiveBodyOnce ==
  /\ spc = "body" /\ Returns(accept_fd)
  /\ LET n == Received(accept_fd, size - bytes_read)
     IN  /\ bytes_read' = (bytes_read + n) % UIntMod
         /\ Take(accept_fd, n)
  /\ spc' = "parse"
  /\ UNCHANGED <<clientVars, replies, queue, listening, revents, accept_fd,
                 size, body, resp, handled, pipe>>

(* One pass of the loop of acquire_body_from_client.  The result of recv   *)
(* is added to the unsigned count whatever it is: at the end of the stream *)
(* nothing changes, now or ever.                                           *)
ReceiveBody ==
  /\ spc = "body" /\ Returns(accept_fd)
  /\ LET n == Received(accept_fd, size - bytes_read)
     IN  /\ bytes_read' = (bytes_read + n) % UIntMod
         /\ Take(accept_fd, n)
  /\ spc' = IF bytes_read' < size THEN "body" ELSE "parse"
  /\ UNCHANGED <<clientVars, replies, queue, listening, revents, accept_fd,
                 size, body, resp, handled, pipe>>

(* The bytes that the parser is given. *)
Message == [client |-> accept_fd, from |-> body, len |-> read[accept_fd] - body]

(* parser_parse_recv_command: it returns 0 whatever the message is; an     *)
(* empty one, left by an error in the first recv, has no command in it.    *)
Parse ==
  /\ spc = "parse"
  /\ spc' = "respond"
  /\ resp' = "0"
  /\ handled' = IF Message.len = 0 THEN handled ELSE Append(handled, Message)
  /\ UNCHANGED <<clientVars, replies, reset, queue, listening, revents,
                 accept_fd, size, bytes_read, body, read, pipe>>

(* A slip: the response goes out before the command is carried out. *)
RespondEarly ==
  /\ spc \in {"parse", "respond"}
  /\ SendReply(accept_fd, "0", "poll")
  /\ UNCHANGED <<clientVars, reset, queue, listening, revents, accept_fd, size,
                 bytes_read, body, resp, handled, read, pipe>>

(* send_response_to_client. *)
Respond ==
  /\ spc = "respond"
  /\ SendReply(accept_fd, resp, "poll")
  /\ UNCHANGED <<clientVars, reset, queue, listening, revents, accept_fd, size,
                 bytes_read, body, resp, handled, read, pipe>>

Loop ==
  \/ Start \/ Poll \/ HandleEvent \/ Accept \/ HangUp \/ StartExchange
  \/ ReceiveMagic \/ EchoMagic \/ ReceiveSize \/ ReceiveBody \/ Parse \/ Respond

Next ==
  \/ Loop
  \/ \E c \in Client : ClientStep(c) \/ Killed(c)
  \/ \E e \in Event : EventArrives(e)

Spec == Init /\ [][Next]_vars

(***************************************************************************)
(* Both programs run on: neither is stopped, and a client that is waiting   *)
(* to connect does so when there is room.  Nobody has to be killed, and no  *)
(* event has to arrive.                                                     *)
(***************************************************************************)
Fairness == WF_vars(Loop) /\ \A c \in Client : WF_vars(ClientStep(c))

FairSpec == Spec /\ Fairness

-----------------------------------------------------------------------------
(***************************************************************************)
(* Safety.                                                                  *)
(***************************************************************************)

(* A request is known by its client and its place in the client's stream. *)
Submitted(c, p) == p \in starts[c] /\ p + RequestLen <= sent[c]

(* The request whose body a message is; none if it is any other bytes. *)
RequestOf(m) ==
  IF m.len = BodyLen /\ m.from - 2 * HeaderLen \in starts[m.client]
  THEN <<m.client, m.from - 2 * HeaderLen>>
  ELSE <<NoClient, m.from>>

Service == INSTANCE CommandService WITH
  Request   <- Client \X Nat,
  submitted <- UNION {{<<c, p>> : p \in {q \in starts[c] : Submitted(c, q)}}
                        : c \in Client},
  executed  <- [i \in DOMAIN handled |-> RequestOf(handled[i])],
  answered  <- UNION {{<<c, p>> : p \in acked[c]} : c \in Client}

(* However requests are cut into pieces and whoever is killed when, the    *)
(* parser is given whole bodies of requests, each at most once, and no     *)
(* client is told that a command is done that was not: the pairing of      *)
(* replies with requests is never out of step.                             *)
ImplementsService == Service!Spec

(* The parser is given bodies, whole, once each, and none from a client    *)
(* with another magic code: acquire_body_from_client never returns with    *)
(* part of a body, because at the end of the stream it does not return.    *)
Intact ==
  /\ \A i \in DOMAIN handled :
       /\ handled[i].client \in Client \ Foreign
       /\ handled[i].len = BodyLen
       /\ handled[i].from - 2 * HeaderLen \in starts[handled[i].client]
  /\ IsInjective(handled)

(* recv may return less than it is asked for, and neither header field is  *)
(* checked for it; but none is ever short, so no uninitialized byte is     *)
(* taken for a magic code or a size, even when the client is killed: then  *)
(* recv fails, because the echo of the magic code was left unread.         *)
HeadersWhole ==
  /\ spc = "magic" /\ accept_fd \notin Foreign => Waiting(accept_fd) >= HeaderLen
  /\ spc = "size" /\ Returns(accept_fd) =>
       Waiting(accept_fd) >= HeaderLen \/ reset[accept_fd]
  /\ spc = "body" => size = BodyLen

(* The server is not taken down by a client that goes away while it is not *)
(* being served: the hang-up is seen before anything is sent.              *)
Survives == spc # "killed"

(***************************************************************************)
(* The inductive invariant behind these: where each client is in its       *)
(* stream, where the loop is in that of the client it serves, and which     *)
(* replies are between them.                                                *)
(***************************************************************************)

(* The parser was given the request of c that begins at p. *)
Handled(c, p) ==
  \E i \in DOMAIN handled :
    handled[i] = [client |-> c, from |-> p + 2 * HeaderLen, len |-> BodyLen]

StreamInv(c) ==
  /\ left[c] \in {RequestLen, RequestLen - HeaderLen} \cup 0 .. BodyLen
  /\ Current(c) \in starts[c]
  /\ \A p \in starts[c] : p = Current(c) \/ p + RequestLen <= Current(c)
  /\ read[c] <= sent[c]
  /\ cpc[c] = "connect" => sent[c] = 0 /\ left[c] = RequestLen
  /\ cpc[c] = "send" => left[c] > 0
  /\ cpc[c] \in {"echo", "response"} => left[c] = 0
  /\ cpc[c] \in {"send", "echo", "response"} => listening
  /\ reset[c] => Gone(c)

(* What poll reported still holds when it is looked at. *)
PollInv ==
  /\ spc = "start" => ~listening
  /\ spc = "pipe" /\ "event" \in revents => pipe # <<>>
  /\ spc \in {"pipe", "accept"} /\ "connection" \in revents => queue # <<>>
  /\ spc \in {"pipe", "accept", "client"} /\ "data" \in revents =>
       /\ accept_fd \in Client
       /\ "hangup" \in revents \/ Waiting(accept_fd) > 0

(* How far the loop has read the request of the client that it serves. *)
StageInv(c) ==
  /\ spc = "magic" => read[c] = Current(c)
  /\ spc \in {"echo", "size"} => read[c] = Current(c) + HeaderLen
  /\ spc = "size" /\ Gone(c) => reset[c] \/ left[c] = 0
  /\ spc \in {"body", "parse"} =>
       size = BodyLen /\ body = Current(c) + 2 * HeaderLen
  /\ spc = "body" =>
       \/ bytes_read < BodyLen /\ read[c] = body + bytes_read
       \/ /\ bytes_read + 1 < BodyLen /\ read[c] = body + bytes_read + 1
          /\ Gone(c) /\ ~reset[c] /\ Waiting(c) = 0
  /\ spc = "parse" =>
       read[c] = body + BodyLen \/ (read[c] = body /\ Gone(c))
  /\ spc = "respond" =>
       \/ Gone(c)
       \/ /\ read[c] = Current(c) + RequestLen
          /\ resp = "0" /\ Handled(c, Current(c))

ExchangeInv ==
  /\ spc = "magic" => Waiting(accept_fd) > 0
  /\ spc \in {"echo", "size", "body", "parse"} => accept_fd \notin Foreign
  /\ spc \in {"magic", "respond"} /\ accept_fd \in Foreign => resp = "-1"
  /\ spc \in Exchanging /\ accept_fd \notin Foreign => StageInv(accept_fd)

Exchanges(c) == spc \in Exchanging /\ accept_fd = c

(* The replies on their way to c are those of its last request. *)
RepliesInv(c) ==
  IF c \in Foreign
  THEN \A i \in DOMAIN replies[c] : replies[c][i] = "-1"
  ELSE ~Gone(c) =>
       \/ cpc[c] # "response" /\ replies[c] \in {<<>>, <<"magic">>}
       \/ cpc[c] = "response" /\ replies[c] = <<>>
       \/ cpc[c] = "echo" /\ replies[c] = <<"magic", "0">> /\ Handled(c, Current(c))
       \/ cpc[c] = "response" /\ replies[c] = <<"0">> /\ Handled(c, Current(c))

(* Nothing, or all, of the last request of c is read when the loop is not  *)
(* at it; and there are the replies that have been sent by then.           *)
AlignedInv(c) ==
  IF Exchanges(c)
  THEN ~Gone(c) =>
         IF spc \in {"magic", "echo"}
         THEN cpc[c] # "response" /\ replies[c] = <<>>
         ELSE \/ cpc[c] # "response" /\ replies[c] = <<"magic">>
              \/ cpc[c] = "response" /\ replies[c] = <<>>
  ELSE \/ /\ read[c] = Current(c)
          /\ ~Gone(c) => cpc[c] # "response" /\ replies[c] = <<>>
       \/ /\ read[c] = Current(c) + RequestLen
          /\ ~Gone(c) => \/ cpc[c] = "echo" /\ Len(replies[c]) = 2
                         \/ cpc[c] = "response" /\ Len(replies[c]) = 1

HandledInv ==
  /\ \A i \in DOMAIN handled :
       LET m == handled[i]
       IN  /\ m.client \in Client \ Foreign
           /\ m.len = BodyLen
           /\ m.from - 2 * HeaderLen \in starts[m.client]
           /\ m.from + BodyLen <= read[m.client]
           /\ spc \in {"body", "parse"} /\ accept_fd = m.client =>
                m.from + BodyLen <= body
  /\ IsInjective(handled)
  /\ \A c \in Client : \A p \in acked[c] : Handled(c, p)

ReceiverInv ==
  /\ TypeOK
  /\ \A c \in Client : StreamInv(c) /\ RepliesInv(c)
  /\ PollInv /\ ExchangeInv
  /\ spc # "killed" => \A c \in Client \ Foreign : AlignedInv(c)
  /\ HandledInv

-----------------------------------------------------------------------------
(***************************************************************************)
(* Liveness.                                                                *)
(***************************************************************************)

(* README: "After uhmi-ivi-wm is started, you can also send layout commands *)
(* via a Unix Domain Socket connection": a client that has sent a command  *)
(* is answered, unless it is killed.                                       *)
CommandsAnswered ==
  \A c \in Client \ Foreign, p \in {k * RequestLen : k \in 0 .. Rounds - 1} :
    Submitted(c, p) ~> p \in acked[c] \/ cpc[c] = "killed"

(* Every event is read, however many commands arrive. *)
EventsHandled == \A e \in Event : Contains(pipe, e) ~> ~Contains(pipe, e)

=============================================================================
