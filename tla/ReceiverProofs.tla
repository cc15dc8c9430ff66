--------------------------- MODULE ReceiverProofs ---------------------------
(***************************************************************************)
(* Proofs about Receiver, for any number of clients, any lengths of headers *)
(* and bodies, and clients killed at any time: what the parser is given and *)
(* what clients are told never get out of step with what they sent, which   *)
(* is that Receiver implements CommandService.                              *)
(***************************************************************************)
EXTENDS Receiver, SequenceTheorems, TLAPS

USE DEF RequestLen

(***************************************************************************)
(* Types.                                                                   *)
(***************************************************************************)

LEMMA TypeInit == Init => TypeOK
<1> SUFFICES ASSUME Init PROVE TypeOK
  OBVIOUS
<1> USE LengthAssumption, SizeAssumption DEF Init
<1>1. /\ cpc \in [Client -> {"connect", "send", "echo", "response", "gone",
                             "killed"}]
      /\ starts \in [Client -> SUBSET Nat]
      /\ left \in [Client -> 0 .. RequestLen]
  OBVIOUS
<1>2. replies \in [Client -> Seq({"magic", "0", "-1"})]
  OBVIOUS
<1>3. handled \in Seq([client : Client, from : Nat, len : Nat])
  OBVIOUS
<1>4. pipe \in Seq(Event) /\ queue \in Seq(Client)
  OBVIOUS
<1>5. size \in 0 .. UIntMod - 1
  OBVIOUS
<1> QED BY <1>1, <1>2, <1>3, <1>4, <1>5 DEF TypeOK, Exchanging

LEMMA SequenceSteps ==
  ASSUME NEW S, NEW q \in Seq(S)
  PROVE  /\ \A e \in S : Append(q, e) \in Seq(S)
         /\ q # <<>> => Head(q) \in S /\ Tail(q) \in Seq(S)
OBVIOUS

LEMMA AppendElements ==
  ASSUME NEW S, NEW q \in Seq(S), NEW e
  PROVE  /\ DOMAIN q = 1 .. Len(q) /\ Len(q) \in Nat
         /\ DOMAIN Append(q, e) = 1 .. Len(q) + 1
         /\ Append(q, e)[Len(q) + 1] = e
         /\ \A i \in 1 .. Len(q) : Append(q, e)[i] = q[i]
<1>1. q \in Seq(S \cup {e}) /\ e \in S \cup {e}
  OBVIOUS
<1> QED BY <1>1

(* The numbers of one client. *)
LEMMA Numbers ==
  ASSUME TypeOK, NEW c \in Client
  PROVE  /\ sent[c] \in Nat /\ left[c] \in Nat /\ read[c] \in Nat
         /\ left[c] <= RequestLen
         /\ starts[c] \in SUBSET Nat
         /\ Current(c) \in Int
         /\ Current(c) + RequestLen = sent[c] + left[c]
         /\ Waiting(c) \in Int /\ Waiting(c) = sent[c] - read[c]
         /\ HeaderLen \in Nat \ {0} /\ BodyLen \in Nat \ {0}
<1>1. sent[c] \in Nat /\ left[c] \in 0 .. RequestLen /\ read[c] \in Nat
      /\ starts[c] \in SUBSET Nat
  BY DEF TypeOK
<1> QED BY <1>1, LengthAssumption DEF Current, Waiting

(* How much one send takes. *)
LEMMA PiecesFit ==
  ASSUME TypeOK, NEW c \in Client, StreamInv(c), NEW n \in Pieces(c), left[c] > 0
  PROVE  /\ n \in Nat \ {0} /\ n <= left[c]
         /\ left[c] - n \in {RequestLen - HeaderLen} \cup 0 .. BodyLen
<1>1. left[c] \in {RequestLen, RequestLen - HeaderLen} \cup 0 .. BodyLen
  BY DEF StreamInv
<1>2. CASE left[c] > BodyLen
  <2>1. n = HeaderLen
    BY <1>2 DEF Pieces
  <2> QED BY <1>1, <1>2, <2>1, Numbers
<1>3. CASE left[c] <= BodyLen
  <2>1. n \in 1 .. left[c]
    BY <1>3, Numbers DEF Pieces
  <2> QED BY <1>1, <1>3, <2>1, Numbers
<1> QED BY <1>2, <1>3, Numbers

(* The steps of clients and callbacks. *)
LEMMA TypeOfClients ==
  ASSUME TypeOK, \A c \in Client : StreamInv(c),
         \/ \E c \in Client : ClientStep(c) \/ Killed(c)
         \/ \E e \in Event : EventArrives(e)
  PROVE  TypeOK'
<1> USE DEF TypeOK, clientVars, loopVars
<1>1. ASSUME NEW c \in Client, Connect(c) PROVE TypeOK'
  <2>1. cpc' \in [Client -> {"connect", "send", "echo", "response", "gone",
                             "killed"}]
    BY <1>1 DEF Connect
  <2>2. queue' = queue \/ queue' = Append(queue, c)
    BY <1>1 DEF Connect
  <2>3. queue' \in Seq(Client)
    <3> HIDE DEF TypeOK
    <3>1. queue \in Seq(Client)
      BY DEF TypeOK
    <3> QED BY <2>2, <3>1, SequenceSteps
  <2> QED BY <1>1, <2>1, <2>3 DEF Connect
<1>2. ASSUME NEW c \in Client, Send(c) PROVE TypeOK'
  <2>1. cpc' \in [Client -> {"connect", "send", "echo", "response", "gone",
                             "killed"}]
    BY <1>2 DEF Send
  <2>2. ASSUME NEW n \in Pieces(c)
        PROVE  n \in Nat /\ left[c] - n \in 0 .. RequestLen
    <3>1. left[c] > 0
      BY <1>2 DEF Send, StreamInv
    <3> HIDE DEF TypeOK
    <3>2. n \in Nat /\ left[c] - n \in {RequestLen - HeaderLen} \cup 0 .. BodyLen
      BY <2>2, <3>1, PiecesFit
    <3> QED BY <3>2, LengthAssumption
  <2>3. sent' \in [Client -> Nat] /\ left' \in [Client -> 0 .. RequestLen]
    <3> HIDE DEF TypeOK
    <3>1. sent \in [Client -> Nat] /\ left \in [Client -> 0 .. RequestLen]
      BY DEF TypeOK
    <3>2. CASE UNCHANGED <<sent, left>>
      BY <3>1, <3>2
    <3>3. ASSUME NEW n \in Pieces(c), sent' = [sent EXCEPT ![c] = @ + n],
                 left' = [left EXCEPT ![c] = @ - n]
          PROVE  sent' \in [Client -> Nat] /\ left' \in [Client -> 0 .. RequestLen]
      BY <2>2, <3>1, <3>3
    <3> QED BY <1>2, <3>2, <3>3 DEF Send
  <2> QED BY <1>2, <2>1, <2>3 DEF Send
<1>3. ASSUME NEW c \in Client, ReceiveEcho(c) PROVE TypeOK'
  <2>1. replies' \in [Client -> Seq({"magic", "0", "-1"})]
    BY <1>3 DEF ReceiveEcho, Consume
  <2>2. cpc' \in [Client -> {"connect", "send", "echo", "response", "gone",
                             "killed"}]
    BY <1>3 DEF ReceiveEcho
  <2>3. echoed' \in [Client -> BOOLEAN]
    BY <1>3 DEF ReceiveEcho
  <2> QED BY <1>3, <2>1, <2>2, <2>3 DEF ReceiveEcho
<1>4. ASSUME NEW c \in Client, ReceiveResponse(c) PROVE TypeOK'
  <2>1. replies' \in [Client -> Seq({"magic", "0", "-1"})]
    BY <1>4 DEF ReceiveResponse, Consume
  <2>2. Current(c) \in Nat
    BY DEF StreamInv
  <2> HIDE DEF TypeOK
  <2>3. /\ acked \in [Client -> SUBSET Nat] /\ starts \in [Client -> SUBSET Nat]
        /\ left \in [Client -> 0 .. RequestLen] /\ sent \in [Client -> Nat]
    BY DEF TypeOK
  <2>4. acked' \in [Client -> SUBSET Nat]
    <3> DEFINE new == IF echoed[c] /\ Reply(c) = "0" THEN acked[c] \cup {Current(c)}
                                                      ELSE acked[c]
    <3>1. acked' = [acked EXCEPT ![c] = new]
      BY <1>4 DEF ReceiveResponse
    <3>2. new \in SUBSET Nat
      BY <2>2, <2>3
    <3> QED BY <2>3, <3>1, <3>2
  <2>5. starts' = starts \/ starts' = [starts EXCEPT ![c] = @ \cup {sent[c]}]
    BY <1>4, Zenon DEF ReceiveResponse
  <2>6. starts' \in [Client -> SUBSET Nat]
    BY <2>3, <2>5
  <2>9. left' = left \/ left' = [left EXCEPT ![c] = RequestLen]
    BY <1>4, Zenon DEF ReceiveResponse
  <2>10. left' \in [Client -> 0 .. RequestLen]
    BY <2>3, <2>9, LengthAssumption
  <2> USE DEF TypeOK
  <2>7. reset' \in [Client -> BOOLEAN]
    BY <1>4 DEF ReceiveResponse
  <2>8. cpc' \in [Client -> {"connect", "send", "echo", "response", "gone",
                             "killed"}]
    BY <1>4 DEF ReceiveResponse
  <2> QED BY <1>4, <2>1, <2>4, <2>6, <2>7, <2>8, <2>10 DEF ReceiveResponse
<1>5. ASSUME NEW c \in Client, Killed(c) PROVE TypeOK'
  <2>1. reset' \in [Client -> BOOLEAN]
        /\ cpc' \in [Client -> {"connect", "send", "echo", "response", "gone",
                                "killed"}]
    BY <1>5 DEF Killed
  <2> QED BY <1>5, <2>1 DEF Killed
<1>6. ASSUME NEW e \in Event, EventArrives(e) PROVE TypeOK'
  <2>1. pipe' \in Seq(Event)
    BY <1>6 DEF EventArrives
  <2> QED BY <1>6, <2>1 DEF EventArrives
<1> QED BY <1>1, <1>2, <1>3, <1>4, <1>5, <1>6 DEF ClientStep

(* What recv may return. *)
LEMMA ReceivedBounds ==
  ASSUME TypeOK, NEW c \in Client, StreamInv(c), NEW n \in Nat
  PROVE  /\ Received(c, n) \in -1 .. n
         /\ Received(c, n) >= 0 => Received(c, n) <= Waiting(c)
         /\ Waiting(c) \in Nat
<1>1. read[c] <= sent[c]
  BY DEF StreamInv
<1> QED BY <1>1, Numbers DEF Received

(* What a recv does to the types. *)
LEMMA TakeType ==
  ASSUME TypeOK, NEW c \in Client, NEW n \in Int, Take(c, n)
  PROVE  read' \in [Client -> Nat] /\ reset' \in [Client -> BOOLEAN]
<1>1. read \in [Client -> Nat] /\ reset \in [Client -> BOOLEAN]
  BY DEF TypeOK
<1>2. read' \in [Client -> Nat]
  BY <1>1 DEF Take
<1>3. reset' \in [Client -> BOOLEAN]
  BY <1>1 DEF Take
<1> QED BY <1>2, <1>3

(* The client that is served. *)
LEMMA ServedClient ==
  ASSUME TypeOK, spc \in Exchanging
  PROVE  accept_fd \in Client
BY DEF TypeOK

(* The steps of the loop. *)
LEMMA TypeOfLoop ==
  ASSUME TypeOK, \A c \in Client : StreamInv(c), PollInv, ExchangeInv, Loop
  PROVE  TypeOK'
<1> USE DEF TypeOK, clientVars, loopVars, Exchanging
<1>1. CASE Start
  BY <1>1 DEF Start
<1>2. CASE Poll
  <2>1. revents' \in SUBSET {"event", "connection", "data", "hangup"}
    BY <1>2 DEF Poll, Ready
  <2> QED BY <1>2, <2>1 DEF Poll
<1>3. CASE HandleEvent
  <2>1. pipe' \in Seq(Event)
    BY <1>3 DEF HandleEvent, PollInv
  <2> QED BY <1>3, <2>1 DEF HandleEvent
<1>4. CASE Accept
  <2>1. \/ UNCHANGED <<queue, accept_fd>>
        \/ queue # <<>> /\ queue' = Tail(queue) /\ accept_fd' = Head(queue)
    BY <1>4 DEF Accept, PollInv
  <2>2. queue' \in Seq(Client) /\ accept_fd' \in Client \cup {NoClient}
    <3> HIDE DEF TypeOK
    <3>1. queue \in Seq(Client) /\ accept_fd \in Client \cup {NoClient}
      BY DEF TypeOK
    <3> QED BY <2>1, <3>1, SequenceSteps
  <2> QED BY <1>4, <2>2 DEF Accept
<1>5. CASE HangUp
  BY <1>5 DEF HangUp
<1>6. CASE StartExchange
  BY <1>6 DEF StartExchange, PollInv
<1>7. CASE ReceiveMagic
  <2>1. accept_fd \in Client
    BY <1>7 DEF ReceiveMagic
  <2>2. Received(accept_fd, HeaderLen) \in Int
    BY <2>1, ReceivedBounds, LengthAssumption
  <2>3. read' \in [Client -> Nat] /\ reset' \in [Client -> BOOLEAN]
    BY <1>7, <2>1, <2>2, TakeType DEF ReceiveMagic
  <2>4. spc' \in {"echo", "respond"}
    BY <1>7 DEF ReceiveMagic
  <2> QED BY <1>7, <2>1, <2>3, <2>4 DEF ReceiveMagic
<1>8. CASE EchoMagic
  <2>1. replies' \in [Client -> Seq({"magic", "0", "-1"})]
    BY <1>8 DEF EchoMagic, SendReply
  <2>2. spc' \in {"killed", "size"}
    BY <1>8 DEF EchoMagic, SendReply
  <2> QED BY <1>8, <2>1, <2>2 DEF EchoMagic
<1>9. CASE ReceiveSize
  <2>1. accept_fd \in Client
    BY <1>9 DEF ReceiveSize
  <2>2. Received(accept_fd, HeaderLen) \in Int
    BY <2>1, ReceivedBounds, LengthAssumption
  <2>3. read' \in [Client -> Nat] /\ reset' \in [Client -> BOOLEAN]
    BY <1>9, <2>1, <2>2, TakeType DEF ReceiveSize
  <2>4. size' \in {0, BodyLen} \cup Garbage
    BY <1>9 DEF ReceiveSize, SizeRead
  <2>5. size' \in 0 .. UIntMod - 1
    BY <2>4, GarbageAssumption, LengthAssumption, SizeAssumption
  <2>6. spc' \in {"body", "respond"}
    BY <1>9 DEF ReceiveSize
  <2>7. body' \in Nat /\ bytes_read' \in 0 .. UIntMod - 1
    BY <1>9, <2>1, <2>3, LengthAssumption, SizeAssumption DEF ReceiveSize
  <2> QED BY <1>9, <2>1, <2>3, <2>5, <2>6, <2>7 DEF ReceiveSize
<1>10. CASE ReceiveBody
  <2> DEFINE n == Received(accept_fd, size - bytes_read)
  <2>1. accept_fd \in Client
    BY <1>10 DEF ReceiveBody
  <2>2. size = BodyLen /\ bytes_read < BodyLen
    BY <1>10, <2>1, LengthAssumption DEF ReceiveBody, ExchangeInv, StageInv
  <2>3. n \in Int
    BY <2>1, <2>2, ReceivedBounds, LengthAssumption
  <2>4. read' \in [Client -> Nat] /\ reset' \in [Client -> BOOLEAN]
    BY <1>10, <2>1, <2>3, TakeType DEF ReceiveBody
  <2>5. (bytes_read + n) % UIntMod \in 0 .. UIntMod - 1
    <3> HIDE DEF TypeOK
    <3>1. bytes_read + n \in Int /\ UIntMod \in Nat \ {0}
      BY <2>3, LengthAssumption, SizeAssumption DEF TypeOK
    <3> HIDE DEF n
    <3> QED BY <3>1
  <2>6. bytes_read' \in 0 .. UIntMod - 1
    BY <1>10, <2>5 DEF ReceiveBody
  <2>7. spc' \in {"body", "parse"}
    BY <1>10 DEF ReceiveBody
  <2> QED BY <1>10, <2>1, <2>4, <2>6, <2>7 DEF ReceiveBody
<1>11. CASE Parse
  <2>1. accept_fd \in Client
    BY <1>11 DEF Parse
  <2>2. read[accept_fd] = body + BodyLen \/ read[accept_fd] = body
    BY <1>11, <2>1 DEF Parse, ExchangeInv, StageInv
  <2>3. Message \in [client : Client, from : Nat, len : Nat]
    BY <2>1, <2>2, LengthAssumption DEF Message
  <2>4. handled' = handled \/ handled' = Append(handled, Message)
    BY <1>11 DEF Parse
  <2> HIDE DEF TypeOK
  <2>5. handled \in Seq([client : Client, from : Nat, len : Nat])
    BY DEF TypeOK
  <2>6. handled' \in Seq([client : Client, from : Nat, len : Nat])
    BY <2>3, <2>4, <2>5, SequenceSteps
  <2> QED BY <1>11, <2>1, <2>6 DEF Parse, TypeOK
<1>12. CASE Respond
  <2>1. replies' \in [Client -> Seq({"magic", "0", "-1"})]
    BY <1>12 DEF Respond, SendReply
  <2>2. spc' \in {"killed", "poll"}
    BY <1>12 DEF Respond, SendReply
  <2> QED BY <1>12, <2>1, <2>2 DEF Respond
<1> QED BY <1>1, <1>2, <1>3, <1>4, <1>5, <1>6, <1>7, <1>8, <1>9, <1>10, <1>11,
           <1>12 DEF Loop

-----------------------------------------------------------------------------
(***************************************************************************)
(* The steps of a client, and what they leave alone.                        *)
(***************************************************************************)

Untouched(c) ==
  /\ cpc'[c] = cpc[c] /\ starts'[c] = starts[c] /\ sent'[c] = sent[c]
  /\ left'[c] = left[c] /\ replies'[c] = replies[c] /\ reset'[c] = reset[c]

LEMMA ClientFrame ==
  ASSUME NEW d \in Client, ClientStep(d) \/ Killed(d)
  PROVE  UNCHANGED <<loopVars, read, pipe>>
BY DEF ClientStep, Killed, Connect, Send, ReceiveEcho, ReceiveResponse

LEMMA OtherClients ==
  ASSUME TypeOK, NEW d \in Client, ClientStep(d) \/ Killed(d),
         NEW c \in Client, c # d
  PROVE  Untouched(c) /\ acked'[c] = acked[c] /\ echoed'[c] = echoed[c]
<1> USE DEF Untouched, clientVars
<1>1. /\ cpc \in [Client -> {"connect", "send", "echo", "response", "gone",
                             "killed"}]
      /\ starts \in [Client -> SUBSET Nat] /\ sent \in [Client -> Nat]
      /\ left \in [Client -> 0 .. RequestLen] /\ echoed \in [Client -> BOOLEAN]
      /\ replies \in [Client -> Seq({"magic", "0", "-1"})]
      /\ acked \in [Client -> SUBSET Nat] /\ reset \in [Client -> BOOLEAN]
  BY DEF TypeOK
<1>2. CASE Connect(d)
  BY <1>1, <1>2 DEF Connect
<1>3. CASE Send(d)
  BY <1>1, <1>3 DEF Send
<1>4. CASE ReceiveEcho(d)
  BY <1>1, <1>4 DEF ReceiveEcho, Consume
<1>5. CASE ReceiveResponse(d)
  BY <1>1, <1>5 DEF ReceiveResponse, Consume
<1>6. CASE Killed(d)
  BY <1>1, <1>6 DEF Killed
<1> QED BY <1>2, <1>3, <1>4, <1>5, <1>6 DEF ClientStep

LEMMA ConnectAt ==
  ASSUME TypeOK, NEW d \in Client, Connect(d)
  PROVE  /\ cpc[d] = "connect" /\ cpc'[d] \in {"send", "gone"}
         /\ cpc'[d] = "send" => listening
         /\ sent'[d] = sent[d] /\ left'[d] = left[d] /\ starts'[d] = starts[d]
         /\ replies' = replies /\ reset' = reset /\ acked' = acked
BY DEF Connect, TypeOK, Serving

LEMMA SendAt ==
  ASSUME TypeOK, NEW d \in Client, Send(d)
  PROVE  /\ cpc[d] = "send" /\ starts'[d] = starts[d]
         /\ replies' = replies /\ reset' = reset /\ acked' = acked
         /\ \/ /\ cpc'[d] = "gone" /\ ~Serving
               /\ sent'[d] = sent[d] /\ left'[d] = left[d]
            \/ \E n \in Pieces(d) :
                 /\ sent'[d] = sent[d] + n /\ left'[d] = left[d] - n
                 /\ cpc'[d] = IF n = left[d] THEN "echo" ELSE "send"
<1>1. /\ cpc \in [Client -> {"connect", "send", "echo", "response", "gone",
                             "killed"}]
      /\ sent \in [Client -> Nat] /\ left \in [Client -> 0 .. RequestLen]
  BY DEF TypeOK
<1>2. CASE Serving
  <2>1. PICK n \in Pieces(d) :
          /\ sent' = [sent EXCEPT ![d] = @ + n]
          /\ left' = [left EXCEPT ![d] = @ - n]
          /\ cpc' = [cpc EXCEPT ![d] = IF n = left[d] THEN "echo" ELSE @]
    BY <1>2 DEF Send
  <2>2. /\ sent'[d] = sent[d] + n /\ left'[d] = left[d] - n
        /\ cpc'[d] = IF n = left[d] THEN "echo" ELSE "send"
    BY <1>1, <2>1 DEF Send
  <2> QED BY <2>2 DEF Send
<1>3. CASE ~Serving
  BY <1>1, <1>3 DEF Send
<1> QED BY <1>2, <1>3

LEMMA ReceiveEchoAt ==
  ASSUME TypeOK, NEW d \in Client, ReceiveEcho(d)
  PROVE  /\ cpc[d] = "echo" /\ cpc'[d] = "response" /\ Readable(d)
         /\ sent'[d] = sent[d] /\ left'[d] = left[d] /\ starts'[d] = starts[d]
         /\ reset' = reset /\ acked' = acked
         /\ replies'[d] = IF replies[d] = <<>> THEN <<>> ELSE Tail(replies[d])
<1>1. /\ cpc \in [Client -> {"connect", "send", "echo", "response", "gone",
                             "killed"}]
      /\ replies \in [Client -> Seq({"magic", "0", "-1"})]
  BY DEF TypeOK
<1> QED BY <1>1 DEF ReceiveEcho, Consume

LEMMA ReceiveResponseAt ==
  ASSUME TypeOK, NEW d \in Client, ReceiveResponse(d)
  PROVE  /\ cpc[d] = "response" /\ Readable(d) /\ sent'[d] = sent[d]
         /\ replies'[d] = IF replies[d] = <<>> THEN <<>> ELSE Tail(replies[d])
         /\ acked'[d] = IF echoed[d] /\ Reply(d) = "0"
                        THEN acked[d] \cup {Current(d)} ELSE acked[d]
         /\ \/ /\ cpc'[d] = "gone" /\ reset'[d] = (replies'[d] # <<>>)
               /\ starts'[d] = starts[d] /\ left'[d] = left[d]
            \/ /\ cpc'[d] = "send" /\ reset'[d] = reset[d]
               /\ starts'[d] = starts[d] \cup {sent[d]} /\ left'[d] = RequestLen
<1>1. /\ cpc \in [Client -> {"connect", "send", "echo", "response", "gone",
                             "killed"}]
      /\ starts \in [Client -> SUBSET Nat]
      /\ left \in [Client -> 0 .. RequestLen]
      /\ replies \in [Client -> Seq({"magic", "0", "-1"})]
      /\ acked \in [Client -> SUBSET Nat] /\ reset \in [Client -> BOOLEAN]
  BY DEF TypeOK
<1>2. replies'[d] = IF replies[d] = <<>> THEN <<>> ELSE Tail(replies[d])
  BY <1>1 DEF ReceiveResponse, Consume
<1>3. acked'[d] = IF echoed[d] /\ Reply(d) = "0"
                  THEN acked[d] \cup {Current(d)} ELSE acked[d]
  BY <1>1 DEF ReceiveResponse
<1>4. CASE cpc' = [cpc EXCEPT ![d] = "gone"]
  BY <1>1, <1>2, <1>3, <1>4 DEF ReceiveResponse
<1>5. CASE cpc' = [cpc EXCEPT ![d] = "send"]
  BY <1>1, <1>2, <1>3, <1>5 DEF ReceiveResponse
<1> QED BY <1>4, <1>5 DEF ReceiveResponse

LEMMA KilledAt ==
  ASSUME TypeOK, NEW d \in Client, Killed(d)
  PROVE  /\ cpc[d] \in {"send", "echo", "response"} /\ cpc'[d] = "killed"
         /\ sent'[d] = sent[d] /\ left'[d] = left[d] /\ starts'[d] = starts[d]
         /\ replies' = replies /\ acked' = acked
         /\ reset'[d] = (replies[d] # <<>>)
<1>1. /\ cpc \in [Client -> {"connect", "send", "echo", "response", "gone",
                             "killed"}]
      /\ reset \in [Client -> BOOLEAN]
  BY DEF TypeOK
<1> QED BY <1>1 DEF Killed

-----------------------------------------------------------------------------
(***************************************************************************)
(* The streams.                                                             *)
(***************************************************************************)

LEMMA StreamInit == ASSUME Init, NEW c \in Client PROVE StreamInv(c)
BY LengthAssumption DEF Init, StreamInv, Current, Gone

LEMMA StreamOfClients ==
  ASSUME TypeOK, NEW d \in Client, ClientStep(d) \/ Killed(d),
         NEW c \in Client, StreamInv(c)
  PROVE  StreamInv(c)'
<1> USE Numbers, LengthAssumption DEF Gone
<1>1. listening' = listening /\ read' = read
  BY ClientFrame DEF loopVars
<1>2. CASE c # d
  <2>1. Untouched(c)
    BY <1>2, OtherClients
  <2> QED BY <1>1, <2>1 DEF StreamInv, Untouched, Current
<1>3. CASE c = d
  <2>1. CASE Connect(c)
    <3>1. left[c] = RequestLen
      BY <2>1, ConnectAt DEF StreamInv
    <3>2. cpc[c] = "connect" /\ ~reset[c]
      BY <2>1, ConnectAt DEF StreamInv
    <3>3. /\ cpc'[c] \in {"send", "gone"} /\ (cpc'[c] = "send" => listening)
          /\ sent'[c] = sent[c] /\ left'[c] = left[c] /\ starts'[c] = starts[c]
          /\ reset'[c] = reset[c]
      BY <2>1, ConnectAt
    <3>4. Current(c)' = Current(c)
      BY <3>3 DEF Current
    <3> QED BY <1>1, <3>1, <3>2, <3>3, <3>4 DEF StreamInv
  <2>2. CASE Send(c)
    <3>1. CASE sent'[c] = sent[c] /\ left'[c] = left[c] /\ cpc'[c] = "gone"
      BY <1>1, <2>2, <3>1, SendAt DEF StreamInv, Current
    <3>2. ASSUME NEW n \in Pieces(c), sent'[c] = sent[c] + n,
                 left'[c] = left[c] - n,
                 cpc'[c] = IF n = left[c] THEN "echo" ELSE "send"
          PROVE  StreamInv(c)'
      <4>1. left[c] > 0 /\ listening /\ ~reset[c]
        BY <2>2, SendAt DEF StreamInv, TypeOK
      <4>2. /\ n \in Nat \ {0} /\ n <= left[c]
            /\ left'[c] \in {RequestLen - HeaderLen} \cup 0 .. BodyLen
        BY <3>2, <4>1, PiecesFit
      <4>3. Current(c)' = Current(c) /\ read'[c] <= sent'[c]
        BY <1>1, <3>2, <4>2 DEF Current, StreamInv
      <4> QED BY <1>1, <2>2, <3>2, <4>1, <4>2, <4>3, SendAt DEF StreamInv
    <3> QED BY <2>2, <3>1, <3>2, SendAt
  <2>3. CASE ReceiveEcho(c)
    BY <1>1, <2>3, ReceiveEchoAt DEF StreamInv, Current
  <2>4. CASE ReceiveResponse(c)
    <3>4. cpc[c] = "response"
      BY <2>4, ReceiveResponseAt
    <3>5. left[c] = 0 /\ listening /\ ~reset[c]
      BY <3>4 DEF StreamInv
    <3>1. left[c] = 0 /\ listening /\ ~reset[c] /\ sent[c] = Current(c) + RequestLen
      BY <3>5
    <3>2. CASE cpc'[c] = "gone"
      BY <1>1, <2>4, <3>1, <3>2, ReceiveResponseAt DEF StreamInv, Current
    <3>3. CASE cpc'[c] = "send"
      <4>1. /\ starts'[c] = starts[c] \cup {sent[c]} /\ left'[c] = RequestLen
            /\ sent'[c] = sent[c] /\ reset'[c] = reset[c]
        BY <2>4, <3>3, ReceiveResponseAt
      <4>2. Current(c)' = sent[c]
        BY <4>1 DEF Current
      <4>3. \A p \in starts[c] : p + RequestLen <= sent[c]
        BY <3>1 DEF StreamInv
      <4> QED BY <1>1, <3>1, <3>3, <4>1, <4>2, <4>3 DEF StreamInv
    <3> QED BY <2>4, <3>2, <3>3, ReceiveResponseAt
  <2>5. CASE Killed(c)
    BY <1>1, <2>5, KilledAt DEF StreamInv, Current
  <2> QED BY <1>3, <2>1, <2>2, <2>3, <2>4, <2>5 DEF ClientStep
<1> QED BY <1>2, <1>3

(* What a recv does to the streams. *)
LEMMA TakeAt ==
  ASSUME TypeOK, NEW d \in Client, NEW n \in Int, Take(d, n)
  PROVE  /\ read'[d] = IF n > 0 THEN read[d] + n ELSE read[d]
         /\ reset'[d] = IF n < 0 THEN FALSE ELSE reset[d]
         /\ \A c \in Client \ {d} : read'[c] = read[c] /\ reset'[c] = reset[c]
<1>1. read \in [Client -> Nat] /\ reset \in [Client -> BOOLEAN]
  BY DEF TypeOK
<1> QED BY <1>1 DEF Take

(* A step of the loop reads only from the client that is served, and no    *)
(* more than there is.                                                     *)
LEMMA LoopReads ==
  ASSUME TypeOK, \A c \in Client : StreamInv(c), ExchangeInv, Loop, NEW c \in Client
  PROVE  /\ UNCHANGED clientVars
         /\ read'[c] <= sent[c] /\ read'[c] >= read[c] /\ (reset'[c] => reset[c])
         /\ ~Exchanges(c) => read'[c] = read[c] /\ reset'[c] = reset[c]
<1>1. read[c] <= sent[c]
  BY DEF StreamInv
<1>2. ASSUME NEW n \in Nat, spc \in Exchanging, Take(accept_fd, Received(accept_fd, n))
      PROVE  /\ read'[c] <= sent[c] /\ read'[c] >= read[c] /\ (reset'[c] => reset[c])
             /\ ~Exchanges(c) => read'[c] = read[c] /\ reset'[c] = reset[c]
  <2>1. accept_fd \in Client
    BY <1>2, ServedClient
  <2>2. /\ Received(accept_fd, n) \in Int
        /\ Received(accept_fd, n) >= 0 =>
             Received(accept_fd, n) <= Waiting(accept_fd)
    BY <2>1, ReceivedBounds
  <2>3. CASE c = accept_fd
    <3> DEFINE r == Received(c, n)
    <3>1. r \in Int /\ (r >= 0 => r <= Waiting(c))
      BY <2>2, <2>3
    <3>2. /\ read'[c] = IF r > 0 THEN read[c] + r ELSE read[c]
          /\ reset'[c] = IF r < 0 THEN FALSE ELSE reset[c]
      BY <1>2, <2>3, <3>1, TakeAt
    <3> HIDE DEF r
    <3>3. sent[c] \in Nat /\ read[c] \in Nat /\ Waiting(c) = sent[c] - read[c]
      BY Numbers
    <3>4. read'[c] <= sent[c] /\ read'[c] >= read[c] /\ (reset'[c] => reset[c])
      BY <1>1, <3>1, <3>2, <3>3
    <3>5. Exchanges(c)
      BY <1>2, <2>3 DEF Exchanges
    <3> QED BY <3>4, <3>5
  <2>4. CASE c # accept_fd
    <3>1. read'[c] = read[c] /\ reset'[c] = reset[c]
      BY <1>2, <2>1, <2>2, <2>4, TakeAt
    <3> QED BY <1>1, <3>1, Numbers
  <2> QED BY <2>3, <2>4
<1>3. CASE ReceiveMagic
  BY <1>2, <1>3, LengthAssumption DEF ReceiveMagic, Exchanging
<1>4. CASE ReceiveSize
  BY <1>2, <1>4, LengthAssumption DEF ReceiveSize, Exchanging
<1>5. CASE ReceiveBody
  <2>1. spc = "body" /\ accept_fd \in Client \ Foreign
    BY <1>5, ServedClient DEF ReceiveBody, Exchanging, ExchangeInv
  <2>2. size = BodyLen /\ bytes_read < BodyLen /\ bytes_read \in Nat
    BY <2>1, LengthAssumption DEF ExchangeInv, StageInv, Exchanging, TypeOK
  <2>3. size - bytes_read \in Nat
    BY <2>2, LengthAssumption
  <2> QED BY <1>2, <1>5, <2>1, <2>3 DEF ReceiveBody, Exchanging
<1>6. CASE UNCHANGED <<read, reset>> /\ ~ReceiveMagic /\ ~ReceiveSize /\ ~ReceiveBody
  BY <1>1, <1>6, Numbers DEF Loop, Start, Poll, HandleEvent, Accept, HangUp, StartExchange,
                    EchoMagic, Parse, Respond
<1>7. ReceiveMagic \/ ReceiveSize \/ ReceiveBody \/ UNCHANGED <<read, reset>>
  BY DEF Loop, Start, Poll, HandleEvent, Accept, HangUp, StartExchange,
         EchoMagic, Parse, Respond
<1> QED BY <1>3, <1>4, <1>5, <1>6, <1>7

LEMMA StreamOfLoop ==
  ASSUME TypeOK, \A c \in Client : StreamInv(c), PollInv, ExchangeInv, Loop,
         NEW c \in Client
  PROVE  StreamInv(c)'
<1>1. /\ UNCHANGED clientVars
      /\ read'[c] <= sent[c] /\ (reset'[c] => reset[c])
  BY LoopReads
<1>2. listening => listening'
  <2>1. CASE Start
    BY <2>1 DEF Start, PollInv
  <2>2. CASE ~Start
    BY <2>2 DEF Loop, Poll, HandleEvent, Accept, HangUp, StartExchange,
                ReceiveMagic, EchoMagic, ReceiveSize, ReceiveBody, Parse, Respond
  <2> QED BY <2>1, <2>2
<1>3. StreamInv(c)
  OBVIOUS
<1> QED BY <1>1, <1>2, <1>3 DEF StreamInv, clientVars, Current, Gone

-----------------------------------------------------------------------------
(***************************************************************************)
(* What poll reported.                                                      *)
(***************************************************************************)

LEMMA PollInit == Init => PollInv
BY DEF Init, PollInv

LEMMA BytesArrive ==
  ASSUME TypeOK, \A c \in Client : StreamInv(c),
         NEW d \in Client, ClientStep(d) \/ Killed(d), NEW c \in Client
  PROVE  /\ sent'[c] >= sent[c] /\ Waiting(c)' >= Waiting(c)
         /\ Gone(c) => Gone(c)'
<1> USE Numbers
<1>1. read' = read
  BY ClientFrame
<1>2. CASE c # d
  BY <1>1, <1>2, OtherClients DEF Untouched, Waiting, Gone
<1>3. CASE c = d
  <2>1. sent'[c] \in Int /\ sent'[c] >= sent[c]
    <3>1. CASE Send(c)
      <4>1. cpc[c] = "send"
        BY <3>1, SendAt
      <4>2. left[c] > 0
        BY <4>1 DEF StreamInv
      <4>3. \A n \in Pieces(c) : n \in Nat
        BY <4>2, PiecesFit
      <4> QED BY <3>1, <4>3, SendAt
    <3>2. CASE Connect(c)
      BY <3>2, ConnectAt
    <3>3. CASE ReceiveEcho(c)
      BY <3>3, ReceiveEchoAt
    <3>4. CASE ReceiveResponse(c)
      <4>1. sent'[c] = sent[c]
        BY <3>4, ReceiveResponseAt
      <4> QED BY <4>1
    <3>5. CASE Killed(c)
      BY <3>5, KilledAt
    <3> QED BY <1>3, <3>1, <3>2, <3>3, <3>4, <3>5 DEF ClientStep
  <2>2. ~Gone(c)
    BY <1>3 DEF ClientStep, Gone, Connect, Send, ReceiveEcho, ReceiveResponse, Killed
  <2> QED BY <1>1, <2>1, <2>2 DEF Waiting
<1> QED BY <1>2, <1>3

LEMMA PollOfClients ==
  ASSUME TypeOK, \A c \in Client : StreamInv(c), PollInv,
         NEW d \in Client, ClientStep(d) \/ Killed(d)
  PROVE  PollInv'
<1>1. UNCHANGED <<loopVars, pipe>>
  BY ClientFrame
<1>2. queue # <<>> => queue' # <<>>
  <2>1. queue \in Seq(Client)
    BY DEF TypeOK
  <2>2. queue' = queue \/ queue' = Append(queue, d)
    BY DEF ClientStep, Killed, Connect, Send, ReceiveEcho, ReceiveResponse
  <2> QED BY <2>1, <2>2
<1>3. ASSUME accept_fd \in Client, Waiting(accept_fd) > 0
      PROVE  Waiting(accept_fd)' > 0
  <2>1. PICK c \in Client : c = accept_fd
    BY <1>3
  <2>2. Waiting(c)' >= Waiting(c) /\ Waiting(c) > 0 /\ Waiting(c) \in Int
    BY <1>3, <2>1, BytesArrive, Numbers
  <2>3. TypeOK'
    BY TypeOfClients
  <2>6. sent'[c] \in Nat /\ read'[c] \in Nat
    BY <2>3 DEF TypeOK
  <2>4. Waiting(c)' \in Int
    BY <2>6 DEF Waiting
  <2>5. accept_fd' = c
    BY <1>1, <2>1 DEF loopVars
  <2> QED BY <2>2, <2>4, <2>5 DEF Waiting
<1> QED BY <1>1, <1>2, <1>3 DEF PollInv, loopVars

LEMMA PollOfLoop ==
  ASSUME TypeOK, PollInv, Loop
  PROVE  PollInv'
<1>1. CASE Poll
  <2>1. /\ revents' = Ready /\ spc' = "pipe"
        /\ UNCHANGED <<pipe, queue, accept_fd, cpc, sent, read>>
    BY <1>1 DEF Poll, clientVars
  <2>2. "event" \in Ready => pipe # <<>>
    BY DEF Ready
  <2>3. "connection" \in Ready => queue # <<>>
    BY DEF Ready
  <2>4. "data" \in Ready =>
          accept_fd \in Client /\ ("hangup" \in Ready \/ Waiting(accept_fd) > 0)
    BY DEF Ready, TypeOK
  <2> QED BY <2>1, <2>2, <2>3, <2>4 DEF PollInv, Waiting
<1>2. CASE HandleEvent
  BY <1>2 DEF HandleEvent, PollInv, clientVars, Waiting
<1>3. CASE Accept
  <2>1. accept_fd \in Client => accept_fd' = accept_fd
    BY <1>3, ClientAssumption DEF Accept
  <2>2. spc = "accept" /\ spc' = "client" /\ UNCHANGED <<revents, sent, read>>
    BY <1>3 DEF Accept, clientVars
  <2> QED BY <2>1, <2>2 DEF PollInv, Waiting
<1>4. CASE ~Poll /\ ~HandleEvent /\ ~Accept
  <2>1. spc' \notin {"start", "pipe", "accept", "client"}
    BY <1>4 DEF Loop, Start, HangUp, StartExchange, ReceiveMagic, EchoMagic,
                ReceiveSize, ReceiveBody, Parse, Respond, SendReply
  <2> QED BY <2>1 DEF PollInv
<1> QED BY <1>1, <1>2, <1>3, <1>4

-----------------------------------------------------------------------------
(***************************************************************************)
(* The request that is being read, and its replies.                         *)
(***************************************************************************)

(* What the parser was given is never forgotten. *)
LEMMA HandledStays ==
  ASSUME TypeOK, handled' = handled \/ handled' = Append(handled, Message),
         NEW c, NEW p, Handled(c, p)
  PROVE  Handled(c, p)'
<1>1. handled \in Seq([client : Client, from : Nat, len : Nat])
  BY DEF TypeOK
<1>2. PICK i \in DOMAIN handled :
        handled[i] = [client |-> c, from |-> p + 2 * HeaderLen, len |-> BodyLen]
  BY DEF Handled
<1>3. i \in DOMAIN handled' /\ handled'[i] = handled[i]
  <2>1. CASE handled' = Append(handled, Message)
    BY <1>1, <1>2, <2>1, AppendElements
  <2> QED BY <1>2, <2>1
<1> QED BY <1>2, <1>3 DEF Handled

LEMMA LoopHandles ==
  ASSUME Loop
  PROVE  handled' = handled \/ (Parse /\ handled' = Append(handled, Message))
BY DEF Loop, Start, Poll, HandleEvent, Accept, HangUp, StartExchange,
       ReceiveMagic, EchoMagic, ReceiveSize, ReceiveBody, Parse, Respond

(* A client of the service gets a second reply only when its request has   *)
(* been read and handled, and then the loop is not at it.                   *)
LEMMA NothingToReceive ==
  ASSUME TypeOK, NEW c \in Client \ Foreign, StreamInv(c), AlignedInv(c),
         spc # "killed"
  PROVE  /\ ~(ReceiveEcho(c) /\ Exchanges(c) /\ spc \in {"magic", "echo"})
         /\ ~(ReceiveResponse(c) /\ Exchanges(c))
         /\ ~(ReceiveEcho(c) /\ ~Exchanges(c) /\ read[c] = Current(c))
         /\ ~(ReceiveResponse(c) /\ ~Exchanges(c) /\ read[c] = Current(c))
<1>1. ASSUME ReceiveEcho(c) \/ ReceiveResponse(c)
      PROVE  replies[c] # <<>> /\ ~Gone(c)
  <2>1. Readable(c) /\ cpc[c] \in {"echo", "response"}
    BY <1>1 DEF ReceiveEcho, ReceiveResponse
  <2>2. listening
    BY <2>1 DEF StreamInv
  <2> QED BY <2>1, <2>2 DEF Readable, Serving, Gone
<1>2. ReceiveResponse(c) => cpc[c] = "response"
  BY DEF ReceiveResponse
<1>3. read[c] = Current(c) => read[c] # Current(c) + RequestLen
  BY Numbers
<1> QED BY <1>1, <1>2, <1>3 DEF AlignedInv

(* A step of the client that is served. *)
LEMMA ServedSteps ==
  ASSUME TypeOK, NEW c \in Client \ Foreign, StreamInv(c), AlignedInv(c),
         spc # "killed", Exchanges(c), ClientStep(c) \/ Killed(c)
  PROVE  /\ Current(c)' = Current(c) /\ read'[c] = read[c] /\ ~Gone(c)
         /\ \/ ~Gone(c)' /\ reset'[c] = reset[c]
            \/ /\ Killed(c) /\ left'[c] = left[c]
               /\ reset'[c] = (replies[c] # <<>>)
            \/ Connect(c)
<1> USE Numbers
<1>1. ~ReceiveResponse(c)
  BY NothingToReceive
<1>2. read'[c] = read[c]
  BY ClientFrame
<1>3. CASE Connect(c)
  BY <1>2, <1>3, ConnectAt DEF Current, Gone
<1>4. CASE Send(c)
  <2>1. left[c] > 0 /\ listening /\ cpc[c] = "send"
    BY <1>4, SendAt DEF StreamInv
  <2>2. PICK n \in Pieces(c) :
          /\ sent'[c] = sent[c] + n /\ left'[c] = left[c] - n
          /\ cpc'[c] = IF n = left[c] THEN "echo" ELSE "send"
    BY <1>4, <2>1, SendAt DEF Serving
  <2>3. n \in Nat
    BY <2>1, PiecesFit
  <2>4. reset'[c] = reset[c]
    BY <1>4, SendAt
  <2> QED BY <1>2, <2>1, <2>2, <2>3, <2>4 DEF Current, Gone
<1>5. CASE ReceiveEcho(c)
  BY <1>2, <1>5, ReceiveEchoAt DEF Current, Gone
<1>6. CASE Killed(c)
  BY <1>2, <1>6, KilledAt DEF Current, Gone
<1> QED BY <1>1, <1>3, <1>4, <1>5, <1>6 DEF ClientStep

LEMMA ExchangeInit == Init => ExchangeInv
BY DEF Init, ExchangeInv, Exchanging

LEMMA ExchangeOfClients ==
  ASSUME TypeOK, \A c \in Client : StreamInv(c), ExchangeInv,
         spc # "killed" => \A c \in Client \ Foreign : AlignedInv(c),
         NEW d \in Client, ClientStep(d) \/ Killed(d)
  PROVE  ExchangeInv'
<1> SUFFICES ASSUME spc \in Exchanging PROVE ExchangeInv'
  BY ClientFrame DEF ExchangeInv, loopVars, Exchanging
<1>1. PICK c \in Client : c = accept_fd
  BY ServedClient
<1>2. UNCHANGED <<loopVars, read>> /\ accept_fd' = accept_fd /\ spc' = spc
  BY ClientFrame DEF loopVars
<1>3. spc = "magic" => Waiting(c)' > 0
  <2>1. Waiting(c)' >= Waiting(c) /\ Waiting(c) \in Int
    BY BytesArrive, Numbers
  <2>2. TypeOK'
    BY TypeOfClients
  <2>4. sent'[c] \in Nat /\ read'[c] \in Nat
    BY <2>2 DEF TypeOK
  <2>3. Waiting(c)' \in Int
    BY <2>4 DEF Waiting
  <2> QED BY <1>1, <2>1, <2>3 DEF ExchangeInv
<1>4. ASSUME c \notin Foreign PROVE StageInv(c)'
  <2>1. StageInv(c) /\ StreamInv(c) /\ AlignedInv(c) /\ Exchanges(c) /\ spc # "killed"
    BY <1>1, <1>4 DEF ExchangeInv, Exchanging, Exchanges
  <2>2. Handled(c, Current(c)) => Handled(c, Current(c))'
    \/ Current(c)' # Current(c)
    BY <1>2 DEF Handled, loopVars
  <2>3. CASE c # d
    <3>1. Untouched(c)
      BY <1>1, <2>3, OtherClients
    <3>2. Current(c)' = Current(c) /\ Gone(c)' = Gone(c) /\ Waiting(c)' = Waiting(c)
      BY <1>2, <3>1 DEF Current, Gone, Waiting, Untouched
    <3>3. Handled(c, Current(c))' = Handled(c, Current(c))
      BY <1>2, <3>2 DEF Handled, loopVars
    <3> QED BY <1>2, <2>1, <3>1, <3>2, <3>3 DEF StageInv, Untouched, loopVars
  <2>4. CASE c = d
    <3>1. /\ Current(c)' = Current(c) /\ read'[c] = read[c] /\ ~Gone(c)
          /\ \/ ~Gone(c)' /\ reset'[c] = reset[c]
             \/ Killed(c) /\ left'[c] = left[c] /\ reset'[c] = (replies[c] # <<>>)
             \/ Connect(c)
      BY <1>1, <1>4, <2>1, <2>4, ServedSteps
    <3>2. Handled(c, Current(c))' = Handled(c, Current(c))
      BY <1>2, <3>1 DEF Handled, loopVars
    <3>3. ASSUME spc = "size", Gone(c)' PROVE reset'[c] \/ left'[c] = 0
      <4>1. ~Connect(c)
        <5>1. read[c] = Current(c) + HeaderLen
          BY <2>1, <3>3 DEF StageInv
        <5>3. Current(c) \in starts[c] /\ read[c] <= sent[c]
          BY <2>1 DEF StreamInv
        <5>4. Current(c) \in Nat /\ sent[c] \in Nat /\ HeaderLen \in Nat \ {0}
          BY <5>3, Numbers
        <5>2. sent[c] > 0
          BY <5>1, <5>3, <5>4
        <5> QED BY <1>1, <2>1, <5>2, ConnectAt DEF StreamInv
      <4>2. Killed(c) /\ left'[c] = left[c] /\ reset'[c] = (replies[c] # <<>>)
        BY <3>1, <3>3, <4>1
      <4>3. replies[c] = <<"magic">> \/ cpc[c] = "response"
        BY <2>1, <3>1, <3>3 DEF AlignedInv
      <4>4. <<"magic">> # <<>>
        OBVIOUS
      <4> QED BY <2>1, <4>2, <4>3, <4>4 DEF StreamInv
    <3> QED BY <1>2, <2>1, <3>1, <3>2, <3>3 DEF StageInv, loopVars
  <2> QED BY <2>3, <2>4
<1> QED BY <1>1, <1>2, <1>3, <1>4 DEF ExchangeInv, loopVars, StageInv, Waiting,
                                     Exchanging

(* A request of R bytes from at, of which l are yet to be sent and r have     *)
(* been read: what can be read, once a header is due, is all of that header. *)
LEMMA RestOfRequest ==
  ASSUME NEW H \in Nat \ {0}, NEW B \in Nat \ {0}, NEW R, R = 2 * H + B,
         NEW at \in Nat, NEW s \in Nat, NEW l \in Nat, NEW r \in Nat,
         l \in {R, R - H} \cup 0 .. B, at + R = s + l, r <= s
  PROVE  /\ s - r > 0 => r # at + R
         /\ r = at + R => l = 0
         /\ r = at /\ s - r > 0 => s - r >= H
         /\ r = at + H /\ s - r > 0 => s - r >= H
         /\ r = at + H /\ l = 0 => s - r > 0
<1>1. l = R \/ l = R - H \/ l <= B
  OBVIOUS
<1>2. s - r > 0 => r # at + R
  OBVIOUS
<1>3. r = at + R => l = 0
  OBVIOUS
<1>4. r = at /\ s - r > 0 => s - r >= H
  BY <1>1
<1>5. r = at + H /\ s - r > 0 => s - r >= H
  BY <1>1
<1>6. r = at + H /\ l = 0 => s - r > 0
  OBVIOUS
<1> QED BY <1>2, <1>3, <1>4, <1>5, <1>6

(* While nothing of the last request is missing, the client has sent it. *)
LEMMA WholeRequest ==
  ASSUME TypeOK, NEW c \in Client, StreamInv(c)
  PROVE  /\ Current(c) \in Nat /\ Current(c) \in starts[c]
         /\ Waiting(c) > 0 => read[c] # Current(c) + RequestLen
         /\ read[c] = Current(c) + RequestLen => left[c] = 0
         /\ read[c] = Current(c) /\ Waiting(c) > 0 => Waiting(c) >= HeaderLen
         /\ read[c] = Current(c) + HeaderLen /\ Waiting(c) > 0 =>
              Waiting(c) >= HeaderLen
         /\ read[c] = Current(c) + HeaderLen /\ left[c] = 0 => Waiting(c) > 0
<1> DEFINE at == Current(c)
<1>1. /\ at \in starts[c] /\ read[c] <= sent[c]
      /\ left[c] \in {RequestLen, RequestLen - HeaderLen} \cup 0 .. BodyLen
  BY DEF StreamInv
<1>2. /\ sent[c] \in Nat /\ left[c] \in Nat /\ read[c] \in Nat /\ at \in Nat
      /\ at + RequestLen = sent[c] + left[c] /\ Waiting(c) = sent[c] - read[c]
      /\ HeaderLen \in Nat \ {0} /\ BodyLen \in Nat \ {0}
  BY <1>1, Numbers
<1> HIDE DEF at
<1> SUFFICES /\ Waiting(c) > 0 => read[c] # at + RequestLen
             /\ read[c] = at + RequestLen => left[c] = 0
             /\ read[c] = at /\ Waiting(c) > 0 => Waiting(c) >= HeaderLen
             /\ read[c] = at + HeaderLen /\ Waiting(c) > 0 => Waiting(c) >= HeaderLen
             /\ read[c] = at + HeaderLen /\ left[c] = 0 => Waiting(c) > 0
  BY <1>1, <1>2 DEF at
<1>3. RequestLen = 2 * HeaderLen + BodyLen
  BY DEF RequestLen
<1> QED BY <1>1, <1>2, <1>3, RestOfRequest

LEMMA SmallRemainder ==
  ASSUME NEW m \in Nat, NEW a \in 0 .. m - 1
  PROVE  a % m = a
OBVIOUS

LEMMA ReceiveMagicAt ==
  ASSUME TypeOK, NEW c \in Client, StreamInv(c), ExchangeInv,
         accept_fd = c, ReceiveMagic
  PROVE  /\ spc = "magic" /\ UNCHANGED <<clientVars, replies, accept_fd, resp, handled>>
         /\ c \in Foreign => spc' = "respond"
         /\ c \notin Foreign => /\ spc' = "echo" /\ read'[c] = Current(c) + HeaderLen
                                /\ reset'[c] = reset[c]
<1> DEFINE n == Received(c, HeaderLen)
<1>1. spc = "magic" /\ Waiting(c) > 0 /\ Waiting(c) \in Int
  BY Numbers DEF ReceiveMagic, ExchangeInv
<1>2. n = IF Waiting(c) >= HeaderLen THEN HeaderLen ELSE Waiting(c)
  BY <1>1 DEF Received
<1>3. n \in Int /\ n > 0
  BY <1>1, <1>2, LengthAssumption
<1>4. /\ \E ok \in LooksLikeMagic(c, n) : spc' = IF ok THEN "echo" ELSE "respond"
      /\ Take(c, n)
      /\ UNCHANGED <<clientVars, replies, accept_fd, resp, handled>>
  BY DEF ReceiveMagic
<1> HIDE DEF n
<1>5. read'[c] = read[c] + n /\ reset'[c] = reset[c]
  <2>1. Take(c, n) /\ n \in Int
    BY <1>3, <1>4
  <2>2. /\ read'[c] = IF n > 0 THEN read[c] + n ELSE read[c]
        /\ reset'[c] = IF n < 0 THEN FALSE ELSE reset[c]
    BY <2>1, TakeAt
  <2>3. n > 0 /\ ~(n < 0)
    BY <1>3
  <2> QED BY <2>2, <2>3
<1>6. CASE c \in Foreign
  <2>1. LooksLikeMagic(c, n) = {FALSE}
    BY <1>3, <1>6 DEF LooksLikeMagic
  <2> QED BY <1>1, <1>4, <1>6, <2>1
<1>7. CASE c \notin Foreign
  <2>1. read[c] = Current(c)
    BY <1>1, <1>7 DEF ExchangeInv, StageInv, Exchanging
  <2>2. n = HeaderLen /\ read[c] \in starts[c]
    BY <1>1, <1>2, <2>1, WholeRequest
  <2>3. ~(n < 0) /\ n # 0
    BY <1>3
  <2>4. LooksLikeMagic(c, n) = {TRUE}
    BY <1>7, <2>2, <2>3, Zenon DEF LooksLikeMagic
  <2>5. spc' = "echo"
    BY <1>4, <2>4
  <2> QED BY <1>1, <1>4, <1>5, <1>7, <2>1, <2>2, <2>5
<1> QED BY <1>6, <1>7

LEMMA ReceiveSizeAt ==
  ASSUME TypeOK, NEW c \in Client, StreamInv(c), ExchangeInv,
         accept_fd = c, ReceiveSize
  PROVE  /\ spc = "size" /\ c \notin Foreign
         /\ UNCHANGED <<clientVars, replies, accept_fd, resp, handled>>
         /\ body' = read'[c] /\ read'[c] >= read[c]
         /\ \/ /\ spc' = "body" /\ size' = BodyLen /\ bytes_read' = 0
               /\ body' = Current(c) + 2 * HeaderLen
            \/ spc' = "respond" /\ Gone(c)
<1> DEFINE n == Received(c, HeaderLen)
<1>1. /\ spc = "size" /\ c \notin Foreign /\ read[c] = Current(c) + HeaderLen
      /\ Gone(c) => reset[c] \/ left[c] = 0
  BY DEF ReceiveSize, ExchangeInv, StageInv, Exchanging
<1>2. /\ size' \in SizeRead(c, n) /\ Take(c, n) /\ Returns(c)
      /\ spc' = IF 0 < size' /\ 2 * size' < UIntMod THEN "body" ELSE "respond"
      /\ bytes_read' = 0 /\ body' = read'[c]
      /\ UNCHANGED <<clientVars, replies, accept_fd, resp, handled>>
  BY DEF ReceiveSize
<1>3. Waiting(c) \in Nat
  BY ReceivedBounds, LengthAssumption
<1>4. CASE Waiting(c) > 0
  <2>1. n = HeaderLen
    BY <1>1, <1>4, WholeRequest DEF Received
  <2>2. n \in Int /\ n > 0
    BY <2>1, LengthAssumption
  <2>3. read'[c] = read[c] + n
    <3> HIDE DEF n
    <3> QED BY <1>2, <2>2, TakeAt
  <2>4. read[c] - HeaderLen \in starts[c]
    <3>1. Current(c) \in starts[c] /\ Current(c) \in Nat
      BY WholeRequest
    <3>2. read[c] - HeaderLen = Current(c)
      BY <1>1, <3>1, LengthAssumption
    <3> QED BY <3>1, <3>2
  <2>5. SizeRead(c, n) = {BodyLen}
    BY <2>1, <2>2, <2>4 DEF SizeRead
  <2>6. size' = BodyLen /\ spc' = "body"
    BY <1>2, <2>5, LengthAssumption, SizeAssumption
  <2>7. body' = Current(c) + 2 * HeaderLen /\ read'[c] >= read[c]
    BY <1>1, <1>2, <2>1, <2>3, Numbers
  <2> QED BY <1>1, <1>2, <2>6, <2>7
<1>5. CASE Waiting(c) = 0
  <2>1. Gone(c)
    BY <1>2, <1>5 DEF Returns
  <2>2. reset[c]
    BY <1>1, <1>5, <2>1, WholeRequest
  <2>3. n = -1
    BY <1>5, <2>2, LengthAssumption DEF Received
  <2>4. read'[c] = read[c]
    <3> HIDE DEF n
    <3>1. Take(c, -1) /\ ~(-1 > 0) /\ -1 \in Int
      BY <1>2, <2>3
    <3> QED BY <3>1, TakeAt
  <2>5. size' = 0
    BY <1>2, <2>3 DEF SizeRead
  <2> QED BY <1>1, <1>2, <2>1, <2>4, <2>5, Numbers
<1> QED BY <1>3, <1>4, <1>5

LEMMA ReceiveBodyAt ==
  ASSUME TypeOK, NEW c \in Client, StreamInv(c), ExchangeInv,
         accept_fd = c, ReceiveBody
  PROVE  /\ spc = "body" /\ c \notin Foreign
         /\ UNCHANGED <<clientVars, replies, accept_fd, size, body, resp, handled>>
         /\ read'[c] >= read[c]
         /\ \/ /\ spc' = "body" /\ bytes_read' \in Nat /\ bytes_read' < BodyLen
               /\ read'[c] = body + bytes_read'
            \/ /\ spc' = "body" /\ bytes_read' \in Nat /\ bytes_read' + 1 < BodyLen
               /\ read'[c] = body + bytes_read' + 1
               /\ Gone(c) /\ ~reset'[c] /\ Waiting(c)' = 0
            \/ spc' = "parse" /\ read'[c] = body + BodyLen
            \/ spc' = "parse" /\ read'[c] = body /\ Gone(c)
<1> DEFINE n == Received(c, BodyLen - bytes_read)
<1>1. /\ spc = "body" /\ c \notin Foreign /\ size = BodyLen
      /\ \/ bytes_read < BodyLen /\ read[c] = body + bytes_read
         \/ /\ bytes_read + 1 < BodyLen /\ read[c] = body + bytes_read + 1
            /\ Gone(c) /\ ~reset[c] /\ Waiting(c) = 0
  BY DEF ReceiveBody, ExchangeInv, StageInv, Exchanging
<1>2. /\ bytes_read' = (bytes_read + n) % UIntMod
      /\ Take(c, n) /\ Returns(c)
      /\ spc' = IF bytes_read' < BodyLen THEN "body" ELSE "parse"
      /\ UNCHANGED <<clientVars, replies, accept_fd, size, body, resp, handled>>
  BY <1>1 DEF ReceiveBody
<1>3. /\ bytes_read \in Nat /\ body \in Nat /\ bytes_read < BodyLen
      /\ BodyLen \in Nat \ {0} /\ UIntMod \in Nat /\ BodyLen < UIntMod
  BY <1>1, LengthAssumption, SizeAssumption DEF TypeOK
<1>4. /\ n \in -1 .. BodyLen - bytes_read /\ Waiting(c) \in Nat
      /\ n = -1 => reset[c] /\ Waiting(c) = 0
      /\ n = 0 => ~reset[c] /\ Waiting(c) = 0
      /\ n > 0 => Waiting(c) > 0
  <2>1. BodyLen - bytes_read \in Nat \ {0}
    BY <1>3
  <2> QED BY <2>1, ReceivedBounds DEF Received
<1> HIDE DEF n
<1>5. /\ read'[c] = IF n > 0 THEN read[c] + n ELSE read[c]
      /\ reset'[c] = IF n < 0 THEN FALSE ELSE reset[c]
  <2>1. n \in Int
    BY <1>4, <1>3
  <2> QED BY <1>2, <2>1, TakeAt
<1>6. read[c] \in Nat /\ sent' = sent /\ Waiting(c)' = sent[c] - read'[c]
      /\ Waiting(c) = sent[c] - read[c]
  BY <1>2, Numbers DEF clientVars, Waiting
<1>7. CASE n > 0
  <2>1. read[c] = body + bytes_read
    BY <1>1, <1>4, <1>7
  <2>2. bytes_read + n \in 0 .. UIntMod - 1
    BY <1>3, <1>4, <1>7
  <2>3. bytes_read' = bytes_read + n
    BY <1>2, <1>3, <2>2, SmallRemainder
  <2> QED BY <1>1, <1>2, <1>3, <1>4, <1>5, <1>6, <1>7, <2>1, <2>3
<1>8. CASE n = 0
  <2>1. bytes_read' = bytes_read
    BY <1>2, <1>3, <1>8
  <2>2. read'[c] = read[c] /\ reset'[c] = reset[c]
    BY <1>5, <1>8
  <2> QED BY <1>1, <1>2, <1>3, <1>4, <1>6, <1>8, <2>1, <2>2
<1>9. CASE n = -1
  <2>1. read[c] = body + bytes_read /\ Waiting(c) = 0 /\ Gone(c)
    BY <1>1, <1>2, <1>4, <1>9 DEF Returns
  <2>2. read'[c] = read[c] /\ ~reset'[c]
    BY <1>5, <1>9
  <2>3. CASE bytes_read = 0
    <3>1. bytes_read' = UIntMod - 1
      BY <1>2, <1>3, <1>9, <2>3
    <3>2. spc' = "parse"
      BY <1>2, <1>3, <3>1
    <3> QED BY <1>1, <1>2, <1>3, <1>6, <2>1, <2>2, <2>3, <3>2
  <2>4. CASE bytes_read > 0
    <3>1. bytes_read - 1 \in 0 .. UIntMod - 1
      BY <1>3, <2>4
    <3>2. bytes_read' = bytes_read - 1
      <4>1. bytes_read + n = bytes_read - 1
        BY <1>3, <1>9
      <4> QED BY <1>2, <1>3, <3>1, <4>1, SmallRemainder
    <3> QED BY <1>1, <1>2, <1>3, <1>6, <2>1, <2>2, <2>4, <3>2
  <2> QED BY <1>3, <2>3, <2>4
<1> QED BY <1>4, <1>7, <1>8, <1>9

(* What parser_parse_recv_command is given, at the end of a request. *)
LEMMA ParseAt ==
  ASSUME TypeOK, NEW c \in Client, StreamInv(c), ExchangeInv, accept_fd = c, Parse
  PROVE  /\ spc = "parse" /\ spc' = "respond" /\ resp' = "0" /\ c \notin Foreign
         /\ UNCHANGED <<clientVars, replies, accept_fd, read, reset>>
         /\ body = Current(c) + 2 * HeaderLen
         /\ \/ /\ Gone(c) /\ handled' = handled
            \/ /\ read[c] = body + BodyLen /\ read[c] = Current(c) + RequestLen
               /\ handled' = Append(handled, Message)
               /\ Message = [client |-> c, from |-> Current(c) + 2 * HeaderLen,
                             len |-> BodyLen]
               /\ Handled(c, Current(c))'
<1>1. /\ spc = "parse" /\ spc' = "respond" /\ resp' = "0"
      /\ UNCHANGED <<clientVars, replies, accept_fd, read, reset>>
      /\ handled' = IF read[c] - body = 0 THEN handled ELSE Append(handled, Message)
      /\ Message = [client |-> c, from |-> body, len |-> read[c] - body]
  BY DEF Parse, Message
<1>2. /\ c \notin Foreign /\ body = Current(c) + 2 * HeaderLen
      /\ read[c] = body + BodyLen \/ (read[c] = body /\ Gone(c))
  BY <1>1 DEF ExchangeInv, StageInv, Exchanging
<1>3. body \in Nat /\ read[c] \in Nat /\ Current(c) \in Int /\ BodyLen \in Nat \ {0}
      /\ HeaderLen \in Nat \ {0}
  BY Numbers DEF TypeOK
<1>4. CASE read[c] = body /\ Gone(c)
  BY <1>1, <1>2, <1>3, <1>4
<1>5. CASE read[c] = body + BodyLen
  <2>1. read[c] - body = BodyLen /\ read[c] = Current(c) + RequestLen
    BY <1>2, <1>3, <1>5
  <2>2. handled' = Append(handled, Message)
    BY <1>1, <1>3, <2>1
  <2>3. Message = [client |-> c, from |-> Current(c) + 2 * HeaderLen, len |-> BodyLen]
    BY <1>1, <1>2, <2>1
  <2>4. Handled(c, Current(c))'
    <3>1. handled \in Seq([client : Client, from : Nat, len : Nat])
      BY DEF TypeOK
    <3>2. Current(c)' = Current(c)
      BY <1>1 DEF clientVars, Current
    <3>3. /\ Len(handled) + 1 \in DOMAIN handled'
          /\ handled'[Len(handled) + 1] = Message
      BY <2>2, <3>1, AppendElements
    <3> QED BY <2>3, <3>2, <3>3 DEF Handled
  <2> QED BY <1>1, <1>2, <1>5, <2>1, <2>2, <2>3, <2>4
<1> QED BY <1>2, <1>4, <1>5

LEMMA StartExchangeAt ==
  ASSUME TypeOK, PollInv, StartExchange, spc' = "magic"
  PROVE  /\ spc = "client" /\ resp' = "-1" /\ accept_fd \in Client
         /\ UNCHANGED <<clientVars, replies, accept_fd, read, reset, handled>>
         /\ Waiting(accept_fd) > 0
BY DEF StartExchange, PollInv

LEMMA EchoMagicAt ==
  ASSUME TypeOK, NEW c \in Client, accept_fd = c, ExchangeInv, EchoMagic
  PROVE  /\ spc = "echo" /\ spc' \in {"size", "killed"} /\ c \notin Foreign
         /\ UNCHANGED <<clientVars, accept_fd, read, reset, handled, resp>>
         /\ spc' = "size" => ~Gone(c)
         /\ Gone(c) => replies' = replies
         /\ ~Gone(c) => replies'[c] = Append(replies[c], "magic")
         /\ \A d \in Client \ {c} : replies'[d] = replies[d]
<1>1. replies \in [Client -> Seq({"magic", "0", "-1"})]
  BY DEF TypeOK
<1>2. spc = "echo" /\ SendReply(c, "magic", "size")
      /\ UNCHANGED <<clientVars, accept_fd, read, reset, handled, resp>>
  BY DEF EchoMagic
<1> QED BY <1>1, <1>2 DEF SendReply, ExchangeInv

LEMMA RespondAt ==
  ASSUME TypeOK, NEW c \in Client, accept_fd = c, Respond
  PROVE  /\ spc = "respond" /\ spc' \in {"poll", "killed"}
         /\ UNCHANGED <<clientVars, accept_fd, read, reset, handled, resp>>
         /\ spc' = "poll" => ~Gone(c)
         /\ Gone(c) => replies' = replies
         /\ ~Gone(c) => replies'[c] = Append(replies[c], resp)
         /\ \A d \in Client \ {c} : replies'[d] = replies[d]
<1>1. replies \in [Client -> Seq({"magic", "0", "-1"})]
  BY DEF TypeOK
<1>2. spc = "respond" /\ SendReply(c, resp, "poll")
      /\ UNCHANGED <<clientVars, accept_fd, read, reset, handled, resp>>
  BY DEF Respond
<1> QED BY <1>1, <1>2 DEF SendReply

(* The steps of the loop between exchanges. *)
LEMMA IdleSteps ==
  ASSUME Loop
  PROVE  \/ /\ spc \notin Exchanging /\ spc' \notin Exchanging \cup {"killed"}
            /\ UNCHANGED <<clientVars, replies, read, reset, handled>>
         \/ StartExchange /\ spc' = "magic"
         \/ ReceiveMagic \/ EchoMagic \/ ReceiveSize \/ ReceiveBody \/ Parse
         \/ Respond
BY DEF Loop, Start, Poll, HandleEvent, Accept, HangUp, StartExchange, Exchanging

LEMMA ExchangeOfLoop ==
  ASSUME TypeOK, \A c \in Client : StreamInv(c), PollInv, ExchangeInv,
         spc # "killed" => \A c \in Client \ Foreign : AlignedInv(c), Loop
  PROVE  ExchangeInv'
<1> USE DEF Exchanging
<1>1. CASE spc' \notin Exchanging
  BY <1>1 DEF ExchangeInv
<1>2. CASE StartExchange /\ spc' = "magic"
  <2>1. PICK c \in Client : c = accept_fd
    BY <1>2, StartExchangeAt
  <2>2. /\ spc = "client" /\ resp' = "-1" /\ accept_fd' = c
        /\ UNCHANGED <<clientVars, read>> /\ Waiting(c) > 0
    BY <1>2, <2>1, StartExchangeAt
  <2>3. Waiting(c)' = Waiting(c) /\ Current(c)' = Current(c) /\ read'[c] = read[c]
    BY <2>2 DEF Waiting, Current, clientVars
  <2>4. c \notin Foreign => read[c] = Current(c)
    BY <2>2, WholeRequest DEF AlignedInv, Exchanges
  <2>5. Waiting(accept_fd)' > 0
    BY <2>2, <2>3 DEF Waiting
  <2> QED BY <1>2, <2>2, <2>3, <2>4, <2>5 DEF ExchangeInv, StageInv
<1>3. CASE spc \in Exchanging
  <2>1. PICK c \in Client : c = accept_fd
    BY <1>3, ServedClient
  <2>2. UNCHANGED clientVars
    BY LoopReads, <2>1
  <2>3. /\ Current(c)' = Current(c) /\ (Gone(c)' <=> Gone(c))
        /\ left'[c] = left[c]
    BY <2>2 DEF clientVars, Current, Gone
  <2>4. CASE ReceiveMagic
    BY <2>1, <2>3, <2>4, ReceiveMagicAt DEF ExchangeInv, StageInv
  <2>5. CASE EchoMagic
    <3>1. /\ spc' \in {"size", "killed"} /\ c \notin Foreign /\ accept_fd' = c
          /\ spc' = "size" => ~Gone(c)
          /\ spc = "echo" /\ read' = read
      BY <2>1, <2>5, EchoMagicAt
    <3>2. read[c] = Current(c) + HeaderLen
      BY <2>1, <3>1 DEF ExchangeInv, StageInv
    <3> QED BY <2>3, <3>1, <3>2 DEF ExchangeInv, StageInv
  <2>6. CASE ReceiveSize
    <3>1. /\ c \notin Foreign /\ accept_fd' = c /\ body' = read'[c]
          /\ \/ /\ spc' = "body" /\ size' = BodyLen /\ bytes_read' = 0
                /\ body' = Current(c) + 2 * HeaderLen
             \/ spc' = "respond" /\ Gone(c)
      BY <2>1, <2>6, ReceiveSizeAt
    <3>2. CASE spc' = "body"
      <4>1. body' \in Int
        BY <3>1, <3>2, Numbers
      <4>2. 0 < BodyLen /\ read'[c] = body' + bytes_read'
        BY <3>1, <3>2, <4>1, LengthAssumption
      <4> QED BY <2>3, <3>1, <3>2, <4>2 DEF ExchangeInv, StageInv
    <3>3. CASE spc' = "respond"
      BY <2>3, <3>1, <3>3 DEF ExchangeInv, StageInv
    <3> QED BY <3>1, <3>2, <3>3
  <2>7. CASE ReceiveBody
    <3>1. /\ c \notin Foreign /\ accept_fd' = c /\ size' = size /\ body' = body
          /\ size = BodyLen /\ body = Current(c) + 2 * HeaderLen
      BY <2>1, <2>7, ReceiveBodyAt DEF ExchangeInv, StageInv
    <3>2. /\ spc' \in {"body", "parse"}
          /\ spc' = "body" =>
               \/ bytes_read' < BodyLen /\ read'[c] = body + bytes_read'
               \/ /\ bytes_read' + 1 < BodyLen /\ read'[c] = body + bytes_read' + 1
                  /\ Gone(c) /\ ~reset'[c] /\ Waiting(c)' = 0
          /\ spc' = "parse" =>
               read'[c] = body + BodyLen \/ (read'[c] = body /\ Gone(c))
      BY <2>1, <2>7, ReceiveBodyAt
    <3>3. StageInv(c)'
      BY <2>3, <3>1, <3>2 DEF StageInv
    <3> QED BY <3>1, <3>2, <3>3 DEF ExchangeInv, StageInv, Waiting
  <2>8. CASE Parse
    <3>1. /\ spc' = "respond" /\ resp' = "0" /\ c \notin Foreign /\ accept_fd' = c
          /\ \/ Gone(c)
             \/ read[c] = Current(c) + RequestLen /\ Handled(c, Current(c))'
          /\ read' = read
      BY <2>1, <2>8, ParseAt
    <3>2. StageInv(c)'
      BY <2>3, <3>1 DEF StageInv
    <3> QED BY <3>1, <3>2 DEF ExchangeInv, StageInv, Handled, Current
  <2>9. CASE Respond
    BY <1>1, <2>1, <2>9, RespondAt
  <2> QED BY <1>1, <1>2, <1>3, <2>4, <2>5, <2>6, <2>7, <2>8, <2>9, IdleSteps
<1> QED BY <1>1, <1>2, <1>3, IdleSteps DEF ReceiveMagic, EchoMagic, ReceiveSize,
           ReceiveBody, Parse, Respond

LEMMA ShortReplies ==
  /\ <<"magic">> # <<>> /\ <<"0">> # <<>> /\ <<"magic", "0">> # <<>>
  /\ Tail(<<"magic">>) = <<>> /\ Tail(<<"0">>) = <<>>
  /\ Tail(<<"magic", "0">>) = <<"0">>
  /\ Len(<<"magic", "0">>) = 2 /\ Len(<<"0">>) = 1 /\ Len(<<"magic">>) = 1
  /\ Head(<<"magic">>) = "magic" /\ Head(<<"0">>) = "0"
  /\ Append(<<>>, "magic") = <<"magic">> /\ Append(<<>>, "0") = <<"0">>
  /\ Append(<<"magic">>, "0") = <<"magic", "0">>
  /\ Len(<<>>) = 0
<1>1. /\ <<"magic">> # <<>> /\ <<"0">> # <<>> /\ <<"magic", "0">> # <<>>
      /\ Len(<<"magic", "0">>) = 2 /\ Len(<<"0">>) = 1 /\ Len(<<"magic">>) = 1
      /\ Head(<<"magic">>) = "magic" /\ Head(<<"0">>) = "0" /\ Len(<<>>) = 0
  OBVIOUS
<1>2. Tail(<<"magic">>) = <<>> /\ Tail(<<"0">>) = <<>>
  OBVIOUS
<1>3. Tail(<<"magic", "0">>) = <<"0">>
  OBVIOUS
<1>4. Append(<<>>, "magic") = <<"magic">> /\ Append(<<>>, "0") = <<"0">>
  OBVIOUS
<1>5. Append(<<"magic">>, "0") = <<"magic", "0">>
  <2> DEFINE q == <<"magic">>
  <2>1. q \in Seq({"magic", "0"}) /\ Len(q) = 1 /\ q[1] = "magic"
    OBVIOUS
  <2> DEFINE r == <<"magic", "0">>
  <2>2. r \in Seq({"magic", "0"}) /\ Len(r) = 2 /\ r[1] = "magic" /\ r[2] = "0"
    OBVIOUS
  <2>3. /\ Append(q, "0") \in Seq({"magic", "0"}) /\ Len(Append(q, "0")) = 2
        /\ Append(q, "0")[1] = "magic" /\ Append(q, "0")[2] = "0"
    <3> HIDE DEF q
    <3> DEFINE S == {"magic", "0"}
    <3>1. "0" \in S /\ q \in Seq(S)
      BY <2>1
    <3> HIDE DEF S
    <3>2. /\ Append(q, "0") \in Seq(S) /\ Len(Append(q, "0")) = Len(q) + 1
          /\ \A i \in 1 .. Len(q) : Append(q, "0")[i] = q[i]
          /\ Append(q, "0")[Len(q) + 1] = "0"
      BY <3>1, AppendProperties
    <3>3. Len(q) + 1 = 2 /\ 1 \in 1 .. Len(q) /\ q[1] = "magic"
      BY <2>1
    <3> QED BY <3>2, <3>3 DEF S
  <2> HIDE DEF q, r
  <2>4. Append(q, "0") = r
    BY <2>2, <2>3, SeqEqual
  <2> QED BY <2>4 DEF q, r
<1> QED BY <1>1, <1>2, <1>3, <1>4, <1>5

LEMMA RepliesInit == ASSUME Init, NEW c \in Client PROVE RepliesInv(c)
BY DEF Init, RepliesInv

LEMMA RepliesOfClients ==
  ASSUME TypeOK, NEW d \in Client, ClientStep(d) \/ Killed(d),
         NEW c \in Client, RepliesInv(c), StreamInv(c)
  PROVE  RepliesInv(c)'
<1>1. UNCHANGED loopVars
  BY ClientFrame
<1>2. \A p : Handled(c, p)' = Handled(c, p)
  BY <1>1 DEF Handled, loopVars
<1>3. replies[c] \in Seq({"magic", "0", "-1"})
  BY DEF TypeOK
<1>4. CASE c # d
  <2>1. Untouched(c)
    BY <1>4, OtherClients
  <2>2. Current(c)' = Current(c) /\ Gone(c)' = Gone(c)
    BY <2>1 DEF Current, Gone, Untouched
  <2>3. Handled(c, Current(c))' = Handled(c, Current(c))
    BY <1>1, <2>2 DEF Handled, loopVars
  <2> QED BY <2>1, <2>2, <2>3 DEF RepliesInv, Untouched
<1>5. CASE c = d /\ c \in Foreign
  <2>1. replies'[c] = replies[c] \/ (replies[c] # <<>> /\ replies'[c] = Tail(replies[c]))
    <3>1. CASE ReceiveEcho(c)
      BY <3>1, ReceiveEchoAt
    <3>2. CASE ReceiveResponse(c)
      BY <3>2, ReceiveResponseAt
    <3>3. CASE Connect(c) \/ Send(c) \/ Killed(c)
      BY <3>3, ConnectAt, SendAt, KilledAt
    <3> QED BY <1>5, <3>1, <3>2, <3>3 DEF ClientStep
  <2>2. \A i \in DOMAIN replies[c] : replies[c][i] = "-1"
    BY <1>5 DEF RepliesInv
  <2>3. CASE replies[c] # <<>> /\ replies'[c] = Tail(replies[c])
    <3> DEFINE q == replies[c]
    <3>1. q \in Seq({"magic", "0", "-1"}) /\ q # <<>>
      BY <1>3, <2>3
    <3>2. \A i \in DOMAIN Tail(q) : i + 1 \in DOMAIN q /\ Tail(q)[i] = q[i + 1]
      <4> HIDE DEF q
      <4> QED BY <3>1
    <3> QED BY <1>5, <2>2, <2>3, <3>2 DEF RepliesInv
  <2> QED BY <1>5, <2>1, <2>2, <2>3 DEF RepliesInv
<1>6. CASE c = d /\ c \notin Foreign
  <2> SUFFICES ASSUME ~Gone(c)' PROVE RepliesInv(c)'
    BY <1>6 DEF RepliesInv
  <2>1. ~Gone(c)
    BY <1>6 DEF ClientStep, Gone, Connect, Send, ReceiveEcho, ReceiveResponse, Killed
  <2>2. \/ cpc[c] # "response" /\ replies[c] \in {<<>>, <<"magic">>}
        \/ cpc[c] = "response" /\ replies[c] = <<>>
        \/ cpc[c] = "echo" /\ replies[c] = <<"magic", "0">> /\ Handled(c, Current(c))
        \/ cpc[c] = "response" /\ replies[c] = <<"0">> /\ Handled(c, Current(c))
    BY <1>6, <2>1 DEF RepliesInv
  <2>3. CASE Connect(c) \/ Send(c)
    <3>1. cpc[c] \in {"connect", "send"} /\ cpc'[c] \in {"send", "echo", "gone"}
          /\ replies' = replies
      BY <2>3, ConnectAt, SendAt
    <3> QED BY <1>6, <2>2, <3>1 DEF RepliesInv
  <2>4. CASE ReceiveEcho(c)
    <3>1. /\ cpc[c] = "echo" /\ cpc'[c] = "response" /\ Current(c)' = Current(c)
          /\ replies'[c] = IF replies[c] = <<>> THEN <<>> ELSE Tail(replies[c])
      BY <2>4, ReceiveEchoAt DEF Current
    <3>2. Handled(c, Current(c))' = Handled(c, Current(c))
      BY <1>1, <3>1 DEF Handled, loopVars
    <3> QED BY <1>6, <2>2, <3>1, <3>2, ShortReplies DEF RepliesInv
  <2>5. CASE ReceiveResponse(c)
    <3>1. /\ cpc[c] = "response" /\ cpc'[c] \in {"gone", "send"}
          /\ replies'[c] = IF replies[c] = <<>> THEN <<>> ELSE Tail(replies[c])
      BY <2>5, ReceiveResponseAt
    <3> QED BY <1>6, <2>2, <3>1, ShortReplies DEF RepliesInv
  <2>6. CASE Killed(c)
    BY <2>6, KilledAt DEF Gone
  <2> QED BY <1>6, <2>3, <2>4, <2>5, <2>6 DEF ClientStep
<1> QED BY <1>4, <1>5, <1>6

(* A client whose request has been read is waiting for a reply, or gone. *)
LEMMA Reading ==
  ASSUME TypeOK, NEW c \in Client, StreamInv(c),
         read[c] = Current(c) + RequestLen, ~Gone(c)
  PROVE  cpc[c] \in {"echo", "response"}
<1>1. cpc[c] \in {"connect", "send", "echo", "response", "gone", "killed"}
  BY DEF TypeOK
<1>2. left[c] = 0
  BY WholeRequest
<1>3. RequestLen # 0 /\ ~(left[c] > 0)
  BY <1>2, LengthAssumption DEF RequestLen
<1>4. /\ cpc[c] = "connect" => left[c] = RequestLen
      /\ cpc[c] = "send" => left[c] > 0
  BY DEF StreamInv
<1> QED BY <1>1, <1>2, <1>3, <1>4 DEF Gone

(* Only the client that is served is sent a reply. *)
LEMMA LoopReplies ==
  ASSUME TypeOK, ExchangeInv, Loop, NEW c \in Client
  PROVE  replies'[c] = replies[c] \/ (/\ EchoMagic \/ Respond
                                     /\ c = accept_fd /\ ~Gone(c))
<1>1. CASE EchoMagic
  <2>1. accept_fd \in Client
    BY <1>1, ServedClient DEF EchoMagic, Exchanging
  <2> QED BY <1>1, <2>1, EchoMagicAt
<1>2. CASE Respond
  <2>1. accept_fd \in Client
    BY <1>2, ServedClient DEF Respond, Exchanging
  <2> QED BY <1>2, <2>1, RespondAt
<1>3. CASE ~EchoMagic /\ ~Respond
  BY <1>3, IdleSteps DEF StartExchange, ReceiveMagic, ReceiveSize, ReceiveBody, Parse
<1> QED BY <1>1, <1>2, <1>3

(* The reply that a step of the loop adds, if any. *)
LEMMA RepliesOfLoop ==
  ASSUME TypeOK, \A c \in Client : StreamInv(c), ExchangeInv,
         spc # "killed" => \A c \in Client \ Foreign : AlignedInv(c), Loop,
         NEW c \in Client, RepliesInv(c)
  PROVE  RepliesInv(c)'
<1>1. UNCHANGED clientVars
  BY LoopReads
<1>2. Current(c)' = Current(c) /\ Gone(c)' = Gone(c) /\ cpc'[c] = cpc[c]
  BY <1>1 DEF clientVars, Current, Gone
<1>3. Handled(c, Current(c)) => Handled(c, Current(c))'
  <2> DEFINE p == Current(c)
  <2>1. Handled(c, p) => \E i \in DOMAIN handled' :
          handled'[i] = [client |-> c, from |-> p + 2 * HeaderLen, len |-> BodyLen]
    <3> HIDE DEF p
    <3>1. handled' = handled \/ handled' = Append(handled, Message)
      BY LoopHandles
    <3>2. handled \in Seq([client : Client, from : Nat, len : Nat])
      BY DEF TypeOK
    <3>3. \A i \in DOMAIN handled : i \in DOMAIN handled' /\ handled'[i] = handled[i]
      <4>1. CASE handled' = Append(handled, Message)
        BY <3>2, <4>1, AppendElements
      <4> QED BY <3>1, <4>1
    <3> QED BY <3>3 DEF Handled
  <2> QED BY <1>2, <2>1 DEF Handled
<1>4. CASE replies'[c] = replies[c]
  BY <1>2, <1>3, <1>4 DEF RepliesInv
<1>5. CASE EchoMagic /\ c = accept_fd /\ ~Gone(c)
  <2>1. c \notin Foreign /\ replies'[c] = Append(replies[c], "magic") /\ spc = "echo"
    BY <1>5, EchoMagicAt
  <2>2. cpc[c] # "response" /\ replies[c] = <<>>
    BY <1>5, <2>1 DEF AlignedInv, Exchanges, Exchanging
  <2> QED BY <1>2, <2>1, <2>2, ShortReplies DEF RepliesInv
<1>6. CASE Respond /\ c = accept_fd /\ ~Gone(c)
  <2>1. replies'[c] = Append(replies[c], resp) /\ spc = "respond"
    BY <1>6, RespondAt
  <2>2. CASE c \in Foreign
    <3>1. resp = "-1" /\ replies[c] \in Seq({"magic", "0", "-1"})
      BY <1>6, <2>1, <2>2 DEF ExchangeInv, TypeOK
    <3>2. \A i \in DOMAIN replies[c] : replies[c][i] = "-1"
      BY <2>2 DEF RepliesInv
    <3>3. \A i \in DOMAIN replies'[c] : replies'[c][i] = "-1"
      BY <2>1, <3>1, <3>2, AppendElements
    <3> QED BY <2>2, <3>3 DEF RepliesInv
  <2>3. CASE c \notin Foreign
    <3>1. resp = "0" /\ Handled(c, Current(c)) /\ read[c] = Current(c) + RequestLen
      BY <1>6, <2>1, <2>3 DEF ExchangeInv, StageInv, Exchanging
    <3>3. cpc[c] \in {"echo", "response"}
      BY <1>6, <3>1, Reading
    <3>4. \/ cpc[c] # "response" /\ replies[c] = <<"magic">>
          \/ cpc[c] = "response" /\ replies[c] = <<>>
      BY <1>6, <2>1, <2>3 DEF AlignedInv, Exchanges, Exchanging
    <3> QED BY <1>2, <1>3, <2>1, <2>3, <3>1, <3>3, <3>4, ShortReplies DEF RepliesInv
  <2> QED BY <2>2, <2>3
<1> QED BY <1>4, <1>5, <1>6, LoopReplies

LEMMA AlignedInit == ASSUME Init, NEW c \in Client PROVE AlignedInv(c)
BY LengthAssumption DEF Init, AlignedInv, Current, Exchanges, Exchanging

LEMMA AlignedOfClients ==
  ASSUME TypeOK, NEW d \in Client, ClientStep(d) \/ Killed(d), spc # "killed",
         NEW c \in Client \ Foreign, AlignedInv(c), StreamInv(c), RepliesInv(c)
  PROVE  AlignedInv(c)'
<1>1. UNCHANGED loopVars /\ read' = read
  BY ClientFrame
<1>2. Exchanges(c)' = Exchanges(c) /\ spc' = spc
  BY <1>1 DEF Exchanges, loopVars, Exchanging
<1>3. CASE c # d
  <2>1. Untouched(c)
    BY <1>3, OtherClients
  <2>2. Current(c)' = Current(c) /\ Gone(c)' = Gone(c)
    BY <2>1 DEF Current, Gone, Untouched
  <2> QED BY <1>1, <1>2, <2>1, <2>2 DEF AlignedInv, Untouched
<1>4. CASE c = d
  <2>1. ~Gone(c)
    BY <1>4 DEF ClientStep, Gone, Connect, Send, ReceiveEcho, ReceiveResponse, Killed
  <2>2. CASE Exchanges(c)
    <3> SUFFICES ASSUME ~Gone(c)' PROVE AlignedInv(c)'
      BY <1>2, <2>2 DEF AlignedInv
    <3>1. CASE Connect(c) \/ Send(c)
      <4>1. cpc[c] # "response" /\ cpc'[c] # "response" /\ replies' = replies
        BY <3>1, ConnectAt, SendAt
      <4> QED BY <1>2, <2>1, <2>2, <4>1 DEF AlignedInv
    <3>2. CASE ReceiveEcho(c)
      <4>1. spc \notin {"magic", "echo"}
        BY <2>2, <3>2, NothingToReceive
      <4>2. cpc[c] = "echo" /\ cpc'[c] = "response"
            /\ replies'[c] = IF replies[c] = <<>> THEN <<>> ELSE Tail(replies[c])
        BY <3>2, ReceiveEchoAt
      <4>3. replies[c] = <<"magic">>
        BY <2>1, <2>2, <4>1, <4>2 DEF AlignedInv
      <4> QED BY <1>2, <2>2, <4>1, <4>2, <4>3, ShortReplies DEF AlignedInv
    <3>3. ~ReceiveResponse(c)
      BY <2>2, NothingToReceive
    <3>4. ~Killed(c)
      BY KilledAt DEF Gone
    <3> QED BY <1>4, <3>1, <3>2, <3>3, <3>4 DEF ClientStep
  <2>3. CASE ~Exchanges(c) /\ read[c] = Current(c)
    <3>1. ~ReceiveEcho(c) /\ ~ReceiveResponse(c)
      BY <2>3, NothingToReceive
    <3>2. cpc[c] # "response" /\ replies[c] = <<>>
      BY <2>1, <2>3, Numbers DEF AlignedInv
    <3>3. Connect(c) \/ Send(c) \/ Killed(c)
      BY <1>4, <3>1 DEF ClientStep
    <3>4. Current(c)' = Current(c) /\ cpc'[c] # "response" /\ replies' = replies
      <4>1. CASE Connect(c)
        BY <4>1, ConnectAt DEF Current
      <4>2. CASE Killed(c)
        BY <4>2, KilledAt DEF Current
      <4>3. CASE Send(c)
        <5>1. left[c] > 0
          BY <4>3, SendAt DEF StreamInv
        <5>2. \A n \in Pieces(c) : n \in Nat
          BY <5>1, PiecesFit
        <5> QED BY <4>3, <5>2, SendAt, Numbers DEF Current
      <4> QED BY <3>3, <4>1, <4>2, <4>3
    <3> QED BY <1>1, <1>2, <2>3, <3>2, <3>4 DEF AlignedInv
  <2>4. CASE ~Exchanges(c) /\ read[c] = Current(c) + RequestLen
    <3>1. \/ cpc[c] = "echo" /\ Len(replies[c]) = 2
          \/ cpc[c] = "response" /\ Len(replies[c]) = 1
      <4>1. Current(c) \in Int /\ RequestLen > 0 /\ RequestLen \in Int
        BY Numbers DEF RequestLen
      <4>2. read[c] # Current(c)
        BY <2>4, <4>1
      <4> QED BY <2>1, <2>4, <4>2 DEF AlignedInv
    <3>2. CASE ReceiveEcho(c)
      <4>1. cpc[c] = "echo" /\ cpc'[c] = "response" /\ Current(c)' = Current(c)
            /\ replies'[c] = IF replies[c] = <<>> THEN <<>> ELSE Tail(replies[c])
        BY <3>2, ReceiveEchoAt DEF Current
      <4>2. replies[c] = <<"magic", "0">>
        BY <2>1, <3>1, <4>1, ShortReplies DEF RepliesInv
      <4> QED BY <1>1, <1>2, <2>4, <4>1, <4>2, ShortReplies DEF AlignedInv
    <3>3. CASE ReceiveResponse(c)
      <4>1. cpc[c] = "response" /\ sent'[c] = sent[c]
            /\ replies'[c] = IF replies[c] = <<>> THEN <<>> ELSE Tail(replies[c])
        BY <3>3, ReceiveResponseAt
      <4>2. replies[c] = <<"0">>
        BY <2>1, <3>1, <4>1, ShortReplies DEF RepliesInv
      <4>3. CASE cpc'[c] = "gone"
        <5>1. left'[c] = left[c]
          BY <3>3, <4>3, ReceiveResponseAt
        <5>2. Current(c)' = Current(c) /\ Gone(c)'
          BY <4>1, <4>3, <5>1 DEF Current, Gone
        <5> QED BY <1>1, <1>2, <2>4, <5>2 DEF AlignedInv
      <4>4. CASE cpc'[c] = "send"
        <5>1. left'[c] = RequestLen
          BY <3>3, <4>4, ReceiveResponseAt
        <5>2. left[c] = 0
          BY <4>1 DEF StreamInv
        <5>3. Current(c)' = sent[c] /\ read[c] = sent[c]
          BY <2>4, <4>1, <5>1, <5>2, Numbers DEF Current
        <5>4. replies'[c] = <<>>
          BY <4>1, <4>2, ShortReplies
        <5>5. read'[c] = Current(c)' /\ cpc'[c] # "response" /\ ~Exchanges(c)'
          BY <1>1, <1>2, <2>4, <4>4, <5>3
        <5> QED BY <5>4, <5>5 DEF AlignedInv
      <4> QED BY <3>3, <4>3, <4>4, ReceiveResponseAt
    <3>4. CASE Killed(c)
      <4>1. Current(c)' = Current(c) /\ Gone(c)'
        BY <3>4, KilledAt DEF Current, Gone
      <4> QED BY <1>1, <1>2, <2>4, <4>1 DEF AlignedInv
    <3>5. ~Connect(c) /\ ~Send(c)
      BY <3>1 DEF Connect, Send
    <3> QED BY <1>4, <3>2, <3>3, <3>4, <3>5 DEF ClientStep
  <2> QED BY <2>2, <2>3, <2>4 DEF AlignedInv
<1> QED BY <1>3, <1>4

LEMMA AlignedOfLoop ==
  ASSUME TypeOK, \A c \in Client : StreamInv(c), PollInv, ExchangeInv, Loop,
         spc # "killed", spc' # "killed",
         NEW c \in Client \ Foreign, AlignedInv(c)
  PROVE  AlignedInv(c)'
<1>1. UNCHANGED clientVars
  BY LoopReads
<1>2. /\ Current(c)' = Current(c) /\ cpc'[c] = cpc[c]
      /\ (Gone(c)' <=> Gone(c)) /\ left'[c] = left[c]
  BY <1>1 DEF clientVars, Current, Gone
<1>3. CASE /\ ~Exchanges(c) /\ ~Exchanges(c)'
           /\ read'[c] = read[c] /\ replies'[c] = replies[c]
  BY <1>2, <1>3 DEF AlignedInv
<1>4. CASE StartExchange /\ spc' = "magic" /\ c = accept_fd
  <2>1. /\ spc = "client" /\ accept_fd' = c /\ Waiting(c) > 0
        /\ replies' = replies /\ read' = read
    BY <1>4, StartExchangeAt
  <2>2. read[c] # Current(c) + RequestLen /\ ~Exchanges(c) /\ Exchanges(c)'
    BY <1>4, <2>1, WholeRequest DEF Exchanges, Exchanging
  <2>3. ~Gone(c) => cpc[c] # "response" /\ replies[c] = <<>>
    BY <2>2 DEF AlignedInv
  <2> QED BY <1>2, <1>4, <2>1, <2>2, <2>3 DEF AlignedInv
<1>5. CASE ReceiveMagic /\ c = accept_fd
  <2>1. /\ spc = "magic" /\ spc' = "echo" /\ accept_fd' = c /\ replies' = replies
    BY <1>5, ReceiveMagicAt
  <2>2. Exchanges(c) /\ Exchanges(c)'
    BY <1>5, <2>1 DEF Exchanges, Exchanging
  <2> QED BY <1>2, <2>1, <2>2 DEF AlignedInv
<1>6. CASE EchoMagic /\ c = accept_fd
  <2>1. /\ spc = "echo" /\ spc' = "size" /\ accept_fd' = c /\ ~Gone(c)
        /\ replies'[c] = Append(replies[c], "magic")
    BY <1>6, EchoMagicAt
  <2>2. Exchanges(c) /\ Exchanges(c)'
    BY <1>6, <2>1 DEF Exchanges, Exchanging
  <2>3. cpc[c] # "response" /\ replies[c] = <<>>
    BY <2>1, <2>2 DEF AlignedInv
  <2>4. replies'[c] = <<"magic">>
    BY <2>1, <2>3, ShortReplies
  <2> QED BY <1>2, <2>1, <2>2, <2>3, <2>4 DEF AlignedInv
<1>7. CASE (ReceiveSize \/ ReceiveBody \/ Parse) /\ c = accept_fd
  <2>1. /\ spc \in {"size", "body", "parse"} /\ spc' \in {"body", "parse", "respond"}
        /\ accept_fd' = c /\ replies' = replies
    BY <1>7, ReceiveSizeAt, ReceiveBodyAt, ParseAt
  <2>2. Exchanges(c) /\ Exchanges(c)'
    BY <1>7, <2>1 DEF Exchanges, Exchanging
  <2>3. spc \notin {"magic", "echo"} /\ spc' \notin {"magic", "echo"}
    BY <2>1
  <2> QED BY <1>2, <2>1, <2>2, <2>3 DEF AlignedInv
<1>8. CASE Respond /\ c = accept_fd
  <2>1. /\ spc = "respond" /\ spc' = "poll" /\ ~Gone(c) /\ read' = read
        /\ replies'[c] = Append(replies[c], resp)
    BY <1>8, RespondAt
  <2>2. Exchanges(c) /\ ~Exchanges(c)'
    BY <1>8, <2>1 DEF Exchanges, Exchanging
  <2>3. read[c] = Current(c) + RequestLen /\ resp = "0"
    BY <1>8, <2>1 DEF ExchangeInv, StageInv, Exchanging
  <2>4. \/ cpc[c] # "response" /\ replies[c] = <<"magic">>
        \/ cpc[c] = "response" /\ replies[c] = <<>>
    BY <2>1, <2>2 DEF AlignedInv
  <2>5. cpc[c] \in {"echo", "response"}
    BY <2>1, <2>3, Reading
  <2>6. \/ cpc[c] = "echo" /\ Len(replies'[c]) = 2
        \/ cpc[c] = "response" /\ Len(replies'[c]) = 1
    BY <2>1, <2>3, <2>4, <2>5, ShortReplies
  <2> QED BY <1>2, <2>1, <2>2, <2>3, <2>6 DEF AlignedInv
<1>9. CASE c # accept_fd /\ spc \in Exchanging
  <2>1. accept_fd' = accept_fd /\ ~Exchanges(c) /\ ~Exchanges(c)'
    BY <1>9 DEF Exchanges, Exchanging, Loop, Start, Poll, HandleEvent, Accept,
          HangUp, StartExchange, ReceiveMagic, EchoMagic, ReceiveSize,
          ReceiveBody, Parse, Respond
  <2>2. read'[c] = read[c]
    BY <2>1, LoopReads
  <2>3. replies'[c] = replies[c]
    BY <1>9, LoopReplies
  <2> QED BY <1>3, <2>1, <2>2, <2>3
<1>10. CASE spc \notin Exchanging
  <2>1. \/ /\ spc' \notin Exchanging /\ UNCHANGED <<replies, read>>
        \/ StartExchange /\ spc' = "magic"
    BY <1>10, IdleSteps DEF ReceiveMagic, EchoMagic, ReceiveSize, ReceiveBody,
          Parse, Respond, Exchanging
  <2>2. CASE StartExchange /\ spc' = "magic" /\ c # accept_fd
    BY <1>3, <1>10, <2>2, StartExchangeAt DEF Exchanges
  <2> QED BY <1>3, <1>4, <1>10, <2>1, <2>2 DEF Exchanges
<1>11. CASE c = accept_fd /\ spc \in Exchanging
  BY <1>5, <1>6, <1>7, <1>8, <1>11, IdleSteps DEF StartExchange, Exchanging
<1> QED BY <1>9, <1>10, <1>11

-----------------------------------------------------------------------------
(***************************************************************************)
(* What the parser was given, and what clients were told.                   *)
(***************************************************************************)

(* An entry of handled is the body of a request that has been read. *)
EntryInv(m) ==
  /\ m.client \in Client \ Foreign
  /\ m.len = BodyLen
  /\ m.from - 2 * HeaderLen \in starts[m.client]
  /\ m.from + BodyLen <= read[m.client]
  /\ spc \in {"body", "parse"} /\ accept_fd = m.client => m.from + BodyLen <= body

LEMMA HandledParts ==
  HandledInv <=> /\ \A i \in DOMAIN handled : EntryInv(handled[i])
                 /\ IsInjective(handled)
                 /\ \A c \in Client : \A p \in acked[c] : Handled(c, p)
BY DEF HandledInv, EntryInv

LEMMA HandledInit == Init => HandledInv
BY DEF Init, HandledInv, IsInjective

LEMMA HandledOfClients ==
  ASSUME TypeOK, NEW d \in Client, ClientStep(d) \/ Killed(d), HandledInv,
         \A c \in Client : RepliesInv(c)
  PROVE  HandledInv'
<1>1. UNCHANGED <<handled, spc, accept_fd, body, read>>
  BY ClientFrame DEF loopVars
<1>2. \A c, p : Handled(c, p)' <=> Handled(c, p)
  BY <1>1 DEF Handled
<1>3. \A c \in Client : starts[c] \subseteq starts'[c]
  <2> TAKE c \in Client
  <2>1. CASE c # d
    BY <2>1, OtherClients DEF Untouched
  <2>2. CASE c = d
    BY <2>2, ConnectAt, SendAt, ReceiveEchoAt, ReceiveResponseAt, KilledAt
       DEF ClientStep
  <2> QED BY <2>1, <2>2
<1>4. \A i \in DOMAIN handled' : EntryInv(handled[i])'
  <2>1. \A i \in DOMAIN handled : EntryInv(handled[i])
    BY HandledParts
  <2> QED BY <1>1, <1>3, <2>1 DEF EntryInv
<1>5. ASSUME NEW c \in Client, NEW p \in acked'[c] PROVE Handled(c, p)
  <2>1. CASE p \in acked[c]
    BY <2>1, HandledParts
  <2>2. CASE p \notin acked[c]
    <3>1. c = d /\ ReceiveResponse(c)
      BY <1>5, <2>2, OtherClients, ConnectAt, SendAt, ReceiveEchoAt, KilledAt
         DEF ClientStep
    <3>2. /\ cpc[c] = "response" /\ Reply(c) = "0" /\ p = Current(c)
      BY <1>5, <2>2, <3>1, ReceiveResponseAt
    <3>3. replies[c] # <<>> /\ Head(replies[c]) = "0"
      BY <3>2 DEF Reply
    <3>4. replies[c] \in Seq({"magic", "0", "-1"})
      BY DEF TypeOK
    <3>5. c \notin Foreign
      <4>1. Head(replies[c]) = replies[c][1] /\ 1 \in DOMAIN replies[c]
        BY <3>3, <3>4
      <4> QED BY <3>3, <4>1 DEF RepliesInv
    <3> QED BY <3>2, <3>3, <3>5 DEF RepliesInv, Gone
  <2> QED BY <2>1, <2>2
<1>6. IsInjective(handled)'
  BY <1>1, HandledParts DEF IsInjective
<1>7. \A c \in Client : \A p \in acked'[c] : Handled(c, p)'
  BY <1>2, <1>5
<1> QED BY <1>4, <1>6, <1>7 DEF HandledInv, EntryInv

LEMMA HandledOfLoop ==
  ASSUME TypeOK, \A c \in Client : StreamInv(c), PollInv, ExchangeInv, Loop,
         HandledInv
  PROVE  HandledInv'
<1>1. handled \in Seq([client : Client, from : Nat, len : Nat])
  BY DEF TypeOK
<1>2. \A i \in DOMAIN handled :
        EntryInv(handled[i]) /\ handled[i] \in [client : Client, from : Nat, len : Nat]
  <2>1. \A i \in DOMAIN handled : handled[i] \in [client : Client, from : Nat, len : Nat]
    <3> DEFINE S == [client : Client, from : Nat, len : Nat]
    <3>1. handled \in Seq(S)
      BY <1>1
    <3> HIDE DEF S
    <3>2. \A i \in DOMAIN handled : handled[i] \in S
      BY <3>1
    <3> QED BY <3>2 DEF S
  <2> QED BY <2>1, HandledParts
<1>3. ASSUME NEW m \in [client : Client, from : Nat, len : Nat], EntryInv(m)
      PROVE  EntryInv(m)'
  <2>2. EntryInv(m)
    BY <1>3
  <2> DEFINE c == m.client
  <2>3. c \in Client /\ m.from \in Nat /\ BodyLen \in Nat
    BY LengthAssumption
  <2>4. starts' = starts /\ read'[c] >= read[c] /\ read'[c] \in Nat
    <3>1. read'[c] \in Nat
      BY <2>3, TypeOfLoop DEF TypeOK
    <3> QED BY <2>3, <3>1, LoopReads DEF clientVars
  <2>5. read[c] \in Nat
    BY <2>3, Numbers
  <2>6. ASSUME spc' \in {"body", "parse"}, accept_fd' = c
        PROVE  m.from + BodyLen <= body'
    <3>1. ReceiveSize \/ ReceiveBody
      BY <2>6, IdleSteps DEF Exchanging, ReceiveMagic, EchoMagic, Parse, Respond,
            SendReply, Gone
    <3>2. accept_fd = c
      BY <2>6, <3>1 DEF ReceiveSize, ReceiveBody
    <3>3. CASE ReceiveSize
      <4>1. body' = read'[c]
        BY <3>2, <3>3 DEF ReceiveSize
      <4> QED BY <2>2, <2>3, <2>4, <2>5, <4>1 DEF EntryInv
    <3>4. CASE ReceiveBody
      <4>1. spc = "body" /\ body' = body
        BY <3>4 DEF ReceiveBody
      <4> QED BY <2>2, <3>2, <4>1 DEF EntryInv
    <3> QED BY <3>1, <3>3, <3>4
  <2>7. m.from + BodyLen <= read'[c]
    BY <2>2, <2>3, <2>4, <2>5 DEF EntryInv
  <2> QED BY <2>2, <2>4, <2>6, <2>7 DEF EntryInv
<1>4. \A c \in Client : \A p \in acked'[c] : Handled(c, p)'
  <2>1. acked' = acked \/ Client = {}
    BY LoopReads DEF clientVars
  <2>2. \A c \in Client : \A p \in acked[c] : Handled(c, p)
    BY HandledParts
  <2> QED BY <2>1, <2>2, LoopHandles, HandledStays
<1>5. CASE handled' = handled
  <2>1. IsInjective(handled)'
    BY <1>5, HandledParts DEF IsInjective
  <2>2. ASSUME NEW i \in DOMAIN handled' PROVE EntryInv(handled[i])'
    <3>1. PICK m \in [client : Client, from : Nat, len : Nat] : m = handled[i]
      BY <1>2, <1>5, <2>2
    <3>2. EntryInv(m)'
      BY <1>2, <1>3, <1>5, <2>2, <3>1
    <3> QED BY <1>5, <3>1, <3>2 DEF EntryInv
  <2> QED BY <1>4, <2>1, <2>2 DEF HandledInv, EntryInv
<1>6. CASE Parse /\ handled' = Append(handled, Message) /\ handled' # handled
  <2>1. PICK c \in Client : c = accept_fd
    BY <1>6, ServedClient DEF Parse, Exchanging
  <2>2. /\ spc = "parse" /\ spc' = "respond" /\ c \notin Foreign
        /\ UNCHANGED <<starts, accept_fd, read>>
        /\ body = Current(c) + 2 * HeaderLen
        /\ read[c] = body + BodyLen
        /\ Message = [client |-> c, from |-> body, len |-> BodyLen]
    BY <1>6, <2>1, ParseAt DEF clientVars
  <2>3. /\ Current(c) \in starts[c] /\ Current(c) \in Nat /\ body \in Nat
        /\ HeaderLen \in Nat /\ BodyLen \in Nat \ {0}
    BY WholeRequest, Numbers DEF TypeOK
  <2> PICK new \in [client : Client, from : Nat, len : Nat] :
          new = [client |-> c, from |-> body, len |-> BodyLen]
    BY <2>3
  <2>4. EntryInv(new)'
    <3>1. body + BodyLen <= read[c] /\ body - 2 * HeaderLen \in starts[c]
      BY <2>2, <2>3
    <3> QED BY <2>1, <2>2, <3>1 DEF EntryInv
  <2>5. /\ DOMAIN handled = 1 .. Len(handled) /\ Len(handled) \in Nat
        /\ DOMAIN handled' = 1 .. Len(handled) + 1
        /\ handled'[Len(handled) + 1] = new
        /\ \A i \in 1 .. Len(handled) : handled'[i] = handled[i]
    BY <1>1, <1>6, <2>2, AppendElements
  <2>6. \A i \in DOMAIN handled : handled[i] # new
    <3> SUFFICES ASSUME NEW i \in DOMAIN handled, handled[i] = new PROVE FALSE
      OBVIOUS
    <3>1. EntryInv(new)
      BY <1>2
    <3>2. body + BodyLen <= body
      BY <2>1, <2>2, <3>1 DEF EntryInv
    <3> QED BY <2>3, <3>2
  <2>7. IsInjective(handled')
    <3>1. IsInjective(handled)
      BY HandledParts
    <3> SUFFICES ASSUME NEW i \in DOMAIN handled', NEW j \in DOMAIN handled',
                        handled'[i] = handled'[j]
                 PROVE  i = j
      BY DEF IsInjective
    <3> QED BY <2>5, <2>6, <3>1 DEF IsInjective
  <2>8. ASSUME NEW i \in DOMAIN handled' PROVE EntryInv(handled[i])'
    <3>1. CASE i = Len(handled) + 1
      BY <2>4, <2>5, <3>1 DEF EntryInv
    <3>2. CASE i # Len(handled) + 1
      <4>1. i \in DOMAIN handled /\ handled'[i] = handled[i]
        BY <2>5, <2>8, <3>2
      <4>2. PICK m \in [client : Client, from : Nat, len : Nat] : m = handled[i]
        BY <1>2, <4>1
      <4>3. EntryInv(m)'
        BY <1>2, <1>3, <4>1, <4>2
      <4> QED BY <4>1, <4>2, <4>3 DEF EntryInv
    <3> QED BY <3>1, <3>2
  <2> QED BY <1>4, <2>7, <2>8 DEF HandledInv, EntryInv
<1> QED BY <1>5, <1>6, LoopHandles

-----------------------------------------------------------------------------
(***************************************************************************)
(* The inductive invariant.                                                 *)
(***************************************************************************)

LEMMA InvInit == Init => ReceiverInv
BY TypeInit, StreamInit, PollInit, ExchangeInit, RepliesInit, AlignedInit, HandledInit
   DEF ReceiverInv

(* An event, or no step at all, changes nothing of this but the pipe. *)
LEMMA EventKeeps ==
  ASSUME ReceiverInv, (\E e \in Event : EventArrives(e)) \/ UNCHANGED vars
  PROVE  ReceiverInv'
<1>1. UNCHANGED <<clientVars, replies, reset, queue, loopVars, read>>
  BY DEF EventArrives, vars
<1> USE DEF clientVars, loopVars
<1>2. TypeOK'
  <2>1. CASE UNCHANGED vars
    BY <2>1 DEF ReceiverInv, TypeOK, vars
  <2> QED BY <2>1, TypeOfClients DEF ReceiverInv
<1>3. pipe # <<>> => pipe' # <<>>
  <2>1. CASE UNCHANGED vars
    BY <2>1 DEF vars
  <2>2. ASSUME NEW e \in Event, EventArrives(e) PROVE pipe' # <<>>
    <3>1. pipe' = Append(pipe, e) /\ pipe \in Seq(Event)
      BY <2>2 DEF EventArrives, ReceiverInv, TypeOK
    <3> QED BY <3>1
  <2> QED BY <2>1, <2>2
<1>4. /\ \A c : (Gone(c)' <=> Gone(c)) /\ Current(c)' = Current(c)
      /\ \A c : Waiting(c)' = Waiting(c)
      /\ \A c, p : Handled(c, p)' <=> Handled(c, p)
      /\ \A c : Exchanges(c)' <=> Exchanges(c)
  BY <1>1 DEF Gone, Current, Waiting, Handled, Exchanges
<1>5. \A c \in Client : StreamInv(c)' /\ RepliesInv(c)'
  BY <1>1, <1>4 DEF ReceiverInv, StreamInv, RepliesInv
<1>6. PollInv' /\ ExchangeInv'
  BY <1>1, <1>3, <1>4 DEF ReceiverInv, PollInv, ExchangeInv, StageInv
<1>7. spc' # "killed" => \A c \in Client \ Foreign : AlignedInv(c)'
  BY <1>1, <1>4 DEF ReceiverInv, AlignedInv
<1>8. HandledInv'
  BY <1>1, <1>4 DEF ReceiverInv, HandledInv, IsInjective
<1> QED BY <1>2, <1>5, <1>6, <1>7, <1>8 DEF ReceiverInv

LEMMA ClientKeeps ==
  ASSUME ReceiverInv, NEW d \in Client, ClientStep(d) \/ Killed(d)
  PROVE  ReceiverInv'
<1> USE DEF ReceiverInv
<1>1. spc' = spc
  BY ClientFrame DEF loopVars
<1>2. TypeOK'
  BY TypeOfClients
<1>3. PollInv'
  BY PollOfClients
<1>4. ExchangeInv'
  BY ExchangeOfClients
<1>5. HandledInv'
  BY HandledOfClients
<1>6. \A c \in Client : StreamInv(c)' /\ RepliesInv(c)'
  BY StreamOfClients, RepliesOfClients
<1>7. spc' # "killed" => \A c \in Client \ Foreign : AlignedInv(c)'
  BY <1>1, AlignedOfClients
<1> QED BY <1>2, <1>3, <1>4, <1>5, <1>6, <1>7

LEMMA LoopKeeps ==
  ASSUME ReceiverInv, Loop
  PROVE  ReceiverInv'
<1> USE DEF ReceiverInv
<1>1. spc # "killed"
  BY DEF Loop, Start, Poll, HandleEvent, Accept, HangUp, StartExchange,
         ReceiveMagic, EchoMagic, ReceiveSize, ReceiveBody, Parse, Respond
<1>2. TypeOK'
  BY TypeOfLoop
<1>3. PollInv'
  BY PollOfLoop
<1>4. ExchangeInv'
  BY ExchangeOfLoop
<1>5. HandledInv'
  BY HandledOfLoop
<1>6. \A c \in Client : StreamInv(c)' /\ RepliesInv(c)'
  BY StreamOfLoop, RepliesOfLoop
<1>7. spc' # "killed" => \A c \in Client \ Foreign : AlignedInv(c)'
  BY <1>1, AlignedOfLoop
<1> QED BY <1>2, <1>3, <1>4, <1>5, <1>6, <1>7

LEMMA InvStep == ReceiverInv /\ [Next]_vars => ReceiverInv'
BY EventKeeps, ClientKeeps, LoopKeeps DEF Next

(* Wherever each client is in its stream and the loop in that of the client *)
(* it serves, the two agree on which request they are at, and the replies   *)
(* on their way are those of that request: no later request is ever read    *)
(* from the middle of an earlier one.                                       *)
THEOREM ReceiverInvariant == Spec => []ReceiverInv
<1>1. Init => ReceiverInv
  BY InvInit
<1>2. ReceiverInv /\ [Next]_vars => ReceiverInv'
  BY InvStep
<1> QED BY <1>1, <1>2, PTL DEF Spec

(* Every variable of the socket model keeps its type; in particular the     *)
(* unsigned count of acquire_body_from_client stays within its width.       *)
THEOREM ReceiverTypeCorrect == Spec => []TypeOK
<1>1. ReceiverInv => TypeOK
  BY DEF ReceiverInv
<1> QED BY <1>1, ReceiverInvariant, PTL

(* Whatever pieces the bodies arrive in and whoever is killed when, the     *)
(* parser is given whole bodies, each once, and none of a foreign client.   *)
THEOREM BodiesIntact == Spec => []Intact
<1>1. ReceiverInv => Intact
  BY DEF ReceiverInv, HandledInv, Intact
<1> QED BY <1>1, ReceiverInvariant, PTL

LEMMA WholeHeaders == ReceiverInv => HeadersWhole
<1> SUFFICES ASSUME ReceiverInv PROVE HeadersWhole
  OBVIOUS
<1>1. ASSUME spc \in {"magic", "size", "body"}, accept_fd \notin Foreign
      PROVE  HeadersWhole
  <2>1. PICK c \in Client : c = accept_fd
    BY <1>1, ServedClient DEF ReceiverInv, Exchanging
  <2>2. TypeOK /\ StreamInv(c) /\ StageInv(c) /\ (spc = "magic" => Waiting(c) > 0)
    BY <1>1, <2>1 DEF ReceiverInv, ExchangeInv, Exchanging
  <2>3. spc = "magic" => Waiting(c) >= HeaderLen
    BY <2>2, WholeRequest DEF StageInv
  <2>4. spc = "size" /\ Returns(c) => Waiting(c) >= HeaderLen \/ reset[c]
    <3> SUFFICES ASSUME spc = "size", Returns(c), ~reset[c]
                 PROVE  Waiting(c) >= HeaderLen
      OBVIOUS
    <3>1. read[c] = Current(c) + HeaderLen
      BY <2>2 DEF StageInv
    <3>2. Waiting(c) > 0 \/ left[c] = 0
      BY <2>2 DEF StageInv, Returns
    <3> QED BY <2>2, <3>1, <3>2, WholeRequest
  <2>5. spc = "body" => size = BodyLen
    BY <2>2 DEF StageInv
  <2> QED BY <2>1, <2>3, <2>4, <2>5 DEF HeadersWhole
<1>2. spc \in {"size", "body"} => accept_fd \notin Foreign
  BY DEF ReceiverInv, ExchangeInv
<1> QED BY <1>1, <1>2 DEF HeadersWhole

(* No magic code and no size is read short, unless recv fails and says so:  *)
(* no uninitialized byte is ever taken for one, for any lengths.            *)
THEOREM HeadersAreWhole == Spec => []HeadersWhole
<1>1. ReceiverInv => HeadersWhole
  BY WholeHeaders
<1> QED BY <1>1, ReceiverInvariant, PTL

-----------------------------------------------------------------------------
(***************************************************************************)
(* Nobody goes away while being served.                                     *)
(***************************************************************************)

AttendedInv ==
  /\ Survives
  /\ \A c \in Client : Served(c) => ~Gone(c)

(* The client that is served has sent bytes, and they are not all read or  *)
(* they are those of a request: it is not about to connect.                 *)
LEMMA ServedHasConnected ==
  ASSUME ReceiverInv, Foreign = {}, NEW c \in Client, Served(c), ~Gone(c)
  PROVE  cpc[c] # "connect" /\ (spc \notin Exchanging => Waiting(c) > 0)
<1> USE Numbers
<1>1. TypeOK /\ StreamInv(c) /\ PollInv /\ ExchangeInv /\ accept_fd = c
  BY DEF ReceiverInv, Served
<1>2. spc \notin Exchanging => Waiting(c) > 0
  BY <1>1 DEF Served, PollInv
<1>3. cpc[c] = "connect" => read[c] = 0 /\ Waiting(c) = 0 /\ Current(c) = 0
  BY <1>1 DEF StreamInv, Waiting, Current, TypeOK
<1>4. CASE spc \in Exchanging
  <2>1. StageInv(c) /\ (spc = "magic" => Waiting(c) > 0)
    BY <1>1, <1>4 DEF ExchangeInv
  <2>2. cpc[c] = "connect" => spc # "magic" /\ spc # "body" /\ spc # "parse"
    BY <1>1, <1>3, <2>1, LengthAssumption DEF StageInv, TypeOK
  <2>3. cpc[c] = "connect" => spc \notin {"echo", "size", "respond"}
    BY <1>1, <1>3, <2>1, LengthAssumption DEF StageInv, RequestLen
  <2> QED BY <1>4, <2>2, <2>3 DEF Exchanging
<1> QED BY <1>2, <1>3, <1>4

LEMMA AttendedOfClients ==
  ASSUME ReceiverInv, AttendedInv, Foreign = {}, Killing # "anytime",
         NEW d \in Client, ClientStep(d) \/ Killed(d)
  PROVE  AttendedInv'
<1>1. UNCHANGED <<spc, accept_fd, revents, listening>>
  BY ClientFrame DEF loopVars
<1>2. TypeOK /\ StreamInv(d) /\ AlignedInv(d) /\ spc # "killed"
  BY DEF ReceiverInv, AttendedInv, Survives
<1>3. \A c \in Client : Served(c)' <=> Served(c)
  BY <1>1 DEF Served
<1>4. ASSUME NEW c \in Client, c # d PROVE cpc'[c] = cpc[c]
  BY <1>2, <1>4, OtherClients DEF Untouched
<1>5. ASSUME Served(d) PROVE ~Gone(d)'
  <2>1. ~Gone(d) /\ ~Killed(d)
    BY <1>5, KillingAssumption DEF AttendedInv, Killed
  <2>2. cpc[d] # "connect" /\ (spc \notin Exchanging => Waiting(d) > 0)
    BY <1>5, <2>1, ServedHasConnected
  <2>3. CASE Send(d)
    <3>1. listening
      BY <1>2, <2>3, SendAt DEF StreamInv
    <3>2. cpc'[d] \in {"send", "echo"}
      BY <1>2, <2>3, <3>1, SendAt DEF Serving
    <3> QED BY <3>2 DEF Gone
  <2>4. CASE ReceiveEcho(d)
    BY <1>2, <2>4, ReceiveEchoAt DEF Gone
  <2>5. ~ReceiveResponse(d)
    <3>1. CASE Exchanges(d)
      BY <1>2, <3>1, NothingToReceive
    <3>2. CASE ~Exchanges(d)
      <4>1. Waiting(d) > 0
        BY <1>5, <2>2, <3>2 DEF Exchanges, Served
      <4>2. read[d] = Current(d)
        <5>1. Waiting(d) <= Current(d) + RequestLen - read[d]
          BY <1>2, LengthAssumption DEF TypeOK, Waiting, Current, RequestLen
        <5>2. read[d] # Current(d) + RequestLen
          BY <1>2, <4>1, <5>1, Numbers DEF Waiting
        <5> QED BY <1>2, <3>2, <5>2 DEF AlignedInv
      <4> QED BY <1>2, <3>2, <4>2, NothingToReceive
    <3> QED BY <3>1, <3>2
  <2>6. ~Connect(d)
    BY <2>2 DEF Connect
  <2> QED BY <2>1, <2>3, <2>4, <2>5, <2>6 DEF ClientStep
<1>6. \A c \in Client : Served(c)' => ~Gone(c)'
  BY <1>3, <1>4, <1>5 DEF AttendedInv, Gone
<1> QED BY <1>1, <1>2, <1>6 DEF AttendedInv, Survives

LEMMA AttendedOfLoop ==
  ASSUME ReceiverInv, AttendedInv, Loop
  PROVE  AttendedInv'
<1>1. TypeOK /\ PollInv
  BY DEF ReceiverInv
<1>2. \A c : Gone(c)' <=> Gone(c)
  <2>1. cpc' = cpc
    BY DEF Loop, Start, Poll, HandleEvent, Accept, HangUp, StartExchange,
       ReceiveMagic, EchoMagic, ReceiveSize, ReceiveBody, Parse, Respond, clientVars
  <2> QED BY <2>1 DEF Gone
<1>3. spc \in Exchanging => accept_fd \in Client /\ ~Gone(accept_fd)
  BY <1>1 DEF TypeOK, AttendedInv, Served
<1>4. spc' # "killed"
  BY <1>3 DEF Loop, Start, Poll, HandleEvent, Accept, HangUp, StartExchange,
     ReceiveMagic, EchoMagic, ReceiveSize, ReceiveBody, Parse, Respond,
     SendReply, Exchanging
<1>5. ASSUME NEW c \in Client, Served(c)' PROVE Served(c) \/ ~Gone(c)
  <2>1. CASE Poll
    <3>1. spc' = "pipe" /\ revents' = Ready /\ accept_fd' = accept_fd
      BY <2>1 DEF Poll
    <3>2. "hangup" \notin Ready /\ accept_fd = c
      BY <1>5, <3>1 DEF Served, Exchanging
    <3>3. c # NoClient
      BY ClientAssumption
    <3> QED BY <3>2, <3>3 DEF Ready
  <2>2. CASE HandleEvent
    BY <1>5, <2>2 DEF HandleEvent, Served, Exchanging
  <2>3. CASE Accept
    <3>1. "data" \in revents => accept_fd \in Client
      BY <1>1, <2>3 DEF PollInv, Accept
    <3> QED BY <1>5, <2>3, <3>1, ClientAssumption DEF Accept, Served, Exchanging
  <2>4. CASE StartExchange
    BY <1>5, <2>4 DEF StartExchange, Served, Exchanging
  <2>5. CASE Start \/ HangUp
    BY <1>5, <2>5 DEF Start, HangUp, Served, Exchanging
  <2>6. CASE \/ ReceiveMagic \/ EchoMagic \/ ReceiveSize \/ ReceiveBody \/ Parse
             \/ Respond
    BY <1>5, <2>6 DEF ReceiveMagic, EchoMagic, ReceiveSize, ReceiveBody, Parse,
       Respond, Served, Exchanging
  <2> QED BY <2>1, <2>2, <2>3, <2>4, <2>5, <2>6 DEF Loop
<1>6. \A c \in Client : Served(c)' => ~Gone(c)'
  BY <1>2, <1>5 DEF AttendedInv
<1> QED BY <1>4, <1>6 DEF AttendedInv, Survives

LEMMA AttendedStep ==
  ASSUME ReceiverInv, AttendedInv, Foreign = {}, Killing # "anytime", [Next]_vars
  PROVE  AttendedInv'
<1>1. ASSUME (\E e \in Event : EventArrives(e)) \/ UNCHANGED vars
      PROVE  AttendedInv'
  <2>1. UNCHANGED <<cpc, spc, accept_fd, revents>>
    BY <1>1 DEF EventArrives, vars, clientVars, loopVars
  <2> QED BY <2>1 DEF AttendedInv, Survives, Served, Gone
<1> QED BY <1>1, AttendedOfClients, AttendedOfLoop DEF Next

(* The server outlives every client of its own kind that goes away while it *)
(* is not served, whatever the others do and however far its request is     *)
(* read: no reply is ever sent to a connection that is closed.              *)
THEOREM ServerSurvives ==
  ASSUME Foreign = {}, Killing # "anytime"
  PROVE  Spec => []Survives
<1>1. Init => AttendedInv
  BY DEF Init, AttendedInv, Survives, Served, Exchanging
<1>2. ReceiverInv /\ AttendedInv /\ [Next]_vars => AttendedInv'
  BY AttendedStep
<1>3. AttendedInv => Survives
  BY DEF AttendedInv
<1> QED BY <1>1, <1>2, <1>3, ReceiverInvariant, PTL DEF Spec

-----------------------------------------------------------------------------
(***************************************************************************)
(* Receiver implements CommandService, for any number of clients that send  *)
(* any number of requests and are killed at any time.  Sending the last     *)
(* byte of a body submits its request, Parse executes it, receiving the     *)
(* response answers it, and every other step stutters.                      *)
(***************************************************************************)

(* The variables of the service, as Receiver instances them. *)
Submissions == UNION {{<<c, p>> : p \in {q \in starts[c] : Submitted(c, q)}}
                        : c \in Client}
Executions == [i \in DOMAIN handled |-> RequestOf(handled[i])]
Answers == UNION {{<<c, p>> : p \in acked[c]} : c \in Client}

LEMMA SubmissionsAre ==
  ASSUME TypeOK
  PROVE  Submissions = {r \in Client \X Nat : Submitted(r[1], r[2])}
<1>1. \A c \in Client : starts[c] \subseteq Nat
  BY DEF TypeOK
<1>2. ASSUME NEW r \in Submissions
      PROVE  r \in Client \X Nat /\ Submitted(r[1], r[2])
  <2>1. PICK c \in Client :
          r \in {<<c, p>> : p \in {q \in starts[c] : Submitted(c, q)}}
    BY <1>2 DEF Submissions
  <2>2. PICK p \in starts[c] : Submitted(c, p) /\ r = <<c, p>>
    BY <2>1
  <2> QED BY <1>1, <2>2
<1>3. ASSUME NEW r \in Client \X Nat, Submitted(r[1], r[2])
      PROVE  r \in Submissions
  <2>1. PICK c \in Client, p \in Nat : r = <<c, p>>
    BY <1>3
  <2>2. Submitted(c, p) /\ p \in starts[c]
    BY <1>3, <2>1 DEF Submitted
  <2>3. r \in {<<c, q>> : q \in {q \in starts[c] : Submitted(c, q)}}
    BY <2>1, <2>2
  <2> QED BY <2>3 DEF Submissions
<1> QED BY <1>2, <1>3

LEMMA AnswersAre ==
  ASSUME TypeOK
  PROVE  Answers = {r \in Client \X Nat : r[2] \in acked[r[1]]}
<1>1. \A c \in Client : acked[c] \subseteq Nat
  BY DEF TypeOK
<1>2. ASSUME NEW r \in Answers PROVE r \in Client \X Nat /\ r[2] \in acked[r[1]]
  <2>1. PICK c \in Client : r \in {<<c, p>> : p \in acked[c]}
    BY <1>2 DEF Answers
  <2> QED BY <1>1, <2>1
<1>3. ASSUME NEW r \in Client \X Nat, r[2] \in acked[r[1]] PROVE r \in Answers
  <2>1. PICK c \in Client, p \in Nat : r = <<c, p>>
    BY <1>3
  <2> QED BY <1>3, <2>1 DEF Answers
<1> QED BY <1>2, <1>3

(* Each entry of handled is a request of the service. *)
LEMMA ExecutionsAre ==
  ASSUME TypeOK, HandledInv
  PROVE  /\ Executions = [i \in DOMAIN handled |->
                            <<handled[i].client, handled[i].from - 2 * HeaderLen>>]
         /\ Len(Executions) = Len(handled) /\ Len(handled) \in Nat
         /\ DOMAIN Executions = 1 .. Len(handled) /\ DOMAIN handled = 1 .. Len(handled)
         /\ Executions \in Seq(Client \X Nat)
<1> DEFINE S == [client : Client, from : Nat, len : Nat]
<1>1. handled \in Seq(S)
  BY DEF TypeOK
<1>2. /\ \A i \in DOMAIN handled : handled[i] \in S
      /\ DOMAIN handled = 1 .. Len(handled) /\ Len(handled) \in Nat
  <2> HIDE DEF S
  <2> QED BY <1>1
<1>3. ASSUME NEW i \in DOMAIN handled
      PROVE  /\ RequestOf(handled[i]) =
                  <<handled[i].client, handled[i].from - 2 * HeaderLen>>
             /\ RequestOf(handled[i]) \in Client \X Nat
  <2>1. EntryInv(handled[i]) /\ handled[i].client \in Client
    BY <1>2, HandledParts
  <2>2. starts[handled[i].client] \subseteq Nat
    BY <2>1 DEF TypeOK
  <2>3. /\ handled[i].len = BodyLen
        /\ handled[i].from - 2 * HeaderLen \in starts[handled[i].client]
    BY <2>1 DEF EntryInv
  <2> QED BY <2>1, <2>2, <2>3, Zenon DEF RequestOf
<1> HIDE DEF S
<1>4. Executions = [i \in DOMAIN handled |->
                      <<handled[i].client, handled[i].from - 2 * HeaderLen>>]
  BY <1>3 DEF Executions
<1>5. Executions \in [1 .. Len(handled) -> Client \X Nat]
  BY <1>2, <1>3 DEF Executions
<1>6. Executions \in Seq(Client \X Nat)
  BY <1>2, <1>5
<1>7. Len(Executions) = Len(handled)
  BY <1>2, <1>5, <1>6
<1> QED BY <1>2, <1>4, <1>5, <1>6, <1>7

LEMMA ContainsIsHandled ==
  ASSUME TypeOK, HandledInv, NEW c \in Client, NEW p \in Nat
  PROVE  Service!Contains(Executions, <<c, p>>) <=> Handled(c, p)
<1> DEFINE S == [client : Client, from : Nat, len : Nat]
<1>1. handled \in Seq(S)
  BY DEF TypeOK
<1>2. \A i \in DOMAIN handled : handled[i] \in S
  <2> HIDE DEF S
  <2> QED BY <1>1
<1>3. ASSUME NEW i \in DOMAIN handled
      PROVE  Executions[i] = <<c, p>> <=>
             handled[i] = [client |-> c, from |-> p + 2 * HeaderLen, len |-> BodyLen]
  <2>1. EntryInv(handled[i])
    BY HandledParts
  <2>2. Executions[i] = <<handled[i].client, handled[i].from - 2 * HeaderLen>>
    BY ExecutionsAre
  <2>3. handled[i].len = BodyLen /\ handled[i] \in S
    BY <1>2, <2>1 DEF EntryInv
  <2>4. handled[i].from - 2 * HeaderLen = p <=> handled[i].from = p + 2 * HeaderLen
    BY <2>3, LengthAssumption
  <2> QED BY <2>2, <2>3, <2>4
<1>4. Service!Contains(Executions, <<c, p>>) <=>
        \E i \in 1 .. Len(Executions) : Executions[i] = <<c, p>>
  BY DEF Service!Contains
<1> QED BY <1>3, <1>4, ExecutionsAre DEF Handled

(* The same after a step. *)
LEMMA SubmissionsAfter ==
  (TypeOK => Submissions = {r \in Client \X Nat : Submitted(r[1], r[2])})'
<1>1. TypeOK => Submissions = {r \in Client \X Nat : Submitted(r[1], r[2])}
  BY SubmissionsAre
<1> QED BY <1>1, PTL

LEMMA AnswersAfter ==
  (TypeOK => Answers = {r \in Client \X Nat : r[2] \in acked[r[1]]})'
<1>1. TypeOK => Answers = {r \in Client \X Nat : r[2] \in acked[r[1]]}
  BY AnswersAre
<1> QED BY <1>1, PTL

LEMMA ExecutionsAfter ==
  (TypeOK /\ HandledInv =>
     /\ Executions = [i \in DOMAIN handled |->
                        <<handled[i].client, handled[i].from - 2 * HeaderLen>>]
     /\ Len(Executions) = Len(handled)
     /\ Executions \in Seq(Client \X Nat))'
<1>1. TypeOK /\ HandledInv =>
        /\ Executions = [i \in DOMAIN handled |->
                           <<handled[i].client, handled[i].from - 2 * HeaderLen>>]
        /\ Len(Executions) = Len(handled)
        /\ Executions \in Seq(Client \X Nat)
  BY ExecutionsAre
<1> QED BY <1>1, PTL

-----------------------------------------------------------------------------
(***************************************************************************)
(* The steps.                                                               *)
(***************************************************************************)

ServiceStep == [Service!Next]_(Service!serviceVars)

LEMMA InitOfService == Init => Service!Init
<1> SUFFICES ASSUME Init PROVE Service!Init
  OBVIOUS
<1>1. TypeOK /\ HandledInv
  BY TypeInit, HandledInit
<1>2. Submissions = {}
  <2>1. ASSUME NEW r \in Client \X Nat, Submitted(r[1], r[2]) PROVE FALSE
    <3>1. PICK c \in Client, p \in Nat : r = <<c, p>>
      BY <2>1
    <3>2. p + RequestLen <= 0
      BY <2>1, <3>1 DEF Init, Submitted
    <3> QED BY <3>2, LengthAssumption
  <2> QED BY <1>1, <2>1, SubmissionsAre
<1>3. Executions = <<>>
  BY <1>1, ExecutionsAre DEF Init
<1>4. Answers = {}
  BY DEF Init, Answers
<1> QED BY <1>2, <1>3, <1>4 DEF Service!Init, Submissions, Executions, Answers

(* What a step leaves alone if it changes none of these. *)
LEMMA Unsubmitted ==
  ASSUME TypeOK, TypeOK',
         \A c \in Client, p \in Nat : Submitted(c, p)' <=> Submitted(c, p)
  PROVE  Submissions' = Submissions
<1>1. \A r \in Client \X Nat : Submitted(r[1], r[2])' <=> Submitted(r[1], r[2])
  OBVIOUS
<1>2. Submissions' = {r \in Client \X Nat : Submitted(r[1], r[2])'}
  BY SubmissionsAfter
<1> QED BY <1>1, <1>2, SubmissionsAre

LEMMA Unexecuted ==
  ASSUME TypeOK, TypeOK', HandledInv, HandledInv', handled' = handled
  PROVE  Executions' = Executions
<1>1. Executions' = [i \in DOMAIN handled' |->
                       <<handled'[i].client, handled'[i].from - 2 * HeaderLen>>]
  BY ExecutionsAfter
<1> QED BY <1>1, ExecutionsAre

(* Nothing but the last piece of a body submits a request. *)
LEMMA SubmittedBy ==
  ASSUME TypeOK, NEW c \in Client, StreamInv(c), NEW p \in starts[c]
  PROVE  /\ Submitted(c, p) <=> p # Current(c) \/ left[c] = 0
         /\ p \in Nat /\ p <= Current(c)
<1> DEFINE at == Current(c)
<1>1. p = at \/ p + RequestLen <= at
  BY DEF StreamInv
<1>2. /\ at \in Int /\ at + RequestLen = sent[c] + left[c] /\ p \in Nat
      /\ sent[c] \in Nat /\ left[c] \in Nat /\ left[c] <= RequestLen
  BY Numbers
<1> RequestLen \in Nat /\ RequestLen > 0
  BY LengthAssumption
<1>3. Submitted(c, p) <=> p + RequestLen <= sent[c]
  BY DEF Submitted
<1> HIDE DEF at
<1>4. /\ p + RequestLen <= sent[c] <=> p # at \/ left[c] = 0
      /\ p <= at
  BY <1>1, <1>2
<1> QED BY <1>2, <1>3, <1>4 DEF at

LEMMA SubmittedAfter ==
  (TypeOK => \A c \in Client : StreamInv(c) =>
     \A p \in starts[c] : Submitted(c, p) <=> p # Current(c) \/ left[c] = 0)'
<1>1. TypeOK => \A c \in Client : StreamInv(c) =>
        \A p \in starts[c] : Submitted(c, p) <=> p # Current(c) \/ left[c] = 0
  BY SubmittedBy
<1> QED BY <1>1, PTL

LEMMA ServiceFrame ==
  ASSUME Submissions' = Submissions, Executions' = Executions, Answers' = Answers
  PROVE  ServiceStep
BY DEF ServiceStep, Service!serviceVars, Submissions, Executions, Answers

LEMMA StepOfLoop ==
  ASSUME ReceiverInv, ReceiverInv', Loop
  PROVE  ServiceStep
<1> USE DEF ReceiverInv
<1>1. \A c \in Client : starts' = starts /\ sent' = sent /\ acked' = acked
  BY LoopReads DEF clientVars
<1>2. Submissions' = Submissions
  BY <1>1, Unsubmitted DEF Submitted
<1>3. Answers' = Answers
  BY <1>1 DEF Answers
<1>4. CASE handled' = handled
  BY <1>2, <1>3, <1>4, Unexecuted, ServiceFrame
<1>5. CASE Parse /\ handled' # handled
  <2>1. PICK c \in Client : c = accept_fd
    BY <1>5, ServedClient DEF Parse, Exchanging
  <2>2. PICK at \in Nat : at = Current(c)
    BY <2>1, WholeRequest
  <2>3. /\ spc = "parse" /\ body = at + 2 * HeaderLen
        /\ read[c] = at + RequestLen
        /\ handled' = Append(handled, Message)
        /\ Message = [client |-> c, from |-> at + 2 * HeaderLen, len |-> BodyLen]
    BY <1>5, <2>1, <2>2, ParseAt
  <2>4. Submitted(c, at)
    <3>1. read[c] <= sent[c] /\ at \in starts[c]
      BY <2>1, <2>2 DEF StreamInv
    <3> QED BY <2>2, <2>3, <3>1, Numbers DEF Submitted
  <2>5. <<c, at>> \in Submissions
    BY <2>4, SubmissionsAre
  <2>6. ~Handled(c, at)
    <3> SUFFICES ASSUME Handled(c, at) PROVE FALSE
      OBVIOUS
    <3>1. PICK i \in DOMAIN handled :
            handled[i] = [client |-> c, from |-> at + 2 * HeaderLen, len |-> BodyLen]
      BY DEF Handled
    <3>2. EntryInv(handled[i])
      BY HandledParts
    <3>3. body + BodyLen <= body
      BY <2>1, <2>3, <3>1, <3>2 DEF EntryInv
    <3> QED BY <2>3, <3>3, LengthAssumption
  <2>7. ~Service!Contains(Executions, <<c, at>>)
    BY <2>6, ContainsIsHandled
  <2>8. Executions' = Append(Executions, <<c, at>>)
    <3>1. handled \in Seq([client : Client, from : Nat, len : Nat])
      BY DEF TypeOK
    <3>2. /\ DOMAIN handled = 1 .. Len(handled) /\ Len(handled) \in Nat
          /\ DOMAIN handled' = 1 .. Len(handled) + 1
          /\ handled'[Len(handled) + 1] = Message
          /\ \A i \in 1 .. Len(handled) : handled'[i] = handled[i]
      BY <2>3, <3>1, AppendElements
    <3>3. Executions' = [i \in DOMAIN handled' |->
                           <<handled'[i].client, handled'[i].from - 2 * HeaderLen>>]
      BY ExecutionsAfter
    <3>4. /\ Executions \in Seq(Client \X Nat) /\ Len(Executions) = Len(handled)
          /\ Executions' \in Seq(Client \X Nat)
          /\ Len(Executions') = Len(handled) + 1
      <4>1. Len(handled') = Len(handled) + 1
        BY <2>3, <3>1
      <4> QED BY <4>1, ExecutionsAre, ExecutionsAfter
    <3>5. \A i \in 1 .. Len(handled) : Executions'[i] = Executions[i]
      <4> TAKE i \in 1 .. Len(handled)
      <4>1. i \in DOMAIN handled /\ i \in DOMAIN handled' /\ handled'[i] = handled[i]
        BY <3>2
      <4>2. Executions[i] = <<handled[i].client, handled[i].from - 2 * HeaderLen>>
        BY <4>1, ExecutionsAre
      <4> QED BY <3>3, <4>1, <4>2
    <3>6. Executions'[Len(handled) + 1] = <<c, at>>
      BY <2>3, <3>2, <3>3, LengthAssumption
    <3>7. /\ Append(Executions, <<c, at>>) \in Seq(Client \X Nat)
          /\ Len(Append(Executions, <<c, at>>)) = Len(handled) + 1
          /\ \A i \in 1 .. Len(handled) :
               Append(Executions, <<c, at>>)[i] = Executions[i]
          /\ Append(Executions, <<c, at>>)[Len(handled) + 1] = <<c, at>>
      BY <3>4, AppendProperties
    <3>8. \A i \in 1 .. Len(Executions') :
            Executions'[i] = Append(Executions, <<c, at>>)[i]
      BY <3>2, <3>4, <3>5, <3>6, <3>7
    <3> QED BY <3>4, <3>7, <3>8, SeqEqual
  <2>9. Service!Execute(<<c, at>>)
    BY <1>2, <1>3, <2>5, <2>7, <2>8
       DEF Service!Execute, Submissions, Executions, Answers
  <2>10. <<c, at>> \in Submissions'
    BY <1>2, <2>5
  <2> QED BY <2>9, <2>10 DEF ServiceStep, Service!Next, Submissions
<1> QED BY <1>4, <1>5, LoopHandles

LEMMA StepOfClients ==
  ASSUME ReceiverInv, ReceiverInv', NEW d \in Client, ClientStep(d) \/ Killed(d)
  PROVE  ServiceStep
<1> USE DEF ReceiverInv
<1>1. Executions' = Executions
  BY ClientFrame, Unexecuted DEF loopVars
<1>2. ASSUME NEW c \in Client, c # d
      PROVE  /\ \A p : Submitted(c, p)' <=> Submitted(c, p)
             /\ acked'[c] = acked[c]
  BY <1>2, OtherClients DEF Untouched, Submitted
<1>3. CASE /\ \A p \in Nat : Submitted(d, p)' <=> Submitted(d, p)
           /\ acked'[d] = acked[d]
  <2>1. Submissions' = Submissions
    BY <1>2, <1>3, Unsubmitted
  <2>2. \A c \in Client : acked'[c] = acked[c]
    BY <1>2, <1>3
  <2>3. Answers' = Answers
    BY <2>2 DEF Answers
  <2> QED BY <1>1, <2>1, <2>3, ServiceFrame
<1>4. CASE Connect(d) \/ ReceiveEcho(d) \/ Killed(d)
  BY <1>3, <1>4, ConnectAt, ReceiveEchoAt, KilledAt DEF Submitted
<1>5. CASE Send(d)
  <2>1. PICK at \in Nat : at = Current(d)
    BY WholeRequest
  <2>2. starts'[d] = starts[d] /\ acked'[d] = acked[d] /\ left[d] > 0
    BY <1>5, SendAt DEF StreamInv
  <2>3. Current(d)' = at
    <3>1. sent'[d] + left'[d] = sent[d] + left[d]
      <4>1. \A n \in Pieces(d) : n \in Nat
        BY <2>2, PiecesFit
      <4>2. sent[d] \in Nat /\ left[d] \in Nat
        BY Numbers
      <4> QED BY <1>5, <4>1, <4>2, SendAt
    <3>2. /\ Current(d) = sent[d] + left[d] - RequestLen
          /\ Current(d)' = sent'[d] + left'[d] - RequestLen
      BY DEF Current
    <3>3. /\ sent[d] \in Nat /\ left[d] \in Nat
          /\ sent'[d] \in Nat /\ left'[d] \in Nat /\ RequestLen \in Nat
      BY LengthAssumption DEF TypeOK
    <3> HIDE DEF RequestLen
    <3> QED BY <2>1, <3>1, <3>2, <3>3
  <2>4. \A p \in starts[d] : /\ Submitted(d, p) <=> p # at
                             /\ Submitted(d, p)' <=> p # at \/ left'[d] = 0
    <3>1. \A p \in starts[d] : Submitted(d, p) <=> p # at \/ left[d] = 0
      BY <2>1, SubmittedBy
    <3>2. \A p \in starts'[d] : Submitted(d, p)' <=> p # Current(d)' \/ left'[d] = 0
      BY SubmittedAfter
    <3> QED BY <2>2, <2>3, <3>1, <3>2
  <2>5. CASE left'[d] # 0
    <3>1. \A p \in Nat : Submitted(d, p)' <=> Submitted(d, p)
      BY <2>2, <2>4, <2>5 DEF Submitted
    <3> QED BY <1>3, <2>2, <3>1
  <2>6. CASE left'[d] = 0
    <3>1. at \in starts[d]
      BY <2>1 DEF StreamInv
    <3>2. \A p \in Nat : Submitted(d, p)' <=> Submitted(d, p) \/ p = at
      BY <2>2, <2>4, <2>6, <3>1 DEF Submitted
    <3>3. <<d, at>> \notin Submissions
      BY <2>4, <3>1, SubmissionsAre
    <3>4. Submissions' = Submissions \cup {<<d, at>>}
      <4>1. Submissions' = {r \in Client \X Nat : Submitted(r[1], r[2])'}
        BY SubmissionsAfter
      <4>2. \A r \in Client \X Nat :
              Submitted(r[1], r[2])' <=> Submitted(r[1], r[2]) \/ r = <<d, at>>
        <5> SUFFICES ASSUME NEW c \in Client, NEW p \in Nat
                     PROVE  Submitted(c, p)' <=> Submitted(c, p) \/ <<c, p>> = <<d, at>>
          OBVIOUS
        <5> QED BY <1>2, <3>2
      <4> QED BY <4>1, <4>2, SubmissionsAre
    <3>5. \A c \in Client : acked'[c] = acked[c]
      BY <1>2, <2>2
    <3>6. Answers' = Answers
      BY <3>5 DEF Answers
    <3>7. Service!Submit(<<d, at>>)
      BY <1>1, <3>3, <3>4, <3>6
         DEF Service!Submit, Submissions, Executions, Answers
    <3> QED BY <3>4, <3>7 DEF ServiceStep, Service!Next, Submissions
  <2> QED BY <2>5, <2>6
<1>6. CASE ReceiveResponse(d)
  <2>1. PICK at \in Nat : at = Current(d)
    BY WholeRequest
  <2>2. /\ cpc[d] = "response" /\ sent'[d] = sent[d]
        /\ starts'[d] = starts[d] \/ starts'[d] = starts[d] \cup {sent[d]}
        /\ acked'[d] = IF echoed[d] /\ Reply(d) = "0" THEN acked[d] \cup {at}
                                                     ELSE acked[d]
    BY <1>6, <2>1, ReceiveResponseAt
  <2>3. \A p \in Nat : Submitted(d, p)' <=> Submitted(d, p)
    <3>1. ~(sent[d] + RequestLen <= sent[d])
      <4>1. sent[d] \in Nat
        BY Numbers
      <4> QED BY <4>1, LengthAssumption
    <3> QED BY <2>2, <3>1 DEF Submitted
  <2>4. Submissions' = Submissions
    BY <1>2, <2>3, Unsubmitted
  <2>5. CASE acked'[d] = acked[d]
    BY <1>3, <2>3, <2>5
  <2>6. CASE acked'[d] # acked[d]
    <3>1. acked'[d] = acked[d] \cup {at} /\ at \notin acked[d]
      BY <2>2, <2>6
    <3>2. Handled(d, at)
      <4>1. Handled(d, at)'
        BY <3>1 DEF HandledInv
      <4> QED BY <4>1, ClientFrame DEF Handled, loopVars
    <3>3. Service!Contains(Executions, <<d, at>>)
      BY <3>2, ContainsIsHandled
    <3>4. <<d, at>> \in Submissions
      <4>1. at \in starts[d] /\ left[d] = 0
        BY <2>1, <2>2 DEF StreamInv
      <4>2. Submitted(d, at)
        BY <4>1, SubmittedBy
      <4> QED BY <4>2, SubmissionsAre
    <3>5. <<d, at>> \notin Answers
      BY <3>1, AnswersAre
    <3>6. Answers' = Answers \cup {<<d, at>>}
      <4>1. Answers' = {r \in Client \X Nat : r[2] \in acked'[r[1]]}
        BY AnswersAfter
      <4>2. \A r \in Client \X Nat :
              r[2] \in acked'[r[1]] <=> r[2] \in acked[r[1]] \/ r = <<d, at>>
        <5> SUFFICES ASSUME NEW c \in Client, NEW p \in Nat
                     PROVE  p \in acked'[c] <=> p \in acked[c] \/ <<c, p>> = <<d, at>>
          OBVIOUS
        <5> QED BY <1>2, <3>1
      <4> QED BY <4>1, <4>2, AnswersAre
    <3>7. Service!Answer(<<d, at>>)
      BY <1>1, <2>4, <3>3, <3>5, <3>6
         DEF Service!Answer, Submissions, Executions, Answers
    <3> QED BY <2>4, <3>4, <3>7 DEF ServiceStep, Service!Next, Submissions
  <2> QED BY <2>5, <2>6
<1> QED BY <1>4, <1>5, <1>6 DEF ClientStep

LEMMA StepOfService ==
  ASSUME ReceiverInv, ReceiverInv', [Next]_vars
  PROVE  ServiceStep
<1>1. CASE (\E e \in Event : EventArrives(e)) \/ UNCHANGED vars
  <2>1. UNCHANGED <<starts, sent, handled, acked>>
    BY <1>1 DEF EventArrives, vars, clientVars, loopVars
  <2>2. Submissions' = Submissions
    BY <2>1, Unsubmitted DEF ReceiverInv, Submitted
  <2>3. Executions' = Executions
    BY <2>1, Unexecuted DEF ReceiverInv
  <2>4. Answers' = Answers
    BY <2>1 DEF Answers
  <2> QED BY <2>2, <2>3, <2>4, ServiceFrame
<1> QED BY <1>1, StepOfLoop, StepOfClients DEF Next

(* The clients and the loop together are a command service: no command is   *)
(* executed twice, none before it was sent as a whole, and no client is     *)
(* told that a command is done before it was executed.                      *)
THEOREM ServiceImplemented == Spec => ImplementsService
<1>1. Init => Service!Init
  BY InitOfService
<1>2. ReceiverInv /\ ReceiverInv' /\ [Next]_vars => [Service!Next]_(Service!serviceVars)
  BY StepOfService DEF ServiceStep
<1>3. Spec => []ReceiverInv
  BY ReceiverInvariant
<1> QED BY <1>1, <1>2, <1>3, PTL DEF Spec, ImplementsService, Service!Spec

=============================================================================
