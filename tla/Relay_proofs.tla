---------------------------- MODULE Relay_proofs ----------------------------
(* Theorems about Relay, for every set of clients and every bound. *)
EXTENDS Relay, SequenceTheorems, TLAPS

----------------------------------------------------------------------------
(* The inductive invariant *)

In(c, q) == \E i \in 1..Len(q) : q[i] = c
NoDup(q) == \A i, j \in 1..Len(q) : q[i] = q[j] => i = j

Opening == {"called", "minted", "acked", "replay"}

\* Where a client is, told by its connections.
ClientPlace(c) ==
    /\ cpc[c] = "ready" <=> conn[c] = 0
    /\ cpc[c] \in {"ingest", "notify", "record", "lookup", "send"} => conn[c] = 1
    /\ cpc[c] = "poll" => conn[c] > 1
    /\ cpc[c] = "broken" => handler[Cur(c)] \in {"draining", "closed"}

\* Where the client of a stream is, that a stream is in the table from its minting
\* until it is unregistered, and that its channel is empty without a receiver.
StreamPlace(s) ==
    /\ handler[s] = "none" <=> s[2] > conn[s[1]]
    /\ handler[s] \in Opening => s[2] = conn[s[1]] /\ cpc[s[1]] = "opening"
    /\ handler[s] = "serving" => s[2] = conn[s[1]]
    /\ s \in reg <=> handler[s] \in {"minted", "acked", "replay", "serving", "leaked",
                                     "draining"}
    /\ ~Receiving(s) => queue[s] = <<>>

Places ==
    /\ \A c \in Clients : ClientPlace(c)
    /\ \A s \in Streams : StreamPlace(s)
    /\ fanLeft \subseteq reg

\* The client's message has not been given to the bus.
Unsent(c) ==
    cpc[c] \in {"ready", "ingest", "notify"} \/ (cpc[c] = "opening" /\ conn[c] = 1)

\* A message is in one place, and until its turn has run there is no outcome.
LineOf(c) ==
    /\ Unsent(c) => /\ ~In(c, bus) /\ ~In(c, wire) /\ turn # c
                    /\ outcome[c] = "none" /\ record[c] = "none"
                    /\ sent[c] = 0 /\ got[c] = 0
    /\ In(c, bus) => ~In(c, wire) /\ turn # c /\ outcome[c] = "none" /\ sent[c] = 0
    /\ In(c, wire) => turn # c /\ outcome[c] = "none" /\ sent[c] = 0
    /\ c \in over => turn # c /\ outcome[c] \in Terminal

\* What the message loop does has a turn, and the turn has its outcome at the end.
Loop ==
    /\ hpc \in {"unsubscribed", "wait"} <=> turn = None
    /\ hpc \in {"start", "run"} => outcome[turn] = "none"
    /\ hpc \in {"reply", "outcome", "fan", "end"} => outcome[turn] \in Terminal

Line == NoDup(bus) /\ NoDup(wire) /\ Loop /\ \A c \in Clients : LineOf(c)

\* A terminal state that a frame gives a conversation is how its turn ended.
FrameTrue(f) ==
    f.kind = "turn" /\ f.conv \in Clients /\ f.state \in Terminal => f.state = outcome[f.conv]

\* The client has the ack of its ingest, or its ingest has recorded WORKING.
Recorded(c) ==
    cpc[c] \in {"lookup", "send", "listen", "broken", "poll"}
    \/ (cpc[c] = "opening" /\ conn[c] > 1)

\* The record of a conversation, and what its client was told; the record is there
\* from the ingest on.
RecordTrue(c) ==
    /\ record[c] \in Terminal => record[c] = outcome[c]
    /\ Recorded(c) => record[c] # "none" \/ c \in forgotten
    /\ cpc[c] \in Terminal => outcome[c] = cpc[c] \/ c \in forgotten

\* Frames and records tell the truth.
Truth ==
    /\ \A s \in Streams : \A i \in 1..Len(queue[s]) : FrameTrue(queue[s][i])
    /\ fanLeft # {} => FrameTrue(fanFrame)
    /\ \A c \in Clients : RecordTrue(c)

Closed(c) == c \in over \/ (turn = c /\ hpc = "end")
Closing(c) == Closed(c) \/ (turn = c /\ hpc = "fan")

\* The end of the turn is in the client's channel, or a delivery under way brings it.
EndAhead(c) ==
    \/ In(Frame("turn", c, outcome[c]), queue[Cur(c)])
    \/ turn = c /\ hpc = "end" /\ Cur(c) \in fanLeft

\* The client listens, or is about to, on a stream that is served.
Waiting(c) ==
    handler[Cur(c)] = "serving" /\ cpc[c] \in {"record", "lookup", "send", "listen"}

\* Once the outcome is recorded WORKING is not, unless it was recorded later; and a
\* client that listens then has the end of its turn ahead of it.
EndsOf(c) ==
    /\ Closing(c) /\ c \notin overtaken => record[c] # "working"
    /\ Closing(c) /\ cpc[c] = "record" => record[c] \in Terminal
    /\ Closed(c) /\ c \notin overtaken /\ Waiting(c) => EndAhead(c)

\* What is delivered, told by where the message loop is.
Delivery ==
    /\ hpc = "end" /\ fanLeft # {} => fanFrame = Frame("turn", turn, outcome[turn])
    /\ fanLeft # {} => hpc \in {"run", "outcome", "end"}
    /\ fanLeft # {} /\ fanFrame.kind = "item" => hpc = "run" /\ fanFrame.conv = turn

Ends == Delivery /\ \A c \in Clients : EndsOf(c)

Item(c) == Frame("item", c, "none")
IsItem(c, f) == f.kind = "item" /\ f.conv = c

\* Items of the turn that are on their way to the client's stream.
Due(c) == fanFrame.kind = "item" /\ fanFrame.conv = c /\ Cur(c) \in fanLeft
Arrived(c) == IF Due(c) THEN sent[c] - 1 ELSE sent[c]

\* No item of the turn was lost with the harness.
Whole(c) == sent[c] = 0 \/ turn = c \/ outcome[c] # "none"

\* The client is on its first stream and is to be given every item.
All(c) == conn[c] = 1 /\ Receiving(Cur(c)) /\ Whole(c)

\* g numbers the items of c's turn in q, in their order and above lo, up to hi, with
\* none missing if all is set.
Numbers(c, q, lo, hi, all, g) ==
    /\ \A i \in 1..Len(q) : IsItem(c, q[i]) => lo < g[i] /\ g[i] <= hi
    /\ \A i, j \in 1..Len(q) : i < j /\ IsItem(c, q[i]) /\ IsItem(c, q[j]) => g[i] < g[j]
    /\ all => \A n \in (lo + 1)..hi : \E i \in 1..Len(q) : IsItem(c, q[i]) /\ g[i] = n

Numbered(c, q, lo, hi, all) == \E g \in [1..Len(q) -> Nat] : Numbers(c, q, lo, hi, all, g)

\* f ends c's turn.
IsEnd(c, f) == f.kind = "turn" /\ f.conv = c /\ f.state \in Terminal

\* The end of the turn comes after the turn's items.
EndLast(c, q) ==
    \A i, j \in 1..Len(q) : i < j /\ IsEnd(c, q[i]) => ~IsItem(c, q[j])

\* What a client was given and what is ahead of it are the items of its turn.
ItemsOf(c) ==
    /\ got[c] <= Arrived(c)
    /\ conn[c] > 0 => /\ EndLast(c, queue[Cur(c)])
                      /\ Numbered(c, queue[Cur(c)], got[c], Arrived(c), All(c))
    /\ cpc[c] = "idle" /\ conn[c] = 1 => got[c] = sent[c] /\ outcome[c] = "idle"

Items == \A c \in Clients : ItemsOf(c)

Inv == TypeOK /\ Places /\ Line /\ Truth /\ Ends /\ Items

----------------------------------------------------------------------------
(* Operators of the model *)

\* A stream is a client with the number of one of its connections.
LEMMA StreamIs ==
    ASSUME NEW s
    PROVE  s \in Streams <=> /\ s = <<s[1], s[2]>> /\ s[1] \in Clients
                             /\ s[2] \in 1..MaxConnects[s[1]]
  BY DEF Streams

\* The current stream of a client that has opened one.
LEMMA CurIs ==
    ASSUME TypeOK, NEW c \in Clients, conn[c] > 0
    PROVE  Cur(c) \in Streams /\ Cur(c)[1] = c /\ Cur(c)[2] = conn[c]
  <1>1. /\ conn[c] \in 1..MaxConnects[c]
    BY BoundsAssumption DEF TypeOK
  <1> QED BY <1>1, StreamIs DEF Cur

\* The frames the model sends are frames.
LEMMA FrameIs ==
    ASSUME NEW k \in {"ack", "turn", "item", "reply"}, NEW c \in Clients \cup {None},
           NEW s \in Terminal \cup {"none", "working"}
    PROVE  Frame(k, c, s) \in Frames /\ AckFrame \in Frames
  BY DEF Frame, Frames, AckFrame

\* What a frame's fields are.
LEMMA FrameFields ==
    ASSUME NEW k, NEW c, NEW s
    PROVE  /\ Frame(k, c, s).kind = k /\ Frame(k, c, s).conv = c /\ Frame(k, c, s).state = s
           /\ AckFrame.kind = "ack"
  BY DEF Frame, AckFrame

----------------------------------------------------------------------------
(* Types *)

\* The steps of a client keep the types; what is left open is that it reads no more
\* items than were sent.
LEMMA ClientTypes ==
    ASSUME TypeOK, NEW c \in Clients, ClientNext(c),
           HandleFrame(c) => got' \in [Clients -> 0..MaxItems]
    PROVE  TypeOK'
  <1>e. ASSUME Exit(c)
        PROVE  /\ handler' \in [Streams -> {"none", "called", "minted", "acked", "replay",
                                            "serving", "leaked", "draining", "closed"}]
               /\ queue' \in [Streams -> Seq(Frames)] /\ \A s \in Streams : Len(queue'[s]) <= Cap
    <2>1. \A s \in Streams : handler'[s] \in {"none", "called", "minted", "acked", "replay",
                                             "serving", "leaked", "draining", "closed"}
      BY <1>e DEF TypeOK, Exit
    <2>2. DOMAIN handler' = Streams /\ handler' = [s \in Streams |-> handler'[s]]
      BY <1>e DEF TypeOK, Exit
    <2>3. \A s \in Streams : queue'[s] \in Seq(Frames) /\ Len(queue'[s]) <= Cap
      BY <1>e, CapAssumption DEF TypeOK, Exit
    <2>4. queue' = [s \in Streams |-> queue'[s]]
      BY <1>e DEF TypeOK, Exit
    <2> QED BY <2>1, <2>2, <2>3, <2>4
  <1>p. ASSUME NEW s \in Streams, Pop(s), queue[s] # <<>>
        PROVE  queue' \in [Streams -> Seq(Frames)] /\ \A t \in Streams : Len(queue'[t]) <= Cap
    BY <1>p, CapAssumption DEF TypeOK, Pop
  <1>f. faults + 1 \in 0..MaxFaults \/ ~Fault
    BY BoundsAssumption DEF TypeOK, Fault
  <1>1. CASE Open(c)
    <2>1. conn' \in [Clients -> Nat] /\ \A d \in Clients : conn'[d] <= MaxConnects[d]
      <3>1. /\ conn \in [Clients -> Nat] /\ MaxConnects \in [Clients -> Nat]
            /\ conn' = [conn EXCEPT ![c] = conn[c] + 1] /\ conn[c] < MaxConnects[c]
        BY <1>1, BoundsAssumption DEF Open, TypeOK
      <3>2. conn' \in [Clients -> Nat]
        BY <3>1
      <3>3. ASSUME NEW d \in Clients PROVE conn'[d] <= MaxConnects[d]
        <4>1. CASE d = c
          BY <4>1, <3>1
        <4>2. CASE d # c
          BY <4>2, <3>1 DEF TypeOK
        <4> QED BY <4>1, <4>2
      <3> QED BY <3>2, <3>3
    <2>2. handler' \in [Streams -> {"none", "called", "minted", "acked", "replay",
                                    "serving", "leaked", "draining", "closed"}]
      <3> DEFINE t == <<c, conn[c] + 1>>
      <3>1. handler' = [handler EXCEPT ![t] = "called"]
        BY <1>1 DEF Open
      <3> HIDE DEF t
      <3> QED BY <3>1 DEF TypeOK
    <2> QED BY <1>1, <2>1, <2>2 DEF Open, TypeOK, fanVars, busVars, harnessVars, historyVars
  <1>2. CASE Refused(c)
    BY <1>2, <1>e, <1>f DEF Refused, Fault, TypeOK, fanVars, busVars, harnessVars, historyVars
  <1>3. CASE Admit(c)
    BY <1>3, <1>e DEF Admit, TypeOK, fanVars, busVars, harnessVars, historyVars
  <1>4. CASE Notify(c)
    <2>1. bus' \in Seq(Clients) /\ Len(bus') <= BusCap
      <3>1. bus \in Seq(Clients) /\ Len(bus) <= BusCap /\ BusCap \in Nat \ {0}
        BY CapAssumption DEF TypeOK
      <3>2. CASE bus' = bus
        BY <3>1, <3>2
      <3>3. CASE Len(bus) = BusCap /\ bus' = Append(Tail(bus), c)
        <4>1. Tail(bus) \in Seq(Clients) /\ Len(Tail(bus)) = Len(bus) - 1
          BY <3>1, <3>3
        <4> QED BY <4>1, <3>1, <3>3
      <3>4. CASE Len(bus) # BusCap /\ bus' = Append(bus, c)
        BY <3>1, <3>4
      <3> QED BY <1>4, <3>2, <3>3, <3>4 DEF Notify
    <2> QED BY <1>4, <2>1 DEF Notify, TypeOK, streamVars, fanVars, harnessVars, historyVars
  <1>5. CASE RecordWorking(c)
    BY <1>5 DEF RecordWorking, TypeOK, streamVars, fanVars, busVars, harnessVars
  <1>6. CASE SetPhase(c)
    BY <1>6 DEF SetPhase, TypeOK, fanVars, busVars, harnessVars, historyVars
  <1>7. CASE SendWorking(c)
    <2>1. Frame("turn", c, "working") \in Frames
      BY FrameIs
    <2>2. queue' \in [Streams -> Seq(Frames)] /\ \A t \in Streams : Len(queue'[t]) <= Cap
      <3>1. CASE queue' = queue
        BY <3>1 DEF TypeOK
      <3>2. CASE Cur(c) \notin Streams /\ Push(Cur(c), Frame("turn", c, "working"))
        BY <3>2 DEF Push, TypeOK
      <3>3. CASE Cur(c) \in Streams /\ Room(Cur(c)) /\ Push(Cur(c), Frame("turn", c, "working"))
        BY <3>3, <2>1, CapAssumption DEF Push, Room, TypeOK
      <3> QED BY <1>7, <3>1, <3>2, <3>3 DEF SendWorking
    <2> QED BY <1>7, <2>2 DEF SendWorking, TypeOK, fanVars, busVars, harnessVars, historyVars
  <1>8. CASE IngestDropped(c)
    BY <1>8, <1>e, <1>f DEF IngestDropped, Fault, TypeOK, fanVars, busVars, harnessVars,
                            historyVars
  <1>9. CASE ReadAck(c)
    <2>1. /\ handler' \in [Streams -> {"none", "called", "minted", "acked", "replay",
                                       "serving", "leaked", "draining", "closed"}]
          /\ queue' \in [Streams -> Seq(Frames)] /\ \A s \in Streams : Len(queue'[s]) <= Cap
      <3>1. CASE Exit(c) BY <3>1, <1>e
      <3>2. CASE Pop(Cur(c)) /\ Cur(c) \in Streams
        BY <3>2, <1>p, <1>9 DEF ReadAck, Pop, TypeOK
      <3>3. CASE Pop(Cur(c)) /\ Cur(c) \notin Streams
        BY <3>3, <1>9 DEF Pop, TypeOK
      <3> QED BY <1>9, <3>1, <3>2, <3>3 DEF ReadAck
    <2> QED BY <1>9, <2>1 DEF ReadAck, TypeOK, fanVars, busVars, harnessVars, historyVars
  <1>10. CASE GetTurnState(c)
    <2>1. record[c] = "working" \/ (IF record[c] = "none" THEN "idle" ELSE record[c]) \in Terminal
      BY DEF TypeOK, Terminal
    <2> QED BY <1>10, <1>e, <2>1 DEF GetTurnState, TypeOK, fanVars, busVars, harnessVars,
                                     historyVars
  <1>11. CASE HandleFrame(c)
    <2>1. /\ handler' \in [Streams -> {"none", "called", "minted", "acked", "replay",
                                       "serving", "leaked", "draining", "closed"}]
          /\ queue' \in [Streams -> Seq(Frames)] /\ \A s \in Streams : Len(queue'[s]) <= Cap
      <3>1. CASE Exit(c) BY <3>1, <1>e
      <3>2. CASE Pop(Cur(c)) /\ Cur(c) \in Streams
        BY <3>2, <1>p, <1>11 DEF HandleFrame, Pop, TypeOK
      <3>3. CASE Pop(Cur(c)) /\ Cur(c) \notin Streams
        BY <3>3, <1>11 DEF Pop, TypeOK
      <3> QED BY <1>11, <3>1, <3>2, <3>3 DEF HandleFrame
    <2>2. got' \in [Clients -> 0..MaxItems]
      BY <1>11
    <2> QED BY <1>11, <2>1, <2>2 DEF HandleFrame, TypeOK, fanVars, busVars, harnessVars,
                                     historyVars
  <1>12. CASE NoticeEnd(c)
    BY <1>12 DEF NoticeEnd, TypeOK, streamVars, fanVars, busVars, harnessVars, historyVars
  <1> QED
    BY <1>1, <1>2, <1>3, <1>4, <1>5, <1>6, <1>7, <1>8, <1>9, <1>10, <1>11, <1>12 DEF ClientNext

\* The steps of a stream keep the types.
LEMMA StreamTypes ==
    ASSUME TypeOK, NEW s \in Streams, StreamNext(s)
    PROVE  TypeOK'
  <1>a. s[1] \in Clients
    BY StreamIs
  <1>p. ASSUME NEW f \in Frames, Push(s, f), Room(s)
        PROVE  queue' \in [Streams -> Seq(Frames)] /\ \A t \in Streams : Len(queue'[t]) <= Cap
    BY <1>p, CapAssumption DEF TypeOK, Push, Room
  <1>e. ASSUME queue' = [queue EXCEPT ![s] = <<>>]
        PROVE  queue' \in [Streams -> Seq(Frames)] /\ \A t \in Streams : Len(queue'[t]) <= Cap
    BY <1>e, CapAssumption DEF TypeOK
  <1>f. faults + 1 \in 0..MaxFaults \/ ~Fault
    BY BoundsAssumption DEF TypeOK, Fault
  <1>1. CASE MintChannelStream(s)
    BY <1>1 DEF MintChannelStream, TypeOK, clientVars, fanVars, busVars, harnessVars, historyVars
  <1>2. CASE SendAck(s)
    <2>1. AckFrame \in Frames
      BY DEF AckFrame, Frame, Frames
    <2> QED BY <1>2, <1>p, <2>1 DEF SendAck, TypeOK, clientVars, fanVars, busVars, harnessVars,
                                    historyVars
  <1>3. CASE BeginReplay(s)
    BY <1>3 DEF BeginReplay, TypeOK, clientVars, fanVars, busVars, harnessVars, historyVars
  <1>4. CASE ReplayTurnState(s)
    <2>1. Frame("turn", None, phase[s]) \in Frames
      BY FrameIs DEF TypeOK, Terminal
    <2> QED BY <1>4, <1>p, <2>1 DEF ReplayTurnState, TypeOK, clientVars, fanVars, busVars,
                                    harnessVars, historyVars
  <1>5. CASE Abandon(s)
    BY <1>5, <1>a, <1>e, <1>f DEF Abandon, Fault, TypeOK, fanVars, busVars, harnessVars,
                                  historyVars
  <1>6. CASE StreamEnds(s)
    BY <1>6, <1>e DEF StreamEnds, TypeOK, clientVars, fanVars, busVars, harnessVars, historyVars
  <1>7. CASE UnregisterChannelStream(s)
    BY <1>7 DEF UnregisterChannelStream, TypeOK, clientVars, fanVars, busVars, harnessVars,
                historyVars
  <1>8. CASE SendToStream(s)
    <2>1. AckFrame \in Frames /\ fanFrame \in Frames
      BY DEF AckFrame, Frame, Frames, TypeOK
    <2>2. queue' \in [Streams -> Seq(Frames)] /\ \A t \in Streams : Len(queue'[t]) <= Cap
      BY <1>8, <1>p, <2>1 DEF SendToStream, TypeOK
    <2> QED BY <1>8, <2>1, <2>2 DEF SendToStream, TypeOK, clientVars, busVars, harnessVars,
                                    historyVars
  <1> QED BY <1>1, <1>2, <1>3, <1>4, <1>5, <1>6, <1>7, <1>8 DEF StreamNext

\* The steps of the harness keep the types.
LEMMA HarnessTypes ==
    ASSUME TypeOK, Line, HarnessNext
    PROVE  TypeOK'
  <1>t. hpc \notin {"unsubscribed", "wait"} => turn \in Clients
    BY DEF TypeOK, Line, Loop
  <1>f. ASSUME NEW f \in Frames, FanOut(f)
        PROVE  fanFrame' \in Frames /\ fanLeft' \subseteq Streams
    <2>1. AckFrame \in Frames
      BY DEF AckFrame, Frame, Frames
    <2> QED BY <1>f, <2>1 DEF TypeOK, FanOut
  <1>1. CASE Subscribe
    BY <1>1, CapAssumption DEF Subscribe, TypeOK, clientVars, streamVars, fanVars, historyVars
  <1>2. CASE Forward
    <2>1. /\ bus' \in Seq(Clients) /\ Len(bus') <= BusCap
          /\ wire' \in Seq(Clients) /\ Len(wire') <= BusCap
      BY <1>2, CapAssumption DEF Forward, TypeOK
    <2> QED BY <1>2, <2>1 DEF Forward, TypeOK, clientVars, streamVars, fanVars, harnessVars,
                              historyVars
  <1>3. CASE ForwarderEnds
    <2>1. bus' \in Seq(Clients) /\ Len(bus') <= BusCap
      BY <1>3, CapAssumption DEF ForwarderEnds
    <2> QED BY <1>3, <2>1 DEF ForwarderEnds, TypeOK, clientVars, streamVars, fanVars,
                              harnessVars, historyVars
  <1>4. CASE SubscriptionClosed
    BY <1>4 DEF SubscriptionClosed, TypeOK, clientVars, streamVars, fanVars, busVars, historyVars
  <1>5. CASE NextMessage
    <2>1. wire' \in Seq(Clients) /\ Len(wire') <= BusCap /\ turn' \in Clients
      BY <1>5, CapAssumption DEF NextMessage, TypeOK
    <2> QED BY <1>5, <2>1 DEF NextMessage, TypeOK, clientVars, streamVars, fanVars, historyVars
  <1>6. CASE DeliverStart
    <2>1. Frame("turn", turn, "working") \in Frames
      BY <1>t, <1>6, FrameIs DEF DeliverStart
    <2>2. fanFrame' \in Frames /\ fanLeft' \subseteq Streams
      BY <1>6, <1>f, <2>1 DEF DeliverStart
    <2> QED BY <1>6, <2>2 DEF DeliverStart, TypeOK, clientVars, streamVars, busVars, historyVars
  <1>7. CASE DeliverStreamItem
    <2>1. Frame("item", turn, "none") \in Frames
      BY <1>t, <1>7, FrameIs DEF DeliverStreamItem
    <2>2. fanFrame' \in Frames /\ fanLeft' \subseteq Streams
      BY <1>7, <1>f, <2>1 DEF DeliverStreamItem
    <2>3. sent' \in [Clients -> 0..MaxItems]
      BY <1>t, <1>7, BoundsAssumption DEF DeliverStreamItem, TypeOK
    <2> QED BY <1>7, <2>2, <2>3 DEF DeliverStreamItem, TypeOK, clientVars, streamVars, busVars,
                                    historyVars
  <1>8. ASSUME NEW o \in Outcomes, LoopReturns(o) PROVE TypeOK'
    <2>1. outcome' \in [Clients -> {"none"} \cup Terminal]
      BY <1>8, <1>t, OutcomesAssumption DEF LoopReturns, TypeOK
    <2> QED BY <1>8, <2>1 DEF LoopReturns, TypeOK, clientVars, streamVars, fanVars, busVars,
                              historyVars
  <1>9. CASE DeliverReply
    <2>1. Frame("reply", turn, "none") \in Frames
      BY <1>t, <1>9, FrameIs DEF DeliverReply
    <2>2. fanFrame' \in Frames /\ fanLeft' \subseteq Streams
      BY <1>9, <1>f, <2>1 DEF DeliverReply
    <2> QED BY <1>9, <2>2 DEF DeliverReply, TypeOK, clientVars, streamVars, busVars, historyVars
  <1>10. CASE RecordOutcome
    <2>1. record' \in [Clients -> {"none", "working"} \cup Terminal]
      BY <1>10, <1>t DEF RecordOutcome, TypeOK
    <2> QED BY <1>10, <2>1 DEF RecordOutcome, TypeOK, clientVars, streamVars, fanVars, busVars,
                               historyVars
  <1>11. CASE DeliverTurnState
    <2>1. Frame("turn", turn, outcome[turn]) \in Frames
      BY <1>t, <1>11, FrameIs DEF DeliverTurnState, TypeOK
    <2>2. fanFrame' \in Frames /\ fanLeft' \subseteq Streams
      BY <1>11, <1>f, <2>1 DEF DeliverTurnState
    <2> QED BY <1>11, <2>2 DEF DeliverTurnState, TypeOK, clientVars, streamVars, busVars,
                               historyVars
  <1>12. CASE TurnEnds
    BY <1>12, <1>t DEF TurnEnds, TypeOK, clientVars, streamVars, fanVars, busVars, historyVars
  <1> QED
    BY <1>1, <1>2, <1>3, <1>4, <1>5, <1>6, <1>7, <1>8, <1>9, <1>10, <1>11, <1>12 DEF HarnessNext

\* The faults keep the types.
LEMMA FaultTypes ==
    ASSUME TypeOK, FaultNext
    PROVE  TypeOK'
  <1>f. faults + 1 \in 0..MaxFaults \/ ~Fault
    BY BoundsAssumption DEF TypeOK, Fault
  <1>a. AckFrame \in Frames
    BY DEF AckFrame, Frame, Frames
  <1>1. CASE DeliveryFails
    BY <1>1, <1>f DEF DeliveryFails, Fault, TypeOK, clientVars, streamVars, fanVars, busVars,
                      historyVars
  <1>2. CASE HarnessRestart
    BY <1>2, <1>f, <1>a, CapAssumption DEF HarnessRestart, Fault, TypeOK, clientVars, streamVars,
                                           historyVars
  <1>3. CASE SubscriptionBreaks
    BY <1>3, <1>f, CapAssumption DEF SubscriptionBreaks, Fault, TypeOK, clientVars, streamVars,
                                     fanVars, harnessVars, historyVars
  <1>4. CASE RelayRestart
    <2>1. /\ queue' \in [Streams -> Seq(Frames)] /\ \A s \in Streams : Len(queue'[s]) <= Cap
          /\ bus' \in Seq(Clients) /\ Len(bus') <= BusCap
          /\ wire' \in Seq(Clients) /\ Len(wire') <= BusCap
      BY <1>4, CapAssumption DEF RelayRestart
    <2>2. cpc' \in [Clients -> {"ready", "broken", "opening", "ingest", "notify", "record",
                                "lookup", "send", "poll", "listen", "error"} \cup Terminal]
      BY <1>4 DEF RelayRestart, TypeOK
    <2> QED BY <1>4, <1>f, <1>a, <2>1, <2>2 DEF RelayRestart, Fault, TypeOK
  <1> QED BY <1>1, <1>2, <1>3, <1>4 DEF FaultNext

----------------------------------------------------------------------------
(* Clients, streams and the table *)

\* Streams by their client and their number.
LEMMA StreamPairs ==
    ASSUME TypeOK
    PROVE  /\ \A s \in Streams : s[1] \in Clients /\ s[2] \in Nat \ {0}
           /\ \A s, t \in Streams : s[1] = t[1] /\ s[2] = t[2] => s = t
           /\ \A c \in Clients : conn[c] \in Nat
           /\ \A c \in Clients : conn[c] > 0 =>
                 Cur(c) \in Streams /\ Cur(c)[1] = c /\ Cur(c)[2] = conn[c]
  <1>1. \A s \in Streams : s[1] \in Clients /\ s[2] \in Nat \ {0}
    BY StreamIs, BoundsAssumption
  <1>2. \A s, t \in Streams : s[1] = t[1] /\ s[2] = t[2] => s = t
    BY StreamIs
  <1>3. \A c \in Clients : conn[c] \in Nat
    BY DEF TypeOK
  <1> QED BY <1>1, <1>2, <1>3, CurIs

\* A client that goes: its stream, if it is served, starts its drain.
LEMMA ExitPlaces ==
    ASSUME TypeOK, Places, NEW c \in Clients, Exit(c), conn[c] > 0,
           NEW p \in {"error"} \cup Terminal, cpc' = [cpc EXCEPT ![c] = p],
           cpc[c] # "opening" \/ handler[Cur(c)] \in {"called", "serving"},
           UNCHANGED <<conn, reg, fanLeft>>
    PROVE  Places'
  <1> DEFINE u == Cur(c)
  <1>s. /\ \A s \in Streams : s[1] \in Clients /\ s[2] \in Nat \ {0}
        /\ \A s, t \in Streams : s[1] = t[1] /\ s[2] = t[2] => s = t
        /\ \A d \in Clients : conn[d] \in Nat
        /\ u \in Streams /\ u[1] = c /\ u[2] = conn[c]
    BY StreamPairs
  <1>u. /\ handler'[u] = (CASE handler[u] = "serving" -> "draining"
                            [] handler[u] = "called" -> "closed" [] OTHER -> handler[u])
        /\ queue'[u] = <<>>
        /\ \A t \in Streams : t # u => handler'[t] = handler[t] /\ queue'[t] = queue[t]
    BY <1>s DEF Exit, TypeOK
  <1>p. /\ cpc'[c] = p /\ p \notin {"ready", "broken", "opening", "ingest", "notify", "record",
                                     "lookup", "send", "poll", "listen"}
        /\ \A d \in Clients : d # c => cpc'[d] = cpc[d]
    BY DEF TypeOK, Terminal
  <1>v. \A d \in Clients \ {c} : Cur(d) # u
    BY DEF Cur
  <1>1. ASSUME NEW d \in Clients PROVE ClientPlace(d)'
    <2>1. CASE d = c
      BY <2>1, <1>p, <1>s DEF Places, ClientPlace
    <2>2. CASE d # c
      <3>1. conn[d] > 0 => Cur(d) \in Streams
        BY StreamPairs
      <3>2. cpc[d] = "broken" => conn[d] > 0
        BY <1>s DEF Places, ClientPlace
      <3>3. Cur(d)' = Cur(d)
        BY DEF Cur
      <3> QED BY <2>2, <1>p, <1>u, <1>v, <3>1, <3>2, <3>3 DEF Places, ClientPlace
    <2> QED BY <2>1, <2>2
  <1>2. ASSUME NEW t \in Streams PROVE StreamPlace(t)'
    <2>1. CASE t = u
      <3>1. handler[u] \notin {"minted", "acked", "replay"}
        BY <1>s DEF Places, StreamPlace, Opening
      <3>2. handler'[u] \notin {"minted", "acked", "replay", "serving", "called"}
        BY <3>1, <1>u
      <3>3. /\ handler'[u] = "none" <=> handler[u] = "none"
            /\ handler'[u] \in {"draining", "leaked"} <=>
                  handler[u] \in {"serving", "leaked", "draining"}
        BY <1>u
      <3>4. StreamPlace(u)
        BY <1>s DEF Places
      <3> HIDE DEF u
      <3> QED BY <2>1, <1>u, <3>1, <3>2, <3>3, <3>4 DEF StreamPlace, Opening, Receiving
    <2>2. CASE t # u
      <3>1. handler'[t] = handler[t] /\ queue'[t] = queue[t]
        BY <2>2, <1>u
      <3>2. handler[t] \in Opening => cpc'[t[1]] = cpc[t[1]]
        BY <2>2, <1>p, <1>s DEF Places, StreamPlace
      <3> HIDE DEF u
      <3> QED BY <3>1, <3>2 DEF Places, StreamPlace, Opening, Receiving
    <2> QED BY <2>1, <2>2
  <1> QED BY <1>1, <1>2 DEF Places

\* The client moves on, and its stream, if anything, gets a frame or gives one up.
LEMMA MovePlaces ==
    ASSUME TypeOK, Places, NEW c \in Clients, conn[c] > 0, UNCHANGED <<conn, reg, handler>>,
           fanLeft' \subseteq reg, queue' \in [Streams -> Seq(Frames)],
           \A t \in Streams : ~Receiving(t) => queue'[t] = queue[t],
           NEW p, cpc' = [cpc EXCEPT ![c] = p], p # "ready", p # "opening",
           p \in {"ingest", "notify", "record", "lookup", "send"} => conn[c] = 1,
           p = "poll" => conn[c] > 1,
           p = "broken" => handler[Cur(c)] \in {"draining", "closed"},
           cpc[c] # "opening" \/ handler[Cur(c)] \notin Opening
    PROVE  Places'
  <1>s. /\ \A s \in Streams : s[1] \in Clients /\ s[2] \in Nat \ {0}
        /\ \A s, t \in Streams : s[1] = t[1] /\ s[2] = t[2] => s = t
        /\ \A d \in Clients : conn[d] \in Nat
        /\ Cur(c) \in Streams /\ Cur(c)[1] = c /\ Cur(c)[2] = conn[c]
    BY StreamPairs
  <1>p. cpc'[c] = p /\ \A d \in Clients : d # c => cpc'[d] = cpc[d]
    BY DEF TypeOK
  <1>1. ASSUME NEW d \in Clients PROVE ClientPlace(d)'
    <2>1. Cur(d)' = Cur(d)
      BY DEF Cur
    <2> QED BY <1>p, <1>s, <2>1 DEF Places, ClientPlace
  <1>2. ASSUME NEW t \in Streams PROVE StreamPlace(t)'
    <2>1. handler[t] \in Opening => t[1] # c
      BY <1>s DEF Places, StreamPlace
    <2>2. Receiving(t)' <=> Receiving(t)
      BY DEF Receiving
    <2> QED BY <1>s, <1>p, <2>1, <2>2 DEF Places, StreamPlace
  <1> QED BY <1>1, <1>2 DEF Places

\* The handler of a stream moves on.
LEMMA HandlerPlaces ==
    ASSUME TypeOK, Places, NEW s \in Streams, UNCHANGED <<conn, fanLeft>>,
           NEW h, handler' = [handler EXCEPT ![s] = h], h # "none",
           handler[s] \notin {"none", "closed"},
           h \in Opening => handler[s] \in Opening /\ cpc' = cpc,
           h = "serving" => handler[s] \in Opening,
           NEW p, cpc' = cpc \/ (handler[s] \in Opening /\ p \in {"error", "listen"}
                                   /\ cpc' = [cpc EXCEPT ![s[1]] = p]),
           queue' \in [Streams -> Seq(Frames)],
           \A t \in Streams : t # s => queue'[t] = queue[t],
           h \notin {"minted", "acked", "replay", "serving"} => queue'[s] = <<>>,
           IF h \in {"minted", "acked", "replay", "serving", "leaked", "draining"}
           THEN reg' = reg \cup {s} ELSE reg' = reg \ {s} /\ fanLeft = {},
           handler[s] = "draining" => h = "closed"
    PROVE  Places'
  <1>s. /\ \A t \in Streams : t[1] \in Clients /\ t[2] \in Nat \ {0}
        /\ \A t, u \in Streams : t[1] = u[1] /\ t[2] = u[2] => t = u
        /\ \A d \in Clients : conn[d] \in Nat
        /\ \A d \in Clients : conn[d] > 0 =>
                 Cur(d) \in Streams /\ Cur(d)[1] = d /\ Cur(d)[2] = conn[d]
    BY StreamPairs
  <1>h. handler'[s] = h /\ \A t \in Streams : t # s => handler'[t] = handler[t]
    BY DEF TypeOK
  <1>p. ASSUME NEW d \in Clients
        PROVE  cpc'[d] = cpc[d] \/ (d = s[1] /\ cpc[d] = "opening" /\ cpc'[d] \in {"error", "listen"})
    <2>1. handler[s] \in Opening => cpc[s[1]] = "opening"
      BY DEF Places, StreamPlace
    <2> QED BY <2>1, <1>s DEF TypeOK
  <1>1. ASSUME NEW d \in Clients PROVE ClientPlace(d)'
    <2>1. Cur(d)' = Cur(d)
      BY DEF Cur
    <2>2. cpc[d] = "broken" => Cur(d) \in Streams
      BY <1>s DEF Places, ClientPlace
    <2>3. cpc[d] = "broken" => handler'[Cur(d)] \in {"draining", "closed"}
      <3>1. CASE Cur(d) = s
        <4>1. cpc[d] = "broken" => handler[s] \in {"draining", "closed"}
          BY <3>1 DEF Places, ClientPlace
        <4> QED BY <3>1, <4>1, <1>h
      <3>2. CASE Cur(d) # s
        BY <3>2, <2>2, <1>h DEF Places, ClientPlace
      <3> QED BY <3>1, <3>2
    <2>4. ClientPlace(d)
      BY DEF Places
    <2> QED BY <1>p, <1>s, <2>1, <2>3, <2>4 DEF ClientPlace
  <1>2. ASSUME NEW t \in Streams PROVE StreamPlace(t)'
    <2>1. StreamPlace(t) /\ StreamPlace(s)
      BY DEF Places
    <2>2. CASE t = s
      BY <2>1, <2>2, <1>h, <1>p, <1>s DEF StreamPlace, Opening, Receiving
    <2>3. CASE t # s
      <3>1. handler'[t] = handler[t] /\ queue'[t] = queue[t] /\ (t \in reg' <=> t \in reg)
        BY <2>3, <1>h
      <3>2. handler[t] \in Opening => cpc'[t[1]] = cpc[t[1]]
        <4>1. CASE handler[t] \in Opening /\ t[1] = s[1] /\ handler[s] \in Opening
          BY <4>1, <2>1, <2>3, <1>s DEF StreamPlace
        <4>2. CASE handler[t] \in Opening /\ t[1] = s[1] /\ handler[s] \notin Opening
          BY <4>2
        <4>3. CASE handler[t] \in Opening /\ t[1] # s[1]
          BY <4>3, <1>p, <1>s
        <4> QED BY <4>1, <4>2, <4>3
      <3> QED BY <2>1, <3>1, <3>2 DEF StreamPlace, Opening, Receiving
    <2> QED BY <2>2, <2>3
  <1>3. fanLeft' \subseteq reg'
    BY DEF Places
  <1> QED BY <1>1, <1>2, <1>3 DEF Places

\* A client that has opened a stream has a number for it.
LEMMA Connected ==
    ASSUME TypeOK, Places, NEW c \in Clients, cpc[c] # "ready"
    PROVE  conn[c] > 0
  BY DEF TypeOK, Places, ClientPlace

\* Every step keeps clients, streams and the table together.
LEMMA StepPlaces ==
    ASSUME TypeOK, Places, TypeOK', Next
    PROVE  Places'
  <1>q. queue' \in [Streams -> Seq(Frames)] /\ queue \in [Streams -> Seq(Frames)]
    BY DEF TypeOK
  <1>k. ASSUME UNCHANGED <<cpc, conn, reg, handler>>, fanLeft' \subseteq reg,
               \A t \in Streams : ~Receiving(t) => queue'[t] = queue[t]
        PROVE  Places'
    <2>1. \A d \in Clients : Cur(d)' = Cur(d)
      BY <1>k DEF Cur
    <2>2. \A d \in Clients : ClientPlace(d)'
      BY <1>k, <2>1 DEF Places, ClientPlace
    <2>3. \A t \in Streams : StreamPlace(t)'
      BY <1>k DEF Places, StreamPlace, Receiving
    <2> QED BY <1>k, <2>2, <2>3 DEF Places
  <1>f. ASSUME NEW f, FanOut(f) PROVE fanLeft' \subseteq reg
    BY <1>f DEF FanOut
  <1>1. ASSUME NEW c \in Clients, ClientNext(c) PROVE Places'
    <2>c. cpc[c] # "ready" => /\ conn[c] > 0
                              /\ Cur(c) \in Streams /\ Cur(c)[1] = c /\ Cur(c)[2] = conn[c]
      BY Connected, StreamPairs
    <2>p. ASSUME cpc[c] # "ready", handler[Cur(c)] = "serving", Pop(Cur(c))
          PROVE  \A t \in Streams : ~Receiving(t) => queue'[t] = queue[t]
      BY <2>p, <1>q DEF Pop, Receiving
    <2>1. CASE Open(c)
      <3> DEFINE n == conn[c] + 1
                 u == <<c, n>>
      <3>1. /\ conn[c] \in Nat /\ n \in Nat \ {0} /\ n <= MaxConnects[c] /\ MaxConnects[c] \in Nat
            /\ conn'[c] = n /\ \A d \in Clients : d # c => conn'[d] = conn[d]
        <4>1. /\ conn \in [Clients -> Nat] /\ MaxConnects \in [Clients -> Nat]
              /\ conn' = [conn EXCEPT ![c] = conn[c] + 1] /\ conn[c] < MaxConnects[c]
          BY <2>1, BoundsAssumption DEF Open, TypeOK
        <4> QED BY <4>1
      <3>2. u \in Streams /\ u[1] = c /\ u[2] = n
        BY <3>1, StreamIs
      <3>3. handler'[u] = "called" /\ \A t \in Streams : t # u => handler'[t] = handler[t]
        BY <2>1, <3>2 DEF Open, TypeOK
      <3>4. cpc'[c] = "opening" /\ \A d \in Clients : d # c => cpc'[d] = cpc[d]
        BY <2>1 DEF Open, TypeOK
      <3>5. handler[u] = "none"
        BY <3>1, <3>2 DEF Places, StreamPlace
      <3>6. \A t \in Streams : t[1] = c => handler[t] \notin Opening \cup {"serving"}
        <4>1. CASE cpc[c] = "ready"
          <5>1. conn[c] = 0
            BY <4>1 DEF Places, ClientPlace
          <5> QED BY <5>1, StreamPairs DEF Places, StreamPlace, Opening
        <4>2. CASE cpc[c] = "broken"
          <5>1. handler[Cur(c)] \in {"draining", "closed"}
            BY <4>2 DEF Places, ClientPlace
          <5>2. ASSUME NEW t \in Streams, t[1] = c, handler[t] \in Opening \cup {"serving"}
                PROVE  FALSE
            <6>1. t[2] = conn[c]
              BY <5>2 DEF Places, StreamPlace
            <6>2. t = Cur(c)
              BY <6>1, <5>2, <4>2, <2>c, StreamPairs
            <6> QED BY <6>2, <5>1, <5>2 DEF Opening
          <5> QED BY <5>2
        <4> QED BY <2>1, <4>1, <4>2 DEF Open
      <3> HIDE DEF u, n
      <3>7. ASSUME NEW d \in Clients PROVE ClientPlace(d)'
        <4>1. CASE d = c
          BY <4>1, <3>1, <3>4 DEF ClientPlace
        <4>2. CASE d # c
          <5>1. Cur(d)' = Cur(d)
            BY <4>2, <3>1 DEF Cur
          <5>2. cpc[d] # "ready" => Cur(d) \in Streams /\ Cur(d)[1] = d
            BY Connected, StreamPairs
          <5>3. cpc[d] = "broken" => handler'[Cur(d)] = handler[Cur(d)]
            BY <5>2, <3>2, <3>3, <4>2
          <5> QED BY <4>2, <3>1, <3>4, <5>1, <5>3 DEF Places, ClientPlace
        <4> QED BY <4>1, <4>2
      <3>8. ASSUME NEW t \in Streams PROVE StreamPlace(t)'
        <4>a. queue' = queue /\ reg' = reg
          BY <2>1 DEF Open
        <4>b. t[1] \in Clients /\ t[2] \in Nat
          BY StreamPairs
        <4>c. StreamPlace(t)
          BY DEF Places
        <4>1. CASE t = u
          BY <4>1, <4>a, <4>c, <3>1, <3>2, <3>3, <3>4, <3>5 DEF StreamPlace, Opening, Receiving
        <4>2. CASE t # u /\ t[1] = c
          <5>1. t[2] # n
            BY <4>2, <3>2, StreamPairs
          <5>2. t[2] > n <=> t[2] > conn[c]
            BY <5>1, <4>b, <3>1 DEF n
          <5>3. handler'[t] = handler[t] /\ conn'[t[1]] = n
            BY <4>2, <3>1, <3>3
          <5>4. handler[t] \notin Opening \cup {"serving"}
            BY <4>2, <3>6
          <5> QED BY <4>2, <4>a, <4>c, <5>2, <5>3, <5>4 DEF StreamPlace, Opening, Receiving
        <4>3. CASE t # u /\ t[1] # c
          BY <4>3, <4>a, <4>b, <4>c, <3>1, <3>3, <3>4 DEF StreamPlace, Opening, Receiving
        <4> QED BY <4>1, <4>2, <4>3
      <3>9. fanLeft' \subseteq reg'
        BY <2>1 DEF Open, Places, fanVars
      <3> QED BY <3>7, <3>8, <3>9 DEF Places
    <2>2. CASE Refused(c)
      BY <2>2, <2>c, ExitPlaces DEF Refused, fanVars
    <2>3. CASE Admit(c)
      <3>1. conn[c] = 1
        BY <2>3 DEF Admit, Places, ClientPlace
      <3>2. CASE Cur(c) \in reg
        BY <2>3, <3>1, <3>2, <2>c, <1>q, MovePlaces DEF Admit, Places, fanVars
      <3>3. CASE Cur(c) \notin reg
        BY <2>3, <3>3, <2>c, ExitPlaces DEF Admit, fanVars
      <3> QED BY <3>2, <3>3
    <2>4. CASE Notify(c)
      BY <2>4, <2>c, <1>q, MovePlaces DEF Notify, Places, ClientPlace, fanVars, streamVars
    <2>5. CASE RecordWorking(c)
      BY <2>5, <2>c, <1>q, MovePlaces DEF RecordWorking, Places, ClientPlace, fanVars, streamVars
    <2>6. CASE SetPhase(c)
      <3>1. conn[c] = 1
        BY <2>6 DEF SetPhase, Places, ClientPlace
      <3>2. PICK p \in {"send", "listen"} : cpc' = [cpc EXCEPT ![c] = p]
        BY <2>6 DEF SetPhase
      <3> QED BY <2>6, <3>1, <3>2, <2>c, <1>q, MovePlaces DEF SetPhase, Places, fanVars
    <2>7. CASE SendWorking(c)
      <3>1. \A t \in Streams : ~Receiving(t) => queue'[t] = queue[t]
        BY <2>7, <1>q DEF SendWorking, Push
      <3> QED BY <2>7, <3>1, <2>c, <1>q, MovePlaces DEF SendWorking, Places, fanVars
    <2>8. CASE IngestDropped(c)
      BY <2>8, <2>c, ExitPlaces DEF IngestDropped, fanVars
    <2>9. CASE ReadAck(c)
      <3>1. CASE Exit(c) /\ cpc' = [cpc EXCEPT ![c] = "error"]
        BY <2>9, <3>1, <2>c, ExitPlaces DEF ReadAck, fanVars
      <3>2. CASE Pop(Cur(c)) /\ cpc' = [cpc EXCEPT ![c] = IF conn[c] = 1 THEN "ingest" ELSE "poll"]
        <4>1. PICK p \in {"ingest", "poll"} : p = IF conn[c] = 1 THEN "ingest" ELSE "poll"
          OBVIOUS
        <4>2. /\ p = "ingest" => conn[c] = 1
              /\ p = "poll" => conn[c] > 1
          BY <4>1, <2>9, <2>c DEF ReadAck, TypeOK
        <4>3. handler[Cur(c)] \notin Opening
          BY <2>9 DEF ReadAck, Opening
        <4>4. \A t \in Streams : ~Receiving(t) => queue'[t] = queue[t]
          BY <2>9, <3>2, <2>p DEF ReadAck
        <4>5. cpc' = [cpc EXCEPT ![c] = p] /\ UNCHANGED <<conn, reg, handler>>
          BY <2>9, <3>2, <4>1 DEF ReadAck, Pop
        <4> QED BY <2>9, <4>2, <4>3, <4>4, <4>5, <2>c, <1>q, MovePlaces
                DEF ReadAck, Places, fanVars
      <3> QED BY <2>9, <3>1, <3>2 DEF ReadAck
    <2>10. CASE GetTurnState(c)
      <3>1. CASE record[c] = "working"
        BY <2>10, <3>1, <2>c, <1>q, MovePlaces DEF GetTurnState, Places, fanVars
      <3>2. CASE record[c] # "working"
        <4>1. PICK p \in Terminal : p = IF record[c] = "none" THEN "idle" ELSE record[c]
          BY <3>2 DEF TypeOK, Terminal
        <4> QED BY <2>10, <3>2, <4>1, <2>c, ExitPlaces DEF GetTurnState, fanVars
      <3> QED BY <3>1, <3>2
    <2>11. CASE HandleFrame(c)
      <3>1. PICK f : f = Head(queue[Cur(c)])
        OBVIOUS
      <3>2. CASE f.kind = "turn" /\ f.conv = c /\ f.state \in Terminal
        <4>1. PICK p \in Terminal : p = f.state
          BY <3>2
        <4> QED BY <2>11, <3>1, <3>2, <4>1, <2>c, ExitPlaces DEF HandleFrame, fanVars
      <3>3. CASE ~(f.kind = "turn" /\ f.conv = c /\ f.state \in Terminal)
        <4>1. \A t \in Streams : ~Receiving(t) => queue'[t] = queue[t]
          BY <2>11, <3>1, <3>3, <2>p DEF HandleFrame
        <4> QED BY <2>11, <3>1, <3>3, <4>1, <1>k DEF HandleFrame, Pop, Places, fanVars
      <3> QED BY <3>2, <3>3
    <2>12. CASE NoticeEnd(c)
      <3>1. PICK p \in {"broken", "error"} : p = IF cpc[c] = "listen" THEN "broken" ELSE "error"
        OBVIOUS
      <3>2. handler[Cur(c)] \notin Opening
        BY <2>12 DEF NoticeEnd, Opening
      <3>3. cpc' = [cpc EXCEPT ![c] = p] /\ handler[Cur(c)] \in {"draining", "closed"}
        BY <2>12, <3>1 DEF NoticeEnd
      <3> QED BY <2>12, <3>2, <3>3, <2>c, <1>q, MovePlaces DEF NoticeEnd, Places, fanVars, streamVars
    <2> QED
      BY <1>1, <2>1, <2>2, <2>3, <2>4, <2>5, <2>6, <2>7, <2>8, <2>9, <2>10, <2>11, <2>12
      DEF ClientNext
  <1>2. ASSUME NEW s \in Streams, StreamNext(s) PROVE Places'
    <2>r. s \in reg <=> handler[s] \in {"minted", "acked", "replay", "serving", "leaked",
                                        "draining"}
      BY DEF Places, StreamPlace
    <2>1. CASE MintChannelStream(s)
      BY <2>1, <1>q, HandlerPlaces DEF MintChannelStream, clientVars, fanVars, Opening
    <2>2. CASE SendAck(s)
      <3>1. \A t \in Streams : t # s => queue'[t] = queue[t]
        BY <2>2, <1>q DEF SendAck, Push
      <3>2. reg' = reg \cup {s}
        BY <2>2, <2>r DEF SendAck
      <3> QED BY <2>2, <3>1, <3>2, <1>q, HandlerPlaces DEF SendAck, clientVars, fanVars, Opening
    <2>3. CASE BeginReplay(s)
      <3>2. reg' = reg \cup {s}
        BY <2>3, <2>r DEF BeginReplay
      <3> QED BY <2>3, <3>2, <1>q, HandlerPlaces DEF BeginReplay, clientVars, fanVars, Opening
    <2>4. CASE ReplayTurnState(s)
      <3>1. \A t \in Streams : t # s => queue'[t] = queue[t]
        BY <2>4, <1>q DEF ReplayTurnState, Push
      <3>2. reg' = reg \cup {s}
        BY <2>4, <2>r DEF ReplayTurnState
      <3> QED BY <2>4, <3>1, <3>2, <1>q, HandlerPlaces
              DEF ReplayTurnState, clientVars, fanVars, Opening
    <2>5. CASE Abandon(s)
      <3>1. (\A t \in Streams : t # s => queue'[t] = queue[t]) /\ queue'[s] = <<>>
        BY <2>5, <1>q DEF Abandon
      <3>2. reg' = reg \cup {s}
        BY <2>5, <2>r DEF Abandon
      <3> QED BY <2>5, <3>1, <3>2, <1>q, HandlerPlaces DEF Abandon, fanVars, Opening
    <2>6. CASE StreamEnds(s)
      <3>1. (\A t \in Streams : t # s => queue'[t] = queue[t]) /\ queue'[s] = <<>>
        BY <2>6, <1>q DEF StreamEnds
      <3>2. reg' = reg \cup {s}
        BY <2>6, <2>r DEF StreamEnds
      <3> QED BY <2>6, <3>1, <3>2, <1>q, HandlerPlaces DEF StreamEnds, clientVars, fanVars, Opening
    <2>7. CASE UnregisterChannelStream(s)
      <3>1. queue[s] = <<>>
        BY <2>7 DEF UnregisterChannelStream, Places, StreamPlace, Receiving
      <3>2. fanLeft = {}
        BY <2>7 DEF UnregisterChannelStream, ReadHeld
      <3> QED BY <2>7, <3>1, <3>2, <1>q, HandlerPlaces
              DEF UnregisterChannelStream, clientVars, fanVars, Opening
    <2>8. CASE SendToStream(s)
      <3>1. \A t \in Streams : ~Receiving(t) => queue'[t] = queue[t]
        BY <2>8, <1>q DEF SendToStream, Push
      <3>2. fanLeft' \subseteq reg
        BY <2>8 DEF SendToStream, Places
      <3> QED BY <2>8, <3>1, <3>2, <1>k DEF SendToStream, clientVars
    <2> QED BY <1>2, <2>1, <2>2, <2>3, <2>4, <2>5, <2>6, <2>7, <2>8 DEF StreamNext
  <1>3. CASE HarnessNext
    <2>1. UNCHANGED <<cpc, conn, reg, handler, queue>>
      BY <1>3 DEF HarnessNext, Subscribe, Forward, ForwarderEnds, SubscriptionClosed, NextMessage,
                  DeliverStart, DeliverStreamItem, LoopReturns, DeliverReply, RecordOutcome,
                  DeliverTurnState, TurnEnds, clientVars, streamVars
    <2>2. fanLeft' \subseteq reg
      BY <1>3, <1>f DEF HarnessNext, Subscribe, Forward, ForwarderEnds, SubscriptionClosed,
                        NextMessage, DeliverStart, DeliverStreamItem, LoopReturns, DeliverReply,
                        RecordOutcome, DeliverTurnState, TurnEnds, fanVars, Places
    <2> QED BY <2>1, <2>2, <1>k
  <1>4. CASE FaultNext
    <2>1. CASE DeliveryFails \/ HarnessRestart \/ SubscriptionBreaks
      BY <2>1, <1>k DEF DeliveryFails, HarnessRestart, SubscriptionBreaks, clientVars, streamVars,
                        fanVars, Places
    <2>2. CASE RelayRestart
      <3>1. ASSUME NEW d \in Clients PROVE ClientPlace(d)'
        <4>1. Cur(d)' = Cur(d) /\ conn' = conn
          BY <2>2 DEF RelayRestart, Cur
        <4>2. cpc'[d] = cpc[d] \/ (cpc'[d] = "error" /\ cpc[d] # "ready")
          BY <2>2 DEF RelayRestart
        <4>3. cpc[d] = "broken" => /\ Cur(d) \in Streams
                                   /\ handler[Cur(d)] \in {"draining", "closed"}
          BY Connected, StreamPairs DEF Places, ClientPlace
        <4>4. cpc[d] = "broken" => handler'[Cur(d)] = "closed"
          BY <2>2, <4>3 DEF RelayRestart
        <4>5. ClientPlace(d)
          BY DEF Places
        <4> QED BY <4>1, <4>2, <4>4, <4>5 DEF ClientPlace
      <3>2. ASSUME NEW t \in Streams PROVE StreamPlace(t)'
        <4>1. /\ handler'[t] = IF handler[t] = "none" THEN "none" ELSE "closed"
              /\ queue'[t] = <<>> /\ reg' = {} /\ conn' = conn
          BY <2>2 DEF RelayRestart
        <4> QED BY <4>1 DEF Places, StreamPlace, Opening, Receiving
      <3>3. fanLeft' \subseteq reg'
        BY <2>2 DEF RelayRestart
      <3> QED BY <3>1, <3>2, <3>3 DEF Places
    <2> QED BY <1>4, <2>1, <2>2 DEF FaultNext
  <1> QED BY <1>1, <1>2, <1>3, <1>4 DEF Next

----------------------------------------------------------------------------
(* Messages *)

\* Members of a sequence with an element more.
LEMMA InAppend ==
    ASSUME NEW S, NEW q \in Seq(S), NEW e \in S
    PROVE  /\ \A x : In(x, Append(q, e)) <=> In(x, q) \/ x = e
           /\ NoDup(q) /\ ~In(e, q) => NoDup(Append(q, e))
  <1>1. /\ Len(Append(q, e)) = Len(q) + 1 /\ Len(q) \in Nat
        /\ Append(q, e)[Len(q) + 1] = e
        /\ \A i \in 1..Len(q) : Append(q, e)[i] = q[i]
    OBVIOUS
  <1>2. 1..Len(Append(q, e)) = 1..Len(q) \cup {Len(q) + 1}
    BY <1>1
  <1>3. \A x : In(x, Append(q, e)) <=> In(x, q) \/ x = e
    BY <1>1, <1>2 DEF In
  <1>4. ASSUME NoDup(q), ~In(e, q) PROVE NoDup(Append(q, e))
    BY <1>1, <1>2, <1>4 DEF In, NoDup
  <1> QED BY <1>3, <1>4

\* Members of a sequence without its head.
LEMMA InTail ==
    ASSUME NEW S, NEW q \in Seq(S), q # <<>>
    PROVE  /\ Head(q) \in S /\ Tail(q) \in Seq(S)
           /\ \A x : In(x, q) <=> x = Head(q) \/ In(x, Tail(q))
           /\ NoDup(q) => NoDup(Tail(q)) /\ ~In(Head(q), Tail(q))
  <1>1. /\ Len(Tail(q)) = Len(q) - 1 /\ Len(q) \in Nat \ {0} /\ Head(q) = q[1]
        /\ \A i \in 1..Len(Tail(q)) : Tail(q)[i] = q[i + 1]
        /\ Head(q) \in S /\ Tail(q) \in Seq(S)
    OBVIOUS
  <1>2. ASSUME NEW x PROVE In(x, q) <=> x = Head(q) \/ In(x, Tail(q))
    <2>1. ASSUME NEW i \in 1..Len(q), q[i] = x PROVE x = Head(q) \/ In(x, Tail(q))
      <3>1. CASE i = 1 BY <2>1, <3>1, <1>1
      <3>2. CASE i # 1
        <4>1. i - 1 \in 1..Len(Tail(q)) /\ Tail(q)[i - 1] = x
          BY <2>1, <3>2, <1>1
        <4> QED BY <4>1 DEF In
      <3> QED BY <3>1, <3>2
    <2>2. ASSUME NEW i \in 1..Len(Tail(q)), Tail(q)[i] = x PROVE In(x, q)
      <3>1. i + 1 \in 1..Len(q) /\ q[i + 1] = x
        BY <2>2, <1>1
      <3> QED BY <3>1 DEF In
    <2>3. 1 \in 1..Len(q)
      BY <1>1
    <2> QED BY <2>1, <2>2, <2>3, <1>1 DEF In
  <1>3. ASSUME NoDup(q) PROVE NoDup(Tail(q)) /\ ~In(Head(q), Tail(q))
    <2>1. ASSUME NEW i \in 1..Len(Tail(q)), NEW j \in 1..Len(Tail(q)), Tail(q)[i] = Tail(q)[j]
          PROVE  i = j
      <3>1. i + 1 \in 1..Len(q) /\ j + 1 \in 1..Len(q) /\ q[i + 1] = q[j + 1]
        BY <2>1, <1>1
      <3>2. i + 1 = j + 1
        BY <3>1, <1>3 DEF NoDup
      <3> QED BY <3>2
    <2>2. ASSUME NEW i \in 1..Len(Tail(q)), Tail(q)[i] = Head(q) PROVE FALSE
      <3>1. i + 1 \in 1..Len(q) /\ 1 \in 1..Len(q) /\ q[i + 1] = q[1]
        BY <2>2, <1>1
      <3>2. i + 1 = 1
        BY <3>1, <1>3 DEF NoDup
      <3> QED BY <3>2
    <2> QED BY <2>1, <2>2 DEF NoDup, In
  <1> QED BY <1>1, <1>2, <1>3

\* Nothing is in the empty sequence.
LEMMA InEmpty == NoDup(<<>>) /\ \A x : ~In(x, <<>>)
  BY DEF NoDup, In

\* A message stays where it is or is lost.
LEMMA KeepLine ==
    ASSUME TypeOK, Line, UNCHANGED <<outcome, sent, over>>,
           bus' \in {bus, <<>>}, wire' \in {wire, <<>>}, turn' \in {turn, None}, Loop',
           \A d \in Clients : Unsent(d)' => Unsent(d) /\ record'[d] = "none" /\ got'[d] = got[d]
    PROVE  Line'
  <1>1. NoDup(bus)' /\ NoDup(wire)'
    BY InEmpty DEF Line
  <1>2. ASSUME NEW d \in Clients PROVE LineOf(d)'
    <2>1. /\ In(d, bus') => In(d, bus)
          /\ In(d, wire') => In(d, wire)
          /\ turn' = d => turn = d
      BY InEmpty, ClientsAssumption
    <2>2. LineOf(d)
      BY DEF Line
    <2> QED BY <2>1, <2>2 DEF LineOf
  <1> QED BY <1>1, <1>2 DEF Line

\* Every step keeps a message in one place.
LEMMA StepLine ==
    ASSUME TypeOK, Places, Line, Next
    PROVE  Line'
  <1>l. Loop
    BY DEF Line
  <1>n. turn # None => turn \in Clients
    BY DEF TypeOK
  <1>1. ASSUME NEW c \in Clients, ClientNext(c) PROVE Line'
    <2>c. cpc[c] # "ready" => conn[c] \in Nat /\ conn[c] > 0
      BY Connected DEF TypeOK
    <2>u. ASSUME NEW p, cpc' = [cpc EXCEPT ![c] = p], conn' = conn,
                 p \in {"ready", "ingest", "notify", "opening"} => Unsent(c)
          PROVE  \A d \in Clients : Unsent(d)' => Unsent(d)
      BY <2>u DEF Unsent, TypeOK
    <2>o. ASSUME UNCHANGED <<bus, wire, outcome, sent, over, turn, hpc, record, got>>,
                 \A d \in Clients : Unsent(d)' => Unsent(d)
          PROVE  Line'
      <3>1. \A d \in Clients : Unsent(d) => record[d] = "none"
        BY DEF Line, LineOf
      <3>2. Loop'
        BY <1>l, <2>o DEF Loop
      <3> QED BY <2>o, <3>1, <3>2, KeepLine
    <2>1. CASE Open(c)
      <3>1. \A d \in Clients : Unsent(d)' => Unsent(d)
        <4>1. ASSUME NEW d \in Clients, Unsent(d)' PROVE Unsent(d)
          <5>1. CASE d # c
            BY <4>1, <5>1, <2>1 DEF Open, Unsent, TypeOK
          <5>2. CASE d = c /\ cpc[c] = "broken"
            <6>1. conn'[c] = conn[c] + 1 /\ cpc'[c] = "opening"
              BY <2>1 DEF Open, TypeOK
            <6> QED BY <4>1, <5>2, <6>1, <2>c DEF Unsent
          <5>3. CASE d = c /\ cpc[c] = "ready"
            BY <5>3 DEF Unsent
          <5> QED BY <2>1, <5>1, <5>2, <5>3 DEF Open
        <4> QED BY <4>1
      <3> QED BY <2>1, <3>1, <2>o DEF Open, busVars, harnessVars
    <2>2. CASE Refused(c)
      BY <2>2, <2>o, <2>u DEF Refused, busVars, harnessVars
    <2>3. CASE Admit(c)
      <3>1. PICK p \in {"notify", "error"} : cpc' = [cpc EXCEPT ![c] = p]
        BY <2>3 DEF Admit
      <3>2. Unsent(c)
        BY <2>3 DEF Admit, Unsent
      <3> QED BY <2>3, <3>1, <3>2, <2>o, <2>u DEF Admit, busVars, harnessVars
    <2>4. CASE Notify(c)
      <3>a. /\ UNCHANGED <<conn, wire, outcome, sent, over, turn, hpc, record, got>>
            /\ cpc' = [cpc EXCEPT ![c] = "record"]
        BY <2>4 DEF Notify, harnessVars
      <3>1. Unsent(c) /\ LineOf(c)
        BY <2>4 DEF Notify, Unsent, Line
      <3>2. \A d \in Clients : Unsent(d)' => Unsent(d) /\ d # c
        BY <3>a DEF Unsent, TypeOK
      <3>3. CASE bus' = bus
        BY <3>a, <3>2, <3>3, <2>o
      <3>4. CASE bus' # bus
        <4> DEFINE q == IF Len(bus) = BusCap THEN Tail(bus) ELSE bus
        <4>1. bus' = Append(q, c)
          BY <2>4, <3>4 DEF Notify
        <4>2. bus \in Seq(Clients) /\ (Len(bus) = BusCap => bus # <<>>)
          BY CapAssumption DEF TypeOK
        <4>3. q \in Seq(Clients) /\ NoDup(q) /\ \A x : In(x, q) => In(x, bus)
          BY <4>2, InTail DEF Line
        <4> HIDE DEF q
        <4>4. ~In(c, q)
          BY <3>1, <4>3 DEF LineOf
        <4>5. NoDup(bus') /\ \A x : In(x, bus') => In(x, bus) \/ x = c
          BY <4>1, <4>3, <4>4, InAppend
        <4>6. ASSUME NEW d \in Clients PROVE LineOf(d)'
          <5>1. LineOf(d)
            BY DEF Line
          <5>2. CASE d = c
            BY <3>a, <3>1, <3>2, <5>2 DEF LineOf
          <5>3. CASE d # c
            BY <3>a, <3>2, <4>5, <5>1, <5>3 DEF LineOf
          <5> QED BY <5>2, <5>3
        <4>7. Loop'
          BY <1>l, <3>a DEF Loop
        <4> QED BY <3>a, <4>5, <4>6, <4>7 DEF Line
      <3> QED BY <3>3, <3>4
    <2>5. CASE RecordWorking(c)
      <3>1. \A d \in Clients : Unsent(d)' => Unsent(d) /\ d # c
        BY <2>5 DEF RecordWorking, Unsent, TypeOK
      <3>2. \A d \in Clients : d # c => record'[d] = record[d]
        BY <2>5 DEF RecordWorking, TypeOK
      <3>3. UNCHANGED <<bus, wire, outcome, sent, over, turn, hpc, got>>
        BY <2>5 DEF RecordWorking, busVars, harnessVars
      <3>4. \A d \in Clients : Unsent(d) => record[d] = "none"
        BY DEF Line, LineOf
      <3>5. Loop'
        BY <1>l, <3>3 DEF Loop
      <3> QED BY <3>1, <3>2, <3>3, <3>4, <3>5, KeepLine
    <2>6. CASE SetPhase(c)
      <3>1. PICK p \in {"send", "listen"} : cpc' = [cpc EXCEPT ![c] = p]
        BY <2>6 DEF SetPhase
      <3> QED BY <2>6, <3>1, <2>o, <2>u DEF SetPhase, busVars, harnessVars
    <2>7. CASE SendWorking(c)
      BY <2>7, <2>o, <2>u DEF SendWorking, busVars, harnessVars
    <2>8. CASE IngestDropped(c)
      BY <2>8, <2>o, <2>u DEF IngestDropped, busVars, harnessVars
    <2>9. CASE ReadAck(c)
      <3>1. PICK p \in {"ingest", "poll", "error"} :
               cpc' = [cpc EXCEPT ![c] = p] /\ (p = "ingest" => conn[c] = 1)
        BY <2>9 DEF ReadAck
      <3>2. p = "ingest" => Unsent(c)
        BY <2>9, <3>1 DEF ReadAck, Unsent
      <3> QED BY <2>9, <3>1, <3>2, <2>o, <2>u DEF ReadAck, busVars, harnessVars
    <2>10. CASE GetTurnState(c)
      <3>1. PICK p \in {"listen"} \cup Terminal : cpc' = [cpc EXCEPT ![c] = p]
        BY <2>10 DEF GetTurnState, TypeOK, Terminal
      <3>2. p \notin {"ready", "ingest", "notify", "opening"}
        BY <3>1 DEF Terminal
      <3> QED BY <2>10, <3>1, <3>2, <2>o, <2>u DEF GetTurnState, busVars, harnessVars
    <2>11. CASE HandleFrame(c)
      <3>1. PICK p \in {"listen"} \cup Terminal : cpc' = [cpc EXCEPT ![c] = p]
        <4>1. CASE cpc' = cpc
          BY <4>1, <2>11 DEF HandleFrame, TypeOK
        <4>2. CASE cpc' # cpc
          BY <4>2, <2>11 DEF HandleFrame
        <4> QED BY <4>1, <4>2
      <3>2. p \notin {"ready", "ingest", "notify", "opening"}
        BY <3>1 DEF Terminal
      <3>3. \A d \in Clients : Unsent(d)' => Unsent(d) /\ d # c
        BY <2>11, <3>1, <3>2 DEF HandleFrame, Unsent, TypeOK
      <3>4. \A d \in Clients : d # c => got'[d] = got[d]
        BY <2>11 DEF HandleFrame, TypeOK
      <3>5. UNCHANGED <<bus, wire, outcome, sent, over, turn, hpc, record>>
        BY <2>11 DEF HandleFrame, busVars, harnessVars
      <3>6. \A d \in Clients : Unsent(d) => record[d] = "none"
        BY DEF Line, LineOf
      <3>7. Loop'
        BY <1>l, <3>5 DEF Loop
      <3> QED BY <3>3, <3>4, <3>5, <3>6, <3>7, KeepLine
    <2>12. CASE NoticeEnd(c)
      <3>1. PICK p \in {"broken", "error"} : cpc' = [cpc EXCEPT ![c] = p]
        BY <2>12 DEF NoticeEnd
      <3> QED BY <2>12, <3>1, <2>o, <2>u DEF NoticeEnd, busVars, harnessVars
    <2> QED
      BY <1>1, <2>1, <2>2, <2>3, <2>4, <2>5, <2>6, <2>7, <2>8, <2>9, <2>10, <2>11, <2>12
      DEF ClientNext
  <1>2. ASSUME NEW s \in Streams, StreamNext(s) PROVE Line'
    <2>1. UNCHANGED <<bus, wire, outcome, sent, over, turn, hpc, record, got, conn>>
      BY <1>2 DEF StreamNext, MintChannelStream, SendAck, BeginReplay, ReplayTurnState, Abandon,
                  StreamEnds, UnregisterChannelStream, SendToStream, clientVars, busVars,
                  harnessVars
    <2>2. cpc' = cpc \/ cpc' = [cpc EXCEPT ![s[1]] = "error"]
      BY <1>2 DEF StreamNext, MintChannelStream, SendAck, BeginReplay, ReplayTurnState, Abandon,
                  StreamEnds, UnregisterChannelStream, SendToStream, clientVars
    <2>3. \A d \in Clients : cpc'[d] \in {cpc[d], "error"}
      BY <2>2 DEF TypeOK
    <2>4. \A d \in Clients : Unsent(d)' => Unsent(d)
      BY <2>1, <2>3 DEF Unsent
    <2>5. \A d \in Clients : Unsent(d) => record[d] = "none"
      BY DEF Line, LineOf
    <2>6. Loop'
      BY <1>l, <2>1 DEF Loop
    <2> QED BY <2>1, <2>4, <2>5, <2>6, KeepLine
  <1>3. CASE HarnessNext
    <2>a. UNCHANGED <<cpc, conn, got>>
      BY <1>3 DEF HarnessNext, Subscribe, Forward, ForwarderEnds, SubscriptionClosed, NextMessage,
                  DeliverStart, DeliverStreamItem, LoopReturns, DeliverReply, RecordOutcome,
                  DeliverTurnState, TurnEnds, clientVars
    <2>u. \A d \in Clients : Unsent(d)' <=> Unsent(d)
      BY <2>a DEF Unsent
    <2>r. \A d \in Clients : Unsent(d) => record[d] = "none" /\ turn # d
      BY DEF Line, LineOf
    <2>1. CASE Subscribe \/ ForwarderEnds \/ SubscriptionClosed \/ DeliverStart \/ DeliverReply
               \/ DeliverTurnState
      <3>1. /\ UNCHANGED <<outcome, sent, over, turn, record>>
            /\ bus' \in {bus, <<>>} /\ wire' \in {wire, <<>>}
        BY <2>1 DEF Subscribe, ForwarderEnds, SubscriptionClosed, DeliverStart, DeliverReply,
                    DeliverTurnState, busVars, harnessVars
      <3>2. Loop'
        BY <1>l, <2>1, <3>1 DEF Loop, Subscribe, ForwarderEnds, SubscriptionClosed, DeliverStart,
                                DeliverReply, DeliverTurnState, harnessVars
      <3> QED BY <2>a, <2>u, <2>r, <3>1, <3>2, KeepLine
    <2>2. CASE Forward
      <3>a. /\ UNCHANGED <<outcome, sent, over, turn, record, hpc>>
            /\ bus # <<>> /\ wire' = Append(wire, Head(bus)) /\ bus' = Tail(bus)
        BY <2>2 DEF Forward, harnessVars
      <3>1. PICK e \in Clients : e = Head(bus)
        BY <3>a DEF TypeOK
      <3>2. /\ NoDup(bus') /\ ~In(e, bus')
            /\ \A x : In(x, bus) <=> x = e \/ In(x, bus')
        BY <3>a, <3>1, InTail DEF Line, TypeOK
      <3>3. LineOf(e) /\ In(e, bus)
        BY <3>2 DEF Line
      <3>4. ~In(e, wire)
        BY <3>3 DEF LineOf
      <3>5. NoDup(wire') /\ \A x : In(x, wire') <=> In(x, wire) \/ x = e
        BY <3>a, <3>1, <3>4, InAppend DEF Line, TypeOK
      <3>6. ASSUME NEW d \in Clients PROVE LineOf(d)'
        <4>1. LineOf(d)
          BY DEF Line
        <4> QED BY <2>a, <2>u, <3>a, <3>2, <3>3, <3>5, <4>1 DEF LineOf
      <3>7. Loop'
        BY <1>l, <3>a DEF Loop
      <3> QED BY <3>2, <3>5, <3>6, <3>7 DEF Line
    <2>3. CASE NextMessage
      <3>a. /\ UNCHANGED <<outcome, sent, over, record, bus>>
            /\ wire # <<>> /\ turn' = Head(wire) /\ wire' = Tail(wire)
            /\ hpc = "wait" /\ hpc' = "start"
        BY <2>3 DEF NextMessage
      <3>1. PICK e \in Clients : e = Head(wire)
        BY <3>a DEF TypeOK
      <3>2. /\ NoDup(wire') /\ ~In(e, wire')
            /\ \A x : In(x, wire) <=> x = e \/ In(x, wire')
        BY <3>a, <3>1, InTail DEF Line, TypeOK
      <3>3. LineOf(e) /\ In(e, wire)
        BY <3>2 DEF Line
      <3>5. outcome[e] = "none" /\ ~In(e, bus) /\ e \notin over /\ ~Unsent(e)
        BY <3>3 DEF LineOf, Terminal
      <3>6. ASSUME NEW d \in Clients PROVE LineOf(d)'
        <4>1. LineOf(d)
          BY DEF Line
        <4> QED BY <2>a, <2>u, <3>a, <3>1, <3>2, <3>3, <3>5, <4>1 DEF LineOf
      <3>7. Loop'
        BY <3>a, <3>1, <3>5, ClientsAssumption DEF Loop
      <3>8. NoDup(bus')
        BY <3>a DEF Line
      <3> QED BY <3>2, <3>6, <3>7, <3>8 DEF Line
    <2>4. CASE DeliverStreamItem
      <3>a. /\ UNCHANGED <<outcome, over, record, bus, wire, turn, hpc>> /\ turn \in Clients
            /\ sent' = [sent EXCEPT ![turn] = sent[turn] + 1]
        BY <2>4, <1>l, <1>n DEF DeliverStreamItem, Loop, busVars
      <3>1. \A d \in Clients : d # turn => sent'[d] = sent[d]
        BY <3>a DEF TypeOK
      <3>2. ASSUME NEW d \in Clients PROVE LineOf(d)'
        <4>1. LineOf(d)
          BY DEF Line
        <4> QED BY <2>a, <2>u, <3>a, <3>1, <4>1 DEF LineOf
      <3>3. Loop' /\ NoDup(bus') /\ NoDup(wire')
        BY <1>l, <3>a DEF Loop, Line
      <3> QED BY <3>2, <3>3 DEF Line
    <2>5. ASSUME NEW o \in Outcomes, LoopReturns(o) PROVE Line'
      <3>a. /\ UNCHANGED <<sent, over, record, bus, wire, turn>> /\ turn \in Clients
            /\ outcome' = [outcome EXCEPT ![turn] = o] /\ hpc' \in {"reply", "outcome"}
            /\ o \in Terminal /\ hpc = "run"
        BY <2>5, <1>l, <1>n, OutcomesAssumption DEF LoopReturns, Loop, busVars
      <3>1. outcome'[turn] = o /\ \A d \in Clients : d # turn => outcome'[d] = outcome[d]
        BY <3>a DEF TypeOK
      <3>2. ASSUME NEW d \in Clients PROVE LineOf(d)'
        <4>1. LineOf(d)
          BY DEF Line
        <4> QED BY <2>a, <2>u, <3>a, <3>1, <4>1 DEF LineOf
      <3>3. Loop' /\ NoDup(bus') /\ NoDup(wire')
        BY <1>l, <3>a, <3>1, ClientsAssumption DEF Loop, Line
      <3> QED BY <3>2, <3>3 DEF Line
    <2>6. CASE RecordOutcome
      <3>a. /\ UNCHANGED <<outcome, sent, over, turn, bus, wire>> /\ turn \in Clients
            /\ record' = [record EXCEPT ![turn] = outcome[turn]]
            /\ hpc = "outcome" /\ hpc' = "fan"
        BY <2>6, <1>l, <1>n DEF RecordOutcome, Loop, busVars
      <3>1. \A d \in Clients : d # turn => record'[d] = record[d]
        BY <3>a DEF TypeOK
      <3>2. Loop'
        BY <1>l, <3>a DEF Loop
      <3> QED BY <2>a, <2>u, <2>r, <3>a, <3>1, <3>2, KeepLine
    <2>7. CASE TurnEnds
      <3>a. /\ UNCHANGED <<outcome, sent, record, bus, wire>> /\ turn \in Clients
            /\ over' = over \cup {turn} /\ turn' = None /\ hpc = "end" /\ hpc' = "wait"
            /\ outcome[turn] \in Terminal
        BY <2>7, <1>l, <1>n DEF TurnEnds, Loop, busVars
      <3>2. ASSUME NEW d \in Clients PROVE LineOf(d)'
        <4>1. LineOf(d)
          BY DEF Line
        <4> QED BY <2>a, <2>u, <3>a, <4>1, ClientsAssumption DEF LineOf
      <3>3. Loop' /\ NoDup(bus') /\ NoDup(wire')
        BY <3>a DEF Loop, Line
      <3> QED BY <3>2, <3>3 DEF Line
    <2> QED BY <1>3, <2>1, <2>2, <2>3, <2>4, <2>5, <2>6, <2>7 DEF HarnessNext
  <1>4. CASE FaultNext
    <2>1. UNCHANGED <<outcome, sent, over, got, conn>>
      BY <1>4 DEF FaultNext, DeliveryFails, HarnessRestart, SubscriptionBreaks, RelayRestart,
                  clientVars, harnessVars
    <2>2. \A d \in Clients : cpc'[d] \in {cpc[d], "error"}
      BY <1>4 DEF FaultNext, DeliveryFails, HarnessRestart, SubscriptionBreaks, RelayRestart,
                  clientVars
    <2>3. \A d \in Clients : Unsent(d)' => Unsent(d)
      BY <2>1, <2>2 DEF Unsent
    <2>4. \A d \in Clients : Unsent(d) => record'[d] = "none"
      <3>1. CASE record' = record
        BY <3>1 DEF Line, LineOf
      <3>2. CASE RelayRestart
        BY <3>2 DEF RelayRestart
      <3> QED BY <1>4, <3>1, <3>2 DEF FaultNext, DeliveryFails, HarnessRestart, SubscriptionBreaks
    <2>5. Loop' /\ turn' \in {turn, None} /\ bus' \in {bus, <<>>} /\ wire' \in {wire, <<>>}
      <3>1. CASE DeliveryFails
        BY <3>1, <1>l DEF DeliveryFails, Loop, busVars
      <3>2. CASE HarnessRestart
        BY <3>2 DEF HarnessRestart, Loop
      <3>3. CASE SubscriptionBreaks
        BY <3>3, <1>l DEF SubscriptionBreaks, Loop, harnessVars
      <3>4. CASE RelayRestart
        BY <3>4, <1>l DEF RelayRestart, Loop
      <3> QED BY <1>4, <3>1, <3>2, <3>3, <3>4 DEF FaultNext
    <2> QED BY <2>1, <2>3, <2>4, <2>5, KeepLine
  <1> QED BY <1>1, <1>2, <1>3, <1>4 DEF Next

----------------------------------------------------------------------------
(* What the steps do to channels, deliveries and outcomes *)

\* A frame that neither ends a turn nor is an item.
Quiet(f) == f.kind # "item" /\ ~(f.kind = "turn" /\ f.conv \in Clients /\ f.state \in Terminal)

\* The frames that do not come from a delivery are quiet.
LEMMA QuietFrames ==
    ASSUME TypeOK
    PROVE  /\ AckFrame \in Frames /\ Quiet(AckFrame)
           /\ \A c \in Clients : Frame("turn", c, "working") \in Frames
                                 /\ Quiet(Frame("turn", c, "working"))
           /\ \A s \in Streams : Frame("turn", None, phase[s]) \in Frames
                                 /\ Quiet(Frame("turn", None, phase[s]))
  BY ClientsAssumption DEF TypeOK, AckFrame, Frame, Frames, Quiet, Terminal

\* A frame is put into a channel by a delivery, or it is quiet; a client only takes
\* frames off, and the channel of a stream that ends is gone.
PutIn(s, f) ==
    /\ Receiving(s) /\ queue'[s] = Append(queue[s], f)
    /\ Quiet(f) \/ (f = fanFrame /\ SendToStream(s))

\* The channels after a step.
LEMMA QueueSteps ==
    ASSUME TypeOK, Places, Next, NEW s \in Streams
    PROVE  \/ queue'[s] = queue[s]
           \/ queue'[s] = <<>> /\ ~Receiving(s)'
           \/ /\ queue[s] # <<>> /\ queue'[s] = Tail(queue[s]) /\ s = Cur(s[1])
              /\ Pop(s)
              /\ ReadAck(s[1]) \/ HandleFrame(s[1])
           \/ \E f \in Frames : PutIn(s, f)
  <1>q. queue \in [Streams -> Seq(Frames)]
    BY DEF TypeOK
  <1>1. ASSUME NEW c \in Clients, ClientNext(c), queue'[s] # queue[s]
        PROVE  \/ queue'[s] = <<>> /\ ~Receiving(s)'
               \/ /\ queue[s] # <<>> /\ queue'[s] = Tail(queue[s]) /\ s = Cur(s[1])
                  /\ Pop(s)
                  /\ ReadAck(s[1]) \/ HandleFrame(s[1])
               \/ \E f \in Frames : PutIn(s, f)
    <2>e. ASSUME Exit(c), cpc[c] # "opening" \/ handler[Cur(c)] \in {"called", "serving"}
          PROVE  queue'[s] = <<>> /\ ~Receiving(s)'
      <3>1. s = Cur(c) /\ queue'[s] = <<>>
        BY <1>1, <1>q, <2>e DEF Exit
      <3>2. s[1] = c /\ StreamPlace(s)
        BY <3>1 DEF Cur, Places
      <3>3. handler[s] \notin {"minted", "acked", "replay"}
        BY <2>e, <3>1, <3>2 DEF StreamPlace, Opening
      <3>4. handler'[s] \notin {"minted", "acked", "replay", "serving"}
        BY <2>e, <3>1, <3>3 DEF Exit, TypeOK
      <3> QED BY <3>1, <3>4 DEF Receiving
    <2>2. CASE SendWorking(c)
      <3>1. s = Cur(c) /\ Receiving(s) /\ queue'[s] = Append(queue[s], Frame("turn", c, "working"))
        BY <1>1, <1>q, <2>2 DEF SendWorking, Push
      <3> QED BY <3>1, QuietFrames DEF PutIn
    <2>3. CASE ReadAck(c) \/ HandleFrame(c)
      <3>0. CASE Exit(c)
        BY <3>0, <2>3, <2>e DEF ReadAck, HandleFrame
      <3>1. CASE Pop(Cur(c)) /\ queue[Cur(c)] # <<>>
        <4>2. s = Cur(c) /\ queue'[s] = Tail(queue[s])
          BY <1>1, <1>q, <3>1 DEF Pop
        <4>3. s[1] = c
          BY <4>2 DEF Cur
        <4> QED BY <2>3, <3>1, <4>2, <4>3
      <3> QED BY <2>3, <3>0, <3>1 DEF ReadAck, HandleFrame
    <2>4. CASE Open(c) \/ Notify(c) \/ RecordWorking(c) \/ SetPhase(c) \/ NoticeEnd(c)
      BY <1>1, <2>4 DEF Open, Notify, RecordWorking, SetPhase, NoticeEnd, streamVars
    <2>5. CASE Refused(c) \/ Admit(c) \/ IngestDropped(c) \/ GetTurnState(c)
      BY <1>1, <2>e, <2>5 DEF Refused, Admit, IngestDropped, GetTurnState
    <2> QED BY <1>1, <2>2, <2>3, <2>4, <2>5 DEF ClientNext
  <1>2. ASSUME NEW t \in Streams, StreamNext(t), queue'[s] # queue[s]
        PROVE  (queue'[s] = <<>> /\ ~Receiving(s)') \/ \E f \in Frames : PutIn(s, f)
    <2>1. CASE SendAck(t)
      <3>1. s = t /\ Receiving(s) /\ queue'[s] = Append(queue[s], AckFrame)
        BY <1>2, <1>q, <2>1 DEF SendAck, Push, Receiving
      <3> QED BY <3>1, QuietFrames DEF PutIn
    <2>2. CASE ReplayTurnState(t)
      <3>1. s = t /\ Receiving(s) /\ queue'[s] = Append(queue[s], Frame("turn", None, phase[s]))
        BY <1>2, <1>q, <2>2 DEF ReplayTurnState, Push, Receiving
      <3> QED BY <3>1, QuietFrames DEF PutIn
    <2>3. CASE SendToStream(t)
      <3>1. s = t /\ Receiving(s) /\ queue'[s] = Append(queue[s], fanFrame) /\ s \in fanLeft
        BY <1>2, <1>q, <2>3 DEF SendToStream, Push
      <3>2. fanFrame \in Frames
        BY DEF TypeOK
      <3> QED BY <3>1, <3>2, <2>3 DEF PutIn
    <2>4. CASE MintChannelStream(t) \/ BeginReplay(t) \/ UnregisterChannelStream(t)
      BY <1>2, <2>4 DEF MintChannelStream, BeginReplay, UnregisterChannelStream
    <2>5. CASE Abandon(t) \/ StreamEnds(t)
      <3>1. s = t /\ queue'[s] = <<>>
        BY <1>2, <1>q, <2>5 DEF Abandon, StreamEnds
      <3>2. handler'[s] \in {"leaked", "draining"}
        BY <3>1, <2>5 DEF Abandon, StreamEnds, TypeOK
      <3> QED BY <3>1, <3>2 DEF Receiving
    <2> QED BY <1>2, <2>1, <2>2, <2>3, <2>4, <2>5 DEF StreamNext
  <1>3. CASE HarnessNext
    BY <1>3 DEF HarnessNext, Subscribe, Forward, ForwarderEnds, SubscriptionClosed, NextMessage,
                DeliverStart, DeliverStreamItem, LoopReturns, DeliverReply, RecordOutcome,
                DeliverTurnState, TurnEnds, streamVars
  <1>4. CASE FaultNext
    BY <1>4 DEF FaultNext, DeliveryFails, HarnessRestart, SubscriptionBreaks, RelayRestart,
                streamVars, Receiving
  <1> QED BY <1>1, <1>2, <1>3, <1>4 DEF Next

\* A delivery starts when none is under way, and goes to the streams of the table.
Starts(f) == fanLeft = {} /\ fanFrame' = f /\ fanLeft' = reg

\* The delivery under way after a step.
LEMMA FanSteps ==
    ASSUME TypeOK, Next, fanLeft' # {}
    PROVE  \/ fanLeft # {} /\ fanFrame' = fanFrame /\ fanLeft' \subseteq fanLeft
           \/ DeliverStart /\ Starts(Frame("turn", turn, "working"))
           \/ DeliverStreamItem /\ Starts(Item(turn))
           \/ DeliverReply /\ Starts(Frame("reply", turn, "none"))
           \/ DeliverTurnState /\ Starts(Frame("turn", turn, outcome[turn]))
  <1>1. ASSUME NEW c \in Clients, ClientNext(c) PROVE UNCHANGED fanVars
    BY <1>1 DEF ClientNext, Open, Refused, Admit, Notify, RecordWorking, SetPhase, SendWorking,
                IngestDropped, ReadAck, GetTurnState, HandleFrame, NoticeEnd
  <1>2. ASSUME NEW s \in Streams, StreamNext(s)
        PROVE  UNCHANGED fanVars \/ SendToStream(s)
    BY <1>2 DEF StreamNext, MintChannelStream, SendAck, BeginReplay, ReplayTurnState, Abandon,
                StreamEnds, UnregisterChannelStream
  <1>3. ASSUME HarnessNext
        PROVE  \/ UNCHANGED fanVars
               \/ DeliverStart \/ DeliverStreamItem \/ DeliverReply \/ DeliverTurnState
    BY <1>3 DEF HarnessNext, Subscribe, Forward, ForwarderEnds, SubscriptionClosed, NextMessage,
                LoopReturns, RecordOutcome, TurnEnds
  <1>4. ASSUME FaultNext PROVE UNCHANGED fanVars
    BY <1>4 DEF FaultNext, DeliveryFails, HarnessRestart, SubscriptionBreaks, RelayRestart
  <1>5. CASE UNCHANGED fanVars
    BY <1>5 DEF fanVars
  <1>6. ASSUME NEW s \in Streams, SendToStream(s)
        PROVE  fanLeft # {} /\ fanFrame' = fanFrame /\ fanLeft' \subseteq fanLeft
    <2>1. fanLeft # {s}
      BY <1>6 DEF SendToStream
    <2> QED BY <1>6, <2>1 DEF SendToStream
  <1>7. CASE DeliverStart
    BY <1>7 DEF DeliverStart, FanOut, Starts
  <1>8. CASE DeliverStreamItem
    BY <1>8 DEF DeliverStreamItem, FanOut, Starts, Item
  <1>9. CASE DeliverReply
    BY <1>9 DEF DeliverReply, FanOut, Starts
  <1>10. CASE DeliverTurnState
    BY <1>10 DEF DeliverTurnState, FanOut, Starts
  <1> QED BY <1>1, <1>2, <1>3, <1>4, <1>5, <1>6, <1>7, <1>8, <1>9, <1>10 DEF Next

\* An outcome is given once, when the loop of the turn returns.
LEMMA OutcomeSteps ==
    ASSUME TypeOK, Line, Next
    PROVE  \A c \in Clients : /\ outcome'[c] = outcome[c] \/ outcome[c] = "none"
                              /\ outcome'[c] # outcome[c] => turn = c /\ hpc = "run"
  <1>1. \/ outcome' = outcome
        \/ \E o \in Outcomes : LoopReturns(o)
    <2>1. ASSUME NEW c \in Clients, ClientNext(c) PROVE outcome' = outcome
      BY <2>1 DEF ClientNext, Open, Refused, Admit, Notify, RecordWorking, SetPhase, SendWorking,
                  IngestDropped, ReadAck, GetTurnState, HandleFrame, NoticeEnd, harnessVars
    <2>2. ASSUME NEW s \in Streams, StreamNext(s) PROVE outcome' = outcome
      BY <2>2 DEF StreamNext, MintChannelStream, SendAck, BeginReplay, ReplayTurnState, Abandon,
                  StreamEnds, UnregisterChannelStream, SendToStream, harnessVars
    <2>3. ASSUME HarnessNext PROVE outcome' = outcome \/ \E o \in Outcomes : LoopReturns(o)
      BY <2>3 DEF HarnessNext, Subscribe, Forward, ForwarderEnds, SubscriptionClosed, NextMessage,
                  DeliverStart, DeliverStreamItem, DeliverReply, RecordOutcome, DeliverTurnState,
                  TurnEnds, harnessVars
    <2>4. ASSUME FaultNext PROVE outcome' = outcome
      BY <2>4 DEF FaultNext, DeliveryFails, HarnessRestart, SubscriptionBreaks, RelayRestart,
                  harnessVars
    <2> QED BY <2>1, <2>2, <2>3, <2>4 DEF Next
  <1>2. ASSUME NEW o \in Outcomes, LoopReturns(o), NEW c \in Clients
        PROVE  /\ outcome'[c] = outcome[c] \/ outcome[c] = "none"
               /\ outcome'[c] # outcome[c] => turn = c /\ hpc = "run"
    BY <1>2 DEF LoopReturns, Line, Loop, TypeOK
  <1> QED BY <1>1, <1>2

\* What a frame says of an ended turn stays true.
LEMMA TrueKept ==
    ASSUME TypeOK, Line, Next, NEW f, FrameTrue(f)
    PROVE  FrameTrue(f)'
  BY OutcomeSteps DEF FrameTrue, Terminal

\* The step of one client leaves the others alone.
LEMMA OthersKept ==
    ASSUME TypeOK, NEW c \in Clients, ClientNext(c), NEW d \in Clients, d # c
    PROVE  /\ cpc'[d] = cpc[d] /\ conn'[d] = conn[d] /\ got'[d] = got[d]
           /\ record'[d] = record[d] /\ (d \in overtaken' <=> d \in overtaken)
  <1>1. \E p : cpc' = [cpc EXCEPT ![c] = p]
    <2>1. cpc = [cpc EXCEPT ![c] = cpc[c]]
      BY DEF TypeOK
    <2> QED BY <2>1 DEF ClientNext, Open, Refused, Admit, Notify, RecordWorking, SetPhase,
                  SendWorking, IngestDropped, ReadAck, GetTurnState, HandleFrame, NoticeEnd
  <1>2. conn' = conn \/ conn' = [conn EXCEPT ![c] = conn[c] + 1]
    BY DEF ClientNext, Open, Refused, Admit, Notify, RecordWorking, SetPhase, SendWorking,
           IngestDropped, ReadAck, GetTurnState, HandleFrame, NoticeEnd
  <1>3. got'[d] = got[d]
    BY DEF ClientNext, Open, Refused, Admit, Notify, RecordWorking, SetPhase, SendWorking,
           IngestDropped, ReadAck, GetTurnState, HandleFrame, NoticeEnd, TypeOK
  <1>4. record' = record \/ record' = [record EXCEPT ![c] = "working"]
    BY DEF ClientNext, Open, Refused, Admit, Notify, RecordWorking, SetPhase, SendWorking,
           IngestDropped, ReadAck, GetTurnState, HandleFrame, NoticeEnd
  <1>5. overtaken' = overtaken \/ overtaken' = overtaken \cup {c}
    BY DEF ClientNext, Open, Refused, Admit, Notify, RecordWorking, SetPhase, SendWorking,
           IngestDropped, ReadAck, GetTurnState, HandleFrame, NoticeEnd, historyVars
  <1> QED BY <1>1, <1>2, <1>3, <1>4, <1>5 DEF TypeOK

\* Streams, the harness and faults leave the clients where they are, or end them.
LEMMA ClientsKept ==
    ASSUME TypeOK, (\E s \in Streams : StreamNext(s)) \/ HarnessNext \/ FaultNext,
           NEW d \in Clients
    PROVE  /\ cpc'[d] \in {cpc[d], "error"} /\ conn' = conn /\ got' = got
           /\ overtaken' = overtaken
  <1>1. ASSUME NEW s \in Streams, StreamNext(s)
        PROVE  /\ cpc' = cpc \/ cpc' = [cpc EXCEPT ![s[1]] = "error"]
               /\ conn' = conn /\ got' = got /\ overtaken' = overtaken
    BY <1>1 DEF StreamNext, MintChannelStream, SendAck, BeginReplay, ReplayTurnState, Abandon,
                StreamEnds, UnregisterChannelStream, SendToStream, clientVars, historyVars
  <1>2. ASSUME HarnessNext
        PROVE  cpc' = cpc /\ conn' = conn /\ got' = got /\ overtaken' = overtaken
    BY <1>2 DEF HarnessNext, Subscribe, Forward, ForwarderEnds, SubscriptionClosed, NextMessage,
                DeliverStart, DeliverStreamItem, LoopReturns, DeliverReply, RecordOutcome,
                DeliverTurnState, TurnEnds, clientVars, historyVars
  <1>3. ASSUME FaultNext
        PROVE  /\ cpc'[d] \in {cpc[d], "error"} /\ conn' = conn /\ got' = got
               /\ overtaken' = overtaken
    BY <1>3 DEF FaultNext, DeliveryFails, HarnessRestart, SubscriptionBreaks, RelayRestart,
                clientVars, historyVars
  <1>4. ASSUME NEW s \in Streams, cpc' = cpc \/ cpc' = [cpc EXCEPT ![s[1]] = "error"]
        PROVE  cpc'[d] \in {cpc[d], "error"}
    BY <1>4 DEF TypeOK
  <1> QED BY <1>1, <1>2, <1>3, <1>4

----------------------------------------------------------------------------
(* Frames and records tell the truth *)

\* Every step keeps the frames true, those in channels and the one under way.
LEMMA StepFrames ==
    ASSUME TypeOK, Places, Line, Truth, Next
    PROVE  /\ \A s \in Streams : \A i \in 1..Len(queue'[s]) : FrameTrue(queue[s][i])'
           /\ fanLeft' # {} => FrameTrue(fanFrame)'
  <1>1. ASSUME NEW s \in Streams, NEW i \in 1..Len(queue'[s]) PROVE FrameTrue(queue[s][i])'
    <2>q. queue[s] \in Seq(Frames)
      BY DEF TypeOK
    <2>t. \A j \in 1..Len(queue[s]) : FrameTrue(queue[s][j])
      BY DEF Truth
    <2>a. ASSUME NEW f, f = queue'[s][i], FrameTrue(f) PROVE FrameTrue(queue[s][i])'
      <3>1. FrameTrue(f)'
        BY <2>a, TrueKept
      <3> QED BY <3>1, <2>a DEF FrameTrue
    <2>1. CASE queue'[s] = queue[s]
      BY <2>1, <2>t, <2>a
    <2>2. CASE queue'[s] = <<>>
      BY <2>2
    <2>3. CASE queue[s] # <<>> /\ queue'[s] = Tail(queue[s])
      <3>1. i + 1 \in 1..Len(queue[s]) /\ queue'[s][i] = queue[s][i + 1]
        BY <2>3, <2>q
      <3> QED BY <3>1, <2>t, <2>a
    <2>4. ASSUME NEW f \in Frames, PutIn(s, f) PROVE FrameTrue(queue[s][i])'
      <3>0. queue'[s] = Append(queue[s], f)
        BY <2>4 DEF PutIn
      <3>1. CASE i \in 1..Len(queue[s])
        <4>1. queue'[s][i] = queue[s][i]
          BY <3>0, <3>1, <2>q
        <4> QED BY <4>1, <3>1, <2>t, <2>a
      <3>2. CASE i \notin 1..Len(queue[s])
        <4>1. queue'[s][i] = f
          BY <3>0, <3>2, <2>q
        <4>2. FrameTrue(f)
          BY <2>4 DEF PutIn, Quiet, FrameTrue, Truth, SendToStream
        <4> QED BY <4>1, <4>2, <2>a
      <3> QED BY <3>1, <3>2
    <2> QED BY <2>1, <2>2, <2>3, <2>4, QueueSteps
  <1>2. ASSUME fanLeft' # {} PROVE FrameTrue(fanFrame)'
    <2>a. ASSUME NEW f, f = fanFrame', FrameTrue(f) PROVE FrameTrue(fanFrame)'
      <3>1. FrameTrue(f)'
        BY <2>a, TrueKept
      <3> QED BY <3>1, <2>a DEF FrameTrue
    <2>1. CASE fanLeft # {} /\ fanFrame' = fanFrame
      BY <2>1, <2>a DEF Truth
    <2>2. ASSUME NEW k, NEW d, NEW s, Starts(Frame(k, d, s)),
                 k = "turn" /\ s \in Terminal /\ d \in Clients => s = outcome[d]
          PROVE  FrameTrue(fanFrame)'
      <3>1. FrameTrue(Frame(k, d, s))
        BY <2>2, FrameFields DEF FrameTrue
      <3> QED BY <2>2, <3>1, <2>a DEF Starts
    <2>3. CASE DeliverStart /\ Starts(Frame("turn", turn, "working"))
      BY <2>3, <2>2 DEF Terminal
    <2>4. CASE DeliverStreamItem /\ Starts(Item(turn))
      BY <2>4, <2>2 DEF Item
    <2>5. CASE DeliverReply /\ Starts(Frame("reply", turn, "none"))
      BY <2>5, <2>2
    <2>6. CASE DeliverTurnState /\ Starts(Frame("turn", turn, outcome[turn]))
      BY <2>6, <2>2
    <2> QED BY <1>2, <2>1, <2>3, <2>4, <2>5, <2>6, FanSteps
  <1> QED BY <1>1, <1>2

\* A client that stays where it is, or goes, and whose record stays.
LEMMA RecordKept ==
    ASSUME TypeOK, Line, Next, NEW d \in Clients, RecordTrue(d), record'[d] = record[d],
           cpc'[d] = cpc[d] \/ (cpc'[d] \notin Terminal /\ (Recorded(d)' => Recorded(d))),
           conn'[d] = conn[d], forgotten \subseteq forgotten'
    PROVE  RecordTrue(d)'
  <1>1. outcome'[d] = outcome[d] \/ outcome[d] = "none"
    BY OutcomeSteps
  <1>2. "none" \notin Terminal
    BY DEF Terminal
  <1>3. Recorded(d)' => Recorded(d)
    BY DEF Recorded
  <1>4. record[d] \in Terminal => outcome'[d] = record[d]
    BY <1>1, <1>2 DEF RecordTrue
  <1>5. cpc[d] \in Terminal => outcome'[d] = cpc[d] \/ d \in forgotten
    BY <1>1, <1>2 DEF RecordTrue
  <1>6. /\ record'[d] \in Terminal => record'[d] = outcome'[d]
        /\ cpc'[d] \in Terminal => outcome'[d] = cpc'[d] \/ d \in forgotten'
    BY <1>4, <1>5
  <1>7. Recorded(d)' => record'[d] # "none" \/ d \in forgotten'
    BY <1>3 DEF RecordTrue
  <1> QED BY <1>6, <1>7 DEF RecordTrue

\* Every step keeps the records true, and what clients were told.
LEMMA StepRecords ==
    ASSUME TypeOK, Places, Line, Truth, Next
    PROVE  \A d \in Clients : RecordTrue(d)'
  <1>t. \A d \in Clients : RecordTrue(d)
    BY DEF Truth
  <1>1. ASSUME NEW c \in Clients, ClientNext(c), NEW d \in Clients PROVE RecordTrue(d)'
    <2>c. cpc[c] # "ready" => conn[c] \in Nat /\ conn[c] > 0
      BY Connected DEF TypeOK
    <2>e. outcome' = outcome /\ forgotten' = forgotten
      BY <1>1 DEF ClientNext, Open, Refused, Admit, Notify, RecordWorking, SetPhase, SendWorking,
                  IngestDropped, ReadAck, GetTurnState, HandleFrame, NoticeEnd, harnessVars,
                  historyVars
    <2>m. ASSUME NEW p, cpc' = [cpc EXCEPT ![c] = p], conn' = conn, record' = record,
                 p \notin Terminal,
                 p \in {"lookup", "send", "listen", "broken", "poll", "opening"} => Recorded(c)
          PROVE  RecordTrue(d)'
      <3>1. CASE d = c
        <4>1. cpc'[c] = p
          BY <2>m DEF TypeOK
        <4>2. Recorded(c)' => Recorded(c)
          BY <4>1, <2>m DEF Recorded
        <4> QED BY <3>1, <4>1, <4>2, <2>m, <2>e, <1>t, RecordKept
      <3>2. CASE d # c
        <4>1. cpc'[d] = cpc[d]
          BY <2>m, <3>2 DEF TypeOK
        <4> QED BY <4>1, <2>m, <2>e, <1>t, RecordKept
      <3> QED BY <3>1, <3>2
    <2>o. "error" \notin Terminal /\ "listen" \notin Terminal
      BY DEF Terminal
    <2>1. CASE Open(c)
      <3>1. CASE d # c
        <4>1. cpc'[d] = cpc[d] /\ conn'[d] = conn[d] /\ record' = record
          BY <2>1, <3>1 DEF Open, TypeOK
        <4> QED BY <4>1, <2>e, <1>t, RecordKept
      <3>2. CASE d = c
        <4>1. /\ cpc'[c] = "opening" /\ conn'[c] = conn[c] + 1 /\ record' = record
              /\ cpc[c] \in {"ready", "broken"}
          BY <2>1 DEF Open, TypeOK
        <4>2. Recorded(c)' => Recorded(c)
          <5>1. CASE cpc[c] = "broken"
            BY <5>1 DEF Recorded
          <5>2. CASE cpc[c] = "ready"
            <6>1. conn[c] = 0
              BY <5>2 DEF Places, ClientPlace
            <6> QED BY <4>1, <6>1 DEF Recorded
          <5> QED BY <4>1, <5>1, <5>2
        <4>3. "opening" \notin Terminal
          BY DEF Terminal
        <4> QED BY <3>2, <4>1, <4>2, <4>3, <2>e, <1>t DEF RecordTrue
      <3> QED BY <3>1, <3>2
    <2>2. CASE Refused(c)
      BY <2>2, <2>m, <2>o DEF Refused
    <2>3. CASE Admit(c)
      <3>1. PICK p \in {"notify", "error"} : cpc' = [cpc EXCEPT ![c] = p]
        BY <2>3 DEF Admit
      <3>2. p \notin Terminal
        BY <3>1 DEF Terminal
      <3> QED BY <2>3, <3>1, <3>2, <2>m DEF Admit
    <2>4. CASE Notify(c)
      <3>2. "record" \notin Terminal
        BY DEF Terminal
      <3> QED BY <2>4, <3>2, <2>m DEF Notify
    <2>5. CASE RecordWorking(c)
      <3>1. CASE d # c
        <4>1. cpc'[d] = cpc[d] /\ record'[d] = record[d] /\ conn' = conn
          BY <2>5, <3>1 DEF RecordWorking, TypeOK
        <4> QED BY <4>1, <2>e, <1>t, RecordKept
      <3>2. CASE d = c
        <4>1. record'[c] = "working" /\ cpc'[c] = "lookup"
          BY <2>5 DEF RecordWorking, TypeOK
        <4> QED BY <3>2, <4>1 DEF RecordTrue, Terminal
      <3> QED BY <3>1, <3>2
    <2>6. CASE SetPhase(c)
      <3>1. PICK p \in {"send", "listen"} : cpc' = [cpc EXCEPT ![c] = p]
        BY <2>6 DEF SetPhase
      <3>2. p \notin Terminal /\ Recorded(c)
        BY <2>6, <3>1 DEF Terminal, SetPhase, Recorded
      <3> QED BY <2>6, <3>1, <3>2, <2>m DEF SetPhase
    <2>7. CASE SendWorking(c)
      <3>1. Recorded(c)
        BY <2>7 DEF SendWorking, Recorded
      <3> QED BY <2>7, <3>1, <2>m, <2>o DEF SendWorking
    <2>8. CASE IngestDropped(c)
      BY <2>8, <2>m, <2>o DEF IngestDropped
    <2>9. CASE ReadAck(c)
      <3>1. PICK p \in {"ingest", "poll", "error"} :
               cpc' = [cpc EXCEPT ![c] = p] /\ (p = "poll" => conn[c] # 1)
        BY <2>9 DEF ReadAck
      <3>2. p = "poll" => Recorded(c)
        BY <2>9, <3>1, <2>c DEF ReadAck, Recorded
      <3>3. p \notin Terminal
        BY <3>1 DEF Terminal
      <3> QED BY <2>9, <3>1, <3>2, <3>3, <2>m DEF ReadAck
    <2>10. CASE GetTurnState(c)
      <3>0. Recorded(c)
        BY <2>10 DEF GetTurnState, Recorded
      <3>1. CASE record[c] = "working"
        BY <2>10, <3>0, <3>1, <2>m, <2>o DEF GetTurnState
      <3>2. CASE record[c] # "working" /\ d = c
        <4>1. PICK p \in Terminal : p = IF record[c] = "none" THEN "idle" ELSE record[c]
          BY <3>2 DEF TypeOK, Terminal
        <4>2. cpc'[c] = p /\ record' = record /\ conn' = conn
          BY <2>10, <3>2, <4>1 DEF GetTurnState, TypeOK
        <4>3. RecordTrue(c)
          BY <1>t
        <4>4. outcome[c] = p \/ c \in forgotten
          BY <4>1, <4>3, <3>0, <3>2 DEF RecordTrue
        <4>5. ~Recorded(c)'
          BY <4>1, <4>2 DEF Recorded, Terminal
        <4> QED BY <3>2, <4>2, <4>3, <4>4, <4>5, <2>e DEF RecordTrue
      <3>3. CASE record[c] # "working" /\ d # c
        <4>1. cpc'[d] = cpc[d] /\ record' = record /\ conn' = conn
          BY <2>10, <3>3 DEF GetTurnState, TypeOK
        <4> QED BY <4>1, <2>e, <1>t, RecordKept
      <3> QED BY <3>1, <3>2, <3>3
    <2>11. CASE HandleFrame(c)
      <3>1. PICK f : f = Head(queue[Cur(c)])
        OBVIOUS
      <3>2. CASE ~(f.kind = "turn" /\ f.conv = c /\ f.state \in Terminal)
        <4>1. cpc' = cpc /\ record' = record /\ conn' = conn
          BY <2>11, <3>1, <3>2 DEF HandleFrame
        <4> QED BY <4>1, <2>e, <1>t, RecordKept
      <3>3. CASE f.kind = "turn" /\ f.conv = c /\ f.state \in Terminal
        <4>1. cpc' = [cpc EXCEPT ![c] = f.state] /\ record' = record /\ conn' = conn
          BY <2>11, <3>1, <3>3 DEF HandleFrame
        <4>2. Cur(c) \in Streams /\ queue[Cur(c)] # <<>>
          BY <2>11, <2>c, CurIs DEF HandleFrame
        <4>3. 1 \in 1..Len(queue[Cur(c)]) /\ f = queue[Cur(c)][1]
          BY <4>2, <3>1 DEF TypeOK
        <4>4. FrameTrue(f)
          BY <4>2, <4>3 DEF Truth
        <4>5. f.state = outcome[c]
          BY <4>4, <3>3 DEF FrameTrue
        <4>6. CASE d = c
          <5>1. cpc'[c] = f.state
            BY <4>1 DEF TypeOK
          <5>2. ~Recorded(c)'
            BY <5>1, <3>3 DEF Recorded, Terminal
          <5>3. RecordTrue(c)
            BY <1>t
          <5> QED BY <4>1, <4>5, <4>6, <5>1, <5>2, <5>3, <2>e DEF RecordTrue
        <4>7. CASE d # c
          <5>1. cpc'[d] = cpc[d]
            BY <4>1, <4>7 DEF TypeOK
          <5> QED BY <5>1, <4>1, <2>e, <1>t, RecordKept
        <4> QED BY <4>6, <4>7
      <3> QED BY <3>2, <3>3
    <2>12. CASE NoticeEnd(c)
      <3>1. PICK p \in {"broken", "error"} :
               cpc' = [cpc EXCEPT ![c] = p] /\ (p = "broken" => cpc[c] = "listen")
        BY <2>12 DEF NoticeEnd
      <3>2. (p = "broken" => Recorded(c)) /\ p \notin Terminal
        BY <3>1 DEF Recorded, Terminal
      <3> QED BY <2>12, <3>1, <3>2, <2>m DEF NoticeEnd
    <2> QED
      BY <1>1, <2>1, <2>2, <2>3, <2>4, <2>5, <2>6, <2>7, <2>8, <2>9, <2>10, <2>11, <2>12
      DEF ClientNext
  <1>2. ASSUME NEW s \in Streams, StreamNext(s), NEW d \in Clients PROVE RecordTrue(d)'
    <2>1. UNCHANGED <<record, conn, forgotten>>
      BY <1>2 DEF StreamNext, MintChannelStream, SendAck, BeginReplay, ReplayTurnState, Abandon,
                  StreamEnds, UnregisterChannelStream, SendToStream, clientVars, historyVars
    <2>2. cpc' = cpc \/ cpc' = [cpc EXCEPT ![s[1]] = "error"]
      BY <1>2 DEF StreamNext, MintChannelStream, SendAck, BeginReplay, ReplayTurnState, Abandon,
                  StreamEnds, UnregisterChannelStream, SendToStream, clientVars
    <2>3. cpc'[d] \in {cpc[d], "error"}
      BY <2>2 DEF TypeOK
    <2>4. cpc'[d] = cpc[d] \/ (cpc'[d] \notin Terminal /\ ~Recorded(d)')
      BY <2>3 DEF Terminal, Recorded
    <2> QED BY <2>1, <2>4, <1>t, RecordKept
  <1>3. ASSUME HarnessNext, NEW d \in Clients PROVE RecordTrue(d)'
    <2>1. UNCHANGED <<cpc, conn, forgotten>>
      BY <1>3 DEF HarnessNext, Subscribe, Forward, ForwarderEnds, SubscriptionClosed, NextMessage,
                  DeliverStart, DeliverStreamItem, LoopReturns, DeliverReply, RecordOutcome,
                  DeliverTurnState, TurnEnds, clientVars, historyVars
    <2>2. CASE record'[d] = record[d]
      BY <2>1, <2>2, <1>t, RecordKept
    <2>3. CASE record'[d] # record[d]
      <3>1. RecordOutcome
        BY <1>3, <2>3 DEF HarnessNext, Subscribe, Forward, ForwarderEnds, SubscriptionClosed,
              NextMessage, DeliverStart, DeliverStreamItem, LoopReturns, DeliverReply,
              DeliverTurnState, TurnEnds
      <3>2. d = turn /\ record'[d] = outcome[d] /\ outcome' = outcome
        BY <3>1, <2>3 DEF RecordOutcome, TypeOK
      <3>3. outcome[d] \in Terminal
        BY <3>1, <3>2 DEF RecordOutcome, Line, Loop
      <3>4. RecordTrue(d) /\ (Recorded(d)' <=> Recorded(d))
        BY <1>t, <2>1 DEF Recorded
      <3>5. record'[d] # "none"
        BY <3>2, <3>3 DEF Terminal
      <3> QED BY <2>1, <3>2, <3>4, <3>5 DEF RecordTrue
    <2> QED BY <2>2, <2>3
  <1>4. ASSUME FaultNext, NEW d \in Clients PROVE RecordTrue(d)'
    <2>1. CASE DeliveryFails \/ HarnessRestart \/ SubscriptionBreaks
      BY <2>1, <1>t, RecordKept DEF DeliveryFails, HarnessRestart, SubscriptionBreaks, clientVars,
                                    historyVars
    <2>2. CASE RelayRestart
      <3>1. /\ record'[d] = "none" /\ (record[d] # "none" => d \in forgotten')
            /\ forgotten \subseteq forgotten' /\ outcome' = outcome /\ conn' = conn
            /\ cpc'[d] \in {cpc[d], "error"}
        BY <2>2 DEF RelayRestart
      <3>2. RecordTrue(d) /\ (Recorded(d)' => Recorded(d))
        BY <1>t, <3>1 DEF Recorded
      <3>3. "none" \notin Terminal /\ "error" \notin Terminal
        BY DEF Terminal
      <3> QED BY <3>1, <3>2, <3>3 DEF RecordTrue
    <2> QED BY <1>4, <2>1, <2>2 DEF FaultNext
  <1> QED BY <1>1, <1>2, <1>3, <1>4 DEF Next

\* Every step keeps frames and records true.
LEMMA StepTruth ==
    ASSUME TypeOK, Places, Line, Truth, Next
    PROVE  Truth'
  BY StepFrames, StepRecords DEF Truth

----------------------------------------------------------------------------
(* The end of a turn *)

\* While a delivery is under way the message loop waits for it.
LEMMA LoopWaits ==
    ASSUME TypeOK, Delivery, Next, fanLeft # {}
    PROVE  \/ UNCHANGED <<hpc, turn, sent, outcome, over>>
           \/ fanLeft' = {} /\ (HarnessRestart \/ RelayRestart)
  <1>1. ASSUME NEW c \in Clients, ClientNext(c) PROVE UNCHANGED harnessVars
    BY <1>1 DEF ClientNext, Open, Refused, Admit, Notify, RecordWorking, SetPhase, SendWorking,
                IngestDropped, ReadAck, GetTurnState, HandleFrame, NoticeEnd
  <1>2. ASSUME NEW s \in Streams, StreamNext(s) PROVE UNCHANGED harnessVars
    BY <1>2 DEF StreamNext, MintChannelStream, SendAck, BeginReplay, ReplayTurnState, Abandon,
                StreamEnds, UnregisterChannelStream, SendToStream
  <1>3. ASSUME HarnessNext PROVE UNCHANGED harnessVars
    <2>1. hpc \in {"run", "outcome", "end"}
      BY DEF Delivery
    <2> QED BY <1>3, <2>1 DEF HarnessNext, Subscribe, Forward, ForwarderEnds, SubscriptionClosed,
              NextMessage, DeliverStart, DeliverStreamItem, LoopReturns, DeliverReply,
              RecordOutcome, DeliverTurnState, TurnEnds, FanOut
  <1>4. ASSUME FaultNext
        PROVE  UNCHANGED harnessVars \/ (fanLeft' = {} /\ (HarnessRestart \/ RelayRestart))
    BY <1>4 DEF FaultNext, DeliveryFails, HarnessRestart, SubscriptionBreaks, RelayRestart
  <1> QED BY <1>1, <1>2, <1>3, <1>4 DEF Next, harnessVars

\* Every step keeps what is delivered and where the loop is together.
LEMMA StepDelivery ==
    ASSUME TypeOK, Line, Delivery, Next
    PROVE  Delivery'
  <1>1. CASE fanLeft' = {}
    BY <1>1 DEF Delivery
  <1>2. CASE fanLeft' # {} /\ fanLeft # {} /\ fanFrame' = fanFrame
    <2>1. UNCHANGED <<hpc, turn, sent, outcome, over>>
      BY <1>2, LoopWaits
    <2> QED BY <1>2, <2>1 DEF Delivery
  <1>3. CASE DeliverStart /\ Starts(Frame("turn", turn, "working"))
    <2>1. fanFrame'.kind = "turn" /\ hpc' = "run"
      BY <1>3, FrameFields DEF DeliverStart, Starts
    <2> QED BY <2>1 DEF Delivery
  <1>4. CASE DeliverStreamItem /\ Starts(Item(turn))
    <2>1. fanFrame'.conv = turn /\ hpc' = "run" /\ turn' = turn
      BY <1>4, FrameFields DEF DeliverStreamItem, Starts, Item
    <2> QED BY <2>1 DEF Delivery
  <1>5. CASE DeliverReply /\ Starts(Frame("reply", turn, "none"))
    <2>1. fanFrame'.kind = "reply" /\ hpc' = "outcome"
      BY <1>5, FrameFields DEF DeliverReply, Starts
    <2> QED BY <2>1 DEF Delivery
  <1>6. CASE DeliverTurnState /\ Starts(Frame("turn", turn, outcome[turn]))
    <2>1. /\ fanFrame'.kind = "turn" /\ hpc' = "end" /\ turn' = turn /\ outcome' = outcome
          /\ fanFrame' = Frame("turn", turn, outcome[turn])
      BY <1>6, FrameFields DEF DeliverTurnState, Starts
    <2>2. fanFrame' = Frame("turn", turn', outcome'[turn'])
      BY <2>1
    <2> QED BY <2>1, <2>2 DEF Delivery
  <1> QED BY <1>1, <1>2, <1>3, <1>4, <1>5, <1>6, FanSteps

\* How a turn comes to its end.
LEMMA ClosingSteps ==
    ASSUME TypeOK, Line, Next, NEW c \in Clients
    PROVE  /\ Closing(c)' => Closing(c) \/ (RecordOutcome /\ turn = c)
           /\ Closed(c)' => Closed(c) \/ (DeliverTurnState /\ turn = c)
  <1>1. CASE UNCHANGED <<hpc, turn, over>>
    BY <1>1 DEF Closing, Closed
  <1>2. CASE HarnessNext
    BY <1>2, ClientsAssumption
    DEF HarnessNext, Subscribe, Forward, ForwarderEnds, SubscriptionClosed, NextMessage,
        DeliverStart, DeliverStreamItem, LoopReturns, DeliverReply, RecordOutcome,
        DeliverTurnState, TurnEnds, harnessVars, Closing, Closed
  <1>3. CASE FaultNext
    BY <1>3 DEF FaultNext, DeliveryFails, HarnessRestart, SubscriptionBreaks, RelayRestart,
                harnessVars, Closing, Closed
  <1>4. ASSUME NEW d \in Clients, ClientNext(d) PROVE UNCHANGED <<hpc, turn, over>>
    BY <1>4 DEF ClientNext, Open, Refused, Admit, Notify, RecordWorking, SetPhase, SendWorking,
                IngestDropped, ReadAck, GetTurnState, HandleFrame, NoticeEnd, harnessVars
  <1>5. ASSUME NEW s \in Streams, StreamNext(s) PROVE UNCHANGED <<hpc, turn, over>>
    BY <1>5 DEF StreamNext, MintChannelStream, SendAck, BeginReplay, ReplayTurnState, Abandon,
                StreamEnds, UnregisterChannelStream, SendToStream, harnessVars
  <1> QED BY <1>1, <1>2, <1>3, <1>4, <1>5 DEF Next

\* A turn that comes to its end has its outcome, and its message was sent.
LEMMA ClosingHas ==
    ASSUME TypeOK, Line, NEW c \in Clients, Closing(c)
    PROVE  outcome[c] \in Terminal /\ outcome[c] # "none" /\ ~Unsent(c)
  <1>1. outcome[c] \in Terminal
    BY DEF Closing, Closed, Line, LineOf, Loop
  <1> QED BY <1>1 DEF Line, LineOf, Terminal

\* Who records WORKING, and who moves to where the end is waited for.
LEMMA WaitingSteps ==
    ASSUME TypeOK, Places, Next, NEW c \in Clients
    PROVE  /\ record'[c] = "working" /\ record[c] # "working" =>
                 RecordWorking(c) \/ (RecordOutcome /\ turn = c)
           /\ cpc'[c] = "record" /\ cpc[c] # "record" => Notify(c)
           /\ cpc'[c] \in {"record", "lookup", "send", "listen"} =>
                 /\ conn'[c] = conn[c]
                 /\ \/ cpc[c] \in {"record", "lookup", "send", "listen"}
                    \/ Notify(c)
                    \/ GetTurnState(c) /\ record[c] = "working"
  <1>1. ASSUME NEW d \in Clients, ClientNext(d), d # c
        PROVE  cpc'[c] = cpc[c] /\ conn'[c] = conn[c] /\ record'[c] = record[c]
    BY <1>1, OthersKept
  <1>2. CASE ClientNext(c)
    <2>r. record'[c] = record[c] \/ RecordWorking(c)
      BY <1>2 DEF ClientNext, Open, Refused, Admit, Notify, SetPhase, SendWorking, IngestDropped,
                  ReadAck, GetTurnState, HandleFrame, NoticeEnd
    <2>t. \A x \in Terminal : x \notin {"record", "lookup", "send", "listen"}
      BY DEF Terminal
    <2>1. CASE Open(c)
      BY <2>1, <2>r DEF Open, TypeOK
    <2>2. CASE Refused(c) \/ IngestDropped(c) \/ NoticeEnd(c)
      BY <2>2, <2>r DEF Refused, IngestDropped, NoticeEnd, TypeOK
    <2>3. CASE Admit(c)
      BY <2>3, <2>r DEF Admit, TypeOK
    <2>4. CASE Notify(c)
      BY <2>4, <2>r DEF Notify
    <2>5. CASE RecordWorking(c) \/ SetPhase(c) \/ SendWorking(c)
      BY <2>5, <2>r DEF RecordWorking, SetPhase, SendWorking, TypeOK
    <2>6. CASE ReadAck(c)
      BY <2>6, <2>r DEF ReadAck, TypeOK
    <2>7. CASE GetTurnState(c)
      <3>1. CASE record[c] = "working"
        BY <2>7, <3>1, <2>r DEF GetTurnState, TypeOK
      <3>2. CASE record[c] # "working"
        <4>1. cpc'[c] \in Terminal
          BY <2>7, <3>2 DEF GetTurnState, TypeOK, Terminal
        <4> QED BY <4>1, <2>t, <2>r
      <3> QED BY <3>1, <3>2
    <2>8. CASE HandleFrame(c)
      <3>1. cpc'[c] \in Terminal \cup {"listen"} /\ cpc[c] = "listen" /\ conn' = conn
        BY <2>8 DEF HandleFrame, TypeOK
      <3> QED BY <3>1, <2>t, <2>r
    <2> QED BY <1>2, <2>1, <2>2, <2>3, <2>4, <2>5, <2>6, <2>7, <2>8 DEF ClientNext
  <1>3. ASSUME (\E s \in Streams : StreamNext(s)) \/ HarnessNext \/ FaultNext
        PROVE  /\ cpc'[c] \in {cpc[c], "error"} /\ conn' = conn
               /\ record'[c] \in {record[c], "none"} \/ (RecordOutcome /\ turn = c)
    <2>1. cpc'[c] \in {cpc[c], "error"} /\ conn' = conn
      BY <1>3, ClientsKept
    <2>2. ASSUME NEW s \in Streams, StreamNext(s) PROVE record' = record
      BY <2>2 DEF StreamNext, MintChannelStream, SendAck, BeginReplay, ReplayTurnState, Abandon,
                  StreamEnds, UnregisterChannelStream, SendToStream
    <2>3. ASSUME HarnessNext PROVE record'[c] = record[c] \/ (RecordOutcome /\ turn = c)
      <3>1. record' = record \/ RecordOutcome
        BY <2>3 DEF HarnessNext, Subscribe, Forward, ForwarderEnds, SubscriptionClosed,
              NextMessage, DeliverStart, DeliverStreamItem, LoopReturns, DeliverReply,
              DeliverTurnState, TurnEnds
      <3>2. CASE RecordOutcome
        BY <3>2 DEF RecordOutcome, TypeOK
      <3> QED BY <3>1, <3>2
    <2>4. ASSUME FaultNext PROVE record'[c] \in {record[c], "none"}
      BY <2>4 DEF FaultNext, DeliveryFails, HarnessRestart, SubscriptionBreaks, RelayRestart
    <2> QED BY <1>3, <2>1, <2>2, <2>3, <2>4
  <1> QED BY <1>1, <1>2, <1>3 DEF Next

\* The end that is ahead of a client stays ahead of it until the client reads it.
LEMMA EndStaysAhead ==
    ASSUME TypeOK, Places, Line, Delivery, Next, NEW c \in Clients,
           Closed(c), Waiting(c), EndAhead(c), Closed(c)', Waiting(c)'
    PROVE  EndAhead(c)'
  <1>1. PICK F : F = Frame("turn", c, outcome[c])
    OBVIOUS
  <1>2. outcome[c] \in Terminal /\ outcome'[c] = outcome[c]
    BY ClosingHas, OutcomeSteps DEF Closing
  <1>3. conn'[c] = conn[c] /\ cpc[c] # "ready"
    BY WaitingSteps DEF Waiting
  <1>4. PICK u \in Streams : u = Cur(c)
    BY <1>3, Connected, CurIs
  <1>5. u = Cur(c)' /\ u[1] = c /\ F = Frame("turn", c, outcome'[c])
    BY <1>1, <1>2, <1>3, <1>4 DEF Cur
  <1>6. handler'[u] = "serving" /\ Receiving(u) /\ Receiving(u)'
    BY <1>4, <1>5 DEF Waiting, Receiving
  <1>7. F.kind = "turn" /\ F.conv = c /\ F.state = outcome[c]
    BY <1>1, FrameFields
  <1>q. queue[u] \in Seq(Frames)
    BY DEF TypeOK
  <1>8. ASSUME In(F, queue[u]) PROVE In(F, queue'[u])
    <2>1. CASE queue'[u] = queue[u]
      BY <2>1, <1>8
    <2>2. CASE queue'[u] = <<>> /\ ~Receiving(u)'
      BY <2>2, <1>6
    <2>3. CASE /\ queue[u] # <<>> /\ queue'[u] = Tail(queue[u])
               /\ ReadAck(u[1]) \/ HandleFrame(u[1])
      <3>1. HandleFrame(c)
        BY <2>3, <1>5 DEF ReadAck, Waiting
      <3>2. Head(queue[u]) # F
        <4>1. ASSUME Head(queue[u]) = F PROVE FALSE
          <5>1. cpc' = [cpc EXCEPT ![c] = F.state]
            BY <3>1, <4>1, <1>2, <1>4, <1>7 DEF HandleFrame
          <5>2. cpc'[c] = outcome[c]
            BY <5>1, <1>7 DEF TypeOK
          <5> QED BY <5>2, <1>2 DEF Waiting, Terminal
        <4> QED BY <4>1
      <3>3. In(F, queue[u]) <=> F = Head(queue[u]) \/ In(F, Tail(queue[u]))
        BY <2>3, <1>q, InTail
      <3> QED BY <2>3, <3>2, <3>3, <1>8
    <2>4. ASSUME NEW f \in Frames, PutIn(u, f) PROVE In(F, queue'[u])
      BY <2>4, <1>8, <1>q, InAppend DEF PutIn
    <2> QED BY <2>1, <2>2, <2>3, <2>4, QueueSteps
  <1>9. CASE In(F, queue[u])
    BY <1>8, <1>9, <1>5 DEF EndAhead
  <1>10. CASE turn = c /\ hpc = "end" /\ u \in fanLeft
    <2>1. fanFrame = F /\ F \in Frames
      BY <1>1, <1>10 DEF Delivery, TypeOK
    <2>2. ~HarnessRestart /\ ~RelayRestart
      <3>1. ~RelayRestart
        BY <1>6 DEF RelayRestart, Receiving
      <3>2. c \notin over
        BY <1>10 DEF Line, LineOf
      <3>3. ASSUME HarnessRestart PROVE FALSE
        BY <3>2, <3>3, ClientsAssumption DEF HarnessRestart, Closed
      <3> QED BY <3>1, <3>3
    <2>3. hpc' = "end" /\ turn' = c
      BY <1>10, <2>2, LoopWaits
    <2>4. CASE u \in fanLeft'
      BY <2>3, <2>4, <1>5 DEF EndAhead
    <2>5. CASE u \notin fanLeft'
      <3>1. SendToStream(u)
        <4>1. ASSUME NEW d \in Clients, ClientNext(d) PROVE fanLeft' = fanLeft
          BY <4>1 DEF ClientNext, Open, Refused, Admit, Notify, RecordWorking, SetPhase,
                SendWorking, IngestDropped, ReadAck, GetTurnState, HandleFrame, NoticeEnd, fanVars
        <4>2. ASSUME NEW s \in Streams, StreamNext(s)
              PROVE  fanLeft' = fanLeft \/ (SendToStream(s) /\ fanLeft' = fanLeft \ {s})
          BY <4>2 DEF StreamNext, MintChannelStream, SendAck, BeginReplay, ReplayTurnState,
                Abandon, StreamEnds, UnregisterChannelStream, SendToStream, fanVars
        <4>3. ASSUME HarnessNext PROVE fanLeft' = fanLeft
          BY <4>3, <1>10 DEF HarnessNext, Subscribe, Forward, ForwarderEnds, SubscriptionClosed,
                NextMessage, DeliverStart, DeliverStreamItem, LoopReturns, DeliverReply,
                RecordOutcome, DeliverTurnState, TurnEnds, fanVars
        <4>4. ASSUME FaultNext PROVE fanLeft' = fanLeft
          BY <4>4, <2>2 DEF FaultNext, DeliveryFails, SubscriptionBreaks, fanVars
        <4> QED BY <1>10, <2>5, <4>1, <4>2, <4>3, <4>4 DEF Next
      <3>2. queue'[u] = Append(queue[u], F)
        BY <3>1, <1>6, <2>1 DEF SendToStream, Push, TypeOK
      <3>3. In(F, queue'[u])
        BY <3>2, <2>1, <1>q, InAppend
      <3> QED BY <3>3, <1>5 DEF EndAhead
    <2> QED BY <2>4, <2>5
  <1> QED BY <1>1, <1>4, <1>9, <1>10 DEF EndAhead

\* Every step keeps the end of a turn ahead of the client that waits for it.
LEMMA StepEnds ==
    ASSUME TypeOK, Places, Line, Truth, Ends, Next
    PROVE  Ends'
  <1>1. Delivery /\ Delivery'
    BY StepDelivery DEF Ends
  <1>2. ASSUME NEW c \in Clients PROVE EndsOf(c)'
    <2>e. EndsOf(c)
      BY DEF Ends
    <2>o. overtaken \subseteq overtaken'
      <3>1. ASSUME NEW d \in Clients, ClientNext(d) PROVE overtaken \subseteq overtaken'
        BY <3>1 DEF ClientNext, Open, Refused, Admit, Notify, RecordWorking, SetPhase,
              SendWorking, IngestDropped, ReadAck, GetTurnState, HandleFrame, NoticeEnd,
              historyVars
      <3> QED BY <3>1, ClientsKept DEF Next
    <2>n. Notify(c) => ~Closing(c) /\ ~Closing(c)'
      <3>1. ASSUME Notify(c) PROVE ~Closing(c) /\ ~Closing(c)'
        <4>1. Unsent(c) /\ UNCHANGED <<hpc, turn, over>>
          BY <3>1 DEF Notify, Unsent, harnessVars
        <4>2. ~Closing(c)
          BY <4>1, ClosingHas
        <4> QED BY <4>1, <4>2 DEF Closing, Closed
      <3> QED BY <3>1
    <2>1. ASSUME Closing(c)', c \notin overtaken', record'[c] = "working" PROVE FALSE
      <3>1. CASE RecordOutcome /\ turn = c
        <4>1. record'[c] = outcome[c]
          BY <3>1 DEF RecordOutcome, TypeOK
        <4>2. outcome[c] \in Terminal
          BY <3>1 DEF RecordOutcome, Line, Loop
        <4> QED BY <2>1, <4>1, <4>2 DEF Terminal
      <3>2. CASE Closing(c) /\ RecordWorking(c)
        <4>1. record[c] \in Terminal
          BY <3>2, <2>e DEF EndsOf, RecordWorking
        <4> QED BY <2>1, <3>2, <4>1 DEF RecordWorking
      <3>3. CASE Closing(c) /\ record[c] = "working"
        BY <2>1, <3>3, <2>e, <2>o DEF EndsOf
      <3> QED BY <2>1, <3>1, <3>2, <3>3, ClosingSteps, WaitingSteps
    <2>2. ASSUME Closing(c)', cpc'[c] = "record" PROVE record'[c] \in Terminal
      <3>1. CASE RecordOutcome /\ turn = c
        <4>1. record'[c] = outcome[c]
          BY <3>1 DEF RecordOutcome, TypeOK
        <4>2. outcome[c] \in Terminal
          BY <3>1 DEF RecordOutcome, Line, Loop
        <4> QED BY <4>1, <4>2
      <3>2. CASE Closing(c) /\ ~(RecordOutcome /\ turn = c)
        <4>1. cpc[c] = "record"
          BY <2>2, <2>n, WaitingSteps
        <4>2. record[c] \in Terminal
          BY <3>2, <4>1, <2>e DEF EndsOf
        <4>3. record'[c] = record[c]
          <5>1. ASSUME NEW d \in Clients, ClientNext(d) PROVE record'[c] = record[c]
            <6>1. CASE d # c
              BY <5>1, <6>1, OthersKept
            <6>2. CASE d = c
              BY <5>1, <6>2, <4>1, <2>2 DEF ClientNext, Open, Refused, Admit, Notify,
                    RecordWorking, SetPhase, SendWorking, IngestDropped, ReadAck, GetTurnState,
                    HandleFrame, NoticeEnd, TypeOK
            <6> QED BY <6>1, <6>2
          <5>2. ASSUME NEW s \in Streams, StreamNext(s) PROVE record' = record
            BY <5>2 DEF StreamNext, MintChannelStream, SendAck, BeginReplay, ReplayTurnState,
                  Abandon, StreamEnds, UnregisterChannelStream, SendToStream
          <5>3. ASSUME HarnessNext PROVE record'[c] = record[c]
            <6>1. record' = record \/ RecordOutcome
              BY <5>3 DEF HarnessNext, Subscribe, Forward, ForwarderEnds, SubscriptionClosed,
                    NextMessage, DeliverStart, DeliverStreamItem, LoopReturns, DeliverReply,
                    DeliverTurnState, TurnEnds
            <6>2. CASE RecordOutcome
              BY <6>2, <3>2 DEF RecordOutcome, TypeOK
            <6> QED BY <6>1, <6>2
          <5>4. ASSUME FaultNext PROVE record' = record
            BY <5>4, <4>1, <2>2 DEF FaultNext, DeliveryFails, HarnessRestart, SubscriptionBreaks,
                  RelayRestart
          <5> QED BY <5>1, <5>2, <5>3, <5>4 DEF Next
        <4> QED BY <4>2, <4>3
      <3> QED BY <2>2, <3>1, <3>2, ClosingSteps
    <2>3. ASSUME Closed(c)', c \notin overtaken', Waiting(c)' PROVE EndAhead(c)'
      <3>a. cpc'[c] \in {"record", "lookup", "send", "listen"} /\ conn'[c] = conn[c]
        BY <2>3, WaitingSteps DEF Waiting
      <3>b. Cur(c)' = Cur(c)
        BY <3>a DEF Cur
      <3>1. CASE DeliverTurnState /\ turn = c
        <4>1. UNCHANGED <<cpc, conn, handler, reg>> /\ turn' = c /\ hpc' = "end"
          BY <3>1 DEF DeliverTurnState, clientVars, streamVars
        <4>2. Cur(c) \in Streams
          BY <4>1, <3>a, Connected, CurIs
        <4>3. Cur(c) \in reg
          BY <2>3, <3>b, <4>1, <4>2 DEF Waiting, Places, StreamPlace
        <4>4. fanLeft' = reg
          BY <3>1 DEF DeliverTurnState, FanOut
        <4> QED BY <3>b, <4>1, <4>3, <4>4 DEF EndAhead
      <3>2. CASE Closed(c) /\ Waiting(c)
        <4>1. EndAhead(c)
          BY <2>3, <2>e, <2>o, <3>2 DEF EndsOf
        <4> QED BY <2>3, <3>2, <4>1, <1>1, EndStaysAhead
      <3>3. CASE Closed(c) /\ ~Waiting(c)
        <4>0. Closing(c)
          BY <3>3 DEF Closing
        <4>1. CASE Notify(c)
          BY <4>0, <4>1, <2>n
        <4>2. CASE GetTurnState(c) /\ record[c] = "working"
          BY <4>0, <4>2, <2>3, <2>e, <2>o DEF EndsOf
        <4>3. CASE cpc[c] \in {"record", "lookup", "send", "listen"}
          <5>1. PICK u \in Streams : u = Cur(c)
            BY <4>3, Connected, CurIs
          <5>2. handler[u] # "serving" /\ handler'[u] = "serving"
            BY <2>3, <3>3, <4>3, <3>b, <5>1 DEF Waiting
          <5>3. handler[u] = "replay"
            <6>1. ASSUME NEW d \in Clients, ClientNext(d) PROVE FALSE
              <7>1. CASE Exit(d)
                BY <7>1, <5>2 DEF Exit, TypeOK
              <7>2. CASE Open(d)
                BY <7>2, <5>2 DEF Open, TypeOK
              <7>3. CASE handler' = handler
                BY <7>3, <5>2
              <7> QED BY <6>1, <7>1, <7>2, <7>3 DEF ClientNext, Refused, Admit, Notify,
                    RecordWorking, SetPhase, SendWorking, IngestDropped, ReadAck, GetTurnState,
                    HandleFrame, NoticeEnd, Pop, streamVars
            <6>2. ASSUME NEW s \in Streams, StreamNext(s) PROVE handler[u] = "replay"
              BY <6>2, <5>2 DEF StreamNext, MintChannelStream, SendAck, BeginReplay,
                    ReplayTurnState, Abandon, StreamEnds, UnregisterChannelStream, SendToStream,
                    TypeOK
            <6>3. ASSUME HarnessNext PROVE handler' = handler
              BY <6>3 DEF HarnessNext, Subscribe, Forward, ForwarderEnds, SubscriptionClosed,
                    NextMessage, DeliverStart, DeliverStreamItem, LoopReturns, DeliverReply,
                    RecordOutcome, DeliverTurnState, TurnEnds, streamVars
            <6>4. ASSUME FaultNext PROVE FALSE
              BY <6>4, <5>2 DEF FaultNext, DeliveryFails, HarnessRestart, SubscriptionBreaks,
                    RelayRestart, streamVars
            <6> QED BY <5>2, <6>1, <6>2, <6>3, <6>4 DEF Next
          <5>4. u[1] = c
            BY <5>1 DEF Cur
          <5>5. cpc[c] = "opening"
            BY <5>3, <5>4 DEF Places, StreamPlace, Opening
          <5> QED BY <5>5, <4>3
        <4> QED BY <3>a, <4>1, <4>2, <4>3, WaitingSteps
      <3> QED BY <2>3, <3>1, <3>2, <3>3, ClosingSteps
    <2> QED BY <2>1, <2>2, <2>3 DEF EndsOf
  <1> QED BY <1>1, <1>2 DEF Ends

----------------------------------------------------------------------------
(* The items of a turn *)

\* An empty channel.
LEMMA NumberEmpty ==
    ASSUME NEW c, NEW lo \in Nat, NEW hi \in Int, NEW all \in BOOLEAN, all => hi <= lo
    PROVE  Numbered(c, <<>>, lo, hi, all) /\ EndLast(c, <<>>)
  <1>1. [i \in 1..Len(<<>>) |-> 0] \in [1..Len(<<>>) -> Nat] /\ Len(<<>>) = 0
    OBVIOUS
  <1>2. Numbers(c, <<>>, lo, hi, all, [i \in 1..Len(<<>>) |-> 0])
    <2>1. all => (lo + 1)..hi = {}
      OBVIOUS
    <2> QED BY <2>1 DEF Numbers
  <1>3. Numbered(c, <<>>, lo, hi, all)
    BY <1>1, <1>2 DEF Numbered
  <1>4. EndLast(c, <<>>)
    BY DEF EndLast
  <1> QED BY <1>3, <1>4

\* The same channel, with more that has gone by.
LEMMA NumberMore ==
    ASSUME NEW c, NEW q \in Seq(Frames), NEW lo \in Nat, NEW hi \in Int, NEW all \in BOOLEAN,
           Numbered(c, q, lo, hi, all),
           NEW hi2 \in Int, NEW all2 \in BOOLEAN, hi <= hi2, all2 => all /\ hi2 = hi
    PROVE  Numbered(c, q, lo, hi2, all2)
  <1>1. PICK g \in [1..Len(q) -> Nat] : Numbers(c, q, lo, hi, all, g)
    BY DEF Numbered
  <1>2. \A i \in 1..Len(q) : g[i] \in Nat
    BY <1>1
  <1>3. Numbers(c, q, lo, hi2, all2, g)
    BY <1>1, <1>2 DEF Numbers
  <1> QED BY <1>3 DEF Numbered

\* A frame that is no item of the turn is put in.
LEMMA NumberOther ==
    ASSUME NEW c, NEW q \in Seq(Frames), NEW lo \in Nat, NEW hi \in Int, NEW all \in BOOLEAN,
           Numbered(c, q, lo, hi, all), EndLast(c, q), NEW f \in Frames, ~IsItem(c, f)
    PROVE  Numbered(c, Append(q, f), lo, hi, all) /\ EndLast(c, Append(q, f))
  <1>1. PICK g \in [1..Len(q) -> Nat] : Numbers(c, q, lo, hi, all, g)
    BY DEF Numbered
  <1> DEFINE r == Append(q, f)
             h == [i \in 1..Len(r) |-> IF i <= Len(q) THEN g[i] ELSE 0]
  <1>2. /\ Len(r) = Len(q) + 1 /\ Len(q) \in Nat /\ r[Len(q) + 1] = f
        /\ \A i \in 1..Len(q) : r[i] = q[i]
    OBVIOUS
  <1>3. h \in [1..Len(r) -> Nat] /\ \A i \in 1..Len(q) : h[i] = g[i]
    BY <1>2
  <1>4. \A i \in 1..Len(r) : IsItem(c, r[i]) => i \in 1..Len(q)
    BY <1>2
  <1> HIDE DEF r, h
  <1>5. /\ \A i \in 1..Len(r) : IsItem(c, r[i]) => lo < h[i] /\ h[i] <= hi
        /\ \A i, j \in 1..Len(r) : i < j /\ IsItem(c, r[i]) /\ IsItem(c, r[j]) => h[i] < h[j]
    BY <1>1, <1>2, <1>3, <1>4 DEF Numbers
  <1>6. ASSUME all, NEW n \in (lo + 1)..hi
        PROVE  \E i \in 1..Len(r) : IsItem(c, r[i]) /\ h[i] = n
    <2>1. PICK i \in 1..Len(q) : IsItem(c, q[i]) /\ g[i] = n
      BY <1>1, <1>6 DEF Numbers
    <2>2. i \in 1..Len(r) /\ IsItem(c, r[i]) /\ h[i] = n
      BY <2>1, <1>2, <1>3
    <2> QED BY <2>2
  <1>7. Numbers(c, r, lo, hi, all, h)
    BY <1>5, <1>6 DEF Numbers
  <1>8. ASSUME NEW i \in 1..Len(r), NEW j \in 1..Len(r), i < j, IsEnd(c, r[i]), IsItem(c, r[j])
        PROVE  FALSE
    <2>1. j \in 1..Len(q) /\ i \in 1..Len(q)
      BY <1>8, <1>4, <1>2
    <2> QED BY <2>1, <1>8, <1>2 DEF EndLast
  <1> QED BY <1>3, <1>7, <1>8 DEF Numbered, EndLast, r

\* The next item of the turn is put in.
LEMMA NumberItem ==
    ASSUME NEW c, NEW q \in Seq(Frames), NEW lo \in Nat, NEW hi \in Nat, NEW all \in BOOLEAN,
           Numbered(c, q, lo, hi, all), lo <= hi, NEW f \in Frames, IsItem(c, f),
           \A i \in 1..Len(q) : ~IsEnd(c, q[i])
    PROVE  Numbered(c, Append(q, f), lo, hi + 1, all) /\ EndLast(c, Append(q, f))
  <1>1. PICK g \in [1..Len(q) -> Nat] : Numbers(c, q, lo, hi, all, g)
    BY DEF Numbered
  <1> DEFINE r == Append(q, f)
             h == [i \in 1..Len(r) |-> IF i <= Len(q) THEN g[i] ELSE hi + 1]
             k == Len(q) + 1
  <1>2. /\ Len(r) = k /\ Len(q) \in Nat /\ r[k] = f /\ k \in 1..Len(r)
        /\ \A i \in 1..Len(q) : r[i] = q[i]
    OBVIOUS
  <1>3. h \in [1..Len(r) -> Nat] /\ h[k] = hi + 1 /\ \A i \in 1..Len(q) : h[i] = g[i]
    BY <1>2
  <1>4. \A i \in 1..Len(r) : i # k => i \in 1..Len(q) /\ i < k
    BY <1>2
  <1>g. \A i \in 1..Len(q) : g[i] \in Nat
    BY <1>1
  <1> HIDE DEF r, h, k
  <1>5. ASSUME NEW i \in 1..Len(r), IsItem(c, r[i]) PROVE lo < h[i] /\ h[i] <= hi + 1
    <2>1. CASE i = k
      BY <2>1, <1>3
    <2>2. CASE i # k
      <3>1. i \in 1..Len(q) /\ h[i] = g[i] /\ IsItem(c, q[i]) /\ g[i] \in Nat
        BY <2>2, <1>2, <1>3, <1>4, <1>5, <1>g
      <3>2. lo < g[i] /\ g[i] <= hi
        BY <3>1, <1>1 DEF Numbers
      <3> QED BY <3>1, <3>2
    <2> QED BY <2>1, <2>2
  <1>6. ASSUME NEW i \in 1..Len(r), NEW j \in 1..Len(r), i < j, IsItem(c, r[i]), IsItem(c, r[j])
        PROVE  h[i] < h[j]
    <2>0. i # k
      BY <1>2, <1>6
    <2>1. i \in 1..Len(q) /\ h[i] = g[i] /\ IsItem(c, q[i]) /\ g[i] \in Nat
      BY <2>0, <1>2, <1>3, <1>4, <1>6, <1>g
    <2>2. CASE j = k
      <3>1. g[i] <= hi
        BY <2>1, <1>1 DEF Numbers
      <3> QED BY <2>1, <2>2, <3>1, <1>3
    <2>3. CASE j # k
      <3>1. j \in 1..Len(q) /\ h[j] = g[j] /\ IsItem(c, q[j])
        BY <2>3, <1>2, <1>3, <1>4, <1>6
      <3> QED BY <2>1, <3>1, <1>1, <1>6 DEF Numbers
    <2> QED BY <2>2, <2>3
  <1>7. ASSUME all, NEW n \in (lo + 1)..(hi + 1)
        PROVE  \E i \in 1..Len(r) : IsItem(c, r[i]) /\ h[i] = n
    <2>1. CASE n = hi + 1
      <3>1. IsItem(c, r[k])
        BY <1>2
      <3> QED BY <2>1, <3>1, <1>2, <1>3
    <2>2. CASE n # hi + 1
      <3>1. n \in (lo + 1)..hi
        BY <2>2
      <3>2. PICK i \in 1..Len(q) : IsItem(c, q[i]) /\ g[i] = n
        BY <1>1, <1>7, <3>1 DEF Numbers
      <3>3. i \in 1..Len(r) /\ IsItem(c, r[i]) /\ h[i] = n
        BY <3>2, <1>2, <1>3 DEF k
      <3> QED BY <3>3
    <2> QED BY <2>1, <2>2
  <1>8. Numbers(c, r, lo, hi + 1, all, h)
    BY <1>5, <1>6, <1>7 DEF Numbers
  <1>9. ASSUME NEW i \in 1..Len(r), NEW j \in 1..Len(r), i < j, IsEnd(c, r[i]) PROVE FALSE
    <2>1. i \in 1..Len(q)
      BY <1>9, <1>2, <1>4
    <2> QED BY <2>1, <1>9, <1>2
  <1> QED BY <1>3, <1>8, <1>9 DEF Numbered, EndLast, r

\* The head of the channel is taken off.
LEMMA NumberTail ==
    ASSUME NEW c, NEW q \in Seq(Frames), q # <<>>, NEW lo \in Nat, NEW hi \in Int,
           NEW all \in BOOLEAN, Numbered(c, q, lo, hi, all), EndLast(c, q)
    PROVE  /\ EndLast(c, Tail(q))
           /\ ~IsItem(c, Head(q)) => Numbered(c, Tail(q), lo, hi, all)
           /\ IsItem(c, Head(q)) => lo + 1 <= hi /\ Numbered(c, Tail(q), lo + 1, hi, all)
  <1>1. PICK g \in [1..Len(q) -> Nat] : Numbers(c, q, lo, hi, all, g)
    BY DEF Numbered
  <1> DEFINE r == Tail(q)
             h == [i \in 1..Len(r) |-> g[i + 1]]
  <1>2. /\ Len(r) = Len(q) - 1 /\ Len(q) \in Nat \ {0} /\ Head(q) = q[1] /\ 1 \in 1..Len(q)
        /\ \A i \in 1..Len(r) : r[i] = q[i + 1]
    OBVIOUS
  <1>3. \A i \in 1..Len(r) : i + 1 \in 1..Len(q) /\ 1 < i + 1
    BY <1>2
  <1>g. \A i \in 1..Len(q) : g[i] \in Nat
    BY <1>1
  <1>4. h \in [1..Len(r) -> Nat] /\ \A i \in 1..Len(r) : h[i] = g[i + 1]
    BY <1>2, <1>3, <1>g
  <1>5. \A i \in 1..Len(q) : i # 1 => i - 1 \in 1..Len(r) /\ (i - 1) + 1 = i
    BY <1>2
  <1> HIDE DEF r, h
  <1>6. \A i \in 1..Len(r) : IsItem(c, r[i]) => lo < h[i] /\ h[i] <= hi
    BY <1>1, <1>2, <1>3, <1>4 DEF Numbers
  <1>7. ASSUME NEW i \in 1..Len(r), NEW j \in 1..Len(r), i < j, IsItem(c, r[i]), IsItem(c, r[j])
        PROVE  h[i] < h[j]
    <2>1. /\ i + 1 \in 1..Len(q) /\ j + 1 \in 1..Len(q) /\ i + 1 < j + 1
          /\ IsItem(c, q[i + 1]) /\ IsItem(c, q[j + 1])
      BY <1>2, <1>3, <1>7
    <2>2. g[i + 1] < g[j + 1]
      BY <2>1, <1>1 DEF Numbers
    <2> QED BY <2>2, <1>4
  <1>8. EndLast(c, r)
    <2>1. ASSUME NEW i \in 1..Len(r), NEW j \in 1..Len(r), i < j, IsEnd(c, r[i])
          PROVE  ~IsItem(c, r[j])
      <3>1. /\ i + 1 \in 1..Len(q) /\ j + 1 \in 1..Len(q) /\ i + 1 < j + 1
            /\ IsEnd(c, q[i + 1]) /\ r[j] = q[j + 1]
        BY <1>2, <1>3, <2>1
      <3> QED BY <3>1 DEF EndLast
    <2> QED BY <2>1 DEF EndLast
  <1>9. ASSUME ~IsItem(c, Head(q)) PROVE Numbered(c, r, lo, hi, all)
    <2>1. ASSUME all, NEW n \in (lo + 1)..hi
          PROVE  \E i \in 1..Len(r) : IsItem(c, r[i]) /\ h[i] = n
      <3>1. PICK i \in 1..Len(q) : IsItem(c, q[i]) /\ g[i] = n
        BY <1>1, <2>1 DEF Numbers
      <3>2. i # 1
        BY <3>1, <1>9, <1>2
      <3>3. i - 1 \in 1..Len(r) /\ IsItem(c, r[i - 1]) /\ h[i - 1] = n
        BY <3>1, <3>2, <1>2, <1>4, <1>5
      <3> QED BY <3>3
    <2>2. Numbers(c, r, lo, hi, all, h)
      BY <2>1, <1>6, <1>7 DEF Numbers
    <2> QED BY <2>2, <1>4 DEF Numbered
  <1>10. ASSUME IsItem(c, Head(q)) PROVE lo + 1 <= hi /\ Numbered(c, r, lo + 1, hi, all)
    <2>0. IsItem(c, q[1])
      BY <1>10, <1>2
    <2>1. g[1] \in Nat /\ lo < g[1] /\ g[1] <= hi
      BY <2>0, <1>1, <1>2 DEF Numbers
    <2>2. ASSUME NEW i \in 1..Len(r), IsItem(c, r[i]) PROVE lo + 1 < h[i] /\ h[i] <= hi
      <3>1. i + 1 \in 1..Len(q) /\ 1 < i + 1 /\ IsItem(c, q[i + 1]) /\ g[i + 1] \in Nat
        BY <2>2, <1>2, <1>3, <1>g
      <3>2. g[1] < g[i + 1]
        BY <3>1, <2>0, <1>1, <1>2 DEF Numbers
      <3> QED BY <3>1, <3>2, <2>1, <2>2, <1>4, <1>6
    <2>3. ASSUME all, NEW n \in (lo + 2)..hi
          PROVE  \E i \in 1..Len(r) : IsItem(c, r[i]) /\ h[i] = n
      <3>1. n \in (lo + 1)..hi /\ lo + 1 \in (lo + 1)..hi
        BY <2>1, <2>3
      <3>2. PICK i \in 1..Len(q) : IsItem(c, q[i]) /\ g[i] = n
        BY <1>1, <2>3, <3>1 DEF Numbers
      <3>3. PICK j \in 1..Len(q) : IsItem(c, q[j]) /\ g[j] = lo + 1
        BY <1>1, <2>3, <3>1 DEF Numbers
      <3>4. j = 1
        <4>1. CASE j # 1
          <5>1. g[1] < g[j]
            BY <4>1, <3>3, <2>0, <1>1, <1>2 DEF Numbers
          <5> QED BY <5>1, <3>3, <2>1
        <4> QED BY <4>1
      <3>5. i # 1
        BY <2>3, <3>2, <3>3, <3>4
      <3>6. i - 1 \in 1..Len(r) /\ IsItem(c, r[i - 1]) /\ h[i - 1] = n
        BY <3>2, <3>5, <1>2, <1>4, <1>5
      <3> QED BY <3>6
    <2>4. Numbers(c, r, lo + 1, hi, all, h)
      <3>1. all => \A n \in ((lo + 1) + 1)..hi :
                     \E i \in 1..Len(r) : IsItem(c, r[i]) /\ h[i] = n
        <4>1. ((lo + 1) + 1)..hi = (lo + 2)..hi
          OBVIOUS
        <4> QED BY <4>1, <2>3
      <3> QED BY <3>1, <2>2, <1>7 DEF Numbers
    <2>5. lo + 1 <= hi
      BY <2>1
    <2> QED BY <2>4, <2>5, <1>4 DEF Numbered
  <1> QED BY <1>8, <1>9, <1>10 DEF r

\* A client whose channel starts with the end of its turn has all items.
LEMMA NumberEnd ==
    ASSUME NEW c, NEW q \in Seq(Frames), q # <<>>, NEW lo \in Nat, NEW hi \in Nat,
           Numbered(c, q, lo, hi, TRUE), EndLast(c, q), IsEnd(c, Head(q))
    PROVE  hi <= lo
  <1>1. PICK g \in [1..Len(q) -> Nat] : Numbers(c, q, lo, hi, TRUE, g)
    BY DEF Numbered
  <1>2. 1 \in 1..Len(q) /\ Head(q) = q[1]
    OBVIOUS
  <1>3. ASSUME lo < hi PROVE FALSE
    <2>1. hi \in (lo + 1)..hi
      BY <1>3
    <2>2. PICK i \in 1..Len(q) : IsItem(c, q[i])
      BY <1>1, <2>1 DEF Numbers
    <2>3. i # 1
      BY <2>2, <1>2 DEF IsEnd, IsItem
    <2> QED BY <2>2, <2>3, <1>2 DEF EndLast
  <1> QED BY <1>3

\* Types of what the items are counted with.
LEMMA ItemTypes ==
    ASSUME TypeOK, NEW d \in Clients
    PROVE  /\ got[d] \in Nat /\ sent[d] \in Nat /\ conn[d] \in Nat
           /\ Arrived(d) \in Int /\ Arrived(d) <= sent[d] /\ All(d) \in BOOLEAN
           /\ conn[d] > 0 => Cur(d) \in Streams /\ queue[Cur(d)] \in Seq(Frames)
           /\ Due(d) => Arrived(d) = sent[d] - 1
           /\ ~Due(d) => Arrived(d) = sent[d]
  <1>1. got[d] \in Nat /\ sent[d] \in Nat /\ conn[d] \in Nat
    BY BoundsAssumption DEF TypeOK
  <1>2. conn[d] > 0 => Cur(d) \in Streams /\ queue[Cur(d)] \in Seq(Frames)
    BY CurIs DEF TypeOK
  <1> QED BY <1>1, <1>2 DEF Arrived, All

\* What was given to a client and what is ahead of it, after a step that neither
\* puts an item of its turn into its channel u nor takes one off.
LEMMA KeepItems ==
    ASSUME TypeOK, Line, Next, NEW d \in Clients, ItemsOf(d),
           got'[d] = got[d], conn'[d] = conn[d], NEW u, u = Cur(d), u = Cur(d)',
           conn[d] > 0 =>
              \/ queue'[u] = queue[u]
              \/ queue'[u] = <<>> /\ ~Receiving(u)'
              \/ \E f \in Frames : queue'[u] = Append(queue[u], f) /\ ~IsItem(d, f)
              \/ queue[u] # <<>> /\ queue'[u] = Tail(queue[u]) /\ ~IsItem(d, Head(queue[u])),
           NEW hi \in Int, hi = Arrived(d)', Arrived(d) <= hi,
           All(d)' => All(d) /\ hi = Arrived(d),
           outcome[d] # "none" => sent'[d] = sent[d],
           cpc'[d] = "idle" /\ conn[d] = 1 => cpc[d] = "idle"
    PROVE  ItemsOf(d)'
  <1>t. /\ got[d] \in Nat /\ sent[d] \in Nat /\ Arrived(d) \in Int /\ All(d) \in BOOLEAN
        /\ conn[d] > 0 => queue[u] \in Seq(Frames)
    BY ItemTypes
  <1>1. PICK lo \in Nat : lo = got[d]
    BY <1>t
  <1>2. PICK h \in Int : h = Arrived(d)
    BY <1>t
  <1>3. PICK a \in BOOLEAN : a <=> All(d)
    BY <1>t
  <1>4. PICK b \in BOOLEAN : b <=> All(d)'
    BY DEF All
  <1>5. lo <= h /\ h <= hi /\ (b => a /\ hi = h)
    BY <1>1, <1>2, <1>3, <1>4 DEF ItemsOf
  <1>6. ASSUME conn[d] > 0
        PROVE  EndLast(d, queue'[u]) /\ Numbered(d, queue'[u], lo, hi, b)
    <2>1. queue[u] \in Seq(Frames)
      BY <1>6, <1>t
    <2>2. EndLast(d, queue[u]) /\ Numbered(d, queue[u], lo, h, a)
      <3>1. EndLast(d, queue[u]) /\ Numbered(d, queue[u], got[d], Arrived(d), All(d))
        BY <1>6 DEF ItemsOf
      <3>2. a = All(d)
        BY <1>3, <1>t
      <3> QED BY <3>1, <3>2, <1>1, <1>2
    <2>3. Numbered(d, queue[u], lo, hi, b)
      BY <2>1, <2>2, <1>5, NumberMore
    <2>4. CASE queue'[u] = queue[u]
      BY <2>2, <2>3, <2>4
    <2>5. CASE queue'[u] = <<>> /\ ~Receiving(u)'
      <3>1. ~b
        BY <2>5, <1>4 DEF All
      <3> QED BY <2>5, <3>1, NumberEmpty
    <2>6. ASSUME NEW f \in Frames, queue'[u] = Append(queue[u], f), ~IsItem(d, f)
          PROVE  EndLast(d, queue'[u]) /\ Numbered(d, queue'[u], lo, hi, b)
      BY <2>1, <2>2, <2>3, <2>6, NumberOther
    <2>7. CASE queue[u] # <<>> /\ queue'[u] = Tail(queue[u]) /\ ~IsItem(d, Head(queue[u]))
      BY <2>1, <2>2, <2>3, <2>7, NumberTail
    <2> QED BY <1>6, <2>4, <2>5, <2>6, <2>7
  <1>7. conn'[d] > 0 =>
          EndLast(d, queue[Cur(d)])' /\ Numbered(d, queue[Cur(d)], got[d], Arrived(d), All(d))'
    <2>1. b = All(d)'
      BY <1>4 DEF All
    <2> QED BY <1>1, <1>6, <2>1
  <1>8. got'[d] <= Arrived(d)'
    BY <1>1, <1>5, <1>2
  <1>9. cpc'[d] = "idle" /\ conn'[d] = 1 => got'[d] = sent'[d] /\ outcome'[d] = "idle"
    <2>1. outcome'[d] = outcome[d] \/ outcome[d] = "none"
      BY OutcomeSteps
    <2> QED BY <2>1 DEF ItemsOf
  <1> QED BY <1>7, <1>8, <1>9 DEF ItemsOf

\* A channel's receiver is only there later if it was, but for the minting.
LEMMA ReceiverSteps ==
    ASSUME TypeOK, Places, Next, NEW s \in Streams, Receiving(s)'
    PROVE  Receiving(s) \/ MintChannelStream(s)
  <1>1. ASSUME NEW c \in Clients, ClientNext(c) PROVE Receiving(s)
    <2>1. CASE Exit(c)
      BY <2>1 DEF Exit, TypeOK, Receiving
    <2>2. CASE Open(c)
      BY <2>2 DEF Open, TypeOK, Receiving
    <2>3. CASE handler' = handler
      BY <2>3 DEF Receiving
    <2> QED BY <1>1, <2>1, <2>2, <2>3 DEF ClientNext, Refused, Admit, Notify, RecordWorking,
              SetPhase, SendWorking, IngestDropped, ReadAck, GetTurnState, HandleFrame,
              NoticeEnd, Pop, streamVars
  <1>2. ASSUME NEW t \in Streams, StreamNext(t) PROVE Receiving(s) \/ MintChannelStream(s)
    <2>1. CASE MintChannelStream(t)
      <3>1. CASE s = t
        BY <2>1, <3>1
      <3>2. CASE s # t
        BY <2>1, <3>2 DEF MintChannelStream, TypeOK, Receiving
      <3> QED BY <3>1, <3>2
    <2>2. CASE ~MintChannelStream(t)
      BY <1>2, <2>2 DEF StreamNext, SendAck, BeginReplay, ReplayTurnState, Abandon, StreamEnds,
            UnregisterChannelStream, SendToStream, TypeOK, Receiving
    <2> QED BY <2>1, <2>2
  <1>3. ASSUME HarnessNext PROVE Receiving(s)
    BY <1>3 DEF HarnessNext, Subscribe, Forward, ForwarderEnds, SubscriptionClosed, NextMessage,
          DeliverStart, DeliverStreamItem, LoopReturns, DeliverReply, RecordOutcome,
          DeliverTurnState, TurnEnds, streamVars, Receiving
  <1>4. ASSUME FaultNext PROVE Receiving(s)
    BY <1>4 DEF FaultNext, DeliveryFails, HarnessRestart, SubscriptionBreaks, RelayRestart,
          streamVars, Receiving
  <1> QED BY <1>1, <1>2, <1>3, <1>4 DEF Next

\* A client reads a frame: an item is the next one, and at the end of the turn on the
\* first stream none is left.
LEMMA HandleItems ==
    ASSUME TypeOK, Places, Line, Truth, Ends, Items, Next, NEW c \in Clients, HandleFrame(c)
    PROVE  ItemsOf(c)' /\ got'[c] <= sent[c]
  <1>i. ItemsOf(c)
    BY DEF Items
  <1>a. /\ UNCHANGED <<conn, fanFrame, fanLeft, sent, turn, outcome>>
        /\ cpc[c] = "listen" /\ handler[Cur(c)] = "serving" /\ queue[Cur(c)] # <<>>
    BY DEF HandleFrame, fanVars, harnessVars
  <1>c. conn[c] > 0
    BY <1>a, Connected
  <1>t. /\ got[c] \in Nat /\ sent[c] \in Nat /\ Arrived(c) \in Int /\ All(c) \in BOOLEAN
        /\ Arrived(c) <= sent[c] /\ conn[c] \in Nat
        /\ Cur(c) \in Streams /\ queue[Cur(c)] \in Seq(Frames)
        /\ ~Due(c) => Arrived(c) = sent[c]
    BY <1>c, ItemTypes
  <1>u. PICK u \in Streams : u = Cur(c)
    BY <1>t
  <1>q. PICK q \in Seq(Frames) : q = queue[u] /\ q # <<>>
    BY <1>t, <1>u, <1>a
  <1>1. PICK lo \in Nat : lo = got[c]
    BY <1>t
  <1>2. PICK h \in Int : h = Arrived(c)
    BY <1>t
  <1>3. PICK a \in BOOLEAN : a = All(c)
    BY <1>t
  <1>4. EndLast(c, q) /\ Numbered(c, q, lo, h, a) /\ lo <= h /\ h <= sent[c]
    BY <1>i, <1>c, <1>u, <1>q, <1>1, <1>2, <1>3, <1>t DEF ItemsOf
  <1>5. Arrived(c)' = h /\ Cur(c)' = u
    BY <1>a, <1>2, <1>u DEF Arrived, Due, Cur
  <1>6. PICK f \in Frames : f = Head(q)
    BY <1>q
  <1>7. got'[c] = IF IsItem(c, f) THEN lo + 1 ELSE lo
    BY <1>1, <1>6, <1>q, <1>u DEF HandleFrame, IsItem, TypeOK
  <1>8. CASE IsEnd(c, f)
    <2>1. /\ cpc' = [cpc EXCEPT ![c] = f.state] /\ Exit(c)
      BY <1>6, <1>8, <1>q, <1>u DEF HandleFrame, IsEnd
    <2>2. queue'[u] = <<>> /\ ~Receiving(u)'
      BY <2>1, <1>u, <1>a DEF Exit, TypeOK, Receiving
    <2>3. ~IsItem(c, f)
      BY <1>8 DEF IsEnd, IsItem
    <2>4. ~(All(c)')
      BY <1>5, <2>2 DEF All
    <2>5. PICK b \in BOOLEAN : b = All(c)'
      BY DEF All
    <2>6. EndLast(c, <<>>) /\ Numbered(c, <<>>, lo, h, b)
      BY <2>4, <2>5, NumberEmpty
    <2>7. f.state = outcome[c] /\ outcome[c] \in Terminal
      <3>1. 1 \in 1..Len(queue[u]) /\ f = queue[u][1]
        BY <1>q, <1>6
      <3>2. FrameTrue(f)
        BY <3>1 DEF Truth
      <3> QED BY <3>2, <1>8 DEF FrameTrue, IsEnd
    <2>8. cpc'[c] = "idle" /\ conn[c] = 1 => got'[c] = sent'[c] /\ outcome'[c] = "idle"
      <3> SUFFICES ASSUME cpc'[c] = "idle", conn[c] = 1
                   PROVE  got'[c] = sent'[c] /\ outcome'[c] = "idle"
        OBVIOUS
      <3>1. outcome[c] = "idle"
        BY <2>1, <2>7 DEF TypeOK
      <3>2. ~Due(c)
        <4>1. ASSUME Due(c) PROVE FALSE
          <5>1. fanLeft # {} /\ fanFrame.kind = "item" /\ fanFrame.conv = c
            BY <4>1 DEF Due
          <5>2. hpc = "run" /\ turn = c
            BY <5>1 DEF Ends, Delivery
          <5> QED BY <5>2, <3>1 DEF Line, Loop
        <4> QED BY <4>1
      <3>3. h = sent[c] /\ h \in Nat
        BY <3>2, <1>2, <1>t
      <3>4. a = TRUE
        BY <1>3, <1>a, <3>1 DEF All, Whole, Receiving
      <3>5. h <= lo
        BY <1>4, <1>6, <1>8, <1>q, <3>3, <3>4, NumberEnd
      <3>6. lo = sent[c]
        BY <1>4, <3>3, <3>5
      <3> QED BY <3>1, <3>6, <2>3, <1>7, <1>a
    <2> QED BY <2>2, <2>3, <2>5, <2>6, <2>8, <1>a, <1>4, <1>5, <1>7, <1>t DEF ItemsOf
  <1>9. CASE ~IsEnd(c, f)
    <2>1. cpc' = cpc /\ Pop(u)
      BY <1>6, <1>9, <1>q, <1>u DEF HandleFrame, IsEnd
    <2>2. queue'[u] = Tail(q) /\ handler' = handler
      BY <2>1, <1>q DEF Pop, TypeOK
    <2>3. a = All(c)'
      BY <1>3, <1>a, <1>5, <1>u, <2>2 DEF All, Whole, Receiving
    <2>4. /\ EndLast(c, Tail(q))
          /\ ~IsItem(c, f) => Numbered(c, Tail(q), lo, h, a)
          /\ IsItem(c, f) => lo + 1 <= h /\ Numbered(c, Tail(q), lo + 1, h, a)
      BY <1>4, <1>6, <1>q, NumberTail
    <2>5. PICK m \in Nat : m = got'[c]
      BY <1>7
    <2>6. Numbered(c, Tail(q), m, h, a) /\ m <= h
      BY <2>4, <2>5, <1>4, <1>7
    <2>7. Numbered(c, queue[Cur(c)], got[c], Arrived(c), All(c))'
      BY <2>2, <2>3, <2>5, <2>6, <1>5
    <2>8. EndLast(c, queue[Cur(c)])'
      BY <2>2, <2>4, <1>5
    <2>9. got'[c] <= sent[c]
      BY <2>5, <2>6, <1>4, <1>t
    <2>10. cpc'[c] # "idle"
      BY <2>1, <1>a
    <2> QED BY <2>5, <2>6, <2>7, <2>8, <2>9, <2>10, <1>5 DEF ItemsOf
  <1> QED BY <1>8, <1>9

\* What a step does to a client that neither opens a stream nor reads a frame in it.
LEMMA ClientSteps ==
    ASSUME TypeOK, Places, Next, NEW d \in Clients, ~Open(d), ~HandleFrame(d)
    PROVE  /\ conn'[d] = conn[d] /\ got'[d] = got[d]
           /\ cpc'[d] = "idle" /\ conn[d] = 1 => cpc[d] = "idle"
  <1>1. ASSUME NEW c \in Clients, ClientNext(c), c # d
        PROVE  conn'[d] = conn[d] /\ got'[d] = got[d] /\ cpc'[d] = cpc[d]
    BY <1>1, OthersKept
  <1>2. ASSUME ClientNext(d)
        PROVE  /\ conn'[d] = conn[d] /\ got'[d] = got[d]
               /\ cpc'[d] = "idle" /\ conn[d] = 1 => cpc[d] = "idle"
    <2>1. conn' = conn /\ got' = got
      BY <1>2 DEF ClientNext, Refused, Admit, Notify, RecordWorking, SetPhase, SendWorking,
                  IngestDropped, ReadAck, GetTurnState, NoticeEnd
    <2>2. cpc'[d] # "idle" \/ GetTurnState(d)
      BY <1>2 DEF ClientNext, Refused, Admit, Notify, RecordWorking, SetPhase, SendWorking,
                  IngestDropped, ReadAck, NoticeEnd, TypeOK
    <2>3. GetTurnState(d) => conn[d] > 1
      BY DEF GetTurnState, Places, ClientPlace
    <2>4. conn[d] \in Nat
      BY DEF TypeOK
    <2> QED BY <2>1, <2>2, <2>3, <2>4
  <1>3. ASSUME (\E s \in Streams : StreamNext(s)) \/ HarnessNext \/ FaultNext
        PROVE  conn' = conn /\ got' = got /\ cpc'[d] \in {cpc[d], "error"}
    BY <1>3, ClientsKept
  <1> QED BY <1>1, <1>2, <1>3 DEF Next

\* What goes on between a client's turn and its stream, but for what counts.
LEMMA RestItems ==
    ASSUME TypeOK, TypeOK', Places, Line, Next, NEW d \in Clients, ItemsOf(d),
           ~Open(d), ~HandleFrame(d), ~MintChannelStream(Cur(d)),
           ~(SendToStream(Cur(d)) /\ IsItem(d, fanFrame)),
           Due(d)' <=> Due(d), sent'[d] = sent[d], Whole(d)' => Whole(d)
    PROVE  ItemsOf(d)'
  <1>1. PICK u : u = Cur(d)
    OBVIOUS
  <1>2. /\ conn'[d] = conn[d] /\ got'[d] = got[d]
        /\ cpc'[d] = "idle" /\ conn[d] = 1 => cpc[d] = "idle"
    BY ClientSteps
  <1>3. u = Cur(d)'
    BY <1>1, <1>2 DEF Cur
  <1>4. Arrived(d)' = Arrived(d) /\ Arrived(d) \in Int
    BY ItemTypes DEF Arrived
  <1>5. PICK hi \in Int : hi = Arrived(d)' /\ Arrived(d) <= hi /\ hi = Arrived(d)
    BY <1>4
  <1>6. conn[d] > 0 => u \in Streams /\ u[1] = d
    BY <1>1, CurIs
  <1>7. All(d)' => All(d)
    <2>1. ASSUME conn[d] = 1, Receiving(u)' PROVE Receiving(u)
      BY <2>1, <1>1, <1>6, ReceiverSteps
    <2> QED BY <2>1, <1>1, <1>2, <1>3 DEF All
  <1>8. ASSUME conn[d] > 0
        PROVE  \/ queue'[u] = queue[u]
               \/ queue'[u] = <<>> /\ ~Receiving(u)'
               \/ \E f \in Frames : queue'[u] = Append(queue[u], f) /\ ~IsItem(d, f)
               \/ queue[u] # <<>> /\ queue'[u] = Tail(queue[u]) /\ ~IsItem(d, Head(queue[u]))
    <2>0. u \in Streams /\ u[1] = d
      BY <1>6, <1>8
    <2>1. ASSUME Pop(u), ReadAck(d), queue[u] # <<>> PROVE ~IsItem(d, Head(queue[u]))
      <3>1. ~Exit(d)
        BY <2>0, <2>1, <1>1 DEF Pop, ReadAck, Exit, TypeOK
      <3> QED BY <2>1, <3>1, <1>1 DEF ReadAck, IsItem
    <2>2. ASSUME NEW f \in Frames, PutIn(u, f)
          PROVE  queue'[u] = Append(queue[u], f) /\ ~IsItem(d, f)
      BY <2>2, <1>1 DEF PutIn, Quiet, IsItem
    <2> QED BY <2>0, <2>1, <2>2, QueueSteps
  <1> QED BY <1>1, <1>2, <1>3, <1>5, <1>7, <1>8, KeepItems

\* A new stream starts without items, and the delivery under way is not for it.
LEMMA OpenItems ==
    ASSUME TypeOK, TypeOK', Places, Line, Next, NEW d \in Clients, ItemsOf(d), Open(d)
    PROVE  ItemsOf(d)'
  <1>a. /\ UNCHANGED <<got, queue, reg, fanFrame, fanLeft, sent, turn, outcome>>
        /\ cpc' = [cpc EXCEPT ![d] = "opening"] /\ conn' = [conn EXCEPT ![d] = conn[d] + 1]
    BY DEF Open, fanVars, harnessVars
  <1>t. /\ got[d] \in Nat /\ sent[d] \in Nat /\ conn[d] \in Nat
        /\ Arrived(d) \in Int /\ Arrived(d) <= sent[d]
    BY ItemTypes
  <1>1. conn'[d] = conn[d] + 1 /\ cpc'[d] = "opening"
    BY <1>a DEF TypeOK
  <1>2. PICK u : u = Cur(d)' /\ u = <<d, conn[d] + 1>>
    BY <1>1 DEF Cur
  <1>3. u \in Streams /\ u[1] = d /\ u[2] = conn[d] + 1
    <2>1. conn[d] + 1 \in 1..MaxConnects[d]
      BY <1>t, BoundsAssumption DEF Open
    <2> QED BY <1>2, <2>1, StreamIs
  <1>4. handler[u] = "none"
    BY <1>3, <1>t DEF Places, StreamPlace
  <1>5. queue[u] = <<>> /\ u \notin reg /\ u \notin fanLeft
    BY <1>3, <1>4 DEF Places, StreamPlace, Receiving
  <1>6. ~(Due(d)')
    BY <1>2, <1>5, <1>a DEF Due
  <1>7. Arrived(d)' = sent[d]
    BY <1>6, <1>a DEF Arrived
  <1>8. handler'[u] = "called"
    BY <1>2, <1>3 DEF Open, TypeOK
  <1>9. PICK b \in BOOLEAN : b = All(d)' /\ ~b
    BY <1>2, <1>8 DEF All, Receiving
  <1>10. EndLast(d, <<>>) /\ Numbered(d, <<>>, got[d], sent[d], b)
    BY <1>9, <1>t, NumberEmpty
  <1>11. queue'[u] = <<>> /\ got'[d] = got[d]
    BY <1>5, <1>a
  <1>12. EndLast(d, queue[Cur(d)])' /\ Numbered(d, queue[Cur(d)], got[d], Arrived(d), All(d))'
    BY <1>2, <1>7, <1>9, <1>10, <1>11
  <1>13. got'[d] <= Arrived(d)'
    BY <1>7, <1>11, <1>t DEF ItemsOf
  <1> QED BY <1>1, <1>12, <1>13 DEF ItemsOf

\* A first stream is minted before its client sends the message.
LEMMA MintItems ==
    ASSUME TypeOK, TypeOK', Places, Line, Next, NEW d \in Clients, ItemsOf(d),
           MintChannelStream(Cur(d)), conn[d] > 0
    PROVE  ItemsOf(d)'
  <1>a. /\ UNCHANGED <<got, conn, cpc, queue, fanFrame, fanLeft, sent, turn, outcome>>
        /\ handler[Cur(d)] = "called"
    BY DEF MintChannelStream, clientVars, fanVars, harnessVars
  <1>t. /\ got[d] \in Nat /\ sent[d] \in Nat /\ conn[d] \in Nat
        /\ Arrived(d) \in Int /\ Arrived(d) <= sent[d]
    BY ItemTypes
  <1>1. PICK u \in Streams : u = Cur(d) /\ u[1] = d
    BY CurIs
  <1>2. u = Cur(d)' /\ Arrived(d)' = Arrived(d)
    BY <1>a, <1>1 DEF Cur, Arrived, Due
  <1>3. queue[u] = <<>> /\ cpc[d] = "opening"
    BY <1>a, <1>1 DEF Places, StreamPlace, Receiving, Opening
  <1>4. conn[d] = 1 => sent[d] = 0
    BY <1>3 DEF Line, LineOf, Unsent
  <1>5. PICK b \in BOOLEAN : b = All(d)'
    BY DEF All
  <1>6. b => Arrived(d) <= got[d]
    <2>1. b => conn[d] = 1
      BY <1>5, <1>a DEF All
    <2> QED BY <2>1, <1>4, <1>t
  <1>7. EndLast(d, <<>>) /\ Numbered(d, <<>>, got[d], Arrived(d), b)
    BY <1>6, <1>t, NumberEmpty
  <1>8. queue'[u] = <<>> /\ got'[d] = got[d]
    BY <1>3, <1>a
  <1>9. EndLast(d, queue[Cur(d)])' /\ Numbered(d, queue[Cur(d)], got[d], Arrived(d), All(d))'
    BY <1>2, <1>5, <1>7, <1>8
  <1> QED BY <1>2, <1>3, <1>9, <1>a DEF ItemsOf

\* The delivery under way comes to the client's stream with the next item of its turn.
LEMMA SendItems ==
    ASSUME TypeOK, TypeOK', Places, Line, Truth, Ends, Next, NEW d \in Clients, ItemsOf(d),
           SendToStream(Cur(d)), IsItem(d, fanFrame), conn[d] > 0
    PROVE  ItemsOf(d)'
  <1>a. /\ UNCHANGED <<got, conn, cpc, handler, sent, turn, outcome>>
        /\ Cur(d) \in fanLeft /\ fanLeft' = fanLeft \ {Cur(d)}
    BY DEF SendToStream, clientVars, harnessVars
  <1>t. /\ got[d] \in Nat /\ sent[d] \in Nat /\ conn[d] \in Nat /\ All(d) \in BOOLEAN
        /\ Arrived(d) \in Int
    BY ItemTypes
  <1>1. PICK u \in Streams : u = Cur(d) /\ u[1] = d
    BY CurIs
  <1>2. u = Cur(d)' /\ All(d)' = All(d)
    BY <1>a, <1>1 DEF Cur, All, Whole, Receiving
  <1>3. Arrived(d) = sent[d] - 1 /\ Arrived(d)' = sent[d]
    BY <1>a, <1>1, <1>2 DEF Arrived, Due, IsItem
  <1>4. hpc = "run" /\ turn = d
    BY <1>a DEF Ends, Delivery, IsItem
  <1>5. outcome[d] = "none"
    BY <1>4 DEF Line, Loop
  <1>6. cpc[d] = "idle" => conn[d] # 1
    BY <1>5 DEF ItemsOf
  <1>7. PICK hi \in Nat : hi = Arrived(d) /\ got[d] <= hi /\ hi + 1 = sent[d]
    <2>1. got[d] <= Arrived(d)
      BY DEF ItemsOf
    <2> QED BY <2>1, <1>3, <1>t
  <1>8. CASE Receiving(u)
    <2>1. queue'[u] = Append(queue[u], fanFrame) /\ queue[u] \in Seq(Frames) /\ fanFrame \in Frames
      BY <1>1, <1>8 DEF SendToStream, Push, TypeOK
    <2>2. ASSUME NEW i \in 1..Len(queue[u]) PROVE ~IsEnd(d, queue[u][i])
      <3>1. FrameTrue(queue[u][i])
        BY DEF Truth
      <3> QED BY <3>1, <1>5 DEF FrameTrue, IsEnd, Terminal
    <2>3. PICK a \in BOOLEAN : a = All(d)
      BY <1>t
    <2>4. PICK lo \in Nat : lo = got[d]
      BY <1>t
    <2>5. Numbered(d, queue[u], lo, hi, a) /\ lo <= hi
      BY <1>1, <1>7, <2>3, <2>4 DEF ItemsOf
    <2>6. Numbered(d, Append(queue[u], fanFrame), lo, hi + 1, a)
          /\ EndLast(d, Append(queue[u], fanFrame))
      BY <2>1, <2>2, <2>5, NumberItem
    <2>7. EndLast(d, queue[Cur(d)])' /\ Numbered(d, queue[Cur(d)], got[d], Arrived(d), All(d))'
      BY <2>1, <2>3, <2>4, <2>6, <1>a, <1>2, <1>3, <1>7
    <2> QED BY <2>7, <1>a, <1>3, <1>6, <1>7, <1>t DEF ItemsOf
  <1>9. CASE ~Receiving(u)
    <2>1. queue'[u] = queue[u]
      BY <1>1, <1>9 DEF SendToStream
    <2>2. ~(All(d)')
      BY <1>1, <1>2, <1>9 DEF All
    <2>3. PICK m \in Int : m = Arrived(d)' /\ Arrived(d) <= m
      BY <1>3, <1>t
    <2> QED BY <1>1, <1>2, <1>a, <2>1, <2>2, <2>3, KeepItems
  <1> QED BY <1>8, <1>9

\* Every step keeps what a client was given and what is ahead of it together.
LEMMA StepItems ==
    ASSUME TypeOK, TypeOK', Places, Line, Truth, Ends, Items, Next
    PROVE  Items'
  <1> SUFFICES ASSUME NEW d \in Clients PROVE ItemsOf(d)'
    BY DEF Items
  <1>i. ItemsOf(d)
    BY DEF Items
  <1>t. /\ got[d] \in Nat /\ sent[d] \in Nat /\ conn[d] \in Nat /\ Arrived(d) \in Int
        /\ got[d] <= Arrived(d)
        /\ Due(d) => Arrived(d) = sent[d] - 1
        /\ ~Due(d) => Arrived(d) = sent[d]
    BY <1>i, ItemTypes DEF ItemsOf
  <1>n. fanLeft = {} => ~Due(d)
    BY DEF Due
  <1>1. CASE Open(d)
    BY <1>1, <1>i, OpenItems
  <1>2. CASE HandleFrame(d)
    BY <1>2, HandleItems
  <1>3. CASE MintChannelStream(Cur(d)) /\ conn[d] > 0
    BY <1>3, <1>i, MintItems
  <1>4. CASE SendToStream(Cur(d)) /\ IsItem(d, fanFrame) /\ conn[d] > 0
    BY <1>4, <1>i, SendItems
  <1>s. ASSUME conn[d] = 0 PROVE Cur(d) \notin Streams /\ Cur(d) \notin fanLeft
    <2>1. Cur(d) \notin Streams
      BY <1>s, StreamIs DEF Cur
    <2> QED BY <2>1 DEF TypeOK
  <1>r. ASSUME ~Open(d), ~HandleFrame(d), ~(MintChannelStream(Cur(d)) /\ conn[d] > 0),
               ~(SendToStream(Cur(d)) /\ IsItem(d, fanFrame) /\ conn[d] > 0),
               Due(d)' <=> Due(d), sent'[d] = sent[d], Whole(d)' => Whole(d)
        PROVE  ItemsOf(d)'
    <2>1. CASE conn[d] > 0
      BY <1>r, <2>1, <1>i, RestItems
    <2>2. CASE conn[d] = 0
      <3>1. /\ conn'[d] = conn[d] /\ got'[d] = got[d]
            /\ cpc'[d] = "idle" /\ conn[d] = 1 => cpc[d] = "idle"
        BY <1>r, ClientSteps
      <3>2. Arrived(d)' = Arrived(d)
        BY <1>r DEF Arrived
      <3> QED BY <2>2, <3>1, <3>2, <1>i DEF ItemsOf
    <2> QED BY <2>1, <2>2, <1>t
  <1> SUFFICES ASSUME ~Open(d), ~HandleFrame(d), ~(MintChannelStream(Cur(d)) /\ conn[d] > 0),
                      ~(SendToStream(Cur(d)) /\ IsItem(d, fanFrame) /\ conn[d] > 0)
               PROVE  ItemsOf(d)'
    BY <1>1, <1>2, <1>3, <1>4
  <1>c. /\ conn'[d] = conn[d] /\ got'[d] = got[d] /\ Cur(d)' = Cur(d)
        /\ cpc'[d] = "idle" /\ conn[d] = 1 => cpc[d] = "idle"
    BY ClientSteps DEF Cur
  <1>5. ASSUME NEW c \in Clients, ClientNext(c) PROVE ItemsOf(d)'
    <2>1. UNCHANGED fanVars /\ UNCHANGED harnessVars
      BY <1>5 DEF ClientNext, Open, Refused, Admit, Notify, RecordWorking, SetPhase, SendWorking,
                  IngestDropped, ReadAck, GetTurnState, HandleFrame, NoticeEnd
    <2> QED BY <2>1, <1>c, <1>r DEF fanVars, harnessVars, Due, Whole
  <1>6. ASSUME NEW s \in Streams, StreamNext(s) PROVE ItemsOf(d)'
    <2>1. UNCHANGED harnessVars /\ (UNCHANGED fanVars \/ SendToStream(s))
      BY <1>6 DEF StreamNext, MintChannelStream, SendAck, BeginReplay, ReplayTurnState, Abandon,
                  StreamEnds, UnregisterChannelStream, SendToStream
    <2>2. CASE UNCHANGED fanVars
      BY <2>1, <2>2, <1>c, <1>r DEF fanVars, harnessVars, Due, Whole
    <2>3. CASE SendToStream(s)
      <3>1. Due(d)' <=> Due(d)
        <4>1. CASE s = Cur(d)
          <5>1. ~IsItem(d, fanFrame)
            BY <2>3, <4>1, <1>s, <1>t
          <5> QED BY <2>3, <4>1, <5>1, <1>c DEF SendToStream, Due, IsItem
        <4>2. CASE s # Cur(d) /\ fanLeft = {s}
          BY <2>3, <4>2, <1>c DEF SendToStream, Due
        <4>3. CASE s # Cur(d) /\ fanLeft # {s}
          BY <2>3, <4>3, <1>c DEF SendToStream, Due
        <4> QED BY <4>1, <4>2, <4>3
      <3> QED BY <2>1, <3>1, <1>r DEF harnessVars, Whole
    <2> QED BY <2>1, <2>2, <2>3
  <1>7. CASE HarnessNext
    <2>1. CASE Subscribe \/ Forward \/ ForwarderEnds \/ SubscriptionClosed \/ RecordOutcome
      BY <2>1, <1>c, <1>r DEF Subscribe, Forward, ForwarderEnds, SubscriptionClosed,
            RecordOutcome, fanVars, harnessVars, Due, Whole
    <2>2. CASE NextMessage
      <3>1. Due(d)' <=> Due(d)
        BY <2>2, <1>c DEF NextMessage, fanVars, Due
      <3>2. turn' = d => sent[d] = 0
        <4>1. ASSUME turn' = d PROVE In(d, wire)
          BY <2>2, <4>1, InTail DEF NextMessage, TypeOK
        <4> QED BY <4>1 DEF Line, LineOf
      <3>3. sent' = sent /\ outcome' = outcome
        BY <2>2 DEF NextMessage
      <3> QED BY <3>1, <3>2, <3>3, <1>r DEF Whole
    <2>3. ASSUME NEW o \in Outcomes, LoopReturns(o) PROVE ItemsOf(d)'
      <3>1. Due(d)' <=> Due(d)
        BY <2>3, <1>c DEF LoopReturns, fanVars, Due
      <3>2. sent' = sent /\ turn' = turn /\ (turn # d => outcome'[d] = outcome[d])
        BY <2>3 DEF LoopReturns, TypeOK
      <3> QED BY <3>1, <3>2, <1>r DEF Whole
    <2>4. CASE TurnEnds
      <3>1. Due(d)' <=> Due(d)
        BY <2>4, <1>c DEF TurnEnds, fanVars, Due
      <3>2. sent' = sent /\ turn' = None /\ outcome' = outcome
        BY <2>4 DEF TurnEnds
      <3> QED BY <3>1, <3>2, <1>r, ClientsAssumption DEF Whole
    <2>5. CASE DeliverStart \/ DeliverReply \/ DeliverTurnState
      <3>1. fanFrame'.kind # "item" /\ fanLeft = {}
        BY <2>5, FrameFields DEF DeliverStart, DeliverReply, DeliverTurnState, FanOut
      <3>2. ~Due(d) /\ ~(Due(d)')
        BY <3>1 DEF Due
      <3>3. sent' = sent /\ turn' = turn /\ outcome' = outcome
        BY <2>5 DEF DeliverStart, DeliverReply, DeliverTurnState
      <3> QED BY <3>2, <3>3, <1>r DEF Whole
    <2>6. CASE DeliverStreamItem
      <3>a. /\ UNCHANGED <<turn, outcome, queue, handler, cpc>> /\ fanLeft = {} /\ fanLeft' = reg
            /\ reg # {} => fanFrame' = Item(turn)
            /\ hpc = "run" /\ sent' = [sent EXCEPT ![turn] = sent[turn] + 1]
        BY <2>6 DEF DeliverStreamItem, FanOut, Item, clientVars, streamVars
      <3>1. ~Due(d)
        BY <3>a, <1>n
      <3>2. CASE turn # d
        <4>1. ~(Due(d)')
          <5>1. CASE reg = {} BY <3>a, <5>1 DEF Due
          <5>2. CASE reg # {} BY <3>a, <3>2, <5>2, FrameFields DEF Due, Item
          <5> QED BY <5>1, <5>2
        <4>2. sent'[d] = sent[d]
          BY <3>a, <3>2 DEF TypeOK
        <4> QED BY <3>a, <3>1, <4>1, <4>2, <1>r DEF Whole
      <3>3. CASE turn = d
        <4>1. sent'[d] = sent[d] + 1 /\ outcome[d] = "none"
          BY <3>a, <3>3 DEF TypeOK, Line, Loop
        <4>2. Due(d)' <=> Cur(d) \in reg
          BY <3>a, <3>3, <1>c, FrameFields DEF Due, Item
        <4>3. PICK u : u = Cur(d) /\ u = Cur(d)'
          BY <1>c
        <4>4. PICK hi \in Int : hi = Arrived(d)' /\ (u \in reg => hi = sent[d])
                                /\ (u \notin reg => hi = sent[d] + 1)
          BY <4>1, <4>2, <4>3, <1>t DEF Arrived
        <4>5. Arrived(d) <= hi
          BY <3>1, <4>4, <1>t
        <4>6. ASSUME All(d)' PROVE All(d) /\ hi = Arrived(d)
          <5>1. Receiving(u) /\ conn[d] = 1
            BY <4>6, <4>3, <3>a, <1>c DEF All, Receiving
          <5>2. u \in Streams
            <6>1. conn[d] > 0
              BY <5>1
            <6> QED BY <6>1, <4>3, CurIs
          <5>3. u \in reg
            BY <5>1, <5>2 DEF Places, StreamPlace, Receiving
          <5> QED BY <5>1, <5>3, <4>3, <4>4, <3>1, <3>3, <1>t DEF All, Whole
        <4>7. queue'[u] = queue[u]
          BY <3>a
        <4> QED BY <1>i, <1>c, <4>1, <4>3, <4>4, <4>5, <4>6, <4>7, KeepItems
      <3> QED BY <3>2, <3>3
    <2> QED BY <1>7, <2>1, <2>2, <2>3, <2>4, <2>5, <2>6 DEF HarnessNext
  <1>8. CASE FaultNext
    <2>a. sent' = sent /\ outcome' = outcome /\ turn' \in {turn, None}
      BY <1>8 DEF FaultNext, DeliveryFails, HarnessRestart, SubscriptionBreaks, RelayRestart,
                  harnessVars
    <2>w. Whole(d)' => Whole(d)
      BY <2>a, ClientsAssumption DEF Whole
    <2>1. CASE DeliveryFails \/ SubscriptionBreaks
      <3>1. Due(d)' <=> Due(d)
        BY <2>1, <1>c DEF DeliveryFails, SubscriptionBreaks, fanVars, Due
      <3> QED BY <3>1, <2>a, <2>w, <1>r
    <2>2. CASE HarnessRestart /\ ~Due(d)
      <3>1. ~(Due(d)')
        BY <2>2 DEF HarnessRestart, Due
      <3> QED BY <2>2, <3>1, <2>a, <2>w, <1>r
    <2>3. CASE (HarnessRestart /\ Due(d)) \/ RelayRestart
      <3>1. ~(Due(d)')
        BY <2>3 DEF HarnessRestart, RelayRestart, Due
      <3>2. PICK hi \in Int : hi = Arrived(d)' /\ hi = sent[d]
        BY <3>1, <2>a, <1>t DEF Arrived
      <3>3. Arrived(d) <= hi
        BY <3>2, <1>t
      <3>4. PICK u : u = Cur(d) /\ u = Cur(d)'
        BY <1>c
      <3>5. conn[d] > 0 => u \in Streams
        BY <3>4, CurIs
      <3>6. CASE RelayRestart
        <4>1. conn[d] > 0 => queue'[u] = <<>> /\ ~Receiving(u)'
          BY <3>5, <3>6 DEF RelayRestart, Receiving
        <4>2. ~(All(d)')
          BY <4>1, <3>4, <1>c, <1>t DEF All
        <4> QED BY <1>i, <1>c, <2>a, <3>2, <3>3, <3>4, <4>1, <4>2, KeepItems
      <3>7. CASE HarnessRestart /\ Due(d)
        <4>1. fanLeft # {} /\ fanFrame.kind = "item" /\ fanFrame.conv = d
          BY <3>7 DEF Due
        <4>2. hpc = "run" /\ turn = d
          BY <4>1 DEF Ends, Delivery
        <4>3. outcome[d] = "none" /\ sent[d] # 0
          BY <4>2, <3>7, <1>t DEF Line, Loop
        <4>4. turn' = None
          BY <3>7 DEF HarnessRestart
        <4>5. ~(All(d)')
          BY <4>3, <4>4, <2>a, ClientsAssumption DEF All, Whole
        <4>6. queue' = queue
          BY <3>7 DEF HarnessRestart, streamVars
        <4> QED BY <1>i, <1>c, <2>a, <3>2, <3>3, <3>4, <4>5, <4>6, KeepItems
      <3> QED BY <2>3, <3>6, <3>7
    <2> QED BY <1>8, <2>1, <2>2, <2>3 DEF FaultNext
  <1> QED BY <1>5, <1>6, <1>7, <1>8 DEF Next

----------------------------------------------------------------------------
(* The theorems *)

\* The invariant holds at the start.
LEMMA InitInv == Init => Inv
  <1> SUFFICES ASSUME Init PROVE Inv
    OBVIOUS
  <1>1. TypeOK
    <2>1. AckFrame \in Frames
      BY DEF AckFrame, Frame, Frames
    <2>2. queue \in [Streams -> Seq(Frames)] /\ \A s \in Streams : Len(queue[s]) <= Cap
      BY CapAssumption DEF Init
    <2>3. /\ bus \in Seq(Clients) /\ Len(bus) <= BusCap
          /\ wire \in Seq(Clients) /\ Len(wire) <= BusCap
      BY CapAssumption DEF Init
    <2>4. conn \in [Clients -> Nat] /\ \A c \in Clients : conn[c] <= MaxConnects[c]
      BY BoundsAssumption DEF Init
    <2>5. got \in [Clients -> 0..MaxItems] /\ sent \in [Clients -> 0..MaxItems]
          /\ faults \in 0..MaxFaults
      BY BoundsAssumption DEF Init
    <2> QED BY <2>1, <2>2, <2>3, <2>4, <2>5 DEF Init, TypeOK
  <1>2. Places
    <2>1. \A c \in Clients : ClientPlace(c)
      BY DEF Init, ClientPlace
    <2>2. \A s \in Streams : StreamPlace(s)
      BY <1>1, StreamPairs DEF Init, StreamPlace, Opening, Receiving
    <2> QED BY <2>1, <2>2 DEF Places, Init
  <1>3. Line
    <2>1. \A c \in Clients : LineOf(c)
      BY InEmpty, ClientsAssumption DEF Init, LineOf
    <2>2. Loop
      BY DEF Init, Loop
    <2> QED BY <2>1, <2>2, InEmpty DEF Line, Init
  <1>4. Truth
    <2>1. \A c \in Clients : RecordTrue(c)
      BY DEF Init, RecordTrue, Recorded, Terminal
    <2>2. \A s \in Streams : \A i \in 1..Len(queue[s]) : FrameTrue(queue[s][i])
      BY DEF Init
    <2> QED BY <2>1, <2>2 DEF Truth, Init
  <1>5. Ends
    <2>1. \A c \in Clients : EndsOf(c)
      BY ClientsAssumption DEF Init, EndsOf, Closing, Closed
    <2>2. Delivery
      BY DEF Init, Delivery
    <2> QED BY <2>1, <2>2 DEF Ends
  <1>6. Items
    <2>1. \A c \in Clients : conn[c] = 0 /\ got[c] = 0 /\ Arrived(c) = 0
      BY DEF Init, Arrived, Due
    <2> QED BY <2>1 DEF Items, ItemsOf
  <1> QED BY <1>1, <1>2, <1>3, <1>4, <1>5, <1>6 DEF Inv

\* Every step keeps the invariant.
LEMMA NextInv == Inv /\ [Next]_vars => Inv'
  <1> SUFFICES ASSUME Inv, [Next]_vars PROVE Inv'
    OBVIOUS
  <1>i. TypeOK /\ Places /\ Line /\ Truth /\ Ends /\ Items
    BY DEF Inv
  <1>1. CASE Next
    <2>1. TypeOK'
      <3>1. ASSUME NEW c \in Clients, ClientNext(c) PROVE TypeOK'
        <4>1. ASSUME HandleFrame(c) PROVE got' \in [Clients -> 0..MaxItems]
          <5>1. got'[c] <= sent[c]
            BY <1>i, <1>1, <4>1, HandleItems
          <5>2. got \in [Clients -> 0..MaxItems] /\ sent[c] \in 0..MaxItems /\ MaxItems \in Nat
            BY <1>i, BoundsAssumption DEF TypeOK
          <5>3. PICK n \in {got[c], got[c] + 1} : got' = [got EXCEPT ![c] = n]
            BY <4>1 DEF HandleFrame
          <5>4. n \in 0..MaxItems
            BY <5>1, <5>2, <5>3
          <5> QED BY <5>2, <5>3, <5>4
        <4> QED BY <1>i, <3>1, <4>1, ClientTypes
      <3> QED BY <1>i, <1>1, <3>1, StreamTypes, HarnessTypes, FaultTypes DEF Next
    <2>2. Places'
      BY <1>i, <1>1, <2>1, StepPlaces
    <2>3. Line'
      BY <1>i, <1>1, StepLine
    <2>4. Truth'
      BY <1>i, <1>1, StepTruth
    <2>5. Ends'
      BY <1>i, <1>1, StepEnds
    <2>6. Items'
      BY <1>i, <1>1, <2>1, StepItems
    <2> QED BY <2>1, <2>2, <2>3, <2>4, <2>5, <2>6 DEF Inv
  <1>2. CASE UNCHANGED vars
    <2>u. UNCHANGED <<cpc, conn, got, reg, handler, phase, queue, record, fanFrame, fanLeft, bus,
                      busOpen, fwd, wire, hpc, turn, sent, outcome, over, overtaken, forgotten,
                      faults>>
      BY <1>2 DEF vars
    <2>1. TypeOK'
      BY <1>i, <2>u DEF TypeOK
    <2>2. Places'
      BY <1>i, <2>u DEF Places, ClientPlace, StreamPlace, Cur, Receiving
    <2>3. Line'
      BY <1>i, <2>u DEF Line, LineOf, Loop, Unsent
    <2>4. Truth'
      BY <1>i, <2>u DEF Truth, FrameTrue, RecordTrue, Recorded
    <2>5. Ends'
      BY <1>i, <2>u DEF Ends, EndsOf, Delivery, Closing, Closed, Waiting, EndAhead, Cur
    <2>6. Items'
      BY <1>i, <2>u DEF Items, ItemsOf, Arrived, Due, All, Whole, Cur, Receiving
    <2> QED BY <2>1, <2>2, <2>3, <2>4, <2>5, <2>6 DEF Inv
  <1> QED BY <1>1, <1>2

\* The invariant holds throughout.
THEOREM InvHolds == Spec => []Inv
  BY InitInv, NextInv, PTL DEF Spec

\* Types, and the limits of the channels and of the bus, hold throughout.
THEOREM TypeCorrect == Spec => []TypeOK
  <1>1. Inv => TypeOK
    BY DEF Inv
  <1> QED BY <1>1, InvHolds, PTL

\* What a client is told, by a frame or by GetTurnState, is how its turn ended, unless
\* the relay restarted and lost the record.
THEOREM ClientsAreToldTheTruth == Spec => []ToldTruth
  <1>1. Inv => ToldTruth
    BY DEF Inv, Truth, RecordTrue, ToldTruth
  <1> QED BY <1>1, InvHolds, PTL

\* A client that listens on a served stream after its turn was over still has the
\* turn's terminal frame ahead of it, unless WORKING was recorded after the end.
THEOREM TheEndIsAhead == Spec => []NoMissedTerminal
  <1>1. ASSUME Inv PROVE NoMissedTerminal
    <2>1. ASSUME NEW c \in Clients, cpc[c] = "listen", c \in over \ overtaken,
                 handler[Cur(c)] = "serving"
          PROVE  \E i \in 1..Len(queue[Cur(c)]) : queue[Cur(c)][i] = Frame("turn", c, outcome[c])
      <3>1. Closed(c) /\ Waiting(c) /\ EndsOf(c) /\ LineOf(c)
        BY <1>1, <2>1 DEF Closed, Waiting, Inv, Ends, Line
      <3>2. EndAhead(c) /\ turn # c
        BY <2>1, <3>1 DEF EndsOf, LineOf
      <3> QED BY <3>2 DEF EndAhead, In
    <2> QED BY <2>1 DEF NoMissedTerminal
  <1> QED BY <1>1, InvHolds, PTL

\* A client that stays on its first stream until its turn is over has been given every
\* item of the turn.
THEOREM NoItemIsSkipped == Spec => []NothingSkipped
  <1>1. Inv => NothingSkipped
    BY DEF Inv, Items, ItemsOf, NothingSkipped
  <1> QED BY <1>1, InvHolds, PTL
=============================================================================
