------------------------------- MODULE Relay -------------------------------
(***************************************************************************)
(* How a client learns the end of its turn.  The relay (relay-controller)  *)
(* keeps channel streams, a message bus per workspace and the last turn    *)
(* state of each conversation; the syco client (chat.go) opens a stream,   *)
(* ingests one message, listens, and after a broken stream opens another   *)
(* and polls GetTurnState; the harness takes messages off the bus and      *)
(* delivers frames that are fanned out to every stream of the workspace.   *)
(*                                                                         *)
(* One workspace.  Every client has one conversation, named after it, and  *)
(* sends one message.  A stream id is the client with the number of its    *)
(* connection, which stands for the fresh UUID.  The transport's window is *)
(* folded into the bounded channel of the stream.  The table of channel    *)
(* streams is behind a read-write lock: a reader keeps it while it waits   *)
(* for room in a channel, and a writer waits for all readers.              *)
(***************************************************************************)
EXTENDS Naturals, Sequences, FiniteSets

CONSTANTS
    Clients,
    None,         \* no conversation, no turn
    Cap,          \* capacity of a channel stream (16)
    BusCap,       \* capacity of the bus (16)
    MaxConnects,  \* bound: client -> streams it opens; the last does not break
    Outcomes,     \* terminal states the turns end in
    MaxItems,     \* bound: stream items of a turn
    MaxFaults     \* bound: restarts, broken calls, denials, clients that leave

ASSUME ClientsAssumption == None \notin Clients
ASSUME CapAssumption == Cap \in Nat \ {0} /\ BusCap \in Nat \ {0}
ASSUME BoundsAssumption ==
    MaxConnects \in [Clients -> Nat] /\ MaxItems \in Nat /\ MaxFaults \in Nat

Terminal == {"idle", "failed", "cancelled"}
ASSUME OutcomesAssumption == Outcomes \subseteq Terminal

Streams == UNION {{c} \X (1..MaxConnects[c]) : c \in Clients}

VARIABLES
    cpc,        \* client -> where the client, or its ingest request, is
    conn,       \* client -> number of its current connection
    got,        \* client -> items of its turn read on the first stream
    reg,        \* ids in the table of channel streams
    handler,    \* stream -> where channel_stream_receive or its stream is
    phase,      \* stream -> current_state of its entry
    queue,      \* stream -> frames in its channel
    record,     \* client -> last_turn_state of its conversation
    fanFrame,   \* frame being fanned out (AckFrame when none is)
    fanLeft,    \* streams it still has to go to
    bus,        \* messages the forwarder has not received
    busOpen,    \* the workspace's sender exists
    fwd,        \* forwarder of the open subscription: running, lagged, gone
    wire,       \* messages forwarded to the harness
    hpc,        \* where the harness's message loop is
    turn,       \* client whose turn runs
    sent,       \* client -> items of its turn fanned out
    outcome,    \* client -> how its turn ended (history)
    over,       \* clients whose terminal state was fanned out (history)
    overtaken,  \* WORKING was recorded after the terminal state (history)
    forgotten,  \* the record was lost with the relay (history)
    faults

clientVars  == <<cpc, conn, got>>
streamVars  == <<reg, handler, phase, queue>>
fanVars     == <<fanFrame, fanLeft>>
busVars     == <<bus, busOpen, fwd, wire>>
harnessVars == <<hpc, turn, sent, outcome, over>>
historyVars == <<overtaken, forgotten>>
vars == <<cpc, conn, got, reg, handler, phase, queue, record, fanFrame, fanLeft, bus, busOpen,
          fwd, wire, hpc, turn, sent, outcome, over, overtaken, forgotten, faults>>

Cur(c) == <<c, conn[c]>>

Frame(k, c, s) == [kind |-> k, conv |-> c, state |-> s]
AckFrame == Frame("ack", None, "none")

\* The receiving half of the channel exists.
Receiving(s) == handler[s] \in {"minted", "acked", "replay", "serving"}

Room(s) == Len(queue[s]) < Cap

\* Somebody reads the table of channel streams and waits for room.
ReadHeld ==
    \/ fanLeft # {}
    \/ \E c \in Clients : cpc[c] = "send"
    \/ \E s \in Streams : handler[s] = "replay"

\* The one-shot client returns, and its connection closes with it: a stream
\* that is served is dropped and its guard starts the drain.
Exit(c) ==
    /\ handler' = [handler EXCEPT ![Cur(c)] =
                     CASE @ = "serving" -> "draining" [] @ = "called" -> "closed" [] OTHER -> @]
    /\ queue' = [queue EXCEPT ![Cur(c)] = <<>>]

Fault == faults < MaxFaults /\ faults' = faults + 1

Push(s, f) == queue' = [queue EXCEPT ![s] = Append(@, f)]
Pop(s) == queue' = [queue EXCEPT ![s] = Tail(@)] /\ UNCHANGED handler

----------------------------------------------------------------------------
Init ==
    /\ cpc = [c \in Clients |-> "ready"]
    /\ conn = [c \in Clients |-> 0]
    /\ got = [c \in Clients |-> 0]
    /\ reg = {}
    /\ handler = [s \in Streams |-> "none"]
    /\ phase = [s \in Streams |-> "idle"]
    /\ queue = [s \in Streams |-> <<>>]
    /\ record = [c \in Clients |-> "none"]
    /\ fanFrame = AckFrame
    /\ fanLeft = {}
    /\ bus = <<>>
    /\ busOpen = FALSE
    /\ fwd = "gone"
    /\ wire = <<>>
    /\ hpc = "unsubscribed"
    /\ turn = None
    /\ sent = [c \in Clients |-> 0]
    /\ outcome = [c \in Clients |-> "none"]
    /\ over = {}
    /\ overtaken = {}
    /\ forgotten = {}
    /\ faults = 0

----------------------------------------------------------------------------
(* channel_stream_receive, and the life of its response stream. *)

\* The client calls ChannelStreamReceive, at first or after a broken stream.
Open(c) ==
    /\ cpc[c] \in {"ready", "broken"}
    /\ conn[c] < MaxConnects[c]
    /\ conn' = [conn EXCEPT ![c] = @ + 1]
    /\ cpc' = [cpc EXCEPT ![c] = "opening"]
    /\ handler' = [handler EXCEPT ![<<c, conn[c] + 1>>] = "called"]
    /\ UNCHANGED <<got, reg, phase, queue, record, fanVars, busVars, harnessVars, historyVars,
                   faults>>

\* A review denies the caller: the stream is refused, or the poll, or the ingest.
Refused(c) ==
    /\ Fault
    /\ \/ cpc[c] = "opening" /\ handler[Cur(c)] = "called"
       \/ cpc[c] \in {"ingest", "poll"}
    /\ cpc' = [cpc EXCEPT ![c] = "error"]
    /\ Exit(c)
    /\ UNCHANGED <<conn, got, reg, phase, record, fanVars, busVars, harnessVars,
                   historyVars>>

MintChannelStream(s) ==
    /\ handler[s] = "called"
    /\ ~ReadHeld
    /\ handler' = [handler EXCEPT ![s] = "minted"]
    /\ reg' = reg \cup {s}
    /\ phase' = [phase EXCEPT ![s] = "idle"]
    /\ UNCHANGED <<clientVars, queue, record, fanVars, busVars, harnessVars, historyVars, faults>>

SendAck(s) ==
    /\ handler[s] = "minted"
    /\ Room(s)
    /\ Push(s, AckFrame)
    /\ handler' = [handler EXCEPT ![s] = "acked"]
    /\ UNCHANGED <<clientVars, reg, phase, record, fanVars, busVars, harnessVars, historyVars,
                   faults>>

\* replay_turn_state reads the table, then sends; the stream is served after.
BeginReplay(s) ==
    /\ handler[s] = "acked"
    /\ handler' = [handler EXCEPT ![s] = "replay"]
    /\ UNCHANGED <<clientVars, reg, phase, queue, record, fanVars, busVars, harnessVars,
                   historyVars, faults>>

ReplayTurnState(s) ==
    /\ handler[s] = "replay"
    /\ Room(s)
    /\ Push(s, Frame("turn", None, phase[s]))
    /\ handler' = [handler EXCEPT ![s] = "serving"]
    /\ UNCHANGED <<clientVars, reg, phase, record, fanVars, busVars, harnessVars, historyVars,
                   faults>>

\* The client goes while the handler runs: there is no drop guard yet, and the
\* entry stays in the table with its receiver gone.
Abandon(s) ==
    /\ Fault
    /\ handler[s] \in {"minted", "acked", "replay"}
    /\ handler' = [handler EXCEPT ![s] = "leaked"]
    /\ queue' = [queue EXCEPT ![s] = <<>>]
    /\ cpc' = [cpc EXCEPT ![s[1]] = "error"]
    /\ UNCHANGED <<conn, got, reg, phase, record, fanVars, busVars, harnessVars, historyVars>>

\* The connection breaks, the client closes it, or the review before an item
\* denies it: the response stream is dropped and its guard starts the drain.
StreamEnds(s) ==
    /\ handler[s] = "serving"
    /\ s[2] < MaxConnects[s[1]]
    /\ handler' = [handler EXCEPT ![s] = "draining"]
    /\ queue' = [queue EXCEPT ![s] = <<>>]
    /\ UNCHANGED <<clientVars, reg, phase, record, fanVars, busVars, harnessVars, historyVars,
                   faults>>

\* The drain delay has passed.
UnregisterChannelStream(s) ==
    /\ handler[s] = "draining"
    /\ ~ReadHeld
    /\ handler' = [handler EXCEPT ![s] = "closed"]
    /\ reg' = reg \ {s}
    /\ phase' = [phase EXCEPT ![s] = "idle"]
    /\ UNCHANGED <<clientVars, queue, record, fanVars, busVars, harnessVars, historyVars,
                   faults>>

----------------------------------------------------------------------------
(* channel_stream_ingest of the client's message. *)

\* The stream's binding: an unknown id is refused.
Admit(c) ==
    /\ cpc[c] = "ingest"
    /\ IF Cur(c) \in reg
       THEN cpc' = [cpc EXCEPT ![c] = "notify"] /\ UNCHANGED <<handler, queue>>
       ELSE cpc' = [cpc EXCEPT ![c] = "error"] /\ Exit(c)
    /\ UNCHANGED <<conn, got, reg, phase, record, fanVars, busVars, harnessVars, historyVars,
                   faults>>

\* A message nobody is subscribed to is dropped; one too many for the bus
\* drops the oldest and makes the forwarder lag.
Notify(c) ==
    /\ cpc[c] = "notify"
    /\ cpc' = [cpc EXCEPT ![c] = "record"]
    /\ IF ~busOpen \/ fwd = "gone"
       THEN UNCHANGED <<bus, fwd>>
       ELSE /\ bus' = Append(IF Len(bus) = BusCap THEN Tail(bus) ELSE bus, c)
            /\ fwd' = IF Len(bus) = BusCap THEN "lagged" ELSE fwd
    /\ UNCHANGED <<conn, got, streamVars, record, fanVars, busOpen, wire, harnessVars,
                   historyVars, faults>>

\* Mutant: the record is only kept for a stream that is still registered.
RecordWorkingIfRegistered(c) ==
    /\ cpc[c] = "record"
    /\ record' = IF Cur(c) \in reg THEN [record EXCEPT ![c] = "working"] ELSE record
    /\ overtaken' = IF record[c] \in Terminal THEN overtaken \cup {c} ELSE overtaken
    /\ cpc' = [cpc EXCEPT ![c] = "lookup"]
    /\ UNCHANGED <<conn, got, streamVars, fanVars, busVars, harnessVars, forgotten, faults>>

\* set_and_broadcast_turn_state, the record.
RecordWorking(c) ==
    /\ cpc[c] = "record"
    /\ record' = [record EXCEPT ![c] = "working"]
    /\ overtaken' = IF record[c] \in Terminal THEN overtaken \cup {c} ELSE overtaken
    /\ cpc' = [cpc EXCEPT ![c] = "lookup"]
    /\ UNCHANGED <<conn, got, streamVars, fanVars, busVars, harnessVars, forgotten, faults>>

\* ... the entry, whose phase it sets with the table read-locked ...
SetPhase(c) ==
    /\ cpc[c] = "lookup"
    /\ IF Cur(c) \in reg
       THEN /\ phase' = [phase EXCEPT ![Cur(c)] = "working"]
            /\ cpc' = [cpc EXCEPT ![c] = "send"]
       ELSE /\ phase' = phase
            /\ cpc' = [cpc EXCEPT ![c] = "listen"]
    /\ UNCHANGED <<conn, got, reg, handler, queue, record, fanVars, busVars, harnessVars,
                   historyVars, faults>>

\* ... and the frame; the client then has its ack.
SendWorking(c) ==
    /\ cpc[c] = "send"
    /\ \/ Receiving(Cur(c)) /\ Room(Cur(c)) /\ Push(Cur(c), Frame("turn", c, "working"))
       \/ ~Receiving(Cur(c)) /\ queue' = queue
    /\ cpc' = [cpc EXCEPT ![c] = "listen"]
    /\ UNCHANGED <<conn, got, reg, handler, phase, record, fanVars, busVars, harnessVars,
                   historyVars, faults>>

\* The client goes while its ingest runs: the handler is dropped where it is.
IngestDropped(c) ==
    /\ Fault
    /\ cpc[c] \in {"notify", "record", "lookup", "send"}
    /\ cpc' = [cpc EXCEPT ![c] = "error"]
    /\ Exit(c)
    /\ UNCHANGED <<conn, got, reg, phase, record, fanVars, busVars, harnessVars, historyVars>>

----------------------------------------------------------------------------
(* The client: chat.go. *)

ReadAck(c) ==
    /\ cpc[c] = "opening"
    /\ handler[Cur(c)] = "serving"
    /\ queue[Cur(c)] # <<>>
    /\ IF Head(queue[Cur(c)]).kind = "ack"
       THEN /\ cpc' = [cpc EXCEPT ![c] = IF conn[c] = 1 THEN "ingest" ELSE "poll"]
            /\ Pop(Cur(c))
       ELSE /\ cpc' = [cpc EXCEPT ![c] = "error"]
            /\ Exit(c)
    /\ UNCHANGED <<conn, got, reg, phase, record, fanVars, busVars, harnessVars,
                   historyVars, faults>>

\* GetTurnState on a reconnect; no record reads as IDLE.
GetTurnState(c) ==
    /\ cpc[c] = "poll"
    /\ IF record[c] = "working"
       THEN cpc' = [cpc EXCEPT ![c] = "listen"] /\ UNCHANGED <<handler, queue>>
       ELSE /\ cpc' = [cpc EXCEPT ![c] = IF record[c] = "none" THEN "idle" ELSE record[c]]
            /\ Exit(c)
    /\ UNCHANGED <<conn, got, reg, phase, record, fanVars, busVars, harnessVars, historyVars,
                   faults>>

\* recvLoop and handleFrame: frames of other conversations are passed over.
HandleFrame(c) ==
    /\ cpc[c] = "listen"
    /\ handler[Cur(c)] = "serving"
    /\ queue[Cur(c)] # <<>>
    /\ LET f == Head(queue[Cur(c)])
       IN /\ IF f.kind = "turn" /\ f.conv = c /\ f.state \in Terminal
             THEN cpc' = [cpc EXCEPT ![c] = f.state] /\ Exit(c)
             ELSE cpc' = cpc /\ Pop(Cur(c))
          /\ got' = [got EXCEPT ![c] = IF f.kind = "item" /\ f.conv = c THEN @ + 1 ELSE @]
    /\ UNCHANGED <<conn, reg, phase, record, fanVars, busVars, harnessVars, historyVars,
                   faults>>

\* A broken stream makes the client reconnect, before the ack it gives up.
NoticeEnd(c) ==
    /\ cpc[c] \in {"opening", "listen"}
    /\ handler[Cur(c)] \in {"draining", "closed"}
    /\ cpc' = [cpc EXCEPT ![c] = IF @ = "listen" THEN "broken" ELSE "error"]
    /\ UNCHANGED <<conn, got, streamVars, record, fanVars, busVars, harnessVars, historyVars,
                   faults>>

----------------------------------------------------------------------------
(* The bus and the harness's subscription. *)

Subscribe ==
    /\ hpc = "unsubscribed"
    /\ hpc' = "wait"
    /\ busOpen' = TRUE
    /\ bus' = <<>>
    /\ fwd' = "running"
    /\ wire' = <<>>
    /\ UNCHANGED <<clientVars, streamVars, record, fanVars, turn, sent, outcome, over,
                   historyVars, faults>>

Forward ==
    /\ fwd = "running"
    /\ bus # <<>>
    /\ Len(wire) < BusCap
    /\ wire' = Append(wire, Head(bus))
    /\ bus' = Tail(bus)
    /\ UNCHANGED <<clientVars, streamVars, record, fanVars, busOpen, fwd, harnessVars,
                   historyVars, faults>>

\* recv returns Lagged, the task ends and the skipped messages are lost.
ForwarderEnds ==
    /\ fwd = "lagged"
    /\ fwd' = "gone"
    /\ bus' = <<>>
    /\ UNCHANGED <<clientVars, streamVars, record, fanVars, busOpen, wire, harnessVars,
                   historyVars, faults>>

\* next() finds the stream closed once it has drained it.
SubscriptionClosed ==
    /\ hpc = "wait"
    /\ fwd = "gone"
    /\ wire = <<>>
    /\ hpc' = "unsubscribed"
    /\ UNCHANGED <<clientVars, streamVars, record, fanVars, busVars, turn, sent, outcome, over,
                   historyVars, faults>>

NextMessage ==
    /\ hpc = "wait"
    /\ wire # <<>>
    /\ turn' = Head(wire)
    /\ wire' = Tail(wire)
    /\ hpc' = "start"
    /\ UNCHANGED <<clientVars, streamVars, record, fanVars, bus, busOpen, fwd, sent, outcome,
                   over, historyVars, faults>>

----------------------------------------------------------------------------
(* Deliveries of the harness, one after the other. *)

\* send_to_workspace takes the read lock and sends to one stream after another.
FanOut(f) ==
    /\ fanLeft = {}
    /\ fanFrame' = IF reg = {} THEN AckFrame ELSE f
    /\ fanLeft' = reg

\* Mutant: try_send for stream items, which drops them when the channel is full.
TrySendToStream(s) ==
    /\ s \in fanLeft
    /\ Room(s) \/ ~Receiving(s) \/ fanFrame.kind = "item"
    /\ IF Receiving(s) /\ Room(s) THEN Push(s, fanFrame) ELSE queue' = queue
    /\ fanLeft' = fanLeft \ {s}
    /\ fanFrame' = IF fanLeft = {s} THEN AckFrame ELSE fanFrame
    /\ UNCHANGED <<clientVars, reg, handler, phase, record, busVars, harnessVars,
                   historyVars, faults>>

SendToStream(s) ==
    /\ s \in fanLeft
    /\ \/ Receiving(s) /\ Room(s) /\ Push(s, fanFrame)
       \/ ~Receiving(s) /\ queue' = queue
    /\ fanLeft' = fanLeft \ {s}
    /\ fanFrame' = IF fanLeft = {s} THEN AckFrame ELSE fanFrame
    /\ UNCHANGED <<clientVars, reg, handler, phase, record, busVars, harnessVars,
                   historyVars, faults>>

\* The start frame names no subject, so the relay records nothing for it.
DeliverStart ==
    /\ hpc = "start"
    /\ FanOut(Frame("turn", turn, "working"))
    /\ hpc' = "run"
    /\ UNCHANGED <<clientVars, streamVars, record, busVars, turn, sent, outcome, over,
                   historyVars, faults>>

DeliverStreamItem ==
    /\ hpc = "run"
    /\ sent[turn] < MaxItems
    /\ FanOut(Frame("item", turn, "none"))
    /\ sent' = [sent EXCEPT ![turn] = @ + 1]
    /\ UNCHANGED <<clientVars, streamVars, record, busVars, hpc, turn, outcome, over,
                   historyVars, faults>>

LoopReturns(o) ==
    /\ hpc = "run"
    /\ fanLeft = {}
    /\ outcome' = [outcome EXCEPT ![turn] = o]
    /\ hpc' = IF o = "idle" THEN "reply" ELSE "outcome"
    /\ UNCHANGED <<clientVars, streamVars, record, fanVars, busVars, turn, sent, over,
                   historyVars, faults>>

DeliverReply ==
    /\ hpc = "reply"
    /\ FanOut(Frame("reply", turn, "none"))
    /\ hpc' = "outcome"
    /\ UNCHANGED <<clientVars, streamVars, record, busVars, turn, sent, outcome, over,
                   historyVars, faults>>

\* Mutant: the state is only recorded when there is a stream to send it to.
RecordOutcomeIfStreamed ==
    /\ hpc = "outcome"
    /\ fanLeft = {}
    /\ record' = IF reg # {} THEN [record EXCEPT ![turn] = outcome[turn]] ELSE record
    /\ hpc' = "fan"
    /\ UNCHANGED <<clientVars, streamVars, fanVars, busVars, turn, sent, outcome, over,
                   historyVars, faults>>

\* deliver_turn_state records the state under the conversation's owner ...
RecordOutcome ==
    /\ hpc = "outcome"
    /\ fanLeft = {}
    /\ record' = [record EXCEPT ![turn] = outcome[turn]]
    /\ hpc' = "fan"
    /\ UNCHANGED <<clientVars, streamVars, fanVars, busVars, turn, sent, outcome, over,
                   historyVars, faults>>

\* ... and only then looks for streams to send it to.
DeliverTurnState ==
    /\ hpc = "fan"
    /\ FanOut(Frame("turn", turn, outcome[turn]))
    /\ hpc' = "end"
    /\ UNCHANGED <<clientVars, streamVars, record, busVars, turn, sent, outcome, over,
                   historyVars, faults>>

TurnEnds ==
    /\ hpc = "end"
    /\ fanLeft = {}
    /\ over' = over \cup {turn}
    /\ turn' = None
    /\ hpc' = "wait"
    /\ UNCHANGED <<clientVars, streamVars, record, fanVars, busVars, sent, outcome, historyVars,
                   faults>>

----------------------------------------------------------------------------
(* Faults. *)

\* A delivery does not reach the relay: the harness logs it and goes on.
DeliveryFails ==
    /\ hpc \in {"start", "reply", "outcome"}
    /\ fanLeft = {}
    /\ Fault
    /\ hpc' = CASE hpc = "start" -> "run" [] hpc = "reply" -> "outcome" [] OTHER -> "wait"
    /\ turn' = IF hpc = "outcome" THEN None ELSE turn
    /\ UNCHANGED <<clientVars, streamVars, record, fanVars, busVars, sent, outcome, over,
                   historyVars>>

\* The harness pod dies: its subscription ends, and so does a delivery under way.
HarnessRestart ==
    /\ hpc # "unsubscribed"
    /\ Fault
    /\ hpc' = "unsubscribed"
    /\ turn' = None
    /\ fwd' = "gone"
    /\ bus' = <<>>
    /\ wire' = <<>>
    /\ fanLeft' = {} /\ fanFrame' = AckFrame
    /\ UNCHANGED <<clientVars, streamVars, record, busOpen, sent, outcome, over,
                   historyVars>>

\* The connection of the subscription breaks; a turn that runs goes on.
SubscriptionBreaks ==
    /\ fwd # "gone"
    /\ Fault
    /\ fwd' = "gone"
    /\ bus' = <<>>
    /\ wire' = <<>>
    /\ UNCHANGED <<clientVars, streamVars, record, fanVars, busOpen, harnessVars, historyVars>>

\* The relay restarts with nothing: streams end, requests under way fail, the
\* delivery under way fails and the harness only logs it.
RelayRestart ==
    /\ Fault
    /\ reg' = {}
    /\ handler' = [s \in Streams |-> IF handler[s] = "none" THEN "none" ELSE "closed"]
    /\ queue' = [s \in Streams |-> <<>>]
    /\ cpc' = [c \in Clients |->
                 IF cpc[c] \in {"ingest", "notify", "record", "lookup", "send", "poll"}
                 THEN "error" ELSE cpc[c]]
    /\ record' = [c \in Clients |-> "none"]
    /\ forgotten' = forgotten \cup {c \in Clients : record[c] # "none"}
    /\ fanLeft' = {} /\ fanFrame' = AckFrame
    /\ busOpen' = FALSE
    /\ fwd' = "gone"
    /\ bus' = <<>>
    /\ wire' = <<>>
    /\ hpc' = IF hpc \in {"fan", "end"} THEN "wait" ELSE hpc
    /\ turn' = IF hpc \in {"fan", "end"} THEN None ELSE turn
    /\ phase' = [s \in Streams |-> "idle"]
    /\ UNCHANGED <<conn, got, sent, outcome, over, overtaken>>

----------------------------------------------------------------------------
ClientNext(c) ==
    \/ Open(c) \/ Refused(c) \/ Admit(c) \/ Notify(c) \/ RecordWorking(c) \/ SetPhase(c)
    \/ SendWorking(c) \/ IngestDropped(c) \/ ReadAck(c) \/ GetTurnState(c) \/ HandleFrame(c)
    \/ NoticeEnd(c)

StreamNext(s) ==
    \/ MintChannelStream(s) \/ SendAck(s) \/ BeginReplay(s) \/ ReplayTurnState(s) \/ Abandon(s)
    \/ StreamEnds(s) \/ UnregisterChannelStream(s) \/ SendToStream(s)

HarnessNext ==
    \/ Subscribe \/ Forward \/ ForwarderEnds \/ SubscriptionClosed \/ NextMessage \/ DeliverStart
    \/ DeliverStreamItem \/ (\E o \in Outcomes : LoopReturns(o)) \/ DeliverReply
    \/ RecordOutcome \/ DeliverTurnState \/ TurnEnds

FaultNext == DeliveryFails \/ HarnessRestart \/ SubscriptionBreaks \/ RelayRestart

Next ==
    \/ \E c \in Clients : ClientNext(c)
    \/ \E s \in Streams : StreamNext(s)
    \/ HarnessNext
    \/ FaultNext

Spec == Init /\ [][Next]_vars

----------------------------------------------------------------------------
Frames == [kind : {"ack", "turn", "item", "reply"}, conv : Clients \cup {None},
           state : Terminal \cup {"none", "working"}]

\* Types, and the limits of the channels and of the bus.
TypeOK ==
    /\ cpc \in [Clients -> {"ready", "broken", "opening", "ingest", "notify", "record", "lookup",
                            "send", "poll", "listen", "error"} \cup Terminal]
    /\ conn \in [Clients -> Nat] /\ \A c \in Clients : conn[c] <= MaxConnects[c]
    /\ got \in [Clients -> 0..MaxItems]
    /\ reg \subseteq Streams
    /\ handler \in [Streams -> {"none", "called", "minted", "acked", "replay", "serving",
                                "leaked", "draining", "closed"}]
    /\ phase \in [Streams -> {"idle", "working"}]
    /\ queue \in [Streams -> Seq(Frames)] /\ \A s \in Streams : Len(queue[s]) <= Cap
    /\ record \in [Clients -> {"none", "working"} \cup Terminal]
    /\ fanFrame \in Frames /\ fanLeft \subseteq Streams
    /\ bus \in Seq(Clients) /\ Len(bus) <= BusCap
    /\ wire \in Seq(Clients) /\ Len(wire) <= BusCap
    /\ busOpen \in BOOLEAN /\ fwd \in {"running", "lagged", "gone"}
    /\ hpc \in {"unsubscribed", "wait", "start", "run", "reply", "outcome", "fan", "end"}
    /\ turn \in Clients \cup {None}
    /\ sent \in [Clients -> 0..MaxItems]
    /\ outcome \in [Clients -> {"none"} \cup Terminal]
    /\ over \cup overtaken \cup forgotten \subseteq Clients
    /\ faults \in 0..MaxFaults

\* A client that listens after its turn's terminal state was delivered still has
\* that state ahead of it in its stream: it opens the stream before it polls,
\* and the relay records a state before it looks for streams.  The exception is
\* a turn that ended before channel_stream_ingest recorded WORKING: the late
\* record replaces the terminal one, and a client that reconnects then listens
\* for a frame that has gone by.
NoMissedTerminal ==
    \A c \in Clients :
        cpc[c] = "listen" /\ c \in over \ overtaken /\ handler[Cur(c)] = "serving" =>
            \E i \in 1..Len(queue[Cur(c)]) :
                queue[Cur(c)][i] = Frame("turn", c, outcome[c])

\* What a client is told, by a frame or by GetTurnState, is how its turn ended,
\* although no record reads as IDLE: the record is there from the ingest on.
\* Only a restart of the relay loses it.
ToldTruth ==
    \A c \in Clients :
        cpc[c] \in Terminal => outcome[c] = cpc[c] \/ c \in forgotten

\* A client that stays on its first stream until its turn is over has been
\* given every item of the turn: a full channel delays the fan-out, and no
\* stream leaves the table while it is served.
NothingSkipped ==
    \A c \in Clients : cpc[c] = "idle" /\ conn[c] = 1 => got[c] = sent[c]

\* The ack is the first frame of a stream, as mint_channel_stream's comment asks
\* for and readAck of the client needs.
AckIsFirst ==
    \A c \in Clients :
        cpc[c] = "opening" /\ queue[Cur(c)] # <<>> => Head(queue[Cur(c)]).kind = "ack"
=============================================================================
