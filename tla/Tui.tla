---------------------------------- MODULE Tui ----------------------------------
(***************************************************************************)
(* The interactive client (cmd/syco/internal/cmd/tui.go).  One event loop  *)
(* holds the model; every call to the relay is a command that runs beside  *)
(* it and comes back as a message, in any order.  The stream breaks, the   *)
(* loop reconnects with backoff, and meanwhile the user goes on typing:    *)
(* messages wait in a queue until the running turn ends.                   *)
(*                                                                         *)
(* Times are left out (a wait ends when it may), and so is the display,    *)
(* apart from what the user typed, and the approvals, which ServerRequests *)
(* has.  The relay is what the client sees.                                *)
(***************************************************************************)
EXTENDS Naturals, Sequences, Bags, SequencesExt

CONSTANTS
    None,
    MaxTexts,   \* bound: texts the user types
    MaxFaults   \* bound: connections lost and calls refused

ASSUME TuiBoundsAssumption == {MaxTexts, MaxFaults} \subseteq Nat

VARIABLES
    phase,      \* "picker", "chat" or "quit"
    named,      \* the conversation the flags name, or None
    conv,       \* conversationID, or None
    running, sending, stopping,
    queue,      \* messages to send when the turn ends
    input,      \* the texts in the input; a message is a sequence of texts
    connected,
    retrying,   \* backoff is above its initial value
    current,    \* the stream adopted last
    cmds,       \* bag of commands under way, with their results
    typed,      \* number of texts typed; they are 1..typed (history)
    sent,       \* messages given to an ingest, oldest first (history)
    \* The relay, and the network.
    wire,       \* stream -> frames on their way to the client
    up,         \* stream -> its connection works
    turns,      \* conversation -> its turn state
    backlog,    \* conversation -> messages not yet answered
    taken,      \* messages the relay took, oldest first
    faults

screen == <<phase, named, conv, running, sending, stopping, queue, input, connected, retrying,
            current>>
history == <<typed, sent>>
relay == <<wire, up, turns, backlog, taken, faults>>
tuiVars == <<screen, cmds, history, relay>>

Fault == faults < MaxFaults /\ faults' = faults + 1

----------------------------------------------------------------------------
(* Commands. *)

Cmd(c, s, k, x) == [cmd |-> c, stage |-> "run", stream |-> s, conv |-> k, arg |-> x]
List == Cmd("list", 0, None, None)
Tick == Cmd("tick", 0, None, None)
Recv(s) == Cmd("recv", s, None, None)

Pending == BagToSet(cmds)
Done(c) == cmds' = cmds (-) SetToBag({c})
Start(new) == cmds' = cmds (+) SetToBag(new)
Becomes(c, d) == cmds' = (cmds (-) SetToBag({c})) (+) SetToBag({d})
Comes(c, stage) == Becomes(c, [c EXCEPT !.stage = stage])

\* A message the loop handles: the result of command c.
Msg(c, cmd, stage) == c \in Pending /\ c.cmd = cmd /\ c.stage = stage

\* connectCmd opens the conversation shown, or the one the flags name; arg
\* says which.
Connect ==
    IF conv # None THEN Cmd("connect", 0, conv, "again") ELSE Cmd("connect", 0, named, "first")

----------------------------------------------------------------------------
TuiInit ==
    /\ phase \in {"picker", "chat"}
    /\ conv = None
    /\ running = FALSE /\ sending = FALSE /\ stopping = FALSE
    /\ queue = <<>>
    /\ input = <<>>
    /\ connected = FALSE
    /\ retrying = FALSE
    /\ current = 0
    /\ typed = 0
    /\ sent = <<>>
    /\ wire = <<>>
    /\ up = <<>>
    \* namedConversation: --resume, or --continue and the saved history.
    /\ named \in {None, 1}
    /\ turns \in IF named = None THEN { <<>> } ELSE { <<"idle">>, <<"working">> }
    /\ backlog = [k \in 1..Len(turns) |-> IF turns[k] = "working" THEN 1 ELSE 0]
    /\ taken = <<>>
    /\ faults = 0
    \* openTUIModel connects before the program starts if both the workspace
    \* and the conversation are named.
    /\ cmds = SetToBag({IF phase = "picker" THEN List
                        ELSE Cmd("connect", 0, named, IF named = None THEN "first" ELSE "start")})

----------------------------------------------------------------------------
(* The user. *)

AcceptsInput == phase = "chat" /\ connected

Type ==
    /\ AcceptsInput
    /\ typed < MaxTexts
    /\ typed' = typed + 1
    /\ input' = Append(input, typed')
    /\ UNCHANGED <<phase, named, conv, running, sending, stopping, queue, connected, retrying,
                   current, cmds, sent, relay>>

\* sendMessage, whose cmds are added to those of the caller.
SendMessage(m, others) ==
    /\ sending' = TRUE
    /\ sent' = Append(sent, m)
    /\ cmds' = (others (+) SetToBag({Cmd("ingest", current, conv, m)}))

Enter ==
    /\ AcceptsInput
    /\ input # <<>>
    /\ input' = <<>>
    /\ IF running \/ sending
       THEN queue' = Append(queue, input) /\ UNCHANGED <<sending, sent, cmds>>
       ELSE SendMessage(input, cmds) /\ UNCHANGED queue
    /\ UNCHANGED <<phase, named, conv, running, stopping, connected, retrying, current, typed,
                   relay>>

ReturnQueueToInput ==
    /\ input' = input \o FlattenSeq(queue)
    /\ queue' = <<>>

Esc ==
    /\ phase = "chat"
    /\ \/ /\ queue # <<>>
          /\ ReturnQueueToInput
          /\ UNCHANGED <<stopping, cmds>>
       \/ /\ queue = <<>>
          /\ running /\ ~stopping /\ conv # None
          /\ stopping' = TRUE
          /\ Start({Cmd("cancel", current, conv, None)})
          /\ UNCHANGED <<input, queue>>
    /\ UNCHANGED <<phase, named, conv, running, sending, connected, retrying, current, history,
                   relay>>

\* The program ends, and what it held is gone.
Quit ==
    /\ phase' = "quit"
    /\ conv' = None
    /\ running' = FALSE /\ sending' = FALSE /\ stopping' = FALSE
    /\ queue' = <<>> /\ input' = <<>>
    /\ connected' = FALSE /\ retrying' = FALSE /\ current' = 0
    /\ cmds' = EmptyBag
    /\ typed' = 0 /\ sent' = <<>>
    /\ wire' = <<>> /\ up' = <<>>
    /\ UNCHANGED <<named, turns, backlog, taken, faults>>

\* ctrl+c, or esc in the picker.
CtrlC == phase # "quit" /\ Quit

----------------------------------------------------------------------------
(* The picker. *)

\* selectWorkspace.
SelectWorkspace(c) ==
    /\ phase' = "chat"
    /\ Becomes(c, Connect)

\* workspacesMsg: one workspace is selected at once, of more the user picks
\* one.  With none, or an error, the picker shows that and can only quit.
WorkspacesMsg(c) ==
    /\ Msg(c, "list", "run")
    /\ \/ SelectWorkspace(c) /\ UNCHANGED faults
       \/ Fault /\ Done(c) /\ UNCHANGED phase
    /\ UNCHANGED <<named, conv, running, sending, stopping, queue, input, connected, retrying,
                   current, history, wire, up, turns, backlog, taken>>

----------------------------------------------------------------------------
(* Commands at work: what the relay and the network do. *)

OnlyCmds == UNCHANGED <<screen, history>>

\* connectChannelStream, after closing the old connection on a retry.
Dial(c) ==
    LET n == Len(up) + 1
        closed == [s \in 1..Len(up) |-> IF retrying THEN FALSE ELSE up[s]]
    IN  /\ c \in Pending /\ c.cmd = "connect" /\ c.stage = "run"
        /\ \/ /\ up' = Append(closed, TRUE)
              /\ wire' = Append(wire, <<>>)
              /\ Becomes(c, [c EXCEPT !.stream = n,
                                      !.stage = IF c.conv = None THEN "open" ELSE "read"])
              /\ UNCHANGED faults
           \/ /\ Fault
              /\ up' = closed
              /\ Comes(c, IF c.arg = "start" THEN "refused" ELSE "error")
              /\ UNCHANGED wire
        /\ OnlyCmds
        /\ UNCHANGED <<turns, backlog, taken>>

\* openConversation: the history, then the turn state, through the new
\* stream.  A conversation the flags name and that cannot be read is refused.
OpenConversation(c) ==
    /\ c \in Pending /\ c.cmd = "connect" /\ c.stage = "read"
    /\ \/ /\ up[c.stream]
          /\ Becomes(c, [c EXCEPT !.stage = "open", !.arg = turns[c.conv]])
          /\ UNCHANGED <<up, faults>>
       \/ /\ IF up[c.stream] THEN Fault ELSE UNCHANGED faults
          /\ up' = [up EXCEPT ![c.stream] = FALSE]
          /\ Comes(c, IF c.arg = "again" THEN "error" ELSE "refused")
    /\ OnlyCmds
    /\ UNCHANGED <<wire, turns, backlog, taken>>

\* recvCmd: the frames that have come are read before the error.
Receive(c) ==
    /\ c \in Pending /\ c.cmd = "recv" /\ c.stage = "run"
    /\ \/ /\ wire[c.stream] # <<>>
          /\ Becomes(c, [c EXCEPT !.stage = "frame", !.arg = Head(wire[c.stream])])
          /\ wire' = [wire EXCEPT ![c.stream] = Tail(@)]
       \/ /\ wire[c.stream] = <<>>
          /\ ~up[c.stream]
          /\ Comes(c, "error")
          /\ UNCHANGED wire
    /\ OnlyCmds
    /\ UNCHANGED <<up, turns, backlog, taken, faults>>

Frame(k, x) == [conv |-> k, state |-> x]
Broadcast(f) == wire' = [s \in 1..Len(wire) |-> IF up[s] THEN Append(wire[s], f) ELSE wire[s]]

\* channel_stream_ingest: the conversation is minted if there is none, the
\* message queued, and WORKING recorded and sent before the ack.
IngestTaken(c) ==
    LET new == c.conv = None
        k == IF new THEN Len(turns) + 1 ELSE c.conv
    IN  /\ c \in Pending /\ c.cmd = "ingest" /\ c.stage = "run"
        /\ up[c.stream]
        /\ turns' = IF new THEN Append(turns, "working") ELSE [turns EXCEPT ![k] = "working"]
        /\ backlog' = IF new THEN Append(backlog, 1) ELSE [backlog EXCEPT ![k] = @ + 1]
        /\ taken' = Append(taken, c.arg)
        /\ Broadcast(Frame(k, "working"))
        /\ Becomes(c, [c EXCEPT !.stage = "taken", !.conv = k])
        /\ OnlyCmds
        /\ UNCHANGED <<up, faults>>

\* The ack comes back, or the connection breaks first, or the relay refuses.
IngestReturns(c) ==
    /\ c \in Pending /\ c.cmd = "ingest"
    /\ \/ c.stage = "taken" /\ up[c.stream] /\ Comes(c, "ack") /\ UNCHANGED faults
       \/ c.stage \in {"run", "taken"} /\ ~up[c.stream] /\ Comes(c, "error") /\ UNCHANGED faults
       \/ c.stage = "run" /\ up[c.stream] /\ Fault /\ Comes(c, "error")
    /\ OnlyCmds
    /\ UNCHANGED <<wire, up, turns, backlog, taken>>

\* cancelTurnCmd: the turn may then end early.
CancelReturns(c) ==
    /\ c \in Pending /\ c.cmd = "cancel" /\ c.stage = "run"
    /\ IF up[c.stream] THEN Done(c) ELSE Comes(c, "error")
    /\ OnlyCmds
    /\ UNCHANGED relay

\* The harness answers the messages one by one.
TurnState(k, x) ==
    /\ phase # "quit"
    /\ turns' = [turns EXCEPT ![k] = x]
    /\ Broadcast(Frame(k, x))
    /\ UNCHANGED <<screen, cmds, history, up, taken, faults>>

TurnStarts(k) ==
    /\ backlog[k] > 0
    /\ turns[k] # "working"
    /\ TurnState(k, "working")
    /\ UNCHANGED backlog

\* The turn is done, or it failed or was cancelled, which the client treats
\* alike.
TurnEnds(k) ==
    /\ backlog[k] > 0
    /\ turns[k] = "working"
    /\ \E x \in {"idle", "stopped"} : TurnState(k, x)
    /\ backlog' = [backlog EXCEPT ![k] = @ - 1]

\* A connection breaks; the last frames may be lost with it.
Drop(s) ==
    /\ Fault
    /\ up[s]
    /\ up' = [up EXCEPT ![s] = FALSE]
    /\ \E n \in 0..Len(wire[s]) : wire' = [wire EXCEPT ![s] = SubSeq(@, 1, n)]
    /\ UNCHANGED <<screen, cmds, history, turns, backlog, taken>>

----------------------------------------------------------------------------
(* Update: the loop handles a message. *)

\* applyConnected, and a recvCmd for the new stream.
ConnectedMsg(c) ==
    /\ Msg(c, "connect", "open")
    /\ current' = c.stream
    /\ connected' = TRUE
    /\ retrying' = FALSE
    /\ IF c.conv # None
       THEN conv' = c.conv /\ running' = (c.arg = "working") /\ stopping' = FALSE
       ELSE UNCHANGED <<conv, running, stopping>>
    /\ Becomes(c, Recv(c.stream))
    /\ UNCHANGED <<phase, named, sending, queue, input, history, relay>>

\* retryCmd: the wait starts, the next one will be longer.
Retry(c) == retrying' = TRUE /\ Becomes(c, Tick)

ConnErrMsg(c) ==
    /\ Msg(c, "connect", "error")
    /\ Retry(c)
    /\ UNCHANGED <<phase, named, conv, running, sending, stopping, queue, input, connected,
                   current, history, relay>>

OpenFailedMsg(c) ==
    /\ Msg(c, "connect", "refused")
    /\ Quit

\* The last retryTickMsg of a wait.
RetryTickMsg(c) ==
    /\ Msg(c, "tick", "run")
    /\ Becomes(c, Connect)
    /\ UNCHANGED <<screen, history, relay>>

IngestAckMsg(c) ==
    /\ Msg(c, "ingest", "ack")
    /\ sending' = FALSE
    /\ conv' = c.conv
    /\ running' = TRUE
    /\ Done(c)
    /\ UNCHANGED <<phase, named, stopping, queue, input, connected, retrying, current, history,
                   relay>>

\* Mutant of StreamErrMsg: a loss that is being retried starts a second retry.
StreamErrRetries(c) ==
    /\ Msg(c, "recv", "error") \/ Msg(c, "ingest", "error")
    /\ sending' = IF c.cmd = "ingest" THEN FALSE ELSE sending
    /\ IF c.cmd = "recv" /\ c.stream # current
       THEN Done(c) /\ UNCHANGED <<connected, retrying>>
       ELSE connected' = FALSE /\ Retry(c)
    /\ UNCHANGED <<phase, named, conv, running, stopping, queue, input, current, history,
                   relay>>

\* streamErrMsg, of the stream or of an ingest: a loss that is being retried
\* already, or of a stream that was replaced, changes nothing more.
StreamErrMsg(c) ==
    /\ Msg(c, "recv", "error") \/ Msg(c, "ingest", "error")
    /\ sending' = IF c.cmd = "ingest" THEN FALSE ELSE sending
    /\ IF retrying \/ (c.cmd = "recv" /\ c.stream # current)
       THEN Done(c) /\ UNCHANGED <<connected, retrying>>
       ELSE connected' = FALSE /\ Retry(c)
    /\ UNCHANGED <<phase, named, conv, running, stopping, queue, input, current, history, relay>>

CancelErrMsg(c) ==
    /\ Msg(c, "cancel", "error")
    /\ stopping' = FALSE
    /\ Done(c)
    /\ UNCHANGED <<phase, named, conv, running, sending, queue, input, connected, retrying,
                   current, history, relay>>

\* Mutant of QueueMoves: a message under way does not hold the queue back.
QueueMovesAnyway == queue # <<>>

\* When a turn has ended well, the oldest queued message may go.
QueueMoves == queue # <<>> /\ ~sending

\* handleFrameMsg, and a recvCmd for the stream in use, whichever stream the
\* frame is from.
FrameMsg(c) ==
    LET f == c.arg
        others == (cmds (-) SetToBag({c})) (+) SetToBag({Recv(current)})
        mine == f.conv = conv
        ended == mine /\ f.state # "working"
        next == ended /\ f.state = "idle" /\ QueueMoves
    IN  /\ Msg(c, "recv", "frame")
        /\ running' = IF mine THEN f.state = "working" ELSE running
        /\ stopping' = IF ended THEN FALSE ELSE stopping
        /\ IF next
           THEN SendMessage(Head(queue), others) /\ queue' = Tail(queue) /\ UNCHANGED input
           ELSE /\ cmds' = others
                /\ IF ended /\ f.state # "idle" THEN ReturnQueueToInput ELSE UNCHANGED <<input, queue>>
                /\ UNCHANGED <<sending, sent>>
        /\ UNCHANGED <<phase, named, conv, connected, retrying, current, typed, relay>>

----------------------------------------------------------------------------
User == Type \/ Enter \/ Esc \/ CtrlC

Reconnect ==
    \E c \in Pending :
        \/ WorkspacesMsg(c) \/ Dial(c) \/ OpenConversation(c) \/ ConnectedMsg(c) \/ ConnErrMsg(c)
        \/ OpenFailedMsg(c) \/ RetryTickMsg(c)

Listen == \E c \in Pending : Receive(c) \/ FrameMsg(c) \/ StreamErrMsg(c)

Calls ==
    \E c \in Pending : IngestTaken(c) \/ IngestReturns(c) \/ IngestAckMsg(c) \/ CancelReturns(c)
                       \/ CancelErrMsg(c)

TurnsMove == \E k \in 1..Len(turns) : TurnStarts(k) \/ TurnEnds(k)

TuiNext ==
    \/ User \/ Reconnect \/ Listen \/ Calls \/ TurnsMove
    \/ \E s \in 1..Len(up) : Drop(s)

TuiSpec == TuiInit /\ [][TuiNext]_tuiVars

----------------------------------------------------------------------------
\* Every place a text can be: the input, the queue, a message sent.
Places(t) ==
    [input |-> {i \in 1..Len(input) : input[i] = t},
     queue |-> {i \in 1..Len(queue) : t \in ToSet(queue[i])},
     sent |-> {i \in 1..Len(sent) : t \in ToSet(sent[i])}]

\* What the user typed is in one place, whatever the order in which acks,
\* frames, errors and keys come: in the input, in the queue, or in one message
\* sent.  Ingests never overlap, so the relay takes the messages in the order
\* they were sent, none twice (sendMessage, returnQueueToInput, updateChat).
TypedOnce ==
    /\ \A t \in 1..typed :
         \E w \in {"input", "queue", "sent"} :
            /\ \E i \in 1..(Len(input) + Len(queue) + Len(sent)) : Places(t)[w] = {i}
            /\ \A v \in {"input", "queue", "sent"} \ {w} : Places(t)[v] = {}
    /\ \A c, d \in Pending :
         c.cmd = "ingest" /\ d.cmd = "ingest" => c = d /\ cmds[c] = 1
    /\ phase # "quit" => \E f \in [1..Len(taken) -> 1..Len(sent)] :
         /\ \A i \in 1..Len(taken) : taken[i] = sent[f[i]]
         /\ \A i, j \in 1..Len(taken) : i < j => f[i] < f[j]

\* Whatever notices a loss, and however late (the stream, an ingest of an
\* earlier connection, a stream that was replaced), one reconnect is under way
\* while the client is disconnected, never two and never none; and while it is
\* connected none is, and the stream in use is being read (streamErrMsg,
\* retryCmd, connectCmd, recvCmd).
OneReconnect ==
    LET reconnects == {c \in Pending : c.cmd \in {"tick", "connect"}}
    IN  phase = "chat" =>
          IF connected
          THEN reconnects = {} /\ \E c \in Pending : c.cmd = "recv" /\ c.stream = current
          ELSE \E c \in Pending : reconnects = {c} /\ cmds[c] = 1

\* Nothing is on its way.
Settled ==
    /\ phase = "chat" /\ connected /\ conv # None
    /\ up[current] /\ wire[current] = <<>>
    /\ Pending = {Recv(current)}

\* tui.go: running is the relay's latest turn state for the viewed conversation.
RunningIsLatest == Settled => running = (turns[conv] = "working")
=============================================================================
