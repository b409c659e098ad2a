--------------------------- MODULE ServerRequests ---------------------------
(***************************************************************************)
(* Tool calls that wait for a person (tool_approval.rs, call_tool of       *)
(* tool_router.rs, dispatch_verb of runtime_tools.rs,                      *)
(* channel_stream_tools.rs and the server-request part of the relay's      *)
(* state.rs and gateway.rs).  A turn is a stack of loops: DispatchAgent    *)
(* pushes a sub-agent's loop, which shares the parent's cancel token.  A   *)
(* toolset call and a DispatchAgent run only on an approval; a call of     *)
(* RequestUserInput returns the client's answer.  Both are one RPC to the  *)
(* relay, which parks a oneshot under (workspace, request id), sends the   *)
(* request to every channel stream of the workspace and waits.             *)
(*                                                                         *)
(* One workspace.  An ask is one run of send_server_request_and_await.     *)
(* Several tool calls of a round run one after the other.                  *)
(***************************************************************************)
EXTENDS Naturals, SequencesExt, FiniteSets

CONSTANTS
    Turns, Streams,
    Replies,    \* turns that have a reply channel stream
    CallIds,    \* the tool call ids a model gives its calls
    Tools,      \* what the model calls: toolset, dispatch, input, notify, local
    Renders,    \* stream -> the methods its client advertises
    Cap,        \* frames a channel stream holds (64)
    MaxRounds,  \* MAX_SUBTURN_ITERATIONS, and the primary loop's limit
    MaxCalls,   \* bound: tool calls of a round
    MaxDepth,   \* bound: nested sub-agents, the code has none
    MaxAsks,    \* bound: asks in all
    MaxRestarts \* bound: restarts of the relay

ASSUME ToolsAssumption == Tools \subseteq {"toolset", "dispatch", "input", "notify", "local"}
ASSUME RendersAssumption ==
    Renders \in [Streams -> SUBSET {"RequestToolApproval", "RequestUserInput", "RevealPath"}]
ASSUME BoundsAssumption == {Cap, MaxRounds, MaxCalls, MaxDepth, MaxAsks} \subseteq Nat \ {0}

Asks == 1..MaxAsks
\* {"approved": true}, and any other result or error.
Answers(m) == IF m = "RequestToolApproval" THEN {"approve", "other"} ELSE {"other"}

VARIABLES
    stack,      \* turn -> its loops, the innermost last
    ended,      \* turns that are over
    cancelled,  \* turns whose token fired
    asks,       \* the asks, in the order they were made
    pending,    \* pending_server_requests: <<request id, ask>>
    stream,     \* stream -> new, open, gone (receiver dropped), removed
    methods,    \* stream -> supported_methods
    chan,       \* stream -> frames in its channel
    prompts,    \* stream -> requests its client has read and not answered
    approved,   \* asks that a client answered with an approval (history)
    ran,        \* asks on whose approval a call ran (history)
    restarts    \* of the relay

turnVars   == <<stack, ended, cancelled>>
streamVars == <<stream, methods, chan, prompts>>
vars == <<stack, ended, cancelled, asks, pending, stream, methods, chan, prompts, approved,
          ran, restarts>>

Top(t) == Last(stack[t])
At(t, pc) == stack[t] # <<>> /\ Top(t).pc = pc

\* The loop that is innermost in t becomes f.
SetTop(t, f) == stack' = [stack EXCEPT ![t][Len(stack[t])] = f]
Goto(t, pc) == SetTop(t, [Top(t) EXCEPT !.pc = pc])

Loop == [pc |-> "model", round |-> 0, left |-> 0, ask |-> 0]

\* A request that its caller is done with.
Close(k, pc) == [asks EXCEPT ![k] = [@ EXCEPT !.pc = pc, !.outcome = "none", !.answerOf = 0]]

----------------------------------------------------------------------------
Init ==
    /\ stack = [t \in Turns |-> <<>>]
    /\ ended = {}
    /\ cancelled = {}
    /\ asks = <<>>
    /\ pending = {}
    /\ stream = [s \in Streams |-> "new"]
    /\ methods = [s \in Streams |-> {}]
    /\ chan = [s \in Streams |-> <<>>]
    /\ prompts = [s \in Streams |-> {}]
    /\ approved = {}
    /\ ran = {}
    /\ restarts = 0

----------------------------------------------------------------------------
(* The loops of a turn. *)

StartTurn(t) ==
    /\ stack[t] = <<>>
    /\ t \notin ended
    /\ stack' = [stack EXCEPT ![t] = <<Loop>>]
    /\ UNCHANGED <<ended, cancelled, asks, pending, streamVars, approved, ran, restarts>>

CancelTurn(t) ==
    /\ stack[t] # <<>>
    /\ t \notin cancelled
    /\ cancelled' = cancelled \cup {t}
    /\ UNCHANGED <<stack, ended, asks, pending, streamVars, approved, ran, restarts>>

\* What the caller's loop does once its tool call has a result.
AfterResult(f) ==
    [f EXCEPT !.left = @ - 1, !.ask = 0, !.pc = IF f.left = 1 THEN "model" ELSE "calls"]

\* The primary loop's end ends the turn, and its token is forgotten.
Deregister(t, last) ==
    /\ ended' = IF last THEN ended \cup {t} ELSE ended
    /\ cancelled' = IF last THEN cancelled \ {t} ELSE cancelled

\* The innermost loop returns.  To the loop above it is a tool result, an error
\* one unless it ended or ran out of tokens, but a cancelled sub-agent cancels it.
Return(t, res) ==
    LET rest == SubSeq(stack[t], 1, Len(stack[t]) - 1)
    IN  /\ stack' = [stack EXCEPT ![t] =
                       IF rest = <<>> THEN <<>>
                       ELSE [rest EXCEPT ![Len(rest)] =
                               IF res = "cancelled" THEN [@ EXCEPT !.pc = "cancelled"]
                               ELSE AfterResult(@)]]
        /\ Deregister(t, rest = <<>>)

OnlyTurn == UNCHANGED <<asks, pending, streamVars, approved, ran, restarts>>
OnlyLoop == UNCHANGED <<ended, cancelled>> /\ OnlyTurn

\* EndTurn, MaxTokens, an unknown stop reason or a failed model call.
ModelEnds(t) ==
    /\ At(t, "model")
    /\ t \notin cancelled
    /\ Return(t, "result")
    /\ OnlyTurn

\* The cancellable wait for the model, and the loops above a cancelled one.
LoopCancelled(t) ==
    /\ \/ At(t, "model") /\ t \in cancelled
       \/ At(t, "cancelled")
    /\ Return(t, "cancelled")
    /\ OnlyTurn

\* ToolUse: the limit is met before the calls of the round are made.
ToolUse(t, n) ==
    /\ At(t, "model")
    /\ t \notin cancelled
    /\ IF Top(t).round + 1 >= MaxRounds
       THEN Return(t, "result")
       ELSE /\ SetTop(t, [Top(t) EXCEPT !.pc = "calls", !.round = @ + 1, !.left = n])
            /\ UNCHANGED <<ended, cancelled>>
    /\ OnlyTurn

\* The tools that answer in process, the client tools of a turn without a reply
\* stream (a sub-agent never has one), and the RPC that fails.
HasReply(t) == t \in Replies /\ Len(stack[t]) = 1

LocalResult(t, tool) ==
    /\ At(t, "calls")
    /\ \/ tool = "local"
       \/ tool \in {"input", "notify"} /\ ~HasReply(t)
    /\ SetTop(t, AfterResult(Top(t)))
    /\ OnlyLoop

NewAsk(t, tool, id, method) ==
    [turn |-> t, tool |-> tool, id |-> id, method |-> method, pc |-> "rpc", todo |-> {},
     sent |-> FALSE, outcome |-> "none", answerOf |-> 0]

\* tool_approval::ask: a fresh request id.  The select is biased, so a turn
\* that is cancelled already asks nothing.
AskApproval(t, tool) ==
    /\ tool \in {"toolset", "dispatch"}
    /\ At(t, "calls")
    /\ t \notin cancelled
    /\ Len(asks) < MaxAsks
    /\ asks' = Append(asks, NewAsk(t, tool, <<"uuid", Len(asks) + 1>>, "RequestToolApproval"))
    /\ SetTop(t, [Top(t) EXCEPT !.pc = "wait", !.ask = Len(asks) + 1])
    /\ UNCHANGED <<ended, cancelled, pending, streamVars, approved, ran, restarts>>

\* The model's tool call id is the request id; the cancel token is not looked at.
AskClient(t, id) ==
    /\ At(t, "calls")
    /\ HasReply(t)
    /\ Len(asks) < MaxAsks
    /\ asks' = Append(asks, NewAsk(t, "input", <<"call", id>>, "RequestUserInput"))
    /\ SetTop(t, [Top(t) EXCEPT !.pc = "wait", !.ask = Len(asks) + 1])
    /\ UNCHANGED <<ended, cancelled, pending, streamVars, approved, ran, restarts>>

\* The wait for an approval is dropped, and with it the relay's handler.  The
\* slot the handler parked stays behind.
AbandonAsk(t) ==
    /\ t \in cancelled
    /\ \/ At(t, "calls") /\ asks' = asks
       \/ /\ At(t, "wait")
          /\ asks[Top(t).ask].tool # "input"
          /\ asks' = Close(Top(t).ask, "dropped")
    /\ Goto(t, "cancelled")
    /\ UNCHANGED <<ended, cancelled, pending, streamVars, approved, ran, restarts>>

\* Mutant of IsApproval: any answer approves.
AnyAnswer(k) == asks[k].outcome # "failed"

\* Only {"approved": true} approves; a refusal, an error, a timeout and a
\* missing client are error results.
IsApproval(k) == asks[k].outcome = "approve"

\* The answer is back: an approved toolset call runs, an approved DispatchAgent
\* pushes its loop, everything else is a tool result.
AskReturns(t) ==
    LET k == Top(t).ask
        a == asks[k]
        go == a.tool # "input" /\ IsApproval(k)
    IN  /\ At(t, "wait")
        /\ a.pc = "done"
        /\ a.tool # "input" => t \notin cancelled
        /\ \/ /\ go /\ a.tool = "toolset"
              /\ Goto(t, "run")
           \/ /\ go /\ a.tool = "dispatch" /\ Len(stack[t]) <= MaxDepth
              /\ stack' = [stack EXCEPT ![t] =
                    Append([@ EXCEPT ![Len(@)].pc = "sub"], Loop)]
           \/ /\ ~go
              /\ SetTop(t, AfterResult(Top(t)))
        /\ ran' = IF go THEN ran \cup {k} ELSE ran
        /\ asks' = Close(k, "closed")
        /\ UNCHANGED <<ended, cancelled, pending, streamVars, approved, restarts>>

\* dispatch_verb fails before its loop starts: the file, the arguments, the mint.
DispatchFails(t) ==
    /\ At(t, "wait")
    /\ asks[Top(t).ask].tool = "dispatch"
    /\ asks[Top(t).ask].pc = "done"
    /\ t \notin cancelled
    /\ IsApproval(Top(t).ask)
    /\ SetTop(t, AfterResult(Top(t)))
    /\ asks' = Close(Top(t).ask, "closed")
    /\ UNCHANGED <<ended, cancelled, pending, streamVars, approved, ran, restarts>>

\* dispatch_toolset_in_process drains the call, or the cancel wins the race.
RunEnds(t) ==
    /\ At(t, "run")
    /\ \/ SetTop(t, AfterResult(Top(t)))
       \/ t \in cancelled /\ Goto(t, "cancelled")
    /\ OnlyLoop

----------------------------------------------------------------------------
(* The relay. *)

Registered == {s \in Streams : stream[s] \in {"open", "gone"}}
Supporting(m) == {s \in Registered : m \in methods[s]}

\* channel_streams is read-locked while a request is sent out.
Locked == \E k \in DOMAIN asks : asks[k].pc = "fan"

Unpark(id) == {p \in pending : p[1] # id}

\* send_server_request_and_await up to the sends.  A second request with the
\* same id takes the slot over, and the first one's oneshot is dropped.
ParkRequest(k) ==
    /\ asks[k].pc = "rpc"
    /\ IF Supporting(asks[k].method) = {}
       THEN /\ asks' = [asks EXCEPT ![k].pc = "done", ![k].outcome = "failed"]
            /\ UNCHANGED pending
       ELSE /\ asks' = [asks EXCEPT ![k].pc = "fan", ![k].todo = Registered]
            /\ pending' = Unpark(asks[k].id) \cup {<<asks[k].id, k>>}
    /\ UNCHANGED <<turnVars, streamVars, approved, ran, restarts>>

\* Ask k has been sent to stream s, or could not be.  After the last stream it
\* waits, or fails if nobody got it.
Sent(k, s, ok) ==
    LET a == [asks[k] EXCEPT !.todo = @ \ {s}, !.sent = @ \/ ok]
        after == CASE a.todo # {} -> a
                   [] a.todo = {} /\ a.sent -> [a EXCEPT !.pc = "wait"]
                   [] OTHER -> [a EXCEPT !.pc = "done", !.outcome = "failed"]
    IN  /\ asks' = [asks EXCEPT ![k] = after]
        /\ pending' = IF after.pc = "done" THEN Unpark(a.id) ELSE pending

\* The request goes to every stream of the workspace; a full channel is waited
\* for under the lock, a dropped receiver fails the send.
SendRequest(k, s) ==
    /\ asks[k].pc = "fan"
    /\ s \in asks[k].todo
    /\ \/ /\ stream[s] = "open" /\ Len(chan[s]) < Cap
          /\ chan' = [chan EXCEPT ![s] = Append(@, k)]
          /\ Sent(k, s, TRUE)
       \/ /\ stream[s] = "gone"
          /\ chan' = chan
          /\ Sent(k, s, FALSE)
    /\ UNCHANGED <<turnVars, stream, methods, prompts, approved, ran, restarts>>

\* The oneshot has a value, or its sender was dropped.
Resolved(k) ==
    /\ asks[k].pc = "wait"
    /\ IF asks[k].outcome # "none"
       THEN asks' = [asks EXCEPT ![k].pc = "done"]
       ELSE /\ <<asks[k].id, k>> \notin pending
            /\ asks' = [asks EXCEPT ![k].pc = "done", ![k].outcome = "failed"]
    /\ UNCHANGED <<turnVars, pending, streamVars, approved, ran, restarts>>

\* Mutant of Expire: only an approval's wait is bounded.
ExpireApproval(k) ==
    /\ asks[k].tool # "input"
    /\ asks[k].pc = "wait"
    /\ asks[k].outcome = "none"
    /\ asks' = [asks EXCEPT ![k].pc = "expired"]
    /\ UNCHANGED <<turnVars, pending, streamVars, approved, ran, restarts>>

\* The timer fires with nothing received: the receiver is dropped at once, the
\* slot once the table's lock is taken.
Expire(k) ==
    /\ asks[k].pc = "wait"
    /\ asks[k].outcome = "none"
    /\ asks' = [asks EXCEPT ![k].pc = "expired"]
    /\ UNCHANGED <<turnVars, pending, streamVars, approved, ran, restarts>>

\* Mutant of Reap: the slot of a timed-out request is left in the table.
ReapNothing(k) ==
    /\ asks[k].pc = "expired"
    /\ asks' = [asks EXCEPT ![k].pc = "done", ![k].outcome = "failed"]
    /\ UNCHANGED <<turnVars, pending, streamVars, approved, ran, restarts>>

Reap(k) ==
    /\ asks[k].pc = "expired"
    /\ pending' = Unpark(asks[k].id)
    /\ asks' = [asks EXCEPT ![k].pc = "done", ![k].outcome = "failed"]
    /\ UNCHANGED <<turnVars, streamVars, approved, ran, restarts>>

\* send_server_notification: only to the streams that support the method, and
\* with no request id, so nobody answers.
Notify(t) ==
    LET to == {s \in Supporting("RevealPath") : stream[s] = "open"}
    IN  /\ At(t, "calls")
        /\ HasReply(t)
        /\ \A s \in to : Len(chan[s]) < Cap
        /\ chan' = [s \in Streams |-> IF s \in to THEN Append(chan[s], 0) ELSE chan[s]]
        /\ SetTop(t, AfterResult(Top(t)))
        /\ UNCHANGED <<ended, cancelled, asks, pending, stream, methods, prompts, approved,
                       ran, restarts>>

\* channel_stream_receive and the guard's unregister take the write lock.
MintStream(s) ==
    /\ ~Locked
    /\ stream[s] = "new"
    /\ stream' = [stream EXCEPT ![s] = "open"]
    /\ UNCHANGED <<turnVars, asks, pending, methods, chan, prompts, approved, ran, restarts>>

UnregisterStream(s) ==
    /\ ~Locked
    /\ stream[s] = "gone"
    /\ stream' = [stream EXCEPT ![s] = "removed"]
    /\ methods' = [methods EXCEPT ![s] = {}]
    /\ UNCHANGED <<turnVars, asks, pending, chan, prompts, approved, ran, restarts>>

----------------------------------------------------------------------------
(* The clients. *)

\* Every ingest carries the client's methods; a stream starts with none.
Advertise(s) ==
    /\ stream[s] = "open"
    /\ methods[s] # Renders[s]
    /\ methods' = [methods EXCEPT ![s] = Renders[s]]
    /\ UNCHANGED <<turnVars, asks, pending, stream, chan, prompts, approved, ran, restarts>>

\* A request with an id becomes a prompt, whatever its method.
ReadFrame(s) ==
    /\ stream[s] = "open"
    /\ chan[s] # <<>>
    /\ chan' = [chan EXCEPT ![s] = Tail(@)]
    /\ prompts' = [prompts EXCEPT ![s] = @ \cup ({Head(chan[s])} \ {0})]
    /\ UNCHANGED <<turnVars, asks, pending, stream, methods, approved, ran, restarts>>

\* Mutant of SlotFor: the answer goes to whoever waits longest.
OldestSlot(k) ==
    {p \in pending : \A q \in pending : p[2] <= q[2]}

SlotFor(k) == {p \in pending : p[1] = asks[k].id}

\* deliver_client_response: the slot is taken out, and the answer reaches the
\* ask unless its receiver is gone.  A client that does not answer, or whose
\* ingest is refused or lost, takes no step.
Answer(s, k, v) ==
    /\ stream[s] = "open"
    /\ k \in prompts[s]
    /\ prompts' = [prompts EXCEPT ![s] = @ \ {k}]
    /\ approved' = IF v = "approve" THEN approved \cup {k} ELSE approved
    /\ pending' = pending \ SlotFor(k)
    /\ asks' = [j \in DOMAIN asks |->
                  IF (\E p \in SlotFor(k) : p[2] = j) /\ asks[j].pc \in {"fan", "wait"}
                  THEN [asks[j] EXCEPT !.outcome = v, !.answerOf = k]
                  ELSE asks[j]]
    /\ UNCHANGED <<turnVars, stream, methods, chan, ran, restarts>>

Leave(s) ==
    /\ stream[s] = "open"
    /\ stream' = [stream EXCEPT ![s] = "gone"]
    /\ chan' = [chan EXCEPT ![s] = <<>>]
    /\ prompts' = [prompts EXCEPT ![s] = {}]
    /\ UNCHANGED <<turnVars, asks, pending, methods, approved, ran, restarts>>

\* The relay restarts: every RPC to it fails and every stream ends.
RelayRestart ==
    /\ restarts < MaxRestarts
    /\ restarts' = restarts + 1
    /\ pending' = {}
    /\ asks' = [k \in DOMAIN asks |->
                  IF asks[k].pc \in {"done", "dropped", "closed"} THEN asks[k]
                  ELSE [asks[k] EXCEPT !.pc = "done", !.outcome = "failed"]]
    /\ stream' = [s \in Streams |-> IF stream[s] = "new" THEN "new" ELSE "removed"]
    /\ chan' = [s \in Streams |-> <<>>]
    /\ prompts' = [s \in Streams |-> {}]
    /\ methods' = [s \in Streams |-> {}]
    /\ UNCHANGED <<turnVars, approved, ran>>

----------------------------------------------------------------------------
LoopStep(t) ==
    \/ ModelEnds(t)
    \/ LoopCancelled(t)
    \/ \E n \in 1..MaxCalls : ToolUse(t, n)
    \/ \E tool \in Tools : LocalResult(t, tool) \/ AskApproval(t, tool)
    \/ "input" \in Tools /\ \E id \in CallIds : AskClient(t, id)
    \/ "notify" \in Tools /\ Notify(t)
    \/ AbandonAsk(t) \/ AskReturns(t) \/ DispatchFails(t) \/ RunEnds(t)

RelayStep(k) ==
    \/ ParkRequest(k) \/ (\E s \in Streams : SendRequest(k, s))
    \/ Resolved(k) \/ Expire(k) \/ Reap(k)

Next ==
    \/ \E t \in Turns : StartTurn(t) \/ CancelTurn(t) \/ LoopStep(t)
    \/ \E k \in DOMAIN asks : RelayStep(k)
    \/ \E s \in Streams :
         \/ MintStream(s) \/ UnregisterStream(s) \/ Advertise(s) \/ ReadFrame(s) \/ Leave(s)
         \/ \E k \in prompts[s] : \E v \in Answers(asks[k].method) : Answer(s, k, v)
    \/ RelayRestart

Spec == Init /\ [][Next]_vars

\* The tasks of the harness and of the relay run, timers fire, and a client
\* reads its stream or loses it.
FairSpec ==
    /\ Spec
    /\ \A t \in Turns : WF_vars(LoopStep(t))
    /\ \A k \in Asks : WF_vars(k \in DOMAIN asks /\ RelayStep(k))
    /\ \A s \in Streams : WF_vars(ReadFrame(s))

----------------------------------------------------------------------------
Reused(k) == \E j \in DOMAIN asks \ {k} : asks[j].id = asks[k].id

\* A tool call that needs an approval runs only if some client approved that
\* very request: no denial, error, timeout, lost client, relay restart or
\* answer to another prompt lets it run (tool_approval.rs, call_tool).
RunsOnlyIfApproved == ran \subseteq approved

\* What a waiting call is answered was said to its own prompt, unless the model
\* gave two calls of the workspace one id (deliver_client_response).
OwnAnswer == \A k \in DOMAIN asks : asks[k].answerOf \in {0, k} \/ Reused(k)

\* A slot outlives its request only if the harness dropped the wait, and a
\* request that waits unanswered can still be answered, unless its id was used
\* again (send_server_request_and_await, the timeout's clean-up).
SlotsAccounted ==
    /\ \A p \in pending : asks[p[2]].pc \notin {"done", "closed"}
    /\ \A k \in DOMAIN asks :
         asks[k].pc \in {"fan", "wait"} /\ asks[k].outcome = "none"
            => <<asks[k].id, k>> \in pending \/ Reused(k)

\* A cancelled turn ends, however deep its sub-agents are nested and whatever
\* its innermost call waits for (dispatch_verb shares the cancel token).
CancelUnwinds == \A t \in Turns : t \in cancelled ~> stack[t] = <<>>

\* The request goes only to a client that advertised the method
\* (common.proto: "Must be in the client's last-advertised supported_methods").
SentToCapable ==
    \A s \in Streams : \A k \in prompts[s] : asks[k].method \in methods[s]
=============================================================================
