------------------------------ MODULE AgentTurn ------------------------------
(***************************************************************************)
(* One workspace's harness: the sequential message loop                    *)
(* (runtime_entrypoint.rs), the LLM tool-use loop it drives (agent.rs),    *)
(* the cancellable model stream (turn.rs), the per-conversation log and    *)
(* its file (conversation.rs) and the turn tokens of the registry          *)
(* (registry.rs).  A client may fire a cancel at any point of a turn, the  *)
(* pod may die at any point and restart from the file, and a write to the  *)
(* file may fail or be cut short.                                          *)
(*                                                                         *)
(* A message is abstracted to who wrote it: the user message of turn t,    *)
(* the assistant message of round r of turn t with its number of tool      *)
(* calls, or the result of its k-th call.                                  *)
(***************************************************************************)
EXTENDS Naturals, Sequences

CONSTANTS
    Conversations,   \* conversation ids
    MaxIterations,   \* llm_loop's max_iterations
    MaxCalls,        \* bound: tool calls in one assistant message
    MaxTurns,        \* bound: inbound user messages
    MaxCrashes,      \* bound: pod deaths
    MaxWriteErrors,  \* bound: store appends that return Err
    MaxLost,         \* bound: frames whose delivery fails
    CallsOn          \* stop reasons whose completion may carry tool calls

ASSUME ConversationsAssumption == Conversations # {}
ASSUME BoundsAssumption ==
    /\ MaxIterations \in Nat \ {0}
    /\ MaxCalls \in Nat
    /\ MaxTurns \in Nat
    /\ MaxCrashes \in Nat
    /\ MaxWriteErrors \in Nat
    /\ MaxLost \in Nat
ASSUME CallsOnAssumption == CallsOn \subseteq {"end", "max", "tool", "unknown"}

VARIABLES
    disk,       \* conversation -> records of conversation.json that parse
    tail,       \* conversation -> how the file ends
    mem,        \* conversation -> ConversationLog.entries
    loaded,     \* conversations with a log in the registry's cache
    turns,      \* conversations with a cancellation token in registry.turns
    fired,      \* the running turn's token has been cancelled
    pc,         \* where the message loop is
    cur,        \* the inbound message being served
    messages,   \* the provider context llm_loop resends
    iter,       \* tool rounds of this llm_loop
    round,      \* the completion being handled
    k,          \* the tool call being dispatched
    result,     \* what llm_loop returned
    frames,     \* turn frames the relay received, in order
    turnNo,     \* user messages received so far
    ended,      \* turn -> how it ended (history variable)
    asked,      \* turns a client's cancel was accepted for (history variable)
    crashes, writeErrors, lost

logVars  == <<disk, tail, mem, loaded>>
loopVars == <<messages, iter, round, k, result>>
vars == <<disk, tail, mem, loaded, turns, fired, pc, cur, messages, iter, round,
          k, result, frames, turnNo, ended, asked, crashes, writeErrors, lost>>

----------------------------------------------------------------------------
(* Messages *)

StopReasons == {"end", "max", "tool", "unknown"}
Results     == {"ok", "max", "limit", "unknown", "ended", "rpc", "cancelled"}

Entry == [role : {"user", "assistant", "tool"}, turn : Nat, round : Nat,
          calls : Nat, call : Nat, marker : BOOLEAN]

UserEntry(t) == [role |-> "user", turn |-> t, round |-> 0, calls |-> 0,
                 call |-> 0, marker |-> FALSE]
AssistantEntry(t, r, n) == [role |-> "assistant", turn |-> t, round |-> r,
                            calls |-> n, call |-> 0, marker |-> FALSE]
ToolEntry(t, r, n, m) == [role |-> "tool", turn |-> t, round |-> r, calls |-> 0,
                          call |-> n, marker |-> m]

NoRound == [stop |-> "end", calls |-> 0, text |-> FALSE]

Frame(kind, text) == [kind |-> kind, turn |-> cur.turn, conv |-> cur.conv,
                      text |-> text]

----------------------------------------------------------------------------
(* The store.  A record is one line; read_all drops a line that does not   *)
(* parse.  "torn": the file ends in a fragment of a record.  "bare": it    *)
(* ends in a whole record without its newline, which still parses.         *)

Front(s) == SubSeq(s, 1, Len(s) - 1)

\* The records left when bytes are written after an unterminated last line.
Spoilt(s, end) == IF end = "bare" THEN Front(s) ELSE s

\* append_event's write_all completing: the new line joins what precedes it.
Written(s, end, e) ==
    IF end = "clean" THEN Append(s, e) ELSE Spoilt(s, end)

\* What a write cut short leaves of the file: nothing new, a fragment, or the
\* record without its newline; a fragment after a bare record spoils both.
CutShort(s, end, e) ==
    {<<s, end>>, <<Spoilt(s, end), "torn">>}
    \cup (IF end = "clean" THEN {<<Append(s, e), "bare">>} ELSE {})

\* ConversationLog::append_*: the file first, memory only once it succeeded.
AppendOk(c, e) ==
    /\ disk' = [disk EXCEPT ![c] = Written(@, tail[c], e)]
    /\ tail' = [tail EXCEPT ![c] = "clean"]
    /\ mem'  = [mem EXCEPT ![c] = Append(@, e)]
    /\ UNCHANGED <<loaded, writeErrors>>

AppendErr(c, e) ==
    /\ writeErrors < MaxWriteErrors
    /\ writeErrors' = writeErrors + 1
    /\ \E o \in CutShort(disk[c], tail[c], e) :
          /\ disk' = [disk EXCEPT ![c] = o[1]]
          /\ tail' = [tail EXCEPT ![c] = o[2]]

----------------------------------------------------------------------------
Init ==
    /\ disk = [c \in Conversations |-> <<>>]
    /\ tail = [c \in Conversations |-> "clean"]
    /\ mem  = [c \in Conversations |-> <<>>]
    /\ loaded = {}
    /\ turns = {}
    /\ fired = FALSE
    /\ pc = "recv"
    /\ \E c \in Conversations : cur = [conv |-> c, turn |-> 0, reply |-> FALSE]
    /\ messages = <<>>
    /\ iter = 0
    /\ round = NoRound
    /\ k = 0
    /\ result = "ok"
    /\ frames = <<>>
    /\ turnNo = 0
    /\ ended = <<>>
    /\ asked = {}
    /\ crashes = 0
    /\ writeErrors = 0
    /\ lost = 0

----------------------------------------------------------------------------
(* The process *)

\* The variables of an iteration of message_loop go out of scope.
LocalsGone ==
    /\ messages' = <<>>
    /\ iter' = 0
    /\ round' = NoRound
    /\ k' = 0
    /\ result' = "ok"

\* The pod goes down: what it held in memory is gone.
GoDown ==
    /\ pc' = "down"
    /\ loaded' = {}
    /\ mem' = [c \in Conversations |-> <<>>]
    /\ turns' = {}
    /\ fired' = FALSE
    /\ LocalsGone

----------------------------------------------------------------------------
(* message_loop *)

\* registry.get_or_create: rebuild the log from the file on a cache miss.
GetOrCreate(c) ==
    /\ loaded' = loaded \cup {c}
    /\ mem' = IF c \in loaded THEN mem ELSE [mem EXCEPT ![c] = disk[c]]

\* next_message returns a message, with or without a reply channel stream.
Receive(c, r) ==
    /\ pc = "recv"
    /\ turnNo < MaxTurns
    /\ turnNo' = turnNo + 1
    /\ cur' = [conv |-> c, turn |-> turnNo + 1, reply |-> r]
    /\ GetOrCreate(c)
    /\ ended' = Append(ended, "open")
    /\ pc' = "append"
    /\ UNCHANGED <<disk, tail, turns, fired, asked, loopVars, frames, lost, crashes,
                   writeErrors>>

\* A message without content, or a log that cannot be read back: the loop exits.
ReceiveFails ==
    /\ pc = "recv"
    /\ crashes < MaxCrashes
    /\ crashes' = crashes + 1
    /\ GoDown
    /\ UNCHANGED <<disk, tail, cur, asked, frames, lost, turnNo, ended, writeErrors>>

\* The user turn is appended and the provider history assembled.
AppendUser ==
    /\ pc = "append"
    /\ AppendOk(cur.conv, UserEntry(cur.turn))
    /\ messages' = mem'[cur.conv]
    /\ pc' = "working"
    /\ UNCHANGED <<turns, fired, cur, asked, iter, round, k, result, frames, lost,
                   turnNo, ended, crashes>>

\* A failed append of the user turn is fatal: the pod restarts.
AppendUserFails ==
    /\ pc = "append"
    /\ AppendErr(cur.conv, UserEntry(cur.turn))
    /\ ended' = [ended EXCEPT ![cur.turn] = "crash"]
    /\ GoDown
    /\ UNCHANGED <<cur, asked, frames, lost, turnNo, crashes>>

\* A frame towards the relay; a failed delivery is only logged.
Deliver(f) ==
    \/ frames' = Append(frames, f) /\ UNCHANGED lost
    \/ lost < MaxLost /\ lost' = lost + 1 /\ UNCHANGED frames

\* The turn-start frame, when there is a channel stream to reply to.
DeliverWorking ==
    /\ pc = "working"
    /\ IF cur.reply THEN Deliver(Frame("WORKING", FALSE)) ELSE UNCHANGED <<frames, lost>>
    /\ pc' = "register"
    /\ UNCHANGED <<logVars, turns, fired, cur, asked, loopVars, turnNo, ended, crashes,
                   writeErrors>>

\* Mutant of RegisterTurn: the previous turn's token is reused.
RegisterTurnReuse ==
    /\ pc = "register"
    /\ turns' = turns \cup {cur.conv}
    /\ iter' = 0
    /\ pc' = "open"
    /\ UNCHANGED <<logVars, fired, cur, asked, messages, round, k, result, frames, lost,
                   turnNo, ended, crashes, writeErrors>>

\* register_turn, and the loop variables llm_loop starts from.
RegisterTurn ==
    /\ pc = "register"
    /\ turns' = turns \cup {cur.conv}
    /\ fired' = FALSE
    /\ iter' = 0
    /\ pc' = "open"
    /\ UNCHANGED <<logVars, cur, asked, messages, round, k, result, frames, lost,
                   turnNo, ended, crashes, writeErrors>>

----------------------------------------------------------------------------
(* llm_loop *)

Return(r) == result' = r /\ pc' = "end"

\* toolset.turn(request): the stream opens; no cancel is observed here.
OpenStream ==
    /\ pc = "open"
    /\ pc' = "stream"
    /\ UNCHANGED <<logVars, turns, fired, cur, asked, loopVars, frames, lost, turnNo,
                   ended, crashes, writeErrors>>

OpenStreamFails ==
    /\ pc = "open"
    /\ Return("rpc")
    /\ UNCHANGED <<logVars, turns, fired, cur, asked, messages, iter, round, k, frames,
                   lost, turnNo, ended, crashes, writeErrors>>

\* Mutant of StreamCancelled: the stream is awaited without the token.
StreamNotCancelled == pc = "stream" /\ FALSE /\ UNCHANGED vars

\* The biased select of consume_turn_stream_cancellable: a fired token wins.
StreamCancelled ==
    /\ pc = "stream"
    /\ fired
    /\ Return("cancelled")
    /\ UNCHANGED <<logVars, turns, fired, cur, asked, messages, iter, round, k, frames,
                   lost, turnNo, ended, crashes, writeErrors>>

\* Idle timeout, end of stream, stream error or a TurnError event.
StreamEnds ==
    /\ pc = "stream"
    /\ ~fired
    /\ Return("ended")
    /\ UNCHANGED <<logVars, turns, fired, cur, asked, messages, iter, round, k, frames,
                   lost, turnNo, ended, crashes, writeErrors>>

\* The terminal Complete event.
StreamCompletes(s, n, t) ==
    /\ pc = "stream"
    /\ ~fired
    /\ n > 0 => s \in CallsOn
    /\ round' = [stop |-> s, calls |-> n, text |-> t]
    /\ pc' = "round"
    /\ UNCHANGED <<logVars, turns, fired, cur, asked, messages, iter, k, result, frames,
                   lost, turnNo, ended, crashes, writeErrors>>

\* This completion ends the loop with text for the user.
Final == round.stop \in {"end", "max"} \/ (round.stop = "tool" /\ round.calls = 0)

\* This completion starts another round of tool calls.
CallsTools == round.stop = "tool" /\ round.calls > 0 /\ iter + 1 < MaxIterations

\* append_assistant_tagged refuses a message with no text and no tool calls.
Storable == round.text \/ round.calls > 0

RoundEntry == AssistantEntry(cur.turn, iter, round.calls)

\* An append whose failure is logged and otherwise ignored.
Persist(e) ==
    \/ AppendOk(cur.conv, e)
    \/ AppendErr(cur.conv, e) /\ UNCHANGED <<mem, loaded>>

\* Mutant of PersistAssistant: only text is worth a record.
PersistTextOnly ==
    IF round.text
    THEN Persist(RoundEntry)
    ELSE UNCHANGED <<logVars, writeErrors>>

\* persist_assistant: a failure is logged and the turn goes on.
PersistAssistant ==
    IF Storable
    THEN Persist(RoundEntry)
    ELSE UNCHANGED <<logVars, writeErrors>>

\* Mutant of FinishRound: a truncated answer is returned without being persisted.
FinishRoundUnsaved ==
    /\ pc = "round"
    /\ Final
    /\ IF round.stop = "max" THEN UNCHANGED <<logVars, writeErrors>> ELSE PersistAssistant
    /\ Return(IF round.stop = "max" THEN "max" ELSE "ok")
    /\ UNCHANGED <<turns, fired, cur, asked, messages, iter, round, k, frames, lost,
                   turnNo, ended, crashes>>

FinishRound ==
    /\ pc = "round"
    /\ Final
    /\ PersistAssistant
    /\ Return(IF round.stop = "max" THEN "max" ELSE "ok")
    /\ UNCHANGED <<turns, fired, cur, asked, messages, iter, round, k, frames, lost,
                   turnNo, ended, crashes>>

\* Mutant of UnknownStop: the model is asked again.
UnknownStopRetries ==
    /\ pc = "round"
    /\ round.stop = "unknown"
    /\ pc' = "open"
    /\ UNCHANGED <<logVars, turns, fired, cur, asked, loopVars, frames, lost, turnNo,
                   ended, crashes, writeErrors>>

UnknownStop ==
    /\ pc = "round"
    /\ round.stop = "unknown"
    /\ Return("unknown")
    /\ UNCHANGED <<logVars, turns, fired, cur, asked, messages, iter, round, k, frames,
                   lost, turnNo, ended, crashes, writeErrors>>

\* Mutant of IterationLimit: the completion is persisted before the limit is checked.
IterationLimitLate ==
    /\ pc = "round"
    /\ round.stop = "tool" /\ round.calls > 0
    /\ ~CallsTools
    /\ PersistAssistant
    /\ iter' = iter + 1
    /\ Return("limit")
    /\ UNCHANGED <<turns, fired, cur, asked, messages, round, k, frames, lost, turnNo,
                   ended, crashes>>

\* iterations reached max_iterations: the completion is not persisted.
IterationLimit ==
    /\ pc = "round"
    /\ round.stop = "tool" /\ round.calls > 0
    /\ ~CallsTools
    /\ iter' = iter + 1
    /\ Return("limit")
    /\ UNCHANGED <<logVars, turns, fired, cur, asked, messages, round, k, frames, lost,
                   turnNo, ended, crashes, writeErrors>>

\* The assistant tool-use message is persisted before any of its results.
BeginTools ==
    /\ pc = "round"
    /\ CallsTools
    /\ PersistAssistant
    /\ messages' = Append(messages, RoundEntry)
    /\ iter' = iter + 1
    /\ k' = 1
    /\ pc' = "tool"
    /\ UNCHANGED <<turns, fired, cur, asked, round, result, frames, lost, turnNo, ended,
                   crashes>>

ToolResult(m) == ToolEntry(cur.turn, iter - 1, k, m)

\* Mutants of ToolReturns: the last call is skipped; the result is not resent.
ToolReturnsShort ==
    /\ pc = "tool"
    /\ Persist(ToolResult(FALSE))
    /\ messages' = Append(messages, ToolResult(FALSE))
    /\ k' = k + 1
    /\ pc' = IF k + 1 >= round.calls THEN "open" ELSE "tool"
    /\ UNCHANGED <<turns, fired, cur, asked, iter, round, result, frames, lost, turnNo,
                   ended, crashes>>

ToolReturnsUnsent ==
    /\ pc = "tool"
    /\ Persist(ToolResult(FALSE))
    /\ k' = k + 1
    /\ pc' = IF k = round.calls THEN "open" ELSE "tool"
    /\ UNCHANGED <<turns, fired, cur, asked, messages, iter, round, result, frames,
                   lost, turnNo, ended, crashes>>

\* call_tool returned content or an error, both folded into a tool result.
ToolReturns ==
    /\ pc = "tool"
    /\ Persist(ToolResult(FALSE))
    /\ messages' = Append(messages, ToolResult(FALSE))
    /\ k' = k + 1
    /\ pc' = IF k = round.calls THEN "open" ELSE "tool"
    /\ UNCHANGED <<turns, fired, cur, asked, iter, round, result, frames, lost, turnNo,
                   ended, crashes>>

\* call_tool returned DispatchAbort::Cancelled: one marker, then the turn ends.
ToolCancelled ==
    /\ pc = "tool"
    /\ fired
    /\ Persist(ToolResult(TRUE))
    /\ Return("cancelled")
    /\ UNCHANGED <<turns, fired, cur, asked, messages, iter, round, k, frames, lost,
                   turnNo, ended, crashes>>

----------------------------------------------------------------------------
(* message_loop, after llm_loop returned *)

\* Mutant of EndTurn: the token stays registered.
EndTurnKeepsToken ==
    /\ pc = "end"
    /\ ended' = [ended EXCEPT ![cur.turn] = result]
    /\ pc' = "reply"
    /\ UNCHANGED <<logVars, turns, fired, cur, asked, loopVars, frames, lost, turnNo,
                   crashes, writeErrors>>

EndTurn ==
    /\ pc = "end"
    /\ turns' = turns \ {cur.conv}
    /\ ended' = [ended EXCEPT ![cur.turn] = result]
    /\ pc' = "reply"
    /\ UNCHANGED <<logVars, fired, cur, asked, loopVars, frames, lost, turnNo, crashes,
                   writeErrors>>

\* turn_outcome_frame
HasReply == result \in {"ok", "max"}
TerminalState == IF HasReply THEN "IDLE"
                 ELSE IF result = "cancelled" THEN "CANCELLED" ELSE "FAILED"

\* deliver_turn_outcome: the reply, if there is one, then the terminal state.
DeliverReply ==
    /\ pc = "reply"
    /\ IF cur.reply /\ HasReply THEN Deliver(Frame("REPLY", round.text))
                                ELSE UNCHANGED <<frames, lost>>
    /\ pc' = "state"
    /\ UNCHANGED <<logVars, turns, fired, cur, asked, loopVars, turnNo, ended, crashes,
                   writeErrors>>

\* ... and handle_llm_loop_result: only a failed open restarts the pod.
DeliverTurnState ==
    /\ pc = "state"
    /\ IF cur.reply THEN Deliver(Frame(TerminalState, FALSE))
                    ELSE UNCHANGED <<frames, lost>>
    /\ IF result = "rpc" THEN GoDown
       ELSE pc' = "recv" /\ LocalsGone /\ UNCHANGED <<mem, loaded, turns, fired>>
    /\ UNCHANGED <<disk, tail, cur, asked, turnNo, ended, crashes, writeErrors>>

----------------------------------------------------------------------------
(* The environment of the loop *)

\* CancelTurn: the token is taken out of the registry and fired.
Cancel(c) ==
    /\ c \in turns
    /\ turns' = turns \ {c}
    /\ fired' = TRUE
    /\ asked' = asked \cup {cur.turn}
    /\ UNCHANGED <<logVars, pc, cur, loopVars, frames, lost, turnNo, ended, crashes,
                   writeErrors>>

\* GetConversationHistory loads a log into the cache beside the loop.
LookupHistory(c) ==
    /\ c \notin loaded
    /\ pc # "down"
    /\ GetOrCreate(c)
    /\ UNCHANGED <<disk, tail, turns, fired, pc, cur, asked, loopVars, frames, lost,
                   turnNo, ended, crashes, writeErrors>>

\* The record the loop is about to write at pc, if any.
InFlight ==
    {e \in {UserEntry(cur.turn)} : pc = "append"}
    \cup {e \in {RoundEntry} : pc = "round" /\ Storable /\ (Final \/ CallsTools)}
    \cup {e \in {ToolResult(FALSE), ToolResult(fired)} : pc = "tool"}

\* The pod dies; a write in progress may be cut short.
Crash ==
    /\ pc # "down"
    /\ crashes < MaxCrashes
    /\ crashes' = crashes + 1
    /\ \/ UNCHANGED <<disk, tail>>
       \/ \E e \in InFlight : \E o \in CutShort(disk[cur.conv], tail[cur.conv], e) :
             /\ disk' = [disk EXCEPT ![cur.conv] = o[1]]
             /\ tail' = [tail EXCEPT ![cur.conv] = o[2]]
    /\ ended' = [t \in DOMAIN ended |-> IF ended[t] = "open" THEN "crash" ELSE ended[t]]
    /\ GoDown
    /\ UNCHANGED <<cur, asked, frames, lost, turnNo, writeErrors>>

\* The pod comes back; logs are rebuilt from their files on first use.
Restart ==
    /\ pc = "down"
    /\ pc' = "recv"
    /\ UNCHANGED <<logVars, turns, fired, cur, asked, loopVars, frames, lost, turnNo,
                   ended, crashes, writeErrors>>

\* No further message within the bound: the loop waits in next_message.
AwaitMessage ==
    /\ pc = "recv"
    /\ turnNo = MaxTurns
    /\ UNCHANGED vars

----------------------------------------------------------------------------
LoopStep ==
    \/ AppendUser \/ AppendUserFails \/ DeliverWorking \/ RegisterTurn
    \/ OpenStream \/ OpenStreamFails \/ StreamCancelled \/ StreamEnds
    \/ \E s \in StopReasons, n \in 0..MaxCalls, t \in BOOLEAN : StreamCompletes(s, n, t)
    \/ FinishRound \/ UnknownStop \/ IterationLimit \/ BeginTools
    \/ ToolReturns \/ ToolCancelled
    \/ EndTurn \/ DeliverReply \/ DeliverTurnState

Next ==
    \/ \E c \in Conversations, r \in BOOLEAN : Receive(c, r)
    \/ ReceiveFails
    \/ LoopStep
    \/ \E c \in Conversations : Cancel(c) \/ LookupHistory(c)
    \/ Crash \/ Restart
    \/ AwaitMessage

Spec == Init /\ [][Next]_vars

(* What the runtime guarantees: the loop's own steps are taken, gRPC makes *)
(* an open return, kubelet restarts the pod, and once the token is fired   *)
(* a tool wait ends: toolset and approval waits race it, a channel-stream  *)
(* request has a server-side timeout.  Whether a tool answers otherwise,   *)
(* and whether a model stops streaming, is not the harness's to guarantee. *)
ToolWaitEnds == fired /\ (ToolCancelled \/ ToolReturns)

OwnSteps ==
    \/ AppendUser \/ AppendUserFails \/ DeliverWorking \/ RegisterTurn
    \/ OpenStream \/ OpenStreamFails \/ StreamCancelled
    \/ FinishRound \/ UnknownStop \/ IterationLimit \/ BeginTools
    \/ ToolWaitEnds
    \/ EndTurn \/ DeliverReply \/ DeliverTurnState
    \/ Restart

FairSpec == Spec /\ WF_vars(OwnSteps)

----------------------------------------------------------------------------
(* Properties *)

\* Every variable has its type; cur names a turn that has been received.
TypeOK ==
    /\ disk \in [Conversations -> Seq(Entry)]
    /\ tail \in [Conversations -> {"clean", "torn", "bare"}]
    /\ mem \in [Conversations -> Seq(Entry)]
    /\ loaded \subseteq Conversations
    /\ turns \subseteq Conversations
    /\ fired \in BOOLEAN
    /\ pc \in {"recv", "append", "working", "register", "open", "stream", "round",
              "tool", "end", "reply", "state", "down"}
    /\ cur \in [conv : Conversations, turn : Nat, reply : BOOLEAN]
    /\ messages \in Seq(Entry)
    /\ iter \in Nat
    /\ round \in [stop : StopReasons, calls : Nat, text : BOOLEAN]
    /\ k \in Nat
    /\ result \in Results
    /\ frames \in Seq([kind : {"WORKING", "REPLY", "IDLE", "CANCELLED", "FAILED"},
                      turn : Nat, conv : Conversations, text : BOOLEAN])
    /\ turnNo \in Nat
    /\ ended \in Seq(Results \cup {"open", "crash"})
    /\ cur.turn = Len(ended) /\ turnNo = Len(ended)
    /\ asked \subseteq 1..turnNo
    /\ crashes \in Nat
    /\ writeErrors \in Nat
    /\ lost \in Nat

\* e is a result of the assistant message a.
ResultOf(e, a) ==
    /\ e.role = "tool" /\ a.role = "assistant"
    /\ e.turn = a.turn /\ e.round = a.round
    /\ e.call \in 1..a.calls

ResultsFollow(s) ==
    \A i \in 1..Len(s) : s[i].role = "tool" => \E j \in 1..(i - 1) : ResultOf(s[i], s[j])

\* agent.rs:257: "every tool result is preceded by its assistant tool_use", in the
\* context that is resent, in the log and in the file, across cancels, crashes
\* and torn writes.
ResultsFollowToolUse ==
    /\ ResultsFollow(messages)
    /\ \A c \in Conversations : ResultsFollow(mem[c]) /\ ResultsFollow(disk[c])

RoundsAnswered(s) ==
    \A i, j \in 1..Len(s) :
        /\ i < j
        /\ s[i].role = "assistant" /\ s[j].role = "assistant" /\ s[i].turn = s[j].turn
        => \A n \in 1..s[i].calls :
              \E m \in (i + 1)..(j - 1) : ResultOf(s[m], s[i]) /\ s[m].call = n

\* Within a turn the model is asked again only once each call of its last message
\* has its result, in the resent context, in the log and in the file.
AnsweredBeforeNextRound ==
    /\ RoundsAnswered(messages)
    /\ \A c \in Conversations : RoundsAnswered(mem[c]) /\ RoundsAnswered(disk[c])

Unpaired(s, i) ==
    /\ s[i].role = "assistant"
    /\ \E n \in 1..s[i].calls :
          \A m \in 1..Len(s) : ~(ResultOf(s[m], s[i]) /\ s[m].call = n)

\* A tool_use without a result is left only by the running turn or by one that a
\* cancel, a pod death or the token limit cut short (llm_loop answers every call
\* otherwise).
UnpairedOnlyWhenCutShort ==
    \A c \in Conversations : \A s \in {mem[c], disk[c]} : \A i \in 1..Len(s) :
        Unpaired(s, i) => ended[s[i].turn] \in {"open", "cancelled", "crash", "max"}

\* agent.rs:286: "keeping the resent history provider-valid (every tool_use has
\* a paired result)": true of the history whenever a turn starts.
EveryToolUsePaired ==
    pc = "working" => \A i \in 1..Len(messages) : ~Unpaired(messages, i)

\* The context llm_loop resends is the conversation's log: "appended here AND to
\* the persistent log".
ContextIsLog ==
    pc \in {"working", "register", "open", "stream", "round", "tool"}
        => cur.conv \in loaded /\ messages = mem[cur.conv]

\* "the durable log already holds the reply": a reply with text that reached the
\* relay is in the conversation's file.
ReplyIsDurable ==
    \A i \in 1..Len(frames) : frames[i].kind = "REPLY" /\ frames[i].text =>
        \E j \in 1..Len(disk[frames[i].conv]) :
            /\ disk[frames[i].conv][j].role = "assistant"
            /\ disk[frames[i].conv][j].turn = frames[i].turn

\* A turn ends as cancelled only if a client cancelled that very turn; a token
\* fired for one turn never stops a later one.
CancelledOnlyIfAsked ==
    \A t \in 1..Len(ended) : ended[t] = "cancelled" => t \in asked

\* Once the client was told a turn's terminal state nothing more of that turn is
\* delivered, and a cancel finds no turn (end_turn precedes the delivery).
NothingAfterTerminal ==
    \A i \in 1..Len(frames) : frames[i].kind \in {"IDLE", "CANCELLED", "FAILED"} =>
        /\ \A j \in 1..Len(frames) : j > i => frames[j].turn > frames[i].turn
        /\ frames[i].turn = cur.turn => turns = {}

InTurn == pc \notin {"recv", "down"}

\* A cancel fired inside llm_loop ends the turn, whatever the tools and the model do.
CancelEndsTurn == (fired /\ pc \in {"open", "stream", "round", "tool"}) ~> ~InTurn

StreamStops ==
    StreamEnds \/ \E s \in StopReasons, n \in 0..MaxCalls, t \in BOOLEAN : StreamCompletes(s, n, t)

\* If tools answer and model streams stop (the idle gap ends a silent one), every
\* turn ends and the harness is ready for the next message.
TurnEnds == WF_vars(ToolReturns) /\ WF_vars(StreamStops) => (InTurn ~> pc = "recv")
=============================================================================
