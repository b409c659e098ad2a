----------------------------- MODULE CallSession -----------------------------
(***************************************************************************)
(* A tool call's frames on their way to whoever waits for them             *)
(* (tool_router.rs, execution_log.rs, the call endpoints of grpc_server.rs *)
(* and of the relay's gateway.rs).  A call's frames come out of a bounded  *)
(* channel; one consumer appends each to the conversation's execution.json *)
(* and publishes it to the live session, then retires the session.  An     *)
(* await stream that finds the session replays what was published and      *)
(* follows the fan-out; one that does not is served from the record.       *)
(* A model's own call has no session: its drain appends the same way and   *)
(* folds the frames into the tool result of the turn.                      *)
(*                                                                         *)
(* One workspace and one conversation.  Frame i of a call is its place in  *)
(* made; 0 is the FAILED terminal an await stream makes up.  The relay     *)
(* passes an await stream through item by item, so its hop is folded into  *)
(* the stream's channel; who may await what is in Access.                  *)
(***************************************************************************)
EXTENDS Naturals, Sequences, SequencesExt

CONSTANTS
    Calls, Awaiters, None,
    Inputs,     \* calls that may be made: <<call, source, whether a conversation is named>>
    FrameKinds, \* kinds of frames the pods send
    ResCap,     \* capacity of a call's result channel (64)
    FanCap,     \* frames the fan-out keeps for a receiver (256)
    TxCap,      \* capacity of an await stream's channel (64)
    MaxFrames,  \* bound: call -> its frames before the terminal
    MaxFaults   \* bound: failed writes, broken pods, restarts, clients that leave

ASSUME CallsAssumption == None \notin Calls
ASSUME CapAssumption == {ResCap, FanCap, TxCap} \subseteq Nat \ {0}
ASSUME BoundsAssumption == MaxFrames \in [Calls -> Nat] /\ MaxFaults \in Nat
ASSUME InputsAssumption == Inputs \subseteq Calls \X {"toolset", "runtime", "turn"} \X BOOLEAN

Terminals == {"done", "failed", "canceled"}
Kinds == {"text", "image"} \cup Terminals

ASSUME KindsAssumption == FrameKinds \subseteq Kinds

VARIABLES
    src,        \* call -> its Source, or "none"
    named,      \* calls dispatched with a conversation id
    made,       \* call -> kinds of the frames put into its channel
    pod,        \* call -> whether frames may still come: running or closed
    cancelled,  \* calls whose cancel token fired
    taken,      \* call -> frames the consumer has received
    cpc,        \* call -> where its consumer or drain is
    live,       \* calls with an entry in the session table
    pub,        \* call -> frames published to the session
    log,        \* call -> its records of execution.json that parse, in file order
    tail,       \* end of the file: clean, partial (a torn line), unended
    ends,       \* the call of the last line, when that lacks its newline
    owned,      \* the registry knows the conversation
    known,      \* calls the relay has recorded as dispatched
    result,     \* call -> what a turn's call returned
    apc,        \* await stream -> where its handler or its task is
    target, mode, snap, nxt, rec, out, got,
    lagged,     \* await streams whose receiver fell behind (history)
    lost,       \* calls with a record that was not, or not only, appended (history)
    dropped,    \* calls whose guard found the channel full (history)
    faults

callVars  == <<src, named, made, pod, cancelled>>
sessVars  == <<taken, cpc, live, pub>>
logVars   == <<log, tail, ends, owned>>
awaitVars == <<apc, target, mode, snap, nxt, rec, out, got>>
histVars  == <<lagged, lost, dropped>>
vars == <<src, named, made, pod, cancelled, taken, cpc, live, pub, log, tail, ends, owned,
          known, result, apc, target, mode, snap, nxt, rec, out, got, lagged, lost, dropped, faults>>

IsTerminal(c, i) == i \in 1..Len(made[c]) /\ made[c][i] \in Terminals

Fault == faults < MaxFaults /\ faults' = faults + 1

----------------------------------------------------------------------------
Init ==
    /\ src = [c \in Calls |-> "none"]
    /\ named = {}
    /\ made = [c \in Calls |-> <<>>]
    /\ pod = [c \in Calls |-> "none"]
    /\ cancelled = {}
    /\ taken = [c \in Calls |-> 0]
    /\ cpc = [c \in Calls |-> "none"]
    /\ live = {}
    /\ pub = [c \in Calls |-> 0]
    /\ log = [c \in Calls |-> <<>>]
    /\ tail = "clean"
    /\ ends = None
    /\ owned = TRUE
    /\ known = {}
    /\ result = [c \in Calls |-> "none"]
    /\ apc = [a \in Awaiters |-> "idle"]
    /\ target = [a \in Awaiters |-> None]
    /\ mode = [a \in Awaiters |-> "none"]
    /\ snap = [a \in Awaiters |-> 0]
    /\ nxt = [a \in Awaiters |-> 1]
    /\ rec = [a \in Awaiters |-> <<>>]
    /\ out = [a \in Awaiters |-> <<>>]
    /\ got = [a \in Awaiters |-> <<>>]
    /\ lagged = {}
    /\ lost = {}
    /\ dropped = {}
    /\ faults = 0

----------------------------------------------------------------------------
(* Dispatch, and the frames of the call. *)

\* dispatch_tool of the service: a named conversation must be owned.  The
\* session is in the table before the id is returned; a turn's call has none.
DispatchTool(c, s, n) ==
    /\ src[c] = "none"
    /\ n => owned
    /\ src' = [src EXCEPT ![c] = s]
    /\ named' = IF n THEN named \cup {c} ELSE named
    /\ pod' = [pod EXCEPT ![c] = "running"]
    /\ live' = IF s = "turn" THEN live ELSE live \cup {c}
    /\ cpc' = [cpc EXCEPT ![c] = "recv"]
    /\ UNCHANGED <<made, cancelled, taken, pub, logVars, known, result, awaitVars, histVars,
                   faults>>

\* The relay's dispatch_tool, back from the harness, records the call.
RecordDispatchedCall(c) ==
    /\ src[c] \in {"toolset", "runtime"}
    /\ cpc[c] # "crashed"
    /\ c \notin known
    /\ known' = known \cup {c}
    /\ UNCHANGED <<callVars, sessVars, logVars, result, awaitVars, histVars, faults>>

Room(c) == Len(made[c]) - taken[c] < ResCap

\* dial_and_run forwards a frame of the pod; after the terminal it stops.
PodFrame(c, k) ==
    /\ src[c] \in {"toolset", "turn"}
    /\ pod[c] = "running"
    /\ Room(c)
    /\ k = "canceled" => c \in cancelled
    /\ k \notin Terminals => Len(made[c]) < MaxFrames[c]
    /\ made' = [made EXCEPT ![c] = Append(@, k)]
    /\ pod' = IF k \in Terminals THEN [pod EXCEPT ![c] = "closed"] ELSE pod
    /\ UNCHANGED <<src, named, cancelled, sessVars, logVars, known, result, awaitVars, histVars,
                   faults>>

\* The pod's stream ends with no terminal: the guard's try_send of FAILED is
\* lost when the channel is full.
PodBreaks(c) ==
    /\ Fault
    /\ src[c] \in {"toolset", "turn"}
    /\ pod[c] = "running"
    /\ pod' = [pod EXCEPT ![c] = "closed"]
    /\ made' = IF Room(c) THEN [made EXCEPT ![c] = Append(@, "failed")] ELSE made
    /\ dropped' = IF Room(c) THEN dropped ELSE dropped \cup {c}
    /\ UNCHANGED <<src, named, cancelled, sessVars, logVars, known, result, awaitVars, lagged,
                   lost>>

\* A runtime tool answers in process: a frame per block, then the terminal its
\* error bit calls for.
FramesFromResponse(blocks, isError) == Append(blocks, IF isError THEN "failed" ELSE "done")

RuntimeReturns(c, blocks, isError) ==
    /\ src[c] = "runtime"
    /\ pod[c] = "running"
    /\ made' = [made EXCEPT ![c] = FramesFromResponse(blocks, isError)]
    /\ pod' = [pod EXCEPT ![c] = "closed"]
    /\ UNCHANGED <<src, named, cancelled, sessVars, logVars, known, result, awaitVars, histVars,
                   faults>>

\* cancel_tool, through the relay: only a call with a session is cancelled, and
\* the dispatcher has a token only for a toolset call that has not finished.
CancelTool(c) ==
    /\ c \in known
    /\ c \in live
    /\ src[c] = "toolset"
    /\ pod[c] = "running"
    /\ c \notin cancelled
    /\ cancelled' = cancelled \cup {c}
    /\ UNCHANGED <<src, named, made, pod, sessVars, logVars, known, result, awaitVars, histVars,
                   faults>>

----------------------------------------------------------------------------
(* The consumer of a session, and the drain of a turn's call. *)

RecvFrame(c) ==
    /\ cpc[c] = "recv"
    /\ taken[c] < Len(made[c])
    /\ taken' = [taken EXCEPT ![c] = @ + 1]
    /\ cpc' = [cpc EXCEPT ![c] = "append"]
    /\ UNCHANGED <<callVars, live, pub, logVars, known, result, awaitVars, histVars, faults>>

\* What is left of a file that lacks its last newline when more is written to it.
Spoilt == IF tail = "unended" THEN [log EXCEPT ![ends] = Front(@)] ELSE log

\* What the file holds once a line was appended: a torn line before it takes it
\* along, and one that lacked only its newline is spoilt as well.
Appended(c, i) == IF tail = "clean" THEN [log EXCEPT ![c] = Append(@, i)] ELSE Spoilt

\* Mutant of Recorded: only output is worth a record.
OutputOnly(c) == c \in named /\ made[c][taken[c]] = "text"

\* frame_to_record: an image is not recorded.
Recorded(c) == c \in named /\ made[c][taken[c]] # "image"

\* assemble_from_frames: the error bit is that of the terminal; no terminal, no error.
AssembleFromFrames(c) ==
    IF \E i \in 1..taken[c] : made[c][i] \in Terminals \ {"done"} THEN "error" ELSE "ok"

\* A turn's call hands its result over, unless the turn was cancelled meanwhile.
TurnResult(c) ==
    /\ result' = IF result[c] = "none" THEN [result EXCEPT ![c] = AssembleFromFrames(c)] ELSE result
    /\ cpc' = [cpc EXCEPT ![c] = "done"]

\* After the append a session's frame is published; a drain keeps it and stops
\* at the terminal.
AfterAppend(c) ==
    IF src[c] = "turn" /\ IsTerminal(c, taken[c]) THEN TurnResult(c)
    ELSE /\ cpc' = [cpc EXCEPT ![c] = IF src[c] = "turn" THEN "recv" ELSE "publish"]
         /\ UNCHANGED result

\* Calls that lose a record when the line is appended to a file that is not
\* clean.
Spoils(c) ==
    IF tail = "clean" THEN {}
    ELSE {c} \cup (IF tail = "unended" THEN {ends} ELSE {})

AppendFrame(c) ==
    /\ cpc[c] = "append"
    /\ log' = IF Recorded(c) THEN Appended(c, taken[c]) ELSE log
    /\ tail' = IF Recorded(c) THEN "clean" ELSE tail
    /\ lost' = IF Recorded(c) THEN lost \cup Spoils(c) ELSE lost
    /\ AfterAppend(c)
    /\ UNCHANGED <<callVars, taken, live, pub, ends, owned, known, awaitVars, lagged, dropped,
                   faults>>

\* The write fails, possibly part way; that is a warning and nothing more.
AppendFrameFails(c) ==
    /\ Fault
    /\ cpc[c] = "append"
    /\ Recorded(c)
    /\ \/ UNCHANGED <<log, tail>> /\ lost' = lost \cup {c}
       \/ /\ tail' = "partial"
          /\ log' = Spoilt
          /\ lost' = lost \cup {c} \cup Spoils(c)
    /\ AfterAppend(c)
    /\ UNCHANGED <<callVars, taken, live, pub, ends, owned, known, awaitVars, lagged, dropped>>

\* Push to the session's frames and send on the fan-out, in one critical section.
Publish(c) ==
    /\ cpc[c] = "publish"
    /\ pub' = [pub EXCEPT ![c] = taken[c]]
    /\ cpc' = [cpc EXCEPT ![c] =
                 IF src[c] = "toolset" /\ IsTerminal(c, taken[c]) THEN "retire" ELSE "recv"]
    /\ UNCHANGED <<callVars, taken, live, logVars, known, result, awaitVars, histVars, faults>>

\* The turn is cancelled: it returns at once, and the drain goes on.
TurnCancelled(c) ==
    /\ src[c] = "turn"
    /\ cpc[c] \in {"recv", "append"}
    /\ result[c] = "none"
    /\ result' = [result EXCEPT ![c] = "cancelled"]
    /\ cancelled' = IF pod[c] = "running" THEN cancelled \cup {c} ELSE cancelled
    /\ UNCHANGED <<src, named, made, pod, sessVars, logVars, known, awaitVars, histVars, faults>>

\* The channel is closed and drained.
RecvEnds(c) ==
    /\ cpc[c] = "recv"
    /\ pod[c] = "closed"
    /\ taken[c] = Len(made[c])
    /\ CASE src[c] = "toolset" -> cpc' = [cpc EXCEPT ![c] = "retire"] /\ UNCHANGED result
         [] src[c] = "runtime" -> cpc' = [cpc EXCEPT ![c] = "retain"] /\ UNCHANGED result
         [] src[c] = "turn"    -> TurnResult(c)
    /\ UNCHANGED <<callVars, taken, live, pub, logVars, known, awaitVars, histVars, faults>>

\* A runtime call's session is kept for RUNTIME_CALL_RETENTION first.
Retire(c) ==
    /\ cpc[c] \in {"retire", "retain"}
    /\ live' = live \ {c}
    /\ cpc' = [cpc EXCEPT ![c] = "done"]
    /\ UNCHANGED <<callVars, taken, pub, logVars, known, result, awaitVars, histVars, faults>>

----------------------------------------------------------------------------
(* An await stream. *)

\* await_tool_result, past the relay, which has seen the call since it started.
AwaitToolResult(a, c) ==
    /\ apc[a] = "idle"
    /\ c \in known
    /\ target' = [target EXCEPT ![a] = c]
    /\ apc' = [apc EXCEPT ![a] = "asked"]
    /\ UNCHANGED <<callVars, sessVars, logVars, known, result, mode, snap, nxt, rec, out, got,
                   histVars, faults>>

\* The session table is read and its lock let go.
Lookup(a) ==
    /\ apc[a] = "asked"
    /\ apc' = [apc EXCEPT ![a] = IF target[a] \in live THEN "found" ELSE "gone"]
    /\ UNCHANGED <<callVars, sessVars, logVars, known, result, target, mode, snap, nxt, rec, out,
                   got, histVars, faults>>

\* Mutant of Subscribe: the fan-out also has the last frame of the snapshot.
SubscribeOverlaps(a) ==
    /\ apc[a] = "found"
    /\ snap' = [snap EXCEPT ![a] = pub[target[a]]]
    /\ out' = [out EXCEPT ![a] = IF pub[target[a]] > 0 THEN <<pub[target[a]]>> ELSE @]
    /\ mode' = [mode EXCEPT ![a] = "live"]
    /\ apc' = [apc EXCEPT ![a] = "stream"]
    /\ UNCHANGED <<callVars, sessVars, logVars, known, result, target, nxt, rec, got, histVars,
                   faults>>

\* The snapshot and the subscription are taken under the consumer's lock.
Subscribe(a) ==
    /\ apc[a] = "found"
    /\ snap' = [snap EXCEPT ![a] = pub[target[a]]]
    /\ mode' = [mode EXCEPT ![a] = "live"]
    /\ apc' = [apc EXCEPT ![a] = "stream"]
    /\ UNCHANGED <<callVars, sessVars, logVars, known, result, target, nxt, rec, out, got,
                   histVars, faults>>

\* read: the call's lines that parse, in file order.
Persisted(c) == log[c]

ReadRecord(a) ==
    /\ apc[a] = "gone"
    /\ LET p == Persisted(target[a]) IN
       IF target[a] \notin named \/ p = <<>>
       THEN apc' = [apc EXCEPT ![a] = "notfound"] /\ UNCHANGED <<rec, mode>>
       ELSE /\ rec' = [rec EXCEPT ![a] = p]
            /\ mode' = [mode EXCEPT ![a] = "record"]
            /\ apc' = [apc EXCEPT ![a] = "stream"]
    /\ UNCHANGED <<callVars, sessVars, logVars, known, result, target, snap, nxt, out, got,
                   histVars, faults>>

\* A frame into the await stream's channel, when there is room.
Send(a, i) ==
    /\ Len(out[a]) < TxCap
    /\ out' = [out EXCEPT ![a] = Append(@, i)]

\* Replay of the snapshot, then the fan-out; the terminal ends the task.
FollowSession(a) ==
    LET c == target[a] IN
    /\ apc[a] = "stream"
    /\ mode[a] = "live"
    /\ nxt[a] <= pub[c]
    /\ nxt[a] <= snap[a] \/ nxt[a] > pub[c] - FanCap
    /\ Send(a, nxt[a])
    /\ nxt' = [nxt EXCEPT ![a] = @ + 1]
    /\ apc' = [apc EXCEPT ![a] = IF IsTerminal(c, nxt[a]) THEN "sent" ELSE @]
    /\ UNCHANGED <<callVars, sessVars, logVars, known, result, target, mode, snap, rec, got,
                   histVars, faults>>

\* The receiver is further behind than the fan-out keeps: recv fails.
Lag(a) ==
    /\ apc[a] = "stream"
    /\ mode[a] = "live"
    /\ nxt[a] > snap[a]
    /\ nxt[a] + FanCap <= pub[target[a]]
    /\ lagged' = lagged \cup {a}
    /\ apc' = [apc EXCEPT ![a] = "closing"]
    /\ UNCHANGED <<callVars, sessVars, logVars, known, result, target, mode, snap, nxt, rec, out,
                   got, lost, dropped, faults>>

\* Mutant of SenderGone: what is left in the fan-out is not drained.
SenderGoneAtOnce(a) ==
    /\ apc[a] = "stream"
    /\ mode[a] = "live"
    /\ nxt[a] > snap[a]
    /\ cpc[target[a]] = "done"
    /\ apc' = [apc EXCEPT ![a] = "closing"]
    /\ UNCHANGED <<callVars, sessVars, logVars, known, result, target, mode, snap, nxt, rec, out,
                   got, histVars, faults>>

\* Every sender of the fan-out is gone: the consumer's, and the handle an await
\* holds between its lookup and its subscription.
SenderGone(a) ==
    /\ apc[a] = "stream"
    /\ mode[a] = "live"
    /\ nxt[a] > pub[target[a]]
    /\ cpc[target[a]] = "done"
    /\ \A b \in Awaiters : ~(apc[b] = "found" /\ target[b] = target[a])
    /\ apc' = [apc EXCEPT ![a] = "closing"]
    /\ UNCHANGED <<callVars, sessVars, logVars, known, result, target, mode, snap, nxt, rec, out,
                   got, histVars, faults>>

\* Replay of the record: every frame of it, and FAILED if the last is no terminal.
ReplayRecord(a) ==
    /\ apc[a] = "stream"
    /\ mode[a] = "record"
    /\ nxt[a] <= Len(rec[a])
    /\ Send(a, rec[a][nxt[a]])
    /\ nxt' = [nxt EXCEPT ![a] = @ + 1]
    /\ apc' = [apc EXCEPT ![a] =
                 IF nxt[a] < Len(rec[a]) THEN @
                 ELSE IF IsTerminal(target[a], rec[a][nxt[a]]) THEN "sent" ELSE "closing"]
    /\ UNCHANGED <<callVars, sessVars, logVars, known, result, target, mode, snap, rec, got,
                   histVars, faults>>

\* Mutant of FailedTerminal: the task waits for a terminal that does not come.
WaitsOn(a) == apc[a] = "closing" /\ UNCHANGED vars

FailedTerminal(a) ==
    /\ apc[a] = "closing"
    /\ Send(a, 0)
    /\ apc' = [apc EXCEPT ![a] = "sent"]
    /\ UNCHANGED <<callVars, sessVars, logVars, known, result, target, mode, snap, nxt, rec, got,
                   histVars, faults>>

ClientReads(a) ==
    /\ apc[a] \in {"stream", "closing", "sent"}
    /\ out[a] # <<>>
    /\ got' = [got EXCEPT ![a] = Append(@, Head(out[a]))]
    /\ out' = [out EXCEPT ![a] = Tail(@)]
    /\ apc' = [apc EXCEPT ![a] = IF @ = "sent" /\ Len(out[a]) = 1 THEN "ended" ELSE @]
    /\ UNCHANGED <<callVars, sessVars, logVars, known, result, target, mode, snap, nxt, rec,
                   histVars, faults>>

\* The stream is dropped: the client goes, or the relay finds its reach revoked.
Leave(a) ==
    /\ Fault
    /\ apc[a] \in {"asked", "found", "gone", "stream", "closing", "sent"}
    /\ apc' = [apc EXCEPT ![a] = "left"]
    /\ out' = [out EXCEPT ![a] = <<>>]
    /\ UNCHANGED <<callVars, sessVars, logVars, known, result, target, mode, snap, nxt, rec, got,
                   histVars>>

----------------------------------------------------------------------------
(* Faults. *)

\* delete_conversation: the directory goes, with the record in it.
DeleteConversation ==
    /\ Fault
    /\ owned
    /\ owned' = FALSE
    /\ log' = [c \in Calls |-> <<>>]
    /\ tail' = "clean"
    /\ lost' = lost \cup named
    /\ UNCHANGED <<callVars, sessVars, ends, known, result, awaitVars, lagged, dropped>>

Open(a) == apc[a] \in {"asked", "found", "gone", "stream", "closing", "sent"}

CutStreams ==
    /\ apc' = [a \in Awaiters |-> IF Open(a) THEN "left" ELSE apc[a]]
    /\ out' = [a \in Awaiters |-> <<>>]

\* The harness restarts: sessions and drains are gone, and a line being written
\* is torn, or lacks only its newline.
HarnessRestart ==
    LET writing == {c \in Calls : cpc[c] = "append" /\ Recorded(c)} IN
    /\ Fault
    /\ \/ UNCHANGED <<log, tail, ends>>
       \/ /\ writing # {}
          /\ log' = Spoilt
          /\ tail' = "partial"
          /\ ends' = ends
       \/ \E c \in writing :
             /\ tail = "clean"
             /\ log' = Appended(c, taken[c])
             /\ tail' = "unended"
             /\ ends' = c
    /\ lost' = lost \cup {c \in Calls : src[c] # "none" /\ cpc[c] \notin {"done", "retain", "retire"}}
                    \cup (IF tail = "unended" THEN {ends} ELSE {})
    /\ live' = {}
    /\ cpc' = [c \in Calls |-> IF src[c] # "none" /\ cpc[c] # "done" THEN "crashed" ELSE cpc[c]]
    /\ pod' = [c \in Calls |-> IF src[c] # "none" THEN "closed" ELSE pod[c]]
    /\ CutStreams
    /\ UNCHANGED <<src, named, made, cancelled, taken, pub, owned, known, result, target, mode, snap,
                   nxt, rec, got, lagged, dropped>>

\* The relay restarts, and with it the calls it has seen dispatched.
RelayRestart ==
    /\ Fault
    /\ known' = {}
    /\ CutStreams
    /\ UNCHANGED <<callVars, sessVars, logVars, result, target, mode, snap, nxt, rec, got, histVars>>

\* Nothing more to do: every dispatched call is over and no stream is open.
Finished ==
    /\ \A c \in Calls : cpc[c] \in {"none", "done", "crashed"}
    /\ \A a \in Awaiters : ~Open(a)
    /\ UNCHANGED vars

----------------------------------------------------------------------------
Blocks(c) == UNION {[1..n -> {"text", "image"}] : n \in 0..MaxFrames[c]}

CallStep(c) ==
    \/ RecvFrame(c) \/ AppendFrame(c) \/ Publish(c) \/ RecvEnds(c) \/ Retire(c)

AwaitStep(a) ==
    \/ Lookup(a) \/ Subscribe(a) \/ ReadRecord(a) \/ FollowSession(a) \/ Lag(a) \/ SenderGone(a)
    \/ ReplayRecord(a) \/ FailedTerminal(a)

Next ==
    \/ \E i \in Inputs : DispatchTool(i[1], i[2], i[3])
    \/ \E c \in Calls : RecordDispatchedCall(c)
    \/ \E c \in Calls, k \in FrameKinds : PodFrame(c, k)
    \/ \E c \in Calls : PodBreaks(c)
    \/ \E c \in Calls : \E b \in Blocks(c), e \in BOOLEAN : RuntimeReturns(c, b, e)
    \/ \E c \in Calls : CancelTool(c)
    \/ \E c \in Calls : TurnCancelled(c)
    \/ \E c \in Calls : CallStep(c)
    \/ \E c \in Calls : AppendFrameFails(c)
    \/ \E a \in Awaiters, c \in Calls : AwaitToolResult(a, c)
    \/ \E a \in Awaiters : AwaitStep(a)
    \/ \E a \in Awaiters : ClientReads(a)
    \/ \E a \in Awaiters : Leave(a)
    \/ DeleteConversation
    \/ HarnessRestart
    \/ RelayRestart
    \/ Finished

Spec == Init /\ [][Next]_vars

\* Tasks run, a pod's run is cut by its Job's deadline, a runtime tool answers,
\* and a client that stays reads its stream.
Fairness ==
    /\ \A c \in Calls : WF_vars(CallStep(c))
    /\ \A c \in Calls : WF_vars(\E k \in FrameKinds \cap Terminals : PodFrame(c, k))
    /\ \A c \in Calls : WF_vars(\E b \in Blocks(c), e \in BOOLEAN : RuntimeReturns(c, b, e))
    /\ \A a \in Awaiters : WF_vars(AwaitStep(a)) /\ WF_vars(ClientReads(a))

FairSpec == Spec /\ Fairness

----------------------------------------------------------------------------
(* Properties. *)

CallTypeOK ==
    /\ src \in [Calls -> {"none", "toolset", "runtime", "turn"}]
    /\ named \subseteq Calls /\ cancelled \subseteq Calls /\ live \subseteq Calls
    /\ known \subseteq Calls /\ lost \subseteq Calls /\ dropped \subseteq Calls
    /\ made \in [Calls -> Seq(Kinds)]
    /\ pod \in [Calls -> {"none", "running", "closed"}]
    /\ taken \in [Calls -> Nat] /\ pub \in [Calls -> Nat]
    /\ cpc \in [Calls -> {"none", "recv", "append", "publish", "retain", "retire", "done",
                         "crashed"}]
    /\ result \in [Calls -> {"none", "ok", "error", "cancelled"}]

RecordTypeOK ==
    /\ log \in [Calls -> Seq(Nat)]
    /\ tail \in {"clean", "partial", "unended"}
    /\ tail = "unended" => ends \in Calls
    /\ owned \in BOOLEAN /\ faults \in Nat

AwaitTypeOK ==
    /\ apc \in [Awaiters -> {"idle", "asked", "found", "gone", "notfound", "stream", "closing",
                             "sent", "ended", "left"}]
    /\ target \in [Awaiters -> Calls \cup {None}]
    /\ mode \in [Awaiters -> {"none", "live", "record"}]
    /\ snap \in [Awaiters -> Nat] /\ nxt \in [Awaiters -> Nat \ {0}]
    /\ rec \in [Awaiters -> Seq(Nat)] /\ out \in [Awaiters -> Seq(Nat)]
    /\ got \in [Awaiters -> Seq(Nat)] /\ lagged \subseteq Awaiters

TypeOK == CallTypeOK /\ RecordTypeOK /\ AwaitTypeOK

\* A call that is over, was dispatched with a conversation and met no failed
\* write, restart or deletion has its whole record: every frame but the images,
\* once each, in order, whatever the other calls of the file did.  Its session
\* may go (calls.write().remove) only because of this.
RecordWhole ==
    \A c \in named \ lost : cpc[c] \in {"retain", "retire", "done"} =>
        /\ Range(Persisted(c)) = {i \in 1..taken[c] : made[c][i] # "image"}
        /\ \A i, j \in DOMAIN Persisted(c) : i < j => Persisted(c)[i] < Persisted(c)[j]

\* An await stream is told NotFound, or given a FAILED its call did not end in,
\* only for a reason: the call was in no conversation, its record was lost, the
\* client fell FanCap frames behind, or the guard's terminal did not fit.
MadeUpOnlyIfLost ==
    \A a \in Awaiters :
        /\ apc[a] = "notfound" => target[a] \notin named \ (lost \cup dropped)
        /\ 0 \in Range(got[a]) \cup Range(out[a]) => a \in lagged \/ target[a] \in lost \cup dropped

\* A tool call of a turn whose pod broke off is an error to the model
\* (execution_log.rs: every terminal that is not DONE is an error).
BrokenCallIsError ==
    \A c \in Calls : result[c] = "ok" => \E i \in 1..taken[c] : made[c][i] = "done"

\* Every client-driven await ends in an outcome (tool_router.rs, failed_terminal).
AwaitEnds ==
    \A a \in Awaiters : apc[a] = "asked" ~> apc[a] \in {"ended", "notfound", "left"}

\* The await streams are what AwaitStream promises: frames of the call in order,
\* none twice, none skipped by a live stream, one terminal at the end.
Promise == INSTANCE AwaitStream WITH frames <- made, asked <- target, served <- mode, given <- got
PromiseKept == Promise!Spec

=============================================================================
