------------------------------ MODULE Inference ------------------------------
(***************************************************************************)
(* A model call, from the request body to the turn's result (the inference *)
(* half of dispatch.rs, inference-runtime/server.rs, model-provider and    *)
(* turn.rs).  The harness resolves the model's name, then calls a warm     *)
(* local model itself or creates a one-shot pod that calls the provider    *)
(* and sends its events on.  The provider answers with server-sent events  *)
(* cut into chunks anywhere; the parser turns them into stream events, the *)
(* source forwards them and puts the whole answer into one Complete, and   *)
(* the turn reads its result from that and shows the rest to the client.   *)
(*                                                                         *)
(* One turn of several rounds.  A server-sent event is a record of what it *)
(* carries; it takes two units on the wire, so that a chunk can end inside *)
(* it.  Request parameters are never passed, so nothing is clobbered.      *)
(***************************************************************************)
EXTENDS Naturals, Sequences, SequencesExt, FiniteSets

CONSTANTS
    Answers,    \* format -> the answers a provider may give: sequences of events
    ChanCap,    \* events the pod's channel holds (64)
    MaxRounds,  \* bound: model calls of the turn
    MaxFaults   \* bound: failures and timeouts

ASSUME FormatAssumption == DOMAIN Answers \subseteq {"openai", "anthropic"}
\* What the parser reads of a server-sent event; index 0 is no tool call.
SseEvent ==
    [text : STRING, wide : BOOLEAN, think : BOOLEAN, call : [index : Nat, arg : STRING], finish : STRING]

\* The event that finishes an answer is its last (nothing is read after it).
\* Anthropic starts each call once, before its arguments.
ASSUME AnswersAssumption ==
    \A f \in DOMAIN Answers : \A a \in Answers[f] :
        /\ a \in Seq(SseEvent)
        /\ \A k \in DOMAIN a :
             /\ a[k].finish # "" => k = Len(a)
             /\ a[k].wide => a[k].text # ""
             /\ f = "anthropic" /\ a[k].call.index # 0 =>
                  (a[k].call.arg = "" <=> \A j \in 1..(k - 1) : a[j].call.index # a[k].call.index)

ASSUME BoundsAssumption == {ChanCap, MaxRounds} \subseteq Nat \ {0} /\ MaxFaults \in Nat

VARIABLES
    format,     \* wire format of the model, from the model table
    history,    \* the messages of the request: [role, calls]
    source,     \* where the events come from: none, error, local, pod
    http,       \* the provider's response: none, open, ended, broken
    said,       \* server-sent events of the response
    recvd,      \* units received
    split,      \* events that a chunk ended in
    seen,       \* tool call indices the parser has met
    parsed,     \* server-sent events parsed
    pend,       \* stream events of one server-sent event not yet handed on
    events,     \* stream events the source has kept
    running,    \* the source is still to be read, or the pod's call runs
    chan,       \* turn events on their way
    held,       \* the turn still holds its end
    cancelled,
    emit,       \* EmitState: [text, tool, runs]
    items,      \* frames shown to the client
    result,     \* of the round: none, ended, cancelled or the Complete
    round, faults

callVars == <<format, history, source, http, said, recvd, split>>
parseVars == <<seen, parsed, pend, events, running>>
turnVars == <<held, cancelled, emit, items, result, round>>
inferenceVars == <<format, history, source, http, said, recvd, split, seen, parsed, pend, events,
                   running, chan, held, cancelled, emit, items, result, round, faults>>

Fault == faults < MaxFaults /\ faults' = faults + 1

----------------------------------------------------------------------------
(* The request. *)

\* Mutant of BuildApiMessages: one message for each tool result.
BuildOneByOne(ms) == [i \in DOMAIN ms |-> [role |-> ms[i].role, parts |-> <<ms[i]>>]]

\* The next message joins a run of tool messages, or is one of its own.
AddMessage(out, m) ==
    IF m.role = "tool" /\ out # <<>> /\ Last(out).role = "tool"
    THEN [out EXCEPT ![Len(out)].parts = Append(@, m)]
    ELSE Append(out, [role |-> m.role, parts |-> <<m>>])

\* build_api_messages: a run of tool messages becomes one user message for
\* Anthropic; OpenAI takes them one by one.
BuildApiMessages(ms) ==
    LET build[n \in 0..Len(ms)] == IF n = 0 THEN <<>> ELSE AddMessage(build[n - 1], ms[n])
    IN  IF format = "openai" THEN [i \in DOMAIN ms |-> [role |-> ms[i].role, parts |-> <<ms[i]>>]]
        ELSE build[Len(ms)]

NoResult == [kind |-> "none"]
User == [role |-> "user", calls |-> 0]
Assistant(n) == [role |-> "assistant", calls |-> n]
ToolResult == [role |-> "tool", calls |-> 0]

----------------------------------------------------------------------------
InferenceInit ==
    /\ format \in DOMAIN Answers
    /\ history = <<User>>
    /\ source = "none"
    /\ http = "none"
    /\ said = <<>>
    /\ recvd = 0
    /\ split = {}
    /\ seen = {}
    /\ parsed = 0
    /\ pend = <<>>
    /\ events = <<>>
    /\ running = FALSE
    /\ chan = <<>>
    /\ held = FALSE
    /\ cancelled = FALSE
    /\ emit = [text |-> 0, tool |-> 0, runs |-> 0]
    /\ items = <<>>
    /\ result = NoResult
    /\ round = 1
    /\ faults = 0

\* InferenceDispatch::turn and open: no model named, one this workspace may not
\* use, a format it does not know, a Job that is not created or a pod that does
\* not answer all end as a source that yields one error.
OpenError ==
    /\ Fault
    /\ source = "none"
    /\ source' = "error"
    /\ chan' = <<[kind |-> "error"]>>
    /\ held' = TRUE
    /\ UNCHANGED <<format, history, http, said, recvd, split, parseVars, cancelled, emit, items, result,
                   round>>

OpenSource(s) ==
    /\ source = "none"
    /\ source' = s
    /\ running' = TRUE
    /\ held' = TRUE
    /\ UNCHANGED <<format, history, http, said, recvd, split, seen, parsed, pend, events, chan, cancelled,
                   emit, items, result, round, faults>>

----------------------------------------------------------------------------
(* The provider. *)

Called == source \in {"local", "pod"} /\ running

\* The answer is the provider's; the parser sees what has arrived of it.
CallProvider(a) ==
    /\ Called
    /\ http = "none"
    /\ http' = "open"
    /\ said' = a
    /\ UNCHANGED <<format, history, source, recvd, split, parseVars, chan, turnVars, faults>>

\* The request fails, is refused, or times out.
CallFails ==
    /\ Fault
    /\ Called
    /\ http = "none"
    /\ http' = "broken"
    /\ UNCHANGED <<format, history, source, said, recvd, split, parseVars, chan, turnVars>>

\* The response ends, or the connection breaks or times out, after any unit.
ProviderEnds ==
    /\ http = "open"
    /\ \/ recvd = 2 * Len(said) /\ http' = "ended" /\ UNCHANGED faults
       \/ Fault /\ http' \in {"ended", "broken"}
    /\ UNCHANGED <<format, history, source, said, recvd, split, parseVars, chan, turnVars>>

\* A chunk of n units; an event that it ends in the middle of is split.
Chunk(n) ==
    /\ http = "open"
    /\ recvd + n <= 2 * Len(said)
    /\ recvd' = recvd + n
    /\ split' = IF (recvd + n) % 2 = 1 THEN split \cup {(recvd + n + 1) \div 2} ELSE split
    /\ UNCHANGED <<format, history, source, http, said, parseVars, chan, turnVars, faults>>

----------------------------------------------------------------------------
(* The parser and the source. *)

\* A chunk is decoded by itself: a wide character that it ends in is lost.
Text(k) == IF said[k].wide /\ k \in split THEN "?" ELSE said[k].text

TextEvents(k) == IF said[k].text = "" THEN <<>> ELSE <<[kind |-> "text", text |-> Text(k)]>>

ThinkEvents(k) == IF said[k].think THEN <<[kind |-> "think"]>> ELSE <<>>

\* Anthropic starts a call with a block of its own; for OpenAI a fragment starts
\* one the first time its index is met.
CallEvents(k) ==
    LET c == said[k].call
        starts == IF format = "anthropic" THEN c.arg = "" ELSE c.index \notin seen
    IN  (IF c.index # 0 /\ starts THEN <<[kind |-> "start", id |-> c.index]>> ELSE <<>>)
        \o (IF c.index # 0 /\ c.arg # "" THEN <<[kind |-> "input", arg |-> c.arg]>> ELSE <<>>)

\* "stop", "tool_calls" and "length"; any other reason ends the turn too.
FinishEvents(k) ==
    IF said[k].finish = "" THEN <<>> ELSE <<[kind |-> "done", stop |-> said[k].finish]>>

\* parse_sse_event: the delta first, the finish reason of the same event last.
ParseSseEvent(k) == TextEvents(k) \o ThinkEvents(k) \o CallEvents(k) \o FinishEvents(k)

\* parse_sse_stream: an event once its separator is in the buffer.
ParseNext ==
    /\ Called
    /\ pend = <<>>
    /\ 2 * (parsed + 1) <= recvd
    /\ parsed' = parsed + 1
    /\ pend' = ParseSseEvent(parsed + 1)
    /\ seen' = seen \cup ({said[parsed + 1].call.index} \ {0})
    /\ UNCHANGED <<callVars, events, running, chan, turnVars, faults>>

\* Mutant of CollectToolCalls: every fragment goes to the first call.
CollectFirst(evs) ==
    FoldLeft(LAMBDA cs, e :
               CASE e.kind = "start" -> Append(cs, [id |-> e.id, args |-> <<>>])
                 [] e.kind = "input" /\ cs # <<>> -> [cs EXCEPT ![1].args = Append(@, e.arg)]
                 [] OTHER -> cs,
             <<>>, evs)

\* A fragment belongs to the call started last.
AddEvent(cs, e) ==
    CASE e.kind = "start" -> Append(cs, [id |-> e.id, args |-> <<>>])
      [] e.kind = "input" /\ cs # <<>> -> [cs EXCEPT ![Len(cs)].args = Append(@, e.arg)]
      [] OTHER -> cs

CollectToolCalls(evs) ==
    LET collect[n \in 0..Len(evs)] == IF n = 0 THEN <<>> ELSE AddEvent(collect[n - 1], evs[n])
    IN  collect[Len(evs)]

\* The values v[i] for the i of K up to n, in order.
Picked(v, K, n) ==
    LET pick[i \in 0..n] ==
          IF i = 0 THEN <<>> ELSE IF i \in K THEN Append(pick[i - 1], v[i]) ELSE pick[i - 1]
    IN  pick[n]

CollectText(evs) ==
    LET texts == {i \in DOMAIN evs : evs[i].kind = "text"}
    IN  Picked([i \in texts |-> evs[i].text], texts, Len(evs))

AssembleTurnComplete(evs, stop) ==
    [kind |-> "complete", text |-> CollectText(evs), calls |-> CollectToolCalls(evs), stop |-> stop]

\* A local source is pulled one event at a time; the pod runs ahead of the turn.
RoomInChan == Len(chan) < (IF source = "pod" THEN ChanCap ELSE 1)

\* Thinking is not forwarded.
Forwarded(e) == e.kind # "think"

\* next_event of the local source, one turn of run_model_call's loop: every
\* event is kept, and the last one becomes the Complete.  A send to a turn that
\* is gone ends the pod's call.
SourceStep ==
    LET e == Head(pend)
        evs == Append(events, e)
        out == IF e.kind = "done" THEN AssembleTurnComplete(evs, e.stop) ELSE e
    IN  /\ Called
        /\ pend # <<>>
        /\ Forwarded(e) => ~held \/ RoomInChan
        /\ pend' = Tail(pend)
        /\ events' = evs
        /\ chan' = IF held /\ Forwarded(e) THEN Append(chan, out) ELSE chan
        /\ running' = (e.kind # "done" /\ (held \/ ~Forwarded(e)))
        /\ UNCHANGED <<callVars, seen, parsed, turnVars, faults>>

\* Mutant of SourceFails: a response that just ends is waited on.
SourceFailsIfBroken ==
    /\ Called
    /\ pend = <<>>
    /\ http = "broken"
    /\ ~held \/ RoomInChan
    /\ chan' = IF held THEN Append(chan, [kind |-> "error"]) ELSE chan
    /\ running' = FALSE
    /\ UNCHANGED <<callVars, seen, parsed, pend, events, turnVars, faults>>

\* The stream is broken, or at its end with no event that says so; what is left
\* of an unfinished event does not parse.
SourceFails ==
    /\ Called
    /\ pend = <<>>
    /\ \/ http = "broken"
       \/ http = "ended" /\ 2 * (parsed + 1) > recvd
    /\ ~held \/ RoomInChan
    /\ chan' = IF held THEN Append(chan, [kind |-> "error"]) ELSE chan
    /\ running' = FALSE
    /\ UNCHANGED <<callVars, seen, parsed, pend, events, turnVars, faults>>

----------------------------------------------------------------------------
(* The turn: consume_turn_stream_cancellable. *)

Waiting == held /\ result.kind = "none"

Frame(p, i, x) == [phase |-> p, item |-> i, data |-> x]
TextItem(n) == <<"text", n>>
ToolItem(n) == <<"tool", n>>

\* Mutant of StreamItemsFor: the text run is not closed by a tool call.
ItemsKeepText(e) ==
    CASE e.kind = "text" /\ emit.text = 0 ->
           [frames |-> <<Frame("start", TextItem(emit.runs + 1), ""),
                         Frame("delta", TextItem(emit.runs + 1), e.text)>>,
            emit |-> [emit EXCEPT !.runs = @ + 1, !.text = emit.runs + 1]]
      [] e.kind = "text" /\ emit.text # 0 ->
           [frames |-> <<Frame("delta", TextItem(emit.text), e.text)>>, emit |-> emit]
      [] e.kind = "start" ->
           [frames |-> <<Frame("start", ToolItem(e.id), "")>>, emit |-> [emit EXCEPT !.tool = e.id]]
      [] e.kind = "input" /\ emit.tool # 0 ->
           [frames |-> <<Frame("delta", ToolItem(emit.tool), e.arg)>>, emit |-> emit]
      [] OTHER -> [frames |-> <<>>, emit |-> emit]

\* The first text opens a run, a tool call closes it and opens its own item.
StreamItemsFor(e) ==
    CASE e.kind = "text" /\ emit.text = 0 ->
           [frames |-> <<Frame("start", TextItem(emit.runs + 1), ""),
                         Frame("delta", TextItem(emit.runs + 1), e.text)>>,
            emit |-> [emit EXCEPT !.runs = @ + 1, !.text = emit.runs + 1]]
      [] e.kind = "text" /\ emit.text # 0 ->
           [frames |-> <<Frame("delta", TextItem(emit.text), e.text)>>, emit |-> emit]
      [] e.kind = "start" ->
           [frames |-> (IF emit.text = 0 THEN <<>> ELSE <<Frame("stop", TextItem(emit.text), "")>>)
                       \o <<Frame("start", ToolItem(e.id), "")>>,
            emit |-> [emit EXCEPT !.text = 0, !.tool = e.id]]
      [] e.kind = "input" /\ emit.tool # 0 ->
           [frames |-> <<Frame("delta", ToolItem(emit.tool), e.arg)>>, emit |-> emit]
      [] OTHER -> [frames |-> <<>>, emit |-> emit]

\* A progress event is shown and read over; Complete and Error end the round.
NextEvent ==
    LET e == Head(chan)
        s == StreamItemsFor(e)
    IN  /\ Waiting
        /\ ~cancelled
        /\ chan # <<>>
        /\ chan' = Tail(chan)
        /\ items' = items \o s.frames
        /\ emit' = s.emit
        /\ result' = CASE e.kind = "complete" -> e
                       [] e.kind = "error" -> [kind |-> "ended"]
                       [] OTHER -> result
        /\ UNCHANGED <<callVars, parseVars, held, cancelled, round, faults>>

\* The pod dies or its connection breaks, and the last events with it.
PodLost ==
    /\ Fault
    /\ source = "pod"
    /\ running \/ chan # <<>>
    /\ running' = FALSE
    /\ \E n \in 0..Len(chan) : chan' = SubSeq(chan, 1, n)
    /\ UNCHANGED <<callVars, seen, parsed, pend, events, turnVars>>

\* The source's stream ends with no Complete, or with an error.
StreamEndsEarly ==
    /\ Waiting
    /\ ~cancelled
    /\ chan = <<>>
    /\ source # "none" /\ ~running
    /\ result' = [kind |-> "ended"]
    /\ UNCHANGED <<callVars, parseVars, chan, held, cancelled, emit, items, round, faults>>

\* Nothing came for the idle gap.
IdleTimeout ==
    /\ Fault
    /\ Waiting
    /\ ~cancelled
    /\ chan = <<>>
    /\ result' = [kind |-> "ended"]
    /\ UNCHANGED <<callVars, parseVars, chan, held, cancelled, emit, items, round>>

CancelTurn ==
    /\ ~cancelled
    /\ result.kind = "none"
    /\ cancelled' = TRUE
    /\ UNCHANGED <<callVars, parseVars, chan, held, emit, items, result, round, faults>>

StreamCancelled ==
    /\ Waiting
    /\ cancelled
    /\ result' = [kind |-> "cancelled"]
    /\ UNCHANGED <<callVars, parseVars, chan, held, cancelled, emit, items, round, faults>>

\* The source is dropped with the round: a local call is over, a pod notices
\* when it next sends.
DropSource ==
    /\ held
    /\ result.kind # "none"
    /\ held' = FALSE
    /\ chan' = <<>>
    /\ running' = (running /\ source = "pod")
    /\ UNCHANGED <<callVars, seen, parsed, pend, events, cancelled, emit, items, result, round,
                   faults>>

\* The tools have run and the loop calls the model again, with everything
\* resent.  The pod of the last round has exited by then.
NextRound ==
    /\ ~held /\ ~running
    /\ result.kind = "complete"
    /\ result.stop = "tool_calls" /\ result.calls # <<>>
    /\ ~cancelled
    /\ round < MaxRounds
    /\ round' = round + 1
    /\ history' = history \o <<Assistant(Len(result.calls))>> \o [i \in DOMAIN result.calls |-> ToolResult]
    /\ source' = "none" /\ http' = "none" /\ said' = <<>> /\ recvd' = 0 /\ split' = {}
    /\ seen' = {} /\ parsed' = 0 /\ pend' = <<>> /\ events' = <<>>
    /\ result' = NoResult
    /\ UNCHANGED <<format, running, chan, held, cancelled, emit, items, faults>>

----------------------------------------------------------------------------
Provider ==
    \/ \E a \in Answers[format] : CallProvider(a)
    \/ \E n \in 1..(2 * Len(said)) : Chunk(n)
    \/ CallFails \/ ProviderEnds

Source == ParseNext \/ SourceStep \/ SourceFails
Turn == NextEvent \/ StreamEndsEarly \/ IdleTimeout \/ StreamCancelled \/ DropSource

InferenceNext ==
    \/ OpenError \/ OpenSource("local") \/ OpenSource("pod")
    \/ Provider \/ Source \/ Turn
    \/ PodLost \/ CancelTurn \/ NextRound

InferenceSpec == InferenceInit /\ [][InferenceNext]_inferenceVars

\* The provider's client has timeouts, so a call comes back and a response goes
\* on or ends; the source's and the turn's tasks run.
FairInferenceSpec ==
    InferenceSpec /\ WF_inferenceVars(Provider) /\ WF_inferenceVars(Source) /\ WF_inferenceVars(Turn)

----------------------------------------------------------------------------
\* What the provider said, up to its finish: the reference for the result.
Fragments(i) ==
    LET mine == {k \in DOMAIN said : said[k].call.index = i /\ said[k].call.arg # ""}
    IN  Picked([k \in mine |-> said[k].call.arg], mine, Len(said))

Spoken ==
    LET speaking == {k \in DOMAIN said : said[k].text # ""}
    IN  Picked([k \in speaking |-> said[k].text], speaking, Len(said))

\* The fragments of a call come together.
InOrder ==
    \A i, j, k \in DOMAIN said :
        i < j /\ j < k /\ said[i].call.index = said[k].call.index /\ said[j].call.index # 0
            => said[i].call.index \in {0, said[j].call.index}

\* A round that completes has everything the provider said, however the answer
\* was cut into chunks and whoever made the call: all the text in order, and
\* each call once with its own arguments.  Two things are lost, a wide
\* character cut in two and the owner of arguments that come interleaved
\* (parse_sse_event, collect_tool_calls, assemble_turn_complete).
TurnIsWhole ==
    result.kind = "complete" =>
        /\ Len(result.text) = Len(Spoken)
        /\ \A i \in DOMAIN said : said[i].wide => i \in split \/ said[i].text \in ToSet(result.text)
        /\ InOrder => \A c \in ToSet(result.calls) : c.args = Fragments(c.id)
        /\ {c.id : c \in ToSet(result.calls)} = {said[i].call.index : i \in DOMAIN said} \ {0}
        /\ parsed = Len(said)

\* Over all the rounds of a turn every frame the client gets belongs to an item
\* that was started before it and was not stopped, and no text run stays open
\* beside a tool call (stream_items_for, one EmitState for the loop).
ItemsNest ==
    \A i \in DOMAIN items :
        /\ items[i].phase # "start" =>
             \E j \in 1..(i - 1) :
                /\ items[j] = Frame("start", items[i].item, "")
                /\ \A k \in (j + 1)..(i - 1) : items[k] # Frame("stop", items[i].item, "")
                /\ items[i].phase = "delta" /\ items[i].item[1] = "text" =>
                     \A k \in (j + 1)..(i - 1) : items[k].phase = "start" => items[k].item[1] = "text"

\* The provider is sent every result of a round together, right after the calls
\* they answer; for Anthropic in one message (build_api_messages).
ResultsTogether ==
    LET ms == BuildApiMessages(history)
    IN  \A i \in DOMAIN ms :
          LET calls == ms[i].parts[1].calls
          IN  format = "anthropic" /\ calls > 0 =>
                i < Len(ms) /\ ms[i + 1].role = "tool" /\ Len(ms[i + 1].parts) = calls

\* Whatever happens to the turn, the call made for it ends: a cancelled or
\* timed-out turn leaves no pod calling the provider for ever.
CallEnds == running ~> ~running
=============================================================================
