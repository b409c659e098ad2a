------------------------- MODULE CallSession_proofs -------------------------
(***************************************************************************)
(* Theorems about CallSession, for every set of calls and await streams,   *)
(* every capacity and every bound.                                         *)
(***************************************************************************)
EXTENDS CallSession, SequenceTheorems, TLAPS

----------------------------------------------------------------------------
(* The inductive invariant *)

Increasing(s) == \A i, j \in 1..Len(s) : i < j => s[i] < s[j]

\* Nothing more is received for the call.
Drained(c) == cpc[c] \in {"retain", "retire", "done"} \/ (cpc[c] = "crashed" /\ c \notin lost)

\* The frames of a call: a terminal is the last one, of a call whose pod is done, and
\* such a call has one unless it was lost.
Frames ==
    \A c \in Calls :
        /\ src[c] = "none" => made[c] = <<>> /\ cpc[c] = "none" /\ taken[c] = 0 /\ c \notin named
        /\ src[c] = "runtime" /\ pod[c] = "running" => made[c] = <<>>
        /\ \A i \in 1..Len(made[c]) : i < Len(made[c]) \/ pod[c] # "closed" => made[c][i] \notin Terminals
        /\ pod[c] = "closed" => IsTerminal(c, Len(made[c])) \/ c \in lost \cup dropped

\* How far a call's consumer is.
Consumers ==
    \A c \in Calls :
        /\ pub[c] <= taken[c] /\ taken[c] <= Len(made[c])
        /\ cpc[c] = "append" => taken[c] > 0
        /\ cpc[c] \in {"recv", "retain", "retire", "done"} /\ src[c] # "turn" => pub[c] = taken[c]
        /\ cpc[c] = "publish" => src[c] # "turn"
        /\ Drained(c) => taken[c] = Len(made[c]) /\ pod[c] = "closed"
        /\ src[c] \in {"toolset", "runtime"} /\ c \notin live => cpc[c] \in {"done", "crashed"}
        /\ c \in known => src[c] \in {"toolset", "runtime"}

\* Frame i of call c has been offered to the record.
Offered(c, i) == i \in 1..taken[c] /\ (cpc[c] = "append" => i < taken[c])

\* The record of a call: frames it was offered, in order, and all of them but the
\* images unless one was lost.
Records ==
    /\ \A c \in Calls :
         /\ Increasing(log[c])
         /\ \A i \in 1..Len(log[c]) : Offered(c, log[c][i]) /\ made[c][log[c][i]] # "image"
         /\ c \in named \ lost =>
              \A k \in 1..taken[c] : Offered(c, k) /\ made[c][k] # "image"
                                       => \E i \in 1..Len(log[c]) : log[c][i] = k
    /\ tail = "unended" => ends \in lost

\* What an await stream is sent, the frames its client has not read included.
Line(a) == got[a] \o out[a]

\* Frame i of the call of await stream a is there, and is no terminal.
Plain(a, i) == i \in 1..Len(made[target[a]]) /\ made[target[a]][i] \notin Terminals

\* Something of the call of await stream a was lost to it.
Excused(a) == a \in lagged \/ target[a] \in lost \cup dropped

\* An await stream up to its first frame.
Opening(a) ==
    /\ apc[a] = "idle" => target[a] = None
    /\ apc[a] # "idle" => target[a] \in Calls /\ src[target[a]] \in {"toolset", "runtime"}
    /\ apc[a] \in {"idle", "asked", "found", "gone"} => mode[a] = "none" /\ nxt[a] = 1
    /\ apc[a] \in {"stream", "closing", "sent"} => mode[a] # "none"
    /\ mode[a] = "none" => got[a] = <<>> /\ out[a] = <<>>
    /\ apc[a] = "gone" => target[a] \notin live
    /\ apc[a] = "notfound" => target[a] \notin named \ (lost \cup dropped)

\* The frames of an await stream: in order, none skipped if it is live, and only the
\* last is a terminal, its call's or one that is made up for a reason.
Lines(a) ==
    /\ \A i \in 1..Len(Line(a)) :
         /\ Line(a)[i] = 0 \/ Line(a)[i] \in 1..Len(made[target[a]])
         /\ Line(a)[i] = 0 => Excused(a)
         /\ Line(a)[i] # 0 /\ mode[a] = "live" => Line(a)[i] = i
    /\ \A i, j \in 1..Len(Line(a)) :
         i < j => Plain(a, Line(a)[i]) /\ (Line(a)[j] = 0 \/ Line(a)[i] < Line(a)[j])
    /\ apc[a] \in {"stream", "closing"} => \A i \in 1..Len(Line(a)) : Plain(a, Line(a)[i])

\* Where the task of an await stream is.
Task(a) ==
    /\ apc[a] = "closing" => Excused(a)
    /\ apc[a] = "stream" => Len(Line(a)) = nxt[a] - 1
    /\ apc[a] = "stream" /\ mode[a] = "record" =>
         /\ nxt[a] <= Len(rec[a])
         /\ Increasing(rec[a])
         /\ \A i \in 1..Len(rec[a]) : rec[a][i] \in 1..Len(made[target[a]])
         /\ \A i \in 1..Len(Line(a)) : Line(a)[i] = rec[a][i]
         /\ IsTerminal(target[a], rec[a][Len(rec[a])]) \/ target[a] \in lost \cup dropped

Streams == \A a \in Awaiters : Opening(a) /\ Lines(a) /\ Task(a)

Inv == TypeOK /\ Frames /\ Consumers /\ Records /\ Streams

----------------------------------------------------------------------------
(* What the steps of the calls do *)

\* The types of what a step leaves alone.
LEMMA SameTypes ==
    ASSUME TypeOK
    PROVE  /\ UNCHANGED <<callVars, sessVars, known, result, lost, dropped>> => CallTypeOK'
           /\ UNCHANGED <<logVars, faults>> => RecordTypeOK'
           /\ UNCHANGED logVars /\ Fault => RecordTypeOK'
           /\ UNCHANGED <<awaitVars, lagged>> => AwaitTypeOK'
<1> USE DEF TypeOK
<1>1. UNCHANGED <<callVars, sessVars, known, result, lost, dropped>> => CallTypeOK'
  BY DEF CallTypeOK, callVars, sessVars
<1>2. UNCHANGED <<logVars, faults>> => RecordTypeOK'
  BY DEF RecordTypeOK, logVars
<1>3. UNCHANGED logVars /\ Fault => RecordTypeOK'
  BY DEF RecordTypeOK, logVars, Fault
<1>4. UNCHANGED <<awaitVars, lagged>> => AwaitTypeOK'
  BY DEF AwaitTypeOK, awaitVars
<1> QED
  BY <1>1, <1>2, <1>3, <1>4

\* Dispatch, the pods and the consumers keep the types.
LEMMA CallTypes ==
    ASSUME Inv
    PROVE  /\ (\E i \in Inputs : DispatchTool(i[1], i[2], i[3])) => TypeOK'
           /\ \A c \in Calls :
                /\ \/ RecordDispatchedCall(c) \/ PodBreaks(c) \/ CancelTool(c) \/ TurnCancelled(c)
                   \/ RecvFrame(c) \/ Publish(c) \/ RecvEnds(c) \/ Retire(c)
                   => TypeOK'
                /\ (\E k \in FrameKinds : PodFrame(c, k)) => TypeOK'
                /\ (\E b \in Blocks(c), e \in BOOLEAN : RuntimeReturns(c, b, e)) => TypeOK'
<1>0. TypeOK /\ CallTypeOK
  BY DEF Inv, TypeOK
<1>00. ASSUME UNCHANGED <<logVars, awaitVars, lagged>>, faults' = faults \/ Fault, CallTypeOK'
       PROVE  TypeOK'
  BY <1>0, <1>00, SameTypes DEF TypeOK
<1> USE DEF CallTypeOK, callVars, sessVars, histVars
<1>1. ASSUME NEW i \in Inputs, DispatchTool(i[1], i[2], i[3]) PROVE TypeOK'
  <2>1. i[1] \in Calls /\ i[2] \in {"toolset", "runtime", "turn"}
    BY InputsAssumption
  <2> QED
    BY <1>0, <1>00, <1>1, <2>1 DEF DispatchTool
<1>2. ASSUME NEW c \in Calls, RecordDispatchedCall(c) PROVE TypeOK'
  BY <1>0, <1>00, <1>2 DEF RecordDispatchedCall
<1>3. ASSUME NEW c \in Calls, PodBreaks(c) PROVE TypeOK'
  <2>1. Append(made[c], "failed") \in Seq(Kinds)
    BY <1>0, AppendProperties DEF Kinds, Terminals
  <2>2. made' \in [Calls -> Seq(Kinds)]
    BY <1>0, <1>3, <2>1 DEF PodBreaks
  <2> QED
    BY <1>0, <1>00, <1>3, <2>2 DEF PodBreaks
<1>4. ASSUME NEW c \in Calls, CancelTool(c) PROVE TypeOK'
  BY <1>0, <1>00, <1>4 DEF CancelTool
<1>5. ASSUME NEW c \in Calls, TurnCancelled(c) PROVE TypeOK'
  BY <1>0, <1>00, <1>5 DEF TurnCancelled
<1>6. ASSUME NEW c \in Calls, RecvFrame(c) PROVE TypeOK'
  BY <1>0, <1>00, <1>6 DEF RecvFrame
<1>7. ASSUME NEW c \in Calls, Publish(c) PROVE TypeOK'
  BY <1>0, <1>00, <1>7 DEF Publish
<1>8. ASSUME NEW c \in Calls, RecvEnds(c) PROVE TypeOK'
  <2>1. AssembleFromFrames(c) \in {"ok", "error"}
    BY DEF AssembleFromFrames
  <2>2. src[c] \in {"toolset", "runtime", "turn"}
    BY <1>0, <1>8 DEF RecvEnds, Inv, Frames
  <2>3. \/ cpc' = [cpc EXCEPT ![c] = "retire"] /\ result' = result
        \/ cpc' = [cpc EXCEPT ![c] = "retain"] /\ result' = result
        \/ TurnResult(c)
    BY <1>8, <2>2 DEF RecvEnds
  <2>5. /\ cpc' \in [Calls -> {"none", "recv", "append", "publish", "retain", "retire", "done",
                               "crashed"}]
        /\ result' \in [Calls -> {"none", "ok", "error", "cancelled"}]
    <3> HIDE DEF CallTypeOK
    <3>1. /\ cpc \in [Calls -> {"none", "recv", "append", "publish", "retain", "retire", "done",
                                 "crashed"}]
          /\ result \in [Calls -> {"none", "ok", "error", "cancelled"}]
      BY <1>0 DEF CallTypeOK
    <3> QED
      BY <2>1, <2>3, <3>1 DEF TurnResult
  <2>4. CallTypeOK'
    BY <1>0, <1>8, <2>5 DEF RecvEnds
  <2> QED
    BY <1>00, <1>8, <2>4 DEF RecvEnds
<1>9. ASSUME NEW c \in Calls, Retire(c) PROVE TypeOK'
  BY <1>0, <1>00, <1>9 DEF Retire
<1>10. ASSUME NEW c \in Calls, NEW k \in FrameKinds, PodFrame(c, k) PROVE TypeOK'
  <2>1. Append(made[c], k) \in Seq(Kinds)
    BY <1>0, AppendProperties, KindsAssumption
  <2>2. made' \in [Calls -> Seq(Kinds)]
    BY <1>0, <1>10, <2>1 DEF PodFrame
  <2> QED
    BY <1>0, <1>00, <1>10, <2>2 DEF PodFrame
<1>11. ASSUME NEW c \in Calls, NEW b \in Blocks(c), NEW e \in BOOLEAN, RuntimeReturns(c, b, e)
       PROVE  TypeOK'
  <2>1. b \in Seq(Kinds)
    <3>1. PICK n \in 0..MaxFrames[c] : b \in [1..n -> {"text", "image"}]
      BY <1>11 DEF Blocks
    <3>2. n \in Nat /\ b \in [1..n -> Kinds]
      BY <3>1, BoundsAssumption DEF Kinds
    <3> QED
      BY <3>2, LenProperties
  <2>2. FramesFromResponse(b, e) \in Seq(Kinds)
    BY <2>1, AppendProperties DEF FramesFromResponse, Kinds, Terminals
  <2>3. made' \in [Calls -> Seq(Kinds)]
    BY <1>0, <1>11, <2>2 DEF RuntimeReturns
  <2> QED
    BY <1>0, <1>00, <1>11, <2>3 DEF RuntimeReturns
<1> QED
  BY <1>1, <1>2, <1>3, <1>4, <1>5, <1>6, <1>7, <1>8, <1>9, <1>10, <1>11

\* Front of a record.
LEMMA FrontFacts ==
    ASSUME NEW S, NEW s \in Seq(S)
    PROVE  /\ Front(s) \in Seq(S)
           /\ Len(Front(s)) <= Len(s)
           /\ \A i \in 1..Len(Front(s)) : i \in 1..Len(s) /\ Front(s)[i] = s[i]
<1>1. \A i \in 1..(Len(s) - 1) : s[i] \in S
  BY ElementOfSeq, LenProperties
<1>2. CASE s = <<>>
  <2>1. Len(s) = 0
    BY <1>2
  <2>2. Front(s) = <<>>
    BY <2>1, SubSeqEmpty DEF Front
  <2> QED
    BY <2>1, <2>2, EmptySeq
<1>3. CASE s # <<>>
  <2>1. Len(s) \in Nat \ {0}
    BY <1>3, EmptySeq, LenProperties
  <2> QED
    BY <1>1, <2>1, SubSeqProperties DEF Front
<1> QED
  BY <1>2, <1>3

\* The file never holds anything but frame numbers.
LEMMA FileTypes ==
    ASSUME TypeOK
    PROVE  /\ Spoilt \in [Calls -> Seq(Nat)]
           /\ \A c \in Calls, i \in Nat : Appended(c, i) \in [Calls -> Seq(Nat)]
<1>0. RecordTypeOK
  BY DEF TypeOK
<1>1. Spoilt \in [Calls -> Seq(Nat)]
  <2>1. ASSUME tail = "unended" PROVE Front(log[ends]) \in Seq(Nat)
    BY <1>0, <2>1, FrontFacts DEF RecordTypeOK
  <2> QED
    BY <1>0, <2>1 DEF RecordTypeOK, Spoilt
<1>2. ASSUME NEW c \in Calls, NEW i \in Nat PROVE Appended(c, i) \in [Calls -> Seq(Nat)]
  <2>1. Append(log[c], i) \in Seq(Nat)
    BY <1>0, AppendProperties DEF RecordTypeOK
  <2> QED
    BY <1>0, <1>1, <2>1 DEF RecordTypeOK, Appended
<1> QED
  BY <1>1, <1>2

\* Writing the record keeps the types.
LEMMA WriteTypes ==
    ASSUME Inv
    PROVE  /\ (\E c \in Calls : AppendFrame(c) \/ AppendFrameFails(c)) => TypeOK'
           /\ DeleteConversation \/ HarnessRestart \/ RelayRestart => TypeOK'
<1>0. /\ TypeOK /\ CallTypeOK /\ RecordTypeOK /\ AwaitTypeOK
      /\ \A c \in Calls : taken[c] \in Nat /\ Appended(c, taken[c]) \in [Calls -> Seq(Nat)]
      /\ Spoilt \in [Calls -> Seq(Nat)] /\ <<>> \in Seq(Nat)
  BY FileTypes, EmptySeq DEF Inv, TypeOK, CallTypeOK
<1>00. ASSUME NEW c \in Calls,
              AfterAppend(c), UNCHANGED <<callVars, taken, live, pub, known, dropped>>,
              lost' \subseteq lost \cup {c} \cup Spoils(c)
       PROVE  CallTypeOK'
  <2>1. AssembleFromFrames(c) \in {"ok", "error"} /\ Spoils(c) \subseteq Calls
    BY <1>0 DEF AssembleFromFrames, Spoils, RecordTypeOK
  <2>2. cpc' = [cpc EXCEPT ![c] = cpc'[c]] /\ cpc'[c] \in {"recv", "publish", "done"}
    BY <1>0, <1>00 DEF AfterAppend, TurnResult, CallTypeOK
  <2>3. result' = result \/ result' = [result EXCEPT ![c] = AssembleFromFrames(c)]
    BY <1>00 DEF AfterAppend, TurnResult
  <2>4. /\ cpc' \in [Calls -> {"none", "recv", "append", "publish", "retain", "retire", "done",
                               "crashed"}]
        /\ result' \in [Calls -> {"none", "ok", "error", "cancelled"}]
    <3>1. /\ cpc \in [Calls -> {"none", "recv", "append", "publish", "retain", "retire", "done",
                                 "crashed"}]
          /\ result \in [Calls -> {"none", "ok", "error", "cancelled"}]
      BY <1>0 DEF CallTypeOK
    <3> QED
      BY <2>1, <2>2, <2>3, <3>1
  <2>5. lost' \subseteq Calls
    BY <1>0, <1>00, <2>1 DEF CallTypeOK
  <2> QED
    BY <1>0, <1>00, <2>4, <2>5 DEF CallTypeOK, callVars
<1>1. ASSUME NEW c \in Calls, AppendFrame(c) PROVE TypeOK'
  <2>1. CallTypeOK'
    BY <1>00, <1>1 DEF AppendFrame
  <2>2. RecordTypeOK'
    BY <1>0, <1>1 DEF AppendFrame, RecordTypeOK
  <2> QED
    BY <1>0, <1>1, <2>1, <2>2, SameTypes DEF AppendFrame, TypeOK
<1>2. ASSUME NEW c \in Calls, AppendFrameFails(c) PROVE TypeOK'
  <2>1. CallTypeOK'
    BY <1>00, <1>2 DEF AppendFrameFails
  <2>2. RecordTypeOK'
    BY <1>0, <1>2 DEF AppendFrameFails, RecordTypeOK, Fault
  <2> QED
    BY <1>0, <1>2, <2>1, <2>2, SameTypes DEF AppendFrameFails, TypeOK
<1>3. CASE DeleteConversation
  <2>1. CallTypeOK'
    BY <1>0, <1>3 DEF DeleteConversation, CallTypeOK, callVars, sessVars
  <2>2. RecordTypeOK'
    <3>1. log' = [c \in Calls |-> <<>>] /\ tail' = "clean" /\ faults' = faults + 1
      BY <1>3 DEF DeleteConversation, Fault
    <3>2. owned' \in BOOLEAN
      BY <1>3, Zenon DEF DeleteConversation
    <3> QED
      BY <1>0, <3>1, <3>2 DEF RecordTypeOK
  <2> QED
    BY <1>0, <1>3, <2>1, <2>2, SameTypes DEF DeleteConversation, TypeOK
<1>4. ASSUME CutStreams, UNCHANGED <<target, mode, snap, nxt, rec, got, lagged>> PROVE AwaitTypeOK'
  BY <1>0, <1>4 DEF CutStreams, AwaitTypeOK
<1>5. CASE HarnessRestart
  <2>1. CallTypeOK'
    BY <1>0, <1>5 DEF HarnessRestart, CallTypeOK, RecordTypeOK
  <2>2. RecordTypeOK'
    <3>1. \/ UNCHANGED <<log, tail, ends>>
          \/ log' = Spoilt /\ tail' = "partial" /\ ends' = ends
          \/ \E c \in Calls : log' = Appended(c, taken[c]) /\ tail' = "unended" /\ ends' = c
      BY <1>5 DEF HarnessRestart
    <3>2. owned' = owned /\ faults' = faults + 1
      BY <1>5 DEF HarnessRestart, Fault
    <3> QED
      BY <1>0, <3>1, <3>2 DEF RecordTypeOK
  <2> QED
    BY <1>4, <1>5, <2>1, <2>2 DEF HarnessRestart, TypeOK
<1>6. CASE RelayRestart
  <2>1. CallTypeOK'
    BY <1>0, <1>6 DEF RelayRestart, CallTypeOK, callVars, sessVars, histVars
  <2> QED
    BY <1>0, <1>4, <1>6, <2>1, SameTypes DEF RelayRestart, TypeOK, histVars
<1> QED
  BY <1>1, <1>2, <1>3, <1>5, <1>6

\* The await streams keep the types.
LEMMA AwaitTypes ==
    ASSUME Inv, NEW a \in Awaiters
    PROVE  /\ AwaitStep(a) \/ ClientReads(a) \/ Leave(a) => TypeOK'
           /\ (\E c \in Calls : AwaitToolResult(a, c)) => TypeOK'
<1>0. TypeOK /\ AwaitTypeOK /\ CallTypeOK /\ RecordTypeOK
  BY DEF Inv, TypeOK
<1>00. ASSUME UNCHANGED <<callVars, sessVars, known, result, lost, dropped, logVars>>,
              faults' = faults \/ Fault, AwaitTypeOK'
       PROVE  TypeOK'
  BY <1>0, <1>00, SameTypes DEF TypeOK
<1> USE DEF AwaitTypeOK, awaitVars, histVars
<1>1. ASSUME NEW i \in Nat, Send(a, i) PROVE out' \in [Awaiters -> Seq(Nat)]
  <2>1. Append(out[a], i) \in Seq(Nat)
    BY <1>0, AppendProperties
  <2> QED
    BY <1>0, <1>1, <2>1 DEF Send
<1>2. apc[a] # "idle" => target[a] \in Calls
  BY DEF Inv, Streams, Opening
<1>3. ASSUME NEW c \in Calls, AwaitToolResult(a, c) PROVE TypeOK'
  BY <1>0, <1>00, <1>3 DEF AwaitToolResult
<1>4. CASE Lookup(a)
  BY <1>0, <1>00, <1>4 DEF Lookup
<1>5. CASE Subscribe(a)
  <2>1. pub[target[a]] \in Nat
    BY <1>0, <1>2, <1>5 DEF Subscribe, CallTypeOK
  <2> QED
    BY <1>0, <1>00, <1>5, <2>1 DEF Subscribe
<1>6. CASE ReadRecord(a)
  <2>1. Persisted(target[a]) \in Seq(Nat)
    BY <1>0, <1>2, <1>6 DEF ReadRecord, RecordTypeOK, Persisted
  <2>3. \/ apc' = [apc EXCEPT ![a] = "notfound"] /\ UNCHANGED <<rec, mode>>
        \/ /\ rec' = [rec EXCEPT ![a] = Persisted(target[a])]
           /\ mode' = [mode EXCEPT ![a] = "record"]
           /\ apc' = [apc EXCEPT ![a] = "stream"]
    BY <1>6 DEF ReadRecord
  <2>2. AwaitTypeOK'
    <3>1. rec' \in [Awaiters -> Seq(Nat)]
      <4>1. rec \in [Awaiters -> Seq(Nat)]
        BY <1>0
      <4> QED
        BY <2>1, <2>3, <4>1
    <3>2. \E p \in {"notfound", "stream"} : apc' = [apc EXCEPT ![a] = p]
      BY <2>3
    <3>3. mode' = mode \/ mode' = [mode EXCEPT ![a] = "record"]
      BY <2>3
    <3>4. UNCHANGED <<target, snap, nxt, out, got, lagged>>
      BY <1>6 DEF ReadRecord
    <3> QED
      BY <1>0, <3>1, <3>2, <3>3, <3>4
  <2> QED
    BY <1>00, <1>6, <2>2 DEF ReadRecord
<1>7. CASE FollowSession(a)
  <2>1. nxt[a] \in Nat /\ nxt[a] + 1 \in Nat \ {0}
    BY <1>0
  <2>2. out' \in [Awaiters -> Seq(Nat)]
    BY <1>1, <1>7, <2>1 DEF FollowSession
  <2> QED
    BY <1>0, <1>00, <1>7, <2>1, <2>2 DEF FollowSession
<1>8. CASE Lag(a)
  BY <1>0, <1>00, <1>8 DEF Lag
<1>9. CASE SenderGone(a)
  BY <1>0, <1>00, <1>9 DEF SenderGone
<1>10. CASE ReplayRecord(a)
  <2>1. nxt[a] \in 1..Len(rec[a]) /\ nxt[a] + 1 \in Nat \ {0}
    BY <1>0, <1>10, LenProperties DEF ReplayRecord
  <2>2. rec[a][nxt[a]] \in Nat
    BY <1>0, <2>1, ElementOfSeq
  <2>3. out' \in [Awaiters -> Seq(Nat)]
    BY <1>1, <1>10, <2>2 DEF ReplayRecord
  <2>4. \E p \in {"stream", "sent", "closing"} : apc' = [apc EXCEPT ![a] = p]
    BY <1>10 DEF ReplayRecord
  <2> QED
    BY <1>0, <1>00, <1>10, <2>1, <2>3, <2>4 DEF ReplayRecord
<1>11. CASE FailedTerminal(a)
  <2>1. out' \in [Awaiters -> Seq(Nat)]
    BY <1>1, <1>11 DEF FailedTerminal
  <2> QED
    BY <1>0, <1>00, <1>11, <2>1 DEF FailedTerminal
<1>12. CASE ClientReads(a)
  <2>1. Head(out[a]) \in Nat /\ Tail(out[a]) \in Seq(Nat)
    BY <1>0, <1>12, HeadTailProperties DEF ClientReads
  <2>2. Append(got[a], Head(out[a])) \in Seq(Nat)
    BY <1>0, <2>1, AppendProperties
  <2>3. got' \in [Awaiters -> Seq(Nat)] /\ out' \in [Awaiters -> Seq(Nat)]
    BY <1>0, <1>12, <2>1, <2>2 DEF ClientReads
  <2> QED
    BY <1>0, <1>00, <1>12, <2>3 DEF ClientReads
<1>13. CASE Leave(a)
  <2>1. <<>> \in Seq(Nat)
    BY EmptySeq
  <2> QED
    BY <1>0, <1>00, <1>13, <2>1 DEF Leave
<1> QED
  BY <1>3, <1>4, <1>5, <1>6, <1>7, <1>8, <1>9, <1>10, <1>11, <1>12, <1>13 DEF AwaitStep

\* A frame is added to a call.
LEMMA AddsFacts ==
    ASSUME TypeOK, NEW c \in Calls, NEW k \in Kinds, made' = [made EXCEPT ![c] = Append(@, k)]
    PROVE  /\ Len(made[c]) \in Nat /\ Len(made'[c]) = Len(made[c]) + 1
           /\ \A i \in 1..Len(made[c]) : made'[c][i] = made[c][i]
           /\ made'[c][Len(made[c]) + 1] = k
           /\ \A d \in Calls \ {c} : made'[d] = made[d]
<1>1. made[c] \in Seq(Kinds) /\ made'[c] = Append(made[c], k)
  BY DEF TypeOK, CallTypeOK
<1>2. \A d \in Calls \ {c} : made'[d] = made[d]
  BY DEF TypeOK, CallTypeOK
<1> QED
  BY <1>1, <1>2, AppendProperties, LenProperties

\* The frames of an answer: the blocks and its terminal.
LEMMA ResponseFacts ==
    ASSUME NEW c \in Calls, NEW b \in Blocks(c), NEW e \in BOOLEAN
    PROVE  LET f == FramesFromResponse(b, e) IN
           /\ f \in Seq(Kinds) /\ Len(f) \in Nat \ {0}
           /\ \A i \in 1..(Len(f) - 1) : f[i] \in Kinds \ Terminals
           /\ f[Len(f)] \in Terminals
<1>1. PICK n \in 0..MaxFrames[c] : b \in [1..n -> {"text", "image"}]
  BY DEF Blocks
<1>2. n \in Nat /\ b \in [1..n -> Kinds] /\ \A i \in 1..n : b[i] \in Kinds \ Terminals
  BY <1>1, BoundsAssumption DEF Kinds, Terminals
<1>3. b \in Seq(Kinds) /\ Len(b) = n
  BY <1>2, LenProperties
<1> DEFINE k == IF e THEN "failed" ELSE "done"
<1>4. k \in Terminals /\ k \in Kinds
  BY DEF Terminals, Kinds
<1> HIDE DEF k
<1>5. /\ Append(b, k) \in Seq(Kinds)
      /\ Len(Append(b, k)) = Len(b) + 1
      /\ \A i \in 1..Len(b) : Append(b, k)[i] = b[i]
      /\ Append(b, k)[Len(b) + 1] = k
  BY <1>3, <1>4, AppendProperties
<1>6. FramesFromResponse(b, e) = Append(b, k)
  BY DEF FramesFromResponse, k
<1> QED
  BY <1>2, <1>3, <1>4, <1>5, <1>6

\* Steps that leave the frames alone: pods stay as they are, and only a loss is noted.
LEMMA FramesKept ==
    ASSUME Inv, UNCHANGED <<src, named, made, pod>>, lost \subseteq lost', dropped \subseteq dropped',
           \A c \in Calls : src[c] = "none" => cpc'[c] = cpc[c] /\ taken'[c] = taken[c]
    PROVE  Frames'
BY DEF Inv, Frames, IsTerminal

\* A step of a call's consumer is about that call.
LEMMA StaysForOthers ==
    ASSUME Inv, NEW c \in Calls,
           \/ RecordDispatchedCall(c) \/ CancelTool(c) \/ TurnCancelled(c)
           \/ RecvFrame(c) \/ Publish(c) \/ RecvEnds(c) \/ Retire(c)
           \/ AppendFrame(c) \/ AppendFrameFails(c)
    PROVE  \A d \in Calls \ {c} : cpc'[d] = cpc[d] /\ taken'[d] = taken[d] /\ pub'[d] = pub[d]
<1>0. CallTypeOK
  BY DEF Inv, TypeOK
<1>1. CASE RecordDispatchedCall(c) \/ CancelTool(c) \/ TurnCancelled(c)
  BY <1>1 DEF RecordDispatchedCall, CancelTool, TurnCancelled, sessVars
<1>2. CASE RecvFrame(c) \/ Publish(c) \/ Retire(c)
  BY <1>0, <1>2 DEF RecvFrame, Publish, Retire, CallTypeOK
<1>3. CASE RecvEnds(c)
  <2>1. src[c] \in {"toolset", "runtime", "turn"}
    BY <1>0, <1>3 DEF RecvEnds, Inv, Frames, CallTypeOK
  <2>2. \E p \in {"retire", "retain", "done"} : cpc' = [cpc EXCEPT ![c] = p]
    BY <1>3, <2>1 DEF RecvEnds, TurnResult
  <2>3. UNCHANGED <<taken, pub>>
    BY <1>3 DEF RecvEnds
  <2> QED
    BY <1>0, <2>2, <2>3 DEF CallTypeOK
<1>4. CASE AppendFrame(c) \/ AppendFrameFails(c)
  <2>1. AfterAppend(c) /\ UNCHANGED <<taken, pub>>
    BY <1>4 DEF AppendFrame, AppendFrameFails
  <2>2. \E p \in {"recv", "publish", "done"} : cpc' = [cpc EXCEPT ![c] = p]
    BY <2>1 DEF AfterAppend, TurnResult
  <2> QED
    BY <1>0, <2>1, <2>2 DEF CallTypeOK
<1> QED
  BY <1>1, <1>2, <1>3, <1>4

\* Frames' for the steps of the calls.
LEMMA FramesInv ==
    ASSUME Inv
    PROVE  /\ (\E i \in Inputs : DispatchTool(i[1], i[2], i[3])) => Frames'
           /\ \A c \in Calls :
                /\ \/ RecordDispatchedCall(c) \/ PodBreaks(c) \/ CancelTool(c) \/ TurnCancelled(c)
                   \/ RecvFrame(c) \/ Publish(c) \/ RecvEnds(c) \/ Retire(c)
                   \/ AppendFrame(c) \/ AppendFrameFails(c)
                   => Frames'
                /\ (\E k \in FrameKinds : PodFrame(c, k)) => Frames'
                /\ (\E b \in Blocks(c), e \in BOOLEAN : RuntimeReturns(c, b, e)) => Frames'
           /\ DeleteConversation \/ HarnessRestart \/ RelayRestart => Frames'
<1>0. TypeOK /\ CallTypeOK /\ Frames
  BY DEF Inv, TypeOK
<1>1. ASSUME NEW i \in Inputs, DispatchTool(i[1], i[2], i[3]) PROVE Frames'
  <2>1. i[1] \in Calls /\ i[2] \in {"toolset", "runtime", "turn"}
    BY InputsAssumption
  <2>2. UNCHANGED <<made, taken, lost, dropped>>
    BY <1>1 DEF DispatchTool, histVars
  <2>3. made[i[1]] = <<>> /\ Len(made[i[1]]) = 0
    BY <1>0, <1>1, <2>1 DEF DispatchTool, Frames
  <2> QED
    BY <1>0, <1>1, <2>1, <2>2, <2>3 DEF DispatchTool, CallTypeOK, Frames, IsTerminal
<1>2. ASSUME NEW c \in Calls, PodBreaks(c) PROVE Frames'
  <2>1. "failed" \in Kinds /\ "failed" \in Terminals
    BY DEF Kinds, Terminals
  <2>2. /\ UNCHANGED <<src, named, cpc, taken, lost>> /\ pod' = [pod EXCEPT ![c] = "closed"]
        /\ dropped \subseteq dropped' /\ pod[c] = "running" /\ src[c] # "runtime" /\ src[c] # "none"
    BY <1>2 DEF PodBreaks, sessVars
  <2>3. CASE Room(c)
    <3>1. made' = [made EXCEPT ![c] = Append(@, "failed")]
      BY <1>2, <2>3 DEF PodBreaks
    <3> QED
      BY <1>0, <2>1, <2>2, <3>1, AddsFacts DEF Frames, CallTypeOK, IsTerminal
  <2>4. CASE ~Room(c)
    <3>1. made' = made /\ c \in dropped'
      BY <1>2, <2>4 DEF PodBreaks
    <3> QED
      BY <1>0, <2>2, <3>1 DEF Frames, CallTypeOK, IsTerminal
  <2> QED
    BY <2>3, <2>4
<1>3. ASSUME NEW c \in Calls, NEW k \in FrameKinds, PodFrame(c, k) PROVE Frames'
  <2>1. k \in Kinds
    BY KindsAssumption
  <2>2. /\ UNCHANGED <<src, named, cpc, taken, lost, dropped>>
        /\ made' = [made EXCEPT ![c] = Append(@, k)]
        /\ pod' = IF k \in Terminals THEN [pod EXCEPT ![c] = "closed"] ELSE pod
        /\ pod[c] = "running" /\ src[c] # "runtime" /\ src[c] # "none"
    BY <1>3 DEF PodFrame, sessVars, histVars
  <2> QED
    BY <1>0, <2>1, <2>2, AddsFacts DEF Frames, CallTypeOK, IsTerminal
<1>4. ASSUME NEW c \in Calls, NEW b \in Blocks(c), NEW e \in BOOLEAN, RuntimeReturns(c, b, e)
      PROVE  Frames'
  <2> DEFINE f == FramesFromResponse(b, e)
  <2>1. /\ UNCHANGED <<src, named, cpc, taken, lost, dropped>>
        /\ made' = [made EXCEPT ![c] = f]
        /\ pod' = [pod EXCEPT ![c] = "closed"]
        /\ src[c] = "runtime"
    BY <1>4 DEF RuntimeReturns, sessVars, histVars
  <2>2. /\ Len(f) \in Nat \ {0}
        /\ \A i \in 1..(Len(f) - 1) : f[i] \notin Terminals
        /\ f[Len(f)] \in Terminals
    BY ResponseFacts
  <2> HIDE DEF f
  <2> QED
    BY <1>0, <2>1, <2>2 DEF Frames, CallTypeOK, IsTerminal
<1>5. ASSUME NEW c \in Calls,
             \/ RecordDispatchedCall(c) \/ CancelTool(c) \/ TurnCancelled(c)
             \/ RecvFrame(c) \/ Publish(c) \/ RecvEnds(c) \/ Retire(c)
             \/ AppendFrame(c) \/ AppendFrameFails(c)
      PROVE  Frames'
  <2>1. UNCHANGED <<src, named, made, pod>> /\ lost \subseteq lost' /\ dropped \subseteq dropped'
    BY <1>5 DEF RecordDispatchedCall, CancelTool, TurnCancelled, RecvFrame, Publish, RecvEnds, Retire,
                AppendFrame, AppendFrameFails, callVars, histVars
  <2>2. CASE UNCHANGED <<cpc, taken>>
    BY <2>1, <2>2, FramesKept
  <2>3. CASE cpc[c] # "none"
    <3>1. src[c] # "none"
      BY <1>0, <2>3 DEF Frames
    <3>2. \A d \in Calls \ {c} : cpc'[d] = cpc[d] /\ taken'[d] = taken[d]
      BY <1>0, <1>5, StaysForOthers DEF CallTypeOK
    <3> QED
      BY <2>1, <3>1, <3>2, FramesKept
  <2>4. UNCHANGED <<cpc, taken>> \/ cpc[c] # "none"
    BY <1>5 DEF RecordDispatchedCall, CancelTool, TurnCancelled, RecvFrame, Publish, RecvEnds,
             Retire, AppendFrame, AppendFrameFails, sessVars
  <2> QED
    BY <2>2, <2>3, <2>4
<1>6. CASE DeleteConversation \/ RelayRestart
  <2>1. /\ UNCHANGED <<src, named, made, pod, cpc, taken>>
        /\ lost \subseteq lost' /\ dropped \subseteq dropped'
    BY <1>6 DEF DeleteConversation, RelayRestart, callVars, sessVars, histVars
  <2> QED
    BY <2>1, FramesKept
<1>7. CASE HarnessRestart
  <2>1. /\ UNCHANGED <<src, named, made, taken, dropped>>
        /\ lost \cup {c \in Calls : src[c] # "none" /\ cpc[c] \notin {"done", "retain", "retire"}}
             \subseteq lost'
        /\ cpc' = [c \in Calls |-> IF src[c] # "none" /\ cpc[c] # "done" THEN "crashed" ELSE cpc[c]]
        /\ pod' = [c \in Calls |-> IF src[c] # "none" THEN "closed" ELSE pod[c]]
    BY <1>7 DEF HarnessRestart
  <2> QED
    BY <1>0, <2>1 DEF Inv, Frames, Consumers, Drained, IsTerminal
<1> QED
  BY <1>1, <1>2, <1>3, <1>4, <1>5, <1>6, <1>7

\* Where a consumer is after a step of it.
LEMMA ConsumerMoves ==
    ASSUME Inv, NEW c \in Calls
    PROVE  /\ RecvEnds(c) => \/ cpc' = [cpc EXCEPT ![c] = "retire"] /\ src[c] = "toolset"
                             \/ cpc' = [cpc EXCEPT ![c] = "retain"] /\ src[c] = "runtime"
                             \/ cpc' = [cpc EXCEPT ![c] = "done"] /\ src[c] = "turn"
           /\ AppendFrame(c) \/ AppendFrameFails(c) =>
                \/ cpc' = [cpc EXCEPT ![c] = "done"] /\ src[c] = "turn" /\ IsTerminal(c, taken[c])
                \/ cpc' = [cpc EXCEPT ![c] = "recv"] /\ src[c] = "turn"
                \/ cpc' = [cpc EXCEPT ![c] = "publish"] /\ src[c] # "turn"
<1>0. CallTypeOK
  BY DEF Inv, TypeOK
<1>1. ASSUME RecvEnds(c)
      PROVE  \/ cpc' = [cpc EXCEPT ![c] = "retire"] /\ src[c] = "toolset"
             \/ cpc' = [cpc EXCEPT ![c] = "retain"] /\ src[c] = "runtime"
             \/ cpc' = [cpc EXCEPT ![c] = "done"] /\ src[c] = "turn"
  <2>1. src[c] \in {"toolset", "runtime", "turn"}
    BY <1>0, <1>1 DEF RecvEnds, Inv, Frames, CallTypeOK
  <2> QED
    BY <1>1, <2>1 DEF RecvEnds, TurnResult
<1>2. ASSUME AfterAppend(c)
      PROVE  \/ cpc' = [cpc EXCEPT ![c] = "done"] /\ src[c] = "turn" /\ IsTerminal(c, taken[c])
             \/ cpc' = [cpc EXCEPT ![c] = "recv"] /\ src[c] = "turn"
             \/ cpc' = [cpc EXCEPT ![c] = "publish"] /\ src[c] # "turn"
  BY <1>2 DEF AfterAppend, TurnResult
<1> QED
  BY <1>1, <1>2 DEF AppendFrame, AppendFrameFails

\* The terminal is the last frame, of a call whose pod is done.
LEMMA TerminalIsLast ==
    ASSUME Inv, NEW c \in Calls, NEW i, IsTerminal(c, i)
    PROVE  i = Len(made[c]) /\ pod[c] = "closed"
<1>1. made[c] \in Seq(Kinds)
  BY DEF Inv, TypeOK, CallTypeOK
<1>2. Len(made[c]) \in Nat
  BY <1>1, LenProperties
<1> QED
  BY <1>2 DEF Inv, Frames, IsTerminal

\* Consumers' for the steps of the calls.
LEMMA ConsumersInv ==
    ASSUME Inv
    PROVE  /\ (\E i \in Inputs : DispatchTool(i[1], i[2], i[3])) => Consumers'
           /\ \A c \in Calls :
                /\ \/ RecordDispatchedCall(c) \/ PodBreaks(c) \/ CancelTool(c) \/ TurnCancelled(c)
                   \/ RecvFrame(c) \/ Publish(c) \/ RecvEnds(c) \/ Retire(c)
                   \/ AppendFrame(c) \/ AppendFrameFails(c)
                   => Consumers'
                /\ (\E k \in FrameKinds : PodFrame(c, k)) => Consumers'
                /\ (\E b \in Blocks(c), e \in BOOLEAN : RuntimeReturns(c, b, e)) => Consumers'
           /\ DeleteConversation \/ HarnessRestart \/ RelayRestart => Consumers'
<1>0. /\ TypeOK /\ CallTypeOK /\ Frames /\ Consumers
      /\ \A c \in Calls : Len(made[c]) \in Nat
  BY LenProperties DEF Inv, TypeOK, CallTypeOK
<1>1. ASSUME NEW i \in Inputs, DispatchTool(i[1], i[2], i[3]) PROVE Consumers'
  <2>1. i[1] \in Calls /\ i[2] \in {"toolset", "runtime", "turn"}
    BY InputsAssumption
  <2>2. UNCHANGED <<made, taken, pub, known, lost>>
    BY <1>1 DEF DispatchTool, histVars
  <2> QED
    BY <1>0, <1>1, <2>1, <2>2 DEF DispatchTool, CallTypeOK, Frames, Consumers, Drained
<1>2. ASSUME NEW c \in Calls, NEW k \in Kinds, made' = [made EXCEPT ![c] = Append(@, k)],
             pod[c] = "running", pod' = pod \/ pod' = [pod EXCEPT ![c] = "closed"],
             UNCHANGED <<src, sessVars, lost, known>>
      PROVE  Consumers'
  BY <1>0, <1>2, AddsFacts DEF Consumers, Drained, CallTypeOK, sessVars
<1>3. ASSUME NEW c \in Calls, PodBreaks(c) PROVE Consumers'
  <2>1. /\ UNCHANGED <<src, sessVars, lost, known>> /\ pod' = [pod EXCEPT ![c] = "closed"]
        /\ pod[c] = "running"
    BY <1>3 DEF PodBreaks
  <2>2. CASE Room(c)
    <3>1. made' = [made EXCEPT ![c] = Append(@, "failed")]
      BY <1>3, <2>2 DEF PodBreaks
    <3>2. "failed" \in Kinds
      BY DEF Kinds, Terminals
    <3> QED
      BY <1>2, <2>1, <3>1, <3>2
  <2>3. CASE ~Room(c)
    <3>1. made' = made
      BY <1>3, <2>3 DEF PodBreaks
    <3> QED
      BY <1>0, <2>1, <3>1 DEF Consumers, Drained, CallTypeOK, sessVars
  <2> QED
    BY <2>2, <2>3
<1>4. ASSUME NEW c \in Calls, NEW k \in FrameKinds, PodFrame(c, k) PROVE Consumers'
  BY <1>2, <1>4, KindsAssumption DEF PodFrame, histVars
<1>5. ASSUME NEW c \in Calls, NEW b \in Blocks(c), NEW e \in BOOLEAN, RuntimeReturns(c, b, e)
      PROVE  Consumers'
  <2> DEFINE f == FramesFromResponse(b, e)
  <2>1. /\ UNCHANGED <<src, taken, cpc, live, pub, lost, known>>
        /\ made' = [made EXCEPT ![c] = f]
        /\ pod' = [pod EXCEPT ![c] = "closed"]
        /\ src[c] = "runtime" /\ pod[c] = "running"
    BY <1>5 DEF RuntimeReturns, sessVars, histVars
  <2>2. Len(f) \in Nat /\ made[c] = <<>> /\ Len(made[c]) = 0
    BY <1>0, <2>1, ResponseFacts DEF Frames
  <2> HIDE DEF f
  <2> QED
    BY <1>0, <2>1, <2>2 DEF Consumers, Drained, CallTypeOK
<1>6. ASSUME NEW c \in Calls, RecordDispatchedCall(c) \/ CancelTool(c) \/ TurnCancelled(c)
      PROVE  Consumers'
  <2>1. /\ UNCHANGED <<src, made, pod, sessVars, lost>>
        /\ \A d \in known' : d \in known \/ src[d] \in {"toolset", "runtime"}
    BY <1>6 DEF RecordDispatchedCall, CancelTool, TurnCancelled, callVars, histVars
  <2> QED
    BY <1>0, <2>1 DEF Consumers, Drained, sessVars
<1>7. ASSUME NEW c \in Calls, RecvFrame(c) PROVE Consumers'
  BY <1>0, <1>7 DEF RecvFrame, Consumers, Drained, CallTypeOK, callVars, histVars
<1>8. ASSUME NEW c \in Calls, Publish(c) PROVE Consumers'
  <2>1. src[c] = "toolset" /\ IsTerminal(c, taken[c]) => taken[c] = Len(made[c]) /\ pod[c] = "closed"
    BY TerminalIsLast
  <2> QED
    BY <1>0, <1>8, <2>1 DEF Publish, Consumers, Drained, CallTypeOK, callVars, histVars
<1>9. ASSUME NEW c \in Calls, RecvEnds(c) PROVE Consumers'
  <2>1. /\ UNCHANGED <<src, made, pod, taken, live, pub, lost, known>> /\ cpc[c] = "recv"
        /\ pod[c] = "closed" /\ taken[c] = Len(made[c])
    BY <1>9 DEF RecvEnds, callVars, histVars
  <2>2. PICK p \in {"retire", "retain", "done"} : cpc' = [cpc EXCEPT ![c] = p]
    BY <1>9, ConsumerMoves
  <2>3. p = "done" => src[c] = "turn"
    <3>1. cpc'[c] = p
      BY <1>0, <2>2 DEF CallTypeOK
    <3> QED
      BY <1>0, <1>9, <3>1, ConsumerMoves DEF CallTypeOK
  <2> QED
    BY <1>0, <2>1, <2>2, <2>3 DEF Consumers, Drained, CallTypeOK
<1>10. ASSUME NEW c \in Calls, Retire(c) PROVE Consumers'
  BY <1>0, <1>10 DEF Retire, Consumers, Drained, CallTypeOK, callVars, histVars
<1>11. ASSUME NEW c \in Calls, AppendFrame(c) \/ AppendFrameFails(c) PROVE Consumers'
  <2>1. /\ UNCHANGED <<src, made, pod, taken, live, pub, known>> /\ cpc[c] = "append"
        /\ lost \subseteq lost'
    BY <1>11 DEF AppendFrame, AppendFrameFails, callVars
  <2>2. IsTerminal(c, taken[c]) => taken[c] = Len(made[c]) /\ pod[c] = "closed"
    BY TerminalIsLast
  <2>3. \/ cpc' = [cpc EXCEPT ![c] = "done"] /\ src[c] = "turn" /\ IsTerminal(c, taken[c])
        \/ cpc' = [cpc EXCEPT ![c] = "recv"] /\ src[c] = "turn"
        \/ cpc' = [cpc EXCEPT ![c] = "publish"] /\ src[c] # "turn"
    BY <1>11, ConsumerMoves
  <2>4. CASE cpc' = [cpc EXCEPT ![c] = "done"] /\ src[c] = "turn" /\ IsTerminal(c, taken[c])
    BY <1>0, <2>1, <2>2, <2>4 DEF Consumers, Drained, CallTypeOK
  <2>5. CASE cpc' = [cpc EXCEPT ![c] = "recv"] /\ src[c] = "turn"
    BY <1>0, <2>1, <2>5 DEF Consumers, Drained, CallTypeOK
  <2>6. CASE cpc' = [cpc EXCEPT ![c] = "publish"] /\ src[c] # "turn"
    BY <1>0, <2>1, <2>6 DEF Consumers, Drained, CallTypeOK
  <2> QED
    BY <2>3, <2>4, <2>5, <2>6
<1>12. CASE DeleteConversation \/ RelayRestart
  <2>1. /\ UNCHANGED <<src, made, pod, sessVars>>
        /\ lost \subseteq lost' /\ known' \subseteq known
    BY <1>12 DEF DeleteConversation, RelayRestart, callVars, histVars
  <2> QED
    BY <1>0, <2>1 DEF Consumers, Drained, sessVars
<1>13. CASE HarnessRestart
  <2>1. /\ UNCHANGED <<src, made, taken, pub, known>>
        /\ lost \cup {c \in Calls : src[c] # "none" /\ cpc[c] \notin {"done", "retain", "retire"}}
             \subseteq lost'
        /\ cpc' = [c \in Calls |-> IF src[c] # "none" /\ cpc[c] # "done" THEN "crashed" ELSE cpc[c]]
        /\ pod' = [c \in Calls |-> IF src[c] # "none" THEN "closed" ELSE pod[c]]
    BY <1>13 DEF HarnessRestart
  <2> QED
    BY <1>0, <2>1 DEF Frames, Consumers, Drained
<1> QED
  BY <1>1, <1>3, <1>4, <1>5, <1>6, <1>7, <1>8, <1>9, <1>10, <1>11, <1>12, <1>13

\* A step that records nothing: a record is kept, or loses its end if that is noted;
\* what has been offered stays so, and only images are new.
LEMMA RecordsKept ==
    ASSUME Inv, TypeOK',
           \A c \in Calls :
               /\ Len(log'[c]) <= Len(log[c])
               /\ \A i \in 1..Len(log'[c]) : log'[c][i] = log[c][i]
               /\ c \notin lost' => c \notin lost /\ log'[c] = log[c] /\ (c \in named' => c \in named \/ taken'[c] = 0)
               /\ \A k \in 1..taken[c] : made'[c][k] = made[c][k]
               /\ \A k \in 1..taken[c] : Offered(c, k) => Offered(c, k)'
               /\ \A k \in 1..taken'[c] : c \in named' \ lost' /\ Offered(c, k)' /\ made'[c][k] # "image"
                                             => Offered(c, k),
           tail' = "unended" => ends' \in lost'
    PROVE  Records'
<1>1. /\ CallTypeOK /\ RecordTypeOK /\ CallTypeOK' /\ RecordTypeOK'
      /\ \A c \in Calls : Len(log[c]) \in Nat /\ Len(log'[c]) \in Nat /\ taken[c] \in Nat
                          /\ taken'[c] \in Nat
  BY LenProperties DEF Inv, TypeOK, CallTypeOK, RecordTypeOK
<1>2. ASSUME NEW c \in Calls PROVE Increasing(log[c])'
  <2>1. \A i \in 1..Len(log'[c]) : i \in 1..Len(log[c])
    BY <1>1
  <2> QED
    BY <1>1, <2>1 DEF Inv, Records, Increasing
<1>3. ASSUME NEW c \in Calls
      PROVE  \A i \in 1..Len(log'[c]) : Offered(c, log[c][i])' /\ made'[c][log'[c][i]] # "image"
  <2> SUFFICES ASSUME NEW i \in 1..Len(log'[c]), NEW k, k = log'[c][i]
               PROVE  Offered(c, k)' /\ made'[c][k] # "image"
    BY DEF Offered
  <2>1. i \in 1..Len(log[c]) /\ k = log[c][i]
    BY <1>1
  <2>2. Offered(c, k) /\ made[c][k] # "image"
    BY <2>1 DEF Inv, Records
  <2>3. k \in 1..taken[c]
    BY <2>2 DEF Offered
  <2> QED
    BY <2>2, <2>3
<1>4. ASSUME NEW c \in Calls, c \in named' \ lost'
      PROVE  \A k \in 1..taken'[c] : Offered(c, k)' /\ made'[c][k] # "image"
                                       => \E i \in 1..Len(log'[c]) : log'[c][i] = k
  <2> SUFFICES ASSUME NEW k \in 1..taken'[c], Offered(c, k)', made'[c][k] # "image"
               PROVE  \E i \in 1..Len(log'[c]) : log'[c][i] = k
    OBVIOUS
  <2>1. Offered(c, k) /\ k \in 1..taken[c] /\ c \in named \ lost /\ log'[c] = log[c]
    BY <1>1, <1>4 DEF Offered
  <2> QED
    BY <2>1 DEF Inv, Records
<1> QED
  BY <1>2, <1>3, <1>4 DEF Records

\* What is left of a spoilt file.
LEMMA SpoiltFacts ==
    ASSUME Inv, NEW c \in Calls
    PROVE  /\ Len(Spoilt[c]) <= Len(log[c])
           /\ \A i \in 1..Len(Spoilt[c]) : Spoilt[c][i] = log[c][i]
           /\ c \notin lost => Spoilt[c] = log[c]
<1>1. log \in [Calls -> Seq(Nat)] /\ (tail = "unended" => ends \in Calls /\ ends \in lost)
  BY DEF Inv, TypeOK, RecordTypeOK, Records
<1>2. Len(log[c]) \in Nat
  BY <1>1, LenProperties
<1>3. CASE tail = "unended" /\ c = ends
  <2>1. Spoilt[c] = Front(log[c])
    BY <1>1, <1>3 DEF Spoilt
  <2> QED
    BY <1>1, <1>2, <1>3, <2>1, FrontFacts
<1>4. CASE ~(tail = "unended" /\ c = ends)
  <2>1. Spoilt[c] = log[c]
    BY <1>1, <1>4 DEF Spoilt
  <2> QED
    BY <1>2, <2>1
<1> QED
  BY <1>3, <1>4

\* A frame is recorded: in a clean file it is the last of its call.
LEMMA RecordsGrow ==
    ASSUME Inv, TypeOK', NEW c \in Calls, cpc[c] = "append", Recorded(c), tail = "clean",
           log' = Appended(c, taken[c]), cpc'[c] # "append",
           \A d \in Calls : d # c /\ cpc'[d] = "append" => cpc[d] = "append",
           \A d \in Calls : d # c /\ cpc[d] = "append" => cpc'[d] = "append" \/ d \in lost',
           UNCHANGED <<named, made, taken>>, lost \subseteq lost',
           tail' = "unended" => ends' \in lost'
    PROVE  Records'
<1>1. /\ CallTypeOK /\ RecordTypeOK
      /\ \A d \in Calls : Len(log[d]) \in Nat /\ taken[d] \in Nat
      /\ taken[c] \in Nat \ {0}
  BY LenProperties DEF Inv, TypeOK, CallTypeOK, RecordTypeOK, Consumers
<1>2. log'[c] = Append(log[c], taken[c]) /\ \A d \in Calls \ {c} : log'[d] = log[d]
  BY <1>1 DEF Appended, RecordTypeOK
<1>3. /\ Len(log'[c]) = Len(log[c]) + 1
      /\ \A i \in 1..Len(log[c]) : log'[c][i] = log[c][i]
      /\ log'[c][Len(log[c]) + 1] = taken[c]
  <2>1. log[c] \in Seq(Nat)
    BY <1>1 DEF RecordTypeOK
  <2> QED
    BY <1>1, <1>2, <2>1, AppendProperties
<1>4. \A i \in 1..Len(log[c]) : log[c][i] \in 1..(taken[c] - 1) /\ made[c][log[c][i]] # "image"
  BY <1>1 DEF Inv, Records, Offered
<1>9. \A i \in 1..Len(log'[c]) : i \in 1..Len(log[c]) \/ i = Len(log[c]) + 1
  BY <1>1, <1>3
<1>5. Increasing(log[c])'
  <2> SUFFICES ASSUME NEW i \in 1..Len(log'[c]), NEW j \in 1..Len(log'[c]), i < j
               PROVE  log'[c][i] < log'[c][j]
    BY DEF Increasing
  <2>1. i \in 1..Len(log[c])
    BY <1>1, <1>3
  <2>2. CASE j \in 1..Len(log[c])
    BY <1>3, <2>1, <2>2 DEF Inv, Records, Increasing
  <2>3. CASE j = Len(log[c]) + 1
    <3>1. log[c][i] \in 1..(taken[c] - 1) /\ log'[c][i] = log[c][i] /\ log'[c][j] = taken[c]
      BY <1>3, <1>4, <2>1, <2>3
    <3> QED
      BY <1>1, <3>1
  <2> QED
    BY <1>9, <2>2, <2>3
<1>6. \A i \in 1..Len(log'[c]) : Offered(c, log[c][i])' /\ made'[c][log'[c][i]] # "image"
  <2> SUFFICES ASSUME NEW i \in 1..Len(log'[c]), NEW k, k = log'[c][i]
               PROVE  k \in 1..taken[c] /\ made[c][k] # "image"
    BY DEF Offered
  <2>1. CASE i \in 1..Len(log[c])
    BY <1>1, <1>3, <1>4, <2>1
  <2>2. CASE i = Len(log[c]) + 1
    BY <1>1, <1>3, <2>2 DEF Recorded
  <2> QED
    BY <1>9, <2>1, <2>2
<1>7. c \in named' \ lost' =>
        \A k \in 1..taken'[c] : Offered(c, k)' /\ made'[c][k] # "image"
                                  => \E i \in 1..Len(log'[c]) : log'[c][i] = k
  <2> SUFFICES ASSUME c \in named \ lost, NEW k \in 1..taken[c], made[c][k] # "image"
               PROVE  \E i \in 1..Len(log'[c]) : log'[c][i] = k
    OBVIOUS
  <2>1. CASE k = taken[c]
    BY <1>1, <1>3, <2>1
  <2>2. CASE k # taken[c]
    <3>1. Offered(c, k)
      BY <1>1, <2>2 DEF Offered
    <3>2. PICK i \in 1..Len(log[c]) : log[c][i] = k
      BY <3>1 DEF Inv, Records
    <3>3. i \in 1..Len(log'[c])
      BY <1>1, <1>3
    <3> QED
      BY <1>3, <3>2, <3>3
  <2> QED
    BY <2>1, <2>2
<1>8. ASSUME NEW d \in Calls \ {c}
      PROVE  /\ Increasing(log[d])'
             /\ \A i \in 1..Len(log'[d]) : Offered(d, log[d][i])' /\ made'[d][log'[d][i]] # "image"
             /\ d \in named' \ lost' =>
                  \A k \in 1..taken'[d] : Offered(d, k)' /\ made'[d][k] # "image"
                                            => \E i \in 1..Len(log'[d]) : log'[d][i] = k
  <2>1. log'[d] = log[d] /\ taken'[d] = taken[d] /\ made'[d] = made[d] /\ d # c
    BY <1>2
  <2>2. /\ Increasing(log[d])
        /\ \A i \in 1..Len(log[d]) : Offered(d, log[d][i]) /\ made[d][log[d][i]] # "image"
        /\ d \in named \ lost =>
             \A k \in 1..taken[d] : Offered(d, k) /\ made[d][k] # "image"
                                      => \E i \in 1..Len(log[d]) : log[d][i] = k
    BY DEF Inv, Records
  <2>3. \A k : Offered(d, k) => Offered(d, k)'
    BY <2>1 DEF Offered
  <2>4. d \notin lost' => \A k : Offered(d, k)' => Offered(d, k)
    BY <2>1 DEF Offered
  <2>5. Increasing(log[d])'
    BY <2>1, <2>2 DEF Increasing
  <2>6. d \in named' \ lost' => d \in named \ lost
    OBVIOUS
  <2> QED
    BY <2>1, <2>2, <2>3, <2>4, <2>5, <2>6
<1> QED
  BY <1>5, <1>6, <1>7, <1>8 DEF Records

\* Records' for the steps of the calls.
LEMMA RecordsInv ==
    ASSUME Inv, TypeOK'
    PROVE  /\ (\E i \in Inputs : DispatchTool(i[1], i[2], i[3])) => Records'
           /\ \A c \in Calls :
                /\ \/ RecordDispatchedCall(c) \/ PodBreaks(c) \/ CancelTool(c) \/ TurnCancelled(c)
                   \/ RecvFrame(c) \/ Publish(c) \/ RecvEnds(c) \/ Retire(c)
                   \/ AppendFrame(c) \/ AppendFrameFails(c)
                   => Records'
                /\ (\E k \in FrameKinds : PodFrame(c, k)) => Records'
                /\ (\E b \in Blocks(c), e \in BOOLEAN : RuntimeReturns(c, b, e)) => Records'
           /\ DeleteConversation \/ HarnessRestart \/ RelayRestart => Records'
<1>0. /\ TypeOK /\ CallTypeOK /\ RecordTypeOK /\ Frames /\ Consumers
      /\ \A c \in Calls : Len(made[c]) \in Nat /\ Len(log[c]) \in Nat /\ taken[c] \in Nat
      /\ (tail = "unended" => ends \in lost)
  BY LenProperties DEF Inv, TypeOK, CallTypeOK, RecordTypeOK, Records
\* A step that leaves the file alone and offers nothing.
<1>1. ASSUME UNCHANGED <<log, tail, ends, lost>>,
             \A c \in Calls :
                 /\ c \in named' => c \in named \/ taken'[c] = 0
                 /\ \A k \in 1..taken[c] : made'[c][k] = made[c][k]
                 /\ \/ taken'[c] = taken[c] /\ (cpc[c] = "append" <=> cpc'[c] = "append")
                    \/ taken'[c] = taken[c] + 1 /\ cpc[c] # "append" /\ cpc'[c] = "append"
      PROVE  Records'
  <2>1. \A c \in Calls : \A k : Offered(c, k)' <=> Offered(c, k)
    BY <1>0, <1>1 DEF Offered
  <2>2. \A c \in Calls : \A k \in 1..taken[c] : Offered(c, k) => Offered(c, k)'
    BY <2>1
  <2>3. \A c \in Calls : \A k \in 1..taken'[c] : Offered(c, k)' => Offered(c, k)
    BY <2>1
  <2> QED
    BY <1>0, <1>1, <2>2, <2>3, RecordsKept
<1>2. ASSUME NEW i \in Inputs, DispatchTool(i[1], i[2], i[3]) PROVE Records'
  <2>1. i[1] \in Calls
    BY InputsAssumption
  <2>2. UNCHANGED <<made, taken, lost, log, tail, ends>>
    BY <1>2 DEF DispatchTool, histVars, logVars
  <2>3. \A c \in Calls : /\ c \in named' => c \in named \/ taken'[c] = 0
                         /\ cpc[c] = "append" <=> cpc'[c] = "append"
    BY <1>0, <1>2, <2>1, <2>2 DEF DispatchTool, Frames, CallTypeOK
  <2> QED
    BY <1>1, <2>2, <2>3
<1>3. ASSUME NEW c \in Calls,
             \/ PodBreaks(c) \/ RecordDispatchedCall(c) \/ CancelTool(c) \/ TurnCancelled(c)
             \/ \E k \in FrameKinds : PodFrame(c, k)
             \/ \E b \in Blocks(c), e \in BOOLEAN : RuntimeReturns(c, b, e)
      PROVE  Records'
  <2>1. UNCHANGED <<named, taken, cpc, log, tail, ends, lost>>
    BY <1>3 DEF PodBreaks, PodFrame, RuntimeReturns, RecordDispatchedCall, CancelTool, TurnCancelled,
                callVars, sessVars, logVars, histVars
  <2>2. \A d \in Calls : \A k \in 1..taken[d] : made'[d][k] = made[d][k]
    <3>1. \A d \in Calls : \A k \in 1..taken[d] : k \in 1..Len(made[d])
      BY <1>0 DEF Consumers
    <3>2. CASE made' = made
      BY <3>2
    <3>3. ASSUME NEW k \in Kinds, made' = [made EXCEPT ![c] = Append(@, k)]
          PROVE  \A d \in Calls : \A j \in 1..taken[d] : made'[d][j] = made[d][j]
      BY <1>0, <3>1, <3>3, AddsFacts
    <3>4. CASE PodBreaks(c)
      <4>1. "failed" \in Kinds
        BY DEF Kinds, Terminals
      <4> QED
        BY <3>2, <3>3, <3>4, <4>1 DEF PodBreaks
    <3>5. ASSUME NEW k \in FrameKinds, PodFrame(c, k)
          PROVE  \A d \in Calls : \A j \in 1..taken[d] : made'[d][j] = made[d][j]
      BY <3>3, <3>5, KindsAssumption DEF PodFrame
    <3>6. ASSUME NEW b \in Blocks(c), NEW e \in BOOLEAN, RuntimeReturns(c, b, e)
          PROVE  \A d \in Calls : \A j \in 1..taken[d] : made'[d][j] = made[d][j]
      <4>1. made[c] = <<>> /\ taken[c] = 0
        <5>1. made[c] = <<>>
          BY <1>0, <3>6 DEF RuntimeReturns, Frames
        <5>2. Len(made[c]) = 0
          BY <5>1
        <5> QED
          BY <1>0, <5>1, <5>2 DEF Consumers
      <4> QED
        BY <1>0, <3>6, <4>1 DEF RuntimeReturns, CallTypeOK
    <3>7. CASE RecordDispatchedCall(c) \/ CancelTool(c) \/ TurnCancelled(c)
      BY <3>2, <3>7 DEF RecordDispatchedCall, CancelTool, TurnCancelled, callVars
    <3> QED
      BY <1>3, <3>4, <3>5, <3>6, <3>7
  <2> QED
    BY <1>1, <2>1, <2>2
<1>4. ASSUME NEW c \in Calls, RecvFrame(c) \/ Publish(c) \/ RecvEnds(c) \/ Retire(c)
      PROVE  Records'
  <2>1. UNCHANGED <<named, made, log, tail, ends, lost>>
    BY <1>4 DEF RecvFrame, Publish, RecvEnds, Retire, callVars, logVars, histVars
  <2>2. \A d \in Calls \ {c} : cpc'[d] = cpc[d] /\ taken'[d] = taken[d]
    BY <1>4, StaysForOthers
  <2>3. CASE RecvFrame(c)
    <3>1. taken'[c] = taken[c] + 1 /\ cpc[c] # "append" /\ cpc'[c] = "append"
      BY <1>0, <2>3 DEF RecvFrame, CallTypeOK
    <3> QED
      BY <1>1, <2>1, <2>2, <3>1
  <2>4. CASE Publish(c) \/ RecvEnds(c) \/ Retire(c)
    <3>1. taken'[c] = taken[c] /\ cpc[c] # "append"
      BY <2>4 DEF Publish, RecvEnds, Retire
    <3>2. cpc'[c] # "append"
      BY <1>0, <2>4, ConsumerMoves DEF Publish, Retire, CallTypeOK
    <3> QED
      BY <1>1, <2>1, <2>2, <3>1, <3>2
  <2> QED
    BY <1>4, <2>3, <2>4
\* A write that loses something, or that writes nothing.
<1>5. ASSUME UNCHANGED <<named, made, taken>>, lost \subseteq lost',
             log' = log \/ log' = Spoilt,
             tail' = "unended" => ends' \in lost',
             \A c \in Calls : /\ cpc[c] # "append" => cpc'[c] # "append"
                              /\ \/ cpc'[c] = cpc[c] \/ c \in lost' \/ cpc[c] # "append"
                                 \/ ~Recorded(c)
      PROVE  Records'
  <2>1. \A c \in Calls : /\ Len(log'[c]) <= Len(log[c])
                         /\ \A i \in 1..Len(log'[c]) : log'[c][i] = log[c][i]
                         /\ c \notin lost' => log'[c] = log[c]
    BY <1>0, <1>5, SpoiltFacts
  <2>2. \A c \in Calls : \A k \in 1..taken[c] : Offered(c, k) => Offered(c, k)'
    BY <1>5 DEF Offered
  <2>3. \A c \in Calls : \A k \in 1..taken'[c] :
           c \in named' \ lost' /\ Offered(c, k)' /\ made'[c][k] # "image" => Offered(c, k)
    BY <1>0, <1>5 DEF Offered, Recorded
  <2> QED
    BY <1>0, <1>5, <2>1, <2>2, <2>3, RecordsKept
<1>6. ASSUME NEW c \in Calls, AppendFrame(c) \/ AppendFrameFails(c) PROVE Records'
  <2>1. UNCHANGED <<named, made, taken, ends>> /\ lost \subseteq lost' /\ cpc[c] = "append"
    BY <1>6 DEF AppendFrame, AppendFrameFails, callVars
  <2>2. \A d \in Calls \ {c} : cpc'[d] = cpc[d]
    BY <1>6, StaysForOthers
  <2>3. cpc'[c] # "append"
    BY <1>0, <1>6, ConsumerMoves DEF CallTypeOK
  <2>8. /\ \A d \in Calls : d # c /\ cpc'[d] = "append" => cpc[d] = "append"
        /\ \A d \in Calls : d # c /\ cpc[d] = "append" => cpc'[d] = "append" \/ d \in lost'
    BY <2>2
  <2>4. CASE AppendFrame(c) /\ Recorded(c) /\ tail = "clean"
    <3>1. log' = Appended(c, taken[c]) /\ tail' = "clean"
      BY <2>4 DEF AppendFrame
    <3>2. tail' = "unended" => ends' \in lost'
      BY <3>1
    <3>3. /\ UNCHANGED <<named, made, taken>> /\ lost \subseteq lost' /\ cpc[c] = "append"
          /\ Recorded(c) /\ tail = "clean"
      BY <2>1, <2>4
    <3> QED
      BY <2>3, <2>8, <3>1, <3>2, <3>3, RecordsGrow
  <2>5. CASE AppendFrame(c) /\ Recorded(c) /\ tail # "clean"
    <3>1. log' = Spoilt /\ tail' = "clean" /\ c \in lost'
      BY <2>5 DEF AppendFrame, Appended, Spoils
    <3> QED
      BY <1>5, <2>1, <2>2, <2>3, <3>1
  <2>6. CASE AppendFrame(c) /\ ~Recorded(c)
    <3>1. log' = log /\ tail' = tail
      BY <2>6 DEF AppendFrame
    <3> QED
      BY <1>0, <1>5, <2>1, <2>2, <2>3, <2>6, <3>1
  <2>7. CASE AppendFrameFails(c)
    <3>1. c \in lost' /\ (log' = log \/ log' = Spoilt) /\ (tail' = tail \/ tail' = "partial")
      BY <2>7 DEF AppendFrameFails
    <3> QED
      BY <1>0, <1>5, <2>1, <2>2, <2>3, <3>1
  <2> QED
    BY <1>6, <2>4, <2>5, <2>6, <2>7
<1>7. CASE RelayRestart
  <2>1. UNCHANGED <<named, made, taken, cpc, log, tail, ends, lost>>
    BY <1>7 DEF RelayRestart, callVars, sessVars, logVars, histVars
  <2> QED
    BY <1>1, <2>1
<1>8. CASE DeleteConversation
  <2>1. /\ UNCHANGED <<named, made, taken, cpc>> /\ log' = [c \in Calls |-> <<>>] /\ tail' = "clean"
        /\ lost' = lost \cup named
    BY <1>8 DEF DeleteConversation, callVars, sessVars
  <2>2. \A c \in Calls : log'[c] = <<>> /\ Len(log'[c]) = 0
    BY <2>1
  <2> QED
    BY <2>1, <2>2 DEF Records, Increasing
<1>9. CASE HarnessRestart
  <2>1. /\ UNCHANGED <<named, made, taken>>
        /\ lost \cup {c \in Calls : src[c] # "none" /\ cpc[c] \notin {"done", "retain", "retire"}}
             \subseteq lost'
        /\ cpc' = [c \in Calls |-> IF src[c] # "none" /\ cpc[c] # "done" THEN "crashed" ELSE cpc[c]]
    BY <1>9 DEF HarnessRestart
  <2>2. \A c \in Calls : /\ cpc[c] = "append" => c \in lost' /\ cpc'[c] = "crashed"
                         /\ cpc[c] # "append" => cpc'[c] # "append"
    BY <1>0, <2>1 DEF Frames
  <2>3. \/ UNCHANGED <<log, tail, ends>>
        \/ log' = Spoilt /\ tail' = "partial"
        \/ \E c \in Calls : /\ cpc[c] = "append" /\ Recorded(c) /\ tail = "clean"
                            /\ log' = Appended(c, taken[c]) /\ tail' = "unended" /\ ends' = c
    BY <1>9 DEF HarnessRestart
  <2>4. CASE UNCHANGED <<log, tail, ends>> \/ (log' = Spoilt /\ tail' = "partial")
    BY <1>0, <1>5, <2>1, <2>2, <2>4
  <2>5. ASSUME NEW c \in Calls, cpc[c] = "append", Recorded(c), tail = "clean",
               log' = Appended(c, taken[c]), tail' = "unended", ends' = c
        PROVE  Records'
    <3>1. /\ \A d \in Calls : d # c /\ cpc'[d] = "append" => cpc[d] = "append"
          /\ \A d \in Calls : d # c /\ cpc[d] = "append" => cpc'[d] = "append" \/ d \in lost'
      BY <2>2
    <3>2. tail' = "unended" => ends' \in lost'
      BY <2>2, <2>5
    <3>3. cpc'[c] # "append" /\ lost \subseteq lost'
      BY <2>1, <2>2, <2>5
    <3> QED
      BY <2>1, <2>5, <3>1, <3>2, <3>3, RecordsGrow
  <2> QED
    BY <2>3, <2>4, <2>5
<1> QED
  BY <1>2, <1>3, <1>4, <1>6, <1>7, <1>8, <1>9

----------------------------------------------------------------------------
(* What the steps do to the await streams *)

\* The items of two sequences of numbers, one after the other.
LEMMA ConcatFacts ==
    ASSUME NEW g \in Seq(Nat), NEW o \in Seq(Nat)
    PROVE  /\ Len(g) \in Nat /\ Len(o) \in Nat
           /\ Len(g \o o) = Len(g) + Len(o)
           /\ \A i \in 1..Len(g) : (g \o o)[i] = g[i]
           /\ \A i \in 1..Len(o) : (g \o o)[Len(g) + i] = o[i]
           /\ \A i \in 1..Len(g \o o) : (g \o o)[i] \in Nat
           /\ o = <<>> => g \o o = g
<1> DEFINE l == g \o o
<1>1. /\ Len(g) \in Nat /\ Len(o) \in Nat
  BY LenProperties
<1>2. /\ l \in Seq(Nat)
      /\ Len(l) = Len(g) + Len(o)
      /\ \A i \in 1..(Len(g) + Len(o)) : l[i] = IF i <= Len(g) THEN g[i] ELSE o[i - Len(g)]
  BY ConcatProperties
<1> HIDE DEF l
<1>3. \A i \in 1..Len(g) : l[i] = g[i]
  BY <1>1, <1>2
<1>4. \A i \in 1..Len(o) : l[Len(g) + i] = o[i]
  <2> TAKE i \in 1..Len(o)
  <2>1. Len(g) + i \in 1..(Len(g) + Len(o)) /\ ~(Len(g) + i <= Len(g)) /\ (Len(g) + i) - Len(g) = i
    BY <1>1
  <2> QED
    BY <1>2, <2>1
<1>5. \A i \in 1..Len(l) : l[i] \in Nat
  <2> TAKE i \in 1..Len(l)
  <2> QED
    BY <1>2, ElementOfSeq
<1>6. o = <<>> => l = g
  BY ConcatEmptySeq DEF l
<1> QED
  BY <1>1, <1>2, <1>3, <1>4, <1>5, <1>6 DEF l

\* What an await stream is sent is what it has read and then what is in its channel.
LEMMA LineFacts ==
    ASSUME TypeOK, NEW a \in Awaiters
    PROVE  /\ Len(got[a]) \in Nat /\ Len(out[a]) \in Nat
           /\ Len(Line(a)) \in Nat /\ Len(Line(a)) = Len(got[a]) + Len(out[a])
           /\ Len(got[a]) <= Len(Line(a))
           /\ \A i \in 1..Len(got[a]) : Line(a)[i] = got[a][i]
           /\ \A i \in 1..Len(out[a]) : Line(a)[Len(got[a]) + i] = out[a][i]
           /\ \A i \in 1..Len(got[a]) : i \in 1..Len(Line(a))
           /\ \A i \in 1..Len(out[a]) : Len(got[a]) + i \in 1..Len(Line(a))
           /\ \A i \in 1..Len(Line(a)) : Line(a)[i] \in Nat
           /\ out[a] = <<>> => Line(a) = got[a]
<1> DEFINE g == got[a]
<1> DEFINE o == out[a]
<1>1. g \in Seq(Nat) /\ o \in Seq(Nat)
  BY DEF TypeOK, AwaitTypeOK
<1> HIDE DEF g, o
<1>2. /\ Len(g) \in Nat /\ Len(o) \in Nat
      /\ Len(g \o o) = Len(g) + Len(o)
      /\ \A i \in 1..Len(g) : (g \o o)[i] = g[i]
      /\ \A i \in 1..Len(o) : (g \o o)[Len(g) + i] = o[i]
      /\ \A i \in 1..Len(g \o o) : (g \o o)[i] \in Nat
      /\ o = <<>> => g \o o = g
  BY <1>1, ConcatFacts
<1>3. Line(a) = g \o o
  BY DEF Line, g, o
<1>4. /\ Len(g) \in Nat /\ Len(o) \in Nat
      /\ Len(Line(a)) = Len(g) + Len(o)
      /\ \A i \in 1..Len(g) : Line(a)[i] = g[i]
      /\ \A i \in 1..Len(o) : Line(a)[Len(g) + i] = o[i]
      /\ \A i \in 1..Len(Line(a)) : Line(a)[i] \in Nat
      /\ o = <<>> => Line(a) = g
  BY <1>2, <1>3, Zenon
<1>5. Len(Line(a)) \in Nat /\ Len(g) <= Len(Line(a))
  BY <1>4
<1>6. /\ \A i \in 1..Len(g) : i \in 1..Len(Line(a))
      /\ \A i \in 1..Len(o) : Len(g) + i \in 1..Len(Line(a))
  BY <1>4, <1>5
<1> QED
  BY <1>4, <1>5, <1>6 DEF g, o

\* Frames are only added, losses only noted, and a dispatched call stays what it is.
Grows ==
    /\ \A c \in Calls : /\ Len(made[c]) <= Len(made'[c])
                        /\ \A i \in 1..Len(made[c]) : made'[c][i] = made[c][i]
                        /\ src[c] # "none" => /\ src'[c] = src[c]
                                              /\ c \in named' => c \in named
                                              /\ c \in live' => c \in live
    /\ lost \subseteq lost' /\ dropped \subseteq dropped' /\ lagged \subseteq lagged'

\* The lengths of the frames are numbers.
LEMMA MadeLens ==
    ASSUME TypeOK
    PROVE  \A c \in Calls : Len(made[c]) \in Nat
BY LenProperties DEF TypeOK, CallTypeOK

\* What is known of a frame stays so.
LEMMA GrowsFacts ==
    ASSUME Inv, TypeOK', Grows, NEW a \in Awaiters, target'[a] = target[a], target[a] \in Calls
    PROVE  /\ Len(made[target[a]]) \in Nat /\ Len(made'[target[a]]) \in Nat
           /\ \A i : i \in 1..Len(made[target[a]]) => i \in 1..Len(made'[target[a]])
           /\ \A i : Plain(a, i) => Plain(a, i)'
           /\ \A i : IsTerminal(target[a], i) =>
                        i \in 1..Len(made'[target[a]]) /\ made'[target[a]][i] \in Terminals
           /\ Excused(a) => Excused(a)'
<1>1. Len(made[target[a]]) \in Nat /\ Len(made'[target[a]]) \in Nat
  BY MadeLens DEF Inv, TypeOK, CallTypeOK
<1>2. Len(made[target[a]]) <= Len(made'[target[a]])
  BY DEF Grows
<1>3. \A i : i \in 1..Len(made[target[a]]) => i \in 1..Len(made'[target[a]])
                                           /\ made'[target[a]][i] = made[target[a]][i]
  BY <1>1, <1>2 DEF Grows
<1>4. Excused(a) => Excused(a)'
  BY DEF Excused, Grows
<1> QED
  BY <1>1, <1>3, <1>4 DEF Plain, IsTerminal

\* A step of others: the await stream is as it was.
LEMMA StreamKept ==
    ASSUME Inv, TypeOK', Grows, NEW a \in Awaiters,
           apc'[a] = apc[a], target'[a] = target[a], mode'[a] = mode[a], nxt'[a] = nxt[a],
           rec'[a] = rec[a], out'[a] = out[a], got'[a] = got[a]
    PROVE  Opening(a)' /\ Lines(a)' /\ Task(a)'
<1>0. /\ Opening(a) /\ Lines(a) /\ Task(a) /\ TypeOK
      /\ Line(a)' = Line(a)
      /\ Len(Line(a)) \in Nat
  <2>1. Line(a)' = Line(a)
    BY DEF Line
  <2> QED
    BY <2>1, LineFacts DEF Inv, Streams
<1>1. Opening(a)'
  BY <1>0 DEF Opening, Grows
<1>2. CASE target[a] \in Calls
  <2>1. Lines(a)'
    BY <1>0, <1>2, GrowsFacts DEF Lines
  <2>2. Task(a)'
    <3>1. Excused(a) => Excused(a)'
      BY <1>2, GrowsFacts
    <3>2. ASSUME apc[a] = "stream", mode[a] = "record"
          PROVE  /\ \A i \in 1..Len(rec[a]) : rec[a][i] \in 1..Len(made'[target[a]])
                 /\ \/ /\ rec[a][Len(rec[a])] \in 1..Len(made'[target[a]])
                       /\ made'[target[a]][rec[a][Len(rec[a])]] \in Terminals
                    \/ target[a] \in lost' \cup dropped'
      <4>1. \A i \in 1..Len(rec[a]) : rec[a][i] \in 1..Len(made'[target[a]])
        BY <1>0, <1>2, <3>2, GrowsFacts DEF Task
      <4>2. CASE IsTerminal(target[a], rec[a][Len(rec[a])])
        BY <1>2, <4>1, <4>2, GrowsFacts
      <4>3. CASE target[a] \in lost \cup dropped
        BY <4>1, <4>3 DEF Grows
      <4> QED
        BY <1>0, <3>2, <4>1, <4>2, <4>3 DEF Task
    <3> QED
      BY <1>0, <3>1, <3>2 DEF Task, IsTerminal
  <2> QED
    BY <1>1, <2>1, <2>2
<1>3. CASE target[a] \notin Calls
  <2>1. apc[a] = "idle" /\ got[a] = <<>> /\ out[a] = <<>>
    BY <1>0, <1>3 DEF Opening
  <2>2. Len(Line(a)) = 0
    <3>1. Line(a) = <<>>
      BY <1>0, <2>1, LineFacts
    <3> QED
      BY <3>1
  <2> QED
    BY <1>0, <1>1, <2>1, <2>2 DEF Lines, Task
<1> QED
  BY <1>2, <1>3

\* The stream is dropped: what its client has read is left.
LEMMA StreamCut ==
    ASSUME Inv, TypeOK', Grows, NEW a \in Awaiters,
           \/ apc'[a] = "left" /\ apc[a] # "idle"
           \/ apc'[a] = apc[a] /\ ~Open(a),
           target'[a] = target[a], mode'[a] = mode[a], nxt'[a] = nxt[a],
           rec'[a] = rec[a], out'[a] = <<>>, got'[a] = got[a]
    PROVE  Opening(a)' /\ Lines(a)' /\ Task(a)'
<1>0. /\ Opening(a) /\ Lines(a) /\ Task(a) /\ TypeOK
      /\ Line(a)' = got[a]
      /\ Len(got[a]) \in Nat /\ Len(Line(a)) \in Nat /\ Len(got[a]) <= Len(Line(a))
      /\ \A i \in 1..Len(got[a]) : got[a][i] = Line(a)[i]
  <2>1. got[a] \in Seq(Nat)
    BY DEF Inv, TypeOK, AwaitTypeOK
  <2>2. Line(a)' = got[a]
    BY <2>1, ConcatEmptySeq DEF Line
  <2>3. TypeOK /\ Opening(a) /\ Lines(a) /\ Task(a)
    BY DEF Inv, Streams
  <2>4. /\ Len(got[a]) \in Nat /\ Len(Line(a)) \in Nat /\ Len(got[a]) <= Len(Line(a))
        /\ \A i \in 1..Len(got[a]) : Line(a)[i] = got[a][i]
    BY <2>3, LineFacts
  <2> QED
    BY <2>2, <2>3, <2>4, Zenon
<1>1. Opening(a)'
  BY <1>0 DEF Opening, Grows, Open
<1>2. apc'[a] \notin {"stream", "closing"}
  BY DEF Open
<1>3. CASE target[a] \in Calls
  <2>1. Lines(a)'
    <3>1. \A i \in 1..Len(got[a]) : i \in 1..Len(Line(a))
      BY <1>0
    <3>2. \A i \in 1..Len(got[a]) :
         /\ got[a][i] = 0 \/ got[a][i] \in 1..Len(made[target[a]])
         /\ got[a][i] = 0 => Excused(a)
         /\ got[a][i] # 0 /\ mode[a] = "live" => got[a][i] = i
      BY <1>0, <3>1 DEF Lines
    <3>3. \A i, j \in 1..Len(got[a]) :
             i < j => Plain(a, got[a][i]) /\ (got[a][j] = 0 \/ got[a][i] < got[a][j])
      BY <1>0, <3>1 DEF Lines
    <3> QED
      BY <1>0, <1>2, <1>3, <3>2, <3>3, GrowsFacts DEF Lines
  <2> QED
    BY <1>1, <1>2, <2>1 DEF Task
<1>4. CASE target[a] \notin Calls
  <2>1. got[a] = <<>> /\ Len(got[a]) = 0
    BY <1>0, <1>4 DEF Opening
  <2> QED
    BY <1>0, <1>1, <1>2, <2>1 DEF Lines, Task
<1> QED
  BY <1>3, <1>4

\* An item is sent: it comes after what was there.
LEMMA ConcatAppend ==
    ASSUME NEW g \in Seq(Nat), NEW o \in Seq(Nat), NEW x \in Nat
    PROVE  /\ Len(g \o Append(o, x)) = Len(g \o o) + 1
           /\ \A i \in 1..Len(g \o o) : (g \o Append(o, x))[i] = (g \o o)[i]
           /\ (g \o Append(o, x))[Len(g \o o) + 1] = x
<1> DEFINE p == Append(o, x)
<1> DEFINE l == g \o o
<1> DEFINE m == g \o p
<1>1. /\ Len(g) \in Nat /\ Len(o) \in Nat
      /\ p \in Seq(Nat) /\ Len(p) = Len(o) + 1
      /\ \A i \in 1..Len(o) : p[i] = o[i]
      /\ p[Len(o) + 1] = x
  BY LenProperties, AppendProperties
<1> HIDE DEF p
<1>2. /\ Len(l) = Len(g) + Len(o)
      /\ \A i \in 1..(Len(g) + Len(o)) : l[i] = IF i <= Len(g) THEN g[i] ELSE o[i - Len(g)]
  BY <1>1, ConcatProperties
<1>3. /\ Len(m) = Len(g) + Len(p)
      /\ \A i \in 1..(Len(g) + Len(p)) : m[i] = IF i <= Len(g) THEN g[i] ELSE p[i - Len(g)]
  BY <1>1, ConcatProperties
<1> HIDE DEF l, m
<1>4. ASSUME NEW i \in 1..Len(l) PROVE m[i] = l[i]
  <2>1. i \in 1..(Len(g) + Len(o)) /\ i \in 1..(Len(g) + Len(p))
    BY <1>1, <1>2
  <2>2. CASE i <= Len(g)
    BY <1>2, <1>3, <2>1, <2>2
  <2>3. CASE ~(i <= Len(g))
    <3>1. i - Len(g) \in 1..Len(o)
      BY <1>1, <2>1, <2>3
    <3> QED
      BY <1>1, <1>2, <1>3, <2>1, <2>3, <3>1
  <2> QED
    BY <2>2, <2>3
<1>5. m[Len(l) + 1] = x
  <2>1. /\ Len(l) + 1 \in 1..(Len(g) + Len(p)) /\ ~(Len(l) + 1 <= Len(g))
        /\ (Len(l) + 1) - Len(g) = Len(o) + 1
    BY <1>1, <1>2
  <2> QED
    BY <1>1, <1>3, <2>1
<1>6. Len(m) = Len(l) + 1
  BY <1>1, <1>2, <1>3
<1> QED
  BY <1>4, <1>5, <1>6 DEF l, m, p

\* An item is read: what was sent is the same.
LEMMA ConcatMove ==
    ASSUME NEW g \in Seq(Nat), NEW o \in Seq(Nat), o # <<>>
    PROVE  Append(g, Head(o)) \o Tail(o) = g \o o
<1> DEFINE h == Append(g, Head(o))
<1> DEFINE t == Tail(o)
<1> DEFINE l == g \o o
<1> DEFINE m == h \o t
<1>1. /\ Len(g) \in Nat /\ Len(o) \in Nat /\ Len(o) # 0
      /\ Head(o) \in Nat /\ Head(o) = o[1]
      /\ t \in Seq(Nat) /\ Len(t) = Len(o) - 1
      /\ \A i \in 1..Len(t) : t[i] = o[i + 1]
  BY LenProperties, HeadTailProperties, EmptySeq
<1>2. /\ h \in Seq(Nat) /\ Len(h) = Len(g) + 1
      /\ \A i \in 1..Len(g) : h[i] = g[i]
      /\ h[Len(g) + 1] = o[1]
  BY <1>1, AppendProperties
<1> HIDE DEF h, t
<1>3. /\ l \in Seq(Nat) /\ Len(l) = Len(g) + Len(o)
      /\ \A i \in 1..(Len(g) + Len(o)) : l[i] = IF i <= Len(g) THEN g[i] ELSE o[i - Len(g)]
  BY <1>1, ConcatProperties
<1>4. /\ m \in Seq(Nat) /\ Len(m) = Len(h) + Len(t)
      /\ \A i \in 1..(Len(h) + Len(t)) : m[i] = IF i <= Len(h) THEN h[i] ELSE t[i - Len(h)]
  BY <1>1, <1>2, ConcatProperties
<1> HIDE DEF l, m
<1>5. Len(m) = Len(l)
  BY <1>1, <1>2, <1>3, <1>4
<1>6. ASSUME NEW i \in 1..Len(m) PROVE m[i] = l[i]
  <2>1. i \in 1..(Len(g) + Len(o)) /\ i \in 1..(Len(h) + Len(t))
    BY <1>3, <1>4, <1>5
  <2>2. CASE i <= Len(g)
    <3>1. i <= Len(h) /\ i \in 1..Len(g)
      BY <1>1, <1>2, <2>1, <2>2
    <3> QED
      BY <1>2, <1>3, <1>4, <2>1, <2>2, <3>1
  <2>3. CASE i = Len(g) + 1
    <3>1. i <= Len(h) /\ ~(i <= Len(g)) /\ i - Len(g) = 1
      BY <1>1, <1>2, <2>3
    <3> QED
      BY <1>2, <1>3, <1>4, <2>1, <2>3, <3>1
  <2>4. CASE i > Len(g) + 1
    <3>1. /\ ~(i <= Len(h)) /\ ~(i <= Len(g)) /\ i - Len(h) \in 1..Len(t)
          /\ (i - Len(h)) + 1 = i - Len(g)
      BY <1>1, <1>2, <2>1, <2>4
    <3> QED
      BY <1>1, <1>3, <1>4, <2>1, <3>1
  <2> QED
    BY <1>1, <2>1, <2>2, <2>3, <2>4
<1>7. m = l
  BY <1>3, <1>4, <1>5, <1>6, SeqEqual
<1> QED
  BY <1>7 DEF m, l, h, t

\* Every step only adds frames.
LEMMA NextGrows ==
    ASSUME Inv, Next
    PROVE  Grows
<1>0. TypeOK /\ CallTypeOK /\ \A c \in Calls : Len(made[c]) \in Nat
  BY MadeLens DEF Inv, TypeOK
<1>1. ASSUME UNCHANGED <<src, named, made>>, live' \subseteq live,
             lost \subseteq lost', dropped \subseteq dropped', lagged \subseteq lagged'
      PROVE  Grows
  BY <1>0, <1>1 DEF Grows
<1>2. ASSUME NEW c \in Calls, NEW k \in Kinds, made' = [made EXCEPT ![c] = Append(@, k)],
             UNCHANGED <<src, named, live, lost, lagged>>, dropped \subseteq dropped'
      PROVE  Grows
  <2>1. \A d \in Calls : Len(made[d]) <= Len(made'[d])
    BY <1>0, <1>2, AddsFacts
  <2>2. \A d \in Calls : \A i \in 1..Len(made[d]) : made'[d][i] = made[d][i]
    BY <1>0, <1>2, AddsFacts
  <2> QED
    BY <1>2, <2>1, <2>2 DEF Grows
<1> USE DEF callVars, sessVars, histVars
<1>3. ASSUME NEW i \in Inputs, DispatchTool(i[1], i[2], i[3]) PROVE Grows
  <2>1. i[1] \in Calls
    BY InputsAssumption
  <2>2. \A c \in Calls : src[c] # "none" =>  /\ src'[c] = src[c]
                                             /\ c \in named' => c \in named
                                             /\ c \in live' => c \in live
    BY <1>0, <1>3, <2>1 DEF DispatchTool, CallTypeOK
  <2>3. UNCHANGED <<made, lost, dropped, lagged>>
    BY <1>3 DEF DispatchTool
  <2>4. \A c \in Calls : Len(made[c]) <= Len(made'[c])
    BY <1>0, <2>3
  <2> QED
    BY <2>2, <2>3, <2>4 DEF Grows
<1>4. ASSUME NEW c \in Calls,
             \/ RecordDispatchedCall(c) \/ CancelTool(c) \/ TurnCancelled(c)
             \/ RecvFrame(c) \/ Publish(c) \/ RecvEnds(c) \/ Retire(c)
      PROVE  Grows
  <2>1. UNCHANGED <<src, named, made, lost, dropped, lagged>> /\ live' \subseteq live
    BY <1>4 DEF RecordDispatchedCall, CancelTool, TurnCancelled, RecvFrame, Publish, RecvEnds, Retire
  <2> QED
    BY <1>1, <2>1
<1>5. ASSUME NEW c \in Calls, AppendFrame(c) \/ AppendFrameFails(c) PROVE Grows
  <2>1. UNCHANGED <<src, named, made, live, dropped, lagged>>
    BY <1>5 DEF AppendFrame, AppendFrameFails
  <2>2. lost \subseteq lost'
    BY <1>5 DEF AppendFrame, AppendFrameFails
  <2> QED
    BY <1>1, <2>1, <2>2
<1>6. ASSUME NEW c \in Calls, NEW k \in FrameKinds, PodFrame(c, k) PROVE Grows
  <2>1. k \in Kinds
    BY KindsAssumption
  <2> QED
    BY <1>2, <1>6, <2>1 DEF PodFrame
<1>7. ASSUME NEW c \in Calls, PodBreaks(c) PROVE Grows
  <2>1. "failed" \in Kinds
    BY DEF Kinds, Terminals
  <2>2. UNCHANGED <<src, named, live, lost, lagged>> /\ dropped \subseteq dropped'
    BY <1>7 DEF PodBreaks
  <2>3. made' = made \/ made' = [made EXCEPT ![c] = Append(@, "failed")]
    BY <1>7 DEF PodBreaks
  <2> QED
    BY <1>1, <1>2, <2>1, <2>2, <2>3
<1>8. ASSUME NEW c \in Calls, NEW b \in Blocks(c), NEW e \in BOOLEAN, RuntimeReturns(c, b, e)
      PROVE  Grows
  <2>1. made[c] = <<>> /\ Len(made[c]) = 0
    BY <1>8 DEF RuntimeReturns, Inv, Frames
  <2>2. Len(made'[c]) \in Nat
    BY <1>0, <1>8, ResponseFacts DEF RuntimeReturns, CallTypeOK
  <2>3. \A d \in Calls \ {c} : made'[d] = made[d]
    BY <1>0, <1>8 DEF RuntimeReturns, CallTypeOK
  <2>4. UNCHANGED <<src, named, live, lost, dropped, lagged>>
    BY <1>8 DEF RuntimeReturns
  <2>5. \A d \in Calls : Len(made[d]) <= Len(made'[d])
    BY <1>0, <2>1, <2>2, <2>3
  <2>6. \A d \in Calls : \A i \in 1..Len(made[d]) : made'[d][i] = made[d][i]
    BY <2>1, <2>3
  <2> QED
    BY <2>4, <2>5, <2>6 DEF Grows
<1>9. ASSUME NEW a \in Awaiters, AwaitStep(a) \/ ClientReads(a) \/ Leave(a) PROVE Grows
  <2>1. UNCHANGED <<src, named, made, live, lost, dropped>> /\ lagged \subseteq lagged'
    BY <1>9 DEF AwaitStep, ClientReads, Leave, Lookup, Subscribe, ReadRecord, FollowSession, Lag,
                SenderGone, ReplayRecord, FailedTerminal
  <2> QED
    BY <1>1, <2>1
<1>10. ASSUME NEW a \in Awaiters, NEW c \in Calls, AwaitToolResult(a, c) PROVE Grows
  BY <1>1, <1>10 DEF AwaitToolResult
<1>11. CASE DeleteConversation \/ RelayRestart
  BY <1>1, <1>11 DEF DeleteConversation, RelayRestart
<1>12. CASE HarnessRestart
  <2>1. UNCHANGED <<src, named, made, dropped, lagged>> /\ live' = {}
    BY <1>12 DEF HarnessRestart
  <2>2. lost \subseteq lost'
    BY <1>12 DEF HarnessRestart
  <2> QED
    BY <1>1, <2>1, <2>2
<1>13. CASE Finished
  BY <1>1, <1>13 DEF Finished, vars
<1> QED
  BY <1>3, <1>4, <1>5, <1>6, <1>7, <1>8, <1>9, <1>10, <1>11, <1>12, <1>13 DEF Next, CallStep

\* A frame goes into the channel of an await stream that has not been given a terminal.
LEMMA Sends ==
    ASSUME Inv, TypeOK', NEW a \in Awaiters, NEW x \in Nat,
           apc[a] \in {"stream", "closing"},
           out'[a] = Append(out[a], x), got'[a] = got[a], target'[a] = target[a], mode'[a] = mode[a],
           UNCHANGED <<made, lost, dropped, lagged>>,
           x = 0 => Excused(a),
           x # 0 => x \in 1..Len(made[target[a]]),
           x # 0 => \A i \in 1..Len(Line(a)) : Line(a)[i] < x,
           x # 0 /\ mode[a] = "live" => x = Len(Line(a)) + 1,
           apc'[a] \in {"stream", "closing"} => Plain(a, x)
    PROVE  /\ Lines(a)'
           /\ Len(Line(a)) \in Nat /\ Len(Line(a)') = Len(Line(a)) + 1
           /\ \A i \in 1..Len(Line(a)) : Line(a)'[i] = Line(a)[i]
           /\ Line(a)'[Len(Line(a)) + 1] = x
<1>1. /\ Len(Line(a)) \in Nat /\ Len(Line(a)') = Len(Line(a)) + 1
      /\ \A i \in 1..Len(Line(a)) : Line(a)'[i] = Line(a)[i]
      /\ Line(a)'[Len(Line(a)) + 1] = x
  <2>1. got[a] \in Seq(Nat) /\ out[a] \in Seq(Nat) /\ TypeOK
    BY DEF Inv, TypeOK, AwaitTypeOK
  <2>2. Line(a) = got[a] \o out[a] /\ Line(a)' = got[a] \o Append(out[a], x)
    BY DEF Line
  <2>3. Len(Line(a)) \in Nat
    BY <2>1, LineFacts
  <2> DEFINE g == got[a]
  <2> DEFINE o == out[a]
  <2>4. g \in Seq(Nat) /\ o \in Seq(Nat)
    BY <2>1
  <2> HIDE DEF g, o
  <2>5. /\ Len(g \o Append(o, x)) = Len(g \o o) + 1
        /\ \A i \in 1..Len(g \o o) : (g \o Append(o, x))[i] = (g \o o)[i]
        /\ (g \o Append(o, x))[Len(g \o o) + 1] = x
    BY <2>4, ConcatAppend
  <2> QED
    BY <2>2, <2>3, <2>5, Zenon DEF g, o
<1>2. /\ \A i : Plain(a, i)' <=> Plain(a, i)
      /\ Excused(a)' <=> Excused(a)
  BY DEF Plain, Excused
<1>3. /\ Lines(a)
      /\ \A i \in 1..Len(Line(a)) : Plain(a, Line(a)[i])
  BY DEF Inv, Streams, Lines
<1> DEFINE l == Line(a)
<1> DEFINE m == Line(a)'
<1> DEFINE n == Len(l)
<1>4. /\ n \in Nat /\ Len(m) = n + 1 /\ m[n + 1] = x
      /\ \A i \in 1..n : m[i] = l[i]
      /\ \A i \in 1..(n + 1) : i \in 1..n \/ i = n + 1
  BY <1>1
<1>5. ASSUME NEW i \in 1..(n + 1)
      PROVE  /\ m[i] = 0 \/ m[i] \in 1..Len(made[target[a]])
             /\ m[i] = 0 => Excused(a)
             /\ m[i] # 0 /\ mode[a] = "live" => m[i] = i
  <2>1. CASE i \in 1..n
    BY <1>3, <1>4, <2>1 DEF Lines
  <2>2. CASE i = n + 1
    BY <1>4, <2>2
  <2> QED
    BY <1>4, <2>1, <2>2
<1>6. ASSUME NEW i \in 1..(n + 1), NEW j \in 1..(n + 1), i < j
      PROVE  Plain(a, m[i]) /\ (m[j] = 0 \/ m[i] < m[j])
  <2>1. i \in 1..n
    BY <1>4, <1>6
  <2>2. CASE j \in 1..n
    BY <1>3, <1>4, <1>6, <2>1, <2>2 DEF Lines
  <2>3. CASE j = n + 1
    BY <1>3, <1>4, <2>1, <2>3
  <2> QED
    BY <1>4, <2>2, <2>3
<1>7. ASSUME apc'[a] \in {"stream", "closing"}, NEW i \in 1..(n + 1) PROVE Plain(a, m[i])
  BY <1>3, <1>4, <1>7
<1> HIDE DEF l, m, n
<1>8. Lines(a)'
  <2>1. Line(a)' = m /\ Len(m) = n + 1 /\ target'[a] = target[a] /\ mode'[a] = mode[a] /\ made' = made
    BY <1>4 DEF m
  <2> QED
    BY <1>2, <1>5, <1>6, <1>7, <2>1 DEF Lines
<1> QED
  BY <1>1, <1>8

\* The record of a call that is over and lost nothing ends in its terminal.
LEMMA RecordComplete ==
    ASSUME Inv, NEW c \in Calls, src[c] \in {"toolset", "runtime"}, c \notin live, c \in named,
           c \notin lost \cup dropped
    PROVE  log[c] # <<>> /\ IsTerminal(c, log[c][Len(log[c])])
<1> DEFINE n == Len(made[c])
<1>0. /\ n \in Nat /\ Len(log[c]) \in Nat /\ log[c] \in Seq(Nat)
      /\ \A i \in 1..Len(log[c]) : log[c][i] \in Nat
  <2>1. log[c] \in Seq(Nat) /\ TypeOK
    BY DEF Inv, TypeOK, RecordTypeOK
  <2> QED
    BY <2>1, MadeLens, LenProperties, ElementOfSeq
<1>1. Drained(c) /\ taken[c] = n /\ pod[c] = "closed" /\ cpc[c] # "append"
  BY DEF Inv, Consumers, Drained
<1>2. n \in 1..n /\ made[c][n] \in Terminals
  BY <1>1 DEF Inv, Frames, IsTerminal
<1>3. Offered(c, n) /\ made[c][n] # "image"
  BY <1>1, <1>2 DEF Offered, Terminals
<1>4. PICK i \in 1..Len(log[c]) : log[c][i] = n
  BY <1>1, <1>2, <1>3 DEF Inv, Records
<1>5. Len(log[c]) \in 1..Len(log[c])
  BY <1>0, <1>4
<1>6. log[c][Len(log[c])] <= n
  BY <1>0, <1>1, <1>5 DEF Inv, Records, Offered
<1>7. i < Len(log[c]) => n < log[c][Len(log[c])]
  BY <1>4, <1>5 DEF Inv, Records, Increasing
<1>8. i = Len(log[c])
  BY <1>0, <1>4, <1>6, <1>7, <1>5
<1>9. log[c] # <<>>
  BY <1>5
<1> QED
  BY <1>2, <1>4, <1>8, <1>9 DEF IsTerminal

\* An await stream that is not open yet has no frames.
LEMMA NoLine ==
    ASSUME Inv, TypeOK', NEW a \in Awaiters, apc[a] \in {"idle", "asked", "found", "gone"},
           out'[a] = out[a], got'[a] = got[a]
    PROVE  /\ mode[a] = "none" /\ nxt[a] = 1 /\ got[a] = <<>> /\ out[a] = <<>>
           /\ Len(Line(a)') = 0
           /\ Lines(a)'
<1>1. mode[a] = "none" /\ nxt[a] = 1 /\ got[a] = <<>> /\ out[a] = <<>>
  BY DEF Inv, Streams, Opening
<1>2. Line(a)' = <<>>
  <2>1. <<>> \in Seq(Nat)
    BY EmptySeq
  <2>2. Line(a)' = <<>> \o <<>>
    BY <1>1 DEF Line
  <2> QED
    BY <2>1, <2>2, ConcatEmptySeq
<1>3. Len(Line(a)') = 0
  BY <1>2
<1> QED
  BY <1>1, <1>3 DEF Lines

\* An await stream is asked for and opened.
LEMMA Opens ==
    ASSUME Inv, TypeOK', NEW a \in Awaiters
    PROVE  /\ Lookup(a) \/ Subscribe(a) \/ ReadRecord(a) => Opening(a)' /\ Lines(a)' /\ Task(a)'
           /\ (\E c \in Calls : AwaitToolResult(a, c)) => Opening(a)' /\ Lines(a)' /\ Task(a)'
<1>0. AwaitTypeOK /\ CallTypeOK /\ RecordTypeOK /\ Opening(a) /\ TypeOK
  BY DEF Inv, TypeOK, Streams
<1> USE DEF callVars, sessVars, histVars
<1>1. ASSUME NEW c \in Calls, AwaitToolResult(a, c) PROVE Opening(a)' /\ Lines(a)' /\ Task(a)'
  <2>1. apc[a] = "idle" /\ apc'[a] = "asked" /\ target'[a] = c /\ src' = src /\ c \in known
    BY <1>0, <1>1 DEF AwaitToolResult, AwaitTypeOK
  <2>2. mode'[a] = mode[a] /\ nxt'[a] = nxt[a] /\ out'[a] = out[a] /\ got'[a] = got[a]
    BY <1>1 DEF AwaitToolResult
  <2>3. src[c] \in {"toolset", "runtime"}
    BY <2>1 DEF Inv, Consumers
  <2>4. mode[a] = "none" /\ nxt[a] = 1 /\ got[a] = <<>> /\ out[a] = <<>> /\ Lines(a)'
    BY <2>1, <2>2, NoLine
  <2> QED
    BY <2>1, <2>2, <2>3, <2>4 DEF Opening, Task
<1>2. ASSUME Lookup(a) PROVE Opening(a)' /\ Lines(a)' /\ Task(a)'
  <2>1. /\ apc[a] = "asked" /\ apc'[a] \in {"found", "gone"}
        /\ apc'[a] = "gone" => target[a] \notin live
    BY <1>0, <1>2 DEF Lookup, AwaitTypeOK
  <2>2. UNCHANGED <<src, named, live, target, mode, nxt, out, got, lost, dropped>>
    BY <1>2 DEF Lookup
  <2>4. mode[a] = "none" /\ nxt[a] = 1 /\ got[a] = <<>> /\ out[a] = <<>> /\ Lines(a)'
    BY <2>1, <2>2, NoLine
  <2> QED
    BY <1>0, <2>1, <2>2, <2>4 DEF Opening, Task
<1>3. ASSUME Subscribe(a) PROVE Opening(a)' /\ Lines(a)' /\ Task(a)'
  <2>1. apc[a] = "found" /\ apc'[a] = "stream" /\ mode'[a] = "live"
    BY <1>0, <1>3 DEF Subscribe, AwaitTypeOK
  <2>2. UNCHANGED <<src, named, live, target, nxt, out, got, lost, dropped>>
    BY <1>3 DEF Subscribe
  <2>4. nxt[a] = 1 /\ got[a] = <<>> /\ out[a] = <<>> /\ Lines(a)' /\ Len(Line(a)') = 0
    BY <2>1, <2>2, NoLine
  <2> QED
    BY <1>0, <2>1, <2>2, <2>4 DEF Opening, Task
<1>4. ASSUME ReadRecord(a) PROVE Opening(a)' /\ Lines(a)' /\ Task(a)'
  <2>1. /\ apc[a] = "gone"
        /\ UNCHANGED <<src, named, live, target, nxt, out, got, lost, dropped, made>>
    BY <1>4 DEF ReadRecord
  <2>2. mode[a] = "none" /\ nxt[a] = 1 /\ got[a] = <<>> /\ out[a] = <<>> /\ Lines(a)' /\ Len(Line(a)') = 0
    BY <2>1, NoLine
  <2>3. target[a] \in Calls /\ src[target[a]] \in {"toolset", "runtime"} /\ target[a] \notin live
    BY <1>0, <2>1 DEF Opening
  <2>4. \/ /\ target[a] \notin named \/ log[target[a]] = <<>>
           /\ apc' = [apc EXCEPT ![a] = "notfound"] /\ mode' = mode
        \/ /\ target[a] \in named /\ log[target[a]] # <<>>
           /\ rec' = [rec EXCEPT ![a] = log[target[a]]]
           /\ mode' = [mode EXCEPT ![a] = "record"]
           /\ apc' = [apc EXCEPT ![a] = "stream"]
    BY <1>4 DEF ReadRecord, Persisted
  <2>5. CASE /\ target[a] \notin named \/ log[target[a]] = <<>>
             /\ apc' = [apc EXCEPT ![a] = "notfound"] /\ mode' = mode
    <3>1. target[a] \notin named \ (lost \cup dropped)
      BY <2>3, <2>5, RecordComplete
    <3>2. apc'[a] = "notfound"
      BY <1>0, <2>5 DEF AwaitTypeOK
    <3> QED
      BY <2>1, <2>2, <2>3, <2>5, <3>1, <3>2 DEF Opening, Task
  <2>6. CASE /\ target[a] \in named /\ log[target[a]] # <<>>
             /\ rec' = [rec EXCEPT ![a] = log[target[a]]]
             /\ mode' = [mode EXCEPT ![a] = "record"]
             /\ apc' = [apc EXCEPT ![a] = "stream"]
    <3>1. apc'[a] = "stream" /\ mode'[a] = "record" /\ rec'[a] = log[target[a]]
      BY <1>0, <2>6 DEF AwaitTypeOK
    <3>2. Opening(a)'
      BY <2>1, <2>2, <2>3, <3>1 DEF Opening
    <3>3. /\ Len(log[target[a]]) \in Nat /\ Len(log[target[a]]) # 0
      <4>1. log[target[a]] \in Seq(Nat)
        BY <1>0, <2>3 DEF RecordTypeOK
      <4> QED
        BY <2>6, <4>1, LenProperties, EmptySeq
    <3>4. Increasing(log[target[a]])
      BY <2>3 DEF Inv, Records
    <3>5. \A i \in 1..Len(log[target[a]]) : log[target[a]][i] \in 1..Len(made[target[a]])
      <4>1. /\ taken[target[a]] \in Nat /\ Len(made[target[a]]) \in Nat
            /\ taken[target[a]] <= Len(made[target[a]])
        BY <1>0, <2>3, MadeLens DEF Inv, Consumers, CallTypeOK
      <4> QED
        BY <2>3, <4>1 DEF Inv, Records, Offered
    <3>6. \/ IsTerminal(target[a], log[target[a]][Len(log[target[a]])])
          \/ target[a] \in lost \cup dropped
      BY <2>3, <2>6, RecordComplete
    <3>7. 1 <= Len(log[target[a]])
      BY <3>3
    <3>8. Task(a)'
      <4>1. Len(Line(a)') = 0 /\ nxt'[a] = 1 /\ nxt'[a] - 1 = 0
        BY <2>1, <2>2
      <4>2. \A i \in 1..Len(Line(a)') : Line(a)'[i] = rec'[a][i]
        BY <4>1
      <4> QED
        BY <2>1, <3>1, <3>4, <3>5, <3>6, <3>7, <4>1, <4>2 DEF Task, IsTerminal
    <3> QED
      BY <2>2, <3>2, <3>8
  <2> QED
    BY <2>4, <2>5, <2>6
<1> QED
  BY <1>1, <1>2, <1>3, <1>4

\* What an open await stream is about.
LEMMA OpenFacts ==
    ASSUME Inv, NEW a \in Awaiters, apc[a] \in {"stream", "closing"}
    PROVE  /\ target[a] \in Calls /\ src[target[a]] \in {"toolset", "runtime"} /\ mode[a] # "none"
           /\ Len(made[target[a]]) \in Nat /\ Len(Line(a)) \in Nat
           /\ nxt[a] \in Nat \ {0}
           /\ apc[a] = "stream" => Len(Line(a)) = nxt[a] - 1
           /\ \A i \in 1..Len(Line(a)) : Plain(a, Line(a)[i]) /\ Line(a)[i] # 0
           /\ mode[a] = "live" => \A i \in 1..Len(Line(a)) : Line(a)[i] = i
<1>1. TypeOK /\ Opening(a) /\ Lines(a) /\ Task(a)
  BY DEF Inv, Streams
<1>2. target[a] \in Calls /\ src[target[a]] \in {"toolset", "runtime"} /\ mode[a] # "none"
  BY <1>1 DEF Opening
<1>3. Len(made[target[a]]) \in Nat /\ Len(Line(a)) \in Nat /\ nxt[a] \in Nat \ {0}
  BY <1>1, <1>2, MadeLens, LineFacts DEF TypeOK, AwaitTypeOK
<1>4. \A i \in 1..Len(Line(a)) : Plain(a, Line(a)[i])
  BY <1>1 DEF Lines
<1>5. \A i \in 1..Len(Line(a)) : Line(a)[i] # 0
  BY <1>3, <1>4 DEF Plain
<1>6. mode[a] = "live" => \A i \in 1..Len(Line(a)) : Line(a)[i] = i
  BY <1>1, <1>5 DEF Lines
<1> QED
  BY <1>1, <1>2, <1>3, <1>4, <1>5, <1>6 DEF Task

\* The live session is followed.
LEMMA FollowsSession ==
    ASSUME Inv, TypeOK', NEW a \in Awaiters, FollowSession(a)
    PROVE  Opening(a)' /\ Lines(a)' /\ Task(a)'
<1>0. TypeOK /\ AwaitTypeOK /\ CallTypeOK /\ Opening(a)
  BY DEF Inv, TypeOK, Streams
<1> DEFINE c == target[a]
<1> DEFINE x == nxt[a]
<1>1. /\ apc[a] = "stream" /\ mode[a] = "live" /\ x <= pub[c]
      /\ out'[a] = Append(out[a], x)
      /\ nxt'[a] = x + 1
      /\ apc'[a] = IF IsTerminal(c, x) THEN "sent" ELSE "stream"
  BY <1>0 DEF FollowSession, Send, AwaitTypeOK
<1>2. UNCHANGED <<src, named, made, live, target, mode, rec, got, lagged, lost, dropped>>
  BY DEF FollowSession, callVars, sessVars, histVars
<1>3. /\ c \in Calls /\ src[c] \in {"toolset", "runtime"} /\ Len(made[c]) \in Nat
      /\ Len(Line(a)) \in Nat /\ x \in Nat \ {0} /\ Len(Line(a)) = x - 1
      /\ \A i \in 1..Len(Line(a)) : Line(a)[i] = i
  BY <1>1, OpenFacts
<1>4. x \in 1..Len(made[c])
  <2>1. pub[c] \in Nat /\ taken[c] \in Nat /\ pub[c] <= taken[c] /\ taken[c] <= Len(made[c])
    BY <1>0, <1>3 DEF Inv, Consumers, CallTypeOK
  <2> QED
    BY <1>1, <1>3, <2>1
<1>5. x = Len(Line(a)) + 1 /\ \A i \in 1..Len(Line(a)) : Line(a)[i] < x
  BY <1>3
<1>6. apc'[a] \in {"stream", "closing"} => Plain(a, x)
  BY <1>1, <1>4 DEF Plain, IsTerminal
<1>7. Lines(a)' /\ Len(Line(a)') = Len(Line(a)) + 1
  <2>1. x \in Nat /\ x # 0
    BY <1>3
  <2>2. got'[a] = got[a] /\ target'[a] = target[a] /\ mode'[a] = mode[a]
    BY <1>2
  <2> HIDE DEF c, x
  <2> QED
    BY <1>1, <1>2, <1>4, <1>5, <1>6, <2>1, <2>2, Sends DEF c
<1>8. Len(Line(a)') = nxt'[a] - 1
  BY <1>1, <1>3, <1>7
<1>9. Opening(a)'
  BY <1>0, <1>1, <1>2, <1>3 DEF Opening
<1>10. Task(a)'
  BY <1>1, <1>2, <1>8 DEF Task
<1> QED
  BY <1>7, <1>9, <1>10

\* The record is replayed.
LEMMA ReplaysRecord ==
    ASSUME Inv, TypeOK', NEW a \in Awaiters, ReplayRecord(a)
    PROVE  Opening(a)' /\ Lines(a)' /\ Task(a)'
<1>0. TypeOK /\ AwaitTypeOK /\ CallTypeOK /\ Opening(a) /\ Task(a)
  BY DEF Inv, TypeOK, Streams
<1> DEFINE c == target[a]
<1> DEFINE n == nxt[a]
<1> DEFINE x == rec[a][n]
<1>1. /\ apc[a] = "stream" /\ mode[a] = "record" /\ n <= Len(rec[a])
      /\ out'[a] = Append(out[a], x)
      /\ nxt'[a] = n + 1
      /\ apc'[a] = IF n < Len(rec[a]) THEN "stream"
                   ELSE IF IsTerminal(c, x) THEN "sent" ELSE "closing"
  BY <1>0 DEF ReplayRecord, Send, AwaitTypeOK
<1>2. UNCHANGED <<src, named, made, live, target, mode, rec, got, lagged, lost, dropped>>
  BY DEF ReplayRecord, callVars, sessVars, histVars
<1>3. /\ c \in Calls /\ src[c] \in {"toolset", "runtime"} /\ Len(made[c]) \in Nat
      /\ Len(Line(a)) \in Nat /\ n \in Nat \ {0} /\ Len(Line(a)) = n - 1
  BY <1>1, OpenFacts
<1>4. /\ Increasing(rec[a]) /\ Len(rec[a]) \in Nat
      /\ \A i \in 1..Len(rec[a]) : rec[a][i] \in 1..Len(made[c])
      /\ \A i \in 1..Len(Line(a)) : Line(a)[i] = rec[a][i]
      /\ IsTerminal(c, rec[a][Len(rec[a])]) \/ c \in lost \cup dropped
  <2>1. rec[a] \in Seq(Nat)
    BY <1>0 DEF AwaitTypeOK
  <2> QED
    BY <1>0, <1>1, <2>1, LenProperties DEF Task
<1>5. n \in 1..Len(rec[a]) /\ x \in 1..Len(made[c])
  BY <1>1, <1>3, <1>4
<1>6. \A i \in 1..Len(Line(a)) : Line(a)[i] < x
  <2> TAKE i \in 1..Len(Line(a))
  <2>1. i \in 1..Len(rec[a]) /\ i < n
    BY <1>3, <1>5, <1>4
  <2> QED
    BY <1>4, <1>5, <2>1 DEF Increasing
<1>7. apc'[a] = "stream" => Plain(a, x)
  <2>1. CASE n < Len(rec[a])
    <3>1. Len(rec[a]) \in 1..Len(rec[a])
      BY <1>5
    <3>2. x < rec[a][Len(rec[a])] /\ rec[a][Len(rec[a])] \in 1..Len(made[c])
      BY <1>4, <1>5, <2>1, <3>1 DEF Increasing
    <3>3. x < Len(made[c])
      BY <1>3, <1>5, <3>2
    <3>4. made[c][x] \notin Terminals
      BY <1>3, <1>5, <3>3 DEF Inv, Frames
    <3> QED
      BY <1>5, <3>4 DEF Plain
  <2> QED
    BY <1>1, <2>1
<1>8. apc'[a] = "closing" => Plain(a, x) /\ c \in lost \cup dropped /\ ~(n < Len(rec[a]))
  <2>1. apc'[a] = "closing" => ~IsTerminal(c, x) /\ ~(n < Len(rec[a]))
    BY <1>1
  <2>2. ~(n < Len(rec[a])) => n = Len(rec[a])
    BY <1>4, <1>5
  <2> QED
    BY <1>4, <1>5, <2>1, <2>2 DEF Plain, IsTerminal
<1>9. /\ Lines(a)' /\ Len(Line(a)') = Len(Line(a)) + 1
      /\ \A i \in 1..Len(Line(a)) : Line(a)'[i] = Line(a)[i]
      /\ Line(a)'[Len(Line(a)) + 1] = x
  <2>1. x \in Nat /\ x # 0
    BY <1>3, <1>5
  <2>2. got'[a] = got[a] /\ target'[a] = target[a] /\ mode'[a] = mode[a]
    BY <1>2
  <2>3. apc'[a] \in {"stream", "closing"} => Plain(a, x)
    BY <1>7, <1>8
  <2> HIDE DEF c, x
  <2> QED
    BY <1>1, <1>2, <1>5, <1>6, <2>1, <2>2, <2>3, Sends DEF c
<1>10. Opening(a)'
  BY <1>0, <1>1, <1>2, <1>3 DEF Opening
<1>11. Task(a)'
  <2>1. Len(Line(a)') = n /\ nxt'[a] - 1 = n
    BY <1>1, <1>3, <1>9
  <2>2. \A i \in 1..Len(Line(a)') : Line(a)'[i] = rec[a][i]
    <3> TAKE i \in 1..Len(Line(a)')
    <3>1. i \in 1..Len(Line(a)) \/ i = Len(Line(a)) + 1
      BY <1>3, <2>1
    <3>2. Len(Line(a)) + 1 = n
      BY <1>3
    <3> QED
      BY <1>4, <1>9, <3>1, <3>2
  <2>3. apc'[a] = "stream" => nxt'[a] <= Len(rec[a])
    BY <1>1, <1>3, <1>4
  <2>4. apc'[a] = "closing" => Excused(a)'
    BY <1>2, <1>8 DEF Excused
  <2> QED
    BY <1>1, <1>2, <1>4, <2>1, <2>2, <2>3, <2>4 DEF Task, IsTerminal
<1> QED
  BY <1>9, <1>10, <1>11

\* The stream breaks off and closes with a FAILED of its own.
LEMMA BreaksOff ==
    ASSUME Inv, TypeOK', NEW a \in Awaiters
    PROVE  Lag(a) \/ SenderGone(a) \/ FailedTerminal(a) => Opening(a)' /\ Lines(a)' /\ Task(a)'
<1>0. TypeOK /\ AwaitTypeOK /\ CallTypeOK /\ Opening(a) /\ Lines(a) /\ Task(a)
  BY DEF Inv, TypeOK, Streams
<1> USE DEF callVars, sessVars, histVars
<1>1. ASSUME apc[a] = "stream", apc'[a] = "closing", Excused(a)',
             UNCHANGED <<src, named, made, live, target, mode, nxt, rec, out, got, lost, dropped>>,
             lagged \subseteq lagged'
      PROVE  Opening(a)' /\ Lines(a)' /\ Task(a)'
  <2>1. Line(a)' = Line(a) /\ \A i : Plain(a, i)' <=> Plain(a, i)
    BY <1>1 DEF Line, Plain
  <2>2. Opening(a)'
    BY <1>0, <1>1 DEF Opening
  <2>3. Lines(a)'
    BY <1>0, <1>1, <2>1 DEF Lines
  <2> QED
    BY <1>1, <2>2, <2>3 DEF Task
<1>2. ASSUME Lag(a) PROVE Opening(a)' /\ Lines(a)' /\ Task(a)'
  <2>1. apc[a] = "stream" /\ apc'[a] = "closing" /\ a \in lagged' /\ lagged \subseteq lagged'
    BY <1>0, <1>2 DEF Lag, AwaitTypeOK
  <2>2. UNCHANGED <<src, named, made, live, target, mode, nxt, rec, out, got, lost, dropped>>
    BY <1>2 DEF Lag
  <2>3. Excused(a)'
    BY <2>1 DEF Excused
  <2> QED
    BY <1>1, <2>1, <2>2, <2>3
<1>3. ASSUME SenderGone(a) PROVE Opening(a)' /\ Lines(a)' /\ Task(a)'
  <2>1. /\ apc[a] = "stream" /\ apc'[a] = "closing" /\ mode[a] = "live"
        /\ nxt[a] > pub[target[a]] /\ cpc[target[a]] = "done"
    BY <1>0, <1>3 DEF SenderGone, AwaitTypeOK
  <2>2. UNCHANGED <<src, named, made, live, target, mode, nxt, rec, out, got, lost, dropped, lagged>>
    BY <1>3 DEF SenderGone
  <2> DEFINE c == target[a]
  <2> DEFINE n == Len(made[c])
  <2>3. /\ c \in Calls /\ src[c] # "turn" /\ n \in Nat /\ nxt[a] \in Nat \ {0}
        /\ Len(Line(a)) = nxt[a] - 1
        /\ \A i \in 1..Len(Line(a)) : Plain(a, Line(a)[i]) /\ Line(a)[i] = i
    BY <2>1, OpenFacts
  <2>4. pub[c] = n /\ pod[c] = "closed"
    BY <2>1, <2>3 DEF Inv, Consumers, Drained
  <2>5. c \in lost \cup dropped
    <3>1. SUFFICES ASSUME IsTerminal(c, n) PROVE FALSE
      BY <2>3, <2>4 DEF Inv, Frames
    <3>2. n \in 1..Len(Line(a))
      BY <2>1, <2>3, <2>4, <3>1 DEF IsTerminal
    <3> QED
      BY <2>3, <3>1, <3>2 DEF IsTerminal, Plain
  <2>6. Excused(a)'
    BY <2>2, <2>5 DEF Excused
  <2> QED
    BY <1>1, <2>1, <2>2, <2>6
<1>4. ASSUME FailedTerminal(a) PROVE Opening(a)' /\ Lines(a)' /\ Task(a)'
  <2>1. apc[a] = "closing" /\ apc'[a] = "sent" /\ out'[a] = Append(out[a], 0)
    BY <1>0, <1>4 DEF FailedTerminal, Send, AwaitTypeOK
  <2>2. UNCHANGED <<src, named, made, live, target, mode, nxt, rec, got, lost, dropped, lagged>>
    BY <1>4 DEF FailedTerminal
  <2>3. got'[a] = got[a] /\ target'[a] = target[a] /\ mode'[a] = mode[a] /\ 0 \in Nat
    BY <2>2
  <2>4. Excused(a)
    BY <1>0, <2>1 DEF Task
  <2>5. Lines(a)'
    BY <2>1, <2>2, <2>3, <2>4, Sends
  <2>6. Opening(a)'
    BY <1>0, <2>1, <2>2 DEF Opening
  <2> QED
    BY <2>1, <2>5, <2>6 DEF Task
<1> QED
  BY <1>2, <1>3, <1>4

\* The client reads a frame.
LEMMA Reads ==
    ASSUME Inv, TypeOK', NEW a \in Awaiters, ClientReads(a)
    PROVE  Opening(a)' /\ Lines(a)' /\ Task(a)'
<1>0. TypeOK /\ AwaitTypeOK /\ CallTypeOK /\ Opening(a) /\ Lines(a) /\ Task(a)
  BY DEF Inv, TypeOK, Streams
<1>1. UNCHANGED <<src, named, made, live, target, mode, nxt, rec, lost, dropped, lagged>>
  BY DEF ClientReads, callVars, sessVars, histVars
<1>2. /\ apc[a] \in {"stream", "closing", "sent"}
      /\ apc'[a] = apc[a] \/ (apc[a] = "sent" /\ apc'[a] = "ended")
      /\ out[a] # <<>>
      /\ got'[a] = Append(got[a], Head(out[a])) /\ out'[a] = Tail(out[a])
  <2>1. /\ apc[a] \in {"stream", "closing", "sent"} /\ out[a] # <<>>
        /\ got' = [got EXCEPT ![a] = Append(@, Head(out[a]))]
        /\ out' = [out EXCEPT ![a] = Tail(@)]
        /\ apc' = [apc EXCEPT ![a] = IF @ = "sent" /\ Len(out[a]) = 1 THEN "ended" ELSE @]
    BY Zenon DEF ClientReads
  <2>2. DOMAIN got = Awaiters /\ DOMAIN out = Awaiters /\ DOMAIN apc = Awaiters
    BY <1>0 DEF AwaitTypeOK
  <2>3. got'[a] = Append(got[a], Head(out[a])) /\ out'[a] = Tail(out[a])
    BY <2>1, <2>2, Zenon
  <2>4. apc'[a] = apc[a] \/ (apc[a] = "sent" /\ apc'[a] = "ended")
    BY <2>1, <2>2, Zenon
  <2> QED
    BY <2>1, <2>3, <2>4, Zenon
<1>3. Line(a)' = Line(a)
  <2>1. got[a] \in Seq(Nat) /\ out[a] \in Seq(Nat)
    BY <1>0 DEF AwaitTypeOK
  <2>2. Append(got[a], Head(out[a])) \o Tail(out[a]) = got[a] \o out[a]
    BY <1>2, <2>1, ConcatMove
  <2> QED
    BY <1>2, <2>2 DEF Line
<1>4. /\ \A i : Plain(a, i)' <=> Plain(a, i)
      /\ Excused(a)' <=> Excused(a)
  BY <1>1 DEF Plain, Excused
<1>5. Opening(a)'
  BY <1>0, <1>1, <1>2 DEF Opening
<1>6. Lines(a)'
  BY <1>0, <1>1, <1>2, <1>3, <1>4 DEF Lines
<1>7. Task(a)'
  BY <1>0, <1>1, <1>2, <1>3, <1>4 DEF Task, IsTerminal
<1> QED
  BY <1>5, <1>6, <1>7

\* A step of one await stream is about that stream.
LEMMA StreamsOfOthers ==
    ASSUME Inv, NEW a \in Awaiters,
           AwaitStep(a) \/ ClientReads(a) \/ Leave(a) \/ \E c \in Calls : AwaitToolResult(a, c)
    PROVE  \A b \in Awaiters \ {a} :
             /\ apc'[b] = apc[b] /\ target'[b] = target[b] /\ mode'[b] = mode[b] /\ nxt'[b] = nxt[b]
             /\ rec'[b] = rec[b] /\ out'[b] = out[b] /\ got'[b] = got[b]
<1>0. AwaitTypeOK
  BY DEF Inv, TypeOK
<1> USE DEF AwaitTypeOK
<1>1. CASE \E c \in Calls : AwaitToolResult(a, c)
  BY <1>0, <1>1 DEF AwaitToolResult
<1>2. CASE Lookup(a)
  BY <1>0, <1>2 DEF Lookup
<1>3. CASE Subscribe(a)
  BY <1>0, <1>3 DEF Subscribe
<1>4. CASE ReadRecord(a)
  BY <1>0, <1>4 DEF ReadRecord
<1>5. CASE FollowSession(a)
  BY <1>0, <1>5 DEF FollowSession, Send
<1>6. CASE Lag(a)
  BY <1>0, <1>6 DEF Lag
<1>7. CASE SenderGone(a)
  BY <1>0, <1>7 DEF SenderGone
<1>8. CASE ReplayRecord(a)
  BY <1>0, <1>8 DEF ReplayRecord, Send
<1>9. CASE FailedTerminal(a)
  BY <1>0, <1>9 DEF FailedTerminal, Send
<1>10. CASE ClientReads(a)
  BY <1>0, <1>10 DEF ClientReads
<1>11. CASE Leave(a)
  BY <1>0, <1>11 DEF Leave
<1> QED
  BY <1>1, <1>2, <1>3, <1>4, <1>5, <1>6, <1>7, <1>8, <1>9, <1>10, <1>11 DEF AwaitStep

\* Streams' for every step.
LEMMA StreamsInv ==
    ASSUME Inv, TypeOK', Next
    PROVE  Streams'
<1>0. Grows /\ AwaitTypeOK
  BY NextGrows DEF Inv, TypeOK
<1>1. ASSUME UNCHANGED awaitVars PROVE Streams'
  BY <1>0, <1>1, StreamKept DEF awaitVars, Streams
<1>2. ASSUME NEW a \in Awaiters,
             AwaitStep(a) \/ ClientReads(a) \/ Leave(a) \/ \E c \in Calls : AwaitToolResult(a, c)
      PROVE  Streams'
  <2>1. \A b \in Awaiters \ {a} : Opening(b)' /\ Lines(b)' /\ Task(b)'
    BY <1>0, <1>2, StreamsOfOthers, StreamKept
  <2>2. ASSUME Leave(a) PROVE Opening(a)' /\ Lines(a)' /\ Task(a)'
    <3>1. /\ apc'[a] = "left" /\ apc[a] # "idle" /\ out'[a] = <<>>
          /\ target'[a] = target[a] /\ mode'[a] = mode[a] /\ nxt'[a] = nxt[a]
          /\ rec'[a] = rec[a] /\ got'[a] = got[a]
      BY <1>0, <2>2 DEF Leave, AwaitTypeOK
    <3> QED
      BY <1>0, <3>1, StreamCut
  <2>3. Opening(a)' /\ Lines(a)' /\ Task(a)'
    BY <1>2, <2>2, Opens, FollowsSession, ReplaysRecord, BreaksOff, Reads DEF AwaitStep
  <2> QED
    BY <2>1, <2>3 DEF Streams
<1>3. ASSUME CutStreams, UNCHANGED <<target, mode, nxt, rec, got>> PROVE Streams'
  <2>1. ASSUME NEW a \in Awaiters PROVE Opening(a)' /\ Lines(a)' /\ Task(a)'
    <3>1. /\ \/ apc'[a] = "left" /\ apc[a] # "idle"
             \/ apc'[a] = apc[a] /\ ~Open(a)
          /\ out'[a] = <<>>
      BY <1>0, <1>3 DEF CutStreams, Open
    <3>2. target'[a] = target[a] /\ mode'[a] = mode[a] /\ nxt'[a] = nxt[a]
          /\ rec'[a] = rec[a] /\ got'[a] = got[a]
      BY <1>3
    <3> QED
      BY <1>0, <3>1, <3>2, StreamCut
  <2> QED
    BY <2>1 DEF Streams
<1>4. ASSUME NEW i \in Inputs, DispatchTool(i[1], i[2], i[3]) PROVE Streams'
  BY <1>1, <1>4 DEF DispatchTool
<1>5. ASSUME NEW c \in Calls,
             \/ RecordDispatchedCall(c) \/ PodBreaks(c) \/ CancelTool(c) \/ TurnCancelled(c)
             \/ RecvFrame(c) \/ AppendFrame(c) \/ Publish(c) \/ RecvEnds(c) \/ Retire(c)
             \/ AppendFrameFails(c) \/ \E k \in FrameKinds : PodFrame(c, k)
             \/ \E b \in Blocks(c), e \in BOOLEAN : RuntimeReturns(c, b, e)
      PROVE  Streams'
  <2>1. UNCHANGED awaitVars
    BY <1>5 DEF RecordDispatchedCall, PodBreaks, CancelTool, TurnCancelled, RecvFrame, AppendFrame,
                Publish, RecvEnds, Retire, AppendFrameFails, PodFrame, RuntimeReturns
  <2> QED
    BY <1>1, <2>1
<1>6. CASE DeleteConversation
  BY <1>1, <1>6 DEF DeleteConversation
<1>7. CASE HarnessRestart
  <2>1. CutStreams /\ UNCHANGED <<target, mode, nxt, rec, got>>
    BY <1>7 DEF HarnessRestart
  <2> QED
    BY <1>3, <2>1
<1>8. CASE RelayRestart
  BY <1>3, <1>8 DEF RelayRestart
<1>9. CASE Finished
  BY <1>1, <1>9 DEF Finished, vars, awaitVars
<1> QED
  BY <1>2, <1>4, <1>5, <1>6, <1>7, <1>8, <1>9 DEF Next, CallStep

----------------------------------------------------------------------------
(* The theorems *)

\* The invariant holds at first.
LEMMA InitInv == Init => Inv
<1> SUFFICES ASSUME Init PROVE Inv
  OBVIOUS
<1> USE DEF Init
<1>1. TypeOK
  <2>1. <<>> \in Seq(Nat) /\ <<>> \in Seq(Kinds)
    BY EmptySeq
  <2>2. CallTypeOK
    BY <2>1 DEF CallTypeOK
  <2>3. RecordTypeOK
    BY <2>1 DEF RecordTypeOK
  <2>4. AwaitTypeOK
    BY <2>1 DEF AwaitTypeOK
  <2> QED
    BY <2>2, <2>3, <2>4 DEF TypeOK
<1>2. \A c \in Calls : Len(made[c]) = 0 /\ Len(log[c]) = 0
  OBVIOUS
<1>3. Frames
  BY <1>2 DEF Frames
<1>4. Consumers
  BY <1>2 DEF Consumers, Drained
<1>5. Records
  BY <1>2 DEF Records, Increasing
<1>6. Streams
  <2>1. ASSUME NEW a \in Awaiters PROVE Opening(a) /\ Lines(a) /\ Task(a)
    <3>1. Line(a) = <<>>
      <4>1. Line(a) = <<>> \o <<>>
        BY DEF Line
      <4> QED
        BY <4>1, EmptySeq, ConcatEmptySeq
    <3>2. Len(Line(a)) = 0
      BY <3>1
    <3> QED
      BY <3>2 DEF Opening, Lines, Task
  <2> QED
    BY <2>1 DEF Streams
<1> QED
  BY <1>1, <1>3, <1>4, <1>5, <1>6 DEF Inv

\* The await streams leave the calls alone.
LEMMA CallsKept ==
    ASSUME Inv, UNCHANGED <<callVars, sessVars, logVars, known, lost, dropped>>
    PROVE  Frames' /\ Consumers' /\ Records'
<1> USE DEF callVars, sessVars, logVars
<1>1. Frames'
  BY DEF Inv, Frames, IsTerminal
<1>2. Consumers'
  BY DEF Inv, Consumers, Drained
<1>3. Records'
  BY DEF Inv, Records, Increasing, Offered
<1> QED
  BY <1>1, <1>2, <1>3

\* Every step keeps the invariant.
LEMMA StepInv == Inv /\ [Next]_vars => Inv'
<1> SUFFICES ASSUME Inv, [Next]_vars PROVE Inv'
  OBVIOUS
<1>1. CASE Next
  <2>1. TypeOK'
    <3>1. CASE Finished
      <4>1. UNCHANGED vars /\ TypeOK
        BY <3>1 DEF Finished, Inv
      <4> QED
        BY <4>1 DEF vars, TypeOK, CallTypeOK, RecordTypeOK, AwaitTypeOK
    <3> QED
      BY <1>1, <3>1, CallTypes, WriteTypes, AwaitTypes DEF Next, CallStep
  <2>2. Streams'
    BY <1>1, <2>1, StreamsInv
  <2>3. Frames' /\ Consumers' /\ Records'
    <3>1. ASSUME NEW a \in Awaiters,
                 AwaitStep(a) \/ ClientReads(a) \/ Leave(a) \/ \E c \in Calls : AwaitToolResult(a, c)
          PROVE  Frames' /\ Consumers' /\ Records'
      <4>1. UNCHANGED <<callVars, sessVars, logVars, known, lost, dropped>>
        BY <3>1 DEF AwaitStep, Lookup, Subscribe, ReadRecord, FollowSession, Lag, SenderGone,
                    ReplayRecord, FailedTerminal, ClientReads, Leave, AwaitToolResult, histVars
      <4> QED
        BY <4>1, CallsKept
    <3>2. CASE Finished
      <4>1. UNCHANGED <<callVars, sessVars, logVars, known, lost, dropped>>
        BY <3>2 DEF Finished, vars, callVars, sessVars, logVars
      <4> QED
        BY <4>1, CallsKept
    <3>3. Frames' \/ (\E a \in Awaiters : AwaitStep(a) \/ ClientReads(a) \/ Leave(a)
                                           \/ \E c \in Calls : AwaitToolResult(a, c)) \/ Finished
      BY <1>1, FramesInv DEF Next, CallStep
    <3>4. Consumers' \/ (\E a \in Awaiters : AwaitStep(a) \/ ClientReads(a) \/ Leave(a)
                                           \/ \E c \in Calls : AwaitToolResult(a, c)) \/ Finished
      BY <1>1, ConsumersInv DEF Next, CallStep
    <3>5. Records' \/ (\E a \in Awaiters : AwaitStep(a) \/ ClientReads(a) \/ Leave(a)
                                           \/ \E c \in Calls : AwaitToolResult(a, c)) \/ Finished
      BY <1>1, <2>1, RecordsInv DEF Next, CallStep
    <3> QED
      BY <3>1, <3>2, <3>3, <3>4, <3>5
  <2> QED
    BY <2>1, <2>2, <2>3 DEF Inv
<1>2. CASE UNCHANGED vars
  <2>1. TypeOK'
    BY <1>2 DEF vars, Inv, TypeOK, CallTypeOK, RecordTypeOK, AwaitTypeOK
  <2>2. Grows
    BY <1>2, MadeLens DEF vars, Grows, Inv
  <2>3. Streams'
    BY <1>2, <2>1, <2>2, StreamKept DEF vars, Streams
  <2>4. Frames' /\ Consumers' /\ Records'
    BY <1>2, CallsKept DEF vars, callVars, sessVars, logVars
  <2> QED
    BY <2>1, <2>3, <2>4 DEF Inv
<1> QED
  BY <1>1, <1>2

\* The invariant holds in every state.
LEMMA Invariance == Spec => []Inv
<1>1. Init => Inv
  BY InitInv
<1>2. Inv /\ [Next]_vars => Inv'
  BY StepInv
<1> QED
  BY <1>1, <1>2, PTL DEF Spec

\* Type correctness of the sessions, the record and the await streams.
THEOREM TypeCorrect == Spec => []TypeOK
<1>1. Inv => TypeOK
  BY DEF Inv
<1> QED
  BY <1>1, Invariance, PTL

\* A call whose session was retired has its whole record in execution.json unless a
\* failed write, a restart or a deletion is to blame, whatever the other calls wrote.
THEOREM RecordIsWhole == Spec => []RecordWhole
<1>1. Inv => RecordWhole
  <2> SUFFICES ASSUME Inv, NEW c \in named \ lost, cpc[c] \in {"retain", "retire", "done"}
               PROVE  /\ Range(Persisted(c)) = {i \in 1..taken[c] : made[c][i] # "image"}
                      /\ \A i, j \in DOMAIN Persisted(c) : i < j => Persisted(c)[i] < Persisted(c)[j]
    BY DEF RecordWhole
  <2>1. c \in Calls /\ log[c] \in Seq(Nat)
    BY DEF Inv, TypeOK, CallTypeOK, RecordTypeOK
  <2>2. /\ Increasing(log[c])
        /\ \A i \in 1..Len(log[c]) : Offered(c, log[c][i]) /\ made[c][log[c][i]] # "image"
        /\ \A k \in 1..taken[c] : Offered(c, k) /\ made[c][k] # "image"
                                    => \E i \in 1..Len(log[c]) : log[c][i] = k
    BY <2>1 DEF Inv, Records
  <2>3. \A k \in 1..taken[c] : Offered(c, k)
    BY DEF Offered
  <2>4. \A k : Offered(c, k) => k \in 1..taken[c]
    BY DEF Offered
  <2>5. DOMAIN log[c] = 1..Len(log[c])
    BY <2>1, LenProperties
  <2>6. Range(log[c]) = {log[c][i] : i \in 1..Len(log[c])}
    BY <2>5 DEF Range
  <2> QED
    BY <2>2, <2>3, <2>4, <2>5, <2>6 DEF Persisted, Increasing
<1> QED
  BY <1>1, Invariance, PTL

\* NotFound, or a FAILED that the call did not end in, is told to a client only for a
\* reason, however lookups, publishing, retiring, writes and restarts interleave.
THEOREM FailedOnlyForAReason == Spec => []MadeUpOnlyIfLost
<1>1. Inv => MadeUpOnlyIfLost
  <2> SUFFICES ASSUME Inv, NEW a \in Awaiters
               PROVE  /\ apc[a] = "notfound" => target[a] \notin named \ (lost \cup dropped)
                      /\ 0 \in Range(got[a]) \cup Range(out[a])
                           => a \in lagged \/ target[a] \in lost \cup dropped
    BY DEF MadeUpOnlyIfLost
  <2>1. TypeOK /\ Opening(a) /\ Lines(a) /\ got[a] \in Seq(Nat) /\ out[a] \in Seq(Nat)
    BY DEF Inv, Streams, TypeOK, AwaitTypeOK
  <2>2. apc[a] = "notfound" => target[a] \notin named \ (lost \cup dropped)
    BY <2>1 DEF Opening
  <2>3. /\ Len(got[a]) \in Nat /\ Len(out[a]) \in Nat /\ Len(Line(a)) = Len(got[a]) + Len(out[a])
        /\ \A i \in 1..Len(got[a]) : Line(a)[i] = got[a][i]
        /\ \A i \in 1..Len(out[a]) : Line(a)[Len(got[a]) + i] = out[a][i]
    BY <2>1, LineFacts
  <2>4. \A i \in 1..Len(Line(a)) : Line(a)[i] = 0 => Excused(a)
    BY <2>1 DEF Lines
  <2>7. /\ \A i \in 1..Len(got[a]) : i \in 1..Len(Line(a))
        /\ \A i \in 1..Len(out[a]) : Len(got[a]) + i \in 1..Len(Line(a))
    BY <2>1, LineFacts
  <2>5. ASSUME 0 \in Range(got[a]) PROVE Excused(a)
    <3>1. PICK i \in 1..Len(got[a]) : got[a][i] = 0
      <4>1. DOMAIN got[a] = 1..Len(got[a])
        BY <2>1, LenProperties
      <4> QED
        BY <2>5, <4>1 DEF Range
    <3>2. i \in 1..Len(Line(a))
      BY <2>7
    <3> QED
      BY <2>3, <2>4, <3>1, <3>2
  <2>6. ASSUME 0 \in Range(out[a]) PROVE Excused(a)
    <3>1. PICK i \in 1..Len(out[a]) : out[a][i] = 0
      <4>1. DOMAIN out[a] = 1..Len(out[a])
        BY <2>1, LenProperties
      <4> QED
        BY <2>6, <4>1 DEF Range
    <3>2. Len(got[a]) + i \in 1..Len(Line(a))
      BY <2>7
    <3> QED
      BY <2>3, <2>4, <3>1, <3>2
  <2> QED
    BY <2>2, <2>5, <2>6 DEF Excused
<1> QED
  BY <1>1, Invariance, PTL

----------------------------------------------------------------------------
(* The await streams implement AwaitStream *)

\* A sequence that starts with the items of another has it as its prefix.
LEMMA PrefixFacts ==
    ASSUME NEW s \in Seq(Kinds), NEW t \in Seq(Kinds), Len(s) <= Len(t),
           \A i \in 1..Len(s) : t[i] = s[i]
    PROVE  SubSeq(t, 1, Len(s)) = s
<1>1. Len(s) \in Nat /\ Len(t) \in Nat
  BY LenProperties
<1> DEFINE n == Len(s)
<1>2. \A i \in 1..n : t[i] \in Kinds
  BY <1>1, ElementOfSeq
<1>3. n \in Int /\ 1 \in Int /\ (n - 1) + 1 = n
  BY <1>1
<1> DEFINE u == SubSeq(t, 1, n)
<1>4. /\ u \in Seq(Kinds)
      /\ Len(u) = IF 1 <= n THEN (n - 1) + 1 ELSE 0
      /\ \A i \in 1..((n - 1) + 1) : u[i] = t[(1 + i) - 1]
  BY <1>2, <1>3, SubSeqProperties
<1> HIDE DEF u
<1>5. Len(u) = n
  BY <1>1, <1>4
<1>6. \A i \in 1..Len(u) : u[i] = s[i]
  <2> TAKE i \in 1..Len(u)
  <2>1. i \in 1..((n - 1) + 1) /\ (1 + i) - 1 = i /\ i \in 1..n
    BY <1>1, <1>5
  <2> QED
    BY <1>4, <2>1
<1>7. u = s
  BY <1>4, <1>5, <1>6, SeqEqual
<1> QED
  BY <1>7 DEF u

\* A pod's frame and a runtime tool's answer are what Make allows.
LEMMA MakesFrames ==
    ASSUME Inv, TypeOK', NEW c \in Calls, pod[c] = "running",
           Len(made[c]) < Len(made'[c]),
           \A i \in 1..Len(made[c]) : made'[c][i] = made[c][i],
           \A i \in 1..(Len(made'[c]) - 1) : made'[c][i] \in Kinds \ Terminals,
           \A d \in Calls \ {c} : made'[d] = made[d],
           UNCHANGED <<target, mode, got>>
    PROVE  Promise!Make(c)
<1>1. /\ made[c] \in Seq(Kinds) /\ made'[c] \in Seq(Kinds)
      /\ Len(made[c]) \in Nat /\ Len(made'[c]) \in Nat
  <2>1. made[c] \in Seq(Kinds) /\ made'[c] \in Seq(Kinds)
    BY DEF Inv, TypeOK, CallTypeOK
  <2> QED
    BY <2>1, LenProperties
<1>2. ~Promise!Complete(made[c])
  <2>1. \A i \in 1..Len(made[c]) : made[c][i] \notin Terminals
    BY DEF Inv, Frames
  <2> QED
    BY <1>1, <2>1 DEF Promise!Complete
<1>3. Len(made[c]) <= Len(made'[c]) /\ Len(made'[c]) \in 1..Len(made'[c])
  BY <1>1
<1>4. SubSeq(made'[c], 1, Len(made[c])) = made[c]
  BY <1>1, <1>3, PrefixFacts
<1>5. made'[c][Len(made'[c])] \in Kinds
  BY <1>1, <1>3, ElementOfSeq
<1>6. Len(made'[c]) > Len(made[c])
  BY <1>1
<1> QED
  BY <1>2, <1>4, <1>5, <1>6 DEF Promise!Make

\* What a client reads is the next frame of the call, or FAILED, and comes after no terminal.
LEMMA GivesFrames ==
    ASSUME Inv, NEW a \in Awaiters, ClientReads(a)
    PROVE  \/ Promise!Fail(a)
           \/ \E i \in 1..Len(made[target[a]]) : Promise!Give(a, i)
<1>0. TypeOK /\ AwaitTypeOK /\ Opening(a) /\ Lines(a) /\ got[a] \in Seq(Nat) /\ out[a] \in Seq(Nat)
  BY DEF Inv, TypeOK, AwaitTypeOK, Streams
<1>1. /\ apc[a] \in {"stream", "closing", "sent"} /\ out[a] # <<>>
      /\ got' = [got EXCEPT ![a] = Append(@, Head(out[a]))]
      /\ UNCHANGED <<made, target, mode>>
  BY Zenon DEF ClientReads, callVars
<1>2. mode[a] # "none"
  BY <1>0, <1>1 DEF Opening
<1> DEFINE x == Head(out[a])
<1> DEFINE n == Len(got[a])
<1>3. /\ n \in Nat /\ Len(Line(a)) \in Nat /\ n + 1 \in 1..Len(Line(a))
      /\ Line(a)[n + 1] = x
      /\ \A i \in 1..n : Line(a)[i] = got[a][i] /\ i \in 1..Len(Line(a))
  <2>1. 1 \in 1..Len(out[a]) /\ x = out[a][1]
    <3>1. Len(out[a]) \in Nat /\ Len(out[a]) # 0
      BY <1>0, <1>1, LenProperties, EmptySeq
    <3> QED
      BY <3>1
  <2> QED
    BY <1>0, <2>1, LineFacts
<1>4. /\ x = 0 \/ x \in 1..Len(made[target[a]])
      /\ x # 0 /\ mode[a] = "live" => x = n + 1
  BY <1>0, <1>3 DEF Lines
<1>5. ASSUME n > 0
      PROVE  /\ Plain(a, got[a][n])
             /\ x = 0 \/ got[a][n] < x
             /\ mode[a] = "live" => got[a][n] = n
  <2>1. n \in 1..n /\ n < n + 1
    BY <1>3, <1>5
  <2>2. n \in 1..Len(Line(a)) /\ Line(a)[n] = got[a][n]
    BY <1>3, <2>1
  <2>3. Plain(a, Line(a)[n]) /\ (Line(a)[n + 1] = 0 \/ Line(a)[n] < Line(a)[n + 1])
    BY <1>0, <1>3, <2>1, <2>2 DEF Lines
  <2>4. Line(a)[n] # 0
    BY <2>3 DEF Plain
  <2>5. mode[a] = "live" => Line(a)[n] = n
    BY <1>0, <2>2, <2>4 DEF Lines
  <2> QED
    BY <1>3, <2>2, <2>3, <2>5
<1>6. ~Promise!Over(a)
  <2>1. CASE n > 0
    <3>1. Plain(a, got[a][n])
      BY <1>5, <2>1
    <3>2. got[a][n] # 0 /\ made[target[a]][got[a][n]] \notin Terminals
      BY <3>1 DEF Plain
    <3> QED
      BY <3>2 DEF Promise!Over
  <2>2. CASE ~(n > 0)
    BY <2>2 DEF Promise!Over
  <2> QED
    BY <2>1, <2>2
<1>7. CASE x = 0
  BY <1>1, <1>2, <1>6, <1>7 DEF Promise!Fail
<1>8. CASE x # 0
  <2> DEFINE last == IF got[a] = <<>> THEN 0 ELSE got[a][n]
  <2>1. got[a] = <<>> <=> n = 0
    BY <1>0, EmptySeq
  <2>2. IF mode[a] = "live" THEN x = last + 1 ELSE x > last
    <3>1. CASE n = 0
      <4>1. last = 0 /\ x \in Nat
        BY <1>4, <1>8, <2>1, <3>1
      <4> QED
        BY <1>3, <1>4, <1>8, <3>1, <4>1
    <3>2. CASE n > 0
      <4>1. last = got[a][n] /\ got[a][n] < x /\ (mode[a] = "live" => got[a][n] = n)
        BY <1>3, <1>5, <1>8, <2>1, <3>2
      <4>2. x \in Nat /\ got[a][n] \in Nat
        BY <1>3, <1>4, <1>5, <1>8, <3>2 DEF Plain
      <4> QED
        BY <1>3, <1>4, <1>8, <4>1, <4>2
    <3> QED
      BY <1>3, <3>1, <3>2
  <2>3. Promise!Give(a, x)
    BY <1>1, <1>2, <1>4, <1>6, <1>8, <2>2 DEF Promise!Give
  <2> QED
    BY <1>4, <1>8, <2>3
<1> QED
  BY <1>7, <1>8

\* Every step of the calls and the streams is a step of AwaitStream or none of it.
LEMMA StepKeepsPromise == Inv /\ Inv' /\ [Next]_vars => [Promise!Next]_(Promise!vars)
<1> SUFFICES ASSUME Inv, Inv', Next \/ UNCHANGED vars
             PROVE  Promise!Next \/ UNCHANGED <<made, target, mode, got>>
  BY DEF Promise!vars
<1>0. TypeOK /\ TypeOK' /\ CallTypeOK /\ AwaitTypeOK /\ \A c \in Calls : Len(made[c]) \in Nat
  BY MadeLens DEF Inv, TypeOK
<1> USE DEF callVars, awaitVars
\* A call makes a frame.
<1>1. ASSUME NEW c \in Calls, NEW k \in Kinds, pod[c] = "running",
             made' = [made EXCEPT ![c] = Append(@, k)], UNCHANGED awaitVars
      PROVE  Promise!Make(c)
  <2>1. /\ Len(made'[c]) = Len(made[c]) + 1
        /\ \A i \in 1..Len(made[c]) : made'[c][i] = made[c][i]
        /\ \A d \in Calls \ {c} : made'[d] = made[d]
    BY <1>0, <1>1, AddsFacts
  <2>2. Len(made[c]) < Len(made'[c]) /\ Len(made'[c]) - 1 = Len(made[c])
    BY <1>0, <2>1
  <2>3. \A i \in 1..Len(made[c]) : made[c][i] \in Kinds \ Terminals
    <3>1. made[c] \in Seq(Kinds)
      BY <1>0 DEF CallTypeOK
    <3> QED
      BY <1>1, <3>1, ElementOfSeq DEF Inv, Frames
  <2>4. \A i \in 1..(Len(made'[c]) - 1) : made'[c][i] \in Kinds \ Terminals
    BY <2>1, <2>2, <2>3
  <2> QED
    BY <1>0, <1>1, <2>1, <2>2, <2>4, MakesFrames
<1>2. ASSUME NEW c \in Calls, NEW k \in FrameKinds, PodFrame(c, k) PROVE Promise!Next
  <2>1. k \in Kinds
    BY KindsAssumption
  <2> QED
    BY <1>1, <1>2, <2>1 DEF PodFrame, Promise!Next
<1>3. ASSUME NEW c \in Calls, PodBreaks(c)
      PROVE  Promise!Next \/ UNCHANGED <<made, target, mode, got>>
  <2>1. "failed" \in Kinds
    BY DEF Kinds, Terminals
  <2>2. /\ pod[c] = "running" /\ UNCHANGED awaitVars
        /\ made' = made \/ made' = [made EXCEPT ![c] = Append(@, "failed")]
    BY <1>3 DEF PodBreaks
  <2> QED
    BY <1>1, <2>1, <2>2 DEF Promise!Next
<1>4. ASSUME NEW c \in Calls, NEW b \in Blocks(c), NEW e \in BOOLEAN, RuntimeReturns(c, b, e)
      PROVE  Promise!Next
  <2>1. /\ src[c] = "runtime" /\ pod[c] = "running" /\ UNCHANGED awaitVars
        /\ made' = [made EXCEPT ![c] = FramesFromResponse(b, e)]
    BY <1>4 DEF RuntimeReturns
  <2>2. made[c] = <<>> /\ Len(made[c]) = 0
    BY <2>1 DEF Inv, Frames
  <2>3. /\ made'[c] = FramesFromResponse(b, e)
        /\ \A d \in Calls \ {c} : made'[d] = made[d]
    BY <1>0, <2>1 DEF CallTypeOK
  <2>4. /\ Len(made'[c]) \in Nat \ {0}
        /\ \A i \in 1..(Len(made'[c]) - 1) : made'[c][i] \in Kinds \ Terminals
    BY <2>3, ResponseFacts
  <2>5. Len(made[c]) < Len(made'[c])
    BY <2>2, <2>4
  <2>6. Promise!Make(c)
    BY <1>0, <2>1, <2>2, <2>3, <2>4, <2>5, MakesFrames
  <2> QED
    BY <2>6 DEF Promise!Next
\* A stream is asked for, opened, read.
<1>5. ASSUME NEW a \in Awaiters, NEW c \in Calls, AwaitToolResult(a, c) PROVE Promise!Next
  <2>1. target[a] = None
    BY <1>5 DEF AwaitToolResult, Inv, Streams, Opening
  <2>2. Promise!Ask(a, c)
    BY <1>5, <2>1 DEF AwaitToolResult, Promise!Ask
  <2> QED
    BY <2>2 DEF Promise!Next
<1>6. ASSUME NEW a \in Awaiters, NEW m \in {"live", "record"},
             apc[a] \in {"found", "gone"}, mode' = [mode EXCEPT ![a] = m],
             UNCHANGED <<made, target, got>>
      PROVE  Promise!Next
  <2>1. target[a] # None /\ mode[a] = "none"
    BY <1>6, CallsAssumption DEF Inv, Streams, Opening
  <2>2. Promise!Open(a, m)
    BY <1>6, <2>1 DEF Promise!Open
  <2> QED
    BY <2>2 DEF Promise!Next
<1>7. ASSUME NEW a \in Awaiters, Subscribe(a) PROVE Promise!Next
  BY <1>6, <1>7 DEF Subscribe
<1>8. ASSUME NEW a \in Awaiters, ReadRecord(a)
      PROVE  Promise!Next \/ UNCHANGED <<made, target, mode, got>>
  <2>1. apc[a] = "gone" /\ UNCHANGED <<made, target, got>>
    BY <1>8 DEF ReadRecord
  <2>2. mode' = mode \/ mode' = [mode EXCEPT ![a] = "record"]
    BY <1>8 DEF ReadRecord
  <2> QED
    BY <1>6, <2>1, <2>2
<1>9. ASSUME NEW a \in Awaiters, ClientReads(a) PROVE Promise!Next
  <2>1. target[a] \in Calls
    BY <1>9 DEF ClientReads, Inv, Streams, Opening
  <2> QED
    BY <1>9, <2>1, GivesFrames DEF Promise!Next
\* The other steps do not show.
<1>10. ASSUME NEW c \in Calls,
              \/ RecordDispatchedCall(c) \/ CancelTool(c) \/ TurnCancelled(c) \/ AppendFrameFails(c)
              \/ RecvFrame(c) \/ AppendFrame(c) \/ Publish(c) \/ RecvEnds(c) \/ Retire(c)
       PROVE  UNCHANGED <<made, target, mode, got>>
  BY <1>10 DEF RecordDispatchedCall, CancelTool, TurnCancelled, AppendFrameFails, RecvFrame,
               AppendFrame, Publish, RecvEnds, Retire
<1>11. ASSUME NEW a \in Awaiters,
              \/ Lookup(a) \/ FollowSession(a) \/ Lag(a) \/ SenderGone(a) \/ ReplayRecord(a)
              \/ FailedTerminal(a) \/ Leave(a)
       PROVE  UNCHANGED <<made, target, mode, got>>
  BY <1>11 DEF Lookup, FollowSession, Lag, SenderGone, ReplayRecord, FailedTerminal, Leave
<1>12. ASSUME NEW i \in Inputs, DispatchTool(i[1], i[2], i[3])
       PROVE  UNCHANGED <<made, target, mode, got>>
  BY <1>12 DEF DispatchTool
<1>13. CASE DeleteConversation \/ HarnessRestart \/ RelayRestart
  BY <1>13 DEF DeleteConversation, HarnessRestart, RelayRestart
<1>14. CASE UNCHANGED vars \/ Finished
  BY <1>14 DEF Finished, vars
<1> QED
  BY <1>2, <1>3, <1>4, <1>5, <1>7, <1>8, <1>9, <1>10, <1>11, <1>12, <1>13, <1>14
     DEF Next, CallStep, AwaitStep

\* The await streams implement AwaitStream: through sessions, fan-out, record, restarts and
\* deletions a client is given frames of its call in order, none twice, none skipped by a
\* live stream, and nothing after the terminal.
THEOREM AwaitsKeepPromise == Spec => PromiseKept
<1>1. Init => Promise!Init
  BY DEF Init, Promise!Init
<1>2. Inv /\ Inv' /\ [Next]_vars => [Promise!Next]_(Promise!vars)
  BY StepKeepsPromise
<1> QED
  BY <1>1, <1>2, Invariance, PTL DEF Spec, PromiseKept, Promise!Spec

=============================================================================
