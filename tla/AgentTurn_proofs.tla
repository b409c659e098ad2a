--------------------------- MODULE AgentTurn_proofs ---------------------------
(* Theorems about AgentTurn, for every set of conversations and every bound. *)
EXTENDS AgentTurn, SequenceTheorems, TLAPS

FrameSet == [kind : {"WORKING", "REPLY", "IDLE", "CANCELLED", "FAILED"},
             turn : Nat, conv : Conversations, text : BOOLEAN]
Ends == Results \cup {"open", "crash"}

----------------------------------------------------------------------------
(* The operators *)

\* Replacing an element leaves a sequence of the same length (ended' in EndTurn).
LEMMA ExceptSeqType ==
    ASSUME NEW S, NEW s \in Seq(S), NEW i, NEW v \in S
    PROVE  /\ [s EXCEPT ![i] = v] \in Seq(S)
           /\ Len([s EXCEPT ![i] = v]) = Len(s)
<1>1. [s EXCEPT ![i] = v] \in [1..Len(s) -> S]
  BY LenProperties
<1> QED
  BY <1>1, LenProperties, IsASeq

\* Dropping the last record, and writing after an unterminated line, keep the type.
LEMMA SpoiltType ==
    ASSUME NEW s \in Seq(Entry), NEW end
    PROVE  Spoilt(s, end) \in Seq(Entry)
<1>1. Len(s) \in Nat /\ s \in [1..Len(s) -> Entry]
  BY LenProperties
<1>2. \A i \in 1..(Len(s) - 1) : s[i] \in Entry
  BY <1>1
<1>3. Front(s) \in Seq(Entry)
  BY <1>1, <1>2, SubSeqProperties DEF Front
<1> QED
  BY <1>3 DEF Spoilt

\* What a completed write leaves of the file is a sequence of records.
LEMMA WrittenType ==
    ASSUME NEW s \in Seq(Entry), NEW end, NEW e \in Entry
    PROVE  Written(s, end, e) \in Seq(Entry)
BY SpoiltType DEF Written

\* What a write cut short leaves of the file is a sequence of records too.
LEMMA CutShortType ==
    ASSUME NEW s \in Seq(Entry), NEW end \in {"clean", "torn", "bare"}, NEW e \in Entry,
           NEW o \in CutShort(s, end, e)
    PROVE  o[1] \in Seq(Entry) /\ o[2] \in {"clean", "torn", "bare"}
<1>1. Append(s, e) \in Seq(Entry) /\ Spoilt(s, end) \in Seq(Entry)
  BY SpoiltType
<1>2. \/ o = <<s, end>> \/ o = <<Spoilt(s, end), "torn">> \/ o = <<Append(s, e), "bare">>
  BY DEF CutShort
<1>3. CASE o = <<s, end>>
  BY <1>3
<1>4. CASE o = <<Spoilt(s, end), "torn">>
  BY <1>1, <1>4
<1>5. CASE o = <<Append(s, e), "bare">>
  BY <1>1, <1>5
<1> QED
  BY <1>2, <1>3, <1>4, <1>5

\* The records the loop writes are well formed.
LEMMA EntryTypes ==
    ASSUME NEW t \in Nat, NEW r \in Nat, NEW n \in Nat, NEW m \in BOOLEAN
    PROVE  /\ UserEntry(t) \in Entry
           /\ AssistantEntry(t, r, n) \in Entry
           /\ ToolEntry(t, r, n, m) \in Entry
BY DEF UserEntry, AssistantEntry, ToolEntry, Entry

----------------------------------------------------------------------------
(* The inductive invariant *)

\* A token is registered only for the conversation being served, and only while
\* llm_loop runs or has just returned; a message is being served once it was
\* received; a tool round has been counted.
WithinTurn ==
    /\ turns \subseteq {cur.conv}
    /\ turns # {} => pc \in {"open", "stream", "round", "tool", "end"}
    /\ pc \notin {"recv", "down"} => cur.turn > 0
    /\ pc = "tool" => iter > 0

Inv == TypeOK /\ WithinTurn

\* The record of the completion, or of the tool result, being handled.
LEMMA InFlightTypes ==
    ASSUME Inv
    PROVE  /\ UserEntry(cur.turn) \in Entry
           /\ RoundEntry \in Entry
           /\ pc = "tool" => \A m \in BOOLEAN : ToolResult(m) \in Entry
<1>1. cur.turn \in Nat /\ iter \in Nat /\ round.calls \in Nat /\ k \in Nat
  BY DEF Inv, TypeOK
<1>2. pc = "tool" => iter - 1 \in Nat
  BY <1>1 DEF Inv, WithinTurn
<1> QED
  BY <1>1, <1>2, EntryTypes DEF RoundEntry, ToolResult

\* Appending to a log keeps the types of the store.
LEMMA AppendOkType ==
    ASSUME TypeOK, NEW c \in Conversations, NEW e \in Entry, AppendOk(c, e)
    PROVE  /\ disk' \in [Conversations -> Seq(Entry)]
           /\ tail' \in [Conversations -> {"clean", "torn", "bare"}]
           /\ mem' \in [Conversations -> Seq(Entry)]
           /\ loaded' \subseteq Conversations
           /\ writeErrors' \in Nat
<1>1. Written(disk[c], tail[c], e) \in Seq(Entry)
  BY WrittenType DEF TypeOK
<1>2. Append(mem[c], e) \in Seq(Entry)
  BY DEF TypeOK
<1> QED
  BY <1>1, <1>2 DEF TypeOK, AppendOk

\* So does an append that fails.
LEMMA AppendErrType ==
    ASSUME TypeOK, NEW c \in Conversations, NEW e \in Entry, AppendErr(c, e)
    PROVE  /\ disk' \in [Conversations -> Seq(Entry)]
           /\ tail' \in [Conversations -> {"clean", "torn", "bare"}]
           /\ writeErrors' \in Nat
<1>1. PICK o \in CutShort(disk[c], tail[c], e) :
          /\ disk' = [disk EXCEPT ![c] = o[1]]
          /\ tail' = [tail EXCEPT ![c] = o[2]]
  BY DEF AppendErr
<1>2. o[1] \in Seq(Entry) /\ o[2] \in {"clean", "torn", "bare"}
  BY CutShortType DEF TypeOK
<1> QED
  BY <1>1, <1>2 DEF TypeOK, AppendErr

\* An append that may fail leaves the log variables well typed.
LEMMA PersistType ==
    ASSUME TypeOK, NEW e \in Entry, Persist(e)
    PROVE  /\ disk' \in [Conversations -> Seq(Entry)]
           /\ tail' \in [Conversations -> {"clean", "torn", "bare"}]
           /\ mem' \in [Conversations -> Seq(Entry)]
           /\ loaded' \subseteq Conversations
           /\ writeErrors' \in Nat
<1>1. cur.conv \in Conversations
  BY DEF TypeOK
<1>2. CASE AppendOk(cur.conv, e)
  BY <1>1, <1>2, AppendOkType
<1>3. CASE AppendErr(cur.conv, e) /\ UNCHANGED <<mem, loaded>>
  BY <1>1, <1>3, AppendErrType DEF TypeOK
<1> QED
  BY <1>2, <1>3 DEF Persist

\* So does the append of an assistant message, stored or not.
LEMMA PersistAssistantType ==
    ASSUME Inv, PersistAssistant
    PROVE  /\ disk' \in [Conversations -> Seq(Entry)]
           /\ tail' \in [Conversations -> {"clean", "torn", "bare"}]
           /\ mem' \in [Conversations -> Seq(Entry)]
           /\ loaded' \subseteq Conversations
           /\ writeErrors' \in Nat
<1>1. CASE Storable
  BY <1>1, InFlightTypes, PersistType DEF PersistAssistant, Inv
<1>2. CASE ~Storable
  BY <1>2 DEF PersistAssistant, Inv, TypeOK, logVars
<1> QED
  BY <1>1, <1>2

\* Delivering a frame of the turn being served keeps the type of frames.
LEMMA DeliverType ==
    ASSUME TypeOK, NEW kind \in {"WORKING", "REPLY", "IDLE", "CANCELLED", "FAILED"},
           NEW text \in BOOLEAN, Deliver(Frame(kind, text))
    PROVE  frames' \in Seq(FrameSet) /\ lost' \in Nat
<1>1. Frame(kind, text) \in FrameSet
  BY DEF Frame, FrameSet, TypeOK
<1>2. frames \in Seq(FrameSet) /\ lost \in Nat
  BY DEF TypeOK, FrameSet
<1> QED
  BY <1>1, <1>2 DEF Deliver

\* The initial state satisfies the invariant.
LEMMA InitInv == Init => Inv
<1> SUFFICES ASSUME Init PROVE Inv
  OBVIOUS
<1>1. disk \in [Conversations -> Seq(Entry)] /\ mem \in [Conversations -> Seq(Entry)]
  BY DEF Init
<1>2. cur \in [conv : Conversations, turn : Nat, reply : BOOLEAN] /\ cur.turn = 0
  BY DEF Init
<1>3. /\ messages \in Seq(Entry)
      /\ ended \in Seq(Results \cup {"open", "crash"}) /\ Len(ended) = 0
      /\ frames \in Seq(FrameSet)
  BY DEF Init
<1>4. round \in [stop : StopReasons, calls : Nat, text : BOOLEAN] /\ result \in Results
  BY DEF Init, NoRound, StopReasons, Results
<1>5. tail \in [Conversations -> {"clean", "torn", "bare"}]
  BY DEF Init
<1>6. TypeOK
  BY <1>1, <1>2, <1>3, <1>4, <1>5 DEF Init, TypeOK, FrameSet
<1> QED
  BY <1>2, <1>6 DEF Inv, WithinTurn, Init

\* GetOrCreate keeps the types of the cache.
LEMMA GetOrCreateType ==
    ASSUME TypeOK, NEW c \in Conversations, GetOrCreate(c)
    PROVE  mem' \in [Conversations -> Seq(Entry)] /\ loaded' \subseteq Conversations
BY DEF TypeOK, GetOrCreate

\* So does losing it all.
LEMMA GoDownType ==
    ASSUME GoDown
    PROVE  /\ mem' \in [Conversations -> Seq(Entry)] /\ loaded' \subseteq Conversations
           /\ turns' = {} /\ fired' \in BOOLEAN /\ pc' = "down"
           /\ messages' \in Seq(Entry) /\ iter' \in Nat /\ k' \in Nat
           /\ round' \in [stop : StopReasons, calls : Nat, text : BOOLEAN]
           /\ result' \in Results
<1>1. round' \in [stop : StopReasons, calls : Nat, text : BOOLEAN]
  BY DEF GoDown, LocalsGone, NoRound, StopReasons
<1>2. mem' \in [Conversations -> Seq(Entry)] /\ messages' \in Seq(Entry)
  BY DEF GoDown, LocalsGone
<1> QED
  BY <1>1, <1>2 DEF GoDown, LocalsGone, Results

\* Every step of the harness and of its environment preserves the invariant.
LEMMA StepInv ==
    ASSUME Inv, [Next]_vars
    PROVE  Inv'
<1>0. TypeOK /\ WithinTurn
  BY DEF Inv
<1> SUFFICES TypeOK' /\ WithinTurn'
  BY DEF Inv
<1>1. ASSUME NEW c \in Conversations, NEW r \in BOOLEAN, Receive(c, r)
      PROVE  TypeOK' /\ WithinTurn'
  <2>1. mem' \in [Conversations -> Seq(Entry)] /\ loaded' \subseteq Conversations
    BY <1>0, <1>1, GetOrCreateType DEF Receive
  <2>2. /\ ended' \in Seq(Results \cup {"open", "crash"})
        /\ Len(ended') = Len(ended) + 1
    BY <1>0, <1>1 DEF Receive, TypeOK
  <2>3. /\ cur' \in [conv : Conversations, turn : Nat, reply : BOOLEAN]
        /\ cur'.turn = turnNo + 1
    BY <1>0, <1>1 DEF Receive, TypeOK
  <2>4. asked' \subseteq 1..turnNo'
    BY <1>0, <1>1 DEF Receive, TypeOK
  <2> QED
    BY <1>0, <1>1, <2>1, <2>2, <2>3, <2>4 DEF WithinTurn, Receive, TypeOK, loopVars
<1>2. CASE ReceiveFails
  <2>1. TypeOK'
    BY <1>0, <1>2, GoDownType DEF ReceiveFails, TypeOK
  <2> QED
    BY <1>0, <1>2, <2>1, GoDownType DEF WithinTurn, ReceiveFails
<1>3. CASE AppendUser
  <2>1. UserEntry(cur.turn) \in Entry /\ cur.conv \in Conversations
    BY <1>0, InFlightTypes DEF TypeOK
  <2> QED
    BY <1>0, <1>3, <2>1, AppendOkType DEF WithinTurn, AppendUser, TypeOK
<1>4. CASE AppendUserFails
  <2>1. UserEntry(cur.turn) \in Entry /\ cur.conv \in Conversations
    BY <1>0, InFlightTypes DEF TypeOK
  <2>2. /\ ended' \in Seq(Results \cup {"open", "crash"})
        /\ Len(ended') = Len(ended)
    <3>1. ended \in Seq(Ends) /\ "crash" \in Ends
      BY <1>0 DEF TypeOK, Ends
    <3>2. ended' = [ended EXCEPT ![cur.turn] = "crash"]
      BY <1>4 DEF AppendUserFails
    <3> QED
      BY <3>1, <3>2, ExceptSeqType DEF Ends
  <2> QED
    BY <1>0, <1>4, <2>1, <2>2, AppendErrType, GoDownType
       DEF WithinTurn, AppendUserFails, TypeOK
<1>5. CASE DeliverWorking
  <2>1. frames' \in Seq(FrameSet) /\ lost' \in Nat
    BY <1>0, <1>5, DeliverType DEF DeliverWorking, TypeOK, FrameSet
  <2> QED
    BY <1>0, <1>5, <2>1
       DEF WithinTurn, DeliverWorking, TypeOK, FrameSet, logVars, loopVars
<1>6. CASE RegisterTurn
  BY <1>0, <1>6 DEF WithinTurn, RegisterTurn, TypeOK, logVars
<1>7. CASE OpenStream \/ OpenStreamFails \/ StreamCancelled \/ StreamEnds \/ UnknownStop
  BY <1>0, <1>7
     DEF WithinTurn, OpenStream, OpenStreamFails, StreamCancelled, StreamEnds, UnknownStop,
              Return, TypeOK, Results, logVars, loopVars
<1>8. ASSUME NEW s \in StopReasons, NEW n \in 0..MaxCalls, NEW t \in BOOLEAN,
             StreamCompletes(s, n, t)
      PROVE  TypeOK' /\ WithinTurn'
  <2>1. round' \in [stop : StopReasons, calls : Nat, text : BOOLEAN]
    BY <1>0, <1>8, BoundsAssumption DEF StreamCompletes
  <2> QED
    BY <1>0, <1>8, <2>1 DEF WithinTurn, StreamCompletes, TypeOK, logVars
<1>9. CASE FinishRound
  BY <1>0, <1>9, PersistAssistantType DEF WithinTurn, FinishRound, Return, TypeOK, Results
<1>10. CASE IterationLimit
  BY <1>0, <1>10 DEF WithinTurn, IterationLimit, Return, TypeOK, Results, logVars
<1>11. CASE BeginTools
  <2>1. RoundEntry \in Entry
    BY InFlightTypes
  <2>2. messages' \in Seq(Entry)
    <3>1. messages \in Seq(Entry)
      BY <1>0 DEF TypeOK
    <3> QED
      BY <1>0, <1>11, <2>1, <3>1 DEF BeginTools
  <2>3. TypeOK'
    BY <1>0, <1>11, <2>2, PersistAssistantType DEF BeginTools, TypeOK
  <2>4. iter' > 0
    <3>1. iter \in Nat
      BY <1>0 DEF TypeOK
    <3> QED
      BY <1>11, <3>1 DEF BeginTools
  <2> QED
    BY <1>0, <1>11, <2>3, <2>4 DEF WithinTurn, BeginTools
<1>12. CASE ToolReturns
  <2>1. PICK e \in Entry : e = ToolResult(FALSE)
    BY <1>12, InFlightTypes DEF ToolReturns
  <2>2. messages' \in Seq(Entry) /\ k' \in Nat
    <3>1. messages \in Seq(Entry) /\ k \in Nat
      BY <1>0 DEF TypeOK
    <3>2. messages' = Append(messages, e) /\ k' = k + 1
      BY <1>12, <2>1 DEF ToolReturns
    <3>3. messages' \in Seq(Entry)
      BY <2>1, <3>1, <3>2, AppendProperties
    <3>4. k' \in Nat
      BY <3>1, <3>2
    <3> QED
      BY <3>3, <3>4
  <2>3. pc' \in {"open", "tool"}
    BY <1>0, <1>12 DEF ToolReturns
  <2> QED
    BY <1>0, <1>12, <2>1, <2>2, <2>3, PersistType DEF WithinTurn, ToolReturns, TypeOK
<1>13. CASE ToolCancelled
  <2>1. ToolResult(TRUE) \in Entry
    BY <1>0, <1>13, InFlightTypes DEF ToolCancelled
  <2> QED
    BY <1>0, <1>13, <2>1, PersistType
       DEF WithinTurn, ToolCancelled, Return, TypeOK, Results
<1>14. CASE EndTurn
  <2>1. /\ ended' \in Seq(Results \cup {"open", "crash"})
        /\ Len(ended') = Len(ended)
    <3>1. ended \in Seq(Ends) /\ result \in Ends
      BY <1>0 DEF TypeOK, Ends
    <3>2. ended' = [ended EXCEPT ![cur.turn] = result]
      BY <1>14 DEF EndTurn
    <3>3. \A i : /\ [ended EXCEPT ![i] = result] \in Seq(Ends)
                /\ Len([ended EXCEPT ![i] = result]) = Len(ended)
      BY <3>1, ExceptSeqType
    <3>4. ended' \in Seq(Ends) /\ Len(ended') = Len(ended)
      BY <3>2, <3>3
    <3> QED
      BY <3>4 DEF Ends
  <2> QED
    BY <1>0, <1>14, <2>1 DEF WithinTurn, EndTurn, TypeOK, logVars, loopVars
<1>15. CASE DeliverReply
  <2>1. frames' \in Seq(FrameSet) /\ lost' \in Nat
    BY <1>0, <1>15, DeliverType DEF DeliverReply, TypeOK, FrameSet
  <2> QED
    BY <1>0, <1>15, <2>1 DEF WithinTurn, DeliverReply, TypeOK, FrameSet, logVars, loopVars
<1>16. CASE DeliverTurnState
  <2>1. frames' \in Seq(FrameSet) /\ lost' \in Nat
    BY <1>0, <1>16, DeliverType DEF DeliverTurnState, TerminalState, TypeOK, FrameSet
  <2>2. CASE result = "rpc"
    BY <1>0, <1>16, <2>1, <2>2, GoDownType
       DEF WithinTurn, DeliverTurnState, TypeOK, FrameSet
  <2>3. CASE result # "rpc"
    <3>1. round' \in [stop : StopReasons, calls : Nat, text : BOOLEAN]
      <4>1. round' = [stop |-> "end", calls |-> 0, text |-> FALSE]
        BY <1>0, <1>16, <2>3 DEF DeliverTurnState, LocalsGone, NoRound
      <4> QED
        BY <1>0, <4>1 DEF StopReasons
    <3>2. messages' \in Seq(Entry) /\ iter' \in Nat /\ k' \in Nat /\ result' \in Results
      BY <1>0, <1>16, <2>3 DEF DeliverTurnState, LocalsGone, Results
    <3> QED
      BY <1>0, <1>16, <2>1, <2>3, <3>1, <3>2
         DEF WithinTurn, DeliverTurnState, TypeOK, FrameSet
  <2> QED
    BY <2>2, <2>3
<1>17. ASSUME NEW c \in Conversations, Cancel(c)
       PROVE  TypeOK' /\ WithinTurn'
  <2>1. cur.turn \in 1..turnNo
    BY <1>0, <1>17 DEF Cancel, TypeOK, WithinTurn
  <2> QED
    BY <1>0, <1>17, <2>1 DEF WithinTurn, Cancel, TypeOK, logVars, loopVars
<1>18. ASSUME NEW c \in Conversations, LookupHistory(c)
       PROVE  TypeOK' /\ WithinTurn'
  BY <1>0, <1>18, GetOrCreateType DEF WithinTurn, LookupHistory, TypeOK, loopVars
<1>19. CASE Crash
  <2>1. \A e \in InFlight : e \in Entry
    <3>1. fired \in BOOLEAN
      BY <1>0 DEF TypeOK
    <3>2. ASSUME NEW e \in InFlight
          PROVE  e \in Entry
      <4>1. \/ e \in {UserEntry(cur.turn)}
            \/ e \in {RoundEntry}
            \/ pc = "tool" /\ e \in {ToolResult(FALSE), ToolResult(fired)}
        BY <3>2 DEF InFlight
      <4> QED
        BY <3>1, <4>1, InFlightTypes
    <3> QED
      BY <3>2
  <2>2. /\ disk' \in [Conversations -> Seq(Entry)]
        /\ tail' \in [Conversations -> {"clean", "torn", "bare"}]
    <3>1. CASE UNCHANGED <<disk, tail>>
      BY <1>0, <3>1 DEF TypeOK
    <3>2. ASSUME NEW e \in InFlight, NEW o \in CutShort(disk[cur.conv], tail[cur.conv], e),
                 disk' = [disk EXCEPT ![cur.conv] = o[1]],
                 tail' = [tail EXCEPT ![cur.conv] = o[2]]
          PROVE  /\ disk' \in [Conversations -> Seq(Entry)]
                 /\ tail' \in [Conversations -> {"clean", "torn", "bare"}]
      <4>1. o[1] \in Seq(Entry) /\ o[2] \in {"clean", "torn", "bare"}
        BY <1>0, <2>1, CutShortType DEF TypeOK
      <4> QED
        BY <1>0, <3>2, <4>1 DEF TypeOK
    <3> QED
      BY <1>0, <1>19, <3>1, <3>2 DEF Crash
  <2>3. /\ ended' \in Seq(Results \cup {"open", "crash"})
        /\ Len(ended') = Len(ended)
    <3>1. ended' \in [1..Len(ended) -> Results \cup {"open", "crash"}]
      BY <1>0, <1>19, LenProperties DEF Crash, TypeOK
    <3>2. Len(ended) \in Nat
      BY <1>0, LenProperties DEF TypeOK
    <3>3. ended' \in Seq(Results \cup {"open", "crash"})
      BY <1>0, <3>1, <3>2, IsASeq
    <3> QED
      BY <1>0, <3>1, <3>2, <3>3, LenProperties
  <2>4. TypeOK'
    BY <1>0, <1>19, <2>2, <2>3, GoDownType DEF Crash, TypeOK
  <2> QED
    BY <1>0, <1>19, <2>4, GoDownType DEF WithinTurn, Crash
<1>20. CASE Restart
  BY <1>0, <1>20 DEF WithinTurn, Restart, TypeOK, logVars, loopVars
<1>21. CASE AwaitMessage
  BY <1>0, <1>21 DEF WithinTurn, AwaitMessage, vars, TypeOK
<1>22. CASE UNCHANGED vars
  BY <1>0, <1>22 DEF WithinTurn, vars, TypeOK
<1> QED
  BY <1>1, <1>2, <1>3, <1>4, <1>5, <1>6, <1>7, <1>8, <1>9, <1>10, <1>11, <1>12, <1>13,
     <1>14, <1>15, <1>16, <1>17, <1>18, <1>19, <1>20, <1>21, <1>22
     DEF Next, LoopStep

\* The harness's state keeps its type, whatever the conversations, the bounds, the
\* cancels, the crashes and the failed writes.
THEOREM TypeCorrect == Spec => []TypeOK
<1>1. Inv => TypeOK
  BY DEF Inv
<1> QED
  BY <1>1, InitInv, StepInv, PTL DEF Spec

----------------------------------------------------------------------------
(* Cancellation *)

\* A fired token of the running turn, and the outcome it leads to, were asked for.
CancelInv ==
    /\ pc \in {"open", "stream", "round", "tool"} /\ fired => cur.turn \in asked
    /\ pc \in {"end", "reply", "state"} /\ result = "cancelled" => cur.turn \in asked
    /\ CancelledOnlyIfAsked

\* Initially no turn has ended.
LEMMA InitCancelInv == Init => CancelInv
BY DEF Init, CancelInv, CancelledOnlyIfAsked

\* The turns recorded as cancelled stay asked for when no turn newly ends as such.
LEMMA EndedKept ==
    ASSUME TypeOK, TypeOK', CancelledOnlyIfAsked, asked \subseteq asked',
           \A t \in 1..Len(ended') :
               ended'[t] = "cancelled" => t \in 1..Len(ended) /\ ended[t] = "cancelled"
    PROVE  CancelledOnlyIfAsked'
BY DEF CancelledOnlyIfAsked

\* Every step keeps the link between the token, the turn and the asked set.
LEMMA StepCancelInv ==
    ASSUME Inv, Inv', CancelInv, [Next]_vars
    PROVE  CancelInv'
<1>0. TypeOK /\ TypeOK' /\ WithinTurn /\ CancelledOnlyIfAsked
  BY DEF Inv, CancelInv
<1>a. ended \in Seq(Ends) /\ Len(ended) \in Nat /\ DOMAIN ended = 1..Len(ended)
  BY <1>0, LenProperties DEF TypeOK, Ends
<1>1. ASSUME NEW c \in Conversations, NEW r \in BOOLEAN, Receive(c, r)
      PROVE  CancelInv'
  <2>1. ended' = Append(ended, "open") /\ asked' = asked /\ pc' = "append"
    BY <1>1 DEF Receive
  <2>2. /\ Len(ended') = Len(ended) + 1
        /\ ended'[Len(ended) + 1] = "open"
        /\ \A t \in 1..Len(ended) : ended'[t] = ended[t]
    BY <1>a, <2>1, AppendProperties DEF Ends
  <2>3. \A t \in 1..Len(ended') :
            ended'[t] = "cancelled" => t \in 1..Len(ended) /\ ended[t] = "cancelled"
    BY <1>a, <2>2
  <2> QED
    BY <1>0, <2>1, <2>3, EndedKept DEF CancelInv
<1>2. CASE ReceiveFails
  BY <1>2, <1>0 DEF ReceiveFails, GoDown, CancelInv, CancelledOnlyIfAsked
<1>3. CASE AppendUser
  BY <1>3, <1>0 DEF AppendUser, CancelInv, CancelledOnlyIfAsked
<1>4. CASE AppendUserFails
  <2>1. ended' = [ended EXCEPT ![cur.turn] = "crash"] /\ asked' = asked /\ pc' = "down"
    BY <1>4 DEF AppendUserFails, GoDown
  <2>2. Len(ended') \in Nat /\ DOMAIN ended' = 1..Len(ended')
        /\ DOMAIN ended' = 1..Len(ended)
    BY <1>a, <1>0, <2>1, LenProperties DEF TypeOK
  <2>3. \A t \in 1..Len(ended') :
            ended'[t] = "cancelled" => t \in 1..Len(ended) /\ ended[t] = "cancelled"
    BY <1>a, <2>1, <2>2
  <2> QED
    BY <1>0, <2>1, <2>3, EndedKept DEF CancelInv
<1>5. CASE DeliverWorking
  BY <1>5, <1>0 DEF DeliverWorking, CancelInv, CancelledOnlyIfAsked, loopVars
<1>6. CASE RegisterTurn
  BY <1>6, <1>0 DEF RegisterTurn, CancelInv, CancelledOnlyIfAsked
<1>7. CASE OpenStream \/ OpenStreamFails \/ StreamCancelled \/ StreamEnds \/ UnknownStop
  BY <1>7, <1>0 DEF OpenStream, OpenStreamFails, StreamCancelled, StreamEnds, UnknownStop,
                    Return, CancelInv, CancelledOnlyIfAsked, loopVars
<1>8. ASSUME NEW s \in StopReasons, NEW n \in 0..MaxCalls, NEW t \in BOOLEAN,
             StreamCompletes(s, n, t)
      PROVE  CancelInv'
  BY <1>8, <1>0 DEF StreamCompletes, CancelInv, CancelledOnlyIfAsked
<1>9. CASE FinishRound
  BY <1>9, <1>0 DEF FinishRound, Return, CancelInv, CancelledOnlyIfAsked
<1>10. CASE IterationLimit
  BY <1>10, <1>0 DEF IterationLimit, Return, CancelInv, CancelledOnlyIfAsked
<1>11. CASE BeginTools
  BY <1>11, <1>0 DEF BeginTools, CancelInv, CancelledOnlyIfAsked
<1>12. CASE ToolReturns
  BY <1>12, <1>0 DEF ToolReturns, CancelInv, CancelledOnlyIfAsked
<1>13. CASE ToolCancelled
  BY <1>13, <1>0 DEF ToolCancelled, Return, CancelInv, CancelledOnlyIfAsked
<1>14. CASE EndTurn
  <2>1. /\ ended' = [ended EXCEPT ![cur.turn] = result]
        /\ UNCHANGED <<asked, cur, result>>
        /\ pc = "end" /\ pc' = "reply"
    BY <1>14 DEF EndTurn, loopVars
  <2>2. result = "cancelled" => cur.turn \in asked
    BY <2>1 DEF CancelInv
  <2>3. Len(ended') \in Nat /\ DOMAIN ended' = 1..Len(ended')
        /\ DOMAIN ended' = 1..Len(ended)
    BY <1>a, <1>0, <2>1, LenProperties DEF TypeOK
  <2>4. \A t \in 1..Len(ended') : ended'[t] = "cancelled" => t \in asked'
    BY <1>a, <1>0, <2>1, <2>2, <2>3 DEF CancelledOnlyIfAsked
  <2> QED
    BY <2>1, <2>2, <2>4 DEF CancelInv, CancelledOnlyIfAsked
<1>15. CASE DeliverReply
  BY <1>15, <1>0 DEF DeliverReply, CancelInv, CancelledOnlyIfAsked, loopVars
<1>16. CASE DeliverTurnState
  BY <1>16, <1>0 DEF DeliverTurnState, GoDown, LocalsGone, CancelInv, CancelledOnlyIfAsked
<1>17. ASSUME NEW c \in Conversations, Cancel(c)
       PROVE  CancelInv'
  BY <1>17, <1>0 DEF Cancel, CancelInv, CancelledOnlyIfAsked, loopVars
<1>18. ASSUME NEW c \in Conversations, LookupHistory(c)
       PROVE  CancelInv'
  BY <1>18, <1>0 DEF LookupHistory, CancelInv, CancelledOnlyIfAsked, loopVars
<1>19. CASE Crash
  <2>1. /\ ended' = [t \in DOMAIN ended |-> IF ended[t] = "open" THEN "crash" ELSE ended[t]]
        /\ asked' = asked /\ pc' = "down"
    BY <1>19 DEF Crash, GoDown
  <2>2. Len(ended') \in Nat /\ DOMAIN ended' = 1..Len(ended')
        /\ DOMAIN ended' = 1..Len(ended)
    BY <1>a, <1>0, <2>1, LenProperties DEF TypeOK
  <2>3. \A t \in 1..Len(ended') :
            ended'[t] = "cancelled" => t \in 1..Len(ended) /\ ended[t] = "cancelled"
    BY <1>a, <2>1, <2>2
  <2> QED
    BY <1>0, <2>1, <2>3, EndedKept DEF CancelInv
<1>20. CASE Restart
  BY <1>20, <1>0 DEF Restart, CancelInv, CancelledOnlyIfAsked, loopVars
<1>21. CASE AwaitMessage \/ UNCHANGED vars
  BY <1>21, <1>0 DEF AwaitMessage, vars, CancelInv, CancelledOnlyIfAsked
<1> QED
  BY <1>1, <1>2, <1>3, <1>4, <1>5, <1>6, <1>7, <1>8, <1>9, <1>10, <1>11, <1>12, <1>13,
     <1>14, <1>15, <1>16, <1>17, <1>18, <1>19, <1>20, <1>21
     DEF Next, LoopStep

\* For every instance: a turn the harness ends as cancelled was cancelled by a client
\* while it ran; the token fired for one turn never stops another.
THEOREM CancelSafe == Spec => []CancelledOnlyIfAsked
<1>1. CancelInv => CancelledOnlyIfAsked
  BY DEF CancelInv
<1>2. Inv /\ CancelInv /\ [Next]_vars => Inv' /\ CancelInv'
  BY StepInv, StepCancelInv
<1>3. Init => Inv /\ CancelInv
  BY InitInv, InitCancelInv
<1> QED
  BY <1>1, <1>2, <1>3, PTL DEF Spec

----------------------------------------------------------------------------
(* The resent context *)

\* The context is the log, and the log of the message being appended is loaded.
ContextInv == ContextIsLog /\ (pc = "append" => cur.conv \in loaded)

\* Without write errors a persisted record is in memory.
LEMMA PersistIsAppend ==
    ASSUME TypeOK, MaxWriteErrors = 0, NEW e, Persist(e)
    PROVE  AppendOk(cur.conv, e)
BY DEF TypeOK, Persist, AppendErr

\* Without write errors every step keeps the context equal to the log.
LEMMA StepContextInv ==
    ASSUME MaxWriteErrors = 0, Inv, ContextInv, [Next]_vars
    PROVE  ContextInv'
<1>0. TypeOK /\ WithinTurn
  BY DEF Inv
<1>a. cur.conv \in Conversations /\ mem \in [Conversations -> Seq(Entry)]
  BY <1>0 DEF TypeOK
<1>1. ASSUME NEW c \in Conversations, NEW r \in BOOLEAN, Receive(c, r)
      PROVE  ContextInv'
  BY <1>1 DEF Receive, GetOrCreate, ContextInv, ContextIsLog
<1>2. CASE ReceiveFails
  BY <1>2 DEF ReceiveFails, GoDown, ContextInv, ContextIsLog
<1>3. CASE AppendUser
  BY <1>3 DEF AppendUser, AppendOk, ContextInv, ContextIsLog
<1>4. CASE AppendUserFails
  BY <1>4 DEF AppendUserFails, GoDown, ContextInv, ContextIsLog
<1>5. CASE DeliverWorking \/ RegisterTurn
  BY <1>5 DEF DeliverWorking, RegisterTurn, ContextInv, ContextIsLog, logVars, loopVars
<1>6. CASE OpenStream \/ OpenStreamFails \/ StreamCancelled \/ StreamEnds \/ UnknownStop
           \/ IterationLimit
  BY <1>6 DEF OpenStream, OpenStreamFails, StreamCancelled, StreamEnds, UnknownStop,
              IterationLimit, Return, ContextInv, ContextIsLog, logVars, loopVars
<1>7. ASSUME NEW s \in StopReasons, NEW n \in 0..MaxCalls, NEW t \in BOOLEAN,
             StreamCompletes(s, n, t)
      PROVE  ContextInv'
  BY <1>7 DEF StreamCompletes, ContextInv, ContextIsLog, logVars
<1>8. CASE FinishRound \/ ToolCancelled
  BY <1>8 DEF FinishRound, ToolCancelled, Return, ContextInv, ContextIsLog
<1>9. CASE BeginTools
  <2>1. Persist(RoundEntry)
    BY <1>9, <1>0 DEF BeginTools, CallsTools, PersistAssistant, Storable
  <2>2. mem' = [mem EXCEPT ![cur.conv] = Append(@, RoundEntry)] /\ loaded' = loaded
    BY <1>0, <2>1, PersistIsAppend DEF AppendOk
  <2> QED
    BY <1>9, <1>a, <2>2 DEF BeginTools, ContextInv, ContextIsLog
<1>10. CASE ToolReturns
  <2>1. /\ mem' = [mem EXCEPT ![cur.conv] = Append(@, ToolResult(FALSE))]
        /\ loaded' = loaded
    BY <1>10, <1>0, PersistIsAppend DEF ToolReturns, AppendOk
  <2> QED
    BY <1>10, <1>a, <2>1 DEF ToolReturns, ContextInv, ContextIsLog
<1>11. CASE EndTurn \/ DeliverReply
  BY <1>11 DEF EndTurn, DeliverReply, ContextInv, ContextIsLog
<1>12. CASE DeliverTurnState
  BY <1>12 DEF DeliverTurnState, GoDown, ContextInv, ContextIsLog
<1>13. ASSUME NEW c \in Conversations, Cancel(c)
       PROVE  ContextInv'
  BY <1>13 DEF Cancel, ContextInv, ContextIsLog, logVars, loopVars
<1>14. ASSUME NEW c \in Conversations, LookupHistory(c)
       PROVE  ContextInv'
  <2>1. c # cur.conv \/ cur.conv \notin loaded
    BY <1>14 DEF LookupHistory
  <2>2. /\ mem' = [mem EXCEPT ![c] = disk[c]] /\ loaded' = loaded \cup {c}
        /\ UNCHANGED <<pc, cur, messages>>
    BY <1>14 DEF LookupHistory, GetOrCreate, loopVars
  <2> QED
    BY <1>a, <2>1, <2>2 DEF ContextInv, ContextIsLog
<1>15. CASE Crash \/ Restart
  BY <1>15 DEF Crash, Restart, GoDown, ContextInv, ContextIsLog
<1>16. CASE AwaitMessage \/ UNCHANGED vars
  BY <1>16 DEF AwaitMessage, vars, ContextInv, ContextIsLog
<1> QED
  BY <1>1, <1>2, <1>3, <1>4, <1>5, <1>6, <1>7, <1>8, <1>9, <1>10, <1>11, <1>12, <1>13,
     <1>14, <1>15, <1>16
     DEF Next, LoopStep

\* While no write fails, what llm_loop resends to the model is the conversation's log,
\* whatever is cancelled, crashes or is looked up beside the loop.
THEOREM ContextCorrect ==
    ASSUME MaxWriteErrors = 0
    PROVE  Spec => []ContextIsLog
<1>1. ContextInv => ContextIsLog
  BY DEF ContextInv
<1>2. Inv /\ ContextInv /\ [Next]_vars => Inv' /\ ContextInv'
  BY StepInv, StepContextInv
<1>3. Init => Inv /\ ContextInv
  BY InitInv DEF Init, ContextInv, ContextIsLog
<1> QED
  BY <1>1, <1>2, <1>3, PTL DEF Spec

----------------------------------------------------------------------------
(* The frames of a turn *)

Terminal == {"IDLE", "CANCELLED", "FAILED"}

\* No frame is of a later turn, and a turn being served has no terminal frame yet.
FramesInv ==
    /\ \A i \in 1..Len(frames) : frames[i].turn <= cur.turn
    /\ pc \notin {"recv", "down"} =>
          \A i \in 1..Len(frames) : frames[i].kind \in Terminal => frames[i].turn < cur.turn
    /\ NothingAfterTerminal

\* A step that delivers nothing and stays within the turn, or leaves it.
LEMMA FramesKept ==
    ASSUME TypeOK, WithinTurn, WithinTurn', FramesInv, UNCHANGED <<frames, cur>>,
           pc' \notin {"recv", "down"} => pc \notin {"recv", "down"}
    PROVE  FramesInv'
<1>1. frames \in Seq(FrameSet) /\ cur.turn \in Nat
  BY DEF TypeOK, FrameSet
<1>2. ASSUME NEW i \in 1..Len(frames), frames[i].kind \in Terminal,
             frames[i].turn = cur.turn
      PROVE  turns' = {}
  <2>1. pc \in {"recv", "down"}
    BY <1>1, <1>2 DEF FramesInv
  <2> QED
    BY <2>1 DEF WithinTurn
<1> QED
  BY <1>1, <1>2 DEF FramesInv, NothingAfterTerminal, Terminal

\* A frame of the turn being served joins frames that are not terminal for it.
LEMMA FramesGrow ==
    ASSUME TypeOK, WithinTurn, WithinTurn', FramesInv, pc \notin {"recv", "down"},
           NEW f \in FrameSet, f.turn = cur.turn, frames' = Append(frames, f),
           UNCHANGED cur,
           f.kind \in Terminal => pc' \in {"recv", "down"}
    PROVE  FramesInv'
<1>1. frames \in Seq(FrameSet) /\ cur.turn \in Nat /\ Len(frames) \in Nat
  BY LenProperties DEF TypeOK, FrameSet
<1>2. \A i \in 1..Len(frames) : frames[i] \in FrameSet
  BY <1>1, ElementOfSeq
<1>3. /\ Len(frames') = Len(frames) + 1
      /\ frames'[Len(frames) + 1] = f
      /\ \A i \in 1..Len(frames) : frames'[i] = frames[i]
  BY <1>1, AppendProperties
<1>4. ASSUME NEW i \in 1..Len(frames')
      PROVE  \/ i \in 1..Len(frames) /\ frames'[i] = frames[i]
             \/ i = Len(frames) + 1 /\ frames'[i] = f
  BY <1>1, <1>3, <1>4
<1>5. ASSUME NEW i \in 1..Len(frames), frames[i].kind \in Terminal
      PROVE  frames[i].turn < cur.turn /\ frames[i].turn \in Nat
  BY <1>2, <1>5 DEF FramesInv, FrameSet
<1>6. \A i \in 1..Len(frames') : frames'[i].turn <= cur'.turn
  BY <1>1, <1>4 DEF FramesInv
<1>7. pc' \notin {"recv", "down"} =>
          \A i \in 1..Len(frames') :
              frames'[i].kind \in Terminal => frames'[i].turn < cur'.turn
  BY <1>4, <1>5
<1>8. ASSUME NEW i \in 1..Len(frames'), frames'[i].kind \in Terminal
      PROVE  /\ \A j \in 1..Len(frames') : j > i => frames'[j].turn > frames'[i].turn
             /\ frames'[i].turn = cur'.turn => turns' = {}
  <2>1. CASE i \in 1..Len(frames) /\ frames'[i] = frames[i]
    <3>1. frames[i].turn < cur.turn /\ frames[i].turn \in Nat
      BY <1>5, <1>8, <2>1
    <3>2. \A j \in 1..Len(frames) : j > i => frames[j].turn > frames[i].turn
      BY <1>8, <2>1 DEF FramesInv, NothingAfterTerminal, Terminal
    <3>3. ASSUME NEW j \in 1..Len(frames'), j > i
          PROVE  frames'[j].turn > frames'[i].turn
      BY <1>1, <1>4, <2>1, <3>1, <3>2, <3>3
    <3> QED
      BY <1>1, <2>1, <3>1, <3>3
  <2>2. CASE i = Len(frames) + 1 /\ frames'[i] = f
    <3>1. pc' \in {"recv", "down"}
      BY <1>8, <2>2
    <3>2. turns' = {}
      BY <3>1 DEF WithinTurn
    <3> QED
      BY <1>1, <1>3, <2>2, <3>2
  <2> QED
    BY <1>4, <2>1, <2>2
<1>9. NothingAfterTerminal'
  BY <1>8 DEF NothingAfterTerminal, Terminal
<1> QED
  BY <1>6, <1>7, <1>9 DEF FramesInv

\* Every step keeps the order of the delivered frames.
LEMMA StepFramesInv ==
    ASSUME Inv, Inv', FramesInv, [Next]_vars
    PROVE  FramesInv'
<1>0. TypeOK /\ WithinTurn /\ WithinTurn'
  BY DEF Inv
<1>1. ASSUME NEW c \in Conversations, NEW r \in BOOLEAN, Receive(c, r)
      PROVE  FramesInv'
  <2>1. frames' = frames /\ turns' = turns /\ pc = "recv" /\ cur'.turn = cur.turn + 1
    BY <1>0, <1>1 DEF Receive, TypeOK
  <2>2. turns = {}
    BY <1>0, <2>1 DEF WithinTurn
  <2>3. /\ frames \in Seq(FrameSet) /\ cur.turn \in Nat
        /\ \A i \in 1..Len(frames) : frames[i].turn \in Nat
    <3>1. frames \in Seq(FrameSet) /\ cur.turn \in Nat
      BY <1>0 DEF TypeOK, FrameSet
    <3>2. \A i \in 1..Len(frames) : frames[i] \in FrameSet
      BY <3>1, ElementOfSeq
    <3> QED
      BY <3>1, <3>2 DEF FrameSet
  <2>4. \A i \in 1..Len(frames) : frames[i].turn < cur.turn + 1
    BY <2>3 DEF FramesInv
  <2> QED
    BY <2>1, <2>2, <2>3, <2>4 DEF FramesInv, NothingAfterTerminal
<1>2. CASE \/ ReceiveFails \/ AppendUser \/ AppendUserFails \/ RegisterTurn \/ OpenStream
           \/ OpenStreamFails \/ StreamCancelled \/ StreamEnds \/ UnknownStop
           \/ FinishRound \/ IterationLimit \/ BeginTools \/ ToolReturns \/ ToolCancelled
           \/ EndTurn \/ Crash \/ Restart
  <2>1. UNCHANGED <<frames, cur>>
    BY <1>2 DEF ReceiveFails, AppendUser, AppendUserFails, RegisterTurn, OpenStream,
                OpenStreamFails, StreamCancelled, StreamEnds, UnknownStop, FinishRound,
                IterationLimit, BeginTools, ToolReturns, ToolCancelled, EndTurn, Crash,
                Restart
  <2>2. pc' \notin {"recv", "down"} => pc \notin {"recv", "down"}
    BY <1>2 DEF ReceiveFails, AppendUser, AppendUserFails, RegisterTurn, OpenStream,
                OpenStreamFails, StreamCancelled, StreamEnds, UnknownStop, FinishRound,
                IterationLimit, BeginTools, ToolReturns, ToolCancelled, EndTurn, Crash,
                Restart, GoDown
  <2> QED
    BY <1>0, <2>1, <2>2, FramesKept
<1>3. ASSUME NEW s \in StopReasons, NEW n \in 0..MaxCalls, NEW t \in BOOLEAN,
             StreamCompletes(s, n, t)
      PROVE  FramesInv'
  BY <1>0, <1>3, FramesKept DEF StreamCompletes
<1>4. CASE DeliverWorking \/ DeliverReply
  <2>1. /\ pc \notin {"recv", "down"} /\ pc' \notin {"recv", "down"} /\ cur' = cur
        /\ \/ frames' = frames
           \/ frames' = Append(frames, Frame("WORKING", FALSE))
           \/ frames' = Append(frames, Frame("REPLY", round.text))
    BY <1>4 DEF DeliverWorking, DeliverReply, Deliver
  <2>2. \A kind \in {"WORKING", "REPLY"}, text \in BOOLEAN :
            /\ Frame(kind, text) \in FrameSet
            /\ Frame(kind, text).turn = cur.turn
            /\ Frame(kind, text).kind \notin Terminal
    BY <1>0 DEF Frame, FrameSet, TypeOK, Terminal
  <2>3. round.text \in BOOLEAN
    BY <1>0 DEF TypeOK
  <2>4. CASE frames' = frames
    BY <1>0, <2>1, <2>4, FramesKept
  <2>5. CASE frames' = Append(frames, Frame("WORKING", FALSE))
    BY <1>0, <2>1, <2>2, <2>5, FramesGrow
  <2>6. CASE frames' = Append(frames, Frame("REPLY", round.text))
    BY <1>0, <2>1, <2>2, <2>3, <2>6, FramesGrow
  <2> QED
    BY <2>1, <2>4, <2>5, <2>6
<1>5. CASE DeliverTurnState
  <2>1. /\ pc \notin {"recv", "down"} /\ pc' \in {"recv", "down"} /\ cur' = cur
        /\ \/ frames' = frames
           \/ frames' = Append(frames, Frame(TerminalState, FALSE))
    BY <1>5 DEF DeliverTurnState, Deliver, GoDown
  <2>2. /\ Frame(TerminalState, FALSE) \in FrameSet
        /\ Frame(TerminalState, FALSE).turn = cur.turn
    BY <1>0 DEF Frame, FrameSet, TypeOK, TerminalState
  <2>3. CASE frames' = frames
    BY <1>0, <2>1, <2>3, FramesKept
  <2>4. CASE frames' = Append(frames, Frame(TerminalState, FALSE))
    BY <1>0, <2>1, <2>2, <2>4, FramesGrow
  <2> QED
    BY <2>1, <2>3, <2>4
<1>6. ASSUME NEW c \in Conversations, Cancel(c) \/ LookupHistory(c)
      PROVE  FramesInv'
  BY <1>0, <1>6, FramesKept DEF Cancel, LookupHistory
<1>7. CASE AwaitMessage \/ UNCHANGED vars
  BY <1>0, <1>7, FramesKept DEF AwaitMessage, vars
<1> QED
  BY <1>1, <1>2, <1>3, <1>4, <1>5, <1>6, <1>7 DEF Next, LoopStep

\* For every instance: nothing of a turn is delivered after its terminal state, and by
\* then its token is out of the registry, so a late cancel finds no turn.
THEOREM TerminalIsLast == Spec => []NothingAfterTerminal
<1>1. FramesInv => NothingAfterTerminal
  BY DEF FramesInv
<1>2. Inv /\ FramesInv /\ [Next]_vars => Inv' /\ FramesInv'
  BY StepInv, StepFramesInv
<1>3. Init => Inv /\ FramesInv
  <2>1. ASSUME Init PROVE 1..Len(frames) = {}
    BY <2>1 DEF Init
  <2> QED
    BY <2>1, InitInv DEF FramesInv, NothingAfterTerminal
<1> QED
  BY <1>1, <1>2, <1>3, PTL DEF Spec
----------------------------------------------------------------------------
(* The log and the file *)

\* The n-th call of the i-th record has its result in a later record.
Answered(s, i, n) ==
    \E m \in (i + 1)..Len(s) : ResultOf(s[m], s[i]) /\ s[m].call = n

\* The i-th record is an assistant message of the turn being served.
Mine(s, i) == s[i].role = "assistant" /\ s[i].turn = cur.turn

\* The records of a history are of turns received; those of the turn being served
\* are its conversation's, and there are none before the user message is appended.
TurnsOf(c, s) ==
    \A i \in 1..Len(s) :
        /\ s[i].turn \in 1..cur.turn
        /\ s[i].turn = cur.turn => c = cur.conv /\ pc # "append"

CutShortEnds == {"open", "cancelled", "crash", "max"}

\* A turn that ended otherwise than by a cancel, a crash or the token limit has
\* answered all its calls, if a completion that ends the turn carries none.
Paired(s) == "end" \notin CallsOn =>
    \A i \in 1..Len(s) : \A n \in 1..s[i].calls :
        s[i].role = "assistant" /\ ended[s[i].turn] \notin CutShortEnds => Answered(s, i, n)

\* The rounds of the turn being served: all answered while the model is asked, the
\* last one up to k while its calls are dispatched.
Rounds(s) ==
    /\ pc \in {"working", "register"} => \A i \in 1..Len(s) : ~Mine(s, i)
    /\ pc \in {"open", "stream", "round"} =>
          \A i \in 1..Len(s) : Mine(s, i) =>
              s[i].round < iter /\ \A n \in 1..s[i].calls : Answered(s, i, n)
    /\ pc = "tool" =>
          /\ k \in 1..round.calls
          /\ \E j \in 1..Len(s) : s[j] = AssistantEntry(cur.turn, iter - 1, round.calls)
          /\ \A i \in 1..Len(s) : Mine(s, i) =>
                /\ s[i].round < iter
                /\ s[i].round = iter - 1 => s[i].calls = round.calls
                /\ \A n \in 1..s[i].calls :
                      Answered(s, i, n) \/ (s[i].round = iter - 1 /\ n >= k)
    /\ pc = "end" /\ result \notin {"cancelled", "max"} /\ "end" \notin CallsOn =>
          \A i \in 1..Len(s) : Mine(s, i) => \A n \in 1..s[i].calls : Answered(s, i, n)

\* What every history, in memory or in the file, satisfies.
History(c, s) ==
    /\ TurnsOf(c, s)
    /\ ResultsFollow(s)
    /\ RoundsAnswered(s)
    /\ Paired(s)
    /\ c = cur.conv => Rounds(s)

Histories == \A c \in Conversations : \A s \in {mem[c], disk[c]} : History(c, s)

\* A last record without its newline is of a turn that a crash ended.
Bare ==
    \A c \in Conversations : tail[c] = "bare" =>
        /\ Len(disk[c]) > 0
        /\ ended[disk[c][Len(disk[c])].turn] = "crash"

\* How the turns ended, and how the files end: the file of the turn being served ends
\* in a newline once its user message is in.
Endings ==
    /\ pc \in {"append", "working", "register", "open", "stream", "round", "tool", "end"}
          => ended[cur.turn] = "open"
    /\ pc \in {"reply", "state"} => ended[cur.turn] = result
    /\ pc = "round" /\ round.calls > 0 => round.stop \in CallsOn
    /\ pc \in {"working", "register", "open", "stream", "round", "tool", "end", "reply",
               "state"} => tail[cur.conv] = "clean"
    /\ Bare

HoldsAssistant(s, t) == \E j \in 1..Len(s) : s[j].role = "assistant" /\ s[j].turn = t

\* A reply with text is in the file before it is delivered, and its turn did not crash.
Replies ==
    /\ pc \in {"end", "reply"} /\ HasReply /\ round.text
          => HoldsAssistant(disk[cur.conv], cur.turn)
    /\ \A i \in 1..Len(frames) : frames[i].kind = "REPLY" /\ frames[i].text =>
          /\ frames[i].turn \in 1..Len(ended)
          /\ ended[frames[i].turn] \in {"ok", "max"}
          /\ HoldsAssistant(disk[frames[i].conv], frames[i].turn)

LogInv == Histories /\ Endings /\ Replies

\* The elements of a sequence with one more element.
LEMMA AppendFacts ==
    ASSUME NEW s \in Seq(Entry), NEW e \in Entry
    PROVE  /\ Append(s, e) \in Seq(Entry)
           /\ Len(s) \in Nat
           /\ Len(Append(s, e)) = Len(s) + 1
           /\ Append(s, e)[Len(s) + 1] = e
           /\ \A i \in 1..Len(s) : Append(s, e)[i] = s[i] /\ s[i] \in Entry
BY AppendProperties, ElementOfSeq, LenProperties

\* The elements of a sequence without its last one.
LEMMA FrontFacts ==
    ASSUME NEW s \in Seq(Entry), Len(s) > 0
    PROVE  /\ Front(s) \in Seq(Entry)
           /\ Len(s) \in Nat
           /\ Len(Front(s)) = Len(s) - 1
           /\ \A i \in 1..(Len(s) - 1) : Front(s)[i] = s[i] /\ s[i] \in Entry
<1>1. Len(s) \in Nat /\ \A i \in 1..Len(s) : s[i] \in Entry
  BY LenProperties, ElementOfSeq
<1>2. \A i \in 1..(Len(s) - 1) : s[i] \in Entry
  BY <1>1
<1>3. PICK m \in Nat : m = Len(s) - 1
  BY <1>1
<1>4. \A i \in 1..m : s[i] \in Entry
  BY <1>2, <1>3
<1>5. /\ SubSeq(s, 1, m) \in Seq(Entry)
      /\ Len(SubSeq(s, 1, m)) = IF 1 <= m THEN m - 1 + 1 ELSE 0
      /\ \A i \in 1..(m - 1 + 1) : SubSeq(s, 1, m)[i] = s[1 + i - 1]
  <2>1. 1 \in Int /\ m \in Int
    BY <1>3
  <2> QED
    BY <1>4, <2>1, SubSeqProperties
<1>6. Len(SubSeq(s, 1, m)) = m
  BY <1>3, <1>5
<1>7. \A i \in 1..m : SubSeq(s, 1, m)[i] = s[i]
  BY <1>3, <1>5
<1> QED
  BY <1>1, <1>2, <1>3, <1>5, <1>6, <1>7 DEF Front

\* A call stays answered when records are added, and is answered by its result.
LEMMA AnsweredAppend ==
    ASSUME NEW s \in Seq(Entry), NEW e \in Entry, NEW i \in 1..Len(s), NEW n
    PROVE  /\ Answered(s, i, n) => Answered(Append(s, e), i, n)
           /\ ResultOf(e, s[i]) /\ e.call = n => Answered(Append(s, e), i, n)
<1>0. /\ Len(s) \in Nat /\ Len(Append(s, e)) = Len(s) + 1
      /\ Append(s, e)[Len(s) + 1] = e
      /\ \A j \in 1..Len(s) : Append(s, e)[j] = s[j]
  BY AppendFacts
<1>1. ASSUME Answered(s, i, n) PROVE Answered(Append(s, e), i, n)
  <2>1. PICK m \in (i + 1)..Len(s) : ResultOf(s[m], s[i]) /\ s[m].call = n
    BY <1>1 DEF Answered
  <2>2. m \in 1..Len(s) /\ m \in (i + 1)..Len(Append(s, e))
    BY <1>0, <2>1
  <2> QED
    BY <1>0, <2>1, <2>2 DEF Answered
<1>2. ASSUME ResultOf(e, s[i]), e.call = n PROVE Answered(Append(s, e), i, n)
  <2>1. Len(s) + 1 \in (i + 1)..Len(Append(s, e))
    BY <1>0
  <2> QED
    BY <1>0, <1>2, <2>1 DEF Answered
<1> QED
  BY <1>1, <1>2

\* Results follow their tool use when a record joins that is no result, or one whose
\* tool use is there.
LEMMA ResultsFollowAppend ==
    ASSUME NEW s \in Seq(Entry), NEW e \in Entry, ResultsFollow(s),
           e.role = "tool" => \E j \in 1..Len(s) : ResultOf(e, s[j])
    PROVE  ResultsFollow(Append(s, e))
<1>0. /\ Len(s) \in Nat /\ Len(Append(s, e)) = Len(s) + 1
      /\ Append(s, e)[Len(s) + 1] = e
      /\ \A j \in 1..Len(s) : Append(s, e)[j] = s[j]
  BY AppendFacts
<1>1. ASSUME NEW i \in 1..Len(Append(s, e)), Append(s, e)[i].role = "tool"
      PROVE  \E j \in 1..(i - 1) : ResultOf(Append(s, e)[i], Append(s, e)[j])
  <2>1. CASE i \in 1..Len(s)
    <3>1. PICK j \in 1..(i - 1) : ResultOf(s[i], s[j])
      BY <1>0, <1>1, <2>1 DEF ResultsFollow
    <3>2. j \in 1..Len(s)
      BY <1>0, <2>1, <3>1
    <3> QED
      BY <1>0, <2>1, <3>1, <3>2
  <2>2. CASE i = Len(s) + 1
    <3>1. PICK j \in 1..Len(s) : ResultOf(e, s[j])
      BY <1>0, <1>1, <2>2
    <3> QED
      BY <1>0, <2>2, <3>1
  <2> QED
    BY <1>0, <1>1, <2>1, <2>2
<1> QED
  BY <1>1 DEF ResultsFollow

\* Rounds stay answered when a record joins that is no assistant message, or one of
\* a turn whose earlier rounds are answered.
LEMMA RoundsAnsweredAppend ==
    ASSUME NEW s \in Seq(Entry), NEW e \in Entry, RoundsAnswered(s),
           e.role = "assistant" =>
              \A i \in 1..Len(s) : s[i].role = "assistant" /\ s[i].turn = e.turn =>
                  \A n \in 1..s[i].calls : Answered(s, i, n)
    PROVE  RoundsAnswered(Append(s, e))
<1>0. /\ Len(s) \in Nat /\ Len(Append(s, e)) = Len(s) + 1
      /\ Append(s, e)[Len(s) + 1] = e
      /\ \A j \in 1..Len(s) : Append(s, e)[j] = s[j]
  BY AppendFacts
<1> DEFINE a == Append(s, e)
<1>1. ASSUME NEW i \in 1..Len(a), NEW j \in 1..Len(a), i < j, a[i].role = "assistant",
             a[j].role = "assistant", a[i].turn = a[j].turn, NEW n \in 1..a[i].calls
      PROVE  \E m \in (i + 1)..(j - 1) : ResultOf(a[m], a[i]) /\ a[m].call = n
  <2>1. i \in 1..Len(s) /\ a[i] = s[i]
    BY <1>0, <1>1
  <2>2. CASE j \in 1..Len(s)
    <3>1. PICK m \in (i + 1)..(j - 1) : ResultOf(s[m], s[i]) /\ s[m].call = n
      BY <1>0, <1>1, <2>1, <2>2 DEF RoundsAnswered
    <3>2. m \in 1..Len(s)
      BY <1>0, <2>1, <2>2, <3>1
    <3> QED
      BY <1>0, <2>1, <3>1, <3>2
  <2>3. CASE j = Len(s) + 1
    <3>1. Answered(s, i, n)
      BY <1>0, <1>1, <2>1, <2>3
    <3>2. PICK m \in (i + 1)..Len(s) : ResultOf(s[m], s[i]) /\ s[m].call = n
      BY <3>1 DEF Answered
    <3>3. m \in 1..Len(s) /\ m \in (i + 1)..(j - 1)
      BY <1>0, <2>1, <2>3, <3>2
    <3> QED
      BY <1>0, <2>1, <3>2, <3>3
  <2> QED
    BY <1>0, <1>1, <2>2, <2>3
<1> QED
  BY <1>1 DEF RoundsAnswered

\* Both survive the loss of the last record.
LEMMA FrontKeeps ==
    ASSUME NEW s \in Seq(Entry), Len(s) > 0, ResultsFollow(s), RoundsAnswered(s)
    PROVE  ResultsFollow(Front(s)) /\ RoundsAnswered(Front(s))
<1>0. /\ Len(s) \in Nat /\ Len(Front(s)) = Len(s) - 1
      /\ \A j \in 1..(Len(s) - 1) : Front(s)[j] = s[j]
  BY FrontFacts
<1> DEFINE a == Front(s)
<1>1. ASSUME NEW i \in 1..Len(a), a[i].role = "tool"
      PROVE  \E j \in 1..(i - 1) : ResultOf(a[i], a[j])
  <2>1. PICK j \in 1..(i - 1) : ResultOf(s[i], s[j])
    BY <1>0, <1>1 DEF ResultsFollow
  <2>2. j \in 1..(Len(s) - 1)
    BY <1>0, <2>1
  <2> QED
    BY <1>0, <2>1, <2>2
<1>2. ASSUME NEW i \in 1..Len(a), NEW j \in 1..Len(a), i < j, a[i].role = "assistant",
             a[j].role = "assistant", a[i].turn = a[j].turn, NEW n \in 1..a[i].calls
      PROVE  \E m \in (i + 1)..(j - 1) : ResultOf(a[m], a[i]) /\ a[m].call = n
  <2>0. i \in 1..Len(s) /\ j \in 1..Len(s) /\ a[i] = s[i] /\ a[j] = s[j]
    BY <1>0
  <2>1. PICK m \in (i + 1)..(j - 1) : ResultOf(s[m], s[i]) /\ s[m].call = n
    BY <1>2, <2>0 DEF RoundsAnswered
  <2>2. m \in 1..(Len(s) - 1)
    BY <1>0, <2>1
  <2> QED
    BY <1>0, <2>0, <2>1, <2>2
<1>3. ResultsFollow(a)
  BY <1>1 DEF ResultsFollow
<1>4. RoundsAnswered(a)
  BY <1>2 DEF RoundsAnswered
<1> QED
  BY <1>3, <1>4

\* A turn's end changes only from open, or to one that leaves calls unanswered.
EndsAllow ==
    \A t \in 1..Len(ended) : ended'[t] = ended[t] \/ ended'[t] \in CutShortEnds

\* An empty history is one.
LEMMA HistoryEmpty ==
    ASSUME NEW c, pc' # "tool"
    PROVE  History(c, <<>>)'
<1>1. 1..Len(<<>>) = {}
  OBVIOUS
<1> QED
  BY <1>1 DEF History, TurnsOf, ResultsFollow, RoundsAnswered, Paired, Rounds

\* A history stays one when the loop leaves the turn.
LEMMA HistoryAway ==
    ASSUME NEW c, NEW s \in Seq(Entry), TypeOK, History(c, s), UNCHANGED cur,
           pc' \in {"recv", "down"}, EndsAllow
    PROVE  History(c, s)'
<1>1. Len(s) \in Nat /\ \A i \in 1..Len(s) : s[i] \in Entry
  BY LenProperties, ElementOfSeq
<1>2. TurnsOf(c, s)'
  BY DEF History, TurnsOf
<1>3. \A i \in 1..Len(s) : s[i].turn \in 1..Len(ended)
  BY DEF History, TurnsOf, TypeOK
<1>4. Paired(s)'
  BY <1>1, <1>3 DEF History, Paired, EndsAllow
<1> QED
  BY <1>2, <1>4 DEF History, Rounds

\* A history stays one within the turn, its rounds aside.
LEMMA HistoryWithin ==
    ASSUME NEW c, NEW s \in Seq(Entry), TypeOK, History(c, s), UNCHANGED <<cur, ended>>,
           pc' # "append", c = cur.conv => Rounds(s)'
    PROVE  History(c, s)'
BY DEF History, TurnsOf, Paired

\* A history without its last record, when a crash ended that record's turn.
LEMMA HistoryFront ==
    ASSUME NEW c, NEW s \in Seq(Entry), Len(s) > 0, TypeOK, pc = "append", History(c, s),
           ended[s[Len(s)].turn] = "crash"
    PROVE  History(c, Front(s))
<1>0. /\ Len(s) \in Nat /\ Len(Front(s)) = Len(s) - 1
      /\ \A i \in 1..(Len(s) - 1) : Front(s)[i] = s[i] /\ s[i] \in Entry
  BY FrontFacts
<1>1. TurnsOf(c, Front(s))
  BY <1>0 DEF History, TurnsOf
<1>2. ResultsFollow(Front(s)) /\ RoundsAnswered(Front(s))
  BY FrontKeeps DEF History
<1>3. ASSUME "end" \notin CallsOn, NEW i \in 1..Len(Front(s)), NEW n \in 1..Front(s)[i].calls,
             Front(s)[i].role = "assistant", ended[Front(s)[i].turn] \notin CutShortEnds
      PROVE  Answered(Front(s), i, n)
  <2>1. i \in 1..Len(s) /\ i \in 1..(Len(s) - 1) /\ Front(s)[i] = s[i]
    BY <1>0
  <2>2. Answered(s, i, n)
    BY <1>3, <2>1 DEF History, Paired
  <2>3. PICK m \in (i + 1)..Len(s) : ResultOf(s[m], s[i]) /\ s[m].call = n
    BY <2>2 DEF Answered
  <2>4. s[m].turn = s[i].turn
    BY <2>3 DEF ResultOf
  <2>5. m # Len(s)
    BY <1>3, <2>1, <2>4 DEF CutShortEnds
  <2>6. m \in 1..(Len(s) - 1) /\ m \in (i + 1)..Len(Front(s))
    <3>1. Len(s) \in Nat /\ Len(Front(s)) = Len(s) - 1
      BY <1>0
    <3>2. m \in 1..(Len(s) - 1)
      BY <3>1, <2>1, <2>3, <2>5
    <3>3. m \in (i + 1)..(Len(s) - 1)
      BY <3>1, <2>1, <2>3, <2>5
    <3> QED
      BY <3>1, <3>2, <3>3
  <2> QED
    BY <1>0, <2>1, <2>3, <2>6 DEF Answered
<1>4. Paired(Front(s))
  BY <1>3 DEF Paired
<1> QED
  BY <1>1, <1>2, <1>4 DEF History, Rounds

\* The history of the turn being served with one more record of that turn.
LEMMA HistoryGrown ==
    ASSUME NEW s \in Seq(Entry), NEW e \in Entry, TypeOK, cur.turn > 0, e.turn = cur.turn,
           History(cur.conv, s), UNCHANGED cur, pc' # "append", EndsAllow,
           ended'[cur.turn] \in CutShortEnds,
           e.role = "tool" => \E j \in 1..Len(s) : ResultOf(e, s[j]),
           e.role = "assistant" =>
              \A i \in 1..Len(s) : Mine(s, i) => \A n \in 1..s[i].calls : Answered(s, i, n),
           Rounds(Append(s, e))'
    PROVE  History(cur.conv, Append(s, e))'
<1>0. /\ Len(s) \in Nat /\ Len(Append(s, e)) = Len(s) + 1
      /\ Append(s, e)[Len(s) + 1] = e
      /\ \A i \in 1..Len(s) : Append(s, e)[i] = s[i] /\ s[i] \in Entry
  BY AppendFacts
<1>a. cur.turn \in Nat
  BY DEF TypeOK
<1>1. TurnsOf(cur.conv, Append(s, e))'
  <2>1. ASSUME NEW i \in 1..Len(Append(s, e))
        PROVE  Append(s, e)[i].turn \in 1..cur.turn
    <3>1. CASE i \in 1..Len(s)
      BY <1>0, <3>1 DEF History, TurnsOf
    <3>2. CASE i = Len(s) + 1
      BY <1>0, <1>a, <3>2
    <3> QED
      BY <1>0, <3>1, <3>2
  <2> QED
    BY <2>1 DEF TurnsOf
<1>2. ResultsFollow(Append(s, e))
  BY ResultsFollowAppend DEF History
<1>3. RoundsAnswered(Append(s, e))
  BY RoundsAnsweredAppend DEF History, Mine
<1>4. ASSUME "end" \notin CallsOn, NEW i \in 1..Len(Append(s, e)),
             NEW n \in 1..Append(s, e)[i].calls, Append(s, e)[i].role = "assistant",
             ended'[Append(s, e)[i].turn] \notin CutShortEnds
      PROVE  Answered(Append(s, e), i, n)
  <2>1. i \in 1..Len(s) /\ Append(s, e)[i] = s[i]
    <3>1. i # Len(s) + 1
      BY <1>0, <1>4
    <3> QED
      BY <1>0, <3>1
  <2>2. s[i].turn \in 1..Len(ended)
    BY <2>1 DEF History, TurnsOf, TypeOK
  <2>3. ended[s[i].turn] \notin CutShortEnds
    BY <1>4, <2>1, <2>2 DEF EndsAllow
  <2>4. Answered(s, i, n)
    BY <1>4, <2>1, <2>3 DEF History, Paired
  <2> QED
    BY <2>1, <2>4, AnsweredAppend
<1>5. Paired(Append(s, e))'
  BY <1>4 DEF Paired
<1> QED
  BY <1>1, <1>2, <1>3, <1>5 DEF History

\* The turn ends: with the outcome of a loop that answered all its calls, or of one
\* that was cut short.
LEMMA HistoryEnded ==
    ASSUME NEW c, NEW s \in Seq(Entry), TypeOK, pc = "end", cur.turn > 0, History(c, s),
           UNCHANGED cur, pc' = "reply", ended' = [ended EXCEPT ![cur.turn] = result]
    PROVE  History(c, s)'
<1>0. cur.turn \in Nat /\ ended \in Seq(Ends) /\ cur.turn = Len(ended)
  BY DEF TypeOK, Ends
<1>1. ended'[cur.turn] = result /\ \A t \in 1..Len(ended) : t # cur.turn => ended'[t] = ended[t]
  BY <1>0
<1>2. TurnsOf(c, s)'
  BY DEF History, TurnsOf
<1>3. ASSUME "end" \notin CallsOn, NEW i \in 1..Len(s), NEW n \in 1..s[i].calls,
             s[i].role = "assistant", ended'[s[i].turn] \notin CutShortEnds
      PROVE  Answered(s, i, n)
  <2>1. s[i].turn \in 1..Len(ended)
    BY <1>0 DEF History, TurnsOf
  <2>2. CASE s[i].turn # cur.turn
    BY <1>1, <1>3, <2>1, <2>2 DEF History, Paired
  <2>3. CASE s[i].turn = cur.turn
    <3>1. c = cur.conv /\ result \notin {"cancelled", "max"}
      BY <1>1, <1>3, <2>3 DEF History, TurnsOf, CutShortEnds
    <3> QED
      BY <1>3, <2>3, <3>1 DEF History, Rounds, Mine
  <2> QED
    BY <2>2, <2>3
<1>4. Paired(s)'
  BY <1>3 DEF Paired
<1> QED
  BY <1>2, <1>4 DEF History, Rounds

\* The next message opens a turn no record is of.
LEMMA HistoryReceived ==
    ASSUME NEW c, NEW s \in Seq(Entry), TypeOK, History(c, s), NEW d, NEW r, Receive(d, r)
    PROVE  History(c, s)'
<1>0. /\ cur.turn \in Nat /\ ended \in Seq(Ends) /\ cur.turn = Len(ended)
      /\ turnNo = cur.turn /\ Len(s) \in Nat
  BY LenProperties DEF TypeOK, Ends
<1>1. cur'.turn = cur.turn + 1 /\ pc' = "append" /\ ended' = Append(ended, "open")
  BY <1>0 DEF Receive
<1>2. \A t \in 1..Len(ended) : ended'[t] = ended[t]
  BY <1>0, <1>1
<1>3. \A i \in 1..Len(s) : s[i].turn \in 1..cur.turn
  BY DEF History, TurnsOf
<1>4. TurnsOf(c, s)'
  BY <1>0, <1>1, <1>3 DEF TurnsOf
<1>5. \A i \in 1..Len(s) : ended'[s[i].turn] = ended[s[i].turn]
  BY <1>0, <1>2, <1>3
<1>6. Paired(s)'
  BY <1>5 DEF History, Paired
<1> QED
  BY <1>1, <1>4, <1>6 DEF History, Rounds

\* The rounds of a turn while the model is asked, and when the loop then returns.
LEMMA RoundsQuiet ==
    ASSUME NEW s \in Seq(Entry), Rounds(s), pc \in {"open", "stream", "round"},
           pc' \in {"open", "stream", "round", "end"}, UNCHANGED cur,
           pc' # "end" => iter' = iter
    PROVE  Rounds(s)'
BY DEF Rounds, Mine, Answered

\* The user message opens a turn without rounds.
LEMMA RoundsOpened ==
    ASSUME NEW s \in Seq(Entry), NEW e \in Entry, TypeOK, History(cur.conv, s), AppendUser,
           e = UserEntry(cur.turn)
    PROVE  Rounds(s)' /\ Rounds(Append(s, e))'
<1>1. pc' = "working" /\ cur' = cur /\ \A i \in 1..Len(s) : s[i].turn # cur.turn
  BY DEF AppendUser, History, TurnsOf
<1>3. e.role = "user"
  BY DEF UserEntry
<1>4. /\ Len(s) \in Nat /\ Len(Append(s, e)) = Len(s) + 1
      /\ Append(s, e)[Len(s) + 1] = e
      /\ \A i \in 1..Len(s) : Append(s, e)[i] = s[i]
  BY AppendFacts
<1>5. \A i \in 1..Len(Append(s, e)) : i \in 1..Len(s) \/ i = Len(s) + 1
  BY <1>4
<1>6. Rounds(s)'
  BY <1>1 DEF Rounds, Mine
<1>7. Rounds(Append(s, e))'
  BY <1>1, <1>3, <1>4, <1>5 DEF Rounds, Mine
<1> QED
  BY <1>6, <1>7

\* The last completion of a turn: it ends by the token limit, or carries no calls.
LEMMA RoundsFinished ==
    ASSUME NEW s \in Seq(Entry), NEW e \in Entry, TypeOK, Endings, Rounds(s), FinishRound,
           e = RoundEntry
    PROVE  Rounds(s)' /\ Rounds(Append(s, e))'
<1>1. /\ pc = "round" /\ pc' = "end" /\ cur' = cur /\ Final
      /\ round.stop # "max" => result' = "ok"
      /\ round.stop = "max" => result' = "max"
  BY DEF FinishRound, Return
<1>2. Rounds(s)'
  BY <1>1, RoundsQuiet
<1>4. /\ Len(s) \in Nat /\ Len(Append(s, e)) = Len(s) + 1
      /\ Append(s, e)[Len(s) + 1] = e
      /\ \A i \in 1..Len(s) : Append(s, e)[i] = s[i]
  BY AppendFacts
<1>5. ASSUME "end" \notin CallsOn, result' # "max",
             NEW i \in 1..Len(Append(s, e)), Mine(Append(s, e), i)',
             NEW n \in 1..Append(s, e)[i].calls
      PROVE  Answered(Append(s, e), i, n)
  <2>1. round.calls = 0
    BY <1>1, <1>5 DEF Endings, Final, TypeOK
  <2>2. e.calls = 0
    BY <2>1 DEF RoundEntry, AssistantEntry
  <2>3. i \in 1..Len(s) /\ Append(s, e)[i] = s[i]
    BY <1>4, <1>5, <2>2
  <2>4. Mine(s, i)
    BY <1>1, <1>5, <2>3 DEF Mine
  <2>5. Answered(s, i, n)
    BY <1>1, <1>5, <2>3, <2>4 DEF Rounds
  <2> QED
    BY <2>3, <2>5, AnsweredAppend
<1>6. Rounds(Append(s, e))'
  BY <1>1, <1>5 DEF Rounds
<1> QED
  BY <1>2, <1>6

\* A tool round begins: its message is the only one of its round, unanswered from 1.
LEMMA RoundsBegun ==
    ASSUME NEW s \in Seq(Entry), NEW e \in Entry, TypeOK, Rounds(s), BeginTools,
           e = RoundEntry
    PROVE  Rounds(Append(s, e))'
<1>1. /\ pc = "round" /\ pc' = "tool" /\ cur' = cur /\ iter' = iter + 1 /\ k' = 1
      /\ round' = round /\ round.calls > 0 /\ round.calls \in Nat /\ iter \in Nat
      /\ cur.turn \in Nat
  BY DEF BeginTools, CallsTools, TypeOK
<1>3. /\ Len(s) \in Nat /\ Len(Append(s, e)) = Len(s) + 1
      /\ Append(s, e)[Len(s) + 1] = e
      /\ \A i \in 1..Len(s) : Append(s, e)[i] = s[i] /\ s[i] \in Entry
  BY AppendFacts
<1>4. /\ e = AssistantEntry(cur.turn, iter, round.calls)
      /\ e.round = iter /\ e.calls = round.calls
  BY DEF RoundEntry, AssistantEntry
<1>5. k' \in 1..round'.calls
  BY <1>1
<1>6. \E j \in 1..Len(Append(s, e)) :
          Append(s, e)[j] = AssistantEntry(cur'.turn, iter' - 1, round'.calls)
  <2>1. iter' - 1 = iter /\ Len(s) + 1 \in 1..Len(Append(s, e))
    BY <1>1, <1>3
  <2> QED
    BY <1>1, <1>3, <1>4, <2>1
<1>7. ASSUME NEW i \in 1..Len(Append(s, e)), Mine(Append(s, e), i)'
      PROVE  /\ Append(s, e)[i].round < iter'
             /\ Append(s, e)[i].round = iter' - 1 => Append(s, e)[i].calls = round'.calls
             /\ \A n \in 1..Append(s, e)[i].calls :
                   \/ Answered(Append(s, e), i, n)
                   \/ Append(s, e)[i].round = iter' - 1 /\ n >= k'
  <2>1. CASE i \in 1..Len(s)
    <3>1. Append(s, e)[i] = s[i] /\ s[i] \in Entry
      BY <1>3, <2>1
    <3>2. Mine(s, i)
      BY <1>1, <1>7, <3>1 DEF Mine
    <3>3. s[i].round < iter /\ \A n \in 1..s[i].calls : Answered(s, i, n)
      BY <1>1, <2>1, <3>2 DEF Rounds
    <3>4. \A n \in 1..s[i].calls : Answered(Append(s, e), i, n)
      BY <2>1, <3>3, AnsweredAppend
    <3>5. s[i].round \in Nat
      BY <3>1 DEF Entry
    <3> QED
      BY <1>1, <3>1, <3>3, <3>4, <3>5
  <2>2. CASE i = Len(s) + 1
    BY <1>1, <1>3, <1>4, <2>2
  <2> QED
    BY <1>3, <2>1, <2>2
<1> QED
  BY <1>1, <1>5, <1>6, <1>7 DEF Rounds

\* The result being appended answers the k-th call of the round's message.
LEMMA ResultHasUse ==
    ASSUME NEW s \in Seq(Entry), NEW m \in BOOLEAN, TypeOK, iter > 0, Rounds(s), pc = "tool"
    PROVE  /\ ToolResult(m) \in Entry
           /\ ToolResult(m).role = "tool" /\ ToolResult(m).turn = cur.turn
           /\ \E j \in 1..Len(s) : ResultOf(ToolResult(m), s[j])
           /\ \A i \in 1..Len(s) :
                 Mine(s, i) /\ s[i].round = iter - 1 => ResultOf(ToolResult(m), s[i])
<1>1. k \in 1..round.calls /\ k \in Nat /\ iter - 1 \in Nat /\ cur.turn \in Nat /\ round.calls \in Nat
  BY DEF Rounds, TypeOK
<1>2. ToolResult(m) \in Entry
  BY <1>1, EntryTypes DEF ToolResult
<1>3. /\ ToolResult(m).role = "tool" /\ ToolResult(m).turn = cur.turn
      /\ ToolResult(m).round = iter - 1 /\ ToolResult(m).call = k
  BY DEF ToolResult, ToolEntry
<1>4. ASSUME NEW i \in 1..Len(s), Mine(s, i), s[i].round = iter - 1
      PROVE  ResultOf(ToolResult(m), s[i])
  <2>1. s[i].calls = round.calls
    BY <1>4 DEF Rounds
  <2> QED
    BY <1>1, <1>3, <1>4, <2>1 DEF ResultOf, Mine
<1>5. PICK j \in 1..Len(s) : s[j] = AssistantEntry(cur.turn, iter - 1, round.calls)
  BY DEF Rounds
<1>6. Mine(s, j) /\ s[j].round = iter - 1
  BY <1>5 DEF Mine, AssistantEntry
<1> QED
  BY <1>2, <1>3, <1>4, <1>5, <1>6

\* A tool result answers its call; the last one lets the model be asked again.
LEMMA RoundsReturned ==
    ASSUME NEW s \in Seq(Entry), NEW e \in Entry, TypeOK, iter > 0, Rounds(s), ToolReturns,
           e = ToolResult(FALSE)
    PROVE  Rounds(Append(s, e))'
<1>1. /\ pc = "tool" /\ cur' = cur /\ iter' = iter /\ k' = k + 1 /\ round' = round
      /\ k = round.calls => pc' = "open"
      /\ k # round.calls => pc' = "tool"
      /\ k \in 1..round.calls /\ k \in Nat /\ round.calls \in Nat /\ iter \in Nat
  BY DEF ToolReturns, TypeOK, Rounds
<1>2. /\ e.role = "tool"
      /\ \A i \in 1..Len(s) : Mine(s, i) /\ s[i].round = iter - 1 => ResultOf(e, s[i])
  BY <1>1, ResultHasUse
<1>a. e.call = k
  BY DEF ToolResult, ToolEntry
<1>3. /\ Len(s) \in Nat /\ Len(Append(s, e)) = Len(s) + 1
      /\ Append(s, e)[Len(s) + 1] = e
      /\ \A i \in 1..Len(s) : Append(s, e)[i] = s[i] /\ s[i] \in Entry
  BY AppendFacts
<1>4. ASSUME NEW i \in 1..Len(Append(s, e)), Mine(Append(s, e), i)'
      PROVE  /\ i \in 1..Len(s) /\ Append(s, e)[i] = s[i] /\ Mine(s, i)
             /\ s[i].round < iter
             /\ s[i].round = iter - 1 => s[i].calls = round.calls
             /\ \A n \in 1..s[i].calls :
                   Answered(Append(s, e), i, n) \/ (s[i].round = iter - 1 /\ n >= k + 1)
  <2>1. i # Len(s) + 1
    BY <1>2, <1>3, <1>4 DEF Mine
  <2>2. i \in 1..Len(s) /\ Append(s, e)[i] = s[i]
    BY <1>3, <2>1
  <2>3. Mine(s, i)
    BY <1>1, <1>4, <2>2 DEF Mine
  <2>4. /\ s[i].round < iter
        /\ s[i].round = iter - 1 => s[i].calls = round.calls
        /\ \A n \in 1..s[i].calls : Answered(s, i, n) \/ (s[i].round = iter - 1 /\ n >= k)
    BY <1>1, <2>2, <2>3 DEF Rounds
  <2>5. s[i].calls \in Nat
    BY <1>3, <2>2 DEF Entry
  <2>6. ASSUME NEW n \in 1..s[i].calls
        PROVE  Answered(Append(s, e), i, n) \/ (s[i].round = iter - 1 /\ n >= k + 1)
    <3>0. n \in Nat /\ k \in Nat
      <4>1. n \in Nat
        BY <2>5
      <4> QED
        BY <1>1, <4>1
    <3>1. CASE Answered(s, i, n)
      BY <2>2, <3>1, AnsweredAppend
    <3>2. CASE s[i].round = iter - 1 /\ n = k
      <4>1. ResultOf(e, s[i]) /\ e.call = n
        BY <1>2, <1>a, <2>2, <2>3, <3>2
      <4> QED
        BY <2>2, <4>1, AnsweredAppend
    <3>3. CASE s[i].round = iter - 1 /\ n > k
      <4>1. n > k
        BY <3>3
      <4>2. n >= k + 1
        BY <3>0, <4>1
      <4> QED
        BY <3>3, <4>2, Zenon
    <3>4. Answered(s, i, n) \/ (s[i].round = iter - 1 /\ n >= k)
      BY <2>4
    <3>5. n >= k => n = k \/ n > k
      BY <3>0
    <3> QED
      BY <3>1, <3>2, <3>3, <3>4, <3>5
  <2> QED
    BY <2>2, <2>3, <2>4, <2>6
<1>5. \E j \in 1..Len(Append(s, e)) :
          Append(s, e)[j] = AssistantEntry(cur.turn, iter - 1, round.calls)
  <2>1. PICK j \in 1..Len(s) : s[j] = AssistantEntry(cur.turn, iter - 1, round.calls)
    BY <1>1 DEF Rounds
  <2>2. j \in 1..Len(Append(s, e)) /\ Append(s, e)[j] = s[j]
    BY <1>3
  <2> QED
    BY <2>1, <2>2
<1>6. CASE k = round.calls
  <2>1. ASSUME NEW i \in 1..Len(Append(s, e)), Mine(Append(s, e), i)',
               NEW n \in 1..Append(s, e)[i].calls
        PROVE  Append(s, e)[i].round < iter' /\ Answered(Append(s, e), i, n)
    <3>1. /\ i \in 1..Len(s) /\ Append(s, e)[i] = s[i] /\ s[i].round < iter
          /\ s[i].round = iter - 1 => s[i].calls = round.calls
          /\ Answered(Append(s, e), i, n) \/ (s[i].round = iter - 1 /\ n >= k + 1)
      BY <1>4, <2>1
    <3>2. ~(s[i].round = iter - 1 /\ n >= k + 1)
      BY <1>1, <1>6, <2>1, <3>1
    <3> QED
      BY <1>1, <3>1, <3>2
  <2>2. \A i \in 1..Len(Append(s, e)) : Mine(Append(s, e), i)' => Append(s, e)[i].round < iter'
    BY <1>1, <1>4
  <2> QED
    BY <1>1, <1>2, <1>6, <2>1, <2>2 DEF Rounds
<1>7. CASE k # round.calls
  <2>1. k' \in 1..round'.calls
    BY <1>1, <1>7
  <2> QED
    BY <1>1, <1>2, <1>4, <1>5, <1>7, <2>1 DEF Rounds
<1> QED
  BY <1>6, <1>7

\* Histories are histories of the next state when none grows and each is carried over.
LEMMA HistoriesKept ==
    ASSUME TypeOK, Histories, disk' = disk,
           \A c \in Conversations : \/ mem'[c] = mem[c] \/ mem'[c] = disk[c]
                                    \/ mem'[c] = <<>> /\ pc' # "tool",
           \A c \in Conversations : \A s \in Seq(Entry) : History(c, s) => History(c, s)'
    PROVE  Histories'
<1>1. ASSUME NEW c \in Conversations, NEW s \in {mem'[c], disk'[c]}
      PROVE  History(c, s)'
  <2>1. mem[c] \in Seq(Entry) /\ disk[c] \in Seq(Entry)
    BY DEF TypeOK
  <2>2. CASE s = mem[c] \/ s = disk[c]
    <3>1. s \in Seq(Entry) /\ History(c, s)
      BY <2>1, <2>2 DEF Histories
    <3> QED
      BY <3>1
  <2>3. CASE s = <<>> /\ pc' # "tool"
    BY <2>3, HistoryEmpty
  <2> QED
    BY <1>1, <2>2, <2>3
<1> QED
  BY <1>1 DEF Histories

\* Histories when a record of the turn being served is appended to both its histories.
LEMMA HistoriesGrow ==
    ASSUME TypeOK, Histories, NEW e \in Entry, e.turn = cur.turn, cur.turn > 0,
           AppendOk(cur.conv, e), tail[cur.conv] = "clean", UNCHANGED <<cur, ended>>,
           pc' # "append", ended[cur.turn] = "open",
           \A s \in Seq(Entry) : History(cur.conv, s) =>
              /\ e.role = "tool" => \E j \in 1..Len(s) : ResultOf(e, s[j])
              /\ e.role = "assistant" =>
                    \A i \in 1..Len(s) : Mine(s, i) => \A n \in 1..s[i].calls : Answered(s, i, n)
              /\ Rounds(Append(s, e))'
    PROVE  Histories'
<1>0. EndsAllow /\ ended'[cur.turn] \in CutShortEnds
  BY DEF EndsAllow, CutShortEnds
<1>1. /\ mem \in [Conversations -> Seq(Entry)] /\ disk \in [Conversations -> Seq(Entry)]
      /\ cur.conv \in Conversations
  BY DEF TypeOK
<1>2. /\ mem'[cur.conv] = Append(mem[cur.conv], e)
      /\ disk'[cur.conv] = Append(disk[cur.conv], e)
      /\ \A c \in Conversations : c # cur.conv => mem'[c] = mem[c] /\ disk'[c] = disk[c]
  BY <1>1 DEF AppendOk, Written
<1>3. ASSUME NEW c \in Conversations, NEW s \in {mem'[c], disk'[c]}
      PROVE  History(c, s)'
  <2>1. CASE c # cur.conv
    <3>1. s \in Seq(Entry) /\ History(c, s)
      BY <1>1, <1>2, <1>3, <2>1 DEF Histories
    <3> QED
      BY <2>1, <3>1, HistoryWithin
  <2>2. CASE c = cur.conv
    <3>1. PICK p \in Seq(Entry) : s = Append(p, e) /\ History(cur.conv, p)
      BY <1>1, <1>2, <1>3, <2>2 DEF Histories
    <3>2. History(cur.conv, Append(p, e))'
      BY <1>0, <3>1, HistoryGrown
    <3>3. cur'.conv = cur.conv
      OBVIOUS
    <3> QED
      BY <2>2, <3>1, <3>2, <3>3 DEF History
  <2> QED
    BY <2>1, <2>2
<1> QED
  BY <1>3 DEF Histories

\* The user message is appended, to a file that may end in an unterminated line.
LEMMA UserHistories ==
    ASSUME Inv, Histories, Endings, AppendUser
    PROVE  Histories'
<1>0. TypeOK /\ cur.turn > 0 /\ pc = "append" /\ pc' = "working" /\ UNCHANGED <<cur, ended>>
  BY DEF Inv, WithinTurn, AppendUser
<1>1. PICK e \in Entry : e = UserEntry(cur.turn)
  BY <1>0, EntryTypes DEF TypeOK
<1>2. AppendOk(cur.conv, e) /\ e.role = "user" /\ e.turn = cur.turn
  BY <1>1 DEF AppendUser, UserEntry
<1>3. \A s \in Seq(Entry) : History(cur.conv, s) => Rounds(s)' /\ Rounds(Append(s, e))'
  BY <1>0, <1>1, RoundsOpened
<1>4. ended[cur.turn] = "open"
  BY <1>0 DEF Endings
<1>5. CASE tail[cur.conv] = "clean"
  BY <1>0, <1>2, <1>3, <1>4, <1>5, HistoriesGrow
<1>6. CASE tail[cur.conv] # "clean"
  <2>1. /\ mem \in [Conversations -> Seq(Entry)] /\ disk \in [Conversations -> Seq(Entry)]
        /\ cur.conv \in Conversations
    BY <1>0 DEF TypeOK
  <2>2. /\ mem'[cur.conv] = Append(mem[cur.conv], e)
        /\ disk'[cur.conv] = Spoilt(disk[cur.conv], tail[cur.conv])
        /\ \A c \in Conversations : c # cur.conv => mem'[c] = mem[c] /\ disk'[c] = disk[c]
    BY <1>2, <1>6, <2>1 DEF AppendOk, Written
  <2>3. EndsAllow /\ ended'[cur.turn] \in CutShortEnds
    BY <1>0, <1>4 DEF EndsAllow, CutShortEnds
  <2>4. History(cur.conv, disk'[cur.conv]) /\ disk'[cur.conv] \in Seq(Entry)
    <3>1. PICK d \in Seq(Entry) : d = disk[cur.conv] /\ History(cur.conv, d)
      BY <2>1 DEF Histories
    <3>2. CASE tail[cur.conv] = "bare"
      <4>1. Len(d) > 0 /\ ended[d[Len(d)].turn] = "crash" /\ disk'[cur.conv] = Front(d)
        BY <2>1, <2>2, <3>1, <3>2 DEF Endings, Bare, Spoilt
      <4>2. History(cur.conv, Front(d))
        BY <1>0, <3>1, <4>1, HistoryFront
      <4> QED
        BY <4>1, <4>2, FrontFacts
    <3>3. CASE tail[cur.conv] # "bare"
      BY <2>2, <3>1, <3>3 DEF Spoilt
    <3> QED
      BY <3>2, <3>3
  <2>5. ASSUME NEW c \in Conversations, NEW s \in {mem'[c], disk'[c]}
        PROVE  History(c, s)'
    <3>1. CASE c # cur.conv
      <4>1. s \in Seq(Entry) /\ History(c, s)
        BY <2>1, <2>2, <2>5, <3>1 DEF Histories
      <4> QED
        BY <1>0, <3>1, <4>1, HistoryWithin
    <3>2. CASE c = cur.conv /\ s = disk'[cur.conv]
      <4>1. s \in Seq(Entry) /\ History(c, s)
        BY <2>4, <3>2
      <4>2. Rounds(s)'
        BY <1>3, <3>2, <4>1
      <4> QED
        BY <1>0, <4>1, <4>2, HistoryWithin
    <3>3. CASE c = cur.conv /\ s = mem'[cur.conv]
      <4>1. PICK p \in Seq(Entry) : s = Append(p, e) /\ History(cur.conv, p)
        BY <2>1, <2>2, <3>3 DEF Histories
      <4>2. Rounds(Append(p, e))'
        BY <1>3, <4>1
      <4>3. History(cur.conv, Append(p, e))'
        BY <1>0, <1>2, <2>3, <4>1, <4>2, HistoryGrown
      <4> QED
        BY <1>0, <3>3, <4>1, <4>3 DEF History
    <3> QED
      BY <2>5, <3>1, <3>2, <3>3
  <2> QED
    BY <2>5 DEF Histories
<1> QED
  BY <1>5, <1>6

\* Without write errors a round or a result is appended to the log and to its file.
LEMMA LoopHistories ==
    ASSUME MaxWriteErrors = 0, Inv, Histories, Endings,
           FinishRound \/ BeginTools \/ ToolReturns \/ ToolCancelled
    PROVE  Histories'
<1>0. /\ TypeOK /\ cur.turn > 0 /\ pc \in {"round", "tool"} /\ UNCHANGED <<cur, ended>>
      /\ pc' \in {"end", "tool", "open"} /\ pc' # "append"
  BY DEF Inv, WithinTurn, FinishRound, BeginTools, ToolReturns, ToolCancelled, Return
<1>a. tail[cur.conv] = "clean" /\ ended[cur.turn] = "open"
  BY <1>0 DEF Endings
<1>1. ASSUME pc = "round", NEW s \in Seq(Entry), History(cur.conv, s)
      PROVE  /\ Rounds(s)
             /\ \A i \in 1..Len(s) : Mine(s, i) => \A n \in 1..s[i].calls : Answered(s, i, n)
  BY <1>1 DEF History, Rounds
<1>2. CASE FinishRound
  <2>0. pc = "round"
    BY <1>2 DEF FinishRound
  <2>1. PICK e \in Entry : e = RoundEntry
    BY <1>0, EntryTypes DEF TypeOK, RoundEntry
  <2>2. e.role = "assistant" /\ e.turn = cur.turn
    BY <2>1 DEF RoundEntry, AssistantEntry
  <2>3. \A s \in Seq(Entry) : History(cur.conv, s) => Rounds(s)' /\ Rounds(Append(s, e))'
    BY <1>0, <1>1, <1>2, <2>0, <2>1, RoundsFinished
  <2>4. CASE Storable
    <3>1. AppendOk(cur.conv, e)
      BY <1>0, <1>2, <2>1, <2>4, PersistIsAppend DEF FinishRound, PersistAssistant
    <3> QED
      BY <1>0, <1>a, <1>1, <2>0, <2>2, <2>3, <3>1, HistoriesGrow
  <2>5. CASE ~Storable
    <3>1. UNCHANGED <<disk, mem>>
      BY <1>2, <2>5 DEF FinishRound, PersistAssistant, logVars
    <3>2. \A c \in Conversations : \A s \in Seq(Entry) : History(c, s) => History(c, s)'
      BY <1>0, <2>3, HistoryWithin
    <3> QED
      BY <1>0, <3>1, <3>2, HistoriesKept
  <2> QED
    BY <2>4, <2>5
<1>3. CASE BeginTools
  <2>0. pc = "round"
    BY <1>3 DEF BeginTools
  <2>1. PICK e \in Entry : e = RoundEntry
    BY <1>0, EntryTypes DEF TypeOK, RoundEntry
  <2>2. e.role = "assistant" /\ e.turn = cur.turn
    BY <2>1 DEF RoundEntry, AssistantEntry
  <2>3. \A s \in Seq(Entry) : History(cur.conv, s) => Rounds(Append(s, e))'
    BY <1>0, <1>1, <1>3, <2>0, <2>1, RoundsBegun
  <2>4. Persist(RoundEntry)
    BY <1>0, <1>3 DEF BeginTools, CallsTools, PersistAssistant, Storable
  <2>5. AppendOk(cur.conv, e)
    BY <1>0, <2>1, <2>4, PersistIsAppend
  <2> QED
    BY <1>0, <1>a, <1>1, <2>0, <2>2, <2>3, <2>5, HistoriesGrow
<1>4. ASSUME ToolReturns \/ ToolCancelled PROVE Histories'
  <2>0. pc = "tool" /\ iter > 0
    BY <1>4 DEF ToolReturns, ToolCancelled, Inv, WithinTurn
  <2>1. PICK m \in BOOLEAN : Persist(ToolResult(m)) /\ (ToolReturns => m = FALSE)
    <3>1. CASE ToolReturns
      BY <3>1 DEF ToolReturns
    <3>2. CASE ~ToolReturns
      BY <1>4, <3>2 DEF ToolCancelled
    <3> QED
      BY <3>1, <3>2
  <2>2. \A s \in Seq(Entry) : History(cur.conv, s) => Rounds(s)
    BY DEF History
  <2>a. ToolResult(m) \in Entry
    BY <1>0, <2>0, EntryTypes DEF TypeOK, ToolResult
  <2>3. PICK e \in Entry : e = ToolResult(m)
    BY <2>a
  <2>4. /\ e.role = "tool" /\ e.turn = cur.turn /\ AppendOk(cur.conv, e)
    <3>1. AppendOk(cur.conv, ToolResult(m))
      BY <1>0, <2>1, PersistIsAppend
    <3> QED
      BY <2>3, <3>1 DEF ToolResult, ToolEntry
  <2>5. \A s \in Seq(Entry) : History(cur.conv, s) => \E j \in 1..Len(s) : ResultOf(e, s[j])
    BY <1>0, <2>0, <2>2, <2>3, ResultHasUse
  <2>6. \A s \in Seq(Entry) : History(cur.conv, s) => Rounds(Append(s, e))'
    <3>1. CASE ToolReturns
      BY <1>0, <2>0, <2>1, <2>2, <2>3, <3>1, RoundsReturned
    <3>2. CASE ToolCancelled
      BY <3>2 DEF ToolCancelled, Return, Rounds
    <3> QED
      BY <1>4, <3>1, <3>2
  <2> QED
    BY <1>0, <1>a, <2>4, <2>5, <2>6, HistoriesGrow
<1> QED
  BY <1>2, <1>3, <1>4

\* What a write that a crash cut short may leave: the file as it was, its last record
\* lost, or the record being written without its newline.
LEMMA CutShortCases ==
    ASSUME NEW s, NEW end, NEW e, NEW o \in CutShort(s, end, e)
    PROVE  \/ o[1] = s /\ o[2] = end
           \/ o[1] = Spoilt(s, end) /\ o[2] = "torn"
           \/ o[1] = Append(s, e) /\ o[2] = "bare" /\ end = "clean"
BY DEF CutShort

\* The record in flight is of the turn being served, and may follow the records there.
LEMMA InFlightFacts ==
    ASSUME Inv, NEW e \in InFlight
    PROVE  /\ e \in Entry /\ e.turn = cur.turn /\ pc \in {"append", "round", "tool"}
           /\ \A s \in Seq(Entry) : History(cur.conv, s) =>
                 /\ e.role = "tool" => \E j \in 1..Len(s) : ResultOf(e, s[j])
                 /\ e.role = "assistant" =>
                       \A i \in 1..Len(s) : Mine(s, i) =>
                           \A n \in 1..s[i].calls : Answered(s, i, n)
<1>0. TypeOK /\ (pc = "tool" => iter > 0)
  BY DEF Inv, WithinTurn
<1>1. CASE pc = "append" /\ e = UserEntry(cur.turn)
  <2>1. e \in Entry
    BY <1>0, <1>1, EntryTypes DEF TypeOK
  <2> QED
    BY <1>1, <2>1 DEF UserEntry
<1>2. CASE pc = "round" /\ e = RoundEntry
  <2>1. e \in Entry
    BY <1>0, <1>2, EntryTypes DEF TypeOK, RoundEntry
  <2>2. e.role = "assistant" /\ e.turn = cur.turn
    BY <1>2 DEF RoundEntry, AssistantEntry
  <2> QED
    BY <1>2, <2>1, <2>2 DEF History, Rounds
<1>3. CASE pc = "tool" /\ \E m \in BOOLEAN : e = ToolResult(m)
  <2>1. PICK m \in BOOLEAN : e = ToolResult(m)
    BY <1>3
  <2>2. e \in Entry
    BY <1>0, <1>3, <2>1, EntryTypes DEF TypeOK, ToolResult
  <2>3. e.role = "tool" /\ e.turn = cur.turn
    BY <2>1 DEF ToolResult, ToolEntry
  <2>4. \A s \in Seq(Entry) : History(cur.conv, s) => \E j \in 1..Len(s) : ResultOf(e, s[j])
    BY <1>0, <1>3, <2>1, ResultHasUse DEF History
  <2> QED
    BY <1>3, <2>2, <2>3, <2>4
<1> QED
  <2>1. fired \in BOOLEAN
    BY <1>0 DEF TypeOK
  <2> QED
    BY <1>1, <1>2, <1>3, <2>1 DEF InFlight

\* A crash's effect on how the turns ended.
LEMMA CrashEnds ==
    ASSUME TypeOK, Crash
    PROVE  /\ EndsAllow /\ cur' = cur /\ pc' = "down"
           /\ \A t \in 1..Len(ended) :
                 /\ ended[t] = "open" => ended'[t] = "crash"
                 /\ ended[t] # "open" => ended'[t] = ended[t]
<1>1. ended \in Seq(Ends) /\ DOMAIN ended = 1..Len(ended)
  BY LenProperties DEF TypeOK, Ends
<1>2. \A t \in 1..Len(ended) : ended'[t] = IF ended[t] = "open" THEN "crash" ELSE ended[t]
  BY <1>1 DEF Crash
<1>3. cur' = cur /\ pc' = "down"
  BY DEF Crash, GoDown
<1> QED
  BY <1>2, <1>3 DEF EndsAllow, CutShortEnds

\* The pod dies: histories in memory are gone, the file's is one whatever was written.
LEMMA CrashHistories ==
    ASSUME Inv, Histories, Endings, Crash
    PROVE  Histories'
<1>0. TypeOK
  BY DEF Inv
<1>1. EndsAllow /\ cur' = cur /\ pc' = "down"
  BY <1>0, CrashEnds
<1>2. \A c \in Conversations : \A s \in Seq(Entry) : History(c, s) => History(c, s)'
  BY <1>0, <1>1, HistoryAway
<1>3. \A c \in Conversations : mem'[c] = <<>>
  BY DEF Crash, GoDown
<1>4. CASE disk' = disk
  BY <1>0, <1>1, <1>2, <1>3, <1>4, HistoriesKept
<1>5. CASE disk' # disk
  <2>1. PICK e \in InFlight :
           \E o \in CutShort(disk[cur.conv], tail[cur.conv], e) :
              disk' = [disk EXCEPT ![cur.conv] = o[1]]
    BY <1>5 DEF Crash
  <2>2. PICK o \in CutShort(disk[cur.conv], tail[cur.conv], e) :
           disk' = [disk EXCEPT ![cur.conv] = o[1]]
    BY <2>1
  <2>3. /\ e \in Entry /\ e.turn = cur.turn /\ pc \in {"append", "round", "tool"}
        /\ \A s \in Seq(Entry) : History(cur.conv, s) =>
              /\ e.role = "tool" => \E j \in 1..Len(s) : ResultOf(e, s[j])
              /\ e.role = "assistant" =>
                    \A i \in 1..Len(s) : Mine(s, i) => \A n \in 1..s[i].calls : Answered(s, i, n)
    BY InFlightFacts
  <2>4. cur.turn > 0 /\ ended'[cur.turn] \in CutShortEnds
    <3>1. cur.turn > 0 /\ ended[cur.turn] = "open"
      BY <2>3 DEF Inv, WithinTurn, Endings
    <3>2. cur.turn \in 1..Len(ended)
      BY <1>0, <3>1 DEF TypeOK
    <3> QED
      BY <1>0, <3>1, <3>2, CrashEnds DEF CutShortEnds
  <2>5. cur.conv \in Conversations /\ disk \in [Conversations -> Seq(Entry)]
    BY <1>0 DEF TypeOK
  <2>6. /\ disk'[cur.conv] = o[1]
        /\ \A c \in Conversations : c # cur.conv => disk'[c] = disk[c]
    BY <2>2, <2>5
  <2>7. PICK d \in Seq(Entry) : d = disk[cur.conv] /\ History(cur.conv, d)
    BY <2>5 DEF Histories
  <2>8. \/ o[1] = d \/ o[1] = Append(d, e)
        \/ /\ tail[cur.conv] = "bare" /\ pc = "append" /\ o[1] = Front(d)
           /\ Len(d) > 0 /\ ended[d[Len(d)].turn] = "crash"
    <3>1. \/ o[1] = d \/ o[1] = Append(d, e) \/ o[1] = Spoilt(d, tail[cur.conv])
      BY <2>7, CutShortCases
    <3>2. CASE tail[cur.conv] = "bare"
      <4>1. Len(d) > 0 /\ ended[d[Len(d)].turn] = "crash"
        BY <2>5, <2>7, <3>2 DEF Endings, Bare
      <4>2. pc = "append"
        BY <2>3, <3>2 DEF Endings
      <4> QED
        BY <3>1, <3>2, <4>1, <4>2 DEF Spoilt
    <3>3. CASE tail[cur.conv] # "bare"
      BY <3>1, <3>3 DEF Spoilt
    <3> QED
      BY <3>2, <3>3
  <2>a. PICK cc \in Conversations : cc = cur.conv
    BY <2>5
  <2>9. ASSUME NEW s, s = o[1] PROVE History(cc, s)'
    <3>1. CASE s = d
      BY <1>2, <2>a, <2>7, <3>1
    <3>2. CASE s = Append(d, e)
      <4>1. Rounds(Append(d, e))'
        BY <1>1 DEF Rounds
      <4>2. History(cur.conv, Append(d, e))'
        BY <1>0, <1>1, <2>3, <2>4, <2>7, <4>1, HistoryGrown
      <4> QED
        BY <1>1, <2>a, <3>2, <4>2 DEF History
    <3>3. CASE /\ pc = "append" /\ s = Front(d)
               /\ Len(d) > 0 /\ ended[d[Len(d)].turn] = "crash"
      <4>1. History(cur.conv, Front(d)) /\ Front(d) \in Seq(Entry)
        BY <1>0, <2>7, <3>3, HistoryFront, FrontFacts
      <4> QED
        BY <1>2, <2>a, <3>3, <4>1
    <3> QED
      BY <2>8, <2>9, <3>1, <3>2, <3>3
  <2>10. ASSUME NEW c \in Conversations, NEW s \in {mem'[c], disk'[c]}
         PROVE  History(c, s)'
    <3>1. CASE s = mem'[c]
      BY <1>1, <1>3, <3>1, HistoryEmpty
    <3>2. CASE s = disk'[c] /\ c # cur.conv
      BY <1>2, <2>5, <2>6, <3>2 DEF Histories
    <3>3. CASE s = disk'[c] /\ c = cur.conv
      BY <2>6, <2>9, <2>a, <3>3
    <3> QED
      BY <2>10, <3>1, <3>2, <3>3
  <2> QED
    BY <2>10 DEF Histories
<1> QED
  BY <1>4, <1>5

\* Without write errors every step keeps the histories.
LEMMA StepHistories ==
    ASSUME MaxWriteErrors = 0, Inv, Histories, Endings, [Next]_vars
    PROVE  Histories'
<1>0. TypeOK /\ WithinTurn
  BY DEF Inv
<1>a. disk \in [Conversations -> Seq(Entry)] /\ mem \in [Conversations -> Seq(Entry)]
  BY <1>0 DEF TypeOK
<1>1. ASSUME NEW c \in Conversations, NEW r \in BOOLEAN, Receive(c, r)
      PROVE  Histories'
  <2>1. \A d \in Conversations : \A s \in Seq(Entry) : History(d, s) => History(d, s)'
    BY <1>0, <1>1, HistoryReceived
  <2>2. disk' = disk /\ \A d \in Conversations : mem'[d] = mem[d] \/ mem'[d] = disk[d]
    BY <1>a, <1>1 DEF Receive, GetOrCreate
  <2> QED
    BY <1>0, <2>1, <2>2, HistoriesKept
<1>2. CASE ReceiveFails \/ DeliverTurnState \/ Restart
  <2>1. /\ UNCHANGED <<cur, ended, disk>> /\ pc' \in {"recv", "down"}
        /\ \A d \in Conversations : mem'[d] = mem[d] \/ mem'[d] = <<>>
    BY <1>2 DEF ReceiveFails, DeliverTurnState, Restart, GoDown, logVars
  <2>2. EndsAllow
    BY <2>1 DEF EndsAllow
  <2>3. \A d \in Conversations : \A s \in Seq(Entry) : History(d, s) => History(d, s)'
    BY <1>0, <2>1, <2>2, HistoryAway
  <2> QED
    BY <1>0, <2>1, <2>3, HistoriesKept
<1>3. CASE AppendUser
  BY <1>3, UserHistories
<1>4. CASE AppendUserFails
  BY <1>0, <1>4 DEF AppendUserFails, AppendErr, TypeOK
<1>5. CASE DeliverWorking \/ RegisterTurn
  <2>1. /\ UNCHANGED <<cur, ended, disk, mem>> /\ pc \in {"working", "register"}
        /\ pc' \in {"register", "open"}
    BY <1>5 DEF DeliverWorking, RegisterTurn, logVars
  <2>2. ASSUME NEW s \in Seq(Entry), Rounds(s) PROVE Rounds(s)'
    BY <2>1, <2>2 DEF Rounds, Mine
  <2>3. \A d \in Conversations : \A s \in Seq(Entry) : History(d, s) => History(d, s)'
    <3>1. ASSUME NEW d \in Conversations, NEW s \in Seq(Entry), History(d, s)
          PROVE  History(d, s)'
      <4>1. d = cur.conv => Rounds(s)'
        BY <2>2, <3>1 DEF History
      <4> QED
        BY <1>0, <2>1, <3>1, <4>1, HistoryWithin
    <3> QED
      BY <3>1
  <2> QED
    BY <1>0, <2>1, <2>3, HistoriesKept
<1>6. ASSUME UNCHANGED <<cur, ended, disk, mem>>, pc \in {"open", "stream", "round"},
             pc' \in {"open", "stream", "round", "end"}, pc' # "end" => iter' = iter
      PROVE  Histories'
  <2>1. ASSUME NEW d \in Conversations, NEW s \in Seq(Entry), History(d, s)
        PROVE  History(d, s)'
    <3>1. d = cur.conv => Rounds(s)'
      BY <1>6, <2>1, RoundsQuiet DEF History
    <3> QED
      BY <1>0, <1>6, <2>1, <3>1, HistoryWithin
  <2> QED
    BY <1>0, <1>6, <2>1, HistoriesKept
<1>7. CASE OpenStream \/ OpenStreamFails \/ StreamCancelled \/ StreamEnds \/ UnknownStop
           \/ IterationLimit
  BY <1>6, <1>7 DEF OpenStream, OpenStreamFails, StreamCancelled, StreamEnds, UnknownStop,
                    IterationLimit, Return, logVars, loopVars
<1>8. ASSUME NEW s \in StopReasons, NEW n \in 0..MaxCalls, NEW t \in BOOLEAN,
             StreamCompletes(s, n, t)
      PROVE  Histories'
  BY <1>6, <1>8 DEF StreamCompletes, logVars
<1>9. CASE FinishRound \/ BeginTools \/ ToolReturns \/ ToolCancelled
  BY <1>9, LoopHistories
<1>10. CASE EndTurn
  <2>1. /\ UNCHANGED <<cur, disk, mem>> /\ pc = "end" /\ pc' = "reply"
        /\ ended' = [ended EXCEPT ![cur.turn] = result] /\ cur.turn > 0
    BY <1>0, <1>10 DEF EndTurn, logVars, WithinTurn
  <2>2. \A d \in Conversations : \A s \in Seq(Entry) : History(d, s) => History(d, s)'
    BY <1>0, <2>1, HistoryEnded
  <2> QED
    BY <1>0, <2>1, <2>2, HistoriesKept
<1>11. CASE DeliverReply
  <2>1. UNCHANGED <<cur, ended, disk, mem>> /\ pc' = "state"
    BY <1>11 DEF DeliverReply, logVars
  <2>2. \A s \in Seq(Entry) : Rounds(s)'
    BY <2>1 DEF Rounds
  <2>3. \A d \in Conversations : \A s \in Seq(Entry) : History(d, s) => History(d, s)'
    BY <1>0, <2>1, <2>2, HistoryWithin
  <2> QED
    BY <1>0, <2>1, <2>3, HistoriesKept
<1>12. ASSUME UNCHANGED <<cur, ended, disk, pc, iter, k, round, result>>,
              \A d \in Conversations : mem'[d] = mem[d] \/ mem'[d] = disk[d]
       PROVE  Histories'
  <2>1. \A d \in Conversations : \A s \in Seq(Entry) : History(d, s) => History(d, s)'
    BY <1>12 DEF History, TurnsOf, Paired, Rounds, Mine
  <2> QED
    BY <1>0, <1>12, <2>1, HistoriesKept
<1>13. ASSUME NEW c \in Conversations, Cancel(c)
       PROVE  Histories'
  BY <1>12, <1>13 DEF Cancel, logVars, loopVars
<1>14. ASSUME NEW c \in Conversations, LookupHistory(c)
       PROVE  Histories'
  BY <1>a, <1>12, <1>14 DEF LookupHistory, GetOrCreate, loopVars
<1>15. CASE Crash
  BY <1>15, CrashHistories
<1>16. CASE AwaitMessage \/ UNCHANGED vars
  BY <1>12, <1>16 DEF AwaitMessage, vars
<1> QED
  BY <1>1, <1>2, <1>3, <1>4, <1>5, <1>7, <1>8, <1>9, <1>10, <1>11, <1>13, <1>14, <1>15,
     <1>16
     DEF Next, LoopStep

\* A step that does not write leaves every unterminated record one of a crashed turn.
LEMMA BareKept ==
    ASSUME TypeOK, Histories, Bare, UNCHANGED <<disk, tail>>,
           \A t \in 1..Len(ended) : ended[t] = "crash" => ended'[t] = "crash"
    PROVE  Bare'
<1>1. ASSUME NEW c \in Conversations, tail[c] = "bare"
      PROVE  Len(disk[c]) > 0 /\ ended'[disk[c][Len(disk[c])].turn] = "crash"
  <2>1. PICK d \in Seq(Entry) : d = disk[c] /\ History(c, d)
    BY DEF TypeOK, Histories
  <2>2. Len(d) > 0 /\ ended[d[Len(d)].turn] = "crash" /\ Len(d) \in Nat
    BY <1>1, <2>1, LenProperties DEF Bare
  <2>3. d[Len(d)].turn \in 1..cur.turn
    BY <2>1, <2>2 DEF History, TurnsOf
  <2>4. d[Len(d)].turn \in 1..Len(ended)
    BY <2>3 DEF TypeOK
  <2> QED
    BY <2>1, <2>2, <2>4
<1> QED
  BY <1>1 DEF Bare

\* A completed append leaves its file terminated.
LEMMA BareAppended ==
    ASSUME TypeOK, Bare, NEW e, AppendOk(cur.conv, e), UNCHANGED ended
    PROVE  Bare' /\ tail'[cur.conv] = "clean"
<1>1. /\ disk \in [Conversations -> Seq(Entry)] /\ cur.conv \in Conversations
      /\ tail \in [Conversations -> {"clean", "torn", "bare"}]
  BY DEF TypeOK
<1>2. /\ tail'[cur.conv] = "clean"
      /\ \A c \in Conversations : c # cur.conv => disk'[c] = disk[c] /\ tail'[c] = tail[c]
  BY <1>1 DEF AppendOk
<1> QED
  BY <1>2 DEF Bare

\* A write that a crash cuts short may leave the record of the crashed turn bare.
LEMMA BareCrashed ==
    ASSUME Inv, Histories, Endings, Crash
    PROVE  Bare'
<1>0. TypeOK
  BY DEF Inv
<1>1. \A t \in 1..Len(ended) : /\ ended[t] = "crash" => ended'[t] = "crash"
                               /\ ended[t] = "open" => ended'[t] = "crash"
  BY <1>0, CrashEnds
<1>2. CASE UNCHANGED <<disk, tail>>
  BY <1>0, <1>1, <1>2, BareKept DEF Endings
<1>3. CASE ~UNCHANGED <<disk, tail>>
  <2>1. PICK e \in InFlight :
           \E o \in CutShort(disk[cur.conv], tail[cur.conv], e) :
              /\ disk' = [disk EXCEPT ![cur.conv] = o[1]]
              /\ tail' = [tail EXCEPT ![cur.conv] = o[2]]
    BY <1>3 DEF Crash
  <2>2. PICK o \in CutShort(disk[cur.conv], tail[cur.conv], e) :
              /\ disk' = [disk EXCEPT ![cur.conv] = o[1]]
              /\ tail' = [tail EXCEPT ![cur.conv] = o[2]]
    BY <2>1
  <2>3. e \in Entry /\ e.turn = cur.turn /\ pc \in {"append", "round", "tool"}
    BY InFlightFacts
  <2>4. /\ cur.conv \in Conversations /\ disk \in [Conversations -> Seq(Entry)]
        /\ tail \in [Conversations -> {"clean", "torn", "bare"}]
    BY <1>0 DEF TypeOK
  <2>5. /\ disk'[cur.conv] = o[1] /\ tail'[cur.conv] = o[2]
        /\ \A c \in Conversations : c # cur.conv => disk'[c] = disk[c] /\ tail'[c] = tail[c]
    BY <2>2, <2>4
  <2>6. ended'[cur.turn] = "crash"
    <3>1. cur.turn > 0 /\ ended[cur.turn] = "open"
      BY <2>3 DEF Inv, WithinTurn, Endings
    <3>2. cur.turn \in 1..Len(ended)
      BY <1>0, <3>1 DEF TypeOK
    <3> QED
      BY <1>1, <3>1, <3>2
  <2>7. ASSUME NEW c \in Conversations, tail[c] = "bare"
        PROVE  Len(disk[c]) > 0 /\ ended'[disk[c][Len(disk[c])].turn] = "crash"
    <3>1. PICK d \in Seq(Entry) : d = disk[c] /\ History(c, d)
      BY <2>4 DEF Histories
    <3>2. Len(d) > 0 /\ ended[d[Len(d)].turn] = "crash" /\ Len(d) \in Nat
      BY <2>7, <3>1, LenProperties DEF Endings, Bare
    <3>3. d[Len(d)].turn \in 1..cur.turn
      BY <3>1, <3>2 DEF History, TurnsOf
    <3>4. d[Len(d)].turn \in 1..Len(ended)
      BY <1>0, <3>3 DEF TypeOK
    <3> QED
      BY <1>1, <3>1, <3>2, <3>4
  <2>8. tail'[cur.conv] = "bare" =>
           /\ Len(disk'[cur.conv]) > 0
           /\ ended'[disk'[cur.conv][Len(disk'[cur.conv])].turn] = "crash"
    <3>1. CASE o[1] = disk[cur.conv] /\ o[2] = tail[cur.conv]
      BY <2>4, <2>5, <2>7, <3>1
    <3>2. CASE o[2] = "torn"
      BY <2>5, <3>2
    <3>3. CASE o[1] = Append(disk[cur.conv], e)
      <4>1. PICK d \in Seq(Entry) : d = disk[cur.conv]
        BY <2>4
      <4>2. /\ Len(d) \in Nat /\ Len(Append(d, e)) = Len(d) + 1
            /\ Append(d, e)[Len(d) + 1] = e
        BY <2>3, AppendFacts
      <4> QED
        BY <2>3, <2>5, <2>6, <3>3, <4>1, <4>2
    <3> QED
      BY <3>1, <3>2, <3>3, CutShortCases
  <2>9. \A c \in Conversations : tail'[c] = "bare" =>
           Len(disk'[c]) > 0 /\ ended'[disk'[c][Len(disk'[c])].turn] = "crash"
    BY <2>5, <2>7, <2>8
  <2> QED
    BY <2>9 DEF Bare
<1> QED
  BY <1>2, <1>3

\* Without write errors every step keeps how turns and files end.
LEMMA StepEndings ==
    ASSUME MaxWriteErrors = 0, Inv, Histories, Endings, [Next]_vars
    PROVE  Endings'
<1>0. TypeOK /\ WithinTurn /\ Bare
  BY DEF Inv, Endings
<1>a. /\ cur.turn \in Nat /\ ended \in Seq(Ends) /\ cur.turn = Len(ended) /\ turnNo = Len(ended)
      /\ DOMAIN ended = 1..Len(ended)
  BY <1>0, LenProperties DEF TypeOK, Ends
<1>1. ASSUME NEW c \in Conversations, NEW r \in BOOLEAN, Receive(c, r)
      PROVE  Endings'
  <2>1. /\ cur'.turn = cur.turn + 1 /\ pc' = "append" /\ ended' = Append(ended, "open")
        /\ UNCHANGED <<disk, tail>>
    BY <1>a, <1>1 DEF Receive
  <2>2. ended'[Len(ended) + 1] = "open" /\ \A t \in 1..Len(ended) : ended'[t] = ended[t]
    BY <1>a, <2>1
  <2>3. Bare'
    BY <1>0, <2>1, <2>2, BareKept
  <2> QED
    BY <1>a, <2>1, <2>2, <2>3 DEF Endings
<1>2. CASE ReceiveFails \/ DeliverTurnState \/ Restart
  <2>1. UNCHANGED <<ended, disk, tail>> /\ pc' \in {"recv", "down"}
    BY <1>2 DEF ReceiveFails, DeliverTurnState, Restart, GoDown, logVars
  <2>2. Bare'
    BY <1>0, <2>1, BareKept
  <2> QED
    BY <2>1, <2>2 DEF Endings
<1>3. CASE AppendUser
  <2>1. Bare' /\ tail'[cur.conv] = "clean"
    BY <1>0, <1>3, BareAppended DEF AppendUser
  <2> QED
    BY <1>3, <2>1 DEF AppendUser, Endings
<1>4. CASE AppendUserFails
  BY <1>0, <1>4 DEF AppendUserFails, AppendErr, TypeOK
<1>5. CASE \/ DeliverWorking \/ RegisterTurn \/ OpenStream \/ OpenStreamFails
           \/ StreamCancelled \/ StreamEnds \/ UnknownStop \/ IterationLimit
  <2>1. /\ UNCHANGED <<cur, ended, disk, tail>>
        /\ pc \in {"working", "register", "open", "stream", "round"}
        /\ pc' \in {"register", "open", "stream", "end"}
    BY <1>5 DEF DeliverWorking, RegisterTurn, OpenStream, OpenStreamFails, StreamCancelled,
                StreamEnds, UnknownStop, IterationLimit, Return, logVars
  <2>2. Bare'
    BY <1>0, <2>1, BareKept
  <2> QED
    BY <2>1, <2>2 DEF Endings
<1>6. ASSUME NEW s \in StopReasons, NEW n \in 0..MaxCalls, NEW t \in BOOLEAN,
             StreamCompletes(s, n, t)
      PROVE  Endings'
  <2>1. /\ UNCHANGED <<cur, ended, disk, tail>> /\ pc = "stream" /\ pc' = "round"
        /\ round'.calls = n /\ round'.stop = s /\ (n > 0 => s \in CallsOn)
    BY <1>6 DEF StreamCompletes, logVars
  <2>2. Bare'
    BY <1>0, <2>1, BareKept
  <2> QED
    BY <2>1, <2>2 DEF Endings
<1>7. CASE FinishRound \/ BeginTools \/ ToolReturns \/ ToolCancelled
  <2>1. /\ UNCHANGED <<cur, ended>> /\ pc \in {"round", "tool"}
        /\ pc' \in {"end", "tool", "open"}
    BY <1>7 DEF FinishRound, BeginTools, ToolReturns, ToolCancelled, Return
  <2>2. (\E e : Persist(e)) \/ UNCHANGED <<disk, tail>>
    BY <1>7 DEF FinishRound, BeginTools, ToolReturns, ToolCancelled, PersistAssistant, logVars
  <2>3. Bare' /\ tail'[cur.conv] = "clean"
    <3>1. CASE UNCHANGED <<disk, tail>>
      BY <1>0, <2>1, <3>1, BareKept DEF Endings
    <3>2. ASSUME NEW e, Persist(e) PROVE Bare' /\ tail'[cur.conv] = "clean"
      <4>1. AppendOk(cur.conv, e)
        BY <1>0, <3>2, PersistIsAppend
      <4> QED
        BY <1>0, <2>1, <4>1, BareAppended
    <3> QED
      BY <2>2, <3>1, <3>2
  <2> QED
    BY <2>1, <2>3 DEF Endings
<1>8. CASE EndTurn
  <2>1. /\ UNCHANGED <<cur, disk, tail, result>> /\ pc = "end" /\ pc' = "reply"
        /\ ended' = [ended EXCEPT ![cur.turn] = result] /\ cur.turn > 0
    BY <1>0, <1>8 DEF EndTurn, logVars, loopVars, WithinTurn
  <2>2. /\ ended'[cur.turn] = result /\ ended[cur.turn] = "open"
        /\ \A t \in 1..Len(ended) : t # cur.turn => ended'[t] = ended[t]
    BY <1>a, <2>1 DEF Endings
  <2>3. Bare'
    BY <1>0, <2>1, <2>2, BareKept
  <2> QED
    BY <2>1, <2>2, <2>3 DEF Endings
<1>9. CASE DeliverReply
  <2>1. UNCHANGED <<cur, disk, tail, result, ended>> /\ pc = "reply" /\ pc' = "state"
    BY <1>9 DEF DeliverReply, logVars, loopVars
  <2>2. Bare'
    BY <1>0, <2>1, BareKept
  <2> QED
    BY <2>1, <2>2 DEF Endings
<1>10. ASSUME UNCHANGED <<cur, ended, disk, tail, pc, round, result>> PROVE Endings'
  BY <1>10 DEF Endings, Bare
<1>11. ASSUME NEW c \in Conversations, Cancel(c) \/ LookupHistory(c)
       PROVE  Endings'
  BY <1>10, <1>11 DEF Cancel, LookupHistory, logVars, loopVars
<1>12. CASE Crash
  <2>1. Bare' /\ pc' = "down"
    BY <1>12, BareCrashed DEF Crash, GoDown
  <2> QED
    BY <2>1 DEF Endings
<1>13. CASE AwaitMessage \/ UNCHANGED vars
  BY <1>10, <1>13 DEF AwaitMessage, vars
<1> QED
  BY <1>1, <1>2, <1>3, <1>4, <1>5, <1>6, <1>7, <1>8, <1>9, <1>11, <1>12, <1>13
     DEF Next, LoopStep

\* Without write errors a step leaves a file as it is, adds a record, or loses a bare one.
LEMMA DiskSteps ==
    ASSUME MaxWriteErrors = 0, Inv, Endings, [Next]_vars, NEW c \in Conversations
    PROVE  \/ disk'[c] = disk[c]
           \/ \E e \in Entry : disk'[c] = Append(disk[c], e)
           \/ tail[c] = "bare" /\ disk'[c] = Front(disk[c])
<1>0. /\ TypeOK /\ cur.conv \in Conversations /\ disk \in [Conversations -> Seq(Entry)]
      /\ tail \in [Conversations -> {"clean", "torn", "bare"}]
  BY DEF Inv, TypeOK
<1>1. ASSUME NEW e \in Entry, AppendOk(cur.conv, e)
      PROVE  \/ disk'[c] = disk[c] \/ disk'[c] = Append(disk[c], e)
             \/ tail[c] = "bare" /\ disk'[c] = Front(disk[c])
  BY <1>0, <1>1 DEF AppendOk, Written, Spoilt
<1>2. CASE AppendUser
  <2>1. UserEntry(cur.turn) \in Entry
    BY <1>0, EntryTypes DEF TypeOK
  <2> QED
    BY <1>1, <1>2, <2>1 DEF AppendUser
<1>3. CASE FinishRound \/ BeginTools
  <2>1. RoundEntry \in Entry
    BY <1>0, EntryTypes DEF TypeOK, RoundEntry
  <2>2. disk' = disk \/ Persist(RoundEntry)
    BY <1>3 DEF FinishRound, BeginTools, PersistAssistant, logVars
  <2>3. disk' = disk \/ AppendOk(cur.conv, RoundEntry)
    BY <1>0, <2>1, <2>2, PersistIsAppend
  <2> QED
    BY <1>1, <2>1, <2>3
<1>4. CASE ToolReturns \/ ToolCancelled
  <2>1. PICK m \in BOOLEAN : Persist(ToolResult(m))
    BY <1>4 DEF ToolReturns, ToolCancelled
  <2>2. ToolResult(m) \in Entry
    <3>1. iter > 0
      BY <1>4 DEF ToolReturns, ToolCancelled, Inv, WithinTurn
    <3> QED
      BY <1>0, <3>1, EntryTypes DEF TypeOK, ToolResult
  <2>3. AppendOk(cur.conv, ToolResult(m))
    BY <1>0, <2>1, PersistIsAppend
  <2> QED
    BY <1>1, <2>2, <2>3
<1>5. CASE Crash
  <2>1. CASE disk' = disk
    BY <2>1
  <2>2. CASE disk' # disk
    <3>1. PICK e \in InFlight :
             \E o \in CutShort(disk[cur.conv], tail[cur.conv], e) :
                disk' = [disk EXCEPT ![cur.conv] = o[1]]
      BY <1>5, <2>2 DEF Crash
    <3>2. PICK o \in CutShort(disk[cur.conv], tail[cur.conv], e) :
             disk' = [disk EXCEPT ![cur.conv] = o[1]]
      BY <3>1
    <3>3. e \in Entry
      BY InFlightFacts
    <3>4. /\ disk'[cur.conv] = o[1]
          /\ c # cur.conv => disk'[c] = disk[c]
      BY <1>0, <3>2
    <3>5. \/ o[1] = disk[cur.conv] \/ o[1] = Append(disk[cur.conv], e)
          \/ o[1] = Spoilt(disk[cur.conv], tail[cur.conv])
      BY CutShortCases
    <3> QED
      BY <3>3, <3>4, <3>5 DEF Spoilt
  <2> QED
    BY <2>1, <2>2
<1>6. CASE AppendUserFails
  BY <1>0, <1>6 DEF AppendUserFails, AppendErr, TypeOK
<1>7. CASE \/ ReceiveFails \/ DeliverWorking \/ RegisterTurn \/ OpenStream \/ OpenStreamFails
           \/ StreamCancelled \/ StreamEnds \/ UnknownStop \/ IterationLimit \/ EndTurn
           \/ DeliverReply \/ DeliverTurnState \/ Restart \/ AwaitMessage \/ UNCHANGED vars
  BY <1>7 DEF ReceiveFails, DeliverWorking, RegisterTurn, OpenStream, OpenStreamFails,
              StreamCancelled, StreamEnds, UnknownStop, IterationLimit, EndTurn,
              DeliverReply, DeliverTurnState, Restart, AwaitMessage, vars, logVars
<1>8. ASSUME NEW d \in Conversations, NEW r, Receive(d, r) \/ Cancel(d) \/ LookupHistory(d)
      PROVE  disk' = disk
  BY <1>8 DEF Receive, Cancel, LookupHistory, logVars
<1>9. ASSUME NEW s, NEW n, NEW t, StreamCompletes(s, n, t)
      PROVE  disk' = disk
  BY <1>9 DEF StreamCompletes, logVars
<1> QED
  BY <1>2, <1>3, <1>4, <1>5, <1>6, <1>7, <1>8, <1>9 DEF Next, LoopStep

\* What the file holds of a turn that did not crash it keeps.
LEMMA DiskHolds ==
    ASSUME MaxWriteErrors = 0, Inv, Endings, [Next]_vars, NEW c \in Conversations, NEW t,
           HoldsAssistant(disk[c], t), ended[t] # "crash"
    PROVE  HoldsAssistant(disk'[c], t)
<1>1. PICK d \in Seq(Entry) : d = disk[c]
  BY DEF Inv, TypeOK
<1>2. PICK j \in 1..Len(d) : d[j].role = "assistant" /\ d[j].turn = t
  BY <1>1 DEF HoldsAssistant
<1>3. ASSUME NEW e \in Entry PROVE HoldsAssistant(Append(d, e), t)
  <2>1. Len(d) \in Nat /\ Len(Append(d, e)) = Len(d) + 1 /\ Append(d, e)[j] = d[j]
    BY AppendFacts
  <2>2. j \in 1..Len(Append(d, e))
    BY <2>1
  <2> QED
    BY <1>2, <2>1, <2>2 DEF HoldsAssistant
<1>4. ASSUME tail[c] = "bare" PROVE HoldsAssistant(Front(d), t)
  <2>1. Len(d) > 0 /\ ended[d[Len(d)].turn] = "crash"
    BY <1>1, <1>4 DEF Endings, Bare
  <2>2. j # Len(d)
    BY <1>2, <2>1
  <2>3. Len(d) \in Nat /\ Len(Front(d)) = Len(d) - 1
    BY <2>1, FrontFacts
  <2>4. j \in 1..(Len(d) - 1)
    BY <2>2, <2>3
  <2>5. Front(d)[j] = d[j]
    BY <2>1, <2>4, FrontFacts
  <2> QED
    BY <1>2, <2>3, <2>4, <2>5 DEF HoldsAssistant
<1>5. HoldsAssistant(d, t)
  BY <1>1
<1> QED
  BY <1>1, <1>3, <1>4, <1>5, DiskSteps

\* A step that delivers no reply with text keeps those delivered in their files.
LEMMA RepliesKept ==
    ASSUME MaxWriteErrors = 0, Inv, Inv', Endings, Replies, [Next]_vars,
           \A t \in 1..Len(ended) : ended[t] \in {"ok", "max"} => ended'[t] = ended[t],
           Len(ended) <= Len(ended'),
           \/ frames' = frames
           \/ \E f \in FrameSet : frames' = Append(frames, f) /\ f.kind # "REPLY"
    PROVE  \A i \in 1..Len(frames') : frames'[i].kind = "REPLY" /\ frames'[i].text =>
              /\ frames'[i].turn \in 1..Len(ended')
              /\ ended'[frames'[i].turn] \in {"ok", "max"}
              /\ HoldsAssistant(disk'[frames'[i].conv], frames'[i].turn)
<1>0. /\ frames \in Seq(FrameSet) /\ Len(frames) \in Nat
      /\ Len(ended) \in Nat /\ Len(ended') \in Nat
      /\ \A i \in 1..Len(frames) : frames[i] \in FrameSet
  <2>1. /\ frames \in Seq(FrameSet) /\ ended \in Seq(Ends) /\ ended' \in Seq(Ends)
    BY DEF Inv, TypeOK, FrameSet, Ends
  <2> QED
    BY <2>1, LenProperties, ElementOfSeq
<1>1. ASSUME NEW i \in 1..Len(frames'), frames'[i].kind = "REPLY"
      PROVE  i \in 1..Len(frames) /\ frames'[i] = frames[i]
  <2>1. CASE frames' = frames
    BY <2>1
  <2>2. ASSUME NEW f \in FrameSet, frames' = Append(frames, f), f.kind # "REPLY"
        PROVE  i \in 1..Len(frames) /\ frames'[i] = frames[i]
    <3>1. /\ Len(frames') = Len(frames) + 1
          /\ frames'[Len(frames) + 1] = f
          /\ \A j \in 1..Len(frames) : frames'[j] = frames[j]
      BY <1>0, <2>2, AppendProperties
    <3>2. i # Len(frames) + 1
      BY <1>1, <2>2, <3>1
    <3> QED
      BY <1>0, <3>1, <3>2
  <2> QED
    BY <2>1, <2>2
<1>2. ASSUME NEW i \in 1..Len(frames'), frames'[i].kind = "REPLY", frames'[i].text
      PROVE  /\ frames'[i].turn \in 1..Len(ended')
             /\ ended'[frames'[i].turn] \in {"ok", "max"}
             /\ HoldsAssistant(disk'[frames'[i].conv], frames'[i].turn)
  <2>1. i \in 1..Len(frames) /\ frames'[i] = frames[i]
    BY <1>1, <1>2
  <2>2. PICK t \in 1..Len(ended) : t = frames[i].turn
    BY <1>2, <2>1 DEF Replies
  <2>3. PICK c \in Conversations : c = frames[i].conv
    BY <1>0, <2>1 DEF FrameSet
  <2>4. ended[t] \in {"ok", "max"} /\ HoldsAssistant(disk[c], t)
    BY <1>2, <2>1, <2>2, <2>3 DEF Replies
  <2>5. HoldsAssistant(disk'[c], t)
    BY <2>4, DiskHolds
  <2>6. ended'[t] \in {"ok", "max"} /\ t \in 1..Len(ended')
    BY <1>0, <2>4
  <2> QED
    BY <2>1, <2>2, <2>3, <2>5, <2>6
<1> QED
  BY <1>2

\* A completion with text that ends the loop is in the file when the loop returns.
LEMMA FinishHolds ==
    ASSUME MaxWriteErrors = 0, Inv, Endings, FinishRound, round.text
    PROVE  HoldsAssistant(disk'[cur.conv], cur.turn)
<1>0. TypeOK /\ pc = "round" /\ tail[cur.conv] = "clean"
  BY DEF Inv, Endings, FinishRound
<1>1. PICK e \in Entry : e = RoundEntry
  BY <1>0, EntryTypes DEF TypeOK, RoundEntry
<1>2. AppendOk(cur.conv, e)
  BY <1>0, <1>1, PersistIsAppend DEF FinishRound, PersistAssistant, Storable
<1>3. PICK d \in Seq(Entry) : d = disk[cur.conv]
  BY <1>0 DEF TypeOK
<1>4. disk'[cur.conv] = Append(d, e)
  BY <1>0, <1>2, <1>3 DEF AppendOk, Written, TypeOK
<1>5. e.role = "assistant" /\ e.turn = cur.turn
  BY <1>1 DEF RoundEntry, AssistantEntry
<1>6. Len(d) \in Nat /\ Len(Append(d, e)) = Len(d) + 1 /\ Append(d, e)[Len(d) + 1] = e
  BY AppendFacts
<1>7. Len(d) + 1 \in 1..Len(Append(d, e))
  BY <1>6
<1> QED
  BY <1>4, <1>5, <1>6, <1>7 DEF HoldsAssistant

\* Without write errors every step keeps the replies in their files.
LEMMA StepReplies ==
    ASSUME MaxWriteErrors = 0, Inv, Inv', Endings, Replies, [Next]_vars
    PROVE  Replies'
<1>0. TypeOK /\ WithinTurn
  BY DEF Inv
<1>a. /\ cur.turn \in Nat /\ ended \in Seq(Ends) /\ cur.turn = Len(ended) /\ turnNo = Len(ended)
      /\ DOMAIN ended = 1..Len(ended) /\ Len(ended) \in Nat
  BY <1>0, LenProperties DEF TypeOK, Ends
<1> DEFINE Told == \A i \in 1..Len(frames) : frames[i].kind = "REPLY" /\ frames[i].text =>
                      /\ frames[i].turn \in 1..Len(ended)
                      /\ ended[frames[i].turn] \in {"ok", "max"}
                      /\ HoldsAssistant(disk[frames[i].conv], frames[i].turn)
           Said == pc \in {"end", "reply"} /\ HasReply /\ round.text
                      => HoldsAssistant(disk[cur.conv], cur.turn)
<1>b. Replies' <=> Told' /\ Said'
  BY DEF Replies
<1>c. ASSUME frames' = frames, ended' = ended PROVE Told'
  <2>1. /\ \A t \in 1..Len(ended) : ended[t] \in {"ok", "max"} => ended'[t] = ended[t]
        /\ Len(ended) <= Len(ended')
    BY <1>a, <1>c
  <2> QED
    BY <1>c, <2>1, RepliesKept
<1>1. ASSUME NEW c \in Conversations, NEW r \in BOOLEAN, Receive(c, r)
      PROVE  Replies'
  <2>1. ended' = Append(ended, "open") /\ frames' = frames /\ pc' = "append"
    BY <1>1 DEF Receive
  <2>2. /\ \A t \in 1..Len(ended) : ended'[t] = ended[t]
        /\ Len(ended) <= Len(ended')
    BY <1>a, <2>1
  <2>3. Told'
    BY <2>1, <2>2, RepliesKept
  <2>4. Said'
    BY <2>1
  <2> QED
    BY <1>b, <2>3, <2>4
<1>2. CASE \/ ReceiveFails \/ AppendUser \/ RegisterTurn \/ OpenStream \/ Restart
           \/ BeginTools \/ ToolReturns
  <2>1. frames' = frames /\ ended' = ended /\ pc' \notin {"end", "reply"}
    BY <1>2 DEF ReceiveFails, AppendUser, RegisterTurn, OpenStream, Restart, BeginTools,
                ToolReturns, GoDown
  <2>2. Told'
    BY <1>c, <2>1
  <2>3. Said'
    BY <2>1
  <2> QED
    BY <1>b, <2>2, <2>3
<1>3. CASE AppendUserFails
  BY <1>0, <1>3 DEF AppendUserFails, AppendErr, TypeOK
<1>4. CASE \/ OpenStreamFails \/ StreamCancelled \/ StreamEnds \/ UnknownStop
           \/ IterationLimit \/ ToolCancelled
  <2>1. frames' = frames /\ ended' = ended /\ result' \notin {"ok", "max"}
    BY <1>4 DEF OpenStreamFails, StreamCancelled, StreamEnds, UnknownStop, IterationLimit,
                ToolCancelled, Return
  <2>2. Told'
    BY <1>c, <2>1
  <2>3. Said'
    BY <2>1 DEF HasReply
  <2> QED
    BY <1>b, <2>2, <2>3
<1>5. ASSUME NEW s \in StopReasons, NEW n \in 0..MaxCalls, NEW t \in BOOLEAN,
             StreamCompletes(s, n, t)
      PROVE  Replies'
  <2>1. frames' = frames /\ ended' = ended /\ pc' = "round"
    BY <1>5 DEF StreamCompletes
  <2>2. Told'
    BY <1>c, <2>1
  <2>3. Said'
    BY <2>1
  <2> QED
    BY <1>b, <2>2, <2>3
<1>6. CASE FinishRound
  <2>1. UNCHANGED <<frames, ended, round, cur>>
    BY <1>6 DEF FinishRound
  <2>2. Told'
    BY <1>c, <2>1
  <2>3. Said'
    <3>1. round.text => HoldsAssistant(disk'[cur.conv], cur.turn)
      BY <1>6, FinishHolds
    <3> QED
      BY <2>1, <3>1
  <2> QED
    BY <1>b, <2>2, <2>3
<1>7. CASE EndTurn
  <2>1. /\ UNCHANGED <<frames, disk, cur, result, round>> /\ pc = "end" /\ cur.turn > 0
        /\ ended' = [ended EXCEPT ![cur.turn] = result]
    BY <1>0, <1>7 DEF EndTurn, WithinTurn, logVars, loopVars
  <2>2. /\ ended[cur.turn] = "open" /\ Len(ended') = Len(ended)
        /\ \A t \in 1..Len(ended) : t # cur.turn => ended'[t] = ended[t]
    BY <1>a, <2>1 DEF Endings
  <2>3. /\ \A t \in 1..Len(ended) : ended[t] \in {"ok", "max"} => ended'[t] = ended[t]
        /\ Len(ended) <= Len(ended')
    BY <1>a, <2>2
  <2>4. Told'
    BY <2>1, <2>3, RepliesKept
  <2>5. Said'
    BY <2>1 DEF Replies, HasReply
  <2> QED
    BY <1>b, <2>4, <2>5
<1>8. CASE DeliverReply
  <2>1. /\ UNCHANGED <<disk, cur, ended>> /\ pc = "reply" /\ pc' = "state" /\ cur.turn > 0
        /\ \/ frames' = frames
           \/ frames' = Append(frames, Frame("REPLY", round.text)) /\ HasReply
    BY <1>0, <1>8 DEF DeliverReply, Deliver, logVars, WithinTurn
  <2>2. CASE frames' = frames
    <3>1. Told'
      BY <1>c, <2>1, <2>2
    <3> QED
      BY <1>b, <2>1, <3>1
  <2>3. CASE frames' = Append(frames, Frame("REPLY", round.text)) /\ HasReply
    <3>0. Frame("REPLY", round.text) \in FrameSet
      BY <1>0 DEF Frame, FrameSet, TypeOK
    <3>1. PICK f \in FrameSet :
             /\ f = Frame("REPLY", round.text) /\ f.turn = cur.turn /\ f.conv = cur.conv
             /\ f.text = round.text
      BY <3>0 DEF Frame
    <3>2. frames \in Seq(FrameSet)
      BY <1>0 DEF TypeOK, FrameSet
    <3>3. /\ Len(frames) \in Nat /\ Len(frames') = Len(frames) + 1
          /\ frames'[Len(frames) + 1] = f
          /\ \A j \in 1..Len(frames) : frames'[j] = frames[j]
      BY <2>3, <3>1, <3>2, AppendProperties, LenProperties
    <3>4. f.text => /\ f.turn \in 1..Len(ended) /\ ended[f.turn] \in {"ok", "max"}
                    /\ HoldsAssistant(disk[f.conv], f.turn)
      <4>1. ended[cur.turn] = result /\ result \in {"ok", "max"} /\ cur.turn \in 1..Len(ended)
        BY <1>a, <2>1, <2>3 DEF Endings, HasReply
      <4>2. round.text => HoldsAssistant(disk[cur.conv], cur.turn)
        BY <2>1, <2>3 DEF Replies
      <4> QED
        BY <3>1, <4>1, <4>2
    <3>5. ASSUME NEW i \in 1..Len(frames'), frames'[i].kind = "REPLY", frames'[i].text
          PROVE  /\ frames'[i].turn \in 1..Len(ended)
                 /\ ended[frames'[i].turn] \in {"ok", "max"}
                 /\ HoldsAssistant(disk[frames'[i].conv], frames'[i].turn)
      <4>1. CASE i \in 1..Len(frames)
        BY <3>3, <3>5, <4>1 DEF Replies
      <4>2. CASE i = Len(frames) + 1
        BY <3>3, <3>4, <3>5, <4>2
      <4> QED
        BY <3>3, <4>1, <4>2
    <3>6. Told'
      BY <2>1, <3>5
    <3> QED
      BY <1>b, <2>1, <3>6
  <2> QED
    BY <2>1, <2>2, <2>3
<1>9. CASE DeliverWorking \/ DeliverTurnState
  <2>1. /\ ended' = ended /\ pc' \notin {"end", "reply"}
        /\ \/ frames' = frames
           \/ frames' = Append(frames, Frame("WORKING", FALSE))
           \/ frames' = Append(frames, Frame(TerminalState, FALSE))
    BY <1>9 DEF DeliverWorking, DeliverTurnState, Deliver, GoDown
  <2>2. /\ Frame("WORKING", FALSE) \in FrameSet /\ Frame("WORKING", FALSE).kind # "REPLY"
        /\ Frame(TerminalState, FALSE) \in FrameSet
        /\ Frame(TerminalState, FALSE).kind # "REPLY"
    BY <1>0 DEF Frame, FrameSet, TypeOK, TerminalState
  <2>3. \/ frames' = frames
        \/ \E f \in FrameSet : frames' = Append(frames, f) /\ f.kind # "REPLY"
    BY <2>1, <2>2
  <2>4. /\ \A t \in 1..Len(ended) : ended[t] \in {"ok", "max"} => ended'[t] = ended[t]
        /\ Len(ended) <= Len(ended')
    BY <1>a, <2>1
  <2>5. Told'
    BY <2>3, <2>4, RepliesKept
  <2>6. Said'
    BY <2>1
  <2> QED
    BY <1>b, <2>5, <2>6
<1>10. ASSUME NEW c \in Conversations, Cancel(c) \/ LookupHistory(c)
       PROVE  Replies'
  BY <1>10 DEF Cancel, LookupHistory, logVars, loopVars, Replies, HasReply
<1>11. CASE Crash
  <2>1. /\ frames' = frames /\ pc' = "down"
        /\ ended' = [t \in DOMAIN ended |-> IF ended[t] = "open" THEN "crash" ELSE ended[t]]
    BY <1>11 DEF Crash, GoDown
  <2>2. Len(ended') = Len(ended)
    <3>1. ended' \in Seq(Ends) /\ DOMAIN ended' = 1..Len(ended)
      BY <1>a, <2>1 DEF Inv, TypeOK, Ends
    <3> QED
      BY <1>a, <3>1, LenProperties
  <2>3. /\ \A t \in 1..Len(ended) : ended[t] \in {"ok", "max"} => ended'[t] = ended[t]
        /\ Len(ended) <= Len(ended')
    BY <1>a, <2>1, <2>2
  <2>4. Told'
    BY <2>1, <2>3, RepliesKept
  <2>5. Said'
    BY <2>1
  <2> QED
    BY <1>b, <2>4, <2>5
<1>12. CASE AwaitMessage \/ UNCHANGED vars
  BY <1>12 DEF AwaitMessage, vars, Replies, HasReply
<1> QED
  BY <1>1, <1>2, <1>3, <1>4, <1>5, <1>6, <1>7, <1>8, <1>9, <1>10, <1>11, <1>12
     DEF Next, LoopStep

\* Initially there is no record, no turn and no frame.
LEMMA InitLogInv == Init => LogInv
<1> SUFFICES ASSUME Init PROVE LogInv
  OBVIOUS
<1>1. 1..Len(<<>>) = {}
  OBVIOUS
<1>2. Histories
  <2>1. ASSUME NEW c \in Conversations, NEW s \in {mem[c], disk[c]} PROVE History(c, s)
    <3>1. s = <<>> /\ pc = "recv"
      BY DEF Init
    <3> QED
      BY <1>1, <3>1 DEF History, TurnsOf, ResultsFollow, RoundsAnswered, Paired, Rounds
  <2> QED
    BY <2>1 DEF Histories
<1>3. Endings
  BY DEF Init, Endings, Bare
<1>4. Replies
  <2>1. pc = "recv" /\ 1..Len(frames) = {}
    BY <1>1 DEF Init
  <2> QED
    BY <2>1 DEF Replies
<1> QED
  BY <1>2, <1>3, <1>4 DEF LogInv

\* The invariant of the log is inductive while no write fails.
LEMMA LogInvHolds ==
    ASSUME MaxWriteErrors = 0
    PROVE  Spec => [](Inv /\ LogInv)
<1>1. Init => Inv /\ LogInv
  BY InitInv, InitLogInv
<1>2. Inv /\ LogInv /\ [Next]_vars => Inv' /\ LogInv'
  <2> SUFFICES ASSUME Inv, LogInv, [Next]_vars PROVE Inv' /\ LogInv'
    OBVIOUS
  <2>1. Inv'
    BY StepInv
  <2>2. Histories' /\ Endings' /\ Replies'
    BY <2>1, StepHistories, StepEndings, StepReplies DEF LogInv
  <2> QED
    BY <2>1, <2>2 DEF LogInv
<1> QED
  BY <1>1, <1>2, PTL DEF Spec

\* The context is the log of a turn under way, or what that log was.
MessagesInv == ResultsFollow(messages) /\ RoundsAnswered(messages)

\* A step leaves the context, empties it, or makes it the log of the turn being served.
LEMMA StepMessagesInv ==
    ASSUME MaxWriteErrors = 0, Inv, Inv', ContextInv, ContextInv', Histories', MessagesInv,
           [Next]_vars
    PROVE  MessagesInv'
<1>1. \/ messages' = messages \/ messages' = <<>>
      \/ pc' \in {"working", "tool", "open"}
  <2>1. CASE AppendUser \/ BeginTools \/ ToolReturns
    BY <2>1 DEF AppendUser, BeginTools, ToolReturns
  <2>2. CASE \/ ReceiveFails \/ AppendUserFails \/ DeliverWorking \/ RegisterTurn
             \/ OpenStream \/ OpenStreamFails \/ StreamCancelled \/ StreamEnds
             \/ UnknownStop \/ IterationLimit \/ FinishRound \/ ToolCancelled \/ EndTurn
             \/ DeliverReply \/ DeliverTurnState \/ Crash \/ Restart \/ AwaitMessage
             \/ UNCHANGED vars
    BY <2>2 DEF ReceiveFails, AppendUserFails, DeliverWorking, RegisterTurn, OpenStream,
                OpenStreamFails, StreamCancelled, StreamEnds, UnknownStop, IterationLimit,
                FinishRound, ToolCancelled, EndTurn, DeliverReply, DeliverTurnState, Crash,
                Restart, AwaitMessage, vars, loopVars, GoDown, LocalsGone
  <2>3. ASSUME NEW c, NEW r, Receive(c, r) \/ Cancel(c) \/ LookupHistory(c)
        PROVE  messages' = messages
    BY <2>3 DEF Receive, Cancel, LookupHistory, loopVars
  <2>4. ASSUME NEW s, NEW n, NEW t, StreamCompletes(s, n, t)
        PROVE  messages' = messages
    BY <2>4 DEF StreamCompletes
  <2> QED
    BY <2>1, <2>2, <2>3, <2>4 DEF Next, LoopStep
<1>2. CASE messages' = messages
  BY <1>2 DEF MessagesInv, ResultsFollow, RoundsAnswered
<1>3. CASE messages' = <<>>
  <2>1. 1..Len(<<>>) = {}
    OBVIOUS
  <2> QED
    BY <1>3, <2>1 DEF MessagesInv, ResultsFollow, RoundsAnswered
<1>4. CASE pc' \in {"working", "tool", "open"}
  <2>1. messages' = mem'[cur'.conv] /\ cur'.conv \in Conversations
    BY <1>4 DEF ContextInv, ContextIsLog, Inv, TypeOK
  <2>2. PICK s \in Seq(Entry) : s = messages'
    BY DEF Inv, TypeOK
  <2>3. ResultsFollow(s) /\ RoundsAnswered(s)
    BY <2>1, <2>2 DEF Histories, History
  <2> QED
    BY <2>2, <2>3 DEF MessagesInv, ResultsFollow, RoundsAnswered
<1> QED
  BY <1>1, <1>2, <1>3, <1>4

\* The context satisfies what the log does.
LEMMA MessagesInvHolds ==
    ASSUME MaxWriteErrors = 0
    PROVE  Spec => []MessagesInv
<1>1. Init => Inv /\ LogInv /\ ContextInv /\ MessagesInv
  <2> SUFFICES ASSUME Init PROVE Inv /\ LogInv /\ ContextInv /\ MessagesInv
    OBVIOUS
  <2>1. Inv /\ LogInv
    BY InitInv, InitLogInv
  <2>2. ContextInv
    BY DEF Init, ContextInv, ContextIsLog
  <2>3. 1..Len(messages) = {}
    BY DEF Init
  <2>4. MessagesInv
    BY <2>3 DEF MessagesInv, ResultsFollow, RoundsAnswered
  <2> QED
    BY <2>1, <2>2, <2>4
<1>2. Inv /\ LogInv /\ ContextInv /\ MessagesInv /\ [Next]_vars
         => Inv' /\ LogInv' /\ ContextInv' /\ MessagesInv'
  <2> SUFFICES ASSUME Inv, LogInv, ContextInv, MessagesInv, [Next]_vars
               PROVE  Inv' /\ LogInv' /\ ContextInv' /\ MessagesInv'
    OBVIOUS
  <2>1. Inv'
    BY StepInv
  <2>2. Histories' /\ Endings' /\ Replies'
    BY <2>1, StepHistories, StepEndings, StepReplies DEF LogInv
  <2>3. ContextInv'
    BY StepContextInv
  <2>4. MessagesInv'
    BY <2>1, <2>2, <2>3, StepMessagesInv
  <2> QED
    BY <2>1, <2>2, <2>3, <2>4 DEF LogInv
<1> QED
  BY <1>1, <1>2, PTL DEF Spec

\* While no write fails, whatever is cancelled, crashes or tears a record: a tool result
\* is preceded by its tool use in the resent context, in the log and in the file.
THEOREM ResultsAreIntroduced ==
    ASSUME MaxWriteErrors = 0
    PROVE  Spec => []ResultsFollowToolUse
<1>1. Inv /\ LogInv /\ MessagesInv => ResultsFollowToolUse
  BY DEF LogInv, Histories, History, MessagesInv, ResultsFollowToolUse
<1> QED
  BY <1>1, LogInvHolds, MessagesInvHolds, PTL

\* While no write fails, within a turn the model is asked again only once each call of
\* its last message has its result, in the context, in the log and in the file.
THEOREM RoundsAreAnswered ==
    ASSUME MaxWriteErrors = 0
    PROVE  Spec => []AnsweredBeforeNextRound
<1>1. Inv /\ LogInv /\ MessagesInv => AnsweredBeforeNextRound
  BY DEF LogInv, Histories, History, MessagesInv, AnsweredBeforeNextRound
<1> QED
  BY <1>1, LogInvHolds, MessagesInvHolds, PTL

\* While no write fails, and if a completion that ends its turn carries no tool calls, a
\* tool use stays without a result only in the running turn or in one that a cancel, a
\* crash or the token limit cut short.
THEOREM UnpairedIsCutShort ==
    ASSUME MaxWriteErrors = 0, "end" \notin CallsOn
    PROVE  Spec => []UnpairedOnlyWhenCutShort
<1>1. ASSUME Inv, LogInv PROVE UnpairedOnlyWhenCutShort
  <2>1. ASSUME NEW c \in Conversations, NEW s \in {mem[c], disk[c]}, NEW i \in 1..Len(s),
               Unpaired(s, i), ended[s[i].turn] \notin CutShortEnds
        PROVE  FALSE
    <3>1. History(c, s) /\ s \in Seq(Entry)
      BY <1>1 DEF LogInv, Histories, Inv, TypeOK
    <3>2. PICK n \in 1..s[i].calls :
             /\ s[i].role = "assistant"
             /\ \A m \in 1..Len(s) : ~(ResultOf(s[m], s[i]) /\ s[m].call = n)
      BY <2>1 DEF Unpaired
    <3>3. Answered(s, i, n)
      BY <2>1, <3>1, <3>2 DEF History, Paired
    <3>4. PICK m \in (i + 1)..Len(s) : ResultOf(s[m], s[i]) /\ s[m].call = n
      BY <3>3 DEF Answered
    <3>5. m \in 1..Len(s)
      BY <3>1, <3>4, LenProperties
    <3> QED
      BY <3>2, <3>4, <3>5
  <2> QED
    BY <2>1 DEF UnpairedOnlyWhenCutShort, CutShortEnds
<1>2. Inv /\ LogInv => UnpairedOnlyWhenCutShort
  BY <1>1
<1> QED
  BY <1>2, LogInvHolds, PTL

\* While no write fails, a reply with text that reached the relay is in the
\* conversation's file and stays there, through crashes and the writes they tear.
THEOREM RepliesAreDurable ==
    ASSUME MaxWriteErrors = 0
    PROVE  Spec => []ReplyIsDurable
<1>1. Inv /\ LogInv => ReplyIsDurable
  BY DEF LogInv, Replies, HoldsAssistant, ReplyIsDurable
<1> QED
  BY <1>1, LogInvHolds, PTL
=============================================================================
