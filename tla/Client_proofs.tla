------------------------------ MODULE Client_proofs ------------------------------
(***************************************************************************)
(* Theorems about the two sides a user meets: ServerRequests, what the     *)
(* harness asks the user, for every set of turns, streams and tool call    *)
(* ids, and Tui, the client, for every bound.                              *)
(***************************************************************************)
EXTENDS ServerRequests, Tui, SequenceTheorems, WellFoundedInduction, TLAPS

----------------------------------------------------------------------------
(* ServerRequests: the inductive invariant *)

Methods == {"RequestToolApproval", "RequestUserInput", "RevealPath"}
RequestIds == ({"uuid"} \X Nat) \cup ({"call"} \X CallIds)

AskType ==
    [turn : Turns, tool : {"toolset", "dispatch", "input"}, id : RequestIds, method : Methods,
     pc : {"rpc", "fan", "wait", "expired", "done", "dropped", "closed"}, todo : SUBSET Streams,
     sent : BOOLEAN, outcome : {"none", "approve", "other", "failed"}, answerOf : Nat]

LoopRecord ==
    [pc : {"model", "calls", "wait", "run", "sub", "cancelled"}, round : Nat, left : Int, ask : Nat]

\* A loop, of which one that waits waits for one of the first n asks.
LoopType(n) == {f \in LoopRecord : f.pc = "wait" => f.ask \in 1..n}

TypeOK ==
    /\ asks \in Seq(AskType)
    /\ stack \in [Turns -> Seq(LoopType(Len(asks)))]
    /\ ended \subseteq Turns /\ cancelled \subseteq Turns
    /\ pending \subseteq RequestIds \X (1..Len(asks))
    /\ stream \in [Streams -> {"new", "open", "gone", "removed"}]
    /\ methods \in [Streams -> SUBSET Methods]
    /\ chan \in [Streams -> Seq(0..Len(asks))]
    /\ prompts \in [Streams -> SUBSET (1..Len(asks))]
    /\ approved \subseteq Nat /\ ran \subseteq Nat /\ restarts \in Nat

\* An approval has an id of its own; only client tools use the model's call ids.
OwnIds ==
    \A k \in 1..Len(asks) :
        IF asks[k].tool = "input" THEN asks[k].id[1] = "call" ELSE asks[k].id = <<"uuid", k>>

\* A slot is under the id of its ask, which is still open or was dropped, and
\* nobody has answered it.
Slots ==
    \A p \in pending :
        /\ asks[p[2]].id = p[1]
        /\ asks[p[2]].pc \in {"fan", "wait", "expired", "dropped"}
        /\ asks[p[2]].outcome = "none"

\* An ask is approved only by a client that was shown that very request.
Approvals ==
    /\ \A k \in 1..Len(asks) :
          asks[k].tool # "input" /\ asks[k].outcome = "approve" => k \in approved
    /\ ran \subseteq approved

\* Another ask has the id of ask k.
Shared(k) == \E j \in 1..Len(asks) : j # k /\ asks[j].id = asks[k].id

\* What has been answered, and what still can be.
Answered ==
    \A k \in 1..Len(asks) :
        /\ asks[k].pc = "rpc" => asks[k].outcome = "none"
        /\ asks[k].answerOf \in {0, k} \/ Shared(k)
        /\ asks[k].pc \in {"fan", "wait"} /\ asks[k].outcome = "none"
              => <<asks[k].id, k>> \in pending \/ Shared(k)

Inv == TypeOK /\ OwnIds /\ Slots /\ Approvals /\ Answered

----------------------------------------------------------------------------
(* The operators *)

\* The loops that wait for one of n asks also wait for one of m >= n.
LEMMA LoopTypeGrows ==
    ASSUME NEW n \in Nat, NEW m \in Nat, n <= m
    PROVE  LoopType(n) \subseteq LoopType(m)
BY DEF LoopType

\* The facts about the asks that the sequence they are in gives.
LEMMA AsksFacts ==
    ASSUME TypeOK
    PROVE  /\ Len(asks) \in Nat
           /\ DOMAIN asks = 1..Len(asks)
           /\ \A k \in 1..Len(asks) : asks[k] \in AskType
BY LenProperties, ElementOfSeq DEF TypeOK

\* The innermost loop of a turn.
LEMMA TopFacts ==
    ASSUME TypeOK, NEW t \in Turns, stack[t] # <<>>
    PROVE  /\ Len(stack[t]) \in Nat \ {0}
           /\ stack[t] \in Seq(LoopType(Len(asks)))
           /\ Top(t) \in LoopType(Len(asks))
<1>1. stack[t] \in Seq(LoopType(Len(asks)))
  BY DEF TypeOK
<1>2. Len(stack[t]) \in Nat \ {0}
  BY <1>1, EmptySeq
<1> QED
  BY <1>1, <1>2, ElementOfSeq DEF Top, Last

\* Replacing the innermost loop keeps the stacks' type, also when an ask is added.
LEMMA SetTopType ==
    ASSUME TypeOK, NEW t \in Turns, stack[t] # <<>>, NEW n \in Nat, Len(asks) <= n,
           NEW f \in LoopType(n)
    PROVE  [stack EXCEPT ![t][Len(stack[t])] = f] \in [Turns -> Seq(LoopType(n))]
<1>1. stack \in [Turns -> Seq(LoopType(n))]
  <2>1. LoopType(Len(asks)) \subseteq LoopType(n)
    BY AsksFacts, LoopTypeGrows
  <2>2. \A u \in Turns : stack[u] \in Seq(LoopType(n))
    BY <2>1, SeqMonotonic DEF TypeOK
  <2> QED
    BY <2>2 DEF TypeOK
<1>2. [stack[t] EXCEPT ![Len(stack[t])] = f] \in Seq(LoopType(n))
  BY <1>1, TopFacts, ExceptSeq
<1>3. [stack EXCEPT ![t][Len(stack[t])] = f]
        = [stack EXCEPT ![t] = [stack[t] EXCEPT ![Len(stack[t])] = f]]
  OBVIOUS
<1> QED
  BY <1>1, <1>2, <1>3

\* A loop that has its result is at the model or at its next call.
LEMMA AfterResultType ==
    ASSUME NEW n, NEW f \in LoopType(n)
    PROVE  AfterResult(f) \in LoopType(n)
<1>1. f \in LoopRecord
  BY DEF LoopType
<1>2. f.left - 1 \in Int
  BY <1>1 DEF LoopRecord
<1>3. AfterResult(f) \in LoopRecord /\ AfterResult(f).pc \in {"model", "calls"}
  BY <1>1, <1>2, ZenonT(30) DEF AfterResult, LoopRecord
<1> QED
  BY <1>3 DEF LoopType

\* The innermost loop returns: one loop less, or none.
LEMMA ReturnType ==
    ASSUME TypeOK, NEW t \in Turns, stack[t] # <<>>, NEW res, Return(t, res)
    PROVE  /\ stack' \in [Turns -> Seq(LoopType(Len(asks)))]
           /\ ended' \subseteq Turns /\ cancelled' \subseteq Turns
<1> DEFINE rest == SubSeq(stack[t], 1, Len(stack[t]) - 1)
           L == LoopType(Len(asks))
           g(f) == IF res = "cancelled" THEN [f EXCEPT !.pc = "cancelled"] ELSE AfterResult(f)
<1>1. rest \in Seq(L)
  <2>1. \A i \in 1..(Len(stack[t]) - 1) : stack[t][i] \in L
    BY TopFacts, ElementOfSeq
  <2> QED
    BY <2>1, TopFacts, SubSeqProperties
<1>2. ASSUME rest # <<>>
      PROVE  [rest EXCEPT ![Len(rest)] = g(@)] \in Seq(L)
  <2>1. Len(rest) \in 1..Len(rest) /\ rest[Len(rest)] \in L
    BY <1>1, <1>2, EmptySeq, ElementOfSeq
  <2>2. g(rest[Len(rest)]) \in L
    <3>1. [rest[Len(rest)] EXCEPT !.pc = "cancelled"] \in L
      BY <2>1 DEF LoopType, LoopRecord
    <3> QED
      BY <2>1, <3>1, AfterResultType
  <2> HIDE DEF g, rest, L
  <2>3. [rest EXCEPT ![Len(rest)] = g(rest[Len(rest)])] \in Seq(L)
    BY <1>1, <2>1, <2>2, ExceptSeq
  <2> QED
    BY <2>3
<1>3. stack' = [stack EXCEPT ![t] = IF rest = <<>> THEN <<>>
                                    ELSE [rest EXCEPT ![Len(rest)] = g(@)]]
  BY DEF Return
<1>4. <<>> \in Seq(L)
  BY EmptySeq
<1>5. stack' \in [Turns -> Seq(L)]
  <2> HIDE DEF g, rest, L
  <2>1. stack \in [Turns -> Seq(L)]
    BY DEF TypeOK, L
  <2> QED
    BY <1>2, <1>3, <1>4, <2>1
<1>6. ended' \subseteq Turns /\ cancelled' \subseteq Turns
  BY DEF Return, Deregister, TypeOK
<1> QED
  BY <1>5, <1>6

----------------------------------------------------------------------------
(* What a step does to the asks *)

\* A step that leaves the asks, the slots and the approvals alone.
LEMMA QuietInv ==
    ASSUME Inv, TypeOK', UNCHANGED <<asks, pending, approved, ran>>
    PROVE  Inv'
BY DEF Inv, OwnIds, Slots, Approvals, Answered, Shared

\* A new ask, with an id of its own if it is an approval.
LEMMA NewAskInv ==
    ASSUME Inv, TypeOK', NEW a \in AskType, asks' = Append(asks, a), a.pc = "rpc",
           a.outcome = "none", a.answerOf = 0,
           IF a.tool = "input" THEN a.id[1] = "call" ELSE a.id = <<"uuid", Len(asks) + 1>>,
           UNCHANGED <<pending, approved, ran>>
    PROVE  Inv'
<1>1. /\ Len(asks) \in Nat
      /\ Len(asks') = Len(asks) + 1
      /\ \A i \in 1..Len(asks) : asks'[i] = asks[i]
      /\ asks'[Len(asks) + 1] = a
  BY AppendProperties, AsksFacts DEF Inv, TypeOK
<1>2. OwnIds'
  BY <1>1 DEF Inv, OwnIds
<1>3. Slots'
  BY <1>1 DEF Inv, Slots, TypeOK
<1>4. Approvals'
  BY <1>1 DEF Inv, Approvals
<1>5. Answered'
  BY <1>1 DEF Inv, Answered, Shared
<1> QED
  BY <1>2, <1>3, <1>4, <1>5 DEF Inv

\* A step that changes asks in place keeps whose ids are whose.
LEMMA SameIds ==
    ASSUME Inv, Len(asks') = Len(asks),
           \A j \in 1..Len(asks) : asks'[j].id = asks[j].id /\ asks'[j].tool = asks[j].tool
    PROVE  OwnIds' /\ \A k \in 1..Len(asks) : Shared(k)' <=> Shared(k)
<1>1. OwnIds'
  BY DEF Inv, OwnIds
<1>2. \A k \in 1..Len(asks) : Shared(k)' <=> Shared(k)
  BY DEF Shared
<1> QED
  BY <1>1, <1>2

\* One ask becomes a, which approves nothing, and its slot is kept, freed or taken:
\* it is there only if a can be answered, and if a waits it is there or was taken over.
LEMMA ChangeInv ==
    ASSUME Inv, NEW k \in 1..Len(asks), NEW a \in AskType,
           a.id = asks[k].id, a.tool = asks[k].tool, a.answerOf \in {0, asks[k].answerOf},
           a.outcome \in {asks[k].outcome, "none", "failed"},
           asks' = [asks EXCEPT ![k] = a], a.pc # "rpc",
           \/ pending' = pending
           \/ pending' = Unpark(asks[k].id)
           \/ pending' = Unpark(asks[k].id) \cup {<<asks[k].id, k>>},
           <<asks[k].id, k>> \in pending' =>
               a.pc \in {"fan", "wait", "expired", "dropped"} /\ a.outcome = "none",
           a.pc \in {"fan", "wait"} /\ a.outcome = "none" =>
               <<asks[k].id, k>> \in pending' \/ Shared(k),
           approved' = approved, ran' \subseteq approved
    PROVE  /\ asks' \in Seq(AskType) /\ Len(asks') = Len(asks)
           /\ pending' \subseteq RequestIds \X (1..Len(asks))
           /\ OwnIds' /\ Slots' /\ Approvals' /\ Answered'
<1>1. TypeOK /\ Len(asks) \in Nat /\ asks[k].id \in RequestIds
  BY AsksFacts DEF Inv, AskType
<1>2. /\ asks' \in Seq(AskType) /\ Len(asks') = Len(asks)
      /\ \A j \in 1..Len(asks) : asks'[j] = IF j = k THEN a ELSE asks[j]
  BY <1>1, ExceptSeq DEF TypeOK
<1>3. OwnIds' /\ \A j \in 1..Len(asks) : Shared(j)' <=> Shared(j)
  BY <1>2, SameIds
<1>4. pending' \subseteq RequestIds \X (1..Len(asks))
  BY <1>1 DEF TypeOK, Unpark
<1>5. \A p \in pending' : p = <<p[1], p[2]>> /\ p[2] \in 1..Len(asks)
  BY <1>4
<1>6. \A p \in pending' : p \in pending \/ p = <<asks[k].id, k>>
  BY DEF Unpark
<1>7. Slots'
  <2> SUFFICES ASSUME NEW p \in pending'
               PROVE  /\ asks'[p[2]].id = p[1]
                      /\ asks'[p[2]].pc \in {"fan", "wait", "expired", "dropped"}
                      /\ asks'[p[2]].outcome = "none"
    BY DEF Slots
  <2>1. CASE p[2] = k
    <3>1. p = <<asks[k].id, k>>
      BY <1>5, <1>6, <2>1 DEF Inv, Slots
    <3> QED
      BY <1>2, <2>1, <3>1
  <2>2. CASE p[2] # k
    BY <1>2, <1>5, <1>6, <2>2 DEF Inv, Slots
  <2> QED
    BY <2>1, <2>2
<1>8. Approvals'
  BY <1>2 DEF Inv, Approvals
<1>9. Answered'
  <2> SUFFICES ASSUME NEW j \in 1..Len(asks)
               PROVE  /\ asks'[j].pc = "rpc" => asks'[j].outcome = "none"
                      /\ asks'[j].answerOf \in {0, j} \/ Shared(j)
                      /\ asks'[j].pc \in {"fan", "wait"} /\ asks'[j].outcome = "none"
                            => <<asks'[j].id, j>> \in pending' \/ Shared(j)
    BY <1>2, <1>3 DEF Answered
  <2>1. CASE j = k
    BY <1>2, <2>1 DEF Inv, Answered
  <2>2. CASE j # k
    <3>1. asks'[j] = asks[j]
      BY <1>2, <2>2
    <3>2. <<asks[j].id, j>> \in pending => <<asks[j].id, j>> \in pending' \/ Shared(j)
      BY <2>2 DEF Unpark, Shared
    <3> QED
      BY <3>1, <3>2 DEF Inv, Answered
  <2> QED
    BY <2>1, <2>2
<1> QED
  BY <1>2, <1>3, <1>4, <1>7, <1>8, <1>9

----------------------------------------------------------------------------
(* The loops of a turn *)

\* Steps of a loop that ask nobody.
LEMMA LoopInv ==
    ASSUME Inv, NEW t \in Turns,
           \/ StartTurn(t) \/ CancelTurn(t) \/ ModelEnds(t) \/ LoopCancelled(t) \/ RunEnds(t)
           \/ \E n \in 1..MaxCalls : ToolUse(t, n)
           \/ \E tool \in Tools : LocalResult(t, tool)
    PROVE  Inv'
<1> DEFINE L == LoopType(Len(asks))
<1>1. TypeOK /\ Len(asks) \in Nat
  BY AsksFacts DEF Inv
<1>2. UNCHANGED <<asks, pending, streamVars, approved, ran, restarts>>
  BY DEF StartTurn, CancelTurn, ModelEnds, LoopCancelled, RunEnds, ToolUse, LocalResult, OnlyTurn,
         OnlyLoop
<1>3. ASSUME stack' \in [Turns -> Seq(L)], ended' \subseteq Turns, cancelled' \subseteq Turns
      PROVE  Inv'
  BY <1>1, <1>2, <1>3, QuietInv DEF TypeOK, streamVars
<1>4. CASE StartTurn(t)
  <2>1. Loop \in L
    BY DEF Loop, LoopType, LoopRecord
  <2>2. <<Loop>> \in Seq(L)
    BY <2>1
  <2> QED
    BY <1>1, <1>3, <1>4, <2>2 DEF StartTurn, TypeOK
<1>5. CASE CancelTurn(t)
  BY <1>1, <1>3, <1>5 DEF CancelTurn, TypeOK
<1>6. CASE ModelEnds(t) \/ LoopCancelled(t)
  BY <1>1, <1>3, <1>6, ReturnType DEF ModelEnds, LoopCancelled, At
<1>7. CASE RunEnds(t)
  <2>1. stack[t] # <<>> /\ Top(t) \in L
    BY <1>1, <1>7, TopFacts DEF RunEnds, At
  <2>2. AfterResult(Top(t)) \in L /\ [Top(t) EXCEPT !.pc = "cancelled"] \in L
    BY <2>1, AfterResultType DEF LoopType, LoopRecord
  <2>3. stack' \in [Turns -> Seq(L)]
    BY <1>1, <1>7, <2>1, <2>2, SetTopType DEF RunEnds, SetTop, Goto
  <2> QED
    BY <1>1, <1>3, <1>7, <2>3 DEF RunEnds, OnlyLoop, TypeOK
<1>8. ASSUME NEW n \in 1..MaxCalls, ToolUse(t, n) PROVE Inv'
  <2>1. stack[t] # <<>> /\ Top(t) \in L
    BY <1>1, <1>8, TopFacts DEF ToolUse, At
  <2>2. CASE Return(t, "result")
    BY <1>1, <1>3, <2>1, <2>2, ReturnType
  <2>3. CASE /\ SetTop(t, [Top(t) EXCEPT !.pc = "calls", !.round = @ + 1, !.left = n])
             /\ UNCHANGED <<ended, cancelled>>
    <3>1. [Top(t) EXCEPT !.pc = "calls", !.round = @ + 1, !.left = n] \in L
      <4> DEFINE f == [Top(t) EXCEPT !.pc = "calls", !.round = @ + 1, !.left = n]
      <4>1. Top(t) \in LoopRecord
        BY <2>1 DEF LoopType
      <4>2. Top(t).round + 1 \in Nat /\ n \in Int
        BY <4>1 DEF LoopRecord
      <4>3. f \in LoopRecord /\ f.pc = "calls"
        BY <4>1, <4>2, ZenonT(30) DEF LoopRecord
      <4> QED
        BY <4>3 DEF LoopType
    <3>2. stack' \in [Turns -> Seq(L)]
      BY <1>1, <2>1, <2>3, <3>1, SetTopType DEF SetTop
    <3> QED
      BY <1>1, <1>3, <2>3, <3>2 DEF TypeOK
  <2> QED
    BY <1>8, <2>2, <2>3 DEF ToolUse
<1>9. ASSUME NEW tool \in Tools, LocalResult(t, tool) PROVE Inv'
  <2>1. stack[t] # <<>> /\ Top(t) \in L
    BY <1>1, <1>9, TopFacts DEF LocalResult, At
  <2>2. stack' \in [Turns -> Seq(L)]
    BY <1>1, <1>9, <2>1, AfterResultType, SetTopType DEF LocalResult, SetTop
  <2> QED
    BY <1>1, <1>3, <1>9, <2>2 DEF LocalResult, OnlyLoop, TypeOK
<1> QED
  BY <1>4, <1>5, <1>6, <1>7, <1>8, <1>9

\* A loop starts to wait for an ask: what was typed before still is.
LEMMA AskType1 ==
    ASSUME Inv, NEW t \in Turns, stack[t] # <<>>, NEW a \in AskType, asks' = Append(asks, a),
           SetTop(t, [Top(t) EXCEPT !.pc = "wait", !.ask = Len(asks) + 1]),
           UNCHANGED <<ended, cancelled, pending, streamVars, approved, ran, restarts>>
    PROVE  TypeOK'
<1>1. /\ Len(asks) \in Nat /\ asks' \in Seq(AskType) /\ Len(asks') = Len(asks) + 1
  BY AppendProperties, AsksFacts DEF Inv, TypeOK
<1>2. [Top(t) EXCEPT !.pc = "wait", !.ask = Len(asks) + 1] \in LoopType(Len(asks) + 1)
  <2> DEFINE f == [Top(t) EXCEPT !.pc = "wait", !.ask = Len(asks) + 1]
  <2>1. Top(t) \in LoopRecord
    BY TopFacts DEF Inv, LoopType
  <2>2. f \in LoopRecord /\ f.ask = Len(asks) + 1
    <3>1. Len(asks) + 1 \in Nat
      BY <1>1
    <3> QED
      BY <2>1, <3>1, ZenonT(30) DEF LoopRecord
  <2> HIDE DEF f
  <2>3. f.ask \in 1..(Len(asks) + 1)
    BY <1>1, <2>2
  <2>4. f \in LoopType(Len(asks) + 1)
    BY <2>2, <2>3 DEF LoopType
  <2> QED
    BY <2>4 DEF f
<1>3. stack' \in [Turns -> Seq(LoopType(Len(asks')))]
  BY <1>1, <1>2, SetTopType DEF Inv, SetTop
<1>4. chan' \in [Streams -> Seq(0..Len(asks'))]
  <2>1. 0..Len(asks) \subseteq 0..Len(asks')
    BY <1>1
  <2>2. \A s \in Streams : chan[s] \in Seq(0..Len(asks'))
    BY <2>1, SeqMonotonic DEF Inv, TypeOK
  <2> QED
    BY <2>2 DEF Inv, TypeOK, streamVars
<1> QED
  BY <1>1, <1>3, <1>4 DEF Inv, TypeOK, streamVars

\* tool_approval::ask and the client tools.
LEMMA AskInv ==
    ASSUME Inv, NEW t \in Turns,
           \/ \E tool \in Tools : AskApproval(t, tool)
           \/ \E id \in CallIds : AskClient(t, id)
    PROVE  Inv'
<1>1. Len(asks) \in Nat
  BY AsksFacts DEF Inv
<1>2. ASSUME NEW tool \in Tools, AskApproval(t, tool) PROVE Inv'
  <2> DEFINE a == NewAsk(t, tool, <<"uuid", Len(asks) + 1>>, "RequestToolApproval")
  <2>1. a \in AskType
    BY <1>1, <1>2 DEF NewAsk, AskType, RequestIds, Methods, AskApproval
  <2>2. a.pc = "rpc" /\ a.outcome = "none" /\ a.answerOf = 0 /\ a.tool = tool
        /\ a.id = <<"uuid", Len(asks) + 1>>
    BY DEF NewAsk
  <2> HIDE DEF a
  <2>3. asks' = Append(asks, a) /\ tool # "input" /\ stack[t] # <<>>
    BY <1>2 DEF AskApproval, At, a
  <2>4. TypeOK'
    BY <1>2, <2>1, <2>3, AskType1 DEF AskApproval
  <2> QED
    BY <1>2, <2>1, <2>2, <2>3, <2>4, NewAskInv DEF AskApproval
<1>3. ASSUME NEW id \in CallIds, AskClient(t, id) PROVE Inv'
  <2> DEFINE a == NewAsk(t, "input", <<"call", id>>, "RequestUserInput")
  <2>1. a \in AskType
    BY <1>3 DEF NewAsk, AskType, RequestIds, Methods
  <2>2. a.pc = "rpc" /\ a.outcome = "none" /\ a.answerOf = 0 /\ a.tool = "input"
        /\ a.id[1] = "call"
    BY DEF NewAsk
  <2> HIDE DEF a
  <2>3. asks' = Append(asks, a) /\ stack[t] # <<>>
    BY <1>3 DEF AskClient, At, a
  <2>4. TypeOK'
    BY <1>3, <2>1, <2>3, AskType1 DEF AskClient
  <2> QED
    BY <1>3, <2>1, <2>2, <2>3, <2>4, NewAskInv DEF AskClient
<1> QED
  BY <1>2, <1>3

\* The caller of an ask is done with it: an ask that is dropped may leave its slot
\* behind, one that is closed had none.
LEMMA CloseInv ==
    ASSUME Inv, NEW t \in Turns, At(t, "wait"), NEW pc \in {"dropped", "closed"},
           asks' = Close(Top(t).ask, pc), pc = "closed" => asks[Top(t).ask].pc = "done",
           stack' \in [Turns -> Seq(LoopType(Len(asks)))],
           ran' \subseteq approved,
           UNCHANGED <<ended, cancelled, pending, streamVars, approved, restarts>>
    PROVE  Inv'
<1> DEFINE k == Top(t).ask
           a == [asks[k] EXCEPT !.pc = pc, !.outcome = "none", !.answerOf = 0]
<1>1. TypeOK /\ k \in 1..Len(asks) /\ asks[k] \in AskType
  BY TopFacts, AsksFacts DEF Inv, At, LoopType
<1>2. /\ a \in AskType /\ a.id = asks[k].id /\ a.tool = asks[k].tool /\ a.answerOf = 0
      /\ a.outcome = "none" /\ a.pc = pc
  BY <1>1 DEF AskType
<1>3. asks' = [asks EXCEPT ![k] = a]
  BY DEF Close
<1>4. <<asks[k].id, k>> \in pending => asks[k].pc # "done"
  BY DEF Inv, Slots
<1> HIDE DEF a, k
<1>5. /\ asks' \in Seq(AskType) /\ Len(asks') = Len(asks)
      /\ pending' \subseteq RequestIds \X (1..Len(asks))
      /\ OwnIds' /\ Slots' /\ Approvals' /\ Answered'
  <2>1. pending' = pending /\ approved' = approved
    OBVIOUS
  <2>2. <<asks[k].id, k>> \in pending' => a.pc \in {"fan", "wait", "expired", "dropped"}
    BY <1>2, <1>4, <2>1 DEF k
  <2>3. a.pc \notin {"fan", "wait", "rpc"}
    BY <1>2
  <2> QED
    BY <1>1, <1>2, <1>3, <2>1, <2>2, <2>3, ChangeInv
<1>6. TypeOK'
  BY <1>1, <1>5 DEF TypeOK, streamVars
<1> QED
  BY <1>5, <1>6 DEF Inv

\* What the loop does when its wait is over.
LEMMA AskEndsInv ==
    ASSUME Inv, NEW t \in Turns, AbandonAsk(t) \/ AskReturns(t) \/ DispatchFails(t)
    PROVE  Inv'
<1> DEFINE L == LoopType(Len(asks))
           k == Top(t).ask
<1>1. /\ TypeOK /\ Len(asks) \in Nat /\ stack[t] # <<>> /\ Top(t) \in L
      /\ stack[t] \in Seq(L) /\ Len(stack[t]) \in Nat \ {0}
  BY AsksFacts, TopFacts DEF Inv, AbandonAsk, AskReturns, DispatchFails, At
<1>2. ASSUME NEW p \in {"cancelled", "run", "sub"} PROVE [Top(t) EXCEPT !.pc = p] \in L
  BY <1>1 DEF LoopType, LoopRecord
<1>3. ASSUME NEW p \in {"cancelled", "run"}, Goto(t, p) PROVE stack' \in [Turns -> Seq(L)]
  BY <1>1, <1>2, <1>3, SetTopType DEF Goto, SetTop
<1>4. ASSUME SetTop(t, AfterResult(Top(t))) PROVE stack' \in [Turns -> Seq(L)]
  BY <1>1, <1>4, AfterResultType, SetTopType DEF SetTop
<1>5. ASSUME stack' = [stack EXCEPT ![t] = Append([@ EXCEPT ![Len(@)].pc = "sub"], Loop)]
      PROVE  stack' \in [Turns -> Seq(L)]
  <2>1. Loop \in L
    BY DEF Loop, LoopType, LoopRecord
  <2>2. [stack[t] EXCEPT ![Len(stack[t])] = [Top(t) EXCEPT !.pc = "sub"]] \in Seq(L)
    BY <1>1, <1>2, ExceptSeq
  <2>3. [stack[t] EXCEPT ![Len(stack[t])].pc = "sub"]
          = [stack[t] EXCEPT ![Len(stack[t])] = [Top(t) EXCEPT !.pc = "sub"]]
    BY DEF Top, Last
  <2>4. Append([stack[t] EXCEPT ![Len(stack[t])].pc = "sub"], Loop) \in Seq(L)
    BY <2>1, <2>2, <2>3, AppendProperties
  <2> QED
    BY <1>1, <1>5, <2>4 DEF TypeOK
<1>6. CASE AbandonAsk(t)
  <2>1. stack' \in [Turns -> Seq(L)]
    BY <1>3, <1>6 DEF AbandonAsk
  <2>2. CASE asks' = asks
    <3>1. TypeOK'
      BY <1>1, <1>6, <2>1, <2>2 DEF AbandonAsk, TypeOK, streamVars
    <3> QED
      BY <1>6, <2>2, <3>1, QuietInv DEF AbandonAsk
  <2>3. CASE At(t, "wait") /\ asks' = Close(k, "dropped")
    BY <1>6, <2>1, <2>3, CloseInv DEF AbandonAsk, Inv, Approvals
  <2> QED
    BY <1>6, <2>2, <2>3 DEF AbandonAsk
<1>7. CASE AskReturns(t)
  <2>1. stack' \in [Turns -> Seq(L)]
    BY <1>3, <1>4, <1>5, <1>7 DEF AskReturns
  <2>2. ran' \subseteq approved
    <3>1. k \in 1..Len(asks)
      BY <1>1, <1>7 DEF AskReturns, At, LoopType
    <3> QED
      BY <1>7, <3>1 DEF AskReturns, IsApproval, Inv, Approvals
  <2> QED
    BY <1>7, <2>1, <2>2, CloseInv DEF AskReturns
<1>8. CASE DispatchFails(t)
  BY <1>4, <1>8, CloseInv DEF DispatchFails, Inv, Approvals
<1> QED
  BY <1>6, <1>7, <1>8

----------------------------------------------------------------------------
(* The relay and the clients *)

\* A step of the relay on one ask: the type is kept with the rest.
LEMMA RelayChange ==
    ASSUME Inv, NEW k \in 1..Len(asks), NEW a \in AskType,
           a.id = asks[k].id, a.tool = asks[k].tool, a.answerOf = asks[k].answerOf,
           a.outcome \in {asks[k].outcome, "failed"},
           asks' = [asks EXCEPT ![k] = a], a.pc # "rpc",
           \/ pending' = pending
           \/ pending' = Unpark(asks[k].id)
           \/ pending' = Unpark(asks[k].id) \cup {<<asks[k].id, k>>},
           <<asks[k].id, k>> \in pending' =>
               a.pc \in {"fan", "wait", "expired", "dropped"} /\ a.outcome = "none",
           a.pc \in {"fan", "wait"} /\ a.outcome = "none" =>
               <<asks[k].id, k>> \in pending' \/ Shared(k),
           chan' \in [Streams -> Seq(0..Len(asks))],
           UNCHANGED <<turnVars, stream, methods, prompts, approved, ran, restarts>>
    PROVE  Inv'
<1>1. ran' \subseteq approved /\ approved' = approved
  BY DEF Inv, Approvals
<1>2. a.answerOf \in {0, asks[k].answerOf} /\ a.outcome \in {asks[k].outcome, "none", "failed"}
  OBVIOUS
<1>3. /\ asks' \in Seq(AskType) /\ Len(asks') = Len(asks)
      /\ pending' \subseteq RequestIds \X (1..Len(asks))
      /\ OwnIds' /\ Slots' /\ Approvals' /\ Answered'
  BY <1>1, <1>2, ChangeInv
<1>4. TypeOK'
  BY <1>3 DEF Inv, TypeOK, turnVars
<1> QED
  BY <1>3, <1>4 DEF Inv

\* A request that fails leaves no slot under its id.
LEMMA FailedInv ==
    ASSUME Inv, NEW k \in 1..Len(asks),
           asks' = [asks EXCEPT ![k] = [asks[k] EXCEPT !.pc = "done", !.outcome = "failed"]],
           pending' = pending \/ pending' = Unpark(asks[k].id),
           <<asks[k].id, k>> \notin pending',
           UNCHANGED <<turnVars, streamVars, approved, ran, restarts>>
    PROVE  Inv'
<1> DEFINE a == [asks[k] EXCEPT !.pc = "done", !.outcome = "failed"]
<1>1. asks[k] \in AskType
  BY AsksFacts DEF Inv
<1>2. /\ a \in AskType /\ a.id = asks[k].id /\ a.tool = asks[k].tool
      /\ a.answerOf = asks[k].answerOf /\ a.outcome = "failed" /\ a.pc = "done"
  BY <1>1 DEF AskType
<1>3. asks' = [asks EXCEPT ![k] = a]
  OBVIOUS
<1> HIDE DEF a
<1>4. chan' \in [Streams -> Seq(0..Len(asks))]
  BY DEF Inv, TypeOK, streamVars
<1>5. UNCHANGED <<turnVars, stream, methods, prompts, approved, ran, restarts>>
  BY DEF streamVars
<1> QED
  BY <1>2, <1>3, <1>4, <1>5, RelayChange

\* send_server_request_and_await up to the sends.
LEMMA ParkInv ==
    ASSUME Inv, NEW k \in 1..Len(asks), ParkRequest(k)
    PROVE  Inv'
<1>1. asks[k] \in AskType
  BY AsksFacts DEF Inv
<1>2. <<asks[k].id, k>> \notin pending
  BY DEF ParkRequest, Inv, Slots
<1>3. CASE Supporting(asks[k].method) = {}
  <2>1. asks' = [asks EXCEPT ![k] = [asks[k] EXCEPT !.pc = "done", !.outcome = "failed"]]
    BY <1>3 DEF ParkRequest
  <2> QED
    BY <1>2, <1>3, <2>1, FailedInv DEF ParkRequest
<1>4. CASE Supporting(asks[k].method) # {}
  <2> DEFINE a == [asks[k] EXCEPT !.pc = "fan", !.todo = Registered]
  <2>1. /\ a \in AskType /\ a.id = asks[k].id /\ a.tool = asks[k].tool
        /\ a.answerOf = asks[k].answerOf /\ a.outcome = asks[k].outcome /\ a.pc = "fan"
    BY <1>1 DEF AskType, Registered
  <2>2. asks' = [asks EXCEPT ![k] = a]
    BY <1>4 DEF ParkRequest
  <2>3. pending' = Unpark(asks[k].id) \cup {<<asks[k].id, k>>}
    BY <1>4 DEF ParkRequest
  <2>4. asks[k].outcome = "none"
    BY DEF ParkRequest, Inv, Answered
  <2>5. chan' \in [Streams -> Seq(0..Len(asks))]
    BY DEF ParkRequest, Inv, TypeOK, streamVars
  <2>6. UNCHANGED <<turnVars, stream, methods, prompts, approved, ran, restarts>>
    BY DEF ParkRequest, streamVars
  <2>7. <<asks[k].id, k>> \in pending'
    BY <2>3
  <2> HIDE DEF a
  <2> QED
    BY <2>1, <2>2, <2>3, <2>4, <2>5, <2>6, <2>7, RelayChange
<1> QED
  BY <1>3, <1>4

\* The request has gone to a stream, or could not.
LEMMA SendInv ==
    ASSUME Inv, NEW k \in 1..Len(asks), NEW s \in Streams, SendRequest(k, s)
    PROVE  Inv'
<1>1. asks[k] \in AskType /\ asks[k].pc = "fan" /\ Len(asks) \in Nat
  BY AsksFacts DEF Inv, SendRequest
<1>2. chan' \in [Streams -> Seq(0..Len(asks))]
  <2>1. k \in 0..Len(asks)
    BY <1>1
  <2>2. Append(chan[s], k) \in Seq(0..Len(asks))
    BY <2>1, AppendProperties DEF Inv, TypeOK
  <2> QED
    BY <2>2 DEF SendRequest, Inv, TypeOK
<1>3. UNCHANGED <<turnVars, stream, methods, prompts, approved, ran, restarts>>
  BY DEF SendRequest
<1>4. ASSUME NEW ok \in BOOLEAN, Sent(k, s, ok) PROVE Inv'
  <2> DEFINE a == [asks[k] EXCEPT !.todo = @ \ {s}, !.sent = @ \/ ok]
             b == [a EXCEPT !.pc = "wait"]
             c == [a EXCEPT !.pc = "done", !.outcome = "failed"]
  <2>1. /\ a \in AskType /\ a.id = asks[k].id /\ a.tool = asks[k].tool
        /\ a.answerOf = asks[k].answerOf /\ a.outcome = asks[k].outcome /\ a.pc = "fan"
    <3>1. (asks[k].sent \/ ok) \in BOOLEAN /\ asks[k].todo \ {s} \in SUBSET Streams
      BY <1>1 DEF AskType
    <3> QED
      BY <1>1, <3>1, ZenonT(30) DEF AskType
  <2> HIDE DEF a
  <2>2. /\ b \in AskType /\ b.id = asks[k].id /\ b.tool = asks[k].tool
        /\ b.answerOf = asks[k].answerOf /\ b.outcome = asks[k].outcome /\ b.pc = "wait"
    BY <2>1 DEF AskType
  <2>3. /\ c \in AskType /\ c.id = asks[k].id /\ c.tool = asks[k].tool
        /\ c.answerOf = asks[k].answerOf /\ c.outcome = "failed" /\ c.pc = "done"
    BY <2>1 DEF AskType
  <2> HIDE DEF b, c
  <2>4. \/ asks' = [asks EXCEPT ![k] = a] /\ pending' = pending
        \/ asks' = [asks EXCEPT ![k] = b] /\ pending' = pending
        \/ asks' = [asks EXCEPT ![k] = c] /\ pending' = Unpark(asks[k].id)
    <3> DEFINE after == CASE a.todo # {} -> a
                          [] a.todo = {} /\ a.sent -> b
                          [] OTHER -> c
    <3>1. /\ asks' = [asks EXCEPT ![k] = after]
          /\ pending' = IF after.pc = "done" THEN Unpark(a.id) ELSE pending
      BY <1>4, Zenon DEF Sent, a, b, c
    <3>2. after = a \/ after = b \/ after = c
      OBVIOUS
    <3> HIDE DEF after
    <3> QED
      BY <3>1, <3>2, <2>1, <2>2, <2>3
  <2>5. asks[k].outcome = "none" => <<asks[k].id, k>> \in pending \/ Shared(k)
    BY <1>1 DEF Inv, Answered
  <2>6. <<asks[k].id, k>> \in pending => asks[k].outcome = "none"
    BY DEF Inv, Slots
  <2>7. CASE asks' = [asks EXCEPT ![k] = a] /\ pending' = pending
    BY <1>2, <1>3, <2>1, <2>5, <2>6, <2>7, RelayChange
  <2>8. CASE asks' = [asks EXCEPT ![k] = b] /\ pending' = pending
    BY <1>2, <1>3, <2>2, <2>5, <2>6, <2>8, RelayChange
  <2>9. CASE asks' = [asks EXCEPT ![k] = c] /\ pending' = Unpark(asks[k].id)
    <3>1. <<asks[k].id, k>> \notin pending'
      BY <2>9 DEF Unpark
    <3> QED
      BY <1>2, <1>3, <2>3, <2>9, <3>1, RelayChange
  <2> QED
    BY <2>4, <2>7, <2>8, <2>9
<1> QED
  BY <1>4 DEF SendRequest

\* The answer or the loss of a slot is seen, or the timer fires.
LEMMA WaitEndsInv ==
    ASSUME Inv, NEW k \in 1..Len(asks), Resolved(k) \/ Expire(k) \/ Reap(k)
    PROVE  Inv'
<1>1. asks[k] \in AskType
  BY AsksFacts DEF Inv
<1>2. chan' \in [Streams -> Seq(0..Len(asks))]
  BY DEF Resolved, Expire, Reap, Inv, TypeOK, streamVars
<1>3. UNCHANGED <<turnVars, stream, methods, prompts, approved, ran, restarts>>
  BY DEF Resolved, Expire, Reap, streamVars
<1>4. ASSUME NEW p \in {"done", "expired"}, asks' = [asks EXCEPT ![k].pc = p],
             p = "done" => asks[k].outcome # "none", pending' = pending
      PROVE  Inv'
  <2> DEFINE a == [asks[k] EXCEPT !.pc = p]
  <2>1. /\ a \in AskType /\ a.id = asks[k].id /\ a.tool = asks[k].tool
        /\ a.answerOf = asks[k].answerOf /\ a.outcome = asks[k].outcome /\ a.pc = p
    BY <1>1 DEF AskType
  <2>2. asks' = [asks EXCEPT ![k] = a]
    BY <1>4
  <2>3. <<asks[k].id, k>> \in pending => asks[k].outcome = "none"
    BY DEF Inv, Slots
  <2> HIDE DEF a
  <2> QED
    BY <1>2, <1>3, <1>4, <2>1, <2>2, <2>3, RelayChange
<1>5. CASE Resolved(k) /\ asks[k].outcome # "none"
  BY <1>4, <1>5 DEF Resolved
<1>6. CASE Resolved(k) /\ asks[k].outcome = "none"
  <2>1. asks' = [asks EXCEPT ![k] = [asks[k] EXCEPT !.pc = "done", !.outcome = "failed"]]
    BY <1>6 DEF Resolved
  <2> QED
    BY <1>6, <2>1, FailedInv DEF Resolved
<1>7. CASE Expire(k)
  BY <1>4, <1>7 DEF Expire
<1>8. CASE Reap(k)
  <2>1. asks' = [asks EXCEPT ![k] = [asks[k] EXCEPT !.pc = "done", !.outcome = "failed"]]
    BY <1>8 DEF Reap
  <2> QED
    BY <1>8, <2>1, FailedInv DEF Reap, Unpark
<1> QED
  BY <1>5, <1>6, <1>7, <1>8

\* The steps that only the channel streams and their clients see.
LEMMA StreamInv ==
    ASSUME Inv, NEW s \in Streams,
           MintStream(s) \/ UnregisterStream(s) \/ Advertise(s) \/ ReadFrame(s) \/ Leave(s)
    PROVE  Inv'
<1>1. TypeOK /\ Len(asks) \in Nat
  BY AsksFacts DEF Inv
<1>2. CASE MintStream(s)
  BY <1>1, <1>2, QuietInv DEF MintStream, TypeOK, turnVars
<1>3. CASE UnregisterStream(s)
  BY <1>1, <1>3, QuietInv DEF UnregisterStream, TypeOK, turnVars
<1>4. CASE Advertise(s)
  BY <1>1, <1>4, QuietInv, RendersAssumption DEF Advertise, TypeOK, turnVars, Methods
<1>5. CASE ReadFrame(s)
  <2>1. chan[s] \in Seq(0..Len(asks)) /\ chan[s] # <<>>
    BY <1>1, <1>5 DEF ReadFrame, TypeOK
  <2>2. Head(chan[s]) \in 0..Len(asks) /\ Tail(chan[s]) \in Seq(0..Len(asks))
    BY <2>1, HeadTailProperties
  <2>3. {Head(chan[s])} \ {0} \subseteq 1..Len(asks)
    BY <1>1, <2>2
  <2>4. /\ prompts' \in [Streams -> SUBSET (1..Len(asks))]
        /\ chan' \in [Streams -> Seq(0..Len(asks))]
    BY <1>1, <1>5, <2>2, <2>3 DEF ReadFrame, TypeOK
  <2> QED
    BY <1>1, <1>5, <2>4, QuietInv DEF ReadFrame, TypeOK, turnVars
<1>6. CASE Leave(s)
  <2>1. <<>> \in Seq(0..Len(asks))
    BY EmptySeq
  <2> QED
    BY <1>1, <1>6, <2>1, QuietInv DEF Leave, TypeOK, turnVars
<1> QED
  BY <1>2, <1>3, <1>4, <1>5, <1>6

\* send_server_notification: a frame that nobody answers.
LEMMA NotifyInv ==
    ASSUME Inv, NEW t \in Turns, Notify(t)
    PROVE  Inv'
<1>1. TypeOK /\ Len(asks) \in Nat /\ stack[t] # <<>>
  BY AsksFacts DEF Inv, Notify, At
<1>2. stack' \in [Turns -> Seq(LoopType(Len(asks)))]
  BY <1>1, TopFacts, AfterResultType, SetTopType DEF Notify, SetTop
<1>3. \A s \in Streams : Append(chan[s], 0) \in Seq(0..Len(asks))
  BY <1>1, AppendProperties DEF TypeOK
<1>4. chan' \in [Streams -> Seq(0..Len(asks))]
  BY <1>1, <1>3 DEF Notify, TypeOK
<1> QED
  BY <1>1, <1>2, <1>4, QuietInv DEF Notify, TypeOK

\* A client answers a prompt.  The answer reaches the ask whose slot is under the
\* prompt's id: its own, unless the id is shared.
LEMMA AnswerInv ==
    ASSUME Inv, NEW s \in Streams, NEW k \in prompts[s], NEW v \in Answers(asks[k].method),
           Answer(s, k, v)
    PROVE  Inv'
<1> DEFINE N == Len(asks)
           hit(j) == (\E p \in SlotFor(k) : p[2] = j) /\ asks[j].pc \in {"fan", "wait"}
           b(j) == [asks[j] EXCEPT !.outcome = v, !.answerOf = k]
<1>1. /\ TypeOK /\ N \in Nat /\ DOMAIN asks = 1..N /\ k \in 1..N
      /\ v \in {"approve", "other"}
      /\ \A j \in 1..N : asks[j] \in AskType
  BY AsksFacts DEF Inv, TypeOK, Answers
<1>2. \A j \in 1..N : /\ b(j) \in AskType /\ b(j).id = asks[j].id /\ b(j).tool = asks[j].tool
                      /\ b(j).outcome = v /\ b(j).answerOf = k /\ b(j).pc = asks[j].pc
  <2> TAKE j \in 1..N
  <2>1. k \in Nat /\ v \in {"none", "approve", "other", "failed"} /\ asks[j] \in AskType
    BY <1>1
  <2> QED
    BY <2>1, ZenonT(30) DEF AskType
<1>3. asks' = [j \in 1..N |-> IF hit(j) THEN b(j) ELSE asks[j]]
  BY <1>1 DEF Answer
<1>4. \A j \in 1..N : hit(j) => /\ <<asks[j].id, j>> \in pending
                                /\ asks[j].id = asks[k].id
                                /\ j # k => Shared(j)
  <2> SUFFICES ASSUME NEW j \in 1..N, NEW p \in SlotFor(k), p[2] = j
               PROVE  /\ <<asks[j].id, j>> \in pending
                      /\ asks[j].id = asks[k].id
                      /\ j # k => Shared(j)
    OBVIOUS
  <2>1. p \in pending /\ p[1] = asks[k].id /\ p = <<p[1], p[2]>> /\ asks[j].id = p[1]
    BY <1>1 DEF SlotFor, TypeOK, Inv, Slots
  <2> QED
    BY <1>1, <2>1 DEF Shared
<1> HIDE DEF hit, b
<1>5. /\ asks' \in Seq(AskType) /\ Len(asks') = N
      /\ \A j \in 1..N : asks'[j] = IF hit(j) THEN b(j) ELSE asks[j]
  <2>1. asks' \in [1..N -> AskType]
    BY <1>1, <1>2, <1>3
  <2> QED
    BY <1>1, <1>3, <2>1, LenProperties
<1>6. \A j \in 1..N : /\ asks'[j].id = asks[j].id /\ asks'[j].tool = asks[j].tool
                      /\ asks'[j].pc = asks[j].pc
  BY <1>2, <1>5
<1>7. OwnIds' /\ \A j \in 1..N : Shared(j)' <=> Shared(j)
  BY <1>5, <1>6, SameIds
<1>8. pending' = pending \ SlotFor(k)
  BY DEF Answer
<1>9. Slots'
  <2> SUFFICES ASSUME NEW p \in pending'
               PROVE  /\ asks'[p[2]].id = p[1]
                      /\ asks'[p[2]].pc \in {"fan", "wait", "expired", "dropped"}
                      /\ asks'[p[2]].outcome = "none"
    BY DEF Slots
  <2>1. /\ p \in pending /\ p \notin SlotFor(k) /\ p[2] \in 1..N
        /\ asks[p[2]].id = p[1]
        /\ asks[p[2]].pc \in {"fan", "wait", "expired", "dropped"}
        /\ asks[p[2]].outcome = "none"
    BY <1>1, <1>8 DEF TypeOK, Inv, Slots
  <2>2. ~hit(p[2])
    BY <1>4, <2>1 DEF SlotFor
  <2> QED
    BY <1>5, <2>1, <2>2
<1>10. Approvals'
  <2>1. approved \subseteq approved' /\ ran' = ran /\ (v = "approve" => k \in approved')
    BY DEF Answer
  <2>2. \A j \in 1..N : asks[j].tool # "input" /\ hit(j) => j = k
    <3> SUFFICES ASSUME NEW j \in 1..N, asks[j].tool # "input", hit(j)
                 PROVE  j = k
      OBVIOUS
    <3>1. asks[j].id = <<"uuid", j>> /\ asks[k].id = <<"uuid", j>>
      BY <1>4 DEF Inv, OwnIds
    <3>2. asks[k].tool # "input"
      BY <1>1, <3>1 DEF Inv, OwnIds
    <3> QED
      BY <1>1, <3>1, <3>2 DEF Inv, OwnIds
  <2> QED
    BY <1>2, <1>5, <2>1, <2>2 DEF Inv, Approvals
<1>11. Answered'
  <2> SUFFICES ASSUME NEW j \in 1..N
               PROVE  /\ asks'[j].pc = "rpc" => asks'[j].outcome = "none"
                      /\ asks'[j].answerOf \in {0, j} \/ Shared(j)
                      /\ asks'[j].pc \in {"fan", "wait"} /\ asks'[j].outcome = "none"
                            => <<asks'[j].id, j>> \in pending' \/ Shared(j)
    BY <1>5, <1>7 DEF Answered
  <2>1. CASE hit(j)
    <3>1. asks'[j].pc # "rpc" /\ asks'[j].answerOf = k /\ asks'[j].outcome # "none"
      BY <1>1, <1>2, <1>5, <2>1 DEF hit
    <3> QED
      BY <1>4, <2>1, <3>1
  <2>2. CASE ~hit(j)
    <3>1. asks'[j] = asks[j]
      BY <1>5, <2>2
    <3>2. ASSUME asks[j].pc \in {"fan", "wait"}, <<asks[j].id, j>> \in pending
          PROVE  <<asks[j].id, j>> \in pending'
      BY <1>8, <2>2, <3>2 DEF hit, SlotFor
    <3> QED
      BY <3>1, <3>2 DEF Inv, Answered
  <2> QED
    BY <2>1, <2>2
<1>12. TypeOK'
  <2>1. pending' \subseteq RequestIds \X (1..N)
    BY <1>1, <1>8 DEF TypeOK
  <2>2. prompts' \in [Streams -> SUBSET (1..N)]
    BY <1>1 DEF Answer, TypeOK
  <2>3. approved' \subseteq Nat
    <3>1. k \in Nat /\ approved \subseteq Nat
      BY <1>1 DEF TypeOK
    <3> QED
      BY <3>1 DEF Answer
  <2> QED
    BY <1>1, <1>5, <2>1, <2>2, <2>3 DEF Answer, TypeOK, turnVars
<1> QED
  BY <1>7, <1>9, <1>10, <1>11, <1>12 DEF Inv

\* The relay restarts: every request it had fails, and no slot is left.
LEMMA RestartInv ==
    ASSUME Inv, RelayRestart
    PROVE  Inv'
<1> DEFINE N == Len(asks)
           over(j) == asks[j].pc \in {"done", "dropped", "closed"}
           b(j) == [asks[j] EXCEPT !.pc = "done", !.outcome = "failed"]
<1>1. /\ TypeOK /\ N \in Nat /\ DOMAIN asks = 1..N /\ \A j \in 1..N : asks[j] \in AskType
  BY AsksFacts DEF Inv
<1>2. \A j \in 1..N : /\ b(j) \in AskType /\ b(j).id = asks[j].id /\ b(j).tool = asks[j].tool
                      /\ b(j).outcome = "failed" /\ b(j).answerOf = asks[j].answerOf
                      /\ b(j).pc = "done"
  BY <1>1 DEF AskType
<1>3. asks' = [j \in 1..N |-> IF over(j) THEN asks[j] ELSE b(j)]
  BY <1>1 DEF RelayRestart
<1> HIDE DEF b
<1>4. /\ asks' \in Seq(AskType) /\ Len(asks') = N
      /\ \A j \in 1..N : asks'[j] = IF over(j) THEN asks[j] ELSE b(j)
  <2>1. asks' \in [1..N -> AskType]
    BY <1>1, <1>2, <1>3
  <2> QED
    BY <1>1, <1>3, <2>1, LenProperties
<1>5. OwnIds' /\ \A j \in 1..N : Shared(j)' <=> Shared(j)
  BY <1>2, <1>4, SameIds
<1>6. Slots'
  BY DEF RelayRestart, Slots
<1>7. Approvals'
  <2>1. UNCHANGED <<approved, ran>>
    BY Zenon DEF RelayRestart
  <2> QED
    BY <1>2, <1>4, <2>1 DEF Inv, Approvals
<1>8. Answered'
  <2>1. \A j \in 1..N : /\ asks'[j].pc \notin {"rpc", "fan", "wait"}
                         /\ asks'[j].answerOf = asks[j].answerOf
    BY <1>2, <1>4
  <2> QED
    BY <1>4, <1>5, <2>1 DEF Inv, Answered
<1>9. TypeOK'
  <2>1. <<>> \in Seq(0..N)
    BY EmptySeq
  <2>2. /\ stream' \in [Streams -> {"new", "open", "gone", "removed"}]
        /\ methods' \in [Streams -> SUBSET Methods]
        /\ chan' \in [Streams -> Seq(0..N)]
        /\ prompts' \in [Streams -> SUBSET (1..N)]
        /\ restarts' \in Nat /\ pending' = {}
    <3>1. /\ stream' = [s \in Streams |-> IF stream[s] = "new" THEN "new" ELSE "removed"]
          /\ chan' = [s \in Streams |-> <<>>]
          /\ prompts' = [s \in Streams |-> {}]
          /\ methods' = [s \in Streams |-> {}]
          /\ restarts' = restarts + 1 /\ pending' = {}
      BY Zenon DEF RelayRestart
    <3>2. restarts \in Nat
      BY <1>1 DEF TypeOK
    <3> QED
      BY <2>1, <3>1, <3>2
  <2>3. UNCHANGED <<stack, ended, cancelled, approved, ran>>
    BY DEF RelayRestart, turnVars
  <2> QED
    BY <1>1, <1>4, <2>2, <2>3 DEF TypeOK
<1> QED
  BY <1>5, <1>6, <1>7, <1>8, <1>9 DEF Inv

----------------------------------------------------------------------------
(* The theorems *)

\* No ask has been made.
LEMMA InitInv == Init => Inv
<1> SUFFICES ASSUME Init PROVE Inv
  OBVIOUS
<1>1. /\ \A S : <<>> \in Seq(S)
      /\ Len(asks) = 0
  BY EmptySeq DEF Init
<1>2. TypeOK
  BY <1>1 DEF Init, TypeOK
<1>3. OwnIds /\ Slots /\ Approvals /\ Answered
  BY <1>1 DEF Init, OwnIds, Slots, Approvals, Answered
<1> QED
  BY <1>2, <1>3 DEF Inv

\* Every step keeps the invariant.
LEMMA StepInv == Inv /\ [Next]_vars => Inv'
<1> SUFFICES ASSUME Inv, [Next]_vars PROVE Inv'
  OBVIOUS
<1>1. ASSUME NEW t \in Turns, StartTurn(t) \/ CancelTurn(t) \/ LoopStep(t) PROVE Inv'
  BY <1>1, LoopInv, AskInv, AskEndsInv, NotifyInv DEF LoopStep
<1>2. ASSUME NEW k \in DOMAIN asks, RelayStep(k) PROVE Inv'
  <2>1. k \in 1..Len(asks)
    BY AsksFacts DEF Inv
  <2> QED
    BY <1>2, <2>1, ParkInv, SendInv, WaitEndsInv DEF RelayStep
<1>3. CASE \E s \in Streams :
             \/ MintStream(s) \/ UnregisterStream(s) \/ Advertise(s) \/ ReadFrame(s) \/ Leave(s)
             \/ \E k \in prompts[s] : \E v \in Answers(asks[k].method) : Answer(s, k, v)
  BY <1>3, StreamInv, AnswerInv
<1>4. CASE RelayRestart
  BY <1>4, RestartInv
<1>5. CASE UNCHANGED vars
  <2>1. TypeOK'
    BY <1>5 DEF Inv, TypeOK, vars
  <2> QED
    BY <1>5, <2>1, QuietInv DEF vars
<1> QED
  BY <1>1, <1>2, <1>3, <1>4, <1>5 DEF Next

\* The invariant holds in every reachable state.
LEMMA Invariance == Spec => []Inv
BY InitInv, StepInv, PTL DEF Spec

\* The values of the variables, for every bound: the loops of a turn, the asks
\* they wait for, the slots of the relay and the frames of its streams.
THEOREM TypeCorrect == Spec => []TypeOK
<1>1. Inv => TypeOK
  BY DEF Inv
<1> QED
  BY <1>1, Invariance, PTL

\* A call that needs an approval runs only on the approval of that very request,
\* whatever is cancelled, lost, answered late or restarted (tool_approval.rs, call_tool).
THEOREM ApprovalGates == Spec => []RunsOnlyIfApproved
<1>1. Inv => RunsOnlyIfApproved
  BY DEF Inv, Approvals, RunsOnlyIfApproved
<1> QED
  BY <1>1, Invariance, PTL

\* No answer goes to another call, unless the model gave two calls one id
\* (deliver_client_response).
THEOREM AnswersFindTheirCall == Spec => []OwnAnswer
<1>1. Inv => OwnAnswer
  BY AsksFacts DEF Inv, Answered, Shared, OwnAnswer, Reused
<1> QED
  BY <1>1, Invariance, PTL

\* The relay's table holds no slot of a request that is over, and has the slot of
\* every request that waits (send_server_request_and_await).
THEOREM TableIsAccounted == Spec => []SlotsAccounted
<1>1. ASSUME Inv PROVE SlotsAccounted
  <2>1. \A k \in DOMAIN asks : Shared(k) => Reused(k)
    BY <1>1, AsksFacts DEF Inv, Shared, Reused
  <2> QED
    BY <1>1, <2>1, AsksFacts DEF Inv, Slots, Answered, SlotsAccounted
<1> QED
  BY <1>1, Invariance, PTL

----------------------------------------------------------------------------
(* Tui: bags of commands *)

\* A command is a record of these five fields.
IsCmd(c) ==
    c = [cmd |-> c.cmd, stage |-> c.stage, stream |-> c.stream, conv |-> c.conv, arg |-> c.arg]

IsCmds(B) == IsABag(B) /\ \A c \in DOMAIN B : IsCmd(c)

\* No command of the kinds ks is in bag B, or exactly one.
NoCmd(B, ks) == \A c \in DOMAIN B : c.cmd \notin ks
OneCmd(B, ks) ==
    \E c \in DOMAIN B : c.cmd \in ks /\ B[c] = 1 /\ \A d \in DOMAIN B : d.cmd \in ks => d = c

\* A command that ends leaves the others as they are.
LEMMA Ended ==
    ASSUME NEW B, IsCmds(B), NEW c \in DOMAIN B
    PROVE  LET M == B (-) SetToBag({c})
           IN  /\ IsCmds(M)
               /\ DOMAIN M \subseteq DOMAIN B
               /\ \A d \in DOMAIN B : d # c => d \in DOMAIN M /\ M[d] = B[d]
               /\ B[c] = 1 => c \notin DOMAIN M
<1> DEFINE M == B (-) SetToBag({c})
           S == SetToBag({c})
           D == [e \in DOMAIN B |-> IF e \in DOMAIN S THEN B[e] - S[e] ELSE B[e]]
<1>1. B \in [DOMAIN B -> {n \in Nat : n > 0}] /\ \A e \in DOMAIN B : IsCmd(e)
  BY DEF IsCmds, IsABag
<1>2. DOMAIN S = {c} /\ S[c] = 1
  BY DEF SetToBag
<1>3. M = [e \in {d \in DOMAIN D : D[d] > 0} |-> D[e]]
  BY Zenon DEF (-)
<1> HIDE DEF M, S
<1>4. /\ DOMAIN D = DOMAIN B
      /\ \A e \in DOMAIN B : D[e] = IF e = c THEN B[e] - 1 ELSE B[e]
  BY <1>2
<1> HIDE DEF D
<1>5. /\ DOMAIN M = {d \in DOMAIN B : D[d] > 0}
      /\ \A e \in DOMAIN M : M[e] = D[e]
  BY <1>3, <1>4
<1>6. \A e \in DOMAIN B : B[e] \in Nat /\ B[e] > 0
  BY <1>1
<1>7. \A e \in DOMAIN M : M[e] \in {n \in Nat : n > 0}
  BY <1>4, <1>5, <1>6
<1>8. M = [e \in DOMAIN M |-> M[e]]
  BY <1>3
<1>9. M \in [DOMAIN M -> {n \in Nat : n > 0}]
  BY <1>7, <1>8
<1>10. IsCmds(M)
  BY <1>1, <1>5, <1>9 DEF IsCmds, IsABag
<1>11. \A d \in DOMAIN B : d # c => d \in DOMAIN M /\ M[d] = B[d]
  BY <1>4, <1>5, <1>6
<1>12. B[c] = 1 => c \notin DOMAIN M
  BY <1>4, <1>5
<1> QED
  BY <1>5, <1>10, <1>11, <1>12 DEF M

\* A command that starts leaves the others as they are.
LEMMA Started ==
    ASSUME NEW B, IsCmds(B), NEW c, IsCmd(c)
    PROVE  LET P == B (+) SetToBag({c})
           IN  /\ IsCmds(P)
               /\ DOMAIN P = DOMAIN B \cup {c}
               /\ \A d \in DOMAIN B : d # c => P[d] = B[d]
               /\ c \notin DOMAIN B => P[c] = 1
<1> DEFINE P == B (+) SetToBag({c})
           S == SetToBag({c})
<1>1. B \in [DOMAIN B -> {n \in Nat : n > 0}] /\ \A e \in DOMAIN B : IsCmd(e)
  BY DEF IsCmds, IsABag
<1>2. DOMAIN S = {c} /\ S[c] = 1
  BY DEF SetToBag
<1>3. P = [e \in (DOMAIN B) \cup (DOMAIN S) |->
             (IF e \in DOMAIN B THEN B[e] ELSE 0) + (IF e \in DOMAIN S THEN S[e] ELSE 0)]
  BY Zenon DEF (+)
<1> HIDE DEF P, S
<1>4. /\ DOMAIN P = DOMAIN B \cup {c}
      /\ \A e \in DOMAIN P : P[e] = (IF e \in DOMAIN B THEN B[e] ELSE 0) + (IF e = c THEN 1 ELSE 0)
  BY <1>2, <1>3
<1>6. \A e \in DOMAIN B : B[e] \in Nat /\ B[e] > 0
  BY <1>1
<1>7. \A e \in DOMAIN P : P[e] \in {n \in Nat : n > 0}
  BY <1>4, <1>6
<1>8. P = [e \in DOMAIN P |-> P[e]]
  BY <1>3
<1>9. P \in [DOMAIN P -> {n \in Nat : n > 0}]
  BY <1>7, <1>8
<1>10. IsCmds(P)
  BY <1>1, <1>4, <1>9 DEF IsCmds, IsABag
<1>11. \A d \in DOMAIN B : d # c => P[d] = B[d]
  BY <1>4, <1>6
<1>12. c \notin DOMAIN B => P[c] = 1
  BY <1>4
<1> QED
  BY <1>4, <1>10, <1>11, <1>12 DEF P

\* What an ended command does to a kind of commands.
LEMMA EndedKinds ==
    ASSUME NEW B, IsCmds(B), NEW c \in DOMAIN B, NEW ks
    PROVE  LET M == B (-) SetToBag({c})
           IN  /\ NoCmd(B, ks) => NoCmd(M, ks)
               /\ c.cmd \notin ks /\ OneCmd(B, ks) => OneCmd(M, ks)
               /\ c.cmd \in ks /\ OneCmd(B, ks) => NoCmd(M, ks)
<1> DEFINE M == B (-) SetToBag({c})
<1>1. /\ DOMAIN M \subseteq DOMAIN B
      /\ \A d \in DOMAIN B : d # c => d \in DOMAIN M /\ M[d] = B[d]
      /\ B[c] = 1 => c \notin DOMAIN M
  BY Ended, Zenon
<1> HIDE DEF M
<1>2. NoCmd(B, ks) => NoCmd(M, ks)
  BY <1>1 DEF NoCmd
<1>3. c.cmd \notin ks /\ OneCmd(B, ks) => OneCmd(M, ks)
  BY <1>1 DEF OneCmd
<1>4. c.cmd \in ks /\ OneCmd(B, ks) => NoCmd(M, ks)
  BY <1>1 DEF OneCmd, NoCmd
<1> QED
  BY <1>2, <1>3, <1>4 DEF M

\* What a started command does to a kind of commands.
LEMMA StartedKinds ==
    ASSUME NEW B, IsCmds(B), NEW c, IsCmd(c), NEW ks
    PROVE  LET P == B (+) SetToBag({c})
           IN  /\ c.cmd \notin ks /\ NoCmd(B, ks) => NoCmd(P, ks)
               /\ c.cmd \notin ks /\ OneCmd(B, ks) => OneCmd(P, ks)
               /\ c.cmd \in ks /\ NoCmd(B, ks) => OneCmd(P, ks)
<1> DEFINE P == B (+) SetToBag({c})
<1>1. /\ DOMAIN P = DOMAIN B \cup {c}
      /\ \A d \in DOMAIN B : d # c => P[d] = B[d]
      /\ c \notin DOMAIN B => P[c] = 1
  BY Started, Zenon
<1> HIDE DEF P
<1>2. c.cmd \notin ks /\ NoCmd(B, ks) => NoCmd(P, ks)
  BY <1>1 DEF NoCmd
<1>3. c.cmd \notin ks /\ OneCmd(B, ks) => OneCmd(P, ks)
  BY <1>1 DEF OneCmd
<1>4. c.cmd \in ks /\ NoCmd(B, ks) => OneCmd(P, ks)
  BY <1>1 DEF OneCmd, NoCmd
<1> QED
  BY <1>2, <1>3, <1>4 DEF P

\* What a command that is replaced by another does to a kind of commands.
LEMMA ReplacedKinds ==
    ASSUME NEW B, IsCmds(B), NEW c \in DOMAIN B, NEW d, IsCmd(d), NEW ks
    PROVE  LET C == (B (-) SetToBag({c})) (+) SetToBag({d})
           IN  /\ IsCmds(C)
               /\ DOMAIN C \subseteq DOMAIN B \cup {d} /\ d \in DOMAIN C
               /\ \A e \in DOMAIN B : e # c => e \in DOMAIN C
               /\ d.cmd \notin ks /\ NoCmd(B, ks) => NoCmd(C, ks)
               /\ c.cmd \notin ks /\ d.cmd \notin ks /\ OneCmd(B, ks) => OneCmd(C, ks)
               /\ c.cmd \in ks /\ d.cmd \notin ks /\ OneCmd(B, ks) => NoCmd(C, ks)
               /\ d.cmd \in ks /\ NoCmd(B, ks) => OneCmd(C, ks)
               /\ c.cmd \in ks /\ d.cmd \in ks /\ OneCmd(B, ks) => OneCmd(C, ks)
<1> DEFINE M == B (-) SetToBag({c})
           C == M (+) SetToBag({d})
<1>1. /\ IsCmds(M)
      /\ DOMAIN M \subseteq DOMAIN B
      /\ \A e \in DOMAIN B : e # c => e \in DOMAIN M
  BY Ended, Zenon
<1>2. /\ NoCmd(B, ks) => NoCmd(M, ks)
      /\ c.cmd \notin ks /\ OneCmd(B, ks) => OneCmd(M, ks)
      /\ c.cmd \in ks /\ OneCmd(B, ks) => NoCmd(M, ks)
  BY EndedKinds, Zenon
<1> HIDE DEF M
<1>3. IsCmds(C) /\ DOMAIN C = DOMAIN M \cup {d}
  BY <1>1, Started, Zenon
<1>4. /\ d.cmd \notin ks /\ NoCmd(M, ks) => NoCmd(C, ks)
      /\ d.cmd \notin ks /\ OneCmd(M, ks) => OneCmd(C, ks)
      /\ d.cmd \in ks /\ NoCmd(M, ks) => OneCmd(C, ks)
  BY <1>1, StartedKinds, Zenon
<1> HIDE DEF C
<1>5. /\ DOMAIN C \subseteq DOMAIN B \cup {d} /\ d \in DOMAIN C
      /\ \A e \in DOMAIN B : e # c => e \in DOMAIN C
  BY <1>1, <1>3
<1>6. /\ d.cmd \notin ks /\ NoCmd(B, ks) => NoCmd(C, ks)
      /\ c.cmd \notin ks /\ d.cmd \notin ks /\ OneCmd(B, ks) => OneCmd(C, ks)
      /\ c.cmd \in ks /\ d.cmd \notin ks /\ OneCmd(B, ks) => NoCmd(C, ks)
      /\ d.cmd \in ks /\ NoCmd(B, ks) => OneCmd(C, ks)
      /\ c.cmd \in ks /\ d.cmd \in ks /\ OneCmd(B, ks) => OneCmd(C, ks)
  BY <1>2, <1>4
<1> QED
  BY <1>3, <1>5, <1>6 DEF C, M

----------------------------------------------------------------------------
(* Tui: one reconnect *)

Reconnects == {"tick", "connect"}

\* The commands there are in each phase.
Phases ==
    /\ phase = "picker" =>
         ~connected /\ ~retrying /\ \A c \in DOMAIN cmds : c = List /\ cmds[c] = 1
    /\ phase = "chat" =>
         /\ NoCmd(cmds, {"list"})
         /\ connected => NoCmd(cmds, Reconnects)
                         /\ \E c \in DOMAIN cmds : c.cmd = "recv" /\ c.stream = current
         /\ ~connected => OneCmd(cmds, Reconnects)
    /\ phase = "quit" => DOMAIN cmds = {} /\ ~connected

\* A client that was never connected has nothing that could report a loss.
Losses ==
    /\ connected => ~retrying
    /\ ~connected /\ ~retrying => NoCmd(cmds, {"recv", "ingest"})

\* sending says whether an ingest is under way.
Ingests == IF sending THEN OneCmd(cmds, {"ingest"}) ELSE NoCmd(cmds, {"ingest"})

ClientType ==
    /\ phase \in {"picker", "chat", "quit"}
    /\ connected \in BOOLEAN /\ retrying \in BOOLEAN /\ sending \in BOOLEAN
    /\ IsCmds(cmds)

\* The commands under way and what the model says of them.
CmdInv == ClientType /\ Phases /\ Losses /\ Ingests

\* The four kinds of commands that CmdInv counts.
Kinds == {{"list"}, Reconnects, {"ingest"}, {"recv", "ingest"}}

\* The initial state satisfies the invariant.
LEMMA CmdInit == TuiInit => CmdInv
<1> SUFFICES ASSUME TuiInit PROVE CmdInv
  OBVIOUS
<1> DEFINE c == IF phase = "picker" THEN List
                ELSE Cmd("connect", 0, named, IF named = None THEN "first" ELSE "start")
<1>1. IsCmd(c) /\ c.cmd = (IF phase = "picker" THEN "list" ELSE "connect")
      /\ (phase = "picker" => c = List)
  BY DEF IsCmd, List, Cmd
<1>2. cmds = SetToBag({c})
  BY DEF TuiInit
<1> HIDE DEF c
<1>3. cmds = [e \in {c} |-> 1]
  BY <1>2 DEF SetToBag
<1>4. IsCmds(cmds)
  BY <1>1, <1>3 DEF IsCmds, IsABag
<1>5. DOMAIN cmds = {c} /\ cmds[c] = 1
  BY <1>3
<1>6. phase \in {"picker", "chat"} /\ ~connected /\ ~retrying /\ ~sending
      /\ connected \in BOOLEAN /\ retrying \in BOOLEAN /\ sending \in BOOLEAN
  BY DEF TuiInit
<1>7. Phases
  BY <1>1, <1>5, <1>6 DEF Phases, NoCmd, OneCmd, Reconnects
<1>8. Losses /\ Ingests
  BY <1>1, <1>5, <1>6 DEF Losses, Ingests, NoCmd
<1> QED
  BY <1>4, <1>6, <1>7, <1>8 DEF CmdInv, ClientType

\* A command that has a result is one of the chat's, unless it is the list.
LEMMA InChat ==
    ASSUME CmdInv, NEW c \in DOMAIN cmds
    PROVE  /\ IsCmd(c) /\ IsCmds(cmds)
           /\ phase # "quit"
           /\ c.cmd # "list" => phase = "chat"
           /\ c.cmd = "list" => phase = "picker"
           /\ c.cmd \in {"recv", "ingest"} /\ ~connected => retrying
           /\ c.cmd \in Reconnects /\ phase = "chat" => ~connected
<1>1. List.cmd = "list"
  BY DEF List, Cmd
<1>2. phase \in {"picker", "chat", "quit"} /\ IsCmd(c) /\ IsCmds(cmds)
  BY DEF CmdInv, ClientType, IsCmds
<1> QED
  BY <1>1, <1>2 DEF CmdInv, Phases, Losses, NoCmd

\* The loop's own variables that the invariant reads.
loopVars == <<phase, connected, retrying, sending, current>>

\* A command that goes on as the same command.
LEMMA SameKind ==
    ASSUME CmdInv, NEW c \in DOMAIN cmds, NEW d, IsCmd(d), d.cmd = c.cmd, c.cmd # "list",
           c.cmd = "recv" => d.stream = c.stream, Becomes(c, d), UNCHANGED loopVars
    PROVE  CmdInv'
<1>1. IsCmds(cmds) /\ phase = "chat"
  BY InChat
<1> DEFINE C == (cmds (-) SetToBag({c})) (+) SetToBag({d})
<1>2. cmds' = C
  BY DEF Becomes
<1>3. /\ IsCmds(C) /\ d \in DOMAIN C
      /\ \A e \in DOMAIN cmds : e # c => e \in DOMAIN C
  BY <1>1, ReplacedKinds, Zenon
<1>4. ASSUME NEW ks
      PROVE  (NoCmd(cmds, ks) => NoCmd(C, ks)) /\ (OneCmd(cmds, ks) => OneCmd(C, ks))
  <2>1. /\ d.cmd \notin ks /\ NoCmd(cmds, ks) => NoCmd(C, ks)
        /\ c.cmd \notin ks /\ d.cmd \notin ks /\ OneCmd(cmds, ks) => OneCmd(C, ks)
        /\ c.cmd \in ks /\ d.cmd \in ks /\ OneCmd(cmds, ks) => OneCmd(C, ks)
    BY <1>1, ReplacedKinds, Zenon
  <2>2. NoCmd(cmds, ks) => c.cmd \notin ks
    BY DEF NoCmd
  <2> QED
    BY <2>1, <2>2
<1> HIDE DEF C
<1>5. (\E e \in DOMAIN cmds : e.cmd = "recv" /\ e.stream = current)
        => \E e \in DOMAIN C : e.cmd = "recv" /\ e.stream = current
  BY <1>3
<1>6. phase' = phase /\ connected' = connected /\ retrying' = retrying /\ sending' = sending
      /\ current' = current
  BY DEF loopVars
<1>7. Phases'
  BY <1>1, <1>2, <1>4, <1>5, <1>6, Zenon DEF CmdInv, Phases
<1>8. Losses' /\ Ingests'
  BY <1>2, <1>4, <1>6, Zenon DEF CmdInv, Losses, Ingests
<1> QED
  BY <1>2, <1>3, <1>6, <1>7, <1>8, Zenon DEF CmdInv, ClientType

\* A step that leaves the commands and the loop's variables alone.
LEMMA CmdsAlone == ASSUME CmdInv, UNCHANGED <<cmds, loopVars>> PROVE CmdInv'
  BY DEF CmdInv, ClientType, Phases, Losses, Ingests, loopVars, IsCmds, NoCmd, OneCmd

\* The program ends.
LEMMA QuitCmds == ASSUME CmdInv, Quit PROVE CmdInv'
<1>1. cmds' = [e \in {} |-> 1]
  BY DEF Quit, EmptyBag, SetToBag
<1>2. DOMAIN cmds' = {} /\ IsCmds(cmds')
  BY <1>1 DEF IsCmds, IsABag
<1>3. phase' = "quit" /\ connected' = FALSE /\ retrying' = FALSE /\ sending' = FALSE
  BY DEF Quit
<1> QED
  BY <1>2, <1>3 DEF CmdInv, ClientType, Phases, Losses, Ingests, NoCmd

\* A message is sent when none is under way, with whatever the commands others are.
LEMMA SendCmds ==
    ASSUME CmdInv, NEW m, NEW others, SendMessage(m, others), ~sending, phase = "chat",
           connected \/ retrying, UNCHANGED <<phase, connected, retrying, current>>,
           IsCmds(others), NoCmd(others, {"list"}), NoCmd(others, {"ingest"}),
           connected => NoCmd(others, Reconnects)
                        /\ \E e \in DOMAIN others : e.cmd = "recv" /\ e.stream = current,
           ~connected => OneCmd(others, Reconnects)
    PROVE  CmdInv'
<1> DEFINE d == Cmd("ingest", current, conv, m)
           P == others (+) SetToBag({d})
<1>1. IsCmd(d) /\ d.cmd = "ingest"
  BY DEF Cmd, IsCmd
<1>2. cmds' = P /\ sending' = TRUE
  BY DEF SendMessage
<1> HIDE DEF d
<1>3. IsCmds(P) /\ DOMAIN P = DOMAIN others \cup {d}
  BY <1>1, Started, Zenon
<1>4. NoCmd(P, {"list"})
  <2>1. d.cmd \notin {"list"}
    BY <1>1
  <2> QED
    BY <2>1, <1>1, StartedKinds, Zenon
<1>5. OneCmd(P, {"ingest"})
  <2>1. d.cmd \in {"ingest"}
    BY <1>1
  <2> QED
    BY <2>1, <1>1, StartedKinds, Zenon
<1>6. (NoCmd(others, Reconnects) => NoCmd(P, Reconnects))
      /\ (OneCmd(others, Reconnects) => OneCmd(P, Reconnects))
  <2>1. d.cmd \notin Reconnects
    BY <1>1 DEF Reconnects
  <2> QED
    BY <2>1, <1>1, StartedKinds, Zenon
<1>7. phase' = phase /\ connected' = connected /\ retrying' = retrying /\ current' = current
  OBVIOUS
<1> HIDE DEF P
<1>8. Phases'
  BY <1>2, <1>3, <1>4, <1>6, <1>7 DEF Phases
<1>9. Losses' /\ Ingests'
  BY <1>2, <1>5, <1>7 DEF CmdInv, Losses, Ingests
<1> QED
  BY <1>2, <1>3, <1>7, <1>8, <1>9 DEF CmdInv, ClientType

\* The user's steps.
LEMMA UserCmds == ASSUME CmdInv, User PROVE CmdInv'
<1>1. CASE Type
  BY <1>1, CmdsAlone DEF Type, loopVars
<1>2. CASE Enter
  <2>1. phase = "chat" /\ connected
    BY <1>2 DEF Enter, AcceptsInput
  <2>2. CASE running \/ sending
    BY <1>2, <2>2, CmdsAlone DEF Enter, loopVars
  <2>3. CASE ~(running \/ sending)
    <3>1. SendMessage(input, cmds) /\ UNCHANGED <<phase, connected, retrying, current>>
      BY <1>2, <2>3 DEF Enter
    <3>2. /\ IsCmds(cmds) /\ NoCmd(cmds, {"list"}) /\ NoCmd(cmds, {"ingest"})
          /\ connected => NoCmd(cmds, Reconnects)
                          /\ \E e \in DOMAIN cmds : e.cmd = "recv" /\ e.stream = current
          /\ ~connected => OneCmd(cmds, Reconnects)
      BY <2>1, <2>3 DEF CmdInv, ClientType, Phases, Ingests
    <3> QED
      BY <2>1, <2>3, <3>1, <3>2, SendCmds
  <2> QED
    BY <2>2, <2>3
<1>3. CASE Esc
  <2>1. UNCHANGED loopVars /\ phase = "chat"
    BY <1>3 DEF Esc, loopVars
  <2>2. CASE UNCHANGED cmds
    BY <2>1, <2>2, CmdsAlone
  <2>3. CASE Start({Cmd("cancel", current, conv, None)})
    <3> DEFINE d == Cmd("cancel", current, conv, None)
               P == cmds (+) SetToBag({d})
    <3>1. IsCmd(d) /\ d.cmd = "cancel" /\ cmds' = P
      BY <2>3 DEF Cmd, IsCmd, Start
    <3> HIDE DEF d
    <3>2. IsCmds(cmds)
      BY DEF CmdInv, ClientType
    <3>3. IsCmds(P) /\ DOMAIN P = DOMAIN cmds \cup {d}
      BY <3>1, <3>2, Started, Zenon
    <3>4. ASSUME NEW ks \in Kinds
          PROVE  (NoCmd(cmds, ks) => NoCmd(P, ks)) /\ (OneCmd(cmds, ks) => OneCmd(P, ks))
      <4>1. d.cmd \notin ks
        BY <3>1 DEF Kinds, Reconnects
      <4> QED
        BY <3>1, <3>2, <4>1, StartedKinds, Zenon
    <3> HIDE DEF P
    <3>5. /\ (NoCmd(cmds, {"list"}) => NoCmd(P, {"list"}))
          /\ (NoCmd(cmds, Reconnects) => NoCmd(P, Reconnects))
          /\ (OneCmd(cmds, Reconnects) => OneCmd(P, Reconnects))
          /\ (NoCmd(cmds, {"ingest"}) => NoCmd(P, {"ingest"}))
          /\ (OneCmd(cmds, {"ingest"}) => OneCmd(P, {"ingest"}))
          /\ (NoCmd(cmds, {"recv", "ingest"}) => NoCmd(P, {"recv", "ingest"}))
      BY <3>4, Zenon DEF Kinds
    <3>6. phase' = phase /\ connected' = connected /\ retrying' = retrying /\ sending' = sending
          /\ current' = current
      BY <2>1 DEF loopVars
    <3>7. Phases'
      BY <2>1, <3>1, <3>3, <3>5, <3>6 DEF CmdInv, Phases
    <3>8. Losses' /\ Ingests'
      BY <3>1, <3>5, <3>6 DEF CmdInv, Losses, Ingests
    <3> QED
      BY <3>1, <3>3, <3>6, <3>7, <3>8 DEF CmdInv, ClientType
  <2> QED
    BY <1>3, <2>2, <2>3 DEF Esc
<1>4. CASE CtrlC
  BY <1>4, QuitCmds DEF CtrlC
<1> QED
  BY <1>1, <1>2, <1>3, <1>4 DEF User

\* A command of the loop's calls ends, and with an ingest the sending.
LEMMA CallEnded ==
    ASSUME CmdInv, NEW c \in DOMAIN cmds, c.cmd \in {"recv", "ingest", "cancel"}, Done(c),
           c.cmd = "recv" => ~connected \/ c.stream # current,
           sending' = (IF c.cmd = "ingest" THEN FALSE ELSE sending),
           UNCHANGED <<phase, connected, retrying, current>>
    PROVE  CmdInv'
<1>1. IsCmds(cmds) /\ phase = "chat"
  BY InChat
<1> DEFINE M == cmds (-) SetToBag({c})
<1>2. cmds' = M
  BY DEF Done
<1>3. IsCmds(M) /\ \A e \in DOMAIN cmds : e # c => e \in DOMAIN M
  BY <1>1, Ended, Zenon
<1>4. ASSUME NEW ks
      PROVE  /\ NoCmd(cmds, ks) => NoCmd(M, ks)
             /\ c.cmd \notin ks /\ OneCmd(cmds, ks) => OneCmd(M, ks)
             /\ c.cmd \in ks /\ OneCmd(cmds, ks) => NoCmd(M, ks)
  BY <1>1, EndedKinds, Zenon
<1> HIDE DEF M
<1>5. /\ NoCmd(cmds, {"list"}) => NoCmd(M, {"list"})
      /\ NoCmd(cmds, Reconnects) => NoCmd(M, Reconnects)
      /\ NoCmd(cmds, {"recv", "ingest"}) => NoCmd(M, {"recv", "ingest"})
      /\ NoCmd(cmds, {"ingest"}) => NoCmd(M, {"ingest"})
  BY <1>4, Zenon
<1>6. OneCmd(cmds, Reconnects) => OneCmd(M, Reconnects)
  <2>1. c.cmd \notin Reconnects
    BY DEF Reconnects
  <2> QED
    BY <2>1, <1>4, Zenon
<1>7. IF c.cmd = "ingest" THEN OneCmd(cmds, {"ingest"}) => NoCmd(M, {"ingest"})
                          ELSE OneCmd(cmds, {"ingest"}) => OneCmd(M, {"ingest"})
  <2>1. c.cmd = "ingest" <=> c.cmd \in {"ingest"}
    OBVIOUS
  <2> QED
    BY <2>1, <1>4, Zenon
<1>8. c.cmd = "ingest" => sending
  <2>1. c.cmd = "ingest" => ~NoCmd(cmds, {"ingest"})
    BY DEF NoCmd
  <2> QED
    BY <2>1 DEF CmdInv, Ingests
<1>9. phase' = phase /\ connected' = connected /\ retrying' = retrying /\ current' = current
  OBVIOUS
<1>10. Phases'
  BY <1>1, <1>2, <1>3, <1>5, <1>6, <1>9 DEF CmdInv, Phases
<1>11. Losses' /\ Ingests'
  BY <1>2, <1>5, <1>7, <1>8, <1>9 DEF CmdInv, Losses, Ingests
<1> QED
  BY <1>2, <1>3, <1>9, <1>10, <1>11 DEF CmdInv, ClientType

\* A reconnect goes on: it waits, or it dials again.
LEMMA ReconnectGoesOn ==
    ASSUME CmdInv, NEW c \in DOMAIN cmds, c.cmd \in Reconnects, NEW d, IsCmd(d),
           d.cmd \in Reconnects, Becomes(c, d), retrying' \in {retrying, TRUE},
           UNCHANGED <<phase, connected, sending, current>>
    PROVE  CmdInv'
<1>1. IsCmds(cmds) /\ phase = "chat" /\ ~connected
  BY InChat DEF Reconnects
<1> DEFINE C == (cmds (-) SetToBag({c})) (+) SetToBag({d})
<1>2. cmds' = C
  BY DEF Becomes
<1>3. IsCmds(C)
  BY <1>1, ReplacedKinds, Zenon
<1>4. ASSUME NEW ks \in {{"list"}, {"ingest"}, {"recv", "ingest"}}
      PROVE  (NoCmd(cmds, ks) => NoCmd(C, ks)) /\ (OneCmd(cmds, ks) => OneCmd(C, ks))
  <2>1. d.cmd \notin ks /\ c.cmd \notin ks
    BY DEF Reconnects
  <2> QED
    BY <1>1, <2>1, ReplacedKinds, Zenon
<1>5. OneCmd(cmds, Reconnects) => OneCmd(C, Reconnects)
  BY <1>1, ReplacedKinds, Zenon
<1> HIDE DEF C
<1>6. /\ NoCmd(cmds, {"list"}) => NoCmd(C, {"list"})
      /\ NoCmd(cmds, {"recv", "ingest"}) => NoCmd(C, {"recv", "ingest"})
      /\ NoCmd(cmds, {"ingest"}) => NoCmd(C, {"ingest"})
      /\ OneCmd(cmds, {"ingest"}) => OneCmd(C, {"ingest"})
  BY <1>4, Zenon
<1>7. phase' = phase /\ connected' = connected /\ sending' = sending /\ current' = current
  OBVIOUS
<1>8. Phases'
  BY <1>1, <1>2, <1>5, <1>6, <1>7 DEF CmdInv, Phases
<1>9. (~retrying' => ~retrying) /\ retrying' \in BOOLEAN
  BY Zenon DEF CmdInv, ClientType
<1>10. Losses' /\ Ingests'
  BY <1>1, <1>2, <1>6, <1>7, <1>9 DEF CmdInv, Losses, Ingests
<1> QED
  BY <1>2, <1>3, <1>7, <1>8, <1>9, <1>10 DEF CmdInv, ClientType

\* What connectCmd makes is a connect.
LEMMA ConnectFacts == IsCmd(Connect) /\ Connect.cmd = "connect"
  BY DEF Connect, Cmd, IsCmd

\* The picker's answer.
LEMMA WorkspacesCmds == ASSUME CmdInv, NEW c \in Pending, WorkspacesMsg(c) PROVE CmdInv'
<1>1. c \in DOMAIN cmds /\ c.cmd = "list"
  BY DEF WorkspacesMsg, Msg, Pending, BagToSet
<1>2. IsCmds(cmds) /\ phase = "picker"
  BY <1>1, InChat
<1>3. ~connected /\ ~retrying /\ (\A e \in DOMAIN cmds : e = List /\ cmds[e] = 1) /\ List.cmd = "list"
  BY <1>2 DEF CmdInv, Phases, List, Cmd
<1>4. ~sending
  BY <1>3 DEF CmdInv, Ingests, OneCmd
<1>5. UNCHANGED <<connected, retrying, sending, current>>
  BY DEF WorkspacesMsg
<1>6. CASE SelectWorkspace(c)
  <2> DEFINE C == (cmds (-) SetToBag({c})) (+) SetToBag({Connect})
  <2>1. cmds' = C /\ phase' = "chat"
    BY <1>6 DEF SelectWorkspace, Becomes
  <2>2. IsCmds(C)
    BY <1>1, <1>2, ConnectFacts, ReplacedKinds, Zenon
  <2>3. NoCmd(C, {"list"})
    <3>1. c.cmd \in {"list"} /\ Connect.cmd \notin {"list"} /\ OneCmd(cmds, {"list"})
      BY <1>1, <1>3, ConnectFacts DEF OneCmd
    <3> QED
      BY <1>1, <1>2, <3>1, ConnectFacts, ReplacedKinds, Zenon
  <2>4. OneCmd(C, Reconnects)
    <3>1. Connect.cmd \in Reconnects /\ NoCmd(cmds, Reconnects)
      BY <1>3, ConnectFacts DEF NoCmd, Reconnects
    <3> QED
      BY <1>1, <1>2, <3>1, ConnectFacts, ReplacedKinds, Zenon
  <2>5. NoCmd(C, {"ingest"})
    <3>1. Connect.cmd \notin {"ingest"} /\ NoCmd(cmds, {"ingest"})
      BY <1>3, ConnectFacts DEF NoCmd
    <3> QED
      BY <1>1, <1>2, <3>1, ConnectFacts, ReplacedKinds, Zenon
  <2>6. NoCmd(C, {"recv", "ingest"})
    <3> DEFINE ks == {"recv", "ingest"}
    <3>1. Connect.cmd \notin ks /\ NoCmd(cmds, ks)
      BY <1>3, ConnectFacts DEF NoCmd
    <3> HIDE DEF ks
    <3>2. NoCmd(C, ks)
      BY <1>1, <1>2, <3>1, ConnectFacts, ReplacedKinds, Zenon
    <3> QED
      BY <3>2 DEF ks
  <2> HIDE DEF C
  <2>7. Phases' /\ Losses' /\ Ingests'
    BY <1>3, <1>4, <1>5, <2>1, <2>3, <2>4, <2>5, <2>6 DEF Phases, Losses, Ingests
  <2> QED
    BY <1>5, <2>1, <2>2, <2>7 DEF CmdInv, ClientType
<1>7. CASE Fault /\ Done(c) /\ UNCHANGED phase
  <2> DEFINE M == cmds (-) SetToBag({c})
  <2>1. cmds' = M /\ phase' = phase
    BY <1>7 DEF Done
  <2>2. /\ IsCmds(M) /\ DOMAIN M \subseteq DOMAIN cmds
        /\ \A d \in DOMAIN cmds : d # c => d \in DOMAIN M /\ M[d] = cmds[d]
        /\ cmds[c] = 1 => c \notin DOMAIN M
    BY <1>1, <1>2, Ended, Zenon
  <2> HIDE DEF M
  <2>3. DOMAIN M = {}
    BY <1>1, <1>3, <2>2
  <2>4. Phases' /\ Losses' /\ Ingests'
    BY <1>2, <1>3, <1>4, <1>5, <2>1, <2>3 DEF Phases, Losses, Ingests, NoCmd
  <2> QED
    BY <1>5, <2>1, <2>2, <2>4 DEF CmdInv, ClientType
<1> QED
  BY <1>6, <1>7 DEF WorkspacesMsg

\* The new stream is adopted and read.
LEMMA ConnectedCmds == ASSUME CmdInv, NEW c \in Pending, ConnectedMsg(c) PROVE CmdInv'
<1>1. c \in DOMAIN cmds /\ c.cmd = "connect"
  BY DEF ConnectedMsg, Msg, Pending, BagToSet
<1>2. IsCmds(cmds) /\ phase = "chat" /\ ~connected
  BY <1>1, InChat DEF Reconnects
<1> DEFINE d == Recv(c.stream)
           C == (cmds (-) SetToBag({c})) (+) SetToBag({d})
<1>3. IsCmd(d) /\ d.cmd = "recv" /\ d.stream = c.stream
  BY DEF Recv, Cmd, IsCmd
<1>4. cmds' = C /\ phase' = phase /\ connected' = TRUE /\ retrying' = FALSE
      /\ sending' = sending /\ current' = c.stream
  BY DEF ConnectedMsg, Becomes
<1> HIDE DEF d
<1>5. IsCmds(C) /\ d \in DOMAIN C
  BY <1>1, <1>2, <1>3, ReplacedKinds, Zenon
<1>6. ASSUME NEW ks \in {{"list"}, {"ingest"}}
      PROVE  (NoCmd(cmds, ks) => NoCmd(C, ks)) /\ (OneCmd(cmds, ks) => OneCmd(C, ks))
  <2>1. d.cmd \notin ks /\ c.cmd \notin ks
    BY <1>1, <1>3
  <2> QED
    BY <1>1, <1>2, <1>3, <2>1, ReplacedKinds, Zenon
<1>7. NoCmd(C, Reconnects)
  <2>1. d.cmd \notin Reconnects /\ c.cmd \in Reconnects
    BY <1>1, <1>3 DEF Reconnects
  <2>2. OneCmd(cmds, Reconnects)
    BY <1>2 DEF CmdInv, Phases
  <2> QED
    BY <1>1, <1>2, <1>3, <2>1, <2>2, ReplacedKinds, Zenon
<1> HIDE DEF C
<1>8. /\ NoCmd(cmds, {"list"}) => NoCmd(C, {"list"})
      /\ NoCmd(cmds, {"ingest"}) => NoCmd(C, {"ingest"})
      /\ OneCmd(cmds, {"ingest"}) => OneCmd(C, {"ingest"})
  BY <1>6, Zenon
<1>9. Phases'
  BY <1>2, <1>3, <1>4, <1>5, <1>7, <1>8 DEF CmdInv, Phases
<1>10. Losses' /\ Ingests'
  BY <1>4, <1>8 DEF CmdInv, Losses, Ingests
<1> QED
  BY <1>4, <1>5, <1>9, <1>10 DEF CmdInv, ClientType

\* A command at another stage.
LEMMA Staged ==
    ASSUME NEW c, IsCmd(c), NEW s
    PROVE  /\ IsCmd([c EXCEPT !.stage = s])
           /\ [c EXCEPT !.stage = s].cmd = c.cmd
           /\ [c EXCEPT !.stage = s].stream = c.stream
           /\ [c EXCEPT !.stage = s].arg = c.arg
           /\ [c EXCEPT !.stage = s].stage = s
<1> DEFINE d == [c EXCEPT !.stage = s]
<1>1. PICK c1, c2, c3, c4, c5 : c = [cmd |-> c1, stage |-> c2, stream |-> c3, conv |-> c4, arg |-> c5]
  BY DEF IsCmd
<1>2. d = [cmd |-> c1, stage |-> s, stream |-> c3, conv |-> c4, arg |-> c5]
  BY <1>1
<1> HIDE DEF d
<1>5. IsCmd(d) /\ d.stage = s /\ d.cmd = c.cmd /\ d.stream = c.stream /\ d.arg = c.arg
  BY <1>1, <1>2 DEF IsCmd
<1> QED
  BY <1>5, Zenon DEF d

\* A command at another stage, on another stream.
WithStream(c, n, s) == [c EXCEPT !.stream = n, !.stage = s]

LEMMA StagedStream ==
    ASSUME NEW c, IsCmd(c), NEW n, NEW s, NEW d, d = WithStream(c, n, s)
    PROVE  IsCmd(d) /\ d.cmd = c.cmd /\ d.stage = s
<1>1. PICK c1, c2, c3, c4, c5 : c = [cmd |-> c1, stage |-> c2, stream |-> c3, conv |-> c4, arg |-> c5]
  BY DEF IsCmd
<1> DEFINE e == [c EXCEPT !.stream = n]
<1>3. d = [e EXCEPT !.stage = s]
  BY DEF WithStream
<1>4. e = [cmd |-> c1, stage |-> c2, stream |-> n, conv |-> c4, arg |-> c5]
  BY <1>1
<1> HIDE DEF e
<1>2. d = [cmd |-> c1, stage |-> s, stream |-> n, conv |-> c4, arg |-> c5]
  BY <1>3, <1>4
<1> QED
  BY <1>1, <1>2 DEF IsCmd

\* A command at another stage, with another argument.
WithArg(c, s, x) == [c EXCEPT !.stage = s, !.arg = x]

LEMMA StagedArg ==
    ASSUME NEW c, IsCmd(c), NEW s, NEW x, NEW d, d = WithArg(c, s, x)
    PROVE  IsCmd(d) /\ d.cmd = c.cmd /\ d.stream = c.stream /\ d.stage = s
<1>1. PICK c1, c2, c3, c4, c5 : c = [cmd |-> c1, stage |-> c2, stream |-> c3, conv |-> c4, arg |-> c5]
  BY DEF IsCmd
<1> DEFINE e == [c EXCEPT !.stage = s]
<1>3. d = [e EXCEPT !.arg = x]
  BY DEF WithArg
<1>4. e = [cmd |-> c1, stage |-> s, stream |-> c3, conv |-> c4, arg |-> c5]
  BY <1>1
<1> HIDE DEF e
<1>2. d = [cmd |-> c1, stage |-> s, stream |-> c3, conv |-> c4, arg |-> x]
  BY <1>3, <1>4
<1> QED
  BY <1>1, <1>2 DEF IsCmd

\* A command at another stage, of another conversation.
WithConv(c, s, k) == [c EXCEPT !.stage = s, !.conv = k]

LEMMA StagedConv ==
    ASSUME NEW c, IsCmd(c), NEW s, NEW k, NEW d, d = WithConv(c, s, k)
    PROVE  IsCmd(d) /\ d.cmd = c.cmd /\ d.stream = c.stream /\ d.arg = c.arg /\ d.stage = s
<1>1. PICK c1, c2, c3, c4, c5 : c = [cmd |-> c1, stage |-> c2, stream |-> c3, conv |-> c4, arg |-> c5]
  BY DEF IsCmd
<1> DEFINE e == [c EXCEPT !.stage = s]
<1>3. d = [e EXCEPT !.conv = k]
  BY DEF WithConv
<1>4. e = [cmd |-> c1, stage |-> s, stream |-> c3, conv |-> c4, arg |-> c5]
  BY <1>1
<1> HIDE DEF e
<1>2. d = [cmd |-> c1, stage |-> s, stream |-> c3, conv |-> k, arg |-> c5]
  BY <1>3, <1>4
<1> QED
  BY <1>1, <1>2 DEF IsCmd

\* A reconnect at work, and its results.
LEMMA ReconnectCmds == ASSUME CmdInv, Reconnect PROVE CmdInv'
<1>1. PICK c \in Pending :
        \/ WorkspacesMsg(c) \/ Dial(c) \/ OpenConversation(c) \/ ConnectedMsg(c) \/ ConnErrMsg(c)
        \/ OpenFailedMsg(c) \/ RetryTickMsg(c)
  BY DEF Reconnect
<1>2. c \in DOMAIN cmds /\ IsCmd(c)
  BY InChat DEF Pending, BagToSet
<1>3. CASE WorkspacesMsg(c)
  BY <1>3, WorkspacesCmds
<1>4. CASE Dial(c)
  <2>1. c.cmd = "connect" /\ UNCHANGED loopVars
    BY <1>4 DEF Dial, OnlyCmds, screen, loopVars
  <2>2. PICK n, s, e : (e = WithStream(c, n, s) /\ Becomes(c, e)) \/ Comes(c, s)
    BY <1>4 DEF Dial, WithStream
  <2>3. CASE e = WithStream(c, n, s) /\ Becomes(c, e)
    <3>1. IsCmd(e) /\ e.cmd = c.cmd
      BY <1>2, <2>3, StagedStream
    <3> QED
      BY <1>2, <2>1, <2>3, <3>1, SameKind
  <2>4. CASE Comes(c, s)
    <3> DEFINE d == [c EXCEPT !.stage = s]
    <3>1. IsCmd(d) /\ d.cmd = c.cmd /\ Becomes(c, d)
      BY <1>2, <2>4, Staged, Zenon DEF Comes
    <3> HIDE DEF d
    <3> QED
      BY <1>2, <2>1, <3>1, SameKind
  <2> QED
    BY <2>2, <2>3, <2>4
<1>5. CASE OpenConversation(c)
  <2>1. c.cmd = "connect" /\ UNCHANGED loopVars
    BY <1>5 DEF OpenConversation, OnlyCmds, screen, loopVars
  <2>2. PICK s, x, e : (e = WithArg(c, s, x) /\ Becomes(c, e)) \/ Comes(c, s)
    BY <1>5 DEF OpenConversation, WithArg
  <2>3. CASE e = WithArg(c, s, x) /\ Becomes(c, e)
    <3>1. IsCmd(e) /\ e.cmd = c.cmd
      BY <1>2, <2>3, StagedArg
    <3> QED
      BY <1>2, <2>1, <2>3, <3>1, SameKind
  <2>4. CASE Comes(c, s)
    <3> DEFINE d == [c EXCEPT !.stage = s]
    <3>1. IsCmd(d) /\ d.cmd = c.cmd /\ Becomes(c, d)
      BY <1>2, <2>4, Staged, Zenon DEF Comes
    <3> HIDE DEF d
    <3> QED
      BY <1>2, <2>1, <3>1, SameKind
  <2> QED
    BY <2>2, <2>3, <2>4
<1>6. CASE ConnectedMsg(c)
  BY <1>6, ConnectedCmds
<1>7. CASE ConnErrMsg(c)
  <2>1. IsCmd(Tick) /\ Tick.cmd \in Reconnects
    BY DEF Tick, Cmd, IsCmd, Reconnects
  <2>2. c.cmd \in Reconnects /\ Becomes(c, Tick) /\ retrying' \in {retrying, TRUE}
        /\ UNCHANGED <<phase, connected, sending, current>>
    BY <1>7 DEF ConnErrMsg, Msg, Retry, Reconnects
  <2> QED
    BY <1>2, <2>1, <2>2, ReconnectGoesOn
<1>8. CASE OpenFailedMsg(c)
  BY <1>8, QuitCmds DEF OpenFailedMsg
<1>9. CASE RetryTickMsg(c)
  <2>1. IsCmd(Connect) /\ Connect.cmd \in Reconnects
    BY ConnectFacts DEF Reconnects
  <2>2. c.cmd \in Reconnects /\ Becomes(c, Connect) /\ retrying' \in {retrying, TRUE}
        /\ UNCHANGED <<phase, connected, sending, current>>
    BY <1>9 DEF RetryTickMsg, Msg, Reconnects, screen
  <2> QED
    BY <1>2, <2>1, <2>2, ReconnectGoesOn
<1> QED
  BY <1>1, <1>3, <1>4, <1>5, <1>6, <1>7, <1>8, <1>9

\* The loss that is noticed first starts the one reconnect.
LEMMA LossNoticed ==
    ASSUME CmdInv, NEW c \in DOMAIN cmds, c.cmd \in {"recv", "ingest"}, ~retrying,
           connected' = FALSE, Retry(c), sending' = (IF c.cmd = "ingest" THEN FALSE ELSE sending),
           UNCHANGED <<phase, current>>
    PROVE  CmdInv'
<1>1. IsCmds(cmds) /\ phase = "chat" /\ connected
  BY InChat
<1> DEFINE C == (cmds (-) SetToBag({c})) (+) SetToBag({Tick})
<1>2. cmds' = C /\ retrying' = TRUE /\ phase' = phase
  BY DEF Becomes, Retry
<1>3. IsCmd(Tick) /\ Tick.cmd = "tick"
  BY DEF Tick, Cmd, IsCmd
<1>4. IsCmds(C)
  BY <1>1, <1>3, ReplacedKinds, Zenon
<1>5. NoCmd(C, {"list"})
  <2>1. Tick.cmd \notin {"list"} /\ NoCmd(cmds, {"list"})
    BY <1>1, <1>3 DEF CmdInv, Phases
  <2> QED
    BY <1>1, <1>3, <2>1, ReplacedKinds, Zenon
<1>6. OneCmd(C, Reconnects)
  <2>1. Tick.cmd \in Reconnects /\ NoCmd(cmds, Reconnects)
    BY <1>1, <1>3 DEF CmdInv, Phases, Reconnects
  <2> QED
    BY <1>1, <1>3, <2>1, ReplacedKinds, Zenon
<1>7. /\ NoCmd(cmds, {"ingest"}) => NoCmd(C, {"ingest"})
      /\ c.cmd # "ingest" /\ OneCmd(cmds, {"ingest"}) => OneCmd(C, {"ingest"})
      /\ c.cmd = "ingest" /\ OneCmd(cmds, {"ingest"}) => NoCmd(C, {"ingest"})
  <2>1. Tick.cmd \notin {"ingest"} /\ (c.cmd = "ingest" <=> c.cmd \in {"ingest"})
    BY <1>3
  <2> QED
    BY <1>1, <1>3, <2>1, ReplacedKinds, Zenon
<1> HIDE DEF C
<1>8. c.cmd = "ingest" => sending
  <2>1. c.cmd = "ingest" => ~NoCmd(cmds, {"ingest"})
    BY DEF NoCmd
  <2> QED
    BY <2>1 DEF CmdInv, Ingests
<1>9. Phases' /\ Losses' /\ Ingests'
  BY <1>1, <1>2, <1>5, <1>6, <1>7, <1>8 DEF CmdInv, Phases, Losses, Ingests
<1> QED
  BY <1>2, <1>4, <1>9 DEF CmdInv, ClientType

\* A frame is handled, and the stream in use is read again.
LEMMA FrameCmds == ASSUME CmdInv, NEW c \in Pending, FrameMsg(c) PROVE CmdInv'
<1>1. c \in DOMAIN cmds /\ c.cmd = "recv" /\ UNCHANGED <<phase, connected, retrying, current>>
  BY DEF FrameMsg, Msg, Pending, BagToSet
<1>2. IsCmds(cmds) /\ phase = "chat" /\ (connected \/ retrying)
  BY <1>1, InChat
<1> DEFINE d == Recv(current)
           C == (cmds (-) SetToBag({c})) (+) SetToBag({d})
<1>3. IsCmd(d) /\ d.cmd = "recv" /\ d.stream = current
  BY DEF Recv, Cmd, IsCmd
<1>4. \/ ~sending /\ \E m : SendMessage(m, C)
      \/ cmds' = C /\ UNCHANGED sending
  BY DEF FrameMsg, QueueMoves
<1> HIDE DEF d
<1>5. IsCmds(C) /\ d \in DOMAIN C
  BY <1>1, <1>2, <1>3, ReplacedKinds, Zenon
<1>6. ASSUME NEW ks \in {{"list"}, Reconnects, {"ingest"}}
      PROVE  (NoCmd(cmds, ks) => NoCmd(C, ks)) /\ (OneCmd(cmds, ks) => OneCmd(C, ks))
  <2>1. d.cmd \notin ks /\ c.cmd \notin ks
    BY <1>1, <1>3 DEF Reconnects
  <2> QED
    BY <1>1, <1>2, <1>3, <2>1, ReplacedKinds, Zenon
<1> HIDE DEF C
<1>7. /\ NoCmd(cmds, {"list"}) => NoCmd(C, {"list"})
      /\ NoCmd(cmds, Reconnects) => NoCmd(C, Reconnects)
      /\ OneCmd(cmds, Reconnects) => OneCmd(C, Reconnects)
      /\ NoCmd(cmds, {"ingest"}) => NoCmd(C, {"ingest"})
      /\ OneCmd(cmds, {"ingest"}) => OneCmd(C, {"ingest"})
  BY <1>6, Zenon
<1>8. CASE cmds' = C /\ UNCHANGED sending
  <2>1. Phases' /\ Losses' /\ Ingests'
    BY <1>1, <1>2, <1>3, <1>5, <1>7, <1>8 DEF CmdInv, Phases, Losses, Ingests
  <2> QED
    BY <1>1, <1>5, <1>8, <2>1 DEF CmdInv, ClientType
<1>9. ASSUME ~sending, NEW m, SendMessage(m, C) PROVE CmdInv'
  <2>1. /\ NoCmd(C, {"list"}) /\ NoCmd(C, {"ingest"})
        /\ connected => NoCmd(C, Reconnects)
                        /\ \E e \in DOMAIN C : e.cmd = "recv" /\ e.stream = current
        /\ ~connected => OneCmd(C, Reconnects)
    BY <1>2, <1>3, <1>5, <1>7, <1>9 DEF CmdInv, Phases, Ingests
  <2> QED
    BY <1>1, <1>2, <1>5, <1>9, <2>1, SendCmds
<1> QED
  BY <1>4, <1>8, <1>9

\* What is read from a stream, and its loss.
LEMMA ListenCmds == ASSUME CmdInv, Listen PROVE CmdInv'
<1>1. PICK c \in Pending : Receive(c) \/ FrameMsg(c) \/ StreamErrMsg(c)
  BY DEF Listen
<1>2. c \in DOMAIN cmds /\ IsCmd(c)
  BY InChat DEF Pending, BagToSet
<1>3. CASE Receive(c)
  <2>1. c.cmd = "recv" /\ UNCHANGED loopVars
    BY <1>3 DEF Receive, OnlyCmds, screen, loopVars
  <2>2. PICK s, x, e : (e = WithArg(c, s, x) /\ Becomes(c, e)) \/ Comes(c, s)
    BY <1>3 DEF Receive, WithArg
  <2>3. CASE e = WithArg(c, s, x) /\ Becomes(c, e)
    <3>1. IsCmd(e) /\ e.cmd = c.cmd /\ e.stream = c.stream
      BY <1>2, <2>3, StagedArg
    <3> QED
      BY <1>2, <2>1, <2>3, <3>1, SameKind
  <2>4. CASE Comes(c, s)
    <3> DEFINE d == [c EXCEPT !.stage = s]
    <3>1. IsCmd(d) /\ d.cmd = c.cmd /\ d.stream = c.stream /\ Becomes(c, d)
      BY <1>2, <2>4, Staged, Zenon DEF Comes
    <3> HIDE DEF d
    <3> QED
      BY <1>2, <2>1, <3>1, SameKind
  <2> QED
    BY <2>2, <2>3, <2>4
<1>4. CASE FrameMsg(c)
  BY <1>4, FrameCmds
<1>5. CASE StreamErrMsg(c)
  <2>1. /\ c.cmd \in {"recv", "ingest"} /\ UNCHANGED <<phase, current>>
        /\ sending' = (IF c.cmd = "ingest" THEN FALSE ELSE sending)
    BY <1>5 DEF StreamErrMsg, Msg
  <2>2. CASE retrying \/ (c.cmd = "recv" /\ c.stream # current)
    <3>1. Done(c) /\ UNCHANGED <<connected, retrying>>
      BY <1>5, <2>2 DEF StreamErrMsg
    <3>2. retrying => ~connected
      BY DEF CmdInv, Losses
    <3> QED
      BY <1>2, <2>1, <2>2, <3>1, <3>2, CallEnded
  <2>3. CASE ~(retrying \/ (c.cmd = "recv" /\ c.stream # current))
    <3>1. connected' = FALSE /\ Retry(c)
      BY <1>5, <2>3 DEF StreamErrMsg
    <3> QED
      BY <1>2, <2>1, <2>3, <3>1, LossNoticed
  <2> QED
    BY <2>2, <2>3
<1> QED
  BY <1>1, <1>3, <1>4, <1>5

\* The calls and their answers.
LEMMA CallCmds == ASSUME CmdInv, Calls PROVE CmdInv'
<1>1. PICK c \in Pending : IngestTaken(c) \/ IngestReturns(c) \/ IngestAckMsg(c) \/ CancelReturns(c)
                           \/ CancelErrMsg(c)
  BY DEF Calls
<1>2. c \in DOMAIN cmds /\ IsCmd(c)
  BY InChat DEF Pending, BagToSet
<1>3. ASSUME NEW s, Comes(c, s), c.cmd \in {"ingest", "cancel"}, UNCHANGED loopVars PROVE CmdInv'
  <2> DEFINE d == [c EXCEPT !.stage = s]
  <2>1. IsCmd(d) /\ d.cmd = c.cmd /\ Becomes(c, d)
    BY <1>2, <1>3, Staged, Zenon DEF Comes
  <2> HIDE DEF d
  <2> QED
    BY <1>2, <1>3, <2>1, SameKind
<1>4. CASE IngestTaken(c)
  <2>1. c.cmd = "ingest" /\ UNCHANGED loopVars
    BY <1>4 DEF IngestTaken, OnlyCmds, screen, loopVars
  <2>2. PICK s, k, d : d = WithConv(c, s, k) /\ Becomes(c, d)
    BY <1>4 DEF IngestTaken, WithConv
  <2>3. IsCmd(d) /\ d.cmd = c.cmd
    BY <1>2, <2>2, StagedConv
  <2> QED
    BY <1>2, <2>1, <2>2, <2>3, SameKind
<1>5. CASE IngestReturns(c)
  <2>1. c.cmd = "ingest" /\ UNCHANGED loopVars /\ \E s : Comes(c, s)
    BY <1>5 DEF IngestReturns, OnlyCmds, screen, loopVars
  <2> QED
    BY <1>3, <2>1
<1>6. CASE IngestAckMsg(c)
  <2>1. /\ c.cmd = "ingest" /\ Done(c) /\ sending' = FALSE
        /\ UNCHANGED <<phase, connected, retrying, current>>
    BY <1>6 DEF IngestAckMsg, Msg
  <2> QED
    BY <1>2, <2>1, CallEnded
<1>7. CASE CancelReturns(c)
  <2>1. c.cmd = "cancel" /\ UNCHANGED loopVars /\ (Done(c) \/ Comes(c, "error"))
    BY <1>7 DEF CancelReturns, OnlyCmds, screen, loopVars
  <2>2. CASE Done(c)
    BY <1>2, <2>1, <2>2, CallEnded DEF loopVars
  <2> QED
    BY <1>3, <2>1, <2>2
<1>8. CASE CancelErrMsg(c)
  <2>1. /\ c.cmd = "cancel" /\ Done(c) /\ UNCHANGED loopVars
    BY <1>8 DEF CancelErrMsg, Msg, loopVars
  <2> QED
    BY <1>2, <2>1, CallEnded DEF loopVars
<1> QED
  BY <1>1, <1>4, <1>5, <1>6, <1>7, <1>8

\* Every step preserves the invariant.
LEMMA CmdStep == ASSUME CmdInv, [TuiNext]_tuiVars PROVE CmdInv'
<1>1. CASE User
  BY <1>1, UserCmds
<1>2. CASE Reconnect
  BY <1>2, ReconnectCmds
<1>3. CASE Listen
  BY <1>3, ListenCmds
<1>4. CASE Calls
  BY <1>4, CallCmds
<1>5. CASE TurnsMove
  BY <1>5, CmdsAlone DEF TurnsMove, TurnStarts, TurnEnds, TurnState, screen, loopVars
<1>6. CASE \E s \in 1..Len(up) : Drop(s)
  BY <1>6, CmdsAlone DEF Drop, screen, loopVars
<1>7. CASE UNCHANGED tuiVars
  BY <1>7, CmdsAlone DEF tuiVars, screen, loopVars
<1> QED
  BY <1>1, <1>2, <1>3, <1>4, <1>5, <1>6, <1>7 DEF TuiNext

\* Whatever notices a loss, one reconnect is under way while the client is
\* disconnected and none while it is connected, when its stream is being read.
THEOREM ReconnectsOnce == TuiSpec => []OneReconnect
<1>1. CmdInv => OneReconnect
  BY DEF CmdInv, Phases, NoCmd, OneCmd, Reconnects, OneReconnect, Pending, BagToSet
<1> QED
  BY CmdInit, CmdStep, <1>1, PTL DEF TuiSpec

----------------------------------------------------------------------------
(* Tui: texts *)

\* Message m has text t, and has no text twice.
Has(m, t) == \E x \in 1..Len(m) : m[x] = t
Once(m) == \A x, y \in 1..Len(m) : m[x] = m[y] => x = y

\* One of the messages q has text t.
In(q, t) == \E i \in 1..Len(q) : Has(q[i], t)

\* No text is twice in a message, or in two of the messages q.
Apart(q) ==
    \A i, j \in 1..Len(q) : \A x \in 1..Len(q[i]), y \in 1..Len(q[j]) :
        q[i][x] = q[j][y] => i = j /\ x = y

\* Each text typed is at one place of the input, of a queued message or of a sent one.
Texts ==
    /\ Once(input) /\ Apart(queue) /\ Apart(sent)
    /\ \A t \in 1..typed :
         /\ Has(input, t) \/ In(queue, t) \/ In(sent, t)
         /\ ~(Has(input, t) /\ In(queue, t))
         /\ ~(Has(input, t) /\ In(sent, t))
         /\ ~(In(queue, t) /\ In(sent, t))

TextType ==
    /\ typed \in Nat
    /\ input \in Seq(1..typed)
    /\ queue \in Seq(Seq(1..typed))
    /\ sent \in Seq(Seq(1..typed))
    /\ taken \in Seq(Seq(Nat))

\* a is, in order, some of the first n members of s.
Within(a, s, n) ==
    \E f \in [1..Len(a) -> 1..n] :
        /\ \A i \in 1..Len(a) : a[i] = s[f[i]]
        /\ \A i, j \in 1..Len(a) : i < j => f[i] < f[j]

\* The ingest under way is of the message sent last, which the relay has not
\* taken before it took this ingest.
Taken ==
    /\ phase # "quit" => Within(taken, sent, Len(sent))
    /\ \A c \in DOMAIN cmds : c.cmd = "ingest" =>
         /\ sent # <<>> /\ c.arg = sent[Len(sent)]
         /\ c.stage = "run" => Within(taken, sent, Len(sent) - 1)

TextInv == TextType /\ Texts /\ Taken

\* Of a set of numbers that is not empty one is the least: the induction that
\* the proofs below use.
LEMMA LeastNumber ==
    ASSUME NEW T, T \subseteq Nat, T # {} PROVE \E x \in T : \A y \in T : x <= y
<1> DEFINE R == OpToRel(<, Nat)
<1>1. IsWellFoundedOn(R, Nat)
  BY NatLessThanWellFounded
<1> HIDE DEF R
<1>2. PICK x \in T : \A y \in T : ~ (<<y, x>> \in R)
  BY <1>1, WFMin
<1>3. ASSUME NEW y \in T PROVE x <= y
  <2>1. ~ (<<y, x>> \in R) /\ x \in Nat /\ y \in Nat
    BY <1>2
  <2> QED
    BY <2>1, SMT DEF R, OpToRel
<1> QED
  BY <1>3

\* The function that FlattenSeq defines over the messages exists.
LEMMA FlattenExists ==
    ASSUME NEW q, NEW n \in Nat, n > 0
    PROVE  \E g : g = [i \in 1..n |-> IF i = 1 THEN q[i] ELSE g[i-1] \o q[i]]
<1> DEFINE Good(m) == \E g : g = [i \in 1..m |-> IF i = 1 THEN q[i] ELSE g[i-1] \o q[i]]
           T == {m \in Nat : m > 0 /\ ~Good(m)}
<1> SUFFICES ASSUME T # {} PROVE FALSE
  BY DEF T
<1>1. PICK m \in T : \A y \in T : m <= y
  <2>1. T \subseteq Nat
    OBVIOUS
  <2> HIDE DEF T
  <2> QED
    BY <2>1, LeastNumber
<1>2. CASE m = 1
  <2> DEFINE g == [i \in 1..1 |-> q[1]]
  <2>1. \A i \in 1..1 : i = 1
    OBVIOUS
  <2>2. \A i \in 1..1 : g[i] = IF i = 1 THEN q[i] ELSE g[i-1] \o q[i]
    <3>1. \A i \in 1..1 : g[i] = q[1]
      OBVIOUS
    <3> HIDE DEF g
    <3> QED
      BY <2>1, <3>1, Zenon
  <2>4. g = [i \in 1..1 |-> g[i]]
    OBVIOUS
  <2>5. g = [i \in 1..1 |-> IF i = 1 THEN q[i] ELSE g[i-1] \o q[i]]
    <3> HIDE DEF g
    <3> QED
      BY <2>2, <2>4, Zenon
  <2>3. Good(1)
    <3> HIDE DEF g
    <3> QED
      BY <2>5, Zenon
  <2> QED
    BY <1>1, <1>2, <2>3
<1>3. CASE m # 1
  <2>1. m - 1 \in Nat /\ m - 1 > 0 /\ m - 1 \notin T
    <3>1. m \in Nat /\ m > 0
      BY <1>1
    <3> HIDE DEF T
    <3> QED
      BY <1>1, <1>3, <3>1
  <2>2. Good(m - 1)
    BY <2>1
  <2>3. PICK h : h = [i \in 1..(m-1) |-> IF i = 1 THEN q[i] ELSE h[i-1] \o q[i]]
    BY <2>2
  <2> DEFINE g == [i \in 1..m |-> IF i = 1 THEN q[i] ELSE h[i-1] \o q[i]]
  <2>4. \A i \in 1..m : g[i] = IF i = 1 THEN q[i] ELSE h[i-1] \o q[i]
    OBVIOUS
  <2>5. \A i \in 1..(m-1) : h[i] = IF i = 1 THEN q[i] ELSE h[i-1] \o q[i]
    BY <2>3, Zenon
  <2>6. \A i \in 1..(m-1) : i \in 1..m
    BY <1>1
  <2>7. \A i \in 1..(m-1) : g[i] = h[i]
    BY <2>4, <2>5, <2>6, Zenon
  <2>8. \A i \in 1..m : i # 1 => i - 1 \in 1..(m-1)
    BY <1>1
  <2>9. \A i \in 1..m : g[i] = IF i = 1 THEN q[i] ELSE g[i-1] \o q[i]
    BY <2>4, <2>7, <2>8, Zenon
  <2>10. g = [i \in 1..m |-> g[i]]
    OBVIOUS
  <2> HIDE DEF g
  <2>11. g = [i \in 1..m |-> IF i = 1 THEN q[i] ELSE g[i-1] \o q[i]]
    BY <2>9, <2>10, Zenon
  <2>12. Good(m)
    BY <2>11
  <2> QED
    BY <1>1, <2>12
<1> QED
  BY <1>2, <1>3

\* The members of two sequences put together.
LEMMA Joined ==
    ASSUME NEW S, NEW a \in Seq(S), NEW b \in Seq(S)
    PROVE  /\ a \o b \in Seq(S) /\ Len(a \o b) = Len(a) + Len(b)
           /\ \A i \in 1..Len(a) : (a \o b)[i] = a[i]
           /\ \A i \in 1..Len(b) : (a \o b)[Len(a) + i] = b[i]
           /\ \A i \in 1..Len(a \o b) : i <= Len(a) \/ i - Len(a) \in 1..Len(b)
  OBVIOUS

\* Two sequences with nothing in common, neither of which repeats anything, make
\* one that repeats nothing and has what they have.
LEMMA JoinedOnce ==
    ASSUME NEW S, NEW a \in Seq(S), NEW b \in Seq(S), NEW c, c = a \o b,
           Once(a), Once(b), \A t : ~(Has(a, t) /\ Has(b, t))
    PROVE  c \in Seq(S) /\ Once(c) /\ \A t : Has(c, t) <=> Has(a, t) \/ Has(b, t)
<1> DEFINE m == Len(a)
           n == Len(b)
<1>1. /\ m \in Nat /\ n \in Nat /\ Len(c) = m + n /\ c \in Seq(S)
      /\ \A i \in 1..m : c[i] = a[i]
      /\ \A i \in 1..n : c[m + i] = b[i]
  BY Joined
<1> HIDE DEF m, n
<1>2. \A i \in 1..(m + n) : IF i <= m THEN c[i] = a[i] /\ i \in 1..m
                             ELSE c[i] = b[i - m] /\ i - m \in 1..n
  <2> TAKE i \in 1..(m + n)
  <2>1. CASE i <= m
    BY <1>1, <2>1
  <2>2. CASE ~(i <= m)
    <3>1. i - m \in 1..n /\ m + (i - m) = i
      BY <1>1, <2>2
    <3> QED
      BY <1>1, <2>2, <3>1
  <2> QED
    BY <2>1, <2>2
<1>3. /\ \A i, j \in 1..m : a[i] = a[j] => i = j
      /\ \A i, j \in 1..n : b[i] = b[j] => i = j
      /\ \A i \in 1..m, j \in 1..n : a[i] # b[j]
  BY DEF Once, Has, m, n
<1>4. \A i, j \in 1..(m + n) : c[i] = c[j] => i = j
  <2> TAKE i, j \in 1..(m + n)
  <2>1. CASE i <= m /\ j <= m
    BY <1>2, <1>3, <2>1, Zenon
  <2>2. CASE i <= m /\ ~(j <= m)
    BY <1>2, <1>3, <2>2, Zenon
  <2>3. CASE ~(i <= m) /\ j <= m
    BY <1>2, <1>3, <2>3, Zenon
  <2>4. CASE ~(i <= m) /\ ~(j <= m)
    <3>1. c[i] = b[i - m] /\ i - m \in 1..n /\ c[j] = b[j - m] /\ j - m \in 1..n
      BY <1>2, <2>4, Zenon
    <3>2. c[i] = c[j] => i - m = j - m
      BY <1>3, <3>1, Zenon
    <3> QED
      BY <1>1, <3>2
  <2> QED
    BY <2>1, <2>2, <2>3, <2>4
<1>5. ASSUME NEW t PROVE Has(c, t) <=> Has(a, t) \/ Has(b, t)
  <2>1. /\ Has(c, t) <=> \E i \in 1..(m + n) : c[i] = t
        /\ Has(a, t) <=> \E i \in 1..m : a[i] = t
        /\ Has(b, t) <=> \E i \in 1..n : b[i] = t
    BY <1>1 DEF Has, m, n
  <2>2. ASSUME NEW i \in 1..m, a[i] = t PROVE \E x \in 1..(m + n) : c[x] = t
    <3>1. i \in 1..(m + n) /\ c[i] = t
      BY <1>1, <2>2
    <3> QED
      BY <3>1, Zenon
  <2>3. ASSUME NEW i \in 1..n, b[i] = t PROVE \E x \in 1..(m + n) : c[x] = t
    <3>1. m + i \in 1..(m + n) /\ c[m + i] = t
      BY <1>1, <2>3
    <3> QED
      BY <3>1, Zenon
  <2>4. ASSUME NEW i \in 1..(m + n), c[i] = t
        PROVE  (\E x \in 1..m : a[x] = t) \/ (\E x \in 1..n : b[x] = t)
    BY <1>2, <2>4, Zenon
  <2> QED
    BY <2>1, <2>2, <2>3, <2>4, Zenon
<1> QED
  BY <1>1, <1>4, <1>5 DEF Once

\* The queued messages put together: what they have, and nothing twice.
LEMMA Flattened ==
    ASSUME NEW S, NEW q \in Seq(Seq(S)), Apart(q)
    PROVE  /\ FlattenSeq(q) \in Seq(S)
           /\ Once(FlattenSeq(q))
           /\ \A t : Has(FlattenSeq(q), t) <=> In(q, t)
<1> DEFINE n == Len(q)
<1>0. n \in Nat /\ \A i \in 1..n : q[i] \in Seq(S)
  OBVIOUS
<1>1. CASE n = 0
  <2>1. FlattenSeq(q) = q /\ q = <<>>
    BY <1>1 DEF FlattenSeq
  <2> QED
    BY <2>1 DEF In, Has, Once
<1>2. CASE n # 0
  <2> DEFINE Is(g) == g = [i \in 1..n |-> IF i = 1 THEN q[i] ELSE g[i-1] \o q[i]]
             f == CHOOSE g : Is(g)
  <2>1. FlattenSeq(q) = f[n]
    BY <1>2, Zenon DEF FlattenSeq
  <2>2. \E g : Is(g)
    <3>1. n > 0
      BY <1>0, <1>2
    <3> HIDE DEF n
    <3> QED
      BY <1>0, <3>1, FlattenExists, Zenon
  <2>3. Is(f)
    BY <2>2, Zenon
  <2> HIDE DEF f, n
  <2>4. \A i \in 1..n : f[i] = IF i = 1 THEN q[i] ELSE f[i-1] \o q[i]
    BY <2>3, Zenon
  <2> HIDE DEF Is
  <2> DEFINE Upto(m, t) == \E i \in 1..m : Has(q[i], t)
             Fine(m) == /\ f[m] \in Seq(S) /\ Once(f[m])
                        /\ \A t : Has(f[m], t) <=> Upto(m, t)
             T == {m \in 1..n : ~Fine(m)}
  <2>5. \A i, j \in 1..n : \A x \in 1..Len(q[i]), y \in 1..Len(q[j]) :
          q[i][x] = q[j][y] => i = j /\ x = y
    BY DEF Apart, n
  <2>6. ASSUME T # {} PROVE FALSE
    <3>1. PICK m \in T : \A y \in T : m <= y
      <4>1. T \subseteq Nat
        BY <1>0
      <4> HIDE DEF T
      <4> QED
        BY <2>6, <4>1, LeastNumber
    <3>2. m \in 1..n /\ ~Fine(m)
      BY <3>1
    <3>3. CASE m = 1
      <4>1. f[m] = q[1] /\ q[1] \in Seq(S) /\ 1 \in 1..n
        BY <1>0, <2>4, <3>2, <3>3
      <4>2. \A t : Upto(1, t) <=> Has(q[1], t)
        <5>1. \A i : i \in 1..1 <=> i = 1
          OBVIOUS
        <5> QED
          BY <5>1
      <4>3. Once(q[1])
        BY <2>5, <4>1 DEF Once
      <4> HIDE DEF Upto
      <4>4. Fine(m)
        BY <4>1, <4>2, <4>3, <3>3
      <4> QED
        BY <3>2, <4>4
    <3>4. CASE m # 1
      <4>1. m - 1 \in 1..n /\ m - 1 \notin T
        <5> HIDE DEF T, Fine
        <5> QED
          BY <1>0, <3>1, <3>2, <3>4
      <4>2. Fine(m - 1)
        BY <4>1
      <4> DEFINE a == f[m - 1]
                 b == q[m]
                 c == a \o b
      <4>3. f[m] = c /\ a \in Seq(S) /\ b \in Seq(S)
        BY <1>0, <2>4, <3>2, <3>4, <4>2, Zenon
      <4>4. Once(a) /\ \A t : Has(a, t) <=> Upto(m - 1, t)
        BY <4>2
      <4>5. Once(b)
        BY <2>5, <3>2 DEF Once
      <4>6. ASSUME NEW t, Has(a, t), Has(b, t) PROVE FALSE
        <5>1. PICK k \in 1..(m - 1) : Has(q[k], t)
          BY <4>4, <4>6
        <5>2. k \in 1..n /\ k # m
          BY <1>0, <3>2
        <5>3. PICK x \in 1..Len(q[k]) : q[k][x] = t
          BY <5>1 DEF Has
        <5>4. PICK y \in 1..Len(q[m]) : q[m][y] = t
          BY <4>6 DEF Has
        <5> QED
          BY <2>5, <3>2, <5>2, <5>3, <5>4
      <4> HIDE DEF a, b
      <4>7. c \in Seq(S) /\ Once(c) /\ \A t : Has(c, t) <=> Has(a, t) \/ Has(b, t)
        <5> HIDE DEF Upto
        <5>1. c = a \o b
          OBVIOUS
        <5>2. \A t : ~(Has(a, t) /\ Has(b, t))
          BY <4>6
        <5> HIDE DEF c
        <5> QED
          BY <4>3, <4>4, <4>5, <5>1, <5>2, JoinedOnce, Zenon
      <4>8. \A t : Upto(m, t) <=> Upto(m - 1, t) \/ Has(b, t)
        <5>1. \A i : i \in 1..m <=> i \in 1..(m - 1) \/ i = m
          BY <3>2
        <5> QED
          BY <5>1, Zenon DEF b
      <4> HIDE DEF c, Upto
      <4>9. Fine(m)
        BY <4>3, <4>4, <4>7, <4>8, Zenon
      <4> QED
        BY <3>2, <4>9
    <3> QED
      BY <3>3, <3>4
  <2>7. Fine(n)
    <3>1. n \in 1..n
      BY <1>0, <1>2
    <3>2. n \notin T
      BY <2>6, Zenon
    <3> HIDE DEF Fine
    <3> QED
      BY <3>1, <3>2, Zenon
  <2>8. \A t : Upto(n, t) <=> In(q, t)
    BY DEF In, n
  <2> QED
    BY <2>1, <2>7, <2>8, Zenon
<1> QED
  BY <1>1, <1>2
\* A message put behind the messages q.
LEMMA PutLast ==
    ASSUME NEW S, NEW q \in Seq(Seq(S)), Apart(q), NEW m \in Seq(S), Once(m),
           \A t \in S : ~(Has(m, t) /\ In(q, t))
    PROVE  /\ Append(q, m) \in Seq(Seq(S)) /\ Len(Append(q, m)) = Len(q) + 1
           /\ Append(q, m)[Len(q) + 1] = m
           /\ \A i \in 1..Len(q) : Append(q, m)[i] = q[i]
           /\ Apart(Append(q, m))
           /\ \A t : In(Append(q, m), t) <=> In(q, t) \/ Has(m, t)
<1> DEFINE r == Append(q, m)
           n == Len(q)
<1>1. /\ r \in Seq(Seq(S)) /\ n \in Nat /\ Len(r) = n + 1 /\ r[n + 1] = m
      /\ \A i \in 1..n : r[i] = q[i]
  OBVIOUS
<1>2. \A i \in 1..n : \A x \in 1..Len(q[i]) : q[i][x] \in S
  <2>1. \A i \in 1..n : q[i] \in Seq(S)
    OBVIOUS
  <2> QED
    BY <2>1
<1>3. \A i \in 1..n : \A x \in 1..Len(q[i]), y \in 1..Len(m) : q[i][x] # m[y]
  BY <1>2, Zenon DEF Has, In, n
<1>4. \A i, j \in 1..n : \A x \in 1..Len(q[i]), y \in 1..Len(q[j]) :
        q[i][x] = q[j][y] => i = j /\ x = y
  BY DEF Apart
<1>5. \A i : i \in 1..(n + 1) <=> i \in 1..n \/ i = n + 1
  BY <1>1
<1> HIDE DEF r, n
<1>6. Apart(r)
  <2> SUFFICES ASSUME NEW i \in 1..(n + 1), NEW j \in 1..(n + 1),
                      NEW x \in 1..Len(r[i]), NEW y \in 1..Len(r[j]), r[i][x] = r[j][y]
               PROVE  i = j /\ x = y
    BY <1>1, Zenon DEF Apart
  <2>1. CASE i \in 1..n /\ j \in 1..n
    <3>1. r[i] = q[i] /\ r[j] = q[j]
      BY <1>1, <2>1
    <3> QED
      BY <1>4, <2>1, <3>1
  <2>2. CASE i \in 1..n /\ j = n + 1
    <3>1. r[i] = q[i] /\ r[j] = m
      BY <1>1, <2>2
    <3> QED
      BY <1>3, <2>2, <3>1, Zenon
  <2>3. CASE i = n + 1 /\ j \in 1..n
    <3>1. r[i] = m /\ r[j] = q[j]
      BY <1>1, <2>3
    <3> QED
      BY <1>3, <2>3, <3>1, Zenon
  <2>4. CASE i = n + 1 /\ j = n + 1
    <3>1. r[i] = m /\ r[j] = m
      BY <1>1, <2>4
    <3> QED
      BY <2>4, <3>1, Zenon DEF Once
  <2> QED
    BY <1>5, <2>1, <2>2, <2>3, <2>4, Zenon
<1>7. ASSUME NEW t PROVE In(r, t) <=> In(q, t) \/ Has(m, t)
  <2>1. In(r, t) <=> \E i \in 1..(n + 1) : Has(r[i], t)
    BY <1>1 DEF In
  <2>2. In(q, t) <=> \E i \in 1..n : Has(q[i], t)
    BY DEF In, n
  <2> QED
    BY <1>1, <1>5, <2>1, <2>2, Zenon
<1> QED
  BY <1>1, <1>6, <1>7, Zenon DEF r, n

\* The first of the messages q, and the others.
LEMMA TakeFirst ==
    ASSUME NEW S, NEW q \in Seq(Seq(S)), Apart(q), q # <<>>
    PROVE  /\ Head(q) \in Seq(S) /\ Tail(q) \in Seq(Seq(S))
           /\ Once(Head(q)) /\ Apart(Tail(q))
           /\ \A t : In(q, t) <=> Has(Head(q), t) \/ In(Tail(q), t)
           /\ \A t : ~(Has(Head(q), t) /\ In(Tail(q), t))
<1> DEFINE r == Tail(q)
           n == Len(r)
<1>1. /\ r \in Seq(Seq(S)) /\ n \in Nat /\ Len(q) = n + 1 /\ Head(q) = q[1] /\ Head(q) \in Seq(S)
      /\ \A i \in 1..n : r[i] = q[i + 1]
  OBVIOUS
<1>2. \A i, j \in 1..(n + 1) : \A x \in 1..Len(q[i]), y \in 1..Len(q[j]) :
        q[i][x] = q[j][y] => i = j /\ x = y
  BY <1>1 DEF Apart
<1>3. /\ 1 \in 1..(n + 1)
      /\ \A i \in 1..n : i + 1 \in 1..(n + 1) /\ i + 1 # 1
      /\ \A i, j \in 1..n : i + 1 = j + 1 => i = j
      /\ \A i \in 1..(n + 1) : i # 1 => i - 1 \in 1..n /\ (i - 1) + 1 = i
  BY <1>1
<1> HIDE DEF r, n
<1>4. Once(q[1])
  BY <1>2, <1>3 DEF Once
<1>5. Apart(r)
  <2> SUFFICES ASSUME NEW i \in 1..n, NEW j \in 1..n,
                      NEW x \in 1..Len(r[i]), NEW y \in 1..Len(r[j]), r[i][x] = r[j][y]
               PROVE  i = j /\ x = y
    BY Zenon DEF Apart, n
  <2>1. r[i] = q[i + 1] /\ r[j] = q[j + 1] /\ i + 1 \in 1..(n + 1) /\ j + 1 \in 1..(n + 1)
    BY <1>1
  <2>2. x \in 1..Len(q[i + 1]) /\ y \in 1..Len(q[j + 1]) /\ q[i + 1][x] = q[j + 1][y]
    BY <2>1
  <2>3. i + 1 = j + 1 /\ x = y
    <3> DEFINE k == i + 1
               l == j + 1
    <3>1. /\ k \in 1..(n + 1) /\ l \in 1..(n + 1) /\ x \in 1..Len(q[k]) /\ y \in 1..Len(q[l])
          /\ q[k][x] = q[l][y]
      BY <2>1, <2>2
    <3> HIDE DEF k, l
    <3>3. \A u \in 1..Len(q[k]), v \in 1..Len(q[l]) : q[k][u] = q[l][v] => k = l /\ u = v
      BY <1>2, <3>1
    <3>2. k = l /\ x = y
      BY <3>1, <3>3, Zenon
    <3> QED
      BY <3>2, Zenon DEF k, l
  <2> QED
    BY <1>3, <2>3, Zenon
<1>6. ASSUME NEW t
      PROVE  (In(q, t) <=> Has(q[1], t) \/ In(r, t)) /\ ~(Has(q[1], t) /\ In(r, t))
  <2>1. In(q, t) <=> \E i \in 1..(n + 1) : Has(q[i], t)
    BY <1>1 DEF In
  <2>2. In(r, t) <=> \E i \in 1..n : Has(r[i], t)
    BY DEF In, n
  <2>3. (\E i \in 1..(n + 1) : Has(q[i], t)) <=> Has(q[1], t) \/ \E i \in 1..n : Has(r[i], t)
    <3>1. ASSUME NEW i \in 1..(n + 1), i # 1, Has(q[i], t) PROVE \E j \in 1..n : Has(r[j], t)
      <4>1. i - 1 \in 1..n /\ r[i - 1] = q[i]
        BY <1>1, <3>1
      <4> QED
        BY <3>1, <4>1, Zenon
    <3>2. ASSUME NEW i \in 1..n, Has(r[i], t) PROVE \E j \in 1..(n + 1) : Has(q[j], t)
      <4>1. i + 1 \in 1..(n + 1) /\ r[i] = q[i + 1]
        BY <1>1
      <4> QED
        BY <3>2, <4>1, Zenon
    <3> QED
      BY <1>3, <3>1, <3>2, Zenon
  <2>4. ASSUME Has(q[1], t), NEW i \in 1..n, Has(r[i], t) PROVE FALSE
    <3>1. Has(q[i + 1], t)
      BY <1>1, <2>4
    <3> QED
      BY <1>2, <1>3, <2>4, <3>1 DEF Has
  <2> QED
    BY <2>1, <2>2, <2>3, <2>4, Zenon
<1> QED
  BY <1>1, <1>4, <1>5, <1>6, Zenon DEF r

\* The queued messages put back into the input.
LEMMA PutBack ==
    ASSUME NEW S, NEW m \in Seq(S), NEW q \in Seq(Seq(S)), Once(m), Apart(q),
           \A t \in S : ~(Has(m, t) /\ In(q, t))
    PROVE  /\ m \o FlattenSeq(q) \in Seq(S)
           /\ Once(m \o FlattenSeq(q))
           /\ \A t : Has(m \o FlattenSeq(q), t) <=> Has(m, t) \/ In(q, t)
<1> DEFINE b == FlattenSeq(q)
<1>1. b \in Seq(S) /\ Once(b) /\ \A t : Has(b, t) <=> In(q, t)
  BY Flattened, Zenon
<1> HIDE DEF b
<1>2. \A i \in 1..Len(m) : m[i] \in S
  OBVIOUS
<1>3. ASSUME NEW t, Has(m, t), Has(b, t) PROVE FALSE
  <2>1. t \in S
    BY <1>2, <1>3 DEF Has
  <2> QED
    BY <1>1, <1>3, <2>1, Zenon
<1> DEFINE c == m \o b
<1>4. c = m \o b
  OBVIOUS
<1> HIDE DEF c
<1>5. c \in Seq(S) /\ Once(c) /\ \A t : Has(c, t) <=> Has(m, t) \/ Has(b, t)
  BY <1>1, <1>3, <1>4, JoinedOnce, Zenon
<1> QED
  BY <1>1, <1>4, <1>5, Zenon DEF b

\* Sequences over a smaller set.
LEMMA WiderSeq == ASSUME NEW S, NEW T, S \subseteq T PROVE Seq(S) \subseteq Seq(T)
<1> SUFFICES ASSUME NEW s \in Seq(S) PROVE s \in Seq(T)
  OBVIOUS
<1>1. Len(s) \in Nat /\ s \in [1..Len(s) -> T]
  OBVIOUS
<1> QED
  BY <1>1, SeqDef

\* The initial state has no text.
LEMMA TextInit == TuiInit => TextInv
<1> SUFFICES ASSUME TuiInit PROVE TextInv
  OBVIOUS
<1>1. /\ typed = 0 /\ input = <<>> /\ queue = <<>> /\ sent = <<>> /\ taken = <<>>
  BY DEF TuiInit
<1>2. TextType
  BY <1>1 DEF TextType
<1>3. Texts
  BY <1>1 DEF Texts, Once, Apart
<1>4. Within(taken, sent, Len(sent))
  <2> DEFINE f == [i \in 1..0 |-> 1]
  <2>1. f \in [1..Len(taken) -> 1..0] /\ Len(sent) = 0
    BY <1>1
  <2>2. \A i, j \in 1..Len(taken) : FALSE
    BY <1>1
  <2> QED
    BY <2>1, <2>2, Zenon DEF Within
<1>5. \A c \in DOMAIN cmds : c.cmd # "ingest"
  <2>1. CmdInv /\ ~sending
    BY CmdInit DEF TuiInit
  <2> QED
    BY <2>1 DEF CmdInv, Ingests, NoCmd
<1> QED
  BY <1>2, <1>3, <1>4, <1>5 DEF TextInv, Taken

textVars == <<typed, input, queue, sent>>

\* A step that leaves the texts where they are.
LEMMA TextsAlone ==
    ASSUME TextType, Texts, UNCHANGED textVars PROVE Texts'
  BY DEF TextType, Texts, Once, Apart, Has, In, textVars

\* A text is typed.
LEMMA TypeTexts == ASSUME TextType, Texts, Type PROVE TextType' /\ Texts'
<1> DEFINE n == typed
<1>1. /\ typed' = n + 1 /\ input' = Append(input, n + 1) /\ queue' = queue /\ sent' = sent
      /\ taken' = taken /\ n \in Nat
  BY DEF Type, TextType, relay
<1>2. /\ input \in Seq(1..n) /\ queue \in Seq(Seq(1..n)) /\ sent \in Seq(Seq(1..n))
      /\ taken \in Seq(Seq(Nat))
  BY DEF TextType
<1>3. /\ Once(input) /\ Apart(queue) /\ Apart(sent)
      /\ \A t \in 1..n : /\ Has(input, t) \/ In(queue, t) \/ In(sent, t)
                         /\ ~(Has(input, t) /\ In(queue, t))
                         /\ ~(Has(input, t) /\ In(sent, t))
                         /\ ~(In(queue, t) /\ In(sent, t))
  BY DEF Texts
<1> HIDE DEF n
<1>4. Seq(1..n) \subseteq Seq(1..(n + 1)) /\ Seq(Seq(1..n)) \subseteq Seq(Seq(1..(n + 1)))
  <2>1. (1..n) \subseteq 1..(n + 1)
    BY <1>1
  <2>2. Seq(1..n) \subseteq Seq(1..(n + 1))
    BY <2>1, WiderSeq
  <2> QED
    BY <2>2, WiderSeq
<1>5. input \in Seq(1..(n + 1)) /\ n + 1 \in 1..(n + 1)
  BY <1>1, <1>2, <1>4
<1>6. input' \in Seq(1..(n + 1))
  BY <1>1, <1>5
<1>7. TextType'
  BY <1>1, <1>2, <1>4, <1>6 DEF TextType
<1> DEFINE r == Append(input, n + 1)
           k == Len(input)
<1>8. /\ k \in Nat /\ Len(r) = k + 1 /\ r[k + 1] = n + 1
      /\ \A i \in 1..k : r[i] = input[i] /\ input[i] \in 1..n
  <2>1. \A i \in 1..k : input[i] \in 1..n
    BY <1>2, ElementOfSeq, Zenon
  <2>2. /\ k \in Nat /\ Len(r) = k + 1 /\ r[k + 1] = n + 1
        /\ \A i \in 1..k : r[i] = input[i]
    <3> HIDE DEF n
    <3>1. ASSUME NEW S, NEW m \in Seq(S), NEW e \in S
          PROVE  /\ Len(m) \in Nat /\ Len(Append(m, e)) = Len(m) + 1
                 /\ Append(m, e)[Len(m) + 1] = e
                 /\ \A i \in 1..Len(m) : Append(m, e)[i] = m[i]
      OBVIOUS
    <3> QED
      BY <1>5, <3>1
  <2> QED
    BY <2>1, <2>2
<1>9. \A i : i \in 1..(k + 1) <=> i \in 1..k \/ i = k + 1
  BY <1>8
<1>10. n + 1 \notin 1..n
  BY <1>1
<1> HIDE DEF r, k
<1>11. Once(r)
  <2>1. \A i, j \in 1..k : input[i] = input[j] => i = j
    BY <1>3 DEF Once, k
  <2> QED
    BY <1>8, <1>9, <1>10, <2>1, Zenon DEF Once
<1>12. \A t : Has(r, t) <=> Has(input, t) \/ t = n + 1
  <2>1. \A t : Has(input, t) <=> \E i \in 1..k : input[i] = t
    BY DEF Has, k
  <2> QED
    BY <1>8, <1>9, <2>1, Zenon DEF Has
<1>13. ASSUME NEW q \in Seq(Seq(1..n)), NEW t, In(q, t) PROVE t \in 1..n
  <2>1. PICK i \in 1..Len(q) : Has(q[i], t)
    BY <1>13 DEF In
  <2>2. q[i] \in Seq(1..n)
    OBVIOUS
  <2>3. PICK x \in 1..Len(q[i]) : q[i][x] = t
    BY <2>1 DEF Has
  <2> QED
    BY <2>2, <2>3, ElementOfSeq, Zenon
<1>14. \A t \in 1..(n + 1) :
          /\ Has(r, t) \/ In(queue, t) \/ In(sent, t)
          /\ ~(Has(r, t) /\ In(queue, t))
          /\ ~(Has(r, t) /\ In(sent, t))
          /\ ~(In(queue, t) /\ In(sent, t))
  <2>1. \A t \in 1..(n + 1) : t \in 1..n \/ t = n + 1
    BY <1>1
  <2>2. ~In(queue, n + 1) /\ ~In(sent, n + 1)
    BY <1>2, <1>10, <1>13, Zenon
  <2> QED
    BY <1>3, <1>10, <1>12, <2>1, <2>2, Zenon
<1>15. typed' = n + 1 /\ input' = r
  BY <1>1 DEF r
<1>16. Texts'
  BY <1>1, <1>3, <1>11, <1>14, <1>15, Zenon DEF Texts
<1> QED
  BY <1>7, <1>16

\* The input becomes the last of the queued messages, or of those sent.
LEMMA EnterTexts == ASSUME TextType, Texts, Enter PROVE TextType' /\ Texts'
<1>1. /\ input' = <<>> /\ typed' = typed /\ taken' = taken /\ typed \in Nat
      /\ \/ queue' = Append(queue, input) /\ sent' = sent
         \/ sent' = Append(sent, input) /\ queue' = queue
  BY DEF Enter, SendMessage, relay, TextType
<1> DEFINE S == 1..typed
<1>2. /\ input \in Seq(S) /\ queue \in Seq(Seq(S)) /\ sent \in Seq(Seq(S))
      /\ taken \in Seq(Seq(Nat))
  BY DEF TextType
<1>3. /\ Once(input) /\ Apart(queue) /\ Apart(sent)
      /\ \A t \in S : /\ Has(input, t) \/ In(queue, t) \/ In(sent, t)
                      /\ ~(Has(input, t) /\ In(queue, t))
                      /\ ~(Has(input, t) /\ In(sent, t))
                      /\ ~(In(queue, t) /\ In(sent, t))
  BY DEF Texts
<1>4. S' = S
  BY <1>1
<1>5. <<>> \in Seq(S) /\ Once(<<>>) /\ \A t : ~Has(<<>>, t)
  BY DEF Once, Has
<1>6. CASE queue' = Append(queue, input) /\ sent' = sent
  <2> DEFINE r == Append(queue, input)
  <2>1. /\ r \in Seq(Seq(S)) /\ Apart(r)
        /\ \A t : In(r, t) <=> In(queue, t) \/ Has(input, t)
    <3> HIDE DEF S
    <3>1. \A t \in S : ~(Has(input, t) /\ In(queue, t))
      BY <1>3, Zenon
    <3> QED
      BY <1>2, <1>3, <3>1, PutLast, Zenon
  <2> HIDE DEF r
  <2>2. queue' = r
    BY <1>6 DEF r
  <2>3. TextType'
    BY <1>1, <1>2, <1>5, <1>6, <2>1, <2>2 DEF TextType
  <2>4. \A t \in S : /\ Has(<<>>, t) \/ In(r, t) \/ In(sent, t)
                     /\ ~(Has(<<>>, t) /\ In(r, t))
                     /\ ~(Has(<<>>, t) /\ In(sent, t))
                     /\ ~(In(r, t) /\ In(sent, t))
    BY <1>3, <1>5, <2>1, Zenon
  <2>5. Texts'
    BY <1>1, <1>3, <1>5, <1>6, <2>1, <2>2, <2>4, Zenon DEF Texts
  <2> QED
    BY <2>3, <2>5
<1>7. CASE sent' = Append(sent, input) /\ queue' = queue
  <2> DEFINE r == Append(sent, input)
  <2>1. /\ r \in Seq(Seq(S)) /\ Apart(r)
        /\ \A t : In(r, t) <=> In(sent, t) \/ Has(input, t)
    <3> HIDE DEF S
    <3>1. \A t \in S : ~(Has(input, t) /\ In(sent, t))
      BY <1>3, Zenon
    <3> QED
      BY <1>2, <1>3, <3>1, PutLast, Zenon
  <2> HIDE DEF r
  <2>2. sent' = r
    BY <1>7 DEF r
  <2>3. TextType'
    BY <1>1, <1>2, <1>5, <1>7, <2>1, <2>2 DEF TextType
  <2>4. \A t \in S : /\ Has(<<>>, t) \/ In(queue, t) \/ In(r, t)
                     /\ ~(Has(<<>>, t) /\ In(queue, t))
                     /\ ~(Has(<<>>, t) /\ In(r, t))
                     /\ ~(In(queue, t) /\ In(r, t))
    BY <1>3, <1>5, <2>1, Zenon
  <2>5. Texts'
    BY <1>1, <1>3, <1>5, <1>7, <2>1, <2>2, <2>4, Zenon DEF Texts
  <2> QED
    BY <2>3, <2>5
<1> QED
  BY <1>1, <1>6, <1>7

\* The queue goes back into the input.
LEMMA ReturnTexts ==
    ASSUME TextType, Texts, ReturnQueueToInput, UNCHANGED <<typed, sent, taken>>
    PROVE  TextType' /\ Texts'
<1> DEFINE S == 1..typed
           r == input \o FlattenSeq(queue)
<1>1. /\ input' = r /\ queue' = <<>> /\ typed' = typed /\ sent' = sent /\ taken' = taken
      /\ typed \in Nat
  BY DEF ReturnQueueToInput, TextType
<1>2. /\ input \in Seq(S) /\ queue \in Seq(Seq(S)) /\ sent \in Seq(Seq(S))
      /\ taken \in Seq(Seq(Nat))
  BY DEF TextType
<1>3. /\ Once(input) /\ Apart(queue) /\ Apart(sent)
      /\ \A t \in S : /\ Has(input, t) \/ In(queue, t) \/ In(sent, t)
                      /\ ~(Has(input, t) /\ In(queue, t))
                      /\ ~(Has(input, t) /\ In(sent, t))
                      /\ ~(In(queue, t) /\ In(sent, t))
  BY DEF Texts
<1>4. <<>> \in Seq(Seq(S)) /\ Apart(<<>>) /\ \A t : ~In(<<>>, t)
  BY DEF Apart, In
<1>5. r \in Seq(S) /\ Once(r) /\ \A t : Has(r, t) <=> Has(input, t) \/ In(queue, t)
  <2> HIDE DEF S
  <2>1. \A t \in S : ~(Has(input, t) /\ In(queue, t))
    BY <1>3, Zenon
  <2> QED
    BY <1>2, <1>3, <2>1, PutBack, Zenon
<1> HIDE DEF r
<1>6. TextType'
  BY <1>1, <1>2, <1>4, <1>5 DEF TextType
<1>7. \A t \in S : /\ Has(r, t) \/ In(<<>>, t) \/ In(sent, t)
                   /\ ~(Has(r, t) /\ In(<<>>, t))
                   /\ ~(Has(r, t) /\ In(sent, t))
                   /\ ~(In(<<>>, t) /\ In(sent, t))
  BY <1>3, <1>4, <1>5, Zenon
<1>8. Texts'
  BY <1>1, <1>3, <1>4, <1>5, <1>7, Zenon DEF Texts
<1> QED
  BY <1>6, <1>8

\* The oldest queued message is sent.
LEMMA NextTexts ==
    ASSUME TextType, Texts, queue # <<>>, sent' = Append(sent, Head(queue)),
           queue' = Tail(queue), UNCHANGED <<typed, input, taken>>
    PROVE  TextType' /\ Texts'
<1> DEFINE S == 1..typed
           h == Head(queue)
           r == Tail(queue)
           s == Append(sent, h)
<1>1. /\ sent' = s /\ queue' = r /\ typed' = typed /\ input' = input /\ taken' = taken
      /\ typed \in Nat
  BY DEF TextType
<1>2. /\ input \in Seq(S) /\ queue \in Seq(Seq(S)) /\ sent \in Seq(Seq(S))
      /\ taken \in Seq(Seq(Nat))
  BY DEF TextType
<1>3. /\ Once(input) /\ Apart(queue) /\ Apart(sent)
      /\ \A t \in S : /\ Has(input, t) \/ In(queue, t) \/ In(sent, t)
                      /\ ~(Has(input, t) /\ In(queue, t))
                      /\ ~(Has(input, t) /\ In(sent, t))
                      /\ ~(In(queue, t) /\ In(sent, t))
  BY DEF Texts
<1>4. /\ h \in Seq(S) /\ r \in Seq(Seq(S)) /\ Once(h) /\ Apart(r)
      /\ \A t : In(queue, t) <=> Has(h, t) \/ In(r, t)
      /\ \A t : ~(Has(h, t) /\ In(r, t))
  <2> HIDE DEF S
  <2> QED
    BY <1>2, <1>3, TakeFirst, Zenon
<1> HIDE DEF h, r
<1>5. s \in Seq(Seq(S)) /\ Apart(s) /\ \A t : In(s, t) <=> In(sent, t) \/ Has(h, t)
  <2> HIDE DEF S
  <2>1. \A t \in S : ~(Has(h, t) /\ In(sent, t))
    BY <1>3, <1>4, Zenon
  <2> QED
    BY <1>2, <1>3, <1>4, <2>1, PutLast, Zenon
<1> HIDE DEF s
<1>6. TextType'
  BY <1>1, <1>2, <1>4, <1>5 DEF TextType
<1>7. \A t \in S : /\ Has(input, t) \/ In(r, t) \/ In(s, t)
                   /\ ~(Has(input, t) /\ In(r, t))
                   /\ ~(Has(input, t) /\ In(s, t))
                   /\ ~(In(r, t) /\ In(s, t))
  BY <1>3, <1>4, <1>5, Zenon
<1>8. Texts'
  BY <1>1, <1>3, <1>4, <1>5, <1>7, Zenon DEF Texts
<1> QED
  BY <1>6, <1>8

\* A message more sent leaves what was taken within the earlier ones.
LEMMA WithinLonger ==
    ASSUME NEW S, NEW s \in Seq(S), NEW m \in S, NEW a, Within(a, s, Len(s))
    PROVE  /\ Append(s, m) # <<>> /\ Append(s, m)[Len(Append(s, m))] = m
           /\ Within(a, Append(s, m), Len(Append(s, m)) - 1)
           /\ Within(a, Append(s, m), Len(Append(s, m)))
<1> DEFINE r == Append(s, m)
           n == Len(s)
<1>1. /\ n \in Nat /\ Len(r) = n + 1 /\ r[n + 1] = m /\ r # <<>>
      /\ \A i \in 1..n : r[i] = s[i]
  OBVIOUS
<1>2. PICK f \in [1..Len(a) -> 1..n] : /\ \A i \in 1..Len(a) : a[i] = s[f[i]]
                                       /\ \A i, j \in 1..Len(a) : i < j => f[i] < f[j]
  BY DEF Within
<1> HIDE DEF r, n
<1>3. \A i \in 1..Len(a) : a[i] = r[f[i]]
  BY <1>1, <1>2
<1>4. Len(r) - 1 = n
  BY <1>1
<1>5. f \in [1..Len(a) -> 1..(n + 1)]
  <2>1. \A i \in 1..n : i \in 1..(n + 1)
    BY <1>1
  <2> QED
    BY <1>2, <2>1
<1>6. Within(a, r, n) /\ Within(a, r, n + 1)
  BY <1>2, <1>3, <1>5, Zenon DEF Within
<1> QED
  BY <1>1, <1>4, <1>6 DEF r

\* The last message sent is taken.
LEMMA WithinTakes ==
    ASSUME NEW S, NEW a \in Seq(S), NEW s \in Seq(S), s # <<>>, Within(a, s, Len(s) - 1)
    PROVE  Within(Append(a, s[Len(s)]), s, Len(s))
<1> DEFINE n == Len(s)
           k == Len(a)
           b == Append(a, s[n])
<1>1. n \in Nat /\ n > 0 /\ k \in Nat
  OBVIOUS
<1>2. s[n] \in S
  <2>1. n \in 1..n
    BY <1>1
  <2> QED
    BY <2>1, ElementOfSeq, Zenon
<1>3. Len(b) = k + 1 /\ b[k + 1] = s[n] /\ \A i \in 1..k : b[i] = a[i]
  <2>1. ASSUME NEW e \in S
        PROVE  /\ Len(Append(a, e)) = Len(a) + 1
               /\ Append(a, e)[Len(a) + 1] = e
               /\ \A i \in 1..Len(a) : Append(a, e)[i] = a[i]
    OBVIOUS
  <2> QED
    BY <1>2, <2>1, Zenon
<1>4. PICK f \in [1..k -> 1..(n - 1)] : /\ \A i \in 1..k : a[i] = s[f[i]]
                                        /\ \A i, j \in 1..k : i < j => f[i] < f[j]
  BY DEF Within
<1> HIDE DEF n, k, b
<1> DEFINE g == [i \in 1..(k + 1) |-> IF i = k + 1 THEN n ELSE f[i]]
<1>5. \A i \in 1..(k + 1) : i # k + 1 => i \in 1..k
  BY <1>1
<1>6. \A i \in 1..k : f[i] \in 1..(n - 1)
  BY <1>4
<1>7. g \in [1..(k + 1) -> 1..n]
  BY <1>1, <1>5, <1>6
<1>8. \A i \in 1..(k + 1) : g[i] = IF i = k + 1 THEN n ELSE f[i]
  OBVIOUS
<1> HIDE DEF g
<1>9. \A i \in 1..(k + 1) : b[i] = s[g[i]]
  BY <1>3, <1>4, <1>5, <1>8, Zenon
<1>10. ASSUME NEW i \in 1..(k + 1), NEW j \in 1..(k + 1), i < j PROVE g[i] < g[j]
  <2>1. i \in 1..k /\ i # k + 1
    BY <1>1, <1>10
  <2>2. g[i] = f[i] /\ f[i] \in 1..(n - 1)
    BY <1>6, <1>8, <2>1
  <2>3. CASE j = k + 1
    BY <1>1, <1>8, <2>2, <2>3
  <2>4. CASE j # k + 1
    <3>1. j \in 1..k /\ g[j] = f[j]
      BY <1>5, <1>8, <2>4
    <3> QED
      BY <1>4, <1>10, <2>1, <2>2, <3>1
  <2> QED
    BY <2>3, <2>4
<1>11. Within(b, s, n)
  BY <1>3, <1>7, <1>9, <1>10, Zenon DEF Within
<1> QED
  BY <1>11 DEF b, n

\* A step that sends nothing and after which nothing more is taken.
LEMMA TakenAlone ==
    ASSUME Taken, UNCHANGED <<sent, taken>>, phase' # "quit" => phase # "quit",
           \A c \in DOMAIN cmds' : c.cmd = "ingest" =>
             \E d \in DOMAIN cmds : d.cmd = "ingest" /\ c.arg = d.arg
                                    /\ (c.stage = "run" => d.stage = "run")
    PROVE  Taken'
<1>1. sent' = sent /\ taken' = taken
  OBVIOUS
<1>2. /\ phase # "quit" => Within(taken, sent, Len(sent))
      /\ \A c \in DOMAIN cmds : c.cmd = "ingest" =>
           /\ sent # <<>> /\ c.arg = sent[Len(sent)]
           /\ c.stage = "run" => Within(taken, sent, Len(sent) - 1)
  BY DEF Taken
<1>3. \A c \in DOMAIN cmds' : c.cmd = "ingest" =>
           /\ sent # <<>> /\ c.arg = sent[Len(sent)]
           /\ c.stage = "run" => Within(taken, sent, Len(sent) - 1)
  BY <1>2, Zenon
<1> QED
  BY <1>1, <1>2, <1>3, Zenon DEF Taken

\* A command that is replaced by one that is no ingest, or by itself at a later stage.
LEMMA TakenBecomes ==
    ASSUME CmdInv, Taken, NEW c \in DOMAIN cmds, NEW d, IsCmd(d), Becomes(c, d),
           d.cmd = "ingest" => c.cmd = "ingest" /\ d.arg = c.arg /\ d.stage # "run",
           UNCHANGED <<sent, taken>>, phase' # "quit"
    PROVE  Taken'
<1>1. IsCmds(cmds) /\ phase # "quit"
  BY InChat
<1>2. DOMAIN cmds' \subseteq DOMAIN cmds \cup {d}
  BY <1>1, ReplacedKinds, Zenon DEF Becomes
<1> QED
  BY <1>1, <1>2, TakenAlone

\* A command ends.
LEMMA TakenDone ==
    ASSUME CmdInv, Taken, NEW c \in DOMAIN cmds, Done(c), UNCHANGED <<sent, taken>>,
           phase' # "quit"
    PROVE  Taken'
<1>1. IsCmds(cmds) /\ phase # "quit"
  BY InChat
<1>2. DOMAIN cmds' \subseteq DOMAIN cmds
  BY <1>1, Ended, Zenon DEF Done
<1> QED
  BY <1>1, <1>2, TakenAlone

\* A message is sent.
LEMMA TakenSend ==
    ASSUME TextType, Taken, NEW m \in Seq(1..typed), NEW others, IsCmds(others),
           NoCmd(others, {"ingest"}), SendMessage(m, others), taken' = taken, phase # "quit"
    PROVE  Taken'
<1> DEFINE d == Cmd("ingest", current, conv, m)
           r == Append(sent, m)
<1>1. IsCmd(d) /\ d.arg = m
  BY DEF IsCmd, Cmd
<1>2. cmds' = others (+) SetToBag({d}) /\ sent' = r
  BY DEF SendMessage
<1> HIDE DEF d
<1>3. DOMAIN cmds' = DOMAIN others \cup {d}
  BY <1>1, <1>2, Started, Zenon
<1>4. /\ r # <<>> /\ r[Len(r)] = m
      /\ Within(taken, r, Len(r) - 1) /\ Within(taken, r, Len(r))
  <2>1. sent \in Seq(Seq(1..typed)) /\ Within(taken, sent, Len(sent))
    BY DEF TextType, Taken
  <2> QED
    BY <2>1, WithinLonger, Zenon
<1> HIDE DEF r
<1>5. \A c \in DOMAIN cmds' : c.cmd = "ingest" => c = d
  BY <1>3 DEF NoCmd
<1>6. \A c \in DOMAIN cmds' : c.cmd = "ingest" =>
           /\ r # <<>> /\ c.arg = r[Len(r)]
           /\ c.stage = "run" => Within(taken, r, Len(r) - 1)
  BY <1>1, <1>4, <1>5
<1> QED
  BY <1>2, <1>4, <1>6, Zenon DEF Taken

\* A step that leaves the texts and what was taken alone preserves their part.
LEMMA TextPart ==
    ASSUME TextInv, UNCHANGED <<textVars, taken>>, Taken' PROVE TextInv'
<1>1. Texts'
  BY TextsAlone DEF TextInv, textVars
<1>2. TextType'
  BY DEF TextInv, TextType, textVars
<1> QED
  BY <1>1, <1>2 DEF TextInv

\* The program ends.
LEMMA QuitTexts == ASSUME TextInv, Quit PROVE TextInv'
<1>1. /\ typed' = 0 /\ input' = <<>> /\ queue' = <<>> /\ sent' = <<>> /\ taken' = taken
      /\ phase' = "quit" /\ cmds' = [e \in {} |-> 1]
  BY DEF Quit, EmptyBag, SetToBag
<1>2. TextType'
  BY <1>1 DEF TextInv, TextType
<1>3. Texts'
  BY <1>1 DEF Texts, Once, Apart
<1>4. Taken'
  BY <1>1 DEF Taken
<1> QED
  BY <1>2, <1>3, <1>4 DEF TextInv

\* The user's steps.
LEMMA UserTexts == ASSUME CmdInv, TextInv, User PROVE TextInv'
<1> USE DEF TextInv
<1>1. CASE Type
  <2>1. cmds' = cmds /\ UNCHANGED <<sent, taken, phase>>
    BY <1>1 DEF Type, relay
  <2>2. Taken'
    BY <2>1, TakenAlone
  <2> QED
    BY <1>1, <2>2, TypeTexts
<1>2. CASE Enter
  <2>1. taken' = taken /\ phase = "chat" /\ phase' = phase
    BY <1>2 DEF Enter, AcceptsInput, relay
  <2>2. CASE running \/ sending
    <3>1. UNCHANGED <<sent, cmds>>
      BY <1>2, <2>2 DEF Enter
    <3>2. Taken'
      BY <2>1, <3>1, TakenAlone
    <3> QED
      BY <1>2, <3>2, EnterTexts
  <2>3. CASE ~(running \/ sending)
    <3>1. SendMessage(input, cmds)
      BY <1>2, <2>3 DEF Enter
    <3>2. IsCmds(cmds) /\ NoCmd(cmds, {"ingest"}) /\ input \in Seq(1..typed)
      BY <2>3 DEF CmdInv, ClientType, Ingests, TextType
    <3>3. Taken'
      BY <2>1, <3>1, <3>2, TakenSend
    <3> QED
      BY <1>2, <3>3, EnterTexts
  <2> QED
    BY <2>2, <2>3
<1>3. CASE Esc
  <2>1. UNCHANGED <<typed, sent, taken, phase>> /\ phase = "chat"
    BY <1>3 DEF Esc, history, relay
  <2>2. CASE ReturnQueueToInput /\ UNCHANGED cmds
    <3>1. Taken'
      BY <2>1, <2>2, TakenAlone
    <3> QED
      BY <2>1, <2>2, <3>1, ReturnTexts
  <2>3. CASE Start({Cmd("cancel", current, conv, None)}) /\ UNCHANGED <<input, queue>>
    <3> DEFINE d == Cmd("cancel", current, conv, None)
    <3>1. IsCmd(d) /\ d.cmd = "cancel" /\ cmds' = cmds (+) SetToBag({d})
      BY <2>3 DEF Cmd, IsCmd, Start
    <3> HIDE DEF d
    <3>2. IsCmds(cmds)
      BY DEF CmdInv, ClientType
    <3>3. DOMAIN cmds' = DOMAIN cmds \cup {d}
      BY <3>1, <3>2, Started, Zenon
    <3>4. Taken'
      BY <2>1, <3>1, <3>3, TakenAlone
    <3> QED
      BY <2>1, <2>3, <3>4, TextPart DEF textVars
  <2> QED
    BY <1>3, <2>2, <2>3 DEF Esc
<1>4. CASE CtrlC
  BY <1>4, QuitTexts DEF CtrlC
<1> QED
  BY <1>1, <1>2, <1>3, <1>4 DEF User

\* A reconnect carries no text.
LEMMA ReconnectTexts == ASSUME CmdInv, TextInv, Reconnect PROVE TextInv'
<1> USE DEF TextInv
<1>1. PICK c \in Pending :
        \/ WorkspacesMsg(c) \/ Dial(c) \/ OpenConversation(c) \/ ConnectedMsg(c) \/ ConnErrMsg(c)
        \/ OpenFailedMsg(c) \/ RetryTickMsg(c)
  BY DEF Reconnect
<1>2. c \in DOMAIN cmds /\ IsCmd(c) /\ phase # "quit"
  BY InChat DEF Pending, BagToSet
<1>3. CASE OpenFailedMsg(c)
  BY <1>3, QuitTexts DEF OpenFailedMsg
<1>4. CASE WorkspacesMsg(c) \/ Dial(c) \/ OpenConversation(c) \/ ConnectedMsg(c) \/ ConnErrMsg(c)
           \/ RetryTickMsg(c)
  <2>1. UNCHANGED <<textVars, taken>>
    BY <1>4 DEF WorkspacesMsg, Dial, OpenConversation, ConnectedMsg, ConnErrMsg, RetryTickMsg,
                OnlyCmds, screen, history, relay, textVars
  <2>2. phase' # "quit"
    BY <1>2, <1>4 DEF WorkspacesMsg, SelectWorkspace, Dial, OpenConversation, ConnectedMsg,
                      ConnErrMsg, RetryTickMsg, OnlyCmds, screen
  <2>3. Done(c) \/ \E d : IsCmd(d) /\ d.cmd # "ingest" /\ Becomes(c, d)
    <3>1. CASE WorkspacesMsg(c)
      <4>1. IsCmd(Connect) /\ Connect.cmd # "ingest"
        BY ConnectFacts
      <4> QED
        BY <3>1, <4>1 DEF WorkspacesMsg, SelectWorkspace
    <3>2. CASE Dial(c)
      <4>1. c.cmd = "connect" /\ \E n, s, d : (d = WithStream(c, n, s) \/ d = [c EXCEPT !.stage = s]) /\ Becomes(c, d)
        BY <3>2 DEF Dial, Comes, WithStream
      <4>2. ASSUME NEW n, NEW s, NEW d, d = WithStream(c, n, s) \/ d = [c EXCEPT !.stage = s]
            PROVE  IsCmd(d) /\ d.cmd = c.cmd
        <5>1. CASE d = WithStream(c, n, s)
          BY <1>2, <5>1, StagedStream
        <5>2. CASE d = [c EXCEPT !.stage = s]
          BY <1>2, <5>2, Staged, Zenon
        <5> QED
          BY <4>2, <5>1, <5>2
      <4>3. c.cmd # "ingest"
        BY <4>1
      <4> QED
        BY <4>1, <4>2, <4>3, Zenon
    <3>3. CASE OpenConversation(c)
      <4>1. c.cmd = "connect" /\ \E s, x, d : (d = WithArg(c, s, x) \/ d = [c EXCEPT !.stage = s]) /\ Becomes(c, d)
        BY <3>3 DEF OpenConversation, Comes, WithArg
      <4>2. ASSUME NEW s, NEW x, NEW d, d = WithArg(c, s, x) \/ d = [c EXCEPT !.stage = s]
            PROVE  IsCmd(d) /\ d.cmd = c.cmd
        <5>1. CASE d = WithArg(c, s, x)
          BY <1>2, <5>1, StagedArg
        <5>2. CASE d = [c EXCEPT !.stage = s]
          BY <1>2, <5>2, Staged, Zenon
        <5> QED
          BY <4>2, <5>1, <5>2
      <4>3. c.cmd # "ingest"
        BY <4>1
      <4> QED
        BY <4>1, <4>2, <4>3, Zenon
    <3>4. CASE ConnectedMsg(c)
      <4>1. IsCmd(Recv(c.stream)) /\ Recv(c.stream).cmd # "ingest"
        BY DEF Recv, Cmd, IsCmd
      <4> QED
        BY <3>4, <4>1, Zenon DEF ConnectedMsg
    <3>5. CASE ConnErrMsg(c)
      <4>1. IsCmd(Tick) /\ Tick.cmd # "ingest"
        BY DEF Tick, Cmd, IsCmd
      <4> QED
        BY <3>5, <4>1, Zenon DEF ConnErrMsg, Retry
    <3>6. CASE RetryTickMsg(c)
      <4>1. IsCmd(Connect) /\ Connect.cmd # "ingest"
        BY ConnectFacts
      <4> QED
        BY <3>6, <4>1, Zenon DEF RetryTickMsg
    <3> QED
      BY <1>4, <3>1, <3>2, <3>3, <3>4, <3>5, <3>6
  <2>4. UNCHANGED <<sent, taken>>
    BY <2>1 DEF textVars
  <2>5. Taken'
    BY <1>2, <2>2, <2>3, <2>4, TakenDone, TakenBecomes
  <2> QED
    BY <2>1, <2>5, TextPart
<1> QED
  BY <1>1, <1>3, <1>4

\* A frame is handled: the queue may move, or go back to the input.
LEMMA FrameTexts == ASSUME CmdInv, TextInv, NEW c \in Pending, FrameMsg(c) PROVE TextInv'
<1> USE DEF TextInv
<1>1. c \in DOMAIN cmds /\ c.cmd = "recv" /\ UNCHANGED <<phase, typed, taken>>
  BY DEF FrameMsg, Msg, Pending, BagToSet, relay
<1>2. IsCmds(cmds) /\ phase = "chat"
  BY <1>1, InChat
<1> DEFINE d == Recv(current)
           C == (cmds (-) SetToBag({c})) (+) SetToBag({d})
<1>3. IsCmd(d) /\ d.cmd = "recv"
  BY DEF Recv, Cmd, IsCmd
<1>4. \/ /\ queue # <<>> /\ ~sending /\ SendMessage(Head(queue), C)
         /\ queue' = Tail(queue) /\ UNCHANGED input
      \/ /\ cmds' = C /\ UNCHANGED sent
         /\ ReturnQueueToInput \/ UNCHANGED <<input, queue>>
  BY DEF FrameMsg, QueueMoves
<1> HIDE DEF d
<1>5. CASE cmds' = C /\ UNCHANGED sent /\ (ReturnQueueToInput \/ UNCHANGED <<input, queue>>)
  <2>1. Becomes(c, d) /\ phase' # "quit" /\ d.cmd # "ingest"
    BY <1>1, <1>2, <1>3, <1>5 DEF Becomes
  <2>2. Taken'
    BY <1>1, <1>3, <1>5, <2>1, TakenBecomes
  <2>3. CASE ReturnQueueToInput
    BY <1>1, <1>5, <2>2, <2>3, ReturnTexts
  <2>4. CASE UNCHANGED <<input, queue>>
    BY <1>1, <1>5, <2>2, <2>4, TextPart DEF textVars
  <2> QED
    BY <1>5, <2>3, <2>4
<1>6. CASE /\ queue # <<>> /\ ~sending /\ SendMessage(Head(queue), C)
           /\ queue' = Tail(queue) /\ UNCHANGED input
  <2>1. sent' = Append(sent, Head(queue))
    BY <1>6 DEF SendMessage
  <2>2. TextType' /\ Texts'
    BY <1>1, <1>6, <2>1, NextTexts
  <2>3. Head(queue) \in Seq(1..typed)
    <3>1. queue \in Seq(Seq(1..typed))
      BY DEF TextType
    <3> QED
      BY <1>6, <3>1
  <2>4. NoCmd(cmds, {"ingest"}) /\ d.cmd \notin {"ingest"}
    BY <1>3, <1>6 DEF CmdInv, Ingests
  <2>5. IsCmds(C) /\ NoCmd(C, {"ingest"})
    BY <1>1, <1>2, <1>3, <2>4, ReplacedKinds, Zenon
  <2>6. Taken'
    <3> HIDE DEF C
    <3> QED
      BY <1>1, <1>2, <1>6, <2>3, <2>5, TakenSend
  <2> QED
    BY <2>2, <2>6
<1> QED
  BY <1>4, <1>5, <1>6

\* What is read from a stream, and its loss.
LEMMA ListenTexts == ASSUME CmdInv, TextInv, Listen PROVE TextInv'
<1> USE DEF TextInv
<1>1. PICK c \in Pending : Receive(c) \/ FrameMsg(c) \/ StreamErrMsg(c)
  BY DEF Listen
<1>2. c \in DOMAIN cmds /\ IsCmd(c) /\ phase # "quit"
  BY InChat DEF Pending, BagToSet
<1>3. CASE FrameMsg(c)
  BY <1>3, FrameTexts
<1>4. CASE Receive(c) \/ StreamErrMsg(c)
  <2>1. UNCHANGED <<textVars, taken>> /\ phase' # "quit"
    BY <1>2, <1>4 DEF Receive, StreamErrMsg, OnlyCmds, screen, history, relay, textVars
  <2>2. Done(c) \/ \E d : IsCmd(d) /\ d.cmd # "ingest" /\ Becomes(c, d)
    <3>1. CASE Receive(c)
      <4>1. c.cmd = "recv" /\ \E s, x, d : (d = WithArg(c, s, x) \/ d = [c EXCEPT !.stage = s]) /\ Becomes(c, d)
        BY <3>1 DEF Receive, Comes, WithArg
      <4>2. ASSUME NEW s, NEW x, NEW d, d = WithArg(c, s, x) \/ d = [c EXCEPT !.stage = s]
            PROVE  IsCmd(d) /\ d.cmd = c.cmd
        <5>1. CASE d = WithArg(c, s, x)
          BY <1>2, <5>1, StagedArg
        <5>2. CASE d = [c EXCEPT !.stage = s]
          BY <1>2, <5>2, Staged, Zenon
        <5> QED
          BY <4>2, <5>1, <5>2
      <4>3. c.cmd # "ingest"
        BY <4>1
      <4> QED
        BY <4>1, <4>2, <4>3, Zenon
    <3>2. CASE StreamErrMsg(c)
      <4>1. IsCmd(Tick) /\ Tick.cmd # "ingest"
        BY DEF Tick, Cmd, IsCmd
      <4>2. Done(c) \/ Becomes(c, Tick)
        BY <3>2 DEF StreamErrMsg, Retry
      <4> QED
        BY <4>1, <4>2, Zenon
    <3> QED
      BY <1>4, <3>1, <3>2
  <2>3. UNCHANGED <<sent, taken>>
    BY <2>1 DEF textVars
  <2>4. Taken'
    BY <1>2, <2>1, <2>2, <2>3, TakenDone, TakenBecomes
  <2> QED
    BY <2>1, <2>4, TextPart
<1> QED
  BY <1>1, <1>3, <1>4

\* The relay takes the message.
LEMMA IngestTexts ==
    ASSUME CmdInv, TextInv, NEW c \in DOMAIN cmds, IngestTaken(c) PROVE TextInv'
<1> USE DEF TextInv
<1>1. /\ c.cmd = "ingest" /\ c.stage = "run" /\ UNCHANGED textVars /\ taken' = Append(taken, c.arg)
      /\ phase' = phase
  BY DEF IngestTaken, OnlyCmds, screen, history, textVars
<1>2. IsCmds(cmds) /\ IsCmd(c)
  BY InChat
<1>3. sent # <<>> /\ c.arg = sent[Len(sent)] /\ Within(taken, sent, Len(sent) - 1)
  BY <1>1 DEF Taken
<1>4. sent \in Seq(Seq(Nat)) /\ taken \in Seq(Seq(Nat)) /\ sent' = sent
  <2>1. (1..typed) \subseteq Nat
    BY DEF TextType
  <2>2. Seq(1..typed) \subseteq Seq(Nat)
    BY <2>1, WiderSeq
  <2>3. Seq(Seq(1..typed)) \subseteq Seq(Seq(Nat))
    BY <2>2, WiderSeq
  <2> QED
    BY <1>1, <2>3 DEF TextType, textVars
<1>5. c.arg \in Seq(Nat)
  <2>1. Len(sent) \in 1..Len(sent)
    BY <1>3, <1>4
  <2> QED
    BY <1>3, <1>4, <2>1, ElementOfSeq, Zenon
<1>6. taken' \in Seq(Seq(Nat))
  BY <1>1, <1>4, <1>5
<1>7. TextType'
  BY <1>1, <1>6 DEF TextType, textVars
<1>8. Texts'
  BY <1>1, TextsAlone
<1>9. Within(taken', sent, Len(sent))
  <2>1. Within(Append(taken, sent[Len(sent)]), sent, Len(sent))
    BY <1>3, <1>4, WithinTakes, Zenon
  <2> QED
    BY <1>1, <1>3, <2>1, Zenon
<1>10. PICK k, d : d = WithConv(c, "taken", k) /\ Becomes(c, d)
  BY DEF IngestTaken, WithConv
<1>11. IsCmd(d) /\ d.cmd = c.cmd /\ d.arg = c.arg /\ d.stage = "taken"
  BY <1>2, <1>10, StagedConv
<1>12. cmds' = (cmds (-) SetToBag({c})) (+) SetToBag({d})
  BY <1>10 DEF Becomes
<1>13. \A e \in DOMAIN cmds' : e.cmd = "ingest" => e = d
  <2>1. ~NoCmd(cmds, {"ingest"})
    BY <1>1 DEF NoCmd
  <2>2. OneCmd(cmds, {"ingest"})
    BY <2>1 DEF CmdInv, Ingests
  <2>3. c.cmd \in {"ingest"} /\ d.cmd \in {"ingest"}
    BY <1>1, <1>11
  <2>4. OneCmd(cmds', {"ingest"}) /\ d \in DOMAIN cmds'
    BY <1>2, <1>11, <1>12, <2>2, <2>3, ReplacedKinds, Zenon
  <2> QED
    BY <2>3, <2>4 DEF OneCmd
<1>14. Taken'
  BY <1>3, <1>4, <1>9, <1>11, <1>13 DEF Taken
<1> QED
  BY <1>7, <1>8, <1>14

\* The calls and their answers.
LEMMA CallTexts == ASSUME CmdInv, TextInv, Calls PROVE TextInv'
<1> USE DEF TextInv
<1>1. PICK c \in Pending : IngestTaken(c) \/ IngestReturns(c) \/ IngestAckMsg(c) \/ CancelReturns(c)
                           \/ CancelErrMsg(c)
  BY DEF Calls
<1>2. c \in DOMAIN cmds /\ IsCmd(c) /\ phase # "quit"
  BY InChat DEF Pending, BagToSet
<1>3. CASE IngestTaken(c)
  BY <1>2, <1>3, IngestTexts
<1>4. CASE IngestReturns(c) \/ IngestAckMsg(c) \/ CancelReturns(c) \/ CancelErrMsg(c)
  <2>1. UNCHANGED <<textVars, taken>> /\ phase' # "quit"
    BY <1>2, <1>4 DEF IngestReturns, IngestAckMsg, CancelReturns, CancelErrMsg, OnlyCmds, screen,
                      history, relay, textVars
  <2>2. Done(c) \/ \E s : s # "run" /\ Becomes(c, [c EXCEPT !.stage = s])
    BY <1>4 DEF IngestReturns, IngestAckMsg, CancelReturns, CancelErrMsg, Comes
  <2>3. \A s : /\ IsCmd([c EXCEPT !.stage = s]) /\ [c EXCEPT !.stage = s].cmd = c.cmd
               /\ [c EXCEPT !.stage = s].arg = c.arg /\ [c EXCEPT !.stage = s].stage = s
    BY <1>2, Staged, Zenon
  <2>4. Done(c) \/ \E d : /\ IsCmd(d) /\ d.cmd = c.cmd /\ d.arg = c.arg /\ d.stage # "run"
                          /\ Becomes(c, d)
    BY <2>2, <2>3, Zenon
  <2>5. UNCHANGED <<sent, taken>>
    BY <2>1 DEF textVars
  <2>6. Taken'
    BY <1>2, <2>1, <2>4, <2>5, TakenDone, TakenBecomes
  <2> QED
    BY <2>1, <2>6, TextPart
<1> QED
  BY <1>1, <1>3, <1>4

\* Every step preserves the invariant.
LEMMA TextStep == ASSUME CmdInv, TextInv, [TuiNext]_tuiVars PROVE TextInv'
<1>0. ASSUME UNCHANGED <<textVars, taken, phase, cmds>> PROVE TextInv'
  <2>1. UNCHANGED <<sent, taken>> /\ phase' = phase /\ cmds' = cmds
    BY <1>0 DEF textVars
  <2>2. Taken'
    BY <2>1, TakenAlone DEF TextInv
  <2> QED
    BY <1>0, <2>2, TextPart
<1>1. CASE User
  BY <1>1, UserTexts
<1>2. CASE Reconnect
  BY <1>2, ReconnectTexts
<1>3. CASE Listen
  BY <1>3, ListenTexts
<1>4. CASE Calls
  BY <1>4, CallTexts
<1>5. CASE TurnsMove
  BY <1>0, <1>5 DEF TurnsMove, TurnStarts, TurnEnds, TurnState, screen, history, textVars
<1>6. CASE \E s \in 1..Len(up) : Drop(s)
  BY <1>0, <1>6 DEF Drop, screen, history, textVars
<1>7. CASE UNCHANGED tuiVars
  BY <1>0, <1>7 DEF tuiVars, screen, history, relay, textVars
<1> QED
  BY <1>1, <1>2, <1>3, <1>4, <1>5, <1>6, <1>7 DEF TuiNext

\* The messages of q that have text t, if q holds no text twice.
LEMMA PlacesOf ==
    ASSUME NEW S, NEW q \in Seq(Seq(S)), Apart(q), NEW t
    PROVE  LET P == {i \in 1..Len(q) : t \in ToSet(q[i])}
           IN  IF In(q, t) THEN \E i \in 1..Len(q) : P = {i} ELSE P = {}
<1> DEFINE P == {i \in 1..Len(q) : t \in ToSet(q[i])}
<1>1. \A i \in 1..Len(q) : t \in ToSet(q[i]) <=> Has(q[i], t)
  <2> TAKE i \in 1..Len(q)
  <2>1. q[i] \in Seq(S)
    OBVIOUS
  <2>2. DOMAIN q[i] = 1..Len(q[i])
    BY <2>1
  <2> QED
    BY <2>2, Zenon DEF ToSet, Has
<1>2. CASE In(q, t)
  <2>1. PICK i \in 1..Len(q) : Has(q[i], t)
    BY <1>2 DEF In
  <2>2. \A j \in 1..Len(q) : Has(q[j], t) => j = i
    BY <2>1, Zenon DEF Has, Apart
  <2>3. P = {i}
    BY <1>1, <2>1, <2>2
  <2> HIDE DEF P
  <2> QED
    BY <1>2, <2>3, Zenon DEF P
<1>3. CASE ~In(q, t)
  <2>1. P = {}
    BY <1>1, <1>3 DEF In
  <2> QED
    BY <1>3, <2>1, Zenon
<1> QED
  BY <1>2, <1>3

\* The invariant says where each text is.
LEMMA TypedOnceHolds == ASSUME CmdInv, TextInv PROVE TypedOnce
<1> DEFINE N == Len(input) + Len(queue) + Len(sent)
           W == {"input", "queue", "sent"}
<1>1. /\ typed \in Nat /\ input \in Seq(1..typed) /\ queue \in Seq(Seq(1..typed))
      /\ sent \in Seq(Seq(1..typed)) /\ Once(input) /\ Apart(queue) /\ Apart(sent)
  BY DEF TextInv, TextType, Texts
<1>2. Len(input) \in Nat /\ Len(queue) \in Nat /\ Len(sent) \in Nat
  BY <1>1
<1>3. /\ \A i \in 1..Len(input) : i \in 1..N
      /\ \A i \in 1..Len(queue) : i \in 1..N
      /\ \A i \in 1..Len(sent) : i \in 1..N
  BY <1>2
<1> HIDE DEF N
<1>4. ASSUME NEW t \in 1..typed
      PROVE  \E w \in W : /\ \E i \in 1..N : Places(t)[w] = {i}
                          /\ \A v \in W \ {w} : Places(t)[v] = {}
  <2> DEFINE pi == {i \in 1..Len(input) : input[i] = t}
             pq == {i \in 1..Len(queue) : t \in ToSet(queue[i])}
             ps == {i \in 1..Len(sent) : t \in ToSet(sent[i])}
  <2>1. /\ Has(input, t) \/ In(queue, t) \/ In(sent, t)
        /\ ~(Has(input, t) /\ In(queue, t))
        /\ ~(Has(input, t) /\ In(sent, t))
        /\ ~(In(queue, t) /\ In(sent, t))
    BY DEF TextInv, Texts
  <2>2. Places(t)["input"] = pi /\ Places(t)["queue"] = pq /\ Places(t)["sent"] = ps
    BY DEF Places
  <2>3. IF Has(input, t) THEN \E i \in 1..Len(input) : pi = {i} ELSE pi = {}
    <3>1. CASE Has(input, t)
      <4>1. PICK i \in 1..Len(input) : input[i] = t
        BY <3>1 DEF Has
      <4>2. pi = {i}
        BY <1>1, <4>1 DEF Once
      <4> HIDE DEF pi
      <4> QED
        BY <3>1, <4>2, Zenon
    <3>2. CASE ~Has(input, t)
      <4>1. pi = {}
        BY <3>2 DEF Has
      <4> QED
        BY <3>2, <4>1, Zenon
    <3> QED
      BY <3>1, <3>2
  <2>4. IF In(queue, t) THEN \E i \in 1..Len(queue) : pq = {i} ELSE pq = {}
    BY <1>1, PlacesOf, Zenon
  <2>5. IF In(sent, t) THEN \E i \in 1..Len(sent) : ps = {i} ELSE ps = {}
    BY <1>1, PlacesOf, Zenon
  <2> HIDE DEF pi, pq, ps
  <2>6. CASE Has(input, t)
    <3>1. (\E i \in 1..N : Places(t)["input"] = {i}) /\ Places(t)["queue"] = {}
          /\ Places(t)["sent"] = {}
      BY <1>3, <2>1, <2>2, <2>3, <2>4, <2>5, <2>6, Zenon
    <3>2. \A v \in W \ {"input"} : v = "queue" \/ v = "sent"
      OBVIOUS
    <3>3. "input" \in W
      OBVIOUS
    <3> QED
      BY <3>1, <3>2, <3>3, Zenon
  <2>7. CASE In(queue, t)
    <3>1. (\E i \in 1..N : Places(t)["queue"] = {i}) /\ Places(t)["input"] = {}
          /\ Places(t)["sent"] = {}
      BY <1>3, <2>1, <2>2, <2>3, <2>4, <2>5, <2>7, Zenon
    <3>2. \A v \in W \ {"queue"} : v = "input" \/ v = "sent"
      OBVIOUS
    <3>3. "queue" \in W
      OBVIOUS
    <3> QED
      BY <3>1, <3>2, <3>3, Zenon
  <2>8. CASE In(sent, t)
    <3>1. (\E i \in 1..N : Places(t)["sent"] = {i}) /\ Places(t)["input"] = {}
          /\ Places(t)["queue"] = {}
      BY <1>3, <2>1, <2>2, <2>3, <2>4, <2>5, <2>8, Zenon
    <3>2. \A v \in W \ {"sent"} : v = "input" \/ v = "queue"
      OBVIOUS
    <3>3. "sent" \in W
      OBVIOUS
    <3> QED
      BY <3>1, <3>2, <3>3, Zenon
  <2> QED
    BY <2>1, <2>6, <2>7, <2>8
<1>5. \A c, d \in Pending : c.cmd = "ingest" /\ d.cmd = "ingest" => c = d /\ cmds[c] = 1
  <2>1. OneCmd(cmds, {"ingest"}) \/ NoCmd(cmds, {"ingest"})
    BY DEF CmdInv, Ingests
  <2> QED
    BY <2>1 DEF OneCmd, NoCmd, Pending, BagToSet
<1>6. phase # "quit" => Within(taken, sent, Len(sent))
  BY DEF TextInv, Taken
<1> QED
  BY <1>4, <1>5, <1>6, Zenon DEF TypedOnce, Within, N, W

\* What the user typed is in one place, whatever the order of acks, frames,
\* errors and keys; ingests never overlap, so that the relay takes the messages
\* in the order they were sent, none twice.
THEOREM TextsInOnePlace == TuiSpec => []TypedOnce
<1>1. TuiInit => CmdInv /\ TextInv
  BY CmdInit, TextInit
<1>2. CmdInv /\ TextInv /\ [TuiNext]_tuiVars => (CmdInv /\ TextInv)'
  BY CmdStep, TextStep
<1>3. CmdInv /\ TextInv => TypedOnce
  BY TypedOnceHolds
<1> QED
  BY <1>1, <1>2, <1>3, PTL DEF TuiSpec
=============================================================================
