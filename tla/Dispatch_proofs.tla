--------------------------- MODULE Dispatch_proofs ---------------------------
(***************************************************************************)
(* Theorems about the two halves of dispatch.rs: ToolDispatch, for every   *)
(* set of calls and of grants, and Inference, for every set of answers a   *)
(* provider may give and any number of rounds.                             *)
(***************************************************************************)
EXTENDS ToolDispatch, Inference, SequenceTheorems, WellFoundedInduction, TLAPS

----------------------------------------------------------------------------
(* TOOLSET CALLS *)

----------------------------------------------------------------------------
(* The operators *)

\* Taking one entry out of a bucket: Vec::remove keeps the others in order.
LEMMA RemoveIndexProperties ==
    ASSUME NEW S, NEW s \in Seq(S), NEW i \in 1..Len(s)
    PROVE  /\ RemoveIndex(s, i) \in Seq(S)
           /\ Len(RemoveIndex(s, i)) = Len(s) - 1
           /\ \A j \in 1..(Len(s) - 1) :
                 RemoveIndex(s, i)[j] = IF j < i THEN s[j] ELSE s[j + 1]
<1>1. Len(s) \in Nat /\ s \in [1..Len(s) -> S]
  BY LenProperties
<1>2. RemoveIndex(s, i) \in [1..(Len(s) - 1) -> S]
  BY <1>1 DEF RemoveIndex
<1>3. Len(s) - 1 \in Nat
  BY <1>1
<1>4. RemoveIndex(s, i) \in Seq(S)
  BY <1>2, <1>3, IsASeq
<1>5. Len(RemoveIndex(s, i)) = Len(s) - 1
  BY <1>2, <1>3, <1>4, LenProperties
<1> QED
  BY <1>4, <1>5 DEF RemoveIndex

----------------------------------------------------------------------------
(* The inductive invariant *)

\* Where begin_call has bound the call to a Job and not refused it.
Admitted == {"publish", "enqueue", "check", "withdraw", "refuse", "ok"}
\* Where the call may be in the queue or claimed from it.
Pending == {"check", "withdraw", "ok"}

\* A call is admitted against a Job of its own grant, and a record is of its own grant.
Bindings ==
    /\ \A c \in Calls : pc[c] \in Admitted => target[c] \in Calls /\ grant[target[c]] = grant[c]
    /\ \A g \in Grants :
          /\ active[g].job # None => grant[active[g].job] = g
          /\ active[g].warm => active[g].job # None

\* A driver is spawned by a call that began, claims once, and claims a call that was
\* admitted against its own Job; no two drivers claim one call.
Claims ==
    /\ \A d \in Calls :
          /\ dpc[d] # "none" => pc[d] = "ok"
          /\ dpc[d] \in {"none", "dequeue"} => claimed[d] = None
          /\ dpc[d] \in {"sender", "dial", "run", "evict"} => claimed[d] # None
          /\ claimed[d] # None =>
                pc[claimed[d]] \in Pending /\ target[claimed[d]] = target[d]
    /\ \A d, e \in Calls : claimed[d] = claimed[e] /\ claimed[d] # None => d = e

\* A queued call is in its grant's bucket, once, and nobody has claimed it.
Buckets ==
    \A g \in Grants : \A i \in 1..Len(queue[g]) :
        /\ pc[queue[g][i]] \in Pending
        /\ grant[queue[g][i]] = g
        /\ \A d \in Calls : claimed[d] # queue[g][i]
        /\ \A j \in 1..Len(queue[g]) : queue[g][j] = queue[g][i] => j = i

\* What ran was claimed by the driver that ran it.
RanClaimed == \A p \in ran : claimed[p[1]] = p[2] /\ claimed[p[1]] # None

Inv == TypeOK /\ Bindings /\ Claims /\ Buckets /\ RanClaimed

\* The initial state satisfies the invariant.
LEMMA InitInv == Init => Inv
<1> SUFFICES ASSUME Init PROVE Inv
  OBVIOUS
<1>1. TypeOK
  <2>1. active \in [Grants -> [job : Calls \cup {None}, warm : BOOLEAN]]
    BY DEF Init, NoJob
  <2>2. queue \in [Grants -> Seq(Calls)] /\ ends \in [Calls -> Seq({"DONE", "FAILED"})]
    BY DEF Init
  <2> QED
    BY <2>1, <2>2, NoneAssumption DEF Init, TypeOK, CallPC, DriverPC
<1>2. Bindings
  BY DEF Init, Bindings, Admitted, NoJob
<1>3. Claims
  BY DEF Init, Claims
<1>4. Buckets /\ RanClaimed
  BY DEF Init, Buckets, RanClaimed
<1> QED
  BY <1>1, <1>2, <1>3, <1>4 DEF Inv

\* What the invariant gives.
LEMMA InvSafe == Inv => GrantContained /\ RunsOnce
<1> SUFFICES ASSUME Inv PROVE GrantContained /\ RunsOnce
  OBVIOUS
<1>1. ASSUME NEW p \in ran
      PROVE  /\ p[1] \in Calls /\ p[2] \in Calls /\ claimed[p[1]] = p[2]
             /\ pc[p[2]] \in Pending /\ target[p[2]] = target[p[1]]
             /\ grant[target[p[2]]] = grant[p[2]]
  <2>1. p[1] \in Calls /\ p[2] \in Calls
    BY <1>1 DEF Inv, TypeOK
  <2>2. claimed[p[1]] = p[2] /\ claimed[p[1]] # None
    BY <1>1 DEF Inv, RanClaimed
  <2>3. pc[p[2]] \in Pending /\ target[p[2]] = target[p[1]]
    BY <2>1, <2>2 DEF Inv, Claims
  <2> QED
    BY <2>1, <2>2, <2>3 DEF Inv, Bindings, Pending, Admitted
<1>2. GrantContained
  BY <1>1 DEF GrantContained
<1>3. ASSUME NEW p \in ran, NEW q \in ran, p[2] = q[2]
      PROVE  p[1] = q[1]
  BY <1>1, <1>3, NoneAssumption DEF Inv, Claims
<1> QED
  BY <1>1, <1>2, <1>3 DEF RunsOnce, Pending

----------------------------------------------------------------------------
(* begin_call *)

\* A step of begin_call that moves only the call's own pc, within the same groups,
\* preserves everything that is said of claims and buckets.
LEMMA BeginKeeps ==
    ASSUME Inv, NEW c \in Calls, NEW l,
           pc' = [pc EXCEPT ![c] = l], pc[c] # "ok", pc[c] \in Pending => l \in Pending,
           \A d \in Calls : pc[d] = "ok" \/ pc[d] \in Pending => target'[d] = target[d],
           UNCHANGED <<grant, queue, claimed, dpc, ran>>
    PROVE  Claims' /\ Buckets' /\ RanClaimed'
<1>1. TypeOK /\ Claims /\ Buckets /\ RanClaimed
  BY DEF Inv
<1>2. pc \in [Calls -> CallPC] /\ claimed \in [Calls -> Calls \cup {None}]
      /\ queue \in [Grants -> Seq(Calls)]
  BY <1>1 DEF TypeOK
<1>3. \A d \in Calls : pc[d] \in Pending => pc'[d] \in Pending
  BY <1>2
<1>4. \A d \in Calls : pc[d] = "ok" => pc'[d] = "ok"
  BY <1>2
<1>5. Claims'
  BY <1>1, <1>2, <1>3, <1>4, NoneAssumption DEF Claims
<1>6. \A g \in Grants : \A i \in 1..Len(queue[g]) : queue[g][i] \in Calls
  BY <1>2, ElementOfSeq
<1>7. Buckets'
  BY <1>1, <1>3, <1>6 DEF Buckets
<1> QED
  BY <1>1, <1>5, <1>7 DEF RanClaimed

\* Attaching binds the call to its own grant's Job.
LEMMA AttachInv ==
    ASSUME Inv, NEW c \in Calls, Attach(c)
    PROVE  Inv'
<1>1. TypeOK /\ Bindings
  BY DEF Inv
<1>2. TypeOK'
  BY <1>1 DEF Attach, TypeOK, CallPC, driverVars
<1>3. Bindings'
  BY <1>1, NoneAssumption DEF Attach, TypeOK, Bindings, Admitted
<1>4. Claims' /\ Buckets' /\ RanClaimed'
  BY <1>1, BeginKeeps DEF Attach, TypeOK, driverVars, Pending
<1> QED
  BY <1>2, <1>3, <1>4 DEF Inv

\* A new Job's record is that of its spawner's grant.
LEMMA SetActiveJobInv ==
    ASSUME Inv, NEW c \in Calls, SetActiveJob(c)
    PROVE  Inv'
<1>1. TypeOK /\ Bindings
  BY DEF Inv
<1>2. TypeOK'
  BY <1>1, KeepaliveAssumption, NoneAssumption
     DEF SetActiveJob, Record, TypeOK, CallPC, driverVars
<1>3. Bindings'
  BY <1>1, NoneAssumption DEF SetActiveJob, Record, TypeOK, Bindings, Admitted
<1>4. Claims' /\ Buckets' /\ RanClaimed'
  BY <1>1, BeginKeeps DEF SetActiveJob, TypeOK, driverVars, Pending
<1> QED
  BY <1>2, <1>3, <1>4 DEF Inv

\* Creating a Job, or failing to, binds nothing.
LEMMA CreateInv ==
    ASSUME Inv, NEW c \in Calls, CreateJob(c) \/ CreateFails(c)
    PROVE  Inv'
<1>1. TypeOK /\ Bindings
  BY DEF Inv
<1>2. TypeOK'
  <2>1. CASE CreateJob(c)
    BY <1>1, <2>1, NoneAssumption DEF CreateJob, TypeOK, CallPC, driverVars
  <2>2. CASE CreateFails(c)
    BY <1>1, <2>2, NoneAssumption DEF CreateFails, TypeOK, CallPC, driverVars
  <2> QED
    BY <2>1, <2>2
<1>3. Bindings'
  BY <1>1 DEF CreateJob, CreateFails, TypeOK, Bindings, Admitted
<1>4. PICK l \in {"spawn", "err"} : pc' = [pc EXCEPT ![c] = l] /\ pc[c] \in {"start", "spawn"}
  BY DEF CreateJob, CreateFails
<1>5. Claims' /\ Buckets' /\ RanClaimed'
  BY <1>1, <1>4, BeginKeeps DEF CreateJob, CreateFails, driverVars, Pending
<1> QED
  BY <1>2, <1>3, <1>5 DEF Inv

\* Parking the sender and registering the token.
LEMMA PublishInv ==
    ASSUME Inv, NEW c \in Calls, Publish(c)
    PROVE  Inv'
<1>1. TypeOK /\ Bindings
  BY DEF Inv
<1>2. TypeOK'
  BY <1>1, NoneAssumption DEF Publish, TypeOK, CallPC, driverVars
<1>3. Bindings'
  BY <1>1 DEF Publish, TypeOK, Bindings, Admitted
<1>4. Claims' /\ Buckets' /\ RanClaimed'
  BY <1>1, BeginKeeps DEF Publish, driverVars, Pending
<1> QED
  BY <1>2, <1>3, <1>4 DEF Inv

\* Noticing that the record changed.
LEMMA SeesRetiredInv ==
    ASSUME Inv, NEW c \in Calls, SeesRetired(c)
    PROVE  Inv'
<1>1. TypeOK /\ Bindings
  BY DEF Inv
<1>2. TypeOK'
  BY <1>1, NoneAssumption DEF SeesRetired, TypeOK, CallPC, driverVars
<1>3. Bindings'
  BY <1>1 DEF SeesRetired, TypeOK, Bindings, Admitted
<1>4. Claims' /\ Buckets' /\ RanClaimed'
  BY <1>1, BeginKeeps DEF SeesRetired, driverVars, Pending
<1> QED
  BY <1>2, <1>3, <1>4 DEF Inv

\* Appending terminals to some channels keeps the type of ends.
LEMMA DropGuardsType ==
    ASSUME TypeOK, NEW S, DropGuards(S)
    PROVE  ends' \in [Calls -> Seq({"DONE", "FAILED"})]
<1>1. \A c \in Calls : Append(ends[c], "FAILED") \in Seq({"DONE", "FAILED"})
  BY DEF TypeOK
<1> QED
  BY <1>1 DEF TypeOK, DropGuards

\* Refusing a call that was withdrawn.
LEMMA RefuseInv ==
    ASSUME Inv, NEW c \in Calls, Refuse(c)
    PROVE  Inv'
<1>1. TypeOK /\ Bindings
  BY DEF Inv
<1>2. TypeOK'
  BY <1>1, DropGuardsType, NoneAssumption DEF Refuse, TypeOK, CallPC, driverVars
<1>3. Bindings'
  BY <1>1 DEF Refuse, TypeOK, Bindings, Admitted
<1>4. Claims' /\ Buckets' /\ RanClaimed'
  BY <1>1, BeginKeeps DEF Refuse, driverVars, Pending
<1> QED
  BY <1>2, <1>3, <1>4 DEF Inv

\* A call is queued once, in the bucket of its own grant.
LEMMA EnqueueCallInv ==
    ASSUME Inv, NEW c \in Calls, EnqueueCall(c)
    PROVE  Inv'
<1>1. TypeOK /\ Bindings /\ Claims /\ Buckets /\ RanClaimed
  BY DEF Inv
<1> DEFINE b == grant[c]
<1>2. /\ b \in Grants /\ queue[b] \in Seq(Calls) /\ Len(queue[b]) \in Nat
      /\ pc \in [Calls -> CallPC] /\ queue \in [Grants -> Seq(Calls)]
      /\ claimed \in [Calls -> Calls \cup {None}]
  BY <1>1, LenProperties DEF TypeOK
<1>3. /\ queue' = [queue EXCEPT ![b] = Append(queue[b], c)]
      /\ pc' = [pc EXCEPT ![c] = "check"] /\ pc[c] = "enqueue"
      /\ UNCHANGED <<grant, target, active, claimed, dpc, ran>>
  BY DEF EnqueueCall, driverVars
<1>4. /\ Len(queue'[b]) = Len(queue[b]) + 1
      /\ queue'[b][Len(queue[b]) + 1] = c
      /\ \A i \in 1..Len(queue[b]) : queue'[b][i] = queue[b][i]
      /\ queue'[b] \in Seq(Calls)
  BY <1>2, <1>3, AppendProperties
<1>5. TypeOK'
  <2>1. queue' \in [Grants -> Seq(Calls)]
    BY <1>2, <1>3, <1>4
  <2> QED
    BY <1>1, <2>1, NoneAssumption DEF EnqueueCall, TypeOK, CallPC, driverVars
<1>6. Bindings'
  BY <1>1, <1>3 DEF TypeOK, Bindings, Admitted
<1>7. Claims' /\ RanClaimed'
  <2>1. \A d \in Calls : pc[d] \in Pending => pc'[d] \in Pending
    BY <1>2, <1>3 DEF Pending
  <2>2. \A d \in Calls : pc[d] = "ok" => pc'[d] = "ok"
    BY <1>2, <1>3
  <2> QED
    BY <1>1, <1>2, <1>3, <2>1, <2>2, NoneAssumption DEF Claims, RanClaimed
<1>8. Buckets'
  <2>1. ASSUME NEW g \in Grants, NEW i \in 1..Len(queue[g])
        PROVE  queue[g][i] \in Calls /\ queue[g][i] # c /\ pc'[queue[g][i]] \in Pending
    <3>1. queue[g][i] \in Calls
      BY <1>2, ElementOfSeq
    <3>2. pc[queue[g][i]] \in Pending
      BY <1>1 DEF Buckets
    <3> QED
      BY <1>2, <1>3, <3>1, <3>2 DEF Pending
  <2>2. \A d \in Calls : claimed[d] # c
    BY <1>1, <1>3, NoneAssumption DEF Claims, Pending
  <2>3. ASSUME NEW g \in Grants, g # b
        PROVE  queue'[g] = queue[g]
    BY <1>2, <1>3, <2>3
  <2>4. ASSUME NEW g \in Grants, NEW i \in 1..Len(queue'[g])
        PROVE  /\ pc'[queue'[g][i]] \in Pending
               /\ grant'[queue'[g][i]] = g
               /\ \A d \in Calls : claimed'[d] # queue'[g][i]
               /\ \A j \in 1..Len(queue'[g]) : queue'[g][j] = queue'[g][i] => j = i
    <3>1. CASE g # b
      BY <1>1, <1>3, <2>1, <2>3, <3>1 DEF Buckets
    <3>2. CASE g = b /\ i \in 1..Len(queue[b])
      <4>1. queue'[g][i] = queue[g][i]
        BY <1>4, <3>2
      <4>2. ASSUME NEW j \in 1..Len(queue'[g]), queue'[g][j] = queue'[g][i]
            PROVE  j = i
        <5>1. j \in 1..Len(queue[b])
          BY <1>2, <1>4, <2>1, <3>2, <4>1, <4>2
        <5> QED
          BY <1>1, <1>4, <3>2, <4>1, <4>2, <5>1 DEF Buckets
      <4> QED
        BY <1>1, <1>3, <2>1, <3>2, <4>1, <4>2 DEF Buckets
    <3>3. CASE g = b /\ i = Len(queue[b]) + 1
      <4>1. queue'[g][i] = c
        BY <1>4, <3>3
      <4>2. ASSUME NEW j \in 1..Len(queue'[g]), queue'[g][j] = queue'[g][i]
            PROVE  j = i
        <5>1. j \notin 1..Len(queue[b])
          BY <1>4, <2>1, <3>3, <4>1, <4>2
        <5> QED
          BY <1>2, <1>4, <3>3, <4>2, <5>1
      <4>3. pc'[c] = "check"
        BY <1>2, <1>3
      <4> QED
        BY <1>3, <2>2, <3>3, <4>1, <4>2, <4>3 DEF Pending
    <3>4. g # b \/ (g = b /\ i \in 1..Len(queue[b])) \/ (g = b /\ i = Len(queue[b]) + 1)
      BY <1>2, <1>4
    <3> QED
      BY <3>1, <3>2, <3>3, <3>4, Zenon
  <2> QED
    BY <2>4 DEF Buckets
<1> QED
  BY <1>5, <1>6, <1>7, <1>8 DEF Inv

\* A spawned driver has claimed nothing yet.
LEMMA SpawnDialDriverInv ==
    ASSUME Inv, NEW c \in Calls, StillActive(c) \/ WithdrawLost(c)
    PROVE  Inv'
<1>1. TypeOK /\ Bindings /\ Claims /\ Buckets /\ RanClaimed
  BY DEF Inv
<1>2. /\ pc' = [pc EXCEPT ![c] = "ok"] /\ dpc' = [dpc EXCEPT ![c] = "dequeue"]
      /\ pc[c] \in {"check", "withdraw"}
      /\ UNCHANGED <<grant, target, lock, active, queue, senders, shadow, tokens, fired,
                     ends, claimed, owns, evicted, doomed, ran, failed>>
  BY DEF StillActive, WithdrawLost, SpawnDialDriver
<1>3. TypeOK'
  BY <1>1, <1>2, NoneAssumption DEF TypeOK, CallPC, DriverPC
<1>4. Bindings'
  BY <1>1, <1>2 DEF TypeOK, Bindings, Admitted
<1>5. \A d \in Calls : pc[d] \in Pending => pc'[d] \in Pending
  BY <1>1, <1>2 DEF TypeOK, Pending
<1>6. Claims' /\ RanClaimed'
  <2>1. claimed[c] = None
    BY <1>1, <1>2 DEF Claims
  <2> QED
    BY <1>1, <1>2, <1>5, <2>1, NoneAssumption DEF TypeOK, Claims, RanClaimed
<1>7. Buckets'
  <2>1. \A g \in Grants : \A i \in 1..Len(queue[g]) : queue[g][i] \in Calls
    BY <1>1, ElementOfSeq DEF TypeOK
  <2> QED
    BY <1>1, <1>2, <1>5, <2>1 DEF Buckets
<1> QED
  BY <1>3, <1>4, <1>6, <1>7 DEF Inv

\* The step leaves in the buckets only calls that were there, once each, and not c.
Shrunk(c) ==
    /\ queue' \in [Grants -> Seq(Calls)]
    /\ \A h \in Grants : \A m \in 1..Len(queue'[h]) :
          /\ queue'[h][m] # c
          /\ \E n \in 1..Len(queue[h]) : queue'[h][m] = queue[h][n]
          /\ \A j \in 1..Len(queue'[h]) : queue'[h][j] = queue'[h][m] => j = m

\* Taking an entry out of a bucket does so.
LEMMA BucketShrinks ==
    ASSUME TypeOK, Buckets, NEW g \in Grants, NEW i \in 1..Len(queue[g]),
           queue' = [queue EXCEPT ![g] = RemoveIndex(queue[g], i)]
    PROVE  Shrunk(queue[g][i])
<1>1. queue \in [Grants -> Seq(Calls)] /\ queue[g] \in Seq(Calls) /\ Len(queue[g]) \in Nat
  BY LenProperties DEF TypeOK
<1>2. /\ queue'[g] \in Seq(Calls) /\ Len(queue'[g]) = Len(queue[g]) - 1
      /\ \A j \in 1..(Len(queue[g]) - 1) :
            queue'[g][j] = IF j < i THEN queue[g][j] ELSE queue[g][j + 1]
  BY <1>1, RemoveIndexProperties
<1>3. queue' \in [Grants -> Seq(Calls)]
  BY <1>1, <1>2
<1>4. ASSUME NEW h \in Grants, NEW m \in 1..Len(queue'[h])
      PROVE  /\ queue'[h][m] # queue[g][i]
             /\ \E n \in 1..Len(queue[h]) : queue'[h][m] = queue[h][n]
             /\ \A j \in 1..Len(queue'[h]) : queue'[h][j] = queue'[h][m] => j = m
  <2>1. CASE h # g
    <3>1. queue'[h] = queue[h]
      BY <1>1, <2>1
    <3>2. grant[queue[h][m]] = h /\ grant[queue[g][i]] = g
      BY <3>1 DEF Buckets
    <3> QED
      BY <2>1, <3>1, <3>2 DEF Buckets
  <2>2. CASE h = g
    <3> DEFINE old(j) == IF j < i THEN j ELSE j + 1
    <3>1. \A j \in 1..Len(queue'[g]) :
              old(j) \in 1..Len(queue[g]) /\ old(j) # i /\ queue'[g][j] = queue[g][old(j)]
      BY <1>1, <1>2
    <3>2. \A j \in 1..Len(queue'[g]) : old(j) = old(m) => j = m
      BY <1>1, <1>2, <2>2
    <3> HIDE DEF old
    <3>3. \A x, y \in 1..Len(queue[g]) : queue[g][x] = queue[g][y] => x = y
      BY DEF Buckets
    <3>4. old(m) \in 1..Len(queue[g]) /\ old(m) # i /\ queue'[g][m] = queue[g][old(m)]
      BY <2>2, <3>1
    <3>5. queue'[g][m] # queue[g][i]
      BY <3>3, <3>4
    <3>6. ASSUME NEW j \in 1..Len(queue'[g]), queue'[g][j] = queue'[g][m]
          PROVE  j = m
      BY <3>1, <3>2, <3>3, <3>4, <3>6
    <3> QED
      BY <2>2, <3>4, <3>5, <3>6
  <2> QED
    BY <2>1, <2>2
<1> QED
  BY <1>3, <1>4 DEF Shrunk

\* What a bucket still holds after such a step keeps its place in the invariant.
LEMMA ShrunkBuckets ==
    ASSUME TypeOK, Buckets, NEW c \in Calls, Shrunk(c), grant' = grant,
           \A x \in Calls : x # c /\ pc[x] \in Pending => pc'[x] \in Pending,
           \A d \in Calls : claimed'[d] \in {claimed[d], c}
    PROVE  Buckets'
<1>1. ASSUME NEW h \in Grants, NEW m \in 1..Len(queue'[h])
      PROVE  /\ pc'[queue'[h][m]] \in Pending
             /\ grant'[queue'[h][m]] = h
             /\ \A d \in Calls : claimed'[d] # queue'[h][m]
             /\ \A j \in 1..Len(queue'[h]) : queue'[h][j] = queue'[h][m] => j = m
  <2>1. queue'[h][m] # c
    BY DEF Shrunk
  <2>2. \A j \in 1..Len(queue'[h]) : queue'[h][j] = queue'[h][m] => j = m
    BY DEF Shrunk
  <2>3. PICK n \in 1..Len(queue[h]) : queue'[h][m] = queue[h][n]
    BY DEF Shrunk
  <2>4. queue[h][n] \in Calls
    BY ElementOfSeq DEF TypeOK
  <2>5. /\ pc[queue[h][n]] \in Pending /\ grant[queue[h][n]] = h
        /\ \A d \in Calls : claimed[d] # queue[h][n]
    BY DEF Buckets
  <2> QED
    BY <2>1, <2>2, <2>3, <2>4, <2>5
<1> QED
  BY <1>1 DEF Buckets

\* remove_pending_call found the call.
LEMMA WithdrawInv ==
    ASSUME Inv, NEW c \in Calls, Withdraw(c)
    PROVE  Inv'
<1>1. TypeOK /\ Bindings /\ Claims /\ Buckets /\ RanClaimed
  BY DEF Inv
<1>2. PICK g \in Grants : g = grant[c]
  BY <1>1 DEF TypeOK
<1>3. /\ pc' = [pc EXCEPT ![c] = "refuse"] /\ pc[c] = "withdraw"
      /\ UNCHANGED <<grant, target, lock, active, senders, shadow, tokens, fired, ends,
                     dpc, claimed, owns, evicted, doomed, ran, failed>>
  BY DEF Withdraw, driverVars
<1>4. PICK i \in 1..Len(queue[g]) :
            /\ queue[g][i] = c
            /\ queue' = [queue EXCEPT ![g] = RemoveIndex(queue[g], i)]
  BY <1>2 DEF Withdraw
<1>5. Shrunk(c)
  BY <1>1, <1>4, BucketShrinks
<1>6. \A d \in Calls : claimed[d] # c
  BY <1>1, <1>4 DEF Buckets
<1>7. TypeOK'
  BY <1>1, <1>3, <1>5, NoneAssumption DEF TypeOK, CallPC, Shrunk
<1>8. Bindings'
  BY <1>1, <1>3 DEF TypeOK, Bindings, Admitted
<1>9. \A d \in Calls : d # c => pc'[d] = pc[d]
  BY <1>1, <1>3 DEF TypeOK
<1>10. Claims' /\ RanClaimed'
  BY <1>1, <1>3, <1>6, <1>9, NoneAssumption DEF TypeOK, Claims, RanClaimed
<1>11. Buckets'
  BY <1>1, <1>3, <1>5, <1>9, ShrunkBuckets
<1> QED
  BY <1>7, <1>8, <1>10, <1>11 DEF Inv

----------------------------------------------------------------------------
(* The drivers *)

\* A driver claims a call of its own Job, which nobody had claimed.
LEMMA DequeueCallInv ==
    ASSUME Inv, NEW d \in Calls, NEW g \in Grants, DequeueCall(d, g)
    PROVE  Inv'
<1>1. TypeOK /\ Bindings /\ Claims /\ Buckets /\ RanClaimed
  BY DEF Inv
<1>2. PICK i \in 1..Len(queue[g]) :
            /\ target[queue[g][i]] = target[d]
            /\ claimed' = [claimed EXCEPT ![d] = queue[g][i]]
            /\ queue' = [queue EXCEPT ![g] = RemoveIndex(queue[g], i)]
  BY DEF DequeueCall, Claimable
<1>3. PICK c \in Calls : c = queue[g][i]
  BY <1>1, ElementOfSeq DEF TypeOK
<1>4. /\ dpc' = [dpc EXCEPT ![d] = "sender"] /\ dpc[d] = "dequeue"
      /\ UNCHANGED <<pc, grant, target, lock, active, senders, shadow, tokens, fired, ends,
                     owns, evicted, doomed, ran, failed>>
  BY DEF DequeueCall, beginVars
<1>5. Shrunk(c)
  BY <1>1, <1>2, <1>3, BucketShrinks
<1>6. pc[c] \in Pending /\ \A e \in Calls : claimed[e] # c
  BY <1>1, <1>3 DEF Buckets
<1>7. claimed' = [claimed EXCEPT ![d] = c] /\ target[c] = target[d] /\ claimed[d] = None
  BY <1>1, <1>2, <1>3, <1>4 DEF Claims
<1>8. TypeOK'
  BY <1>1, <1>4, <1>5, <1>7 DEF TypeOK, DriverPC, Shrunk
<1>9. Bindings'
  BY <1>1, <1>4 DEF Bindings
<1>10. Claims'
  BY <1>1, <1>4, <1>6, <1>7, NoneAssumption DEF TypeOK, Claims
<1>11. Buckets'
  BY <1>1, <1>4, <1>5, <1>7, ShrunkBuckets DEF TypeOK
<1>12. RanClaimed'
  <2>1. ASSUME NEW p \in ran PROVE p[1] \in Calls /\ p[1] # d
    BY <1>1, <1>7, <2>1 DEF TypeOK, RanClaimed
  <2> QED
    BY <1>1, <1>4, <1>7, <2>1 DEF TypeOK, RanClaimed
<1> QED
  BY <1>8, <1>9, <1>10, <1>11, <1>12 DEF Inv

\* A step of a driver that has claimed, or ends, changes nothing that is said of
\* bindings, claims and buckets, but for evicted records.
LEMMA DriverKeeps ==
    ASSUME Inv, NEW d \in Calls, NEW l \in {"dial", "run", "evict", "retire",
               "retireShadow", "retireSenders", "retireTokens", "done"},
           dpc' = [dpc EXCEPT ![d] = l], dpc[d] # "none",
           l \in {"dial", "run", "evict"} => claimed[d] # None,
           UNCHANGED <<pc, grant, target, queue, claimed>>
    PROVE  Claims' /\ Buckets'
<1>1. TypeOK /\ Claims /\ Buckets
  BY DEF Inv
<1>2. Claims'
  BY <1>1, NoneAssumption DEF TypeOK, Claims
<1> QED
  BY <1>1, <1>2 DEF Buckets

\* Taking the sender, returning, and the steps of a retirement that touch no bucket.
LEMMA QuietDriverInv ==
    ASSUME Inv, NEW d \in Calls,
           \/ DequeueNothing(d) \/ TakeSender(d) \/ SenderGone(d) \/ NothingToEvict(d)
           \/ RetireShadow(d) \/ RetireTokens(d)
    PROVE  Inv'
<1>1. TypeOK /\ Bindings /\ Claims /\ RanClaimed
  BY DEF Inv
<1>2. UNCHANGED <<pc, grant, target, lock, active, queue, claimed, ends, ran, failed>>
  BY DEF DequeueNothing, TakeSender, SenderGone, NothingToEvict, RetireShadow,
         RetireTokens, beginVars
<1>3. PICK l \in {"dial", "retireSenders", "done"} :
         /\ dpc' = [dpc EXCEPT ![d] = l] /\ dpc[d] # "none"
         /\ l = "dial" => dpc[d] = "sender"
  BY DEF DequeueNothing, TakeSender, SenderGone, NothingToEvict, RetireShadow, RetireTokens
<1>4. /\ senders' \subseteq Calls /\ shadow' \subseteq Calls /\ tokens' \subseteq Calls
      /\ fired' \subseteq Calls /\ owns' \in [Calls -> BOOLEAN]
      /\ evicted' \in [Calls -> SUBSET Calls] /\ doomed' \in [Calls -> SUBSET Calls]
  <2>1. CASE DequeueNothing(d) \/ SenderGone(d) \/ NothingToEvict(d)
    BY <1>1, <2>1 DEF TypeOK, DequeueNothing, SenderGone, NothingToEvict
  <2>2. CASE TakeSender(d)
    <3>1. owns' \in [Calls -> BOOLEAN]
      BY <1>1, <2>2 DEF TypeOK, TakeSender
    <3> QED
      BY <1>1, <2>2, <3>1 DEF TypeOK, TakeSender
  <2>3. CASE RetireShadow(d)
    BY <1>1, <2>3 DEF TypeOK, RetireShadow
  <2>4. CASE RetireTokens(d)
    BY <1>1, <2>4 DEF TypeOK, RetireTokens
  <2> QED
    BY <2>1, <2>2, <2>3, <2>4
<1>5. TypeOK'
  BY <1>1, <1>2, <1>3, <1>4 DEF TypeOK, DriverPC
<1>6. Claims' /\ Buckets'
  <2>1. l \in {"dial", "run", "evict"} => claimed[d] # None
    BY <1>1, <1>3 DEF Claims
  <2> QED
    BY <1>2, <1>3, <2>1, DriverKeeps
<1> QED
  BY <1>1, <1>2, <1>5, <1>6 DEF Inv, Bindings, RanClaimed

\* The dialed call is recorded with the driver that claimed it.
LEMMA ConnectInv ==
    ASSUME Inv, NEW d \in Calls, Connect(d)
    PROVE  Inv'
<1>1. TypeOK /\ Bindings /\ Claims /\ RanClaimed
  BY DEF Inv
<1>2. claimed[d] # None /\ claimed[d] \in Calls
  BY <1>1 DEF Connect, Claims, TypeOK
<1>3. TypeOK'
  BY <1>1, <1>2 DEF Connect, TypeOK, DriverPC, beginVars
<1>4. Claims' /\ Buckets'
  BY <1>2, DriverKeeps DEF Connect, beginVars
<1>5. RanClaimed'
  BY <1>1, <1>2 DEF Connect, RanClaimed
<1>6. Bindings'
  BY <1>1 DEF Connect, Bindings, beginVars
<1> QED
  BY <1>3, <1>4, <1>5, <1>6 DEF Inv

\* A lost call: its guard fires and the record is to be evicted.
LEMMA LoseInv ==
    ASSUME Inv, NEW d \in Calls, dpc[d] \in {"dial", "run"}, Lose(d)
    PROVE  Inv'
<1>1. TypeOK /\ Bindings /\ Claims /\ RanClaimed
  BY DEF Inv
<1>2. claimed[d] # None
  BY <1>1 DEF Claims
<1>3. ends' \in [Calls -> Seq({"DONE", "FAILED"})]
  BY <1>1, DropGuardsType DEF Lose
<1>4. TypeOK'
  BY <1>1, <1>3 DEF Lose, FinishCall, TypeOK, DriverPC, beginVars
<1>5. Claims' /\ Buckets'
  BY <1>2, DriverKeeps DEF Lose, beginVars
<1> QED
  BY <1>1, <1>4, <1>5 DEF Inv, Lose, Bindings, RanClaimed, beginVars

\* A completed call: its Job's record, if it still has one, is bumped.
LEMMA RunCompletesInv ==
    ASSUME Inv, NEW d \in Calls, RunCompletes(d)
    PROVE  Inv'
<1>1. TypeOK /\ Bindings /\ Claims /\ RanClaimed
  BY DEF Inv
<1>2. claimed[d] \in Calls /\ pc[d] = "ok"
  BY <1>1 DEF RunCompletes, Claims, TypeOK
<1>3. target[d] \in Calls
  BY <1>1, <1>2 DEF Bindings, Admitted
<1>4. ends' \in [Calls -> Seq({"DONE", "FAILED"})]
  <2>1. Append(ends[claimed[d]], "DONE") \in Seq({"DONE", "FAILED"})
    BY <1>1, <1>2 DEF TypeOK
  <2> QED
    BY <1>1, <2>1 DEF RunCompletes, TypeOK
<1>5. active' \in [Grants -> [job : Calls \cup {None}, warm : BOOLEAN]]
  BY <1>1, <1>3, KeepaliveAssumption DEF RunCompletes, Record, TypeOK
<1>6. TypeOK'
  BY <1>1, <1>4, <1>5 DEF RunCompletes, FinishCall, TypeOK, DriverPC, beginVars
<1>7. \A g \in Grants : active'[g].job = active[g].job
                        /\ (active'[g].warm => active[g].warm \/ active'[g].job # None)
  BY <1>1, <1>3, NoneAssumption DEF RunCompletes, Record
<1>8. Bindings'
  BY <1>1, <1>7 DEF Bindings, RunCompletes, beginVars
<1>9. Claims' /\ Buckets'
  BY DriverKeeps DEF RunCompletes, beginVars
<1> QED
  BY <1>1, <1>6, <1>8, <1>9 DEF Inv, RunCompletes, RanClaimed

\* Evicting the Job's record.
LEMMA EvictInv ==
    ASSUME Inv, NEW d \in Calls, Evict(d)
    PROVE  Inv'
<1>1. TypeOK /\ Bindings /\ Claims /\ RanClaimed
  BY DEF Inv
<1>2. target[d] \in Calls
  BY <1>1 DEF Evict, Claims, Bindings, Admitted
<1>3. \A g \in Grants : active'[g] = active[g] \/ active'[g] = NoJob
  BY DEF Evict
<1>4. active' \in [Grants -> [job : Calls \cup {None}, warm : BOOLEAN]]
  BY <1>1 DEF Evict, NoJob, TypeOK
<1>5. TypeOK'
  BY <1>1, <1>2, <1>4 DEF Evict, TypeOK, DriverPC, beginVars
<1>6. Bindings'
  BY <1>1, <1>3 DEF Bindings, Evict, NoJob, beginVars
<1>7. Claims' /\ Buckets'
  BY DriverKeeps DEF Evict, beginVars
<1> QED
  BY <1>1, <1>5, <1>6, <1>7 DEF Inv, Evict, RanClaimed

\* Emptying every bucket.
LEMMA RetireQueueInv ==
    ASSUME Inv, NEW d \in Calls, RetireQueue(d)
    PROVE  Inv'
<1>1. TypeOK /\ Bindings /\ Claims /\ RanClaimed
  BY DEF Inv
<1>2. UNION {Elements(queue[g]) : g \in Grants} \subseteq Calls
  <2>1. \A g \in Grants : Elements(queue[g]) \subseteq Calls
    BY <1>1, ElementOfSeq DEF TypeOK, Elements
  <2> QED
    BY <2>1
<1>3. queue' \in [Grants -> Seq(Calls)] /\ \A g \in Grants : Len(queue'[g]) = 0
  BY DEF RetireQueue
<1>4. evicted' \in [Calls -> SUBSET Calls]
  BY <1>1, <1>2 DEF RetireQueue, TypeOK
<1>5. TypeOK'
  BY <1>1, <1>3, <1>4 DEF RetireQueue, TypeOK, DriverPC, beginVars
<1>6. Claims'
  BY <1>1, NoneAssumption DEF RetireQueue, TypeOK, Claims, beginVars
<1>7. Buckets'
  BY <1>3 DEF Buckets
<1> QED
  BY <1>1, <1>5, <1>6, <1>7 DEF Inv, RetireQueue, Bindings, RanClaimed, beginVars

\* Dropping the parked guards.
LEMMA RetireSendersInv ==
    ASSUME Inv, NEW d \in Calls, RetireSenders(d)
    PROVE  Inv'
<1>1. TypeOK /\ Bindings /\ Claims /\ RanClaimed
  BY DEF Inv
<1>2. ends' \in [Calls -> Seq({"DONE", "FAILED"})]
  BY <1>1, DropGuardsType DEF RetireSenders
<1>3. TypeOK'
  BY <1>1, <1>2 DEF RetireSenders, TypeOK, DriverPC, beginVars
<1>4. Claims' /\ Buckets'
  BY DriverKeeps DEF RetireSenders, beginVars
<1> QED
  BY <1>1, <1>3, <1>4 DEF Inv, RetireSenders, Bindings, RanClaimed, beginVars

----------------------------------------------------------------------------
(* The rest of the harness, and time *)

\* A fired cancel, or a window that passes.
LEMMA EnvironmentInv ==
    ASSUME Inv, \/ \E c \in Calls : FireCallCancel(c)
                \/ \E g \in Grants : WindowPasses(g)
    PROVE  Inv'
<1>1. TypeOK /\ Bindings /\ Claims /\ Buckets /\ RanClaimed
  BY DEF Inv
<1>2. ASSUME NEW c \in Calls, FireCallCancel(c) PROVE Inv'
  <2>1. TypeOK'
    BY <1>1, <1>2 DEF FireCallCancel, TypeOK, beginVars, driverVars
  <2> QED
    BY <1>1, <1>2, <2>1
       DEF Inv, FireCallCancel, Bindings, Claims, Buckets, RanClaimed, beginVars, driverVars
<1>3. ASSUME NEW g \in Grants, WindowPasses(g) PROVE Inv'
  <2>1. active' \in [Grants -> [job : Calls \cup {None}, warm : BOOLEAN]]
    <3>1. active[g] \in [job : Calls \cup {None}, warm : BOOLEAN]
      BY <1>1 DEF TypeOK
    <3>2. [active[g] EXCEPT !.warm = FALSE] \in [job : Calls \cup {None}, warm : BOOLEAN]
      BY <3>1
    <3> QED
      BY <1>1, <1>3, <3>2 DEF WindowPasses, TypeOK
  <2>2. \A h \in Grants : active'[h].job = active[h].job
                          /\ (active'[h].warm => active[h].warm)
    BY <1>1, <1>3 DEF WindowPasses, TypeOK
  <2>3. TypeOK'
    BY <1>1, <1>3, <2>1 DEF WindowPasses, TypeOK, beginVars, driverVars
  <2>4. Bindings'
    BY <1>1, <1>3, <2>2 DEF WindowPasses, Bindings, beginVars
  <2> QED
    BY <1>1, <1>3, <2>3, <2>4
       DEF Inv, WindowPasses, Claims, Buckets, RanClaimed, beginVars, driverVars
<1> QED
  BY <1>2, <1>3

\* The invariant is inductive.
LEMMA StepInv == Inv /\ [Next]_vars => Inv'
<1> SUFFICES ASSUME Inv, [Next]_vars PROVE Inv'
  OBVIOUS
<1>1. ASSUME NEW c \in Calls, BeginStep(c) PROVE Inv'
  BY <1>1, AttachInv, CreateInv, SetActiveJobInv, PublishInv, EnqueueCallInv,
     SpawnDialDriverInv, SeesRetiredInv, WithdrawInv, RefuseInv DEF BeginStep
<1>2. ASSUME NEW d \in Calls, DriverStep(d) PROVE Inv'
  BY <1>2, DequeueCallInv, QuietDriverInv, ConnectInv, LoseInv, EvictInv, RetireQueueInv,
     RetireSendersInv DEF DriverStep, DialTimesOut, DialCancelled
<1>3. ASSUME NEW d \in Calls, PodStep(d) PROVE Inv'
  BY <1>3, RunCompletesInv, LoseInv DEF PodStep, RunBreaks
<1>4. CASE UNCHANGED vars
  BY <1>4 DEF Inv, vars, TypeOK, Bindings, Claims, Buckets, RanClaimed
<1> QED
  BY <1>1, <1>2, <1>3, <1>4, EnvironmentInv DEF Next, AllServed

----------------------------------------------------------------------------
(* Terminals, and what keeps a call from being left behind *)

\* Where a call's sender may be parked.
Parking == {"enqueue", "check", "withdraw", "refuse", "ok"}

\* A call's sender is parked, held by the driver that claimed the call, or gone, and a
\* terminal was sent exactly if it is gone.
Terminals ==
    /\ \A c \in Calls :
          /\ Len(ends[c]) <= 1
          /\ pc[c] \in {"start", "spawn", "publish"} => c \notin senders /\ Len(ends[c]) = 0
          /\ c \in senders => pc[c] \in Parking /\ Len(ends[c]) = 0
          /\ pc[c] \in Parking /\ c \notin senders /\ ~HeldByDriver(c) => Len(ends[c]) = 1
    /\ \A d \in Calls : Driving(d) => claimed[d] \notin senders /\ Len(ends[claimed[d]]) = 0

\* Who will see to a call whose sender is parked.
Attended(c) ==
    \/ Queued(c)
    \/ \E d \in Calls :
          \/ dpc[d] = "sender" /\ claimed[d] = c
          \/ dpc[d] = "retireShadow"
          \/ dpc[d] = "retireSenders" /\ c \in doomed[d]

Parked == \A c \in senders : c \in shadow /\ (pc[c] \in Pending => Attended(c))

\* A driver that has yet to take a call from the queue, or will have.
Hungry(d) == pc[d] \in {"check", "withdraw"} \/ dpc[d] = "dequeue"

\* f gives every queued call a driver of its own that has yet to take a call of its Job.
Matching(f) ==
    /\ \A c \in Calls : Queued(c) => Hungry(f[c]) /\ target[f[c]] = target[c]
    /\ \A b, c \in Calls : Queued(b) /\ Queued(c) /\ f[b] = f[c] => b = c

Matched == \E f \in [Calls -> Calls] : Matching(f)

Inv2 == Terminals /\ Parked /\ Matched

\* A terminal is one more frame on each channel it is sent on.
LEMMA OneMoreFrame ==
    ASSUME TypeOK, NEW S, DropGuards(S)
    PROVE  \A c \in Calls : Len(ends'[c]) = IF c \in S THEN Len(ends[c]) + 1 ELSE Len(ends[c])
<1>1. \A c \in Calls : ends[c] \in Seq({"DONE", "FAILED"})
  BY DEF TypeOK
<1>2. \A c \in Calls : ends'[c] = IF c \in S THEN Append(ends[c], "FAILED") ELSE ends[c]
  BY DEF DropGuards
<1>3. \A c \in Calls : Len(Append(ends[c], "FAILED")) = Len(ends[c]) + 1
  BY <1>1, AppendProperties
<1> QED
  BY <1>2, <1>3

\* Only a call that is pending is driven.
LEMMA DrivenPending ==
    ASSUME Inv
    PROVE  \A d \in Calls : Driving(d) => claimed[d] \in Calls /\ pc[claimed[d]] \in Pending
BY DEF Inv, TypeOK, Claims, Driving

\* begin_call parks the sender before the call can be taken, and a call that is
\* refused loses it.
LEMMA BeginTerminals ==
    ASSUME Inv, Terminals, NEW c \in Calls, BeginStep(c)
    PROVE  Terminals'
<1>0. /\ pc \in [Calls -> CallPC] /\ senders \subseteq Calls /\ dpc \in [Calls -> DriverPC]
      /\ \A d \in Calls : Len(ends[d]) \in Nat
  BY LenProperties DEF Inv, TypeOK
<1>1. \A d \in Calls : Driving(d)' <=> Driving(d)
  <2>1. \/ dpc' = dpc
        \/ dpc' = [dpc EXCEPT ![c] = "dequeue"] /\ pc[c] \in {"check", "withdraw"}
    BY DEF BeginStep, Attach, CreateJob, SetActiveJob, CreateFails, Publish, EnqueueCall,
           StillActive, SeesRetired, Withdraw, WithdrawLost, Refuse, SpawnDialDriver, driverVars
  <2>2. pc[c] \in {"check", "withdraw"} => dpc[c] = "none"
    BY DEF Inv, Claims
  <2> QED
    BY <1>0, <2>1, <2>2 DEF Driving
<1>2. claimed' = claimed
  BY DEF BeginStep, Attach, CreateJob, SetActiveJob, CreateFails, Publish, EnqueueCall,
         StillActive, SeesRetired, Withdraw, WithdrawLost, Refuse, SpawnDialDriver, driverVars
<1>3. \A e \in Calls : HeldByDriver(e)' <=> HeldByDriver(e)
  BY <1>1, <1>2 DEF HeldByDriver
<1>4. ASSUME NEW l, pc' = [pc EXCEPT ![c] = l], UNCHANGED <<senders, ends>>,
             \/ pc[c] \in {"start", "spawn"} /\ l \in {"spawn", "publish", "err"}
             \/ pc[c] \in Parking /\ l \in Parking
      PROVE  Terminals'
  <2>1. pc'[c] = l /\ \A e \in Calls \ {c} : pc'[e] = pc[e]
    BY <1>0, <1>4
  <2>2. \A d \in Calls : Driving(d)' => claimed'[d] \notin senders' /\ Len(ends'[claimed'[d]]) = 0
    BY <1>1, <1>2, <1>4 DEF Terminals
  <2>3. ASSUME NEW e \in Calls
        PROVE  /\ Len(ends'[e]) <= 1
               /\ pc'[e] \in {"start", "spawn", "publish"} => e \notin senders' /\ Len(ends'[e]) = 0
               /\ e \in senders' => pc'[e] \in Parking /\ Len(ends'[e]) = 0
               /\ pc'[e] \in Parking /\ e \notin senders' /\ ~HeldByDriver(e)' => Len(ends'[e]) = 1
    BY <1>3, <1>4, <2>1 DEF Terminals, Parking
  <2> QED
    BY <2>2, <2>3 DEF Terminals
<1>5. CASE Publish(c)
  <2>1. /\ pc'[c] = "enqueue" /\ \A e \in Calls \ {c} : pc'[e] = pc[e]
        /\ senders' = senders \cup {c} /\ ends' = ends /\ pc[c] = "publish"
    BY <1>0, <1>5 DEF Publish
  <2>2. \A d \in Calls : Driving(d) => claimed[d] # c
    BY <2>1, DrivenPending DEF Pending
  <2>3. \A d \in Calls : Driving(d)' => claimed'[d] \notin senders' /\ Len(ends'[claimed'[d]]) = 0
    BY <1>1, <1>2, <2>1, <2>2 DEF Terminals
  <2> QED
    BY <1>3, <2>1, <2>3 DEF Terminals, Parking
<1>6. CASE Refuse(c)
  <2>1. /\ pc'[c] = "err" /\ \A e \in Calls \ {c} : pc'[e] = pc[e]
        /\ senders' = senders \ {c} /\ DropGuards({c} \cap senders) /\ pc[c] = "refuse"
    BY <1>0, <1>6 DEF Refuse
  <2>2. \A e \in Calls : Len(ends'[e]) = IF e \in {c} \cap senders THEN Len(ends[e]) + 1
                                         ELSE Len(ends[e])
    BY <2>1, OneMoreFrame DEF Inv
  <2>3. Len(ends'[c]) <= 1
    BY <1>0, <2>2 DEF Terminals
  <2>4. \A e \in Calls \ {c} : Len(ends'[e]) = Len(ends[e])
    BY <2>2
  <2>5. \A d \in Calls : Driving(d) => claimed[d] \in Calls \ {c}
    BY <2>1, DrivenPending DEF Pending
  <2>6. \A d \in Calls : Driving(d)' => claimed'[d] \notin senders' /\ Len(ends'[claimed'[d]]) = 0
    BY <1>1, <1>2, <2>1, <2>4, <2>5 DEF Terminals
  <2>7. ASSUME NEW e \in Calls
        PROVE  /\ Len(ends'[e]) <= 1
               /\ pc'[e] \in {"start", "spawn", "publish"} => e \notin senders' /\ Len(ends'[e]) = 0
               /\ e \in senders' => pc'[e] \in Parking /\ Len(ends'[e]) = 0
               /\ pc'[e] \in Parking /\ e \notin senders' /\ ~HeldByDriver(e)' => Len(ends'[e]) = 1
    BY <1>3, <2>1, <2>3, <2>4 DEF Terminals, Parking
  <2> QED
    BY <2>6, <2>7 DEF Terminals
<1>7. CASE Attach(c) \/ CreateJob(c) \/ SetActiveJob(c) \/ CreateFails(c)
  BY <1>4, <1>7 DEF Attach, CreateJob, SetActiveJob, CreateFails
<1>8. CASE \/ EnqueueCall(c) \/ StillActive(c) \/ SeesRetired(c) \/ Withdraw(c) \/ WithdrawLost(c)
  BY <1>4, <1>8 DEF EnqueueCall, StillActive, SeesRetired, Withdraw, WithdrawLost, SpawnDialDriver,
                    Parking
<1> QED
  BY <1>5, <1>6, <1>7, <1>8 DEF BeginStep

\* The driver that took the sender sends the terminal, once; a retirement sends it for
\* what is still parked.
LEMMA DriverTerminals ==
    ASSUME Inv, Terminals, NEW d \in Calls, DriverStep(d) \/ PodStep(d)
    PROVE  Terminals'
<1>0. /\ pc \in [Calls -> CallPC] /\ senders \subseteq Calls /\ dpc \in [Calls -> DriverPC]
      /\ \A e \in Calls : Len(ends[e]) \in Nat
      /\ claimed \in [Calls -> Calls \cup {None}]
  BY LenProperties DEF Inv, TypeOK
<1>1. pc' = pc
  BY DEF DriverStep, PodStep, DequeueCall, DequeueNothing, TakeSender, SenderGone, Connect, DialTimesOut,
         DialCancelled, Evict, NothingToEvict, RetireQueue, RetireShadow, RetireSenders, RetireTokens,
         RunCompletes, RunBreaks, Lose, beginVars
<1>2. ASSUME UNCHANGED <<senders, ends>>, \A e \in Calls : Driving(e)' <=> Driving(e),
             \A e \in Calls : Driving(e) => claimed'[e] = claimed[e]
      PROVE  Terminals'
  <2>1. \A e \in Calls : HeldByDriver(e)' <=> HeldByDriver(e)
    BY <1>2 DEF HeldByDriver
  <2> QED
    BY <1>1, <1>2, <2>1 DEF Terminals
<1>3. CASE \E g \in Grants : DequeueCall(d, g)
  <2>1. PICK g \in Grants : DequeueCall(d, g)
    BY <1>3
  <2>2. /\ dpc' = [dpc EXCEPT ![d] = "sender"] /\ dpc[d] = "dequeue" /\ UNCHANGED <<senders, ends>>
        /\ \E c : claimed' = [claimed EXCEPT ![d] = c]
    BY <2>1 DEF DequeueCall
  <2>3. \A e \in Calls : (Driving(e)' <=> Driving(e)) /\ (Driving(e) => claimed'[e] = claimed[e])
    BY <1>0, <2>2 DEF Driving
  <2> QED
    BY <1>2, <2>2, <2>3
<1>4. CASE \/ DequeueNothing(d) \/ SenderGone(d) \/ Evict(d) \/ NothingToEvict(d) \/ RetireQueue(d)
           \/ RetireShadow(d) \/ RetireTokens(d) \/ Connect(d)
  <2>1. UNCHANGED <<senders, ends, claimed>>
    BY <1>4 DEF DequeueNothing, SenderGone, Evict, NothingToEvict, RetireQueue, RetireShadow,
                RetireTokens, Connect
  <2>2. \A e \in Calls : Driving(e)' <=> Driving(e)
    BY <1>0, <1>4 DEF DequeueNothing, SenderGone, Evict, NothingToEvict, RetireQueue, RetireShadow,
                RetireTokens, Connect, Driving
  <2> QED
    BY <1>2, <2>1, <2>2
<1>5. CASE TakeSender(d)
  <2>0. PICK c \in Calls : c = claimed[d]
    BY <1>0, <1>5 DEF TakeSender
  <2>1. /\ c \in senders /\ senders' = senders \ {c} /\ UNCHANGED <<ends, claimed>>
        /\ Driving(d)' /\ \A e \in Calls \ {d} : Driving(e)' <=> Driving(e)
    BY <1>0, <1>5, <2>0 DEF TakeSender, Driving
  <2>3. HeldByDriver(c)' /\ \A e \in Calls : HeldByDriver(e) => HeldByDriver(e)'
    BY <2>0, <2>1 DEF HeldByDriver
  <2>4. \A e \in Calls : Driving(e)' => claimed'[e] \notin senders' /\ Len(ends'[claimed'[e]]) = 0
    <3> SUFFICES ASSUME NEW e \in Calls, Driving(e)'
                 PROVE  claimed[e] \notin senders \ {c} /\ Len(ends[claimed[e]]) = 0
      BY <2>1
    <3>1. CASE e = d
      BY <2>0, <2>1, <3>1 DEF Terminals
    <3>2. CASE e # d
      BY <2>1, <3>2 DEF Terminals
    <3> QED
      BY <3>1, <3>2
  <2>5. ASSUME NEW e \in Calls
        PROVE  /\ Len(ends'[e]) <= 1
               /\ pc'[e] \in {"start", "spawn", "publish"} => e \notin senders' /\ Len(ends'[e]) = 0
               /\ e \in senders' => pc'[e] \in Parking /\ Len(ends'[e]) = 0
               /\ pc'[e] \in Parking /\ e \notin senders' /\ ~HeldByDriver(e)' => Len(ends'[e]) = 1
    BY <1>1, <2>1, <2>3 DEF Terminals
  <2> QED
    BY <2>4, <2>5 DEF Terminals
<1>6. CASE Driving(d) /\ (Lose(d) \/ RunCompletes(d))
  <2>0. PICK c \in Calls : c = claimed[d]
    BY <1>6, DrivenPending
  <2>1. c \in Calls /\ pc[c] \in Pending /\ c \notin senders /\ Len(ends[c]) = 0
    BY <1>6, <2>0, DrivenPending DEF Terminals
  <2>2. UNCHANGED <<senders, claimed>>
    BY <1>6 DEF Lose, RunCompletes
  <2>3. ~Driving(d)' /\ \A e \in Calls \ {d} : Driving(e)' <=> Driving(e)
    BY <1>0, <1>6 DEF Lose, RunCompletes, Driving
  <2>4. \A e \in Calls : Len(ends'[e]) = IF e = c THEN Len(ends[e]) + 1 ELSE Len(ends[e])
    <3>1. CASE Lose(d)
      <4>1. DropGuards({c})
        BY <2>0, <3>1 DEF Lose
      <4>2. \A e \in Calls : Len(ends'[e]) = IF e \in {c} THEN Len(ends[e]) + 1 ELSE Len(ends[e])
        BY <4>1, OneMoreFrame DEF Inv
      <4> QED
        BY <4>2
    <3>2. CASE RunCompletes(d)
      <4>1. ends' = [ends EXCEPT ![c] = Append(ends[c], "DONE")]
        BY <2>0, <3>2 DEF RunCompletes
      <4>2. Len(Append(ends[c], "DONE")) = Len(ends[c]) + 1
        BY <2>1, AppendProperties DEF Inv, TypeOK
      <4> QED
        BY <2>1, <4>1, <4>2 DEF Inv, TypeOK
    <3> QED
      BY <1>6, <3>1, <3>2
  <2>5. \A e \in Calls \ {d} : Driving(e) => claimed[e] \in Calls \ {c}
    BY <2>0, <2>1, DrivenPending, NoneAssumption DEF Inv, Claims
  <2>6. \A e \in Calls : Driving(e)' => claimed'[e] \notin senders' /\ Len(ends'[claimed'[e]]) = 0
    BY <2>2, <2>3, <2>4, <2>5 DEF Terminals
  <2>7. \A e \in Calls \ {c} : HeldByDriver(e)' <=> HeldByDriver(e)
    BY <2>0, <2>2, <2>3 DEF HeldByDriver
  <2>8. Len(ends'[c]) = 1 /\ \A e \in Calls \ {c} : Len(ends'[e]) = Len(ends[e])
    <3>1. Len(ends'[c]) = Len(ends[c]) + 1
      BY <2>1, <2>4
    <3>2. Len(ends'[c]) = 1
      BY <2>1, <3>1
    <3> QED
      BY <2>4, <3>2
  <2>9. ASSUME NEW e \in Calls
        PROVE  /\ Len(ends'[e]) <= 1
               /\ pc'[e] \in {"start", "spawn", "publish"} => e \notin senders' /\ Len(ends'[e]) = 0
               /\ e \in senders' => pc'[e] \in Parking /\ Len(ends'[e]) = 0
               /\ pc'[e] \in Parking /\ e \notin senders' /\ ~HeldByDriver(e)' => Len(ends'[e]) = 1
    <3>1. CASE e = c
      <4>1. /\ Len(ends'[e]) = 1 /\ e \notin senders'
            /\ pc'[e] \notin {"start", "spawn", "publish"}
        BY <1>1, <2>1, <2>2, <2>8, <3>1 DEF Pending
      <4> QED
        BY <4>1
    <3>2. CASE e # c
      BY <1>1, <2>2, <2>7, <2>8, <3>2 DEF Terminals
    <3> QED
      BY <3>1, <3>2
  <2> QED
    BY <2>6, <2>9 DEF Terminals
<1>7. CASE RetireSenders(d)
  <2> DEFINE S == doomed[d] \cap senders
  <2>1. /\ senders' = senders \ S /\ DropGuards(S) /\ UNCHANGED claimed
        /\ \A e \in Calls : Driving(e)' <=> Driving(e)
    BY <1>0, <1>7 DEF RetireSenders, Driving
  <2>2. \A e \in Calls : HeldByDriver(e)' <=> HeldByDriver(e)
    BY <2>1 DEF HeldByDriver
  <2>3. S \subseteq senders
    OBVIOUS
  <2> HIDE DEF S
  <2>4. \A e \in Calls : Len(ends'[e]) = IF e \in S THEN Len(ends[e]) + 1 ELSE Len(ends[e])
    BY <2>1, OneMoreFrame DEF Inv
  <2>5. \A e \in Calls : Driving(e)' => claimed'[e] \notin senders' /\ Len(ends'[claimed'[e]]) = 0
    BY <2>1, <2>3, <2>4, DrivenPending DEF Terminals
  <2>6. /\ \A e \in S : Len(ends'[e]) = 1
        /\ \A e \in Calls \ S : Len(ends'[e]) = Len(ends[e])
    <3>1. ASSUME NEW e \in S PROVE Len(ends'[e]) = 1
      <4>1. e \in Calls /\ Len(ends[e]) = 0
        BY <1>0, <2>3 DEF Terminals
      <4>2. Len(ends'[e]) = Len(ends[e]) + 1
        BY <2>4, <4>1
      <4> QED
        BY <4>1, <4>2
    <3> QED
      BY <2>4, <3>1
  <2>7. ASSUME NEW e \in Calls
        PROVE  /\ Len(ends'[e]) <= 1
               /\ pc'[e] \in {"start", "spawn", "publish"} => e \notin senders' /\ Len(ends'[e]) = 0
               /\ e \in senders' => pc'[e] \in Parking /\ Len(ends'[e]) = 0
               /\ pc'[e] \in Parking /\ e \notin senders' /\ ~HeldByDriver(e)' => Len(ends'[e]) = 1
    <3>1. CASE e \in S
      <4>1. pc[e] \in Parking /\ e \notin senders' /\ Len(ends'[e]) = 1
        BY <2>1, <2>3, <2>6, <3>1 DEF Terminals
      <4> QED
        BY <1>1, <4>1 DEF Parking
    <3>2. CASE e \notin S
      BY <1>1, <2>1, <2>2, <2>6, <3>2 DEF Terminals
    <3> QED
      BY <3>1, <3>2
  <2> QED
    BY <2>5, <2>7 DEF Terminals
<1> QED
  BY <1>3, <1>4, <1>5, <1>6, <1>7
     DEF DriverStep, PodStep, DialTimesOut, DialCancelled, RunBreaks, RunCompletes, Driving

\* A sender is parked, held or gone, and gone with one terminal, after every step.
LEMMA StepTerminals == Inv /\ Terminals /\ [Next]_vars => Terminals'
<1> SUFFICES ASSUME Inv, Terminals, [Next]_vars PROVE Terminals'
  OBVIOUS
<1>1. CASE \/ UNCHANGED vars
           \/ \E c \in Calls : FireCallCancel(c)
           \/ \E g \in Grants : WindowPasses(g)
  <2>1. UNCHANGED <<pc, senders, ends, dpc, claimed>>
    BY <1>1 DEF vars, FireCallCancel, WindowPasses, beginVars, driverVars
  <2>2. \A e \in Calls : (Driving(e)' <=> Driving(e)) /\ (HeldByDriver(e)' <=> HeldByDriver(e))
    BY <2>1 DEF Driving, HeldByDriver
  <2> QED
    BY <2>1, <2>2 DEF Terminals
<1> QED
  BY <1>1, BeginTerminals, DriverTerminals DEF Next, AllServed

\* Taking one entry out of a bucket leaves every other call queued.
LEMMA QueuedAfterRemove ==
    ASSUME Inv, NEW g \in Grants, NEW i \in 1..Len(queue[g]), UNCHANGED grant,
           queue' = [queue EXCEPT ![g] = RemoveIndex(queue[g], i)]
    PROVE  \A e \in Calls : Queued(e)' <=> Queued(e) /\ e # queue[g][i]
<1>0. TypeOK /\ Buckets /\ grant \in [Calls -> Grants] /\ queue \in [Grants -> Seq(Calls)]
  BY DEF Inv, TypeOK
<1> SUFFICES ASSUME NEW e \in Calls PROVE Queued(e)' <=> Queued(e) /\ e # queue[g][i]
  OBVIOUS
<1>1. ASSUME Queued(e)' PROVE Queued(e) /\ e # queue[g][i]
  <2>1. Shrunk(queue[g][i]) /\ grant[e] \in Grants
    BY <1>0, BucketShrinks
  <2>2. PICK m \in 1..Len(queue'[grant[e]]) : queue'[grant[e]][m] = e
    BY <1>1 DEF Queued
  <2> QED
    BY <2>1, <2>2 DEF Shrunk, Queued
<1>2. ASSUME Queued(e), e # queue[g][i] PROVE Queued(e)'
  <2>1. PICK n \in 1..Len(queue[grant[e]]) : queue[grant[e]][n] = e
    BY <1>2 DEF Queued
  <2>2. CASE grant[e] # g
    <3>1. queue'[grant[e]] = queue[grant[e]]
      BY <1>0, <2>2
    <3> QED
      BY <2>1, <3>1 DEF Queued
  <2>3. CASE grant[e] = g
    <3>1. n # i /\ queue[g] \in Seq(Calls) /\ Len(queue[g]) \in Nat
      BY <1>0, <1>2, <2>1, <2>3, LenProperties
    <3>2. /\ Len(queue'[g]) = Len(queue[g]) - 1
          /\ \A j \in 1..(Len(queue[g]) - 1) :
                queue'[g][j] = IF j < i THEN queue[g][j] ELSE queue[g][j + 1]
      BY <1>0, <3>1, RemoveIndexProperties
    <3> DEFINE L == Len(queue[g])
    <3> DEFINE m == IF n < i THEN n ELSE n - 1
    <3>3. L \in Nat /\ n \in 1..L /\ i \in 1..L /\ n # i
      BY <2>1, <2>3, <3>1
    <3> HIDE DEF L
    <3>4. m \in 1..(L - 1) /\ (IF m < i THEN m = n ELSE m + 1 = n)
      BY <3>3
    <3> HIDE DEF m
    <3>5. queue'[g][m] = queue[g][n] /\ m \in 1..Len(queue'[g])
      BY <3>2, <3>4 DEF L
    <3> QED
      BY <2>1, <2>3, <3>5 DEF Queued
  <2> QED
    BY <2>2, <2>3
<1> QED
  BY <1>1, <1>2

\* A call that is enqueued joins those that are.
LEMMA QueuedAfterAppend ==
    ASSUME Inv, NEW c \in Calls, EnqueueCall(c)
    PROVE  \A e \in Calls : Queued(e)' <=> Queued(e) \/ e = c
<1> DEFINE b == grant[c]
<1>0. /\ grant \in [Calls -> Grants] /\ queue \in [Grants -> Seq(Calls)] /\ grant' = grant
      /\ b \in Grants /\ queue' = [queue EXCEPT ![b] = Append(queue[b], c)]
  BY DEF Inv, TypeOK, EnqueueCall
<1>1. /\ Len(queue[b]) \in Nat
      /\ Len(queue'[b]) = Len(queue[b]) + 1
      /\ queue'[b][Len(queue[b]) + 1] = c
      /\ \A i \in 1..Len(queue[b]) : queue'[b][i] = queue[b][i]
  BY <1>0, AppendProperties, LenProperties
<1> SUFFICES ASSUME NEW e \in Calls PROVE Queued(e)' <=> Queued(e) \/ e = c
  OBVIOUS
<1>2. CASE grant[e] # b
  <2>1. queue'[grant[e]] = queue[grant[e]] /\ e # c
    BY <1>0, <1>2
  <2> QED
    BY <1>0, <2>1 DEF Queued
<1>3. CASE grant[e] = b
  <2>1. ASSUME Queued(e)' PROVE Queued(e) \/ e = c
    <3>1. PICK i \in 1..Len(queue'[b]) : queue'[b][i] = e
      BY <1>0, <1>3, <2>1 DEF Queued
    <3>2. CASE i = Len(queue[b]) + 1
      BY <1>1, <3>1, <3>2
    <3>3. CASE i # Len(queue[b]) + 1
      <4>1. i \in 1..Len(queue[b])
        BY <1>1, <3>1, <3>3
      <4> QED
        BY <1>1, <1>3, <3>1, <4>1 DEF Queued
    <3> QED
      BY <3>2, <3>3
  <2>2. ASSUME Queued(e) PROVE Queued(e)'
    <3>1. PICK i \in 1..Len(queue[b]) : queue[b][i] = e
      BY <1>3, <2>2 DEF Queued
    <3>2. i \in 1..Len(queue'[b]) /\ queue'[b][i] = e
      BY <1>1, <3>1
    <3> QED
      BY <1>0, <1>3, <3>2 DEF Queued
  <2>3. ASSUME e = c PROVE Queued(e)'
    <3>1. Len(queue[b]) + 1 \in 1..Len(queue'[b])
      BY <1>1
    <3> QED
      BY <1>0, <1>1, <2>3, <3>1 DEF Queued
  <2> QED
    BY <2>1, <2>2, <2>3
<1> QED
  BY <1>2, <1>3

\* A queued call is pending.
LEMMA QueuedPending ==
    ASSUME Inv
    PROVE  \A c \in Calls : Queued(c) => pc[c] \in Pending
BY DEF Inv, TypeOK, Buckets, Queued

\* A step that leaves the queue alone leaves alone who is queued.
LEMMA QueuedSame ==
    ASSUME UNCHANGED <<grant, queue>>
    PROVE  \A c \in Calls : Queued(c)' <=> Queued(c)
BY DEF Queued

\* begin_call leaves no parked sender unattended.
LEMMA BeginParked ==
    ASSUME Inv, Terminals, Parked, NEW c \in Calls, BeginStep(c)
    PROVE  Parked'
<1>0. /\ pc \in [Calls -> CallPC] /\ senders \subseteq Calls /\ dpc \in [Calls -> DriverPC]
  BY DEF Inv, TypeOK
<1>1. /\ claimed' = claimed /\ doomed' = doomed /\ grant' = grant
      /\ \A d \in Calls : dpc[d] \in {"sender", "retireShadow", "retireSenders"} => dpc'[d] = dpc[d]
  <2>1. claimed' = claimed /\ doomed' = doomed /\ grant' = grant
    BY DEF BeginStep, Attach, CreateJob, SetActiveJob, CreateFails, Publish, EnqueueCall,
           StillActive, SeesRetired, Withdraw, WithdrawLost, Refuse, SpawnDialDriver, driverVars
  <2>2. \/ dpc' = dpc
        \/ dpc' = [dpc EXCEPT ![c] = "dequeue"] /\ pc[c] \in {"check", "withdraw"}
    BY DEF BeginStep, Attach, CreateJob, SetActiveJob, CreateFails, Publish, EnqueueCall,
           StillActive, SeesRetired, Withdraw, WithdrawLost, Refuse, SpawnDialDriver, driverVars
  <2>3. pc[c] \in {"check", "withdraw"} => dpc[c] = "none"
    BY DEF Inv, Claims
  <2> QED
    BY <1>0, <2>1, <2>2, <2>3
<1>2. ASSUME NEW e \in Calls, Attended(e), Queued(e) => Queued(e)' PROVE Attended(e)'
  BY <1>1, <1>2 DEF Attended
<1>3. \A e \in Calls \ {c} : pc'[e] = pc[e]
  BY <1>0 DEF BeginStep, Attach, CreateJob, SetActiveJob, CreateFails, Publish, EnqueueCall,
         StillActive, SeesRetired, Withdraw, WithdrawLost, Refuse, SpawnDialDriver
<1>4. CASE \/ Attach(c) \/ CreateJob(c) \/ SetActiveJob(c) \/ CreateFails(c) \/ Publish(c)
           \/ StillActive(c) \/ SeesRetired(c) \/ WithdrawLost(c) \/ Refuse(c)
  <2>1. queue' = queue
    BY <1>4 DEF Attach, CreateJob, SetActiveJob, CreateFails, Publish, StillActive, SeesRetired,
                WithdrawLost, Refuse
  <2>2. \A e \in Calls : Attended(e) => Attended(e)'
    BY <1>1, <1>2, <2>1, QueuedSame
  <2>3. CASE Attach(c) \/ CreateJob(c) \/ SetActiveJob(c) \/ CreateFails(c)
    <3>1. pc[c] \in {"start", "spawn"} /\ UNCHANGED <<senders, shadow>>
      BY <2>3 DEF Attach, CreateJob, SetActiveJob, CreateFails
    <3>2. c \notin senders
      BY <3>1 DEF Terminals
    <3> QED
      BY <1>0, <1>3, <2>2, <3>1, <3>2 DEF Parked
  <2>4. CASE Publish(c)
    <3>1. senders' = senders \cup {c} /\ shadow' = shadow \cup {c} /\ pc'[c] \notin Pending
      BY <1>0, <2>4 DEF Publish, Pending
    <3> QED
      BY <1>0, <1>3, <2>2, <3>1 DEF Parked
  <2>5. CASE StillActive(c) \/ SeesRetired(c) \/ WithdrawLost(c)
    <3>1. pc[c] \in Pending /\ UNCHANGED <<senders, shadow>>
      BY <2>5 DEF StillActive, SeesRetired, WithdrawLost, Pending
    <3> QED
      BY <1>0, <1>3, <2>2, <3>1 DEF Parked
  <2>6. CASE Refuse(c)
    <3>1. senders' = senders \ {c} /\ shadow' = shadow \ {c}
      BY <2>6 DEF Refuse
    <3> QED
      BY <1>0, <1>3, <2>2, <3>1 DEF Parked
  <2> QED
    BY <1>4, <2>3, <2>4, <2>5, <2>6
<1>5. CASE EnqueueCall(c)
  <2>1. \A e \in Calls : Queued(e)' <=> Queued(e) \/ e = c
    BY <1>5, QueuedAfterAppend
  <2>2. Attended(c)'
    BY <2>1 DEF Attended
  <2>3. UNCHANGED <<senders, shadow>>
    BY <1>5 DEF EnqueueCall
  <2>4. \A e \in Calls : Attended(e) => Attended(e)'
    BY <1>2, <2>1
  <2> QED
    BY <1>0, <1>3, <2>2, <2>3, <2>4 DEF Parked
<1>6. CASE Withdraw(c)
  <2>1. PICK g \in Grants : g = grant[c]
    BY DEF Inv, TypeOK
  <2>2. PICK i \in 1..Len(queue[g]) :
            /\ queue[g][i] = c
            /\ queue' = [queue EXCEPT ![g] = RemoveIndex(queue[g], i)]
    BY <1>6, <2>1 DEF Withdraw
  <2>3. \A e \in Calls \ {c} : Queued(e) => Queued(e)'
    BY <1>1, <2>2, QueuedAfterRemove
  <2>4. UNCHANGED <<senders, shadow>> /\ pc'[c] \notin Pending
    BY <1>0, <1>6 DEF Withdraw, Pending
  <2>5. \A e \in Calls \ {c} : Attended(e) => Attended(e)'
    BY <1>2, <2>3
  <2> QED
    BY <1>0, <1>3, <2>4, <2>5 DEF Parked
<1> QED
  BY <1>4, <1>5, <1>6 DEF BeginStep

\* A driver attends to the call it takes, and a retirement to all that are parked.
LEMMA DriverParked ==
    ASSUME Inv, Terminals, Parked, NEW d \in Calls, DriverStep(d) \/ PodStep(d)
    PROVE  Parked'
<1>0. /\ senders \subseteq Calls /\ dpc \in [Calls -> DriverPC]
      /\ claimed \in [Calls -> Calls \cup {None}] /\ doomed \in [Calls -> SUBSET Calls]
  BY DEF Inv, TypeOK
<1>1. pc' = pc /\ grant' = grant
  BY DEF DriverStep, PodStep, DequeueCall, DequeueNothing, TakeSender, SenderGone, Connect, DialTimesOut,
         DialCancelled, Evict, NothingToEvict, RetireQueue, RetireShadow, RetireSenders, RetireTokens,
         RunCompletes, RunBreaks, Lose, beginVars
<1>2. ASSUME UNCHANGED <<queue, claimed, doomed>>, NEW l, dpc' = [dpc EXCEPT ![d] = l],
             NEW e \in Calls, Attended(e), ~(dpc[d] = "sender" /\ claimed[d] = e),
             dpc[d] # "retireShadow", ~(dpc[d] = "retireSenders" /\ e \in doomed[d])
      PROVE  Attended(e)'
  <2>1. \A b \in Calls \ {d} : dpc'[b] = dpc[b]
    BY <1>0, <1>2
  <2>2. CASE Queued(e)
    BY <1>1, <1>2, <2>2, QueuedSame DEF Attended
  <2>3. CASE ~Queued(e)
    <3>1. PICK b \in Calls : \/ dpc[b] = "sender" /\ claimed[b] = e
                             \/ dpc[b] = "retireShadow"
                             \/ dpc[b] = "retireSenders" /\ e \in doomed[b]
      BY <1>2, <2>3 DEF Attended
    <3> QED
      BY <1>2, <2>1, <3>1 DEF Attended
  <2> QED
    BY <2>2, <2>3
<1>3. CASE \E g \in Grants : DequeueCall(d, g)
  <2>1. PICK g \in Grants : DequeueCall(d, g)
    BY <1>3
  <2>2. PICK i \in 1..Len(queue[g]) :
            /\ claimed' = [claimed EXCEPT ![d] = queue[g][i]]
            /\ queue' = [queue EXCEPT ![g] = RemoveIndex(queue[g], i)]
    BY <2>1 DEF DequeueCall, Claimable
  <2>3. /\ dpc' = [dpc EXCEPT ![d] = "sender"] /\ dpc[d] = "dequeue"
        /\ UNCHANGED <<senders, shadow, doomed>>
    BY <2>1 DEF DequeueCall
  <2>4. \A e \in Calls : Queued(e)' <=> Queued(e) /\ e # queue[g][i]
    BY <1>1, <2>2, QueuedAfterRemove
  <2>5. dpc'[d] = "sender" /\ claimed'[d] = queue[g][i]
    BY <1>0, <2>2, <2>3
  <2>6. \A b \in Calls \ {d} : dpc'[b] = dpc[b] /\ claimed'[b] = claimed[b]
    BY <1>0, <2>2, <2>3
  <2>7. \A e \in Calls : Attended(e) => Attended(e)'
    <3> SUFFICES ASSUME NEW e \in Calls, Attended(e) PROVE Attended(e)'
      OBVIOUS
    <3>1. CASE e = queue[g][i]
      BY <2>5, <3>1 DEF Attended
    <3>2. CASE e # queue[g][i] /\ Queued(e)
      BY <2>4, <3>2 DEF Attended
    <3>3. CASE ~Queued(e)
      <4>1. PICK b \in Calls : \/ dpc[b] = "sender" /\ claimed[b] = e
                               \/ dpc[b] = "retireShadow"
                               \/ dpc[b] = "retireSenders" /\ e \in doomed[b]
        BY <3>3 DEF Attended
      <4>2. b # d
        BY <2>3, <4>1
      <4> QED
        BY <2>3, <2>6, <4>1, <4>2 DEF Attended
    <3> QED
      BY <3>1, <3>2, <3>3
  <2> QED
    BY <1>0, <1>1, <2>3, <2>7 DEF Parked
<1>4. CASE \/ DequeueNothing(d) \/ Connect(d) \/ Evict(d) \/ NothingToEvict(d) \/ RetireTokens(d)
           \/ SenderGone(d)
  <2>1. PICK l : /\ dpc' = [dpc EXCEPT ![d] = l] /\ dpc[d] \notin {"retireShadow", "retireSenders"}
                 /\ dpc[d] = "sender" => claimed[d] \notin senders
                 /\ UNCHANGED <<queue, claimed, doomed, senders, shadow>>
    BY <1>4 DEF DequeueNothing, Connect, Evict, NothingToEvict, RetireTokens, SenderGone
  <2>2. \A e \in senders : Attended(e) => Attended(e)'
    BY <1>0, <1>2, <2>1
  <2> QED
    BY <1>1, <2>1, <2>2 DEF Parked
<1>5. CASE TakeSender(d)
  <2>1. /\ dpc' = [dpc EXCEPT ![d] = "dial"] /\ dpc[d] = "sender" /\ senders' = senders \ {claimed[d]}
        /\ UNCHANGED <<queue, claimed, doomed, shadow>>
    BY <1>5 DEF TakeSender
  <2>2. \A e \in senders' : Attended(e) => Attended(e)'
    BY <1>0, <1>2, <2>1
  <2> QED
    BY <1>1, <2>1, <2>2 DEF Parked
<1>6. CASE Driving(d) /\ (Lose(d) \/ RunCompletes(d))
  <2>1. PICK l : /\ dpc' = [dpc EXCEPT ![d] = l] /\ shadow' = shadow \ {claimed[d]}
                 /\ UNCHANGED <<queue, claimed, doomed, senders>>
    BY <1>6 DEF Lose, RunCompletes, FinishCall
  <2>2. claimed[d] \notin senders /\ dpc[d] \in {"dial", "run"}
    BY <1>6 DEF Terminals, Driving
  <2>3. \A e \in senders : Attended(e) => Attended(e)'
    BY <1>0, <1>2, <2>1, <2>2
  <2> QED
    BY <1>1, <2>1, <2>2, <2>3 DEF Parked
<1>7. CASE RetireQueue(d)
  <2>1. dpc'[d] = "retireShadow" /\ UNCHANGED <<senders, shadow>>
    BY <1>0, <1>7 DEF RetireQueue
  <2> QED
    BY <1>1, <2>1 DEF Parked, Attended
<1>8. CASE RetireShadow(d)
  <2>1. dpc'[d] = "retireSenders" /\ doomed'[d] = shadow /\ UNCHANGED <<senders, shadow>>
    BY <1>0, <1>8 DEF RetireShadow
  <2> QED
    BY <1>1, <2>1 DEF Parked, Attended
<1>9. CASE RetireSenders(d)
  <2>1. /\ dpc[d] = "retireSenders" /\ dpc' = [dpc EXCEPT ![d] = "retireTokens"]
        /\ doomed' = [doomed EXCEPT ![d] = {}] /\ senders' = senders \ doomed[d]
        /\ shadow' = shadow \ doomed[d] /\ UNCHANGED <<queue, claimed>>
    BY <1>9 DEF RetireSenders
  <2>2. \A b \in Calls \ {d} : dpc'[b] = dpc[b] /\ doomed'[b] = doomed[b]
    BY <1>0, <2>1
  <2>3. ASSUME NEW e \in senders', Attended(e) PROVE Attended(e)'
    <3>1. CASE Queued(e)
      BY <1>0, <1>1, <2>1, <3>1, QueuedSame DEF Attended
    <3>2. CASE ~Queued(e)
      <4>1. PICK b \in Calls : \/ dpc[b] = "sender" /\ claimed[b] = e
                               \/ dpc[b] = "retireShadow"
                               \/ dpc[b] = "retireSenders" /\ e \in doomed[b]
        BY <2>3, <3>2 DEF Attended
      <4>2. b # d
        BY <2>1, <4>1
      <4> QED
        BY <2>1, <2>2, <4>1, <4>2 DEF Attended
    <3> QED
      BY <3>1, <3>2
  <2> QED
    BY <1>1, <2>1, <2>3 DEF Parked
<1> QED
  BY <1>3, <1>4, <1>5, <1>6, <1>7, <1>8, <1>9
     DEF DriverStep, PodStep, DialTimesOut, DialCancelled, RunBreaks, RunCompletes, Driving

\* A parked sender is attended to after every step.
LEMMA StepParked == Inv /\ Terminals /\ Parked /\ [Next]_vars => Parked'
<1> SUFFICES ASSUME Inv, Terminals, Parked, [Next]_vars PROVE Parked'
  OBVIOUS
<1>1. CASE \/ UNCHANGED vars
           \/ \E c \in Calls : FireCallCancel(c)
           \/ \E g \in Grants : WindowPasses(g)
  <2>1. UNCHANGED <<pc, senders, shadow, dpc, claimed, doomed, queue, grant>>
    BY <1>1 DEF vars, FireCallCancel, WindowPasses, beginVars, driverVars
  <2> QED
    BY <2>1 DEF Parked, Attended, Queued
<1> QED
  BY <1>1, BeginParked, DriverParked DEF Next, AllServed

\* Who is matched stays matched while he is hungry or nothing of his Job is queued.
LEMMA MatchedKeeps ==
    ASSUME Matched,
           \A e \in Calls : Queued(e)' => Queued(e),
           \A e \in Calls : Queued(e) \/ Hungry(e) => target'[e] = target[e],
           \A d \in Calls : Hungry(d) =>
              Hungry(d)' \/ \A e \in Calls : Queued(e)' => target[e] # target[d]
    PROVE  Matched'
<1>1. PICK f \in [Calls -> Calls] : Matching(f)
  BY DEF Matched
<1>2. Matching(f)'
  BY <1>1 DEF Matching
<1> QED
  BY <1>1, <1>2 DEF Matched

\* A call c leaves the queue with a driver d of its Job: who was matched with d gets the
\* driver that was matched with c.
LEMMA MatchedSwap ==
    ASSUME Matched, NEW c \in Calls, NEW d \in Calls, Queued(c), Hungry(d), target[d] = target[c],
           target' = target, \A e \in Calls : Queued(e)' <=> Queued(e) /\ e # c,
           \A e \in Calls \ {d} : Hungry(e) => Hungry(e)'
    PROVE  Matched'
<1>1. PICK f \in [Calls -> Calls] : Matching(f)
  BY DEF Matched
<1> DEFINE h == [e \in Calls |-> IF f[e] = d THEN f[c] ELSE f[e]]
<1>2. h \in [Calls -> Calls]
  BY <1>1
<1>3. ASSUME NEW e \in Calls, Queued(e), e # c
      PROVE  Hungry(h[e])' /\ target'[h[e]] = target'[e]
  <2>1. CASE f[e] = d
    <3>1. f[c] # d /\ f[c] \in Calls /\ Hungry(f[c]) /\ target[f[c]] = target[c]
      BY <1>1, <1>3, <2>1 DEF Matching
    <3>2. Hungry(f[c])' /\ target[e] = target[d]
      BY <1>1, <1>3, <2>1, <3>1 DEF Matching
    <3> QED
      BY <2>1, <3>1, <3>2
  <2>2. CASE f[e] # d
    <3>1. f[e] \in Calls /\ Hungry(f[e]) /\ target[f[e]] = target[e]
      BY <1>1, <1>3 DEF Matching
    <3>2. Hungry(f[e])'
      BY <2>2, <3>1
    <3> QED
      BY <2>2, <3>1, <3>2
  <2> QED
    BY <2>1, <2>2
<1>4. ASSUME NEW a \in Calls, NEW b \in Calls, Queued(a), Queued(b), a # c, b # c, h[a] = h[b]
      PROVE  a = b
  BY <1>1, <1>4 DEF Matching
<1> HIDE DEF h
<1>5. Matching(h)'
  BY <1>3, <1>4 DEF Matching
<1> QED
  BY <1>2, <1>5 DEF Matched

\* begin_call queues a call only together with a driver for its Job.
LEMMA BeginMatched ==
    ASSUME Inv, Matched, NEW c \in Calls, BeginStep(c)
    PROVE  Matched'
<1>0. /\ pc \in [Calls -> CallPC] /\ dpc \in [Calls -> DriverPC]
      /\ target \in [Calls -> Calls \cup {None}]
  BY DEF Inv, TypeOK
<1>1. ASSUME pc[c] \in {"start", "spawn", "publish", "refuse"}, UNCHANGED <<queue, grant, dpc>>,
             NEW l, pc' = [pc EXCEPT ![c] = l], \A e \in Calls \ {c} : target'[e] = target[e]
      PROVE  Matched'
  <2>1. ~Queued(c)
    BY <1>1, QueuedPending DEF Pending
  <2>2. ~Hungry(c)
    BY <1>1 DEF Hungry, Inv, Claims
  <2>3. \A e \in Calls \ {c} : Hungry(e) => Hungry(e)'
    BY <1>0, <1>1 DEF Hungry
  <2>4. \A e \in Calls : Queued(e)' <=> Queued(e)
    BY <1>1, QueuedSame
  <2> QED
    BY <1>1, <2>1, <2>2, <2>3, <2>4, MatchedKeeps
<1>2. CASE Attach(c) \/ CreateJob(c) \/ SetActiveJob(c) \/ CreateFails(c) \/ Publish(c) \/ Refuse(c)
  <2>1. \A e \in Calls \ {c} : target'[e] = target[e]
    BY <1>0, <1>2 DEF Attach, CreateJob, SetActiveJob, CreateFails, Publish, Refuse
  <2>2. \E l : pc' = [pc EXCEPT ![c] = l]
    BY <1>2 DEF Attach, CreateJob, SetActiveJob, CreateFails, Publish, Refuse
  <2>3. pc[c] \in {"start", "spawn", "publish", "refuse"} /\ UNCHANGED <<queue, grant, dpc>>
    BY <1>2 DEF Attach, CreateJob, SetActiveJob, CreateFails, Publish, Refuse, driverVars
  <2> QED
    BY <1>1, <2>1, <2>2, <2>3
<1>3. CASE StillActive(c) \/ SeesRetired(c) \/ WithdrawLost(c)
  <2>1. UNCHANGED <<queue, grant, target>>
    BY <1>3 DEF StillActive, SeesRetired, WithdrawLost
  <2>2. \A e \in Calls : Hungry(e) => Hungry(e)'
    BY <1>0, <1>3 DEF StillActive, SeesRetired, WithdrawLost, SpawnDialDriver, driverVars, Hungry
  <2>3. \A e \in Calls : Queued(e)' <=> Queued(e)
    BY <2>1, QueuedSame
  <2> QED
    BY <2>1, <2>2, <2>3, MatchedKeeps
<1>4. CASE EnqueueCall(c)
  <2>1. \A e \in Calls : Queued(e)' <=> Queued(e) \/ e = c
    BY <1>4, QueuedAfterAppend
  <2>2. pc[c] = "enqueue" /\ pc' = [pc EXCEPT ![c] = "check"] /\ UNCHANGED <<target, dpc>>
    BY <1>4 DEF EnqueueCall, driverVars
  <2>3. \A e \in Calls : Hungry(e) => Hungry(e)' /\ e # c
    BY <1>0, <2>2 DEF Hungry, Inv, Claims
  <2>4. Hungry(c)' /\ ~Queued(c)
    BY <1>0, <2>2, QueuedPending DEF Hungry, Pending
  <2>5. PICK f \in [Calls -> Calls] : Matching(f)
    BY DEF Matched
  <2> DEFINE h == [f EXCEPT ![c] = c]
  <2>6. h \in [Calls -> Calls] /\ h[c] = c /\ \A e \in Calls \ {c} : h[e] = f[e]
    BY <2>5
  <2> HIDE DEF h
  <2>7. \A e \in Calls : Queued(e) => f[e] \in Calls /\ f[e] # c /\ Hungry(f[e])' /\ target[f[e]] = target[e]
    BY <2>3, <2>5 DEF Matching
  <2>8. \A e \in Calls : Queued(e)' => Hungry(h[e])' /\ target'[h[e]] = target'[e]
    BY <2>1, <2>2, <2>4, <2>6, <2>7
  <2>9. \A a, b \in Calls : Queued(a)' /\ Queued(b)' /\ h[a] = h[b] => a = b
    BY <2>1, <2>4, <2>5, <2>6, <2>7 DEF Matching
  <2>10. Matching(h)'
    BY <2>8, <2>9 DEF Matching
  <2> QED
    BY <2>6, <2>10 DEF Matched
<1>5. CASE Withdraw(c)
  <2>1. PICK g \in Grants : g = grant[c]
    BY DEF Inv, TypeOK
  <2>2. PICK i \in 1..Len(queue[g]) :
            /\ queue[g][i] = c
            /\ queue' = [queue EXCEPT ![g] = RemoveIndex(queue[g], i)]
    BY <1>5, <2>1 DEF Withdraw
  <2>3. /\ pc[c] = "withdraw" /\ pc' = [pc EXCEPT ![c] = "refuse"]
        /\ UNCHANGED <<target, grant, dpc>>
    BY <1>5 DEF Withdraw, driverVars
  <2>4. \A e \in Calls : Queued(e)' <=> Queued(e) /\ e # c
    BY <2>2, <2>3, QueuedAfterRemove
  <2>5. Queued(c) /\ Hungry(c)
    BY <2>1, <2>2, <2>3 DEF Queued, Hungry
  <2>6. \A e \in Calls \ {c} : Hungry(e) => Hungry(e)'
    BY <1>0, <2>3 DEF Hungry
  <2> QED
    BY <2>3, <2>4, <2>5, <2>6, MatchedSwap
<1> QED
  BY <1>2, <1>3, <1>4, <1>5 DEF BeginStep

\* A driver leaves the queue with a call of its Job, or with none left there.
LEMMA DriverMatched ==
    ASSUME Inv, Matched, NEW d \in Calls, DriverStep(d) \/ PodStep(d)
    PROVE  Matched'
<1>0. dpc \in [Calls -> DriverPC] /\ queue \in [Grants -> Seq(Calls)] /\ grant \in [Calls -> Grants]
  BY DEF Inv, TypeOK
<1>1. pc' = pc /\ grant' = grant /\ target' = target
  BY DEF DriverStep, PodStep, DequeueCall, DequeueNothing, TakeSender, SenderGone, Connect, DialTimesOut,
         DialCancelled, Evict, NothingToEvict, RetireQueue, RetireShadow, RetireSenders, RetireTokens,
         RunCompletes, RunBreaks, Lose, beginVars
<1>2. CASE \E g \in Grants : DequeueCall(d, g)
  <2>1. PICK g \in Grants : DequeueCall(d, g)
    BY <1>2
  <2>2. PICK i \in 1..Len(queue[g]) :
            /\ target[queue[g][i]] = target[d]
            /\ queue' = [queue EXCEPT ![g] = RemoveIndex(queue[g], i)]
    BY <2>1 DEF DequeueCall, Claimable
  <2>3. PICK c \in Calls : c = queue[g][i]
    BY <1>0, ElementOfSeq
  <2>4. dpc' = [dpc EXCEPT ![d] = "sender"] /\ dpc[d] = "dequeue"
    BY <2>1 DEF DequeueCall
  <2>5. \A e \in Calls : Queued(e)' <=> Queued(e) /\ e # c
    BY <1>1, <2>2, <2>3, QueuedAfterRemove
  <2>6. grant[c] = g
    BY <2>3 DEF Inv, Buckets
  <2>7. Queued(c) /\ Hungry(d)
    BY <2>3, <2>4, <2>6 DEF Queued, Hungry
  <2>8. \A e \in Calls \ {d} : Hungry(e) => Hungry(e)'
    BY <1>0, <1>1, <2>4 DEF Hungry
  <2> QED
    BY <1>1, <2>2, <2>3, <2>5, <2>7, <2>8, MatchedSwap
<1>3. CASE DequeueNothing(d)
  <2>1. /\ dpc' = [dpc EXCEPT ![d] = "done"] /\ queue' = queue
        /\ \A g \in Grants : Claimable(d, g) = {}
    BY <1>3 DEF DequeueNothing
  <2>2. \A e \in Calls : Queued(e)' <=> Queued(e)
    BY <1>1, <2>1, QueuedSame
  <2>3. \A e \in Calls \ {d} : Hungry(e) => Hungry(e)'
    BY <1>0, <1>1, <2>1 DEF Hungry
  <2>4. \A e \in Calls : Queued(e) => target[e] # target[d]
    BY <1>0, <2>1 DEF Queued, Claimable
  <2> QED
    BY <1>1, <2>2, <2>3, <2>4, MatchedKeeps
<1>4. CASE RetireQueue(d)
  <2>1. \A e \in Calls : ~Queued(e)'
    <3>1. \A g \in Grants : Len(queue'[g]) = 0
      BY <1>4 DEF RetireQueue
    <3> QED
      BY <1>0, <1>1, <3>1 DEF Queued
  <2> QED
    BY <1>1, <2>1, MatchedKeeps
<1>5. ASSUME dpc[d] # "dequeue", queue' = queue, NEW l, dpc' = [dpc EXCEPT ![d] = l] PROVE Matched'
  <2>1. \A e \in Calls : Hungry(e) => Hungry(e)'
    BY <1>0, <1>1, <1>5 DEF Hungry
  <2>2. \A e \in Calls : Queued(e)' <=> Queued(e)
    BY <1>1, <1>5, QueuedSame
  <2> QED
    BY <1>1, <2>1, <2>2, MatchedKeeps
<1>6. CASE Driving(d) /\ (Lose(d) \/ RunCompletes(d))
  BY <1>5, <1>6 DEF Driving, Lose, RunCompletes
<1>7. CASE \/ TakeSender(d) \/ SenderGone(d) \/ Connect(d) \/ Evict(d) \/ NothingToEvict(d)
           \/ RetireShadow(d) \/ RetireSenders(d) \/ RetireTokens(d)
  BY <1>5, <1>7 DEF TakeSender, SenderGone, Connect, Evict, NothingToEvict, RetireShadow,
                    RetireSenders, RetireTokens
<1> QED
  BY <1>2, <1>3, <1>4, <1>6, <1>7
     DEF DriverStep, PodStep, DialTimesOut, DialCancelled, RunBreaks, RunCompletes, Driving

\* Every queued call has a driver of its own after every step.
LEMMA StepMatched == Inv /\ Matched /\ [Next]_vars => Matched'
<1> SUFFICES ASSUME Inv, Matched, [Next]_vars PROVE Matched'
  OBVIOUS
<1>1. CASE \/ UNCHANGED vars
           \/ \E c \in Calls : FireCallCancel(c)
           \/ \E g \in Grants : WindowPasses(g)
  <2>1. UNCHANGED <<pc, dpc, queue, grant, target>>
    BY <1>1 DEF vars, FireCallCancel, WindowPasses, beginVars, driverVars
  <2>2. \A e \in Calls : (Hungry(e)' <=> Hungry(e)) /\ (Queued(e)' <=> Queued(e))
    BY <2>1 DEF Hungry, Queued
  <2> QED
    BY <2>1, <2>2, MatchedKeeps
<1> QED
  BY <1>1, BeginMatched, DriverMatched DEF Next, AllServed

----------------------------------------------------------------------------
(* The theorems *)

\* The tables of the dispatch state keep their types, and the per-tool lock is held
\* exactly by the begin_call that is creating a Job.
THEOREM TypeCorrect == Spec => []TypeOK
<1>1. Inv => TypeOK
  BY DEF Inv
<1> QED
  BY <1>1, InitInv, StepInv, PTL DEF Spec

\* Whatever the callers, drivers, cancels and evictions interleave to, a pod only
\* ever runs calls of the grant its Job was spawned for.
THEOREM GrantsSeparate == Spec => []GrantContained
BY InitInv, StepInv, InvSafe, PTL DEF Spec

\* dequeue_call and remove_pending_call arbitrate: a call runs on one driver at most,
\* and never after begin_call refused it.
THEOREM CallsRunOnce == Spec => []RunsOnce
BY InitInv, StepInv, InvSafe, PTL DEF Spec

\* Nothing is parked, queued or sent at first.
LEMMA InitInv2 == Init => Inv2
<1> SUFFICES ASSUME Init PROVE Inv2
  OBVIOUS
<1>1. Terminals /\ Parked
  BY DEF Init, Terminals, Parked, Parking, Driving
<1>2. Matched
  <2> DEFINE f == [c \in Calls |-> c]
  <2>1. \A c \in Calls : ~Queued(c)
    BY DEF Init, Queued
  <2>2. f \in [Calls -> Calls] /\ Matching(f)
    BY <2>1 DEF Matching
  <2> QED
    BY <2>2 DEF Matched
<1> QED
  BY <1>1, <1>2 DEF Inv2

\* Both invariants hold in every reachable state.
LEMMA Invariance == Spec => [](Inv /\ Inv2)
<1>1. Inv /\ Inv2 /\ [Next]_vars => (Inv /\ Inv2)'
  BY StepInv, StepTerminals, StepParked, StepMatched DEF Inv2
<1> QED
  BY <1>1, InitInv, InitInv2, PTL DEF Spec

\* The parked guard, the driver and a retirement hand a call's sender on so that its
\* channel gets one terminal frame and never two (ToolResultGuard).
THEOREM OneTerminalEach == Spec => []OneTerminal
<1>1. Inv2 => OneTerminal
  BY DEF Inv2, Terminals, OneTerminal, Parking
<1> QED
  BY <1>1, Invariance, PTL

\* When every begin_call has returned and every driver is through, the queue is empty
\* and no guard is parked: dequeue_call never leaves a call behind, whichever driver
\* of the Job took which call.
THEOREM NoCallStranded == Spec => []NothingStranded
<1>1. ASSUME Inv, Inv2, Quiet PROVE senders = {} /\ \A g \in Grants : queue[g] = <<>>
  <2>1. \A c \in Calls : ~Hungry(c)
    BY <1>1 DEF Quiet, Hungry
  <2>2. \A c \in Calls : ~Queued(c)
    BY <1>1, <2>1 DEF Inv2, Matched, Matching
  <2>3. ASSUME NEW c \in senders PROVE FALSE
    <3>1. c \in Calls /\ pc[c] = "ok"
      BY <1>1 DEF Quiet, Inv, Inv2, TypeOK, Terminals, Parking
    <3>2. Attended(c)
      BY <1>1, <3>1 DEF Inv2, Parked, Pending
    <3> QED
      BY <1>1, <2>2, <3>1, <3>2 DEF Attended, Quiet
  <2>4. ASSUME NEW g \in Grants PROVE queue[g] = <<>>
    <3>1. queue[g] \in Seq(Calls)
      BY <1>1 DEF Inv, TypeOK
    <3>2. ASSUME NEW i \in 1..Len(queue[g]) PROVE FALSE
      <4>1. queue[g][i] \in Calls /\ grant[queue[g][i]] = g
        BY <1>1, <3>1, ElementOfSeq DEF Inv, Buckets
      <4>2. Queued(queue[g][i])
        BY <4>1 DEF Queued
      <4> QED
        BY <2>2, <4>1, <4>2
    <3>3. Len(queue[g]) = 0
      BY <3>1, <3>2, LenProperties
    <3> QED
      BY <3>1, <3>3, EmptySeq
  <2> QED
    BY <2>3, <2>4
<1>2. Inv /\ Inv2 => NothingStranded
  BY <1>1 DEF NothingStranded
<1> QED
  BY <1>2, Invariance, PTL

----------------------------------------------------------------------------
(* MODEL CALLS *)

----------------------------------------------------------------------------
(* Induction over numbers and sequences *)

\* A non-empty set of numbers has a least element.
LEMMA LeastNumber ==
    ASSUME NEW T, T \subseteq Nat, T # {} PROVE \E x \in T : \A y \in T : x <= y
<1> DEFINE R == OpToRel(<, Nat)
<1>1. IsWellFoundedOn(R, Nat)
  BY NatLessThanWellFounded
<1> HIDE DEF R
<1>2. PICK x \in T : \A y \in T : ~ (<<y, x>> \in R)
  BY <1>1, WFMin
<1>3. ASSUME NEW y \in T PROVE x <= y
  <2>1. ~ (<<y, x>> \in R) /\ x \in Nat /\ y \in Nat
    BY <1>2
  <2> QED
    BY <2>1, SMT DEF R, OpToRel
<1> QED
  BY <1>3

\* A set that holds 0, and with a number up to n the next, holds all of them.
LEMMA Upward ==
    ASSUME NEW n \in Nat, NEW P, 0 \in P, \A i \in 1..n : i - 1 \in P => i \in P
    PROVE  \A i \in 0..n : i \in P
<1> DEFINE T == {i \in 0..n : i \notin P}
<1> SUFFICES ASSUME T # {} PROVE FALSE
  OBVIOUS
<1>1. T \subseteq Nat
  OBVIOUS
<1> HIDE DEF T
<1>2. PICK x \in T : \A y \in T : x <= y
  BY <1>1, LeastNumber
<1>3. x \in 0..n /\ x \notin P
  BY DEF T
<1>4. x \in 1..n
  BY <1>3
<1>5. x - 1 \in 0..n /\ ~ (x <= x - 1)
  BY <1>4
<1>6. x - 1 \notin T
  BY <1>2, <1>5
<1>7. x - 1 \in P
  BY <1>5, <1>6 DEF T
<1> QED
  BY <1>3, <1>4, <1>7

\* The steps that keep to the set X, and the run of n of them from a.
StepsOn(X, n) == [X \X (1..n) -> X]
RunOf(f, X, a, n, g) == f \in [0..n -> X] /\ f[0] = a /\ \A i \in 1..n : f[i] = g[<<f[i - 1], i>>]

\* There is such a run.
LEMMA Repeated ==
    ASSUME NEW X, NEW a \in X, NEW n \in Nat, NEW g \in StepsOn(X, n)
    PROVE  \E f : RunOf(f, X, a, n, g)
<1> SUFFICES \E f \in [0..n -> X] : f[0] = a /\ \A i \in 1..n : f[i] = g[<<f[i - 1], i>>]
  BY Zenon DEF RunOf
<1>0. g \in [X \X (1..n) -> X]
  BY DEF StepsOn
<1> DEFINE Good(m) == \E f \in [0..m -> X] : f[0] = a /\ \A i \in 1..m : f[i] = g[<<f[i - 1], i>>]
           P == {m \in 0..n : Good(m)}
<1>1. 0 \in P
  <2> DEFINE f == [i \in 0..0 |-> a]
  <2>1. f \in [0..0 -> X] /\ f[0] = a /\ \A i \in 1..0 : f[i] = g[<<f[i - 1], i>>]
    OBVIOUS
  <2>2. Good(0)
    BY <2>1
  <2> QED
    BY <2>2
<1>2. ASSUME NEW m \in 1..n, m - 1 \in P PROVE m \in P
  <2>1. PICK f \in [0..(m - 1) -> X] : f[0] = a /\ \A i \in 1..(m - 1) : f[i] = g[<<f[i - 1], i>>]
    BY <1>2
  <2> DEFINE h == [i \in 0..m |-> IF i = m THEN g[<<f[m - 1], m>>] ELSE f[i]]
  <2>2. m - 1 \in 0..(m - 1) /\ f[m - 1] \in X
    BY <2>1
  <2>3. g[<<f[m - 1], m>>] \in X
    BY <1>0, <2>2
  <2>4. h \in [0..m -> X]
    <3>1. ASSUME NEW i \in 0..m, i # m PROVE i \in 0..(m - 1)
      BY <3>1
    <3> QED
      BY <2>1, <2>3, <3>1
  <2>5. h[0] = a
    BY <2>1
  <2>6. ASSUME NEW i \in 1..m PROVE h[i] = g[<<h[i - 1], i>>]
    <3>1. h[i - 1] = f[i - 1]
      <4>1. i - 1 \in 0..m /\ i - 1 # m
        OBVIOUS
      <4> QED
        BY <4>1
    <3>2. CASE i = m
      <4>1. h[m] = g[<<f[m - 1], m>>]
        OBVIOUS
      <4>2. h[m - 1] = f[m - 1]
        BY <3>1, <3>2
      <4> HIDE DEF h
      <4> QED
        BY <3>2, <4>1, <4>2, Zenon
    <3>3. CASE i # m
      <4>1. i \in 1..(m - 1) /\ h[i] = f[i]
        BY <3>3
      <4> QED
        BY <2>1, <3>1, <4>1
    <3> QED
      BY <3>2, <3>3
  <2> HIDE DEF h
  <2>7. Good(m)
    BY <2>4, <2>5, <2>6
  <2> QED
    BY <2>7
<1> HIDE DEF P
<1>3. n \in P
  <2>1. \A i \in 0..n : i \in P
    BY <1>1, <1>2, Upward
  <2> QED
    BY <2>1
<1> QED
  BY <1>3 DEF P

\* Two runs that start alike, and go on alike as long as they are, are alike.
GoAlike(f, h, n) == f[0] = h[0] /\ \A i \in 1..n : f[i - 1] = h[i - 1] => f[i] = h[i]
Alike(f, h, n) == \A i \in 0..n : f[i] = h[i]

LEMMA RunsAlike ==
    ASSUME NEW n \in Nat, NEW f, NEW h, GoAlike(f, h, n)
    PROVE  Alike(f, h, n)
<1> DEFINE P == {i \in 0..n : f[i] = h[i]}
<1>1. 0 \in P /\ \A i \in 1..n : i - 1 \in P => i \in P
  BY DEF GoAlike
<1> HIDE DEF P
<1>2. \A i \in 0..n : i \in P
  BY <1>1, Upward
<1> QED
  BY <1>2 DEF P, Alike

----------------------------------------------------------------------------
(* The recursive functions of the model *)

\* Names, texts and arguments; a literal is a word.
Words == STRING \cup {"", "?"}

PickStep(v, K, n) ==
    [p \in Seq(Words) \X (1..n) |-> IF p[2] \in K THEN Append(p[1], v[p[2]]) ELSE p[1]]

\* What is taken of v, step by step.
PickRun(f, v, K, n) ==
    /\ f \in [0..n -> Seq(Words)]
    /\ f[0] = <<>>
    /\ \A i \in 1..n : f[i] = IF i \in K THEN Append(f[i - 1], v[i]) ELSE f[i - 1]

LEMMA PickedRuns ==
    ASSUME NEW K, NEW v, NEW n \in Nat, \A i \in K : v[i] \in Words
    PROVE  \E f : PickRun(f, v, K, n) /\ Picked(v, K, n) = f[n]
<1> DEFINE S == Seq(Words)
           F(f) == [i \in 0..n |-> IF i = 0 THEN <<>> ELSE IF i \in K THEN Append(f[i - 1], v[i]) ELSE f[i - 1]]
           pick == CHOOSE f : f = F(f)
<1>1. PickStep(v, K, n) \in [S \X (1..n) -> S]
  <2>1. ASSUME NEW p \in S \X (1..n)
        PROVE  (IF p[2] \in K THEN Append(p[1], v[p[2]]) ELSE p[1]) \in S
    <3>1. p[1] \in Seq(Words)
      OBVIOUS
    <3>2. CASE p[2] \in K
      BY <3>1, <3>2, AppendProperties
    <3> QED
      BY <3>1, <3>2
  <2> QED
    BY <2>1, Zenon DEF PickStep
<1>2. <<>> \in S
  OBVIOUS
<1> HIDE DEF S
<1>3. PICK f \in [0..n -> S] : f[0] = <<>> /\ \A i \in 1..n : f[i] = PickStep(v, K, n)[<<f[i - 1], i>>]
  <2> DEFINE g == PickStep(v, K, n)
  <2>1. g \in StepsOn(S, n)
    BY <1>1 DEF StepsOn
  <2> HIDE DEF g
  <2>2. PICK f : RunOf(f, S, <<>>, n, g)
    BY <1>2, <2>1, Repeated, Zenon
  <2> QED
    BY <2>2, Zenon DEF g, RunOf
<1>4. ASSUME NEW i \in 1..n
      PROVE  f[i] = IF i \in K THEN Append(f[i - 1], v[i]) ELSE f[i - 1]
  <2>1. i - 1 \in 0..n /\ f[i - 1] \in S
    BY <1>3
  <2> DEFINE p == <<f[i - 1], i>>
  <2>2. p \in S \X (1..n) /\ p[1] = f[i - 1] /\ p[2] = i
    BY <2>1
  <2> HIDE DEF p
  <2>3. PickStep(v, K, n)[p] = IF p[2] \in K THEN Append(p[1], v[p[2]]) ELSE p[1]
    BY <2>2 DEF PickStep, S
  <2>4. f[i] = PickStep(v, K, n)[p]
    BY <1>3 DEF p
  <2> QED
    BY <2>2, <2>3, <2>4
<1>5. f = F(f)
  <2>1. ASSUME NEW i \in 0..n
        PROVE  f[i] = IF i = 0 THEN <<>> ELSE IF i \in K THEN Append(f[i - 1], v[i]) ELSE f[i - 1]
    <3>1. CASE i = 0
      BY <1>3, <3>1
    <3>2. CASE i # 0
      <4>1. i \in 1..n
        BY <3>2
      <4> QED
        BY <1>4, <3>2, <4>1
    <3> QED
      BY <3>1, <3>2
  <2>2. f = [i \in 0..n |-> f[i]]
    BY <1>3
  <2> QED
    BY <2>1, <2>2, Zenon
<1>6. pick = F(pick)
  BY <1>5, Zenon
<1>7. Picked(v, K, n) = pick[n]
  BY DEF Picked
<1> HIDE DEF pick
<1>8. DOMAIN pick = 0..n /\ pick[0] = <<>>
      /\ \A i \in 1..n : pick[i] = IF i \in K THEN Append(pick[i - 1], v[i]) ELSE pick[i - 1]
  <2>1. DOMAIN F(pick) = 0..n /\ F(pick)[0] = <<>>
    OBVIOUS
  <2>2. \A i \in 1..n : F(pick)[i] = IF i \in K THEN Append(pick[i - 1], v[i]) ELSE pick[i - 1]
    OBVIOUS
  <2> HIDE DEF F
  <2> QED
    BY <1>6, <2>1, <2>2, Zenon
<1>9. Alike(f, pick, n)
  <2>1. \A i \in 1..n : f[i - 1] = pick[i - 1] => f[i] = pick[i]
    BY <1>4, <1>8, Zenon
  <2>2. GoAlike(f, pick, n)
    BY <1>3, <1>8, <2>1, Zenon DEF GoAlike
  <2> QED
    BY <2>2, RunsAlike, Zenon
<1>10. f[n] = pick[n]
  BY <1>9 DEF Alike
<1>11. PickRun(f, v, K, n)
  BY <1>3, <1>4 DEF PickRun, S
<1> QED
  BY <1>7, <1>10, <1>11

LEMMA PickedType ==
    ASSUME NEW K, NEW v, NEW n \in Nat, \A i \in K : v[i] \in Words
    PROVE  Picked(v, K, n) \in Seq(Words) /\ (n = 0 => Picked(v, K, n) = <<>>)
<1>1. PICK f : PickRun(f, v, K, n) /\ Picked(v, K, n) = f[n]
  BY PickedRuns
<1>2. f[n] \in Seq(Words) /\ f[0] = <<>>
  <2>1. f \in [0..n -> Seq(Words)] /\ f[0] = <<>>
    BY <1>1, Zenon DEF PickRun
  <2>2. n \in 0..n
    OBVIOUS
  <2> QED
    BY <2>1, <2>2, Zenon
<1> QED
  BY <1>1, <1>2

\* Only what is picked up to n matters.
LEMMA PickedAlike ==
    ASSUME NEW K, NEW v, NEW L, NEW w, NEW n \in Nat,
           \A i \in K : v[i] \in Words, \A i \in L : w[i] \in Words,
           \A i \in 1..n : (i \in K <=> i \in L) /\ (i \in K => v[i] = w[i])
    PROVE  Picked(v, K, n) = Picked(w, L, n)
<1>1. PICK f : PickRun(f, v, K, n) /\ Picked(v, K, n) = f[n]
  BY PickedRuns
<1>2. PICK h : PickRun(h, w, L, n) /\ Picked(w, L, n) = h[n]
  BY PickedRuns
<1>3. GoAlike(f, h, n)
  BY <1>1, <1>2, Zenon DEF PickRun, GoAlike
<1>4. Alike(f, h, n)
  BY <1>3, RunsAlike, Zenon
<1>5. n \in 0..n
  OBVIOUS
<1> QED
  BY <1>1, <1>2, <1>4, <1>5, Zenon DEF Alike

LEMMA PickedNext ==
    ASSUME NEW K, NEW v, NEW n \in Nat, n > 0, \A i \in K : v[i] \in Words
    PROVE  Picked(v, K, n) = IF n \in K THEN Append(Picked(v, K, n - 1), v[n]) ELSE Picked(v, K, n - 1)
<1> DEFINE m == n - 1
<1>0. m \in Nat /\ m \in 0..m /\ n \in 1..n /\ \A i \in 1..m : i \in 1..n
  OBVIOUS
<1>1. PICK f : PickRun(f, v, K, n) /\ Picked(v, K, n) = f[n]
  BY PickedRuns
<1>2. f[n] = IF n \in K THEN Append(f[m], v[n]) ELSE f[m]
  BY <1>0, <1>1, Zenon DEF PickRun
<1> HIDE DEF m
<1>3. PICK h : PickRun(h, v, K, m) /\ Picked(v, K, m) = h[m]
  BY <1>0, PickedRuns
<1>4. GoAlike(f, h, m)
  BY <1>0, <1>1, <1>3, Zenon DEF PickRun, GoAlike
<1>5. f[m] = h[m]
  <2>1. Alike(f, h, m)
    BY <1>0, <1>4, RunsAlike, Zenon
  <2> QED
    BY <1>0, <2>1, Zenon DEF Alike
<1>6. Picked(v, K, n) = IF n \in K THEN Append(Picked(v, K, m), v[n]) ELSE Picked(v, K, m)
  BY <1>1, <1>2, <1>3, <1>5, Zenon
<1> QED
  BY <1>6, Zenon DEF m

LEMMA PickedNone ==
    ASSUME NEW K, NEW v, NEW n \in Nat, \A i \in K : v[i] \in Words, \A i \in 1..n : i \notin K
    PROVE  Picked(v, K, n) = <<>>
<1>1. PICK f : PickRun(f, v, K, n) /\ Picked(v, K, n) = f[n]
  BY PickedRuns
<1> DEFINE h == [i \in 0..n |-> <<>>]
<1>2. \A i \in 0..n : h[i] = <<>>
  OBVIOUS
<1>3. 0 \in 0..n /\ n \in 0..n /\ \A i \in 1..n : i \in 0..n /\ i - 1 \in 0..n
  OBVIOUS
<1> HIDE DEF h
<1>4. GoAlike(f, h, n)
  BY <1>1, <1>2, <1>3, Zenon DEF PickRun, GoAlike
<1>5. Alike(f, h, n)
  BY <1>4, RunsAlike, Zenon
<1> QED
  BY <1>1, <1>2, <1>3, <1>5, Zenon DEF Alike
----------------------------------------------------------------------------
(* What the variables hold *)

\* The stream events of the parser.
StreamEvent ==
    [kind : {"text"}, text : Words] \cup [kind : {"think"}] \cup [kind : {"start"}, id : Nat]
        \cup [kind : {"input"}, arg : Words] \cup [kind : {"done"}, stop : Words]

ToolCall == [id : Nat, args : Seq(Words)]

Complete == [kind : {"complete"}, text : Seq(Words), calls : Seq(ToolCall), stop : Words]

TurnEvent == StreamEvent \cup [kind : {"error"}] \cup Complete

Roles == {"user", "assistant", "tool"}

Message == [role : Roles, calls : Nat]

ItemFrame == [phase : {"start", "delta", "stop"}, item : {"text", "tool"} \X Nat, data : Words]

----------------------------------------------------------------------------
(* The calls of the answer *)

LEMMA AddEventType ==
    ASSUME NEW cs \in Seq(ToolCall), NEW e \in StreamEvent
    PROVE  AddEvent(cs, e) \in Seq(ToolCall)
<1>1. CASE e.kind = "start"
  <2>1. e.id \in Nat
    BY <1>1, SMT DEF StreamEvent
  <2>2. [id |-> e.id, args |-> <<>>] \in ToolCall
    BY <2>1 DEF ToolCall
  <2>3. AddEvent(cs, e) = Append(cs, [id |-> e.id, args |-> <<>>])
    BY <1>1 DEF AddEvent
  <2> HIDE DEF AddEvent
  <2> QED
    BY <2>2, <2>3, AppendProperties
<1>2. CASE e.kind = "input" /\ cs # <<>>
  <2> DEFINE n == Len(cs)
             d == [cs[n] EXCEPT !.args = Append(@, e.arg)]
  <2>1. n \in Nat /\ n \in 1..n /\ cs[n] \in ToolCall
    BY <1>2, ElementOfSeq, LenProperties, EmptySeq
  <2>2. e.arg \in Words
    BY <1>2, SMT DEF StreamEvent
  <2>3. cs[n].args \in Seq(Words)
    BY <2>1 DEF ToolCall
  <2>4. Append(cs[n].args, e.arg) \in Seq(Words)
    BY <2>2, <2>3, AppendProperties
  <2>5. d \in ToolCall
    BY <2>1, <2>4 DEF ToolCall
  <2>6. AddEvent(cs, e) = [cs EXCEPT ![n] = d]
    BY <1>2 DEF AddEvent
  <2> HIDE DEF d, n
  <2>7. [cs EXCEPT ![n] = d] \in Seq(ToolCall)
    BY <2>1, <2>5, ExceptSeq DEF n
  <2> QED
    BY <2>6, <2>7
<1>3. CASE e.kind # "start" /\ ~ (e.kind = "input" /\ cs # <<>>)
  BY <1>3 DEF AddEvent
<1> QED
  BY <1>1, <1>2, <1>3

\* The calls after each event.
CollectRun(f, evs, n) ==
    /\ f \in [0..n -> Seq(ToolCall)]
    /\ f[0] = <<>>
    /\ \A i \in 1..n : f[i] = AddEvent(f[i - 1], evs[i])

LEMMA CollectRuns ==
    ASSUME NEW evs \in Seq(StreamEvent)
    PROVE  \E f : CollectRun(f, evs, Len(evs)) /\ CollectToolCalls(evs) = f[Len(evs)]
<1> DEFINE n == Len(evs)
           S == Seq(ToolCall)
           g == [p \in S \X (1..n) |-> AddEvent(p[1], evs[p[2]])]
           F(f) == [i \in 0..n |-> IF i = 0 THEN <<>> ELSE AddEvent(f[i - 1], evs[i])]
           fold == CHOOSE f : f = F(f)
<1>0. n \in Nat /\ \A i \in 1..n : evs[i] \in StreamEvent
  BY ElementOfSeq, LenProperties
<1>1. g \in StepsOn(S, n)
  <2>1. ASSUME NEW p \in S \X (1..n) PROVE AddEvent(p[1], evs[p[2]]) \in S
    <3>1. p[1] \in S /\ p[2] \in 1..n
      OBVIOUS
    <3>2. evs[p[2]] \in StreamEvent
      BY <1>0, <3>1, Zenon
    <3> QED
      BY <3>1, <3>2, AddEventType, Zenon
  <2> HIDE DEF S, n
  <2> QED
    BY <2>1, Zenon DEF StepsOn
<1>2. <<>> \in S
  OBVIOUS
<1>3. \A p \in S \X (1..n) : g[p] = AddEvent(p[1], evs[p[2]])
  BY Zenon
<1>4. CollectToolCalls(evs) = fold[n]
  BY DEF CollectToolCalls
<1> HIDE DEF S, g, n
<1>5. PICK f : RunOf(f, S, <<>>, n, g)
  BY <1>0, <1>1, <1>2, Repeated, Zenon
<1>6. ASSUME NEW i \in 1..n PROVE f[i] = AddEvent(f[i - 1], evs[i])
  <2>1. f \in [0..n -> S] /\ f[i] = g[<<f[i - 1], i>>]
    BY <1>5, Zenon DEF RunOf
  <2>2. i - 1 \in 0..n
    BY <1>0
  <2>3. f[i - 1] \in S
    BY <2>1, <2>2, Zenon
  <2> DEFINE p == <<f[i - 1], i>>
  <2>4. p \in S \X (1..n) /\ p[1] = f[i - 1] /\ p[2] = i
    BY <2>3
  <2> HIDE DEF p
  <2>5. g[p] = AddEvent(p[1], evs[p[2]])
    BY <1>3, <2>4, Zenon
  <2>6. f[i] = g[p]
    BY <2>1, Zenon DEF p
  <2> QED
    BY <2>4, <2>5, <2>6, Zenon
<1>7. f \in [0..n -> S] /\ f[0] = <<>>
  BY <1>5, Zenon DEF RunOf
<1>8. fold = F(fold)
  <2>1. ASSUME NEW i \in 0..n PROVE f[i] = IF i = 0 THEN <<>> ELSE AddEvent(f[i - 1], evs[i])
    <3>1. i = 0 \/ i \in 1..n
      BY <1>0
    <3>2. \A j \in 1..n : j # 0
      BY <1>0
    <3> QED
      BY <1>6, <1>7, <3>1, <3>2, Zenon
  <2>2. f = [i \in 0..n |-> f[i]]
    BY <1>7
  <2>3. f = F(f)
    BY <2>1, <2>2, Zenon
  <2> QED
    BY <2>3, Zenon
<1> HIDE DEF fold
<1>9. GoAlike(f, fold, n)
  <2>1. 0 \in 0..n /\ \A i \in 1..n : i \in 0..n /\ i # 0
    BY <1>0
  <2>2. F(fold)[0] = <<>> /\ \A i \in 1..n : F(fold)[i] = AddEvent(fold[i - 1], evs[i])
    BY <2>1, Zenon
  <2> HIDE DEF F
  <2> QED
    BY <1>6, <1>7, <1>8, <2>2, Zenon DEF GoAlike
<1>10. f[n] = fold[n]
  <2>1. Alike(f, fold, n)
    BY <1>0, <1>9, RunsAlike, Zenon
  <2>2. n \in 0..n
    BY <1>0
  <2> QED
    BY <2>1, <2>2, Zenon DEF Alike
<1>11. CollectRun(f, evs, n)
  BY <1>6, <1>7, Zenon DEF CollectRun, S
<1> QED
  BY <1>4, <1>10, <1>11, Zenon DEF n

LEMMA CollectType ==
    ASSUME NEW evs \in Seq(StreamEvent)
    PROVE  CollectToolCalls(evs) \in Seq(ToolCall) /\ (evs = <<>> => CollectToolCalls(evs) = <<>>)
<1>1. PICK f : CollectRun(f, evs, Len(evs)) /\ CollectToolCalls(evs) = f[Len(evs)]
  BY CollectRuns, Zenon
<1>2. Len(evs) \in 0..Len(evs) /\ (evs = <<>> => Len(evs) = 0)
  BY LenProperties
<1> QED
  BY <1>1, <1>2, Zenon DEF CollectRun

LEMMA CollectNext ==
    ASSUME NEW evs \in Seq(StreamEvent), NEW e \in StreamEvent
    PROVE  CollectToolCalls(Append(evs, e)) = AddEvent(CollectToolCalls(evs), e)
<1> DEFINE n == Len(evs)
           t == Append(evs, e)
<1>1. n \in Nat /\ t \in Seq(StreamEvent) /\ Len(t) = n + 1 /\ t[n + 1] = e /\ \A i \in 1..n : t[i] = evs[i]
  BY AppendProperties, LenProperties
<1>2. n + 1 \in 1..(n + 1) /\ (n + 1) - 1 = n /\ n \in 0..n /\ \A i \in 1..n : i \in 1..(n + 1)
  BY <1>1
<1>3. PICK f : CollectRun(f, evs, n) /\ CollectToolCalls(evs) = f[n]
  BY CollectRuns, Zenon
<1> HIDE DEF t
<1>4. PICK h : CollectRun(h, t, n + 1) /\ CollectToolCalls(t) = h[n + 1]
  BY <1>1, CollectRuns, Zenon
<1> HIDE DEF n
<1>5. GoAlike(f, h, n)
  <2>1. f[0] = <<>> /\ \A i \in 1..n : f[i] = AddEvent(f[i - 1], evs[i])
    BY <1>3, Zenon DEF CollectRun
  <2>2. h[0] = <<>> /\ \A i \in 1..(n + 1) : h[i] = AddEvent(h[i - 1], t[i])
    BY <1>4, Zenon DEF CollectRun
  <2>3. \A i \in 1..n : h[i] = AddEvent(h[i - 1], evs[i])
    BY <1>1, <1>2, <2>2, Zenon
  <2> QED
    BY <2>1, <2>2, <2>3, Zenon DEF GoAlike
<1>6. f[n] = h[n]
  <2>1. Alike(f, h, n)
    BY <1>1, <1>5, RunsAlike, Zenon
  <2> QED
    BY <1>2, <2>1, Zenon DEF Alike
<1>7. h[n + 1] = AddEvent(h[n], e)
  <2> DEFINE m == n + 1
  <2>1. m \in 1..m /\ m - 1 = n /\ t[m] = e
    BY <1>1, <1>2
  <2>2. \A i \in 1..m : h[i] = AddEvent(h[i - 1], t[i])
    BY <1>4, Zenon DEF CollectRun
  <2> HIDE DEF m
  <2>3. h[m] = AddEvent(h[m - 1], t[m])
    BY <2>1, <2>2, Zenon
  <2>4. h[m] = AddEvent(h[n], e)
    BY <2>1, <2>3, Zenon
  <2> QED
    BY <2>4, Zenon DEF m
<1>8. CollectToolCalls(t) = AddEvent(CollectToolCalls(evs), e)
  BY <1>3, <1>4, <1>6, <1>7, Zenon
<1> QED
  BY <1>8, Zenon DEF t

----------------------------------------------------------------------------
(* The messages of the request *)

ApiMessage == [role : Roles, parts : Seq(Message)]

LEMMA AddMessageType ==
    ASSUME NEW out \in Seq(ApiMessage), NEW m \in Message
    PROVE  AddMessage(out, m) \in Seq(ApiMessage)
<1>1. CASE m.role = "tool" /\ out # <<>> /\ Last(out).role = "tool"
  <2> DEFINE n == Len(out)
             d == [out[n] EXCEPT !.parts = Append(@, m)]
  <2>1. n \in Nat /\ n \in 1..n /\ out[n] \in ApiMessage
    BY <1>1, ElementOfSeq, LenProperties, EmptySeq
  <2>2. out[n].parts \in Seq(Message)
    BY <2>1 DEF ApiMessage
  <2>3. Append(out[n].parts, m) \in Seq(Message)
    BY <2>2, AppendProperties
  <2>4. d \in ApiMessage
    BY <2>1, <2>3 DEF ApiMessage
  <2>5. AddMessage(out, m) = [out EXCEPT ![n] = d]
    BY <1>1 DEF AddMessage
  <2> HIDE DEF d, n
  <2>6. [out EXCEPT ![n] = d] \in Seq(ApiMessage)
    BY <2>1, <2>4, ExceptSeq DEF n
  <2> QED
    BY <2>5, <2>6
<1>2. CASE ~ (m.role = "tool" /\ out # <<>> /\ Last(out).role = "tool")
  <2>1. [role |-> m.role, parts |-> <<m>>] \in ApiMessage
    BY DEF ApiMessage, Message
  <2>2. AddMessage(out, m) = Append(out, [role |-> m.role, parts |-> <<m>>])
    BY <1>2, Zenon DEF AddMessage
  <2> HIDE DEF AddMessage
  <2> QED
    BY <2>1, <2>2, AppendProperties
<1> QED
  BY <1>1, <1>2

\* The API's messages after each message.
BuildRun(f, ms, n) ==
    /\ f \in [0..n -> Seq(ApiMessage)]
    /\ f[0] = <<>>
    /\ \A i \in 1..n : f[i] = AddMessage(f[i - 1], ms[i])

\* build_api_messages for Anthropic.
Built(ms) ==
    LET build[n \in 0..Len(ms)] == IF n = 0 THEN <<>> ELSE AddMessage(build[n - 1], ms[n])
    IN  build[Len(ms)]

LEMMA BuildRuns ==
    ASSUME NEW ms \in Seq(Message)
    PROVE  \E f : BuildRun(f, ms, Len(ms)) /\ Built(ms) = f[Len(ms)]
<1> DEFINE n == Len(ms)
           S == Seq(ApiMessage)
           g == [p \in S \X (1..n) |-> AddMessage(p[1], ms[p[2]])]
           F(f) == [i \in 0..n |-> IF i = 0 THEN <<>> ELSE AddMessage(f[i - 1], ms[i])]
           fold == CHOOSE f : f = F(f)
<1>0. n \in Nat /\ \A i \in 1..n : ms[i] \in Message
  BY ElementOfSeq, LenProperties
<1>1. g \in StepsOn(S, n)
  <2>1. ASSUME NEW p \in S \X (1..n) PROVE AddMessage(p[1], ms[p[2]]) \in S
    <3>1. p[1] \in S /\ p[2] \in 1..n
      OBVIOUS
    <3>2. ms[p[2]] \in Message
      BY <1>0, <3>1, Zenon
    <3> QED
      BY <3>1, <3>2, AddMessageType, Zenon
  <2> HIDE DEF S, n
  <2> QED
    BY <2>1, Zenon DEF StepsOn
<1>2. <<>> \in S
  OBVIOUS
<1>3. \A p \in S \X (1..n) : g[p] = AddMessage(p[1], ms[p[2]])
  BY Zenon
<1>4. Built(ms) = fold[n]
  BY DEF Built
<1> HIDE DEF S, g, n
<1>5. PICK f : RunOf(f, S, <<>>, n, g)
  BY <1>0, <1>1, <1>2, Repeated, Zenon
<1>6. ASSUME NEW i \in 1..n PROVE f[i] = AddMessage(f[i - 1], ms[i])
  <2>1. f \in [0..n -> S] /\ f[i] = g[<<f[i - 1], i>>]
    BY <1>5, Zenon DEF RunOf
  <2>2. i - 1 \in 0..n
    BY <1>0
  <2>3. f[i - 1] \in S
    BY <2>1, <2>2, Zenon
  <2> DEFINE p == <<f[i - 1], i>>
  <2>4. p \in S \X (1..n) /\ p[1] = f[i - 1] /\ p[2] = i
    BY <2>3
  <2> HIDE DEF p
  <2>5. g[p] = AddMessage(p[1], ms[p[2]])
    BY <1>3, <2>4, Zenon
  <2>6. f[i] = g[p]
    BY <2>1, Zenon DEF p
  <2> QED
    BY <2>4, <2>5, <2>6, Zenon
<1>7. f \in [0..n -> S] /\ f[0] = <<>>
  BY <1>5, Zenon DEF RunOf
<1>8. fold = F(fold)
  <2>1. ASSUME NEW i \in 0..n PROVE f[i] = IF i = 0 THEN <<>> ELSE AddMessage(f[i - 1], ms[i])
    <3>1. i = 0 \/ i \in 1..n
      BY <1>0
    <3>2. \A j \in 1..n : j # 0
      BY <1>0
    <3> QED
      BY <1>6, <1>7, <3>1, <3>2, Zenon
  <2>2. f = [i \in 0..n |-> f[i]]
    BY <1>7
  <2>3. f = F(f)
    BY <2>1, <2>2, Zenon
  <2> QED
    BY <2>3, Zenon
<1> HIDE DEF fold
<1>9. GoAlike(f, fold, n)
  <2>1. 0 \in 0..n /\ \A i \in 1..n : i \in 0..n /\ i # 0
    BY <1>0
  <2>2. F(fold)[0] = <<>> /\ \A i \in 1..n : F(fold)[i] = AddMessage(fold[i - 1], ms[i])
    BY <2>1, Zenon
  <2> HIDE DEF F
  <2> QED
    BY <1>6, <1>7, <1>8, <2>2, Zenon DEF GoAlike
<1>10. f[n] = fold[n]
  <2>1. Alike(f, fold, n)
    BY <1>0, <1>9, RunsAlike, Zenon
  <2>2. n \in 0..n
    BY <1>0
  <2> QED
    BY <2>1, <2>2, Zenon DEF Alike
<1>11. BuildRun(f, ms, n)
  BY <1>6, <1>7, Zenon DEF BuildRun, S
<1> QED
  BY <1>4, <1>10, <1>11, Zenon DEF n

LEMMA BuildType ==
    ASSUME NEW ms \in Seq(Message)
    PROVE  Built(ms) \in Seq(ApiMessage) /\ (ms = <<>> => Built(ms) = <<>>)
<1>1. PICK f : BuildRun(f, ms, Len(ms)) /\ Built(ms) = f[Len(ms)]
  BY BuildRuns, Zenon
<1>2. Len(ms) \in 0..Len(ms) /\ (ms = <<>> => Len(ms) = 0)
  BY LenProperties
<1> QED
  BY <1>1, <1>2, Zenon DEF BuildRun

LEMMA BuildNext ==
    ASSUME NEW ms \in Seq(Message), NEW e \in Message
    PROVE  Built(Append(ms, e)) = AddMessage(Built(ms), e)
<1> DEFINE n == Len(ms)
           t == Append(ms, e)
<1>1. n \in Nat /\ t \in Seq(Message) /\ Len(t) = n + 1 /\ t[n + 1] = e /\ \A i \in 1..n : t[i] = ms[i]
  BY AppendProperties, LenProperties
<1>2. n + 1 \in 1..(n + 1) /\ (n + 1) - 1 = n /\ n \in 0..n /\ \A i \in 1..n : i \in 1..(n + 1)
  BY <1>1
<1>3. PICK f : BuildRun(f, ms, n) /\ Built(ms) = f[n]
  BY BuildRuns, Zenon
<1> HIDE DEF t
<1>4. PICK h : BuildRun(h, t, n + 1) /\ Built(t) = h[n + 1]
  BY <1>1, BuildRuns, Zenon
<1> HIDE DEF n
<1>5. GoAlike(f, h, n)
  <2>1. f[0] = <<>> /\ \A i \in 1..n : f[i] = AddMessage(f[i - 1], ms[i])
    BY <1>3, Zenon DEF BuildRun
  <2>2. h[0] = <<>> /\ \A i \in 1..(n + 1) : h[i] = AddMessage(h[i - 1], t[i])
    BY <1>4, Zenon DEF BuildRun
  <2>3. \A i \in 1..n : h[i] = AddMessage(h[i - 1], ms[i])
    BY <1>1, <1>2, <2>2, Zenon
  <2> QED
    BY <2>1, <2>2, <2>3, Zenon DEF GoAlike
<1>6. f[n] = h[n]
  <2>1. Alike(f, h, n)
    BY <1>1, <1>5, RunsAlike, Zenon
  <2> QED
    BY <1>2, <2>1, Zenon DEF Alike
<1>7. h[n + 1] = AddMessage(h[n], e)
  <2> DEFINE m == n + 1
  <2>1. m \in 1..m /\ m - 1 = n /\ t[m] = e
    BY <1>1, <1>2
  <2>2. \A i \in 1..m : h[i] = AddMessage(h[i - 1], t[i])
    BY <1>4, Zenon DEF BuildRun
  <2> HIDE DEF m
  <2>3. h[m] = AddMessage(h[m - 1], t[m])
    BY <2>1, <2>2, Zenon
  <2>4. h[m] = AddMessage(h[n], e)
    BY <2>1, <2>3, Zenon
  <2> QED
    BY <2>4, Zenon DEF m
<1>8. Built(t) = AddMessage(Built(ms), e)
  BY <1>3, <1>4, <1>6, <1>7, Zenon
<1> QED
  BY <1>8, Zenon DEF t

----------------------------------------------------------------------------
(* The text of the answer *)

TextsOf(evs) == {i \in DOMAIN evs : evs[i].kind = "text"}
TextAt(evs) == [i \in TextsOf(evs) |-> evs[i].text]

LEMMA TextsType ==
    ASSUME NEW evs \in Seq(StreamEvent)
    PROVE  /\ \A i \in TextsOf(evs) : TextAt(evs)[i] \in Words /\ TextAt(evs)[i] = evs[i].text
           /\ CollectText(evs) = Picked(TextAt(evs), TextsOf(evs), Len(evs))
<1>1. ASSUME NEW i \in TextsOf(evs) PROVE evs[i].text \in Words
  <2>1. i \in 1..Len(evs) /\ evs[i].kind = "text"
    BY LenProperties DEF TextsOf
  <2>2. evs[i] \in StreamEvent
    BY <2>1, ElementOfSeq, Zenon
  <2> QED
    BY <2>1, <2>2, SMT DEF StreamEvent
<1>2. \A i \in TextsOf(evs) : TextAt(evs)[i] = evs[i].text
  BY Zenon DEF TextAt
<1>3. CollectText(evs) = Picked(TextAt(evs), TextsOf(evs), Len(evs))
  BY Zenon DEF CollectText, TextAt, TextsOf
<1> QED
  BY <1>1, <1>2, <1>3, Zenon

LEMMA CollectTextType ==
    ASSUME NEW evs \in Seq(StreamEvent)
    PROVE  CollectText(evs) \in Seq(Words) /\ (evs = <<>> => CollectText(evs) = <<>>)
<1> DEFINE v == TextAt(evs)
           K == TextsOf(evs)
           n == Len(evs)
<1>1. n \in Nat /\ (evs = <<>> => n = 0)
  BY LenProperties
<1>2. (\A i \in K : v[i] \in Words) /\ CollectText(evs) = Picked(v, K, n)
  BY TextsType, Zenon
<1> HIDE DEF v, K, n
<1> QED
  BY <1>1, <1>2, PickedType, Zenon

LEMMA CollectTextNext ==
    ASSUME NEW evs \in Seq(StreamEvent), NEW e \in StreamEvent
    PROVE  CollectText(Append(evs, e))
             = IF e.kind = "text" THEN Append(CollectText(evs), e.text) ELSE CollectText(evs)
<1> DEFINE n == Len(evs)
           t == Append(evs, e)
           m == n + 1
           v == TextAt(evs)
           K == TextsOf(evs)
           w == TextAt(t)
           L == TextsOf(t)
<1>1. n \in Nat /\ t \in Seq(StreamEvent) /\ Len(t) = m /\ t[m] = e /\ \A i \in 1..n : t[i] = evs[i]
  BY AppendProperties, LenProperties
<1>2. m \in Nat /\ m > 0 /\ m - 1 = n /\ \A i \in 1..n : i \in 1..m
  BY <1>1
<1>3. DOMAIN evs = 1..n /\ DOMAIN t = 1..m
  BY <1>1, LenProperties
<1> HIDE DEF n, t, m
<1>4. /\ \A i \in K : v[i] \in Words /\ v[i] = evs[i].text
      /\ CollectText(evs) = Picked(v, K, n)
  BY TextsType, Zenon DEF n
<1>5. /\ \A i \in L : w[i] \in Words /\ w[i] = t[i].text
      /\ CollectText(t) = Picked(w, L, m)
  BY <1>1, TextsType, Zenon
<1>6. \A i \in 1..n : (i \in K <=> i \in L) /\ (i \in K => v[i] = w[i])
  <2>1. \A i \in 1..n : i \in K <=> i \in L
    BY <1>1, <1>2, <1>3, Zenon DEF TextsOf
  <2> QED
    BY <1>1, <1>4, <1>5, <2>1, Zenon
<1>7. m \in L <=> e.kind = "text"
  <2>1. m \in 1..m
    BY <1>2
  <2> QED
    BY <1>1, <1>3, <2>1, Zenon DEF TextsOf
<1> HIDE DEF v, K, w, L
<1>8. Picked(w, L, n) = Picked(v, K, n)
  BY <1>1, <1>4, <1>5, <1>6, PickedAlike
<1>9. Picked(w, L, m) = IF m \in L THEN Append(Picked(w, L, n), w[m]) ELSE Picked(w, L, n)
  <2>1. Picked(w, L, m) = IF m \in L THEN Append(Picked(w, L, m - 1), w[m]) ELSE Picked(w, L, m - 1)
    BY <1>2, <1>5, PickedNext
  <2> QED
    BY <1>2, <2>1
<1>10. CollectText(t) = IF e.kind = "text" THEN Append(CollectText(evs), e.text) ELSE CollectText(evs)
  BY <1>1, <1>4, <1>5, <1>7, <1>8, <1>9, Zenon
<1> QED
  BY <1>10, Zenon DEF t

----------------------------------------------------------------------------
(* Types, and how the request and the answer go together *)

InferenceType ==
    /\ format \in DOMAIN Answers
    /\ history \in Seq(Message)
    /\ said \in Seq(SseEvent)
    /\ recvd \in Nat
    /\ parsed \in Nat
    /\ pend \in Seq(StreamEvent)
    /\ events \in Seq(StreamEvent)
    /\ chan \in Seq(TurnEvent)
    /\ emit \in [text : Nat, tool : Nat, runs : Nat]
    /\ items \in Seq(ItemFrame)
    /\ result \in [kind : {"none", "ended", "cancelled"}] \cup Complete

\* The parser is behind what has arrived, and that behind what was said.
Arrived ==
    /\ parsed <= Len(said)
    /\ 2 * parsed <= recvd
    /\ recvd <= 2 * Len(said)

\* There is no answer before its request, and no event for a turn that is gone.
InSequence ==
    /\ source = "none" => http = "none" /\ chan = <<>> /\ ~held /\ ~running /\ result.kind = "none"
    /\ http = "none" =>
         said = <<>> /\ recvd = 0 /\ parsed = 0 /\ pend = <<>> /\ events = <<>> /\ seen = {}
    /\ said = <<>> \/ said \in Answers[format]
    /\ ~held => chan = <<>>

BaseInv == InferenceType /\ Arrived /\ InSequence

\* An event that may be there.
Opt(b, e) == IF b THEN <<e>> ELSE <<>>

LEMMA OptType ==
    ASSUME NEW b, NEW e \in StreamEvent PROVE Opt(b, e) \in Seq(StreamEvent)
BY DEF Opt

\* Whether event k starts a call.
Starts(k) == IF format = "anthropic" THEN said[k].call.arg = "" ELSE said[k].call.index \notin seen

TextEv(k) == [kind |-> "text", text |-> Text(k)]
ThinkEv == [kind |-> "think"]
StartEv(k) == [kind |-> "start", id |-> said[k].call.index]
InputEv(k) == [kind |-> "input", arg |-> said[k].call.arg]
DoneEv(k) == [kind |-> "done", stop |-> said[k].finish]

\* parse_sse_event yields up to five events.
LEMMA ParsedEvents ==
    ASSUME NEW k
    PROVE  ParseSseEvent(k) =
             Opt(said[k].text # "", TextEv(k)) \o Opt(said[k].think, ThinkEv)
               \o (Opt(said[k].call.index # 0 /\ Starts(k), StartEv(k))
                     \o Opt(said[k].call.index # 0 /\ said[k].call.arg # "", InputEv(k)))
               \o Opt(said[k].finish # "", DoneEv(k))
<1>1. TextEvents(k) = Opt(said[k].text # "", TextEv(k))
  BY Zenon DEF TextEvents, Opt, TextEv
<1>2. ThinkEvents(k) = Opt(said[k].think, ThinkEv)
  BY Zenon DEF ThinkEvents, Opt, ThinkEv
<1>3. CallEvents(k) = Opt(said[k].call.index # 0 /\ Starts(k), StartEv(k))
                        \o Opt(said[k].call.index # 0 /\ said[k].call.arg # "", InputEv(k))
  BY Zenon DEF CallEvents, Opt, Starts, StartEv, InputEv
<1>4. FinishEvents(k) = Opt(said[k].finish # "", DoneEv(k))
  BY Zenon DEF FinishEvents, Opt, DoneEv
<1> QED
  BY <1>1, <1>2, <1>3, <1>4, Zenon DEF ParseSseEvent

LEMMA ParsedTypes ==
    ASSUME NEW k \in DOMAIN said, said \in Seq(SseEvent)
    PROVE  /\ TextEv(k) \in StreamEvent /\ ThinkEv \in StreamEvent /\ StartEv(k) \in StreamEvent
           /\ InputEv(k) \in StreamEvent /\ DoneEv(k) \in StreamEvent
           /\ ParseSseEvent(k) \in Seq(StreamEvent)
<1>1. said[k] \in SseEvent
  BY ElementOfSeq, LenProperties
<1>2. /\ said[k].text \in Words /\ said[k].call.index \in Nat /\ said[k].call.arg \in Words
      /\ said[k].finish \in Words
  BY <1>1 DEF SseEvent, Words
<1>3. Text(k) \in Words
  <2>1. "?" \in Words
    BY DEF Words
  <2> QED
    BY <1>2, <2>1, Zenon DEF Text
<1>4. /\ TextEv(k) \in StreamEvent /\ ThinkEv \in StreamEvent /\ StartEv(k) \in StreamEvent
      /\ InputEv(k) \in StreamEvent /\ DoneEv(k) \in StreamEvent
  BY <1>2, <1>3 DEF StreamEvent, TextEv, ThinkEv, StartEv, InputEv, DoneEv
<1>5. \A b : /\ Opt(b, TextEv(k)) \in Seq(StreamEvent) /\ Opt(b, ThinkEv) \in Seq(StreamEvent)
             /\ Opt(b, StartEv(k)) \in Seq(StreamEvent) /\ Opt(b, InputEv(k)) \in Seq(StreamEvent)
             /\ Opt(b, DoneEv(k)) \in Seq(StreamEvent)
  BY <1>4, OptType, Zenon
<1>6. \A s, t : s \in Seq(StreamEvent) /\ t \in Seq(StreamEvent) => s \o t \in Seq(StreamEvent)
  OBVIOUS
<1>7. ParseSseEvent(k) \in Seq(StreamEvent)
  BY <1>5, <1>6, ParsedEvents, Zenon
<1> QED
  BY <1>4, <1>7, Zenon

LEMMA InitBase == ASSUME InferenceInit PROVE BaseInv
<1>1. User \in Message
  BY DEF User, Message, Roles
<1>2. history = <<User>> /\ said = <<>> /\ pend = <<>> /\ events = <<>> /\ chan = <<>> /\ items = <<>>
      /\ recvd = 0 /\ parsed = 0 /\ format \in DOMAIN Answers /\ result = NoResult
      /\ emit = [text |-> 0, tool |-> 0, runs |-> 0] /\ source = "none" /\ http = "none" /\ seen = {}
      /\ running = FALSE /\ held = FALSE
  BY DEF InferenceInit
<1>3. history \in Seq(Message)
  BY <1>1, <1>2
<1>4. result \in [kind : {"none", "ended", "cancelled"}] /\ result.kind = "none"
  BY <1>2 DEF NoResult
<1>5. emit \in [text : Nat, tool : Nat, runs : Nat]
  BY <1>2
<1> QED
  BY <1>2, <1>3, <1>4, <1>5 DEF BaseInv, InferenceType, Arrived, InSequence

\* The actions that leave the answer, the parser and the channel as they are.
LEMMA QuietBase ==
    ASSUME BaseInv,
           UNCHANGED <<format, history, said, recvd, parsed, pend, events, seen, chan, emit, items>>,
           result' \in [kind : {"none", "ended", "cancelled"}] \cup Complete,
           http' = "none" => http = "none",
           ~held' => ~held,
           source' = "none" => source = "none" /\ http' = "none" /\ ~held' /\ ~running' /\ result'.kind = "none"
    PROVE  BaseInv'
<1>1. InferenceType'
  BY Zenon DEF BaseInv, InferenceType
<1>2. Arrived'
  BY Zenon DEF BaseInv, Arrived
<1>3. InSequence'
  BY Zenon DEF BaseInv, InSequence
<1> QED
  BY <1>1, <1>2, <1>3 DEF BaseInv

LEMMA OpenBase == ASSUME BaseInv, OpenError \/ OpenSource("local") \/ OpenSource("pod") PROVE BaseInv'
<1>1. CASE OpenError
  <2>1. UNCHANGED <<format, history, http, said, recvd, split, seen, parsed, pend, events, running, emit,
                    items, result>>
        /\ source' = "error" /\ held' = TRUE /\ chan' = <<[kind |-> "error"]>>
    BY <1>1 DEF OpenError, parseVars
  <2>2. chan' \in Seq(TurnEvent)
    <3>1. [kind |-> "error"] \in TurnEvent
      BY DEF TurnEvent
    <3> QED
      BY <2>1, <3>1
  <2>3. InferenceType'
    BY <2>1, <2>2, Zenon DEF BaseInv, InferenceType
  <2>4. Arrived'
    BY <2>1, Zenon DEF BaseInv, Arrived
  <2>5. InSequence'
    <3>1. source' # "none"
      BY <2>1
    <3> QED
      BY <2>1, <3>1, Zenon DEF BaseInv, InSequence
  <2> QED
    BY <2>3, <2>4, <2>5 DEF BaseInv
<1>2. CASE OpenSource("local") \/ OpenSource("pod")
  <2>1. UNCHANGED <<format, history, http, said, recvd, split, seen, parsed, pend, events, chan, emit,
                    items, result>>
        /\ source' # "none" /\ held' = TRUE
    BY <1>2 DEF OpenSource
  <2>2. result' \in [kind : {"none", "ended", "cancelled"}] \cup Complete
    BY <2>1, Zenon DEF BaseInv, InferenceType
  <2> QED
    BY <2>1, <2>2, QuietBase, Zenon
<1> QED
  BY <1>1, <1>2

LEMMA CallProviderBase ==
    ASSUME BaseInv, NEW a \in Answers[format], CallProvider(a) PROVE BaseInv'
<1>1. UNCHANGED <<format, history, source, recvd, split, seen, parsed, pend, events, running, chan, held,
                  emit, items, result>>
      /\ http = "none" /\ http' = "open" /\ said' = a /\ source # "none"
  BY DEF CallProvider, parseVars, turnVars, Called
<1>2. a \in Seq(SseEvent)
  BY AnswersAssumption, Zenon DEF BaseInv, InferenceType
<1>3. InferenceType'
  BY <1>1, <1>2, Zenon DEF BaseInv, InferenceType
<1>4. recvd = 0 /\ parsed = 0
  BY <1>1, Zenon DEF BaseInv, InSequence
<1>5. Len(a) \in Nat
  BY <1>2, LenProperties
<1>6. Arrived'
  BY <1>1, <1>4, <1>5, SMT DEF Arrived
<1>7. InSequence'
  <2>1. http' # "none"
    BY <1>1
  <2> QED
    BY <1>1, <2>1, Zenon DEF BaseInv, InSequence
<1> QED
  BY <1>3, <1>6, <1>7 DEF BaseInv

LEMMA ProviderBase ==
    ASSUME BaseInv, CallFails \/ ProviderEnds \/ \E n \in 1..(2 * Len(said)) : Chunk(n)
    PROVE  BaseInv'
<1>0. result \in [kind : {"none", "ended", "cancelled"}] \cup Complete
  BY Zenon DEF BaseInv, InferenceType
<1>1. CASE CallFails \/ ProviderEnds
  <2>1. UNCHANGED <<format, history, source, said, recvd, split, seen, parsed, pend, events, running, chan,
                    held, emit, items, result>> /\ http' # "none"
    BY <1>1 DEF CallFails, ProviderEnds, parseVars, turnVars
  <2>2. source # "none"
    <3>1. CASE CallFails
      BY <3>1 DEF CallFails, Called
    <3>2. CASE ProviderEnds
      <4>1. http # "none"
        BY <3>2 DEF ProviderEnds
      <4> QED
        BY <4>1, Zenon DEF BaseInv, InSequence
    <3> QED
      BY <1>1, <3>1, <3>2
  <2> QED
    BY <1>0, <2>1, <2>2, QuietBase, Zenon
<1>2. ASSUME NEW n \in 1..(2 * Len(said)), Chunk(n) PROVE BaseInv'
  <2>1. UNCHANGED <<format, history, source, http, said, seen, parsed, pend, events, running, chan, held,
                    emit, items, result>>
        /\ http = "open" /\ recvd' = recvd + n /\ recvd + n <= 2 * Len(said)
    BY <1>2 DEF Chunk, parseVars, turnVars
  <2>2. recvd \in Nat /\ parsed \in Nat /\ Len(said) \in Nat
    BY LenProperties DEF BaseInv, InferenceType
  <2>3. recvd + n \in Nat
    BY <2>2
  <2>4. InferenceType'
    BY <2>1, <2>3, Zenon DEF BaseInv, InferenceType
  <2>5. Arrived'
    BY <2>1, <2>2, SMT DEF BaseInv, Arrived
  <2>6. InSequence'
    <3>1. http # "none"
      BY <2>1
    <3> QED
      BY <2>1, <3>1, Zenon DEF BaseInv, InSequence
  <2> QED
    BY <2>4, <2>5, <2>6 DEF BaseInv
<1> QED
  BY <1>1, <1>2, Zenon

LEMMA CompleteType ==
    ASSUME NEW evs \in Seq(StreamEvent), NEW e \in StreamEvent, e.kind = "done"
    PROVE  AssembleTurnComplete(evs, e.stop) \in Complete
<1>1. CollectText(evs) \in Seq(Words) /\ CollectToolCalls(evs) \in Seq(ToolCall)
  BY CollectTextType, CollectType, Zenon
<1>2. e.stop \in Words
  BY SMT DEF StreamEvent
<1> QED
  BY <1>1, <1>2 DEF AssembleTurnComplete, Complete

LEMMA ParseBase ==
    ASSUME BaseInv, ParseNext
    PROVE  /\ BaseInv'
           /\ parsed + 1 \in DOMAIN said
<1>1. UNCHANGED <<format, history, source, http, said, recvd, split, events, running, chan, held, emit,
                  items, result>>
      /\ source # "none" /\ pend = <<>> /\ 2 * (parsed + 1) <= recvd /\ parsed' = parsed + 1
      /\ pend' = ParseSseEvent(parsed + 1)
  BY DEF ParseNext, callVars, turnVars, Called
<1>2. parsed \in Nat /\ recvd \in Nat /\ said \in Seq(SseEvent) /\ Len(said) \in Nat /\ DOMAIN said = 1..Len(said)
  BY LenProperties DEF BaseInv, InferenceType
<1>3. recvd <= 2 * Len(said)
  BY Zenon DEF BaseInv, Arrived
<1>4. parsed + 1 \in DOMAIN said /\ parsed + 1 \in Nat /\ parsed + 1 <= Len(said)
  BY <1>1, <1>2, <1>3
<1>5. pend' \in Seq(StreamEvent)
  BY <1>1, <1>2, <1>4, ParsedTypes, Zenon
<1>6. InferenceType'
  BY <1>1, <1>4, <1>5, Zenon DEF BaseInv, InferenceType
<1>7. Arrived'
  BY <1>1, <1>2, <1>3, <1>4, SMT DEF Arrived
<1>8. InSequence'
  <2>1. http # "none"
    <3> SUFFICES ASSUME http = "none" PROVE FALSE
      OBVIOUS
    <3>1. recvd = 0
      BY Zenon DEF BaseInv, InSequence
    <3> QED
      BY <1>1, <1>2, <3>1
  <2> QED
    BY <1>1, <2>1, Zenon DEF BaseInv, InSequence
<1> QED
  BY <1>4, <1>6, <1>7, <1>8 DEF BaseInv

LEMMA SourceStepBase ==
    ASSUME BaseInv, SourceStep
    PROVE  /\ BaseInv'
           /\ Head(pend) \in StreamEvent
           /\ events' = Append(events, Head(pend))
           /\ events' \o pend' = events \o pend
<1> DEFINE e == Head(pend)
           evs == Append(events, e)
           out == IF e.kind = "done" THEN AssembleTurnComplete(evs, e.stop) ELSE e
<1>1. UNCHANGED <<format, history, source, http, said, recvd, split, seen, parsed, held, emit, items, result>>
      /\ source # "none" /\ pend # <<>> /\ pend' = Tail(pend) /\ events' = evs
      /\ chan' = IF held /\ Forwarded(e) THEN Append(chan, out) ELSE chan
  BY DEF SourceStep, callVars, turnVars, Called
<1>2. pend \in Seq(StreamEvent) /\ events \in Seq(StreamEvent) /\ chan \in Seq(TurnEvent)
  BY Zenon DEF BaseInv, InferenceType
<1>3. e \in StreamEvent /\ Tail(pend) \in Seq(StreamEvent)
  BY <1>1, <1>2, HeadTailProperties
<1>4. evs \in Seq(StreamEvent)
  BY <1>2, <1>3, AppendProperties
<1>5. evs \o Tail(pend) = events \o pend
  <2>1. pend = <<e>> \o Tail(pend)
    BY <1>1, <1>2
  <2>2. evs = events \o <<e>>
    BY <1>2, <1>3, AppendIsConcat
  <2>3. <<e>> \in Seq(StreamEvent)
    BY <1>3
  <2>4. (events \o <<e>>) \o Tail(pend) = events \o (<<e>> \o Tail(pend))
    BY <1>2, <1>3, <2>3, ConcatAssociative
  <2> QED
    BY <2>1, <2>2, <2>4
<1>6. out \in TurnEvent
  <2> HIDE DEF evs, e
  <2>1. CASE e.kind = "done"
    BY <1>3, <1>4, <2>1, CompleteType, Zenon DEF TurnEvent
  <2>2. CASE e.kind # "done"
    BY <1>3, <2>2, Zenon DEF TurnEvent
  <2> QED
    BY <2>1, <2>2
<1> HIDE DEF out, evs, e
<1>7. chan' \in Seq(TurnEvent)
  BY <1>1, <1>2, <1>6, AppendProperties
<1>8. InferenceType'
  BY <1>1, <1>3, <1>4, <1>7, Zenon DEF BaseInv, InferenceType
<1>9. Arrived'
  BY <1>1, Zenon DEF BaseInv, Arrived
<1>10. InSequence'
  BY <1>1, Zenon DEF BaseInv, InSequence
<1> QED
  BY <1>1, <1>3, <1>5, <1>8, <1>9, <1>10, Zenon DEF BaseInv, e, evs

LEMMA SourceFailsBase == ASSUME BaseInv, SourceFails PROVE BaseInv'
<1>1. UNCHANGED <<format, history, source, http, said, recvd, split, seen, parsed, pend, events, held, emit,
                  items, result>>
      /\ source # "none" /\ chan' = IF held THEN Append(chan, [kind |-> "error"]) ELSE chan
  BY DEF SourceFails, callVars, turnVars, Called
<1>2. chan' \in Seq(TurnEvent)
  <2>1. [kind |-> "error"] \in TurnEvent
    BY DEF TurnEvent
  <2>2. chan \in Seq(TurnEvent)
    BY Zenon DEF BaseInv, InferenceType
  <2> QED
    BY <1>1, <2>1, <2>2, AppendProperties
<1>3. InferenceType'
  BY <1>1, <1>2, Zenon DEF BaseInv, InferenceType
<1>4. Arrived'
  BY <1>1, Zenon DEF BaseInv, Arrived
<1>5. InSequence'
  BY <1>1, Zenon DEF BaseInv, InSequence
<1> QED
  BY <1>3, <1>4, <1>5 DEF BaseInv

LEMMA PodLostBase ==
    ASSUME BaseInv, PodLost
    PROVE  BaseInv' /\ \E n \in 0..Len(chan) : chan' = SubSeq(chan, 1, n)
<1>1. UNCHANGED <<format, history, source, http, said, recvd, split, seen, parsed, pend, events, held, emit,
                  items, result>> /\ source # "none"
  BY DEF PodLost, callVars, turnVars
<1>2. PICK n \in 0..Len(chan) : chan' = SubSeq(chan, 1, n)
  BY DEF PodLost
<1>3. chan \in Seq(TurnEvent)
  BY Zenon DEF BaseInv, InferenceType
<1>4. chan' \in Seq(TurnEvent) /\ (chan = <<>> => chan' = <<>>)
  BY <1>2, <1>3
<1>5. InferenceType'
  BY <1>1, <1>4, Zenon DEF BaseInv, InferenceType
<1>6. Arrived'
  BY <1>1, Zenon DEF BaseInv, Arrived
<1>7. InSequence'
  BY <1>1, <1>4, Zenon DEF BaseInv, InSequence
<1> QED
  BY <1>2, <1>5, <1>6, <1>7, Zenon DEF BaseInv

LEMMA TurnBase ==
    ASSUME BaseInv, StreamEndsEarly \/ IdleTimeout \/ StreamCancelled \/ CancelTurn
    PROVE  /\ BaseInv'
           /\ UNCHANGED <<callVars, parseVars, chan, held, emit, items>>
           /\ result' = result \/ result'.kind \in {"ended", "cancelled"}
<1>1. UNCHANGED <<callVars, parseVars, chan, held, emit, items>>
  BY DEF StreamEndsEarly, IdleTimeout, StreamCancelled, CancelTurn
<1>2. UNCHANGED <<format, history, source, http, said, recvd, seen, parsed, pend, events, running>>
  BY <1>1 DEF callVars, parseVars
<1>3. result' = result \/ (held /\ result' \in [kind : {"none", "ended", "cancelled"}]
                           /\ result'.kind \in {"ended", "cancelled"})
  BY DEF StreamEndsEarly, IdleTimeout, StreamCancelled, CancelTurn, Waiting
<1>4. result \in [kind : {"none", "ended", "cancelled"}] \cup Complete
  BY Zenon DEF BaseInv, InferenceType
<1>5. source = "none" => http = "none" /\ ~held /\ ~running /\ result.kind = "none"
  BY Zenon DEF BaseInv, InSequence
<1>6. BaseInv'
  BY <1>1, <1>2, <1>3, <1>4, <1>5, QuietBase, Zenon
<1> QED
  BY <1>1, <1>3, <1>6, Zenon

LEMMA DropSourceBase == ASSUME BaseInv, DropSource PROVE BaseInv'
<1>1. UNCHANGED <<format, history, source, http, said, recvd, split, seen, parsed, pend, events, emit,
                  items, result>>
      /\ held /\ chan' = <<>>
  BY DEF DropSource, callVars
<1>2. source # "none"
  BY <1>1, Zenon DEF BaseInv, InSequence
<1>3. chan' \in Seq(TurnEvent)
  BY <1>1
<1>4. InferenceType'
  BY <1>1, <1>3, Zenon DEF BaseInv, InferenceType
<1>5. Arrived'
  BY <1>1, Zenon DEF BaseInv, Arrived
<1>6. InSequence'
  BY <1>1, <1>2, Zenon DEF BaseInv, InSequence
<1> QED
  BY <1>4, <1>5, <1>6 DEF BaseInv

----------------------------------------------------------------------------
(* The items of the turn *)

Items == {"text", "tool"} \X Nat

\* Item x was started, was not stopped since, and no tool call came in a text run.
Opened(its, x) ==
    \E j \in DOMAIN its :
        /\ its[j] = Frame("start", x, "")
        /\ \A k \in DOMAIN its : k > j => its[k] # Frame("stop", x, "")
        /\ x[1] = "text" =>
             \A k \in DOMAIN its : k > j /\ its[k].phase = "start" => its[k].item[1] = "text"

OnlyTextStops(its) == \A i \in DOMAIN its : its[i].phase = "stop" => its[i].item[1] = "text"

\* ItemsNest, of any frames.
Nested(its) ==
    \A i \in DOMAIN its :
        its[i].phase # "start" =>
            \E j \in 1..(i - 1) :
                /\ its[j] = Frame("start", its[i].item, "")
                /\ \A k \in (j + 1)..(i - 1) : its[k] # Frame("stop", its[i].item, "")
                /\ its[i].phase = "delta" /\ its[i].item[1] = "text" =>
                     \A k \in (j + 1)..(i - 1) : its[k].phase = "start" => its[k].item[1] = "text"

NestOf(its, em) ==
    /\ Nested(its)
    /\ OnlyTextStops(its)
    /\ em.text # 0 => Opened(its, TextItem(em.text))
    /\ em.tool # 0 => Opened(its, ToolItem(em.tool))

NestInv == NestOf(items, emit)

EmitState == [text : Nat, tool : Nat, runs : Nat]

\* A sequence and one more value.
LEMMA Appended ==
    ASSUME NEW S, NEW s \in Seq(S), NEW e \in S
    PROVE  /\ Len(s) \in Nat /\ DOMAIN s = 1..Len(s) /\ DOMAIN Append(s, e) = 1..(Len(s) + 1)
           /\ Append(s, e)[Len(s) + 1] = e /\ \A i \in 1..Len(s) : Append(s, e)[i] = s[i]
           /\ Append(s, e) \in Seq(S) /\ Len(Append(s, e)) = Len(s) + 1
BY AppendProperties, LenProperties

IsAppended(t, s, e) ==
    /\ Len(t) = Len(s) + 1 /\ DOMAIN t = 1..(Len(s) + 1) /\ t[Len(s) + 1] = e
    /\ \A i \in 1..Len(s) : t[i] = s[i]

LEMMA AppendedIs == ASSUME NEW S, NEW s \in Seq(S), NEW e \in S PROVE IsAppended(Append(s, e), s, e)
BY Appended DEF IsAppended

LEMMA UpToItself == ASSUME NEW n \in Nat, n # 0 PROVE n \in 1..n
OBVIOUS

LEMMA LastIndex ==
    ASSUME NEW n \in Nat
    PROVE  /\ n + 1 \in 1..(n + 1) /\ \A i \in 1..n : i \in 1..(n + 1)
           /\ \A k \in 1..(n + 1) : (k \in 1..n \/ k = n + 1) /\ ~ (k > n + 1)
           /\ (n + 1) - 1 = n /\ n + 1 # 0
OBVIOUS

\* A frame of an open item, or one that starts an item, may come next.
LEMMA NestedNext ==
    ASSUME NEW its \in Seq(ItemFrame), NEW f \in ItemFrame,
           Nested(its), f.phase = "start" \/ Opened(its, f.item)
    PROVE  Nested(Append(its, f))
<1> DEFINE n == Len(its)
           new == Append(its, f)
<1>1. n \in Nat /\ DOMAIN its = 1..n /\ DOMAIN new = 1..(n + 1) /\ new[n + 1] = f
      /\ \A i \in 1..n : new[i] = its[i]
  BY Appended
<1> HIDE DEF new, n
<1> SUFFICES ASSUME NEW i \in 1..(n + 1), new[i].phase # "start"
             PROVE  \E j \in 1..(i - 1) :
                      /\ new[j] = Frame("start", new[i].item, "")
                      /\ \A k \in (j + 1)..(i - 1) : new[k] # Frame("stop", new[i].item, "")
                      /\ new[i].phase = "delta" /\ new[i].item[1] = "text" =>
                           \A k \in (j + 1)..(i - 1) : new[k].phase = "start" => new[k].item[1] = "text"
  BY <1>1, Zenon DEF Nested, new
<1>2. CASE i \in 1..n
  <2>1. new[i] = its[i]
    BY <1>1, <1>2
  <2>2. PICK j \in 1..(i - 1) :
          /\ its[j] = Frame("start", its[i].item, "")
          /\ \A k \in (j + 1)..(i - 1) : its[k] # Frame("stop", its[i].item, "")
          /\ its[i].phase = "delta" /\ its[i].item[1] = "text" =>
               \A k \in (j + 1)..(i - 1) : its[k].phase = "start" => its[k].item[1] = "text"
    BY <1>1, <1>2, <2>1, Zenon DEF Nested
  <2>3. j \in 1..n /\ \A k \in (j + 1)..(i - 1) : k \in 1..n
    BY <1>1, <1>2
  <2> QED
    BY <1>1, <2>1, <2>2, <2>3, Zenon
<1>3. CASE i = n + 1
  <2>1. new[i] = f /\ i - 1 = n
    BY <1>1, <1>3
  <2>2. PICK j \in 1..n :
          /\ its[j] = Frame("start", f.item, "")
          /\ \A k \in 1..n : k > j => its[k] # Frame("stop", f.item, "")
          /\ f.item[1] = "text" => \A k \in 1..n : k > j /\ its[k].phase = "start" => its[k].item[1] = "text"
    BY <1>1, <2>1, Zenon DEF Opened
  <2>3. \A k \in (j + 1)..n : k \in 1..n /\ k > j
    BY <1>1
  <2>4. j \in 1..(i - 1)
    BY <1>1, <2>1
  <2>5. new[j] = Frame("start", new[i].item, "")
    BY <1>1, <2>1, <2>2, Zenon
  <2>6. \A k \in (j + 1)..n : new[k] # Frame("stop", new[i].item, "")
    BY <1>1, <2>1, <2>2, <2>3, Zenon
  <2>7. new[i].item[1] = "text" => \A k \in (j + 1)..n : new[k].phase = "start" => new[k].item[1] = "text"
    BY <1>1, <2>1, <2>2, <2>3, Zenon
  <2> QED
    BY <2>1, <2>4, <2>5, <2>6, <2>7, Zenon
<1> QED
  BY <1>1, <1>2, <1>3, LastIndex, Zenon

LEMMA OpenedStart ==
    ASSUME NEW its \in Seq(ItemFrame), NEW x \in Items
    PROVE  Opened(Append(its, Frame("start", x, "")), x)
<1> DEFINE n == Len(its)
           f == Frame("start", x, "")
           new == Append(its, f)
<1>0. f \in ItemFrame
  BY DEF Frame, ItemFrame, Items, Words
<1>1. n \in Nat /\ DOMAIN new = 1..(n + 1) /\ new[n + 1] = f
  BY <1>0, Appended, Zenon
<1>2. n + 1 \in 1..(n + 1) /\ \A k \in 1..(n + 1) : ~ (k > n + 1)
  BY <1>1, LastIndex, Zenon
<1> HIDE DEF new, n
<1>3. Opened(new, x)
  BY <1>1, <1>2, Zenon DEF Opened
<1> QED
  BY <1>3, Zenon DEF new

\* A frame that leaves item x open.
Leaves(f, x) == f # Frame("stop", x, "") /\ (x[1] = "text" /\ f.phase = "start" => f.item[1] = "text")

LEMMA OpenedStays ==
    ASSUME NEW its \in Seq(ItemFrame), NEW f \in ItemFrame, NEW x,
           Opened(its, x), Leaves(f, x)
    PROVE  Opened(Append(its, f), x)
<1> DEFINE n == Len(its)
           new == Append(its, f)
<1>1. n \in Nat /\ DOMAIN its = 1..n /\ DOMAIN new = 1..(n + 1) /\ new[n + 1] = f
      /\ \A i \in 1..n : new[i] = its[i]
  BY Appended
<1> HIDE DEF new, n
<1>2. PICK j \in 1..n :
          /\ its[j] = Frame("start", x, "")
          /\ \A k \in 1..n : k > j => its[k] # Frame("stop", x, "")
          /\ x[1] = "text" => \A k \in 1..n : k > j /\ its[k].phase = "start" => its[k].item[1] = "text"
  BY <1>1, Zenon DEF Opened
<1>3. j \in 1..(n + 1) /\ \A k \in 1..(n + 1) : k \in 1..n \/ k = n + 1
  BY <1>1, LastIndex, Zenon
<1>4. new[j] = Frame("start", x, "")
  BY <1>1, <1>2, Zenon
<1>5. \A k \in 1..(n + 1) : k > j => new[k] # Frame("stop", x, "")
  BY <1>1, <1>2, <1>3, Zenon DEF Leaves
<1>6. x[1] = "text" => \A k \in 1..(n + 1) : k > j /\ new[k].phase = "start" => new[k].item[1] = "text"
  BY <1>1, <1>2, <1>3, Zenon DEF Leaves
<1>7. Opened(new, x)
  BY <1>1, <1>3, <1>4, <1>5, <1>6, Zenon DEF Opened
<1> QED
  BY <1>7, Zenon DEF new

LEMMA TextStopsNext ==
    ASSUME NEW its \in Seq(ItemFrame), NEW f \in ItemFrame, OnlyTextStops(its),
           f.phase = "stop" => f.item[1] = "text"
    PROVE  OnlyTextStops(Append(its, f))
<1> DEFINE n == Len(its)
           new == Append(its, f)
<1>1. n \in Nat /\ DOMAIN its = 1..n /\ DOMAIN new = 1..(n + 1) /\ new[n + 1] = f
      /\ \A i \in 1..n : new[i] = its[i]
  BY Appended
<1>2. \A k \in 1..(n + 1) : k \in 1..n \/ k = n + 1
  BY <1>1, LastIndex, Zenon
<1> HIDE DEF new, n
<1>3. OnlyTextStops(new)
  BY <1>1, <1>2, Zenon DEF OnlyTextStops
<1> QED
  BY <1>3, Zenon DEF new

LEMMA LeavesFacts ==
    ASSUME NEW n \in Nat, NEW m \in Nat, NEW x, NEW y, NEW w
    PROVE  /\ Leaves(Frame("delta", y, w), x)
           /\ Leaves(Frame("start", TextItem(n), ""), ToolItem(m))
           /\ Leaves(Frame("start", ToolItem(n), ""), ToolItem(m))
           /\ Leaves(Frame("stop", TextItem(n), ""), ToolItem(m))
<1>1. TextItem(n)[1] = "text" /\ ToolItem(n)[1] = "tool" /\ ToolItem(m)[1] = "tool"
  BY DEF TextItem, ToolItem
<1>2. TextItem(n) # ToolItem(m)
  BY DEF TextItem, ToolItem
<1> HIDE DEF TextItem, ToolItem
<1>3. Leaves(Frame("delta", y, w), x)
  BY DEF Leaves, Frame
<1>4. Leaves(Frame("start", TextItem(n), ""), ToolItem(m))
  BY <1>1 DEF Leaves, Frame
<1>5. Leaves(Frame("start", ToolItem(n), ""), ToolItem(m))
  BY <1>1 DEF Leaves, Frame
<1>6. Leaves(Frame("stop", TextItem(n), ""), ToolItem(m))
  BY <1>1, <1>2 DEF Leaves, Frame
<1> QED
  BY <1>3, <1>4, <1>5, <1>6

\* A delta of an open item.
LEMMA NestDelta ==
    ASSUME NEW its \in Seq(ItemFrame), NEW em \in EmitState, NEW x \in Items, NEW w \in Words,
           NestOf(its, em), Opened(its, x)
    PROVE  /\ Append(its, Frame("delta", x, w)) \in Seq(ItemFrame)
           /\ NestOf(Append(its, Frame("delta", x, w)), em)
<1> DEFINE f == Frame("delta", x, w)
<1>1. f \in ItemFrame /\ f.phase = "delta" /\ f.item = x
  BY DEF Frame, ItemFrame, Items
<1>2. em.text \in Nat /\ em.tool \in Nat
  BY DEF EmitState
<1>3. \A y : Leaves(f, y)
  BY <1>2, LeavesFacts, Zenon
<1>4. f.phase # "stop"
  BY <1>1
<1> HIDE DEF f
<1>5. Append(its, f) \in Seq(ItemFrame)
  BY <1>1, Appended, Zenon
<1>6. Nested(Append(its, f))
  BY <1>1, NestedNext, Zenon DEF NestOf
<1>7. OnlyTextStops(Append(its, f))
  BY <1>1, <1>4, TextStopsNext, Zenon DEF NestOf
<1>8. \A y : Opened(its, y) => Opened(Append(its, f), y)
  BY <1>1, <1>3, OpenedStays, Zenon
<1>9. NestOf(Append(its, f), em)
  BY <1>6, <1>7, <1>8, Zenon DEF NestOf
<1> QED
  BY <1>5, <1>9, Zenon DEF f

\* A text run opens.
LEMMA NestText ==
    ASSUME NEW its \in Seq(ItemFrame), NEW em \in EmitState, NEW n \in Nat, NEW new \in EmitState,
           NestOf(its, em), new.text = n, new.tool = em.tool
    PROVE  /\ Append(its, Frame("start", TextItem(n), "")) \in Seq(ItemFrame)
           /\ NestOf(Append(its, Frame("start", TextItem(n), "")), new)
           /\ Opened(Append(its, Frame("start", TextItem(n), "")), TextItem(n))
<1> DEFINE x == TextItem(n)
           f == Frame("start", x, "")
<1>1. f \in ItemFrame /\ f.phase = "start" /\ f.item = x /\ x \in Items
  <2>1. x \in Items
    BY DEF Items, TextItem, ToolItem
  <2> HIDE DEF x
  <2> QED
    BY <2>1 DEF Frame, ItemFrame, Items, Words
<1>2. em.tool \in Nat
  BY DEF EmitState
<1>3. Leaves(f, ToolItem(em.tool))
  BY <1>2, LeavesFacts, Zenon
<1>4. f.phase # "stop"
  BY <1>1
<1>5. Opened(Append(its, f), x)
  BY <1>1, OpenedStart, Zenon
<1> HIDE DEF f, x
<1>6. Append(its, f) \in Seq(ItemFrame)
  BY <1>1, Appended, Zenon
<1>7. Nested(Append(its, f))
  BY <1>1, NestedNext, Zenon DEF NestOf
<1>8. OnlyTextStops(Append(its, f))
  BY <1>1, <1>4, TextStopsNext, Zenon DEF NestOf
<1>9. em.tool # 0 => Opened(Append(its, f), ToolItem(em.tool))
  BY <1>1, <1>3, OpenedStays, Zenon DEF NestOf
<1>10. NestOf(Append(its, f), new)
  BY <1>5, <1>7, <1>8, <1>9, Zenon DEF NestOf, x
<1> QED
  BY <1>5, <1>6, <1>10, Zenon DEF f, x

\* The text run is closed.
LEMMA NestStop ==
    ASSUME NEW its \in Seq(ItemFrame), NEW em \in EmitState, NEW n \in Nat, NEW new \in EmitState,
           NestOf(its, em), Opened(its, TextItem(n)), new.text = 0, new.tool = em.tool
    PROVE  /\ Append(its, Frame("stop", TextItem(n), "")) \in Seq(ItemFrame)
           /\ NestOf(Append(its, Frame("stop", TextItem(n), "")), new)
<1> DEFINE x == TextItem(n)
           f == Frame("stop", x, "")
<1>1. f \in ItemFrame /\ f.phase = "stop" /\ f.item = x /\ x[1] = "text"
  <2>1. x \in Items /\ x[1] = "text"
    BY DEF Items, TextItem, ToolItem
  <2> HIDE DEF x
  <2> QED
    BY <2>1 DEF Frame, ItemFrame, Items, Words
<1>2. em.tool \in Nat
  BY DEF EmitState
<1>3. Leaves(f, ToolItem(em.tool))
  BY <1>2, LeavesFacts, Zenon
<1> HIDE DEF f, x
<1>4. Append(its, f) \in Seq(ItemFrame)
  BY <1>1, Appended, Zenon
<1>5. Nested(Append(its, f))
  BY <1>1, NestedNext, Zenon DEF NestOf, x
<1>6. OnlyTextStops(Append(its, f))
  BY <1>1, TextStopsNext, Zenon DEF NestOf
<1>7. em.tool # 0 => Opened(Append(its, f), ToolItem(em.tool))
  BY <1>1, <1>3, OpenedStays, Zenon DEF NestOf
<1>8. NestOf(Append(its, f), new)
  BY <1>5, <1>6, <1>7, Zenon DEF NestOf
<1> QED
  BY <1>4, <1>8, Zenon DEF f, x

\* A tool call opens, when no text run is.
LEMMA NestTool ==
    ASSUME NEW its \in Seq(ItemFrame), NEW em \in EmitState, NEW n \in Nat, NEW new \in EmitState,
           NestOf(its, em), new.text = 0, new.tool = n
    PROVE  /\ Append(its, Frame("start", ToolItem(n), "")) \in Seq(ItemFrame)
           /\ NestOf(Append(its, Frame("start", ToolItem(n), "")), new)
<1> DEFINE x == ToolItem(n)
           f == Frame("start", x, "")
<1>1. f \in ItemFrame /\ f.phase = "start" /\ x \in Items
  <2>1. x \in Items
    BY DEF Items, TextItem, ToolItem
  <2> HIDE DEF x
  <2> QED
    BY <2>1 DEF Frame, ItemFrame, Items, Words
<1>2. f.phase # "stop"
  BY <1>1
<1>3. Opened(Append(its, f), x)
  BY <1>1, OpenedStart, Zenon
<1> HIDE DEF f, x
<1>4. Append(its, f) \in Seq(ItemFrame)
  BY <1>1, Appended, Zenon
<1>5. Nested(Append(its, f))
  BY <1>1, NestedNext, Zenon DEF NestOf
<1>6. OnlyTextStops(Append(its, f))
  BY <1>1, <1>2, TextStopsNext, Zenon DEF NestOf
<1>7. NestOf(Append(its, f), new)
  BY <1>3, <1>5, <1>6, Zenon DEF NestOf, x
<1> QED
  BY <1>4, <1>7, Zenon DEF f, x

\* What stream_items_for shows of an event keeps the items nested.
LEMMA ItemsFor ==
    ASSUME NEW e \in TurnEvent, emit \in EmitState, items \in Seq(ItemFrame), NestInv
    PROVE  /\ StreamItemsFor(e).emit \in EmitState
           /\ items \o StreamItemsFor(e).frames \in Seq(ItemFrame)
           /\ NestOf(items \o StreamItemsFor(e).frames, StreamItemsFor(e).emit)
<1>0. emit.text \in Nat /\ emit.tool \in Nat /\ emit.runs \in Nat /\ "" \in Words
  BY DEF EmitState, Words
<1>1. CASE e.kind = "text"
  <2>0. e.text \in Words
    BY <1>1, SMT DEF TurnEvent, StreamEvent, Complete
  <2>1. CASE emit.text = 0
    <3> DEFINE n == emit.runs + 1
               new == [emit EXCEPT !.runs = @ + 1, !.text = emit.runs + 1]
               a == Frame("start", TextItem(n), "")
               b == Frame("delta", TextItem(n), e.text)
    <3>1. n \in Nat /\ new \in EmitState /\ new.text = n /\ new.tool = emit.tool
      <4>1. n \in Nat
        <5>1. \A r \in Nat : r + 1 \in Nat
          OBVIOUS
        <5> QED
          BY <1>0, <5>1, Zenon
      <4>2. new = [emit EXCEPT !.runs = n, !.text = n]
        BY Zenon
      <4> HIDE DEF n, new
      <4> QED
        BY <1>0, <4>1, <4>2 DEF EmitState
    <3>2. TextItem(n) \in Items
      BY <3>1 DEF TextItem, Items
    <3>3. StreamItemsFor(e).frames = <<a, b>> /\ StreamItemsFor(e).emit = new
      BY <1>1, <2>1 DEF StreamItemsFor
    <3> HIDE DEF n, new
    <3>4. Append(items, a) \in Seq(ItemFrame) /\ NestOf(Append(items, a), new)
          /\ Opened(Append(items, a), TextItem(n))
      BY <3>1, NestText, Zenon DEF NestInv
    <3>5. Append(Append(items, a), b) \in Seq(ItemFrame) /\ NestOf(Append(Append(items, a), b), new)
      BY <2>0, <3>1, <3>2, <3>4, NestDelta, Zenon
    <3> HIDE DEF a, b
    <3>6. items \o <<a, b>> = Append(Append(items, a), b)
      OBVIOUS
    <3> QED
      BY <3>1, <3>3, <3>5, <3>6, Zenon
  <2>2. CASE emit.text # 0
    <3> DEFINE x == TextItem(emit.text)
               b == Frame("delta", x, e.text)
    <3>1. x \in Items
      BY <1>0 DEF TextItem, Items
    <3>2. StreamItemsFor(e).frames = <<b>> /\ StreamItemsFor(e).emit = emit
      BY <1>1, <2>2 DEF StreamItemsFor
    <3>3. Opened(items, x)
      BY <2>2, Zenon DEF NestInv, NestOf
    <3> HIDE DEF x
    <3>4. Append(items, b) \in Seq(ItemFrame) /\ NestOf(Append(items, b), emit)
      BY <2>0, <3>1, <3>3, NestDelta, Zenon DEF NestInv
    <3> HIDE DEF b
    <3>5. items \o <<b>> = Append(items, b)
      OBVIOUS
    <3> QED
      BY <3>2, <3>4, <3>5, Zenon
  <2> QED
    BY <2>1, <2>2
<1>2. CASE e.kind = "start"
  <2> DEFINE n == e.id
             off == [emit EXCEPT !.text = 0]
             new == [emit EXCEPT !.text = 0, !.tool = e.id]
             a == Frame("stop", TextItem(emit.text), "")
             b == Frame("start", ToolItem(n), "")
  <2>0. n \in Nat
    BY <1>2, SMT DEF TurnEvent, StreamEvent, Complete
  <2>1. new \in EmitState /\ new.text = 0 /\ new.tool = n
    BY <1>0, <2>0 DEF EmitState
  <2>2. off \in EmitState /\ off.text = 0 /\ off.tool = emit.tool
    BY <1>0 DEF EmitState
  <2>3. StreamItemsFor(e).emit = new
        /\ StreamItemsFor(e).frames = (IF emit.text = 0 THEN <<>> ELSE <<a>>) \o <<b>>
    BY <1>2 DEF StreamItemsFor
  <2> HIDE DEF n, off, new
  <2>4. CASE emit.text = 0
    <3>1. Append(items, b) \in Seq(ItemFrame) /\ NestOf(Append(items, b), new)
      BY <2>0, <2>1, NestTool, Zenon DEF NestInv
    <3> HIDE DEF b
    <3>2. items \o (<<>> \o <<b>>) = Append(items, b)
      OBVIOUS
    <3> QED
      BY <2>1, <2>3, <2>4, <3>1, <3>2, Zenon
  <2>5. CASE emit.text # 0
    <3>1. Opened(items, TextItem(emit.text))
      BY <2>5, Zenon DEF NestInv, NestOf
    <3>2. Append(items, a) \in Seq(ItemFrame) /\ NestOf(Append(items, a), off)
      BY <1>0, <2>2, <3>1, NestStop, Zenon DEF NestInv
    <3>3. Append(Append(items, a), b) \in Seq(ItemFrame) /\ NestOf(Append(Append(items, a), b), new)
      BY <2>0, <2>1, <2>2, <3>2, NestTool, Zenon
    <3> HIDE DEF a, b
    <3>4. items \o (<<a>> \o <<b>>) = Append(Append(items, a), b)
      OBVIOUS
    <3> QED
      BY <2>1, <2>3, <2>5, <3>3, <3>4, Zenon
  <2> QED
    BY <2>4, <2>5
<1>3. CASE e.kind = "input" /\ emit.tool # 0
  <2> DEFINE x == ToolItem(emit.tool)
             b == Frame("delta", x, e.arg)
  <2>0. e.arg \in Words
    BY <1>3, SMT DEF TurnEvent, StreamEvent, Complete
  <2>1. x \in Items
    BY <1>0 DEF ToolItem, Items
  <2>2. StreamItemsFor(e).frames = <<b>> /\ StreamItemsFor(e).emit = emit
    BY <1>3 DEF StreamItemsFor
  <2>3. Opened(items, x)
    BY <1>3, Zenon DEF NestInv, NestOf
  <2> HIDE DEF x
  <2>4. Append(items, b) \in Seq(ItemFrame) /\ NestOf(Append(items, b), emit)
    BY <2>0, <2>1, <2>3, NestDelta, Zenon DEF NestInv
  <2> HIDE DEF b
  <2>5. items \o <<b>> = Append(items, b)
    OBVIOUS
  <2> QED
    BY <2>2, <2>4, <2>5, Zenon
<1>4. CASE e.kind \notin {"text", "start"} /\ ~ (e.kind = "input" /\ emit.tool # 0)
  <2>1. StreamItemsFor(e).frames = <<>> /\ StreamItemsFor(e).emit = emit
    BY <1>4 DEF StreamItemsFor
  <2>2. items \o <<>> = items
    OBVIOUS
  <2> QED
    BY <2>1, <2>2, Zenon DEF NestInv
<1> QED
  BY <1>1, <1>2, <1>3, <1>4

\* next_event's frames reach the client nested, and nothing else is disturbed.
LEMMA NextEventBase ==
    ASSUME BaseInv, NestInv, NextEvent
    PROVE  BaseInv' /\ NestInv'
<1> DEFINE e == Head(chan)
           s == StreamItemsFor(e)
<1>1. UNCHANGED <<format, history, source, http, said, recvd, split, seen, parsed, pend, events, running, held>>
      /\ held /\ chan # <<>> /\ chan' = Tail(chan) /\ items' = items \o s.frames /\ emit' = s.emit
      /\ result' = CASE e.kind = "complete" -> e
                     [] e.kind = "error" -> [kind |-> "ended"]
                     [] OTHER -> result
  BY DEF NextEvent, Waiting, callVars, parseVars
<1>2. chan \in Seq(TurnEvent) /\ emit \in EmitState /\ items \in Seq(ItemFrame)
      /\ result \in [kind : {"none", "ended", "cancelled"}] \cup Complete
  BY Zenon DEF BaseInv, InferenceType, EmitState
<1>3. e \in TurnEvent /\ Tail(chan) \in Seq(TurnEvent)
  BY <1>1, <1>2, HeadTailProperties
<1> HIDE DEF e
<1>4. s.emit \in EmitState /\ items \o s.frames \in Seq(ItemFrame) /\ NestOf(items \o s.frames, s.emit)
  BY <1>2, <1>3, ItemsFor, Zenon
<1>5. result' \in [kind : {"none", "ended", "cancelled"}] \cup Complete
  <2>1. CASE e.kind = "complete"
    <3>1. e \in Complete
      BY <1>3, <2>1, SMT DEF TurnEvent, StreamEvent
    <3>2. result' = e
      BY <1>1, <2>1
    <3> QED
      BY <3>1, <3>2
  <2>2. CASE e.kind # "complete"
    BY <1>1, <1>2, <2>2
  <2> QED
    BY <2>1, <2>2
<1> HIDE DEF s
<1>6. InferenceType'
  BY <1>1, <1>3, <1>4, <1>5, Zenon DEF BaseInv, InferenceType, EmitState
<1>7. Arrived'
  BY <1>1, Zenon DEF BaseInv, Arrived
<1>8. source # "none"
  BY <1>1, Zenon DEF BaseInv, InSequence
<1>9. InSequence'
  BY <1>1, <1>8, Zenon DEF BaseInv, InSequence
<1>10. NestInv'
  BY <1>1, <1>4, Zenon DEF NestInv
<1> QED
  BY <1>6, <1>7, <1>9, <1>10 DEF BaseInv

----------------------------------------------------------------------------
(* The results of a round go together *)

\* Every message with calls is followed by one with as many results.
Answered(ms) ==
    \A i \in DOMAIN ms :
        ms[i].parts[1].calls > 0 =>
            i < Len(ms) /\ ms[i + 1].role = "tool" /\ Len(ms[i + 1].parts) = ms[i].parts[1].calls

AnswersFollow == Answered(Built(history))

Results(j) == [i \in 1..j |-> ToolResult]
AskedBy(n) == [role |-> "assistant", parts |-> <<Assistant(n)>>]
ResultsOf(j) == [role |-> "tool", parts |-> Results(j)]

LEMMA MessageTypes ==
    ASSUME NEW n \in Nat
    PROVE  /\ ToolResult \in Message /\ Assistant(n) \in Message /\ User \in Message
           /\ Results(n) \in Seq(Message) /\ Len(Results(n)) = n
           /\ AskedBy(n) \in ApiMessage /\ ResultsOf(n) \in ApiMessage
           /\ AskedBy(n).role = "assistant" /\ AskedBy(n).parts[1].calls = n
           /\ ResultsOf(n).role = "tool" /\ ResultsOf(n).parts = Results(n)
           /\ (n > 0 => ResultsOf(n).parts[1].calls = 0)
<1>1. ToolResult \in Message /\ Assistant(n) \in Message /\ User \in Message
  BY DEF ToolResult, Assistant, User, Message, Roles
<1>2. ToolResult.calls = 0 /\ Assistant(n).calls = n
  BY DEF ToolResult, Assistant
<1> HIDE DEF ToolResult, Assistant
<1>3. Results(n) \in [1..n -> Message]
  BY <1>1 DEF Results
<1>4. Results(n) \in Seq(Message) /\ Len(Results(n)) = n
  BY <1>3, IsASeq, LenProperties DEF Results
<1>5. n > 0 => Results(n)[1] = ToolResult
  BY DEF Results
<1>6. <<Assistant(n)>> \in Seq(Message) /\ <<Assistant(n)>>[1] = Assistant(n)
  BY <1>1
<1>7. AskedBy(n) \in ApiMessage /\ AskedBy(n).role = "assistant" /\ AskedBy(n).parts = <<Assistant(n)>>
  BY <1>6 DEF AskedBy, ApiMessage, Roles
<1> HIDE DEF Results
<1>8. ResultsOf(n) \in ApiMessage /\ ResultsOf(n).role = "tool" /\ ResultsOf(n).parts = Results(n)
  BY <1>4 DEF ResultsOf, ApiMessage, Roles
<1> QED
  BY <1>1, <1>2, <1>4, <1>5, <1>6, <1>7, <1>8, Zenon

\* One more result.
LEMMA OneMoreResult ==
    ASSUME NEW j \in Nat, j > 0
    PROVE  Results(j) = Append(Results(j - 1), ToolResult)
<1>1. ToolResult \in Message /\ j - 1 \in Nat
  BY MessageTypes
<1> HIDE DEF ToolResult
<1>2. Results(j - 1) \in Seq(Message) /\ Len(Results(j - 1)) = j - 1
  BY <1>1, MessageTypes
<1>3. Results(j) \in Seq(Message) /\ Len(Results(j)) = j
  BY <1>1, MessageTypes
<1> DEFINE t == Append(Results(j - 1), ToolResult)
<1>4. t \in Seq(Message) /\ Len(t) = j /\ t[j] = ToolResult /\ \A i \in 1..(j - 1) : t[i] = Results(j - 1)[i]
  BY <1>1, <1>2, AppendProperties
<1>5. \A i \in 1..(j - 1) : Results(j - 1)[i] = ToolResult
  BY DEF Results
<1>6. \A i \in 1..j : Results(j)[i] = ToolResult
  BY DEF Results
<1> HIDE DEF t
<1>7. \A i \in 1..j : t[i] = ToolResult
  <2>1. \A i \in 1..j : i \in 1..(j - 1) \/ i = j
    OBVIOUS
  <2> QED
    BY <1>4, <1>5, <2>1, Zenon
<1>8. t = Results(j)
  BY <1>3, <1>4, <1>6, <1>7, SeqEqual
<1> QED
  BY <1>8 DEF t

\* The first result of a round opens a message, and the others join it.
LEMMA JoinResult ==
    ASSUME NEW out \in Seq(ApiMessage), NEW n \in Nat, NEW j \in Nat, j > 0
    PROVE  /\ AddMessage(Append(out, AskedBy(n)), ToolResult)
                = Append(Append(out, AskedBy(n)), ResultsOf(1))
           /\ AddMessage(Append(out, ResultsOf(j)), ToolResult) = Append(out, ResultsOf(j + 1))
           /\ AddMessage(out, Assistant(n)) = Append(out, AskedBy(n))
<1>1. ToolResult.role = "tool" /\ Assistant(n).role = "assistant"
  BY DEF ToolResult, Assistant
<1>2. AskedBy(n) \in ApiMessage /\ ResultsOf(j) \in ApiMessage /\ ResultsOf(j + 1) \in ApiMessage
  BY MessageTypes
<1>3. Results(1) = <<ToolResult>>
  BY DEF Results
<1>4. AddMessage(out, Assistant(n)) = Append(out, AskedBy(n))
  <2>1. Assistant(n).role # "tool"
    BY <1>1
  <2> QED
    BY <1>1, <2>1, Zenon DEF AddMessage, AskedBy
<1>5. \A d \in ApiMessage : Append(out, d) # <<>> /\ Last(Append(out, d)) = d /\ Len(Append(out, d)) = Len(out) + 1
  <2> TAKE d \in ApiMessage
  <2>1. Append(out, d) # <<>> /\ Len(Append(out, d)) = Len(out) + 1 /\ Append(out, d)[Len(out) + 1] = d
    BY AppendProperties
  <2> QED
    BY <2>1, Zenon DEF Last
<1>6. AddMessage(Append(out, AskedBy(n)), ToolResult) = Append(Append(out, AskedBy(n)), ResultsOf(1))
  <2>1. AskedBy(n).role = "assistant"
    BY MessageTypes
  <2>2. Last(Append(out, AskedBy(n))) = AskedBy(n)
    BY <1>2, <1>5, Zenon
  <2>3. Last(Append(out, AskedBy(n))).role # "tool"
    BY <2>1, <2>2
  <2>4. AddMessage(Append(out, AskedBy(n)), ToolResult)
          = Append(Append(out, AskedBy(n)), [role |-> ToolResult.role, parts |-> <<ToolResult>>])
    BY <2>3, Zenon DEF AddMessage
  <2> QED
    BY <1>1, <1>3, <2>4, Zenon DEF ResultsOf
<1>7. AddMessage(Append(out, ResultsOf(j)), ToolResult) = Append(out, ResultsOf(j + 1))
  <2> DEFINE d == ResultsOf(j)
             r == Append(out, d)
             x == [d EXCEPT !.parts = Append(@, ToolResult)]
             m == Len(out) + 1
  <2>1. d.role = "tool" /\ d.parts = Results(j) /\ d \in ApiMessage
    BY <1>2, MessageTypes
  <2>2. x = ResultsOf(j + 1)
    <3>1. Append(Results(j), ToolResult) = Results(j + 1)
      <4>1. j + 1 \in Nat /\ j + 1 > 0 /\ (j + 1) - 1 = j
        OBVIOUS
      <4> QED
        BY <4>1, OneMoreResult
    <3>2. x = [role |-> "tool", parts |-> Append(Results(j), ToolResult)]
      <4>1. d = [role |-> "tool", parts |-> Results(j)]
        BY DEF ResultsOf
      <4>2. \A a, b : [[role |-> "tool", parts |-> a] EXCEPT !.parts = b] = [role |-> "tool", parts |-> b]
        OBVIOUS
      <4>3. d.parts = Results(j)
        BY <2>1
      <4> HIDE DEF d
      <4>4. x = [d EXCEPT !.parts = Append(Results(j), ToolResult)]
        BY <4>3, Zenon
      <4> QED
        BY <4>1, <4>2, <4>4, Zenon
    <3> QED
      BY <3>1, <3>2, Zenon DEF ResultsOf
  <2>3. r # <<>> /\ Last(r) = d /\ Len(r) = m /\ r[m] = d /\ r \in Seq(ApiMessage)
    BY <1>2, <1>5, AppendProperties
  <2>4. AddMessage(r, ToolResult) = [r EXCEPT ![Len(r)].parts = Append(@, ToolResult)]
    BY <1>1, <2>1, <2>3, Zenon DEF AddMessage
  <2>5. AddMessage(r, ToolResult) = [r EXCEPT ![m] = x]
    BY <2>3, <2>4
  <2>6. x \in ApiMessage
    BY <1>2, <2>2
  <2> HIDE DEF x, d
  <2>7. [Append(out, d) EXCEPT ![m] = x] = Append(out, x)
    <3>1. Append(out, d) \in Seq(ApiMessage) /\ Append(out, x) \in Seq(ApiMessage)
          /\ Len(Append(out, d)) = m /\ Len(Append(out, x)) = m
          /\ Append(out, x)[m] = x /\ m \in 1..m
          /\ \A i \in 1..Len(out) : Append(out, x)[i] = out[i] /\ Append(out, d)[i] = out[i]
      BY <2>1, <2>6, AppendProperties, LenProperties
    <3>2. \A i \in 1..m : i = m \/ i \in 1..Len(out)
      BY LenProperties
    <3>3. [r EXCEPT ![m] = x] \in Seq(ApiMessage) /\ Len([r EXCEPT ![m] = x]) = m
      BY <2>6, <3>1, ExceptSeq
    <3>4. ASSUME NEW i \in 1..m PROVE [r EXCEPT ![m] = x][i] = Append(out, x)[i]
      <4>1. DOMAIN r = 1..m
        BY <3>1, LenProperties
      <4>2. CASE i = m
        BY <3>1, <4>1, <4>2
      <4>3. CASE i # m
        <5>1. [r EXCEPT ![m] = x][i] = r[i]
          BY <4>1, <4>3
        <5> QED
          BY <3>1, <3>2, <4>3, <5>1, Zenon
      <4> QED
        BY <4>2, <4>3
    <3> QED
      BY <3>1, <3>3, <3>4, SeqEqual
  <2> QED
    BY <2>2, <2>5, <2>7, Zenon DEF d
<1> QED
  BY <1>4, <1>6, <1>7, Zenon

\* What a round adds to the request: the calls, and one message of all results.
LEMMA RoundBuilt ==
    ASSUME NEW h \in Seq(Message), NEW n \in Nat, n > 0
    PROVE  Built(Append(h, Assistant(n)) \o Results(n))
             = Append(Append(Built(h), AskedBy(n)), ResultsOf(n))
<1> DEFINE q == Append(h, Assistant(n))
           out == Built(h)
           asked == Append(out, AskedBy(n))
           Good(j) == Built(q \o Results(j)) = IF j = 0 THEN asked ELSE Append(asked, ResultsOf(j))
           P == {j \in 0..n : Good(j)}
<1>1. Assistant(n) \in Message /\ ToolResult \in Message /\ AskedBy(n) \in ApiMessage
  BY MessageTypes
<1>2. out \in Seq(ApiMessage)
  BY BuildType, Zenon
<1>3. q \in Seq(Message) /\ Built(q) = asked
  <2>1. Built(q) = AddMessage(out, Assistant(n))
    BY <1>1, BuildNext, Zenon
  <2>2. AddMessage(out, Assistant(n)) = Append(out, AskedBy(n))
    <3>1. 1 \in Nat /\ 1 > 0
      OBVIOUS
    <3> HIDE DEF out
    <3> QED
      BY <1>2, <3>1, JoinResult, Zenon
  <2>3. q \in Seq(Message)
    BY <1>1, AppendProperties
  <2> QED
    BY <2>1, <2>2, <2>3, Zenon
<1>4. asked \in Seq(ApiMessage)
  <2> HIDE DEF out
  <2> QED
    BY <1>1, <1>2, AppendProperties
<1> HIDE DEF q
<1>5. Good(0)
  <2>1. Results(0) = <<>>
    BY DEF Results
  <2>2. q \o <<>> = q
    BY <1>3
  <2> QED
    BY <1>3, <2>1, <2>2, Zenon
<1>6. ASSUME NEW j \in 1..n, Good(j - 1) PROVE Good(j)
  <2> DEFINE i == j - 1
  <2>1. i \in Nat /\ j \in Nat /\ j > 0 /\ i + 1 = j /\ j # 0
    OBVIOUS
  <2>2. Results(i) \in Seq(Message)
    BY <2>1, MessageTypes, Zenon
  <2>3. Results(j) = Append(Results(i), ToolResult)
    BY <2>1, OneMoreResult, Zenon
  <2>4. Built(q \o Results(i)) = IF i = 0 THEN asked ELSE Append(asked, ResultsOf(i))
    BY <1>6, Zenon
  <2> HIDE DEF i, asked
  <2>5. q \o Results(i) \in Seq(Message) /\ q \o Results(j) = Append(q \o Results(i), ToolResult)
    <3> DEFINE u == Results(i)
    <3>1. u \in Seq(Message)
      BY <2>2
    <3> HIDE DEF u, ToolResult
    <3>2. q \o u \in Seq(Message) /\ q \o Append(u, ToolResult) = Append(q \o u, ToolResult)
      BY <1>1, <1>3, <3>1
    <3> QED
      BY <2>3, <3>2, Zenon DEF u
  <2>6. Built(q \o Results(j)) = AddMessage(Built(q \o Results(i)), ToolResult)
    BY <1>1, <2>5, BuildNext, Zenon
  <2>7. CASE i = 0
    <3>1. j = 1
      BY <2>1, <2>7
    <3>2. AddMessage(asked, ToolResult) = Append(asked, ResultsOf(1))
      <4>1. 1 \in Nat /\ 1 > 0
        OBVIOUS
      <4> HIDE DEF out
      <4> QED
        BY <1>2, <4>1, JoinResult, Zenon DEF asked
    <3> QED
      BY <2>1, <2>4, <2>6, <2>7, <3>1, <3>2, Zenon
  <2>8. CASE i # 0
    <3>1. i > 0
      BY <2>1, <2>8
    <3>2. AddMessage(Append(asked, ResultsOf(i)), ToolResult) = Append(asked, ResultsOf(i + 1))
      BY <1>4, <2>1, <3>1, JoinResult, Zenon
    <3> QED
      BY <2>1, <2>4, <2>6, <2>8, <3>2, Zenon
  <2> QED
    BY <2>7, <2>8
<1> HIDE DEF Good
<1>7. 0 \in P /\ \A j \in 1..n : j - 1 \in P => j \in P
  BY <1>5, <1>6
<1> HIDE DEF P
<1>8. \A j \in 0..n : j \in P
  BY <1>7, Upward
<1>9. Good(n) /\ n # 0
  BY <1>8 DEF P
<1> QED
  BY <1>9, Zenon DEF Good, q, asked, out

LEMMA RoundAnswered ==
    ASSUME NEW out \in Seq(ApiMessage), NEW n \in Nat, n > 0, Answered(out)
    PROVE  Answered(Append(Append(out, AskedBy(n)), ResultsOf(n)))
<1> DEFINE a == AskedBy(n)
           r == ResultsOf(n)
           ms == Append(Append(out, a), r)
           m == Len(out)
<1>1. a \in ApiMessage /\ r \in ApiMessage /\ a.parts[1].calls = n /\ r.role = "tool" /\ Len(r.parts) = n
      /\ r.parts[1].calls = 0
  <2>1. Len(Results(n)) = n /\ r.parts = Results(n)
    BY MessageTypes, Zenon
  <2> QED
    BY <2>1, MessageTypes, Zenon
<1> HIDE DEF a, r
<1>2. m \in Nat /\ Len(ms) = m + 2 /\ DOMAIN ms = 1..(m + 2) /\ DOMAIN out = 1..m /\ ms[m + 1] = a /\ ms[m + 2] = r
      /\ \A i \in 1..m : ms[i] = out[i]
  BY <1>1, AppendProperties, LenProperties
<1> HIDE DEF ms, m
<1> SUFFICES ASSUME NEW i \in 1..(m + 2), ms[i].parts[1].calls > 0
             PROVE  i < m + 2 /\ ms[i + 1].role = "tool" /\ Len(ms[i + 1].parts) = ms[i].parts[1].calls
  BY <1>2, Zenon DEF Answered, ms, a, r
<1>3. CASE i \in 1..m
  <2>1. ms[i] = out[i]
    BY <1>2, <1>3
  <2>2. i < Len(out) /\ out[i + 1].role = "tool" /\ Len(out[i + 1].parts) = out[i].parts[1].calls
    BY <1>2, <1>3, <2>1, Zenon DEF Answered
  <2>3. i < m
    BY <2>2 DEF m
  <2>4. i + 1 \in 1..m /\ i < m + 2
    BY <1>2, <1>3, <2>3
  <2>5. ms[i + 1] = out[i + 1]
    BY <1>2, <2>4, Zenon
  <2> QED
    BY <2>1, <2>2, <2>4, <2>5, Zenon
<1>4. CASE i = m + 1
  <2>1. ms[i] = a /\ i + 1 = m + 2 /\ i < m + 2
    BY <1>2, <1>4
  <2> QED
    BY <1>1, <1>2, <2>1, Zenon
<1>5. CASE i = m + 2
  <2>1. ms[i] = r
    BY <1>2, <1>5
  <2>2. ~ (0 > 0)
    OBVIOUS
  <2> QED
    BY <1>1, <2>1, <2>2, Zenon
<1>6. i \in 1..m \/ i = m + 1 \/ i = m + 2
  BY <1>2
<1> QED
  BY <1>3, <1>4, <1>5, <1>6

LEMMA NextRoundBase ==
    ASSUME BaseInv, AnswersFollow, NextRound
    PROVE  BaseInv' /\ AnswersFollow'
<1> DEFINE n == Len(result.calls)
<1>1. /\ ~held /\ ~running /\ result.kind = "complete" /\ result.calls # <<>>
      /\ history' = history \o <<Assistant(n)>> \o [i \in DOMAIN result.calls |-> ToolResult]
      /\ source' = "none" /\ http' = "none" /\ said' = <<>> /\ recvd' = 0 /\ seen' = {}
      /\ parsed' = 0 /\ pend' = <<>> /\ events' = <<>> /\ result' = NoResult
      /\ UNCHANGED <<format, running, chan, held, emit, items>>
  BY DEF NextRound
<1>2. /\ format \in DOMAIN Answers /\ history \in Seq(Message) /\ chan \in Seq(TurnEvent)
      /\ emit \in [text : Nat, tool : Nat, runs : Nat] /\ items \in Seq(ItemFrame)
      /\ result \in [kind : {"none", "ended", "cancelled"}] \cup Complete
  BY Zenon DEF BaseInv, InferenceType
<1>3. result.calls \in Seq(ToolCall)
  BY <1>1, <1>2, SMT DEF Complete
<1>4. n \in Nat /\ n > 0 /\ DOMAIN result.calls = 1..n
  BY <1>1, <1>3, LenProperties, EmptySeq
<1> HIDE DEF n
<1>5. Assistant(n) \in Message /\ Results(n) \in Seq(Message)
  BY <1>4, MessageTypes, Zenon
<1>6. history' = Append(history, Assistant(n)) \o Results(n)
  <2>1. history \o <<Assistant(n)>> = Append(history, Assistant(n))
    BY <1>2, <1>5, AppendIsConcat
  <2> QED
    BY <1>1, <1>4, <2>1, Zenon DEF Results
<1>7. history' \in Seq(Message)
  <2>1. Append(history, Assistant(n)) \in Seq(Message)
    BY <1>2, <1>5, AppendProperties
  <2> QED
    BY <1>5, <1>6, <2>1, ConcatProperties
<1>8. AnswersFollow'
  <2>1. Built(history') = Append(Append(Built(history), AskedBy(n)), ResultsOf(n))
    BY <1>2, <1>4, <1>6, RoundBuilt, Zenon
  <2>2. Built(history) \in Seq(ApiMessage)
    BY <1>2, BuildType, Zenon
  <2>3. Answered(Built(history'))
    BY <1>4, <2>1, <2>2, RoundAnswered, Zenon DEF AnswersFollow
  <2> QED
    BY <2>3, Zenon DEF AnswersFollow
<1>9. result' \in [kind : {"none", "ended", "cancelled"}] /\ result'.kind = "none"
  BY <1>1 DEF NoResult
<1>10. InferenceType'
  <2>1. said' \in Seq(SseEvent) /\ recvd' \in Nat /\ parsed' \in Nat /\ pend' \in Seq(StreamEvent)
        /\ events' \in Seq(StreamEvent)
    BY <1>1
  <2>2. result' \in [kind : {"none", "ended", "cancelled"}] \cup Complete
    BY <1>9
  <2> QED
    BY <1>1, <1>2, <1>7, <2>1, <2>2, Zenon DEF InferenceType
<1>11. Arrived'
  BY <1>1 DEF Arrived
<1>12. InSequence'
  BY <1>1, <1>9, Zenon DEF BaseInv, InSequence
<1> QED
  BY <1>8, <1>10, <1>11, <1>12 DEF BaseInv

----------------------------------------------------------------------------
(* The first three parts together *)

ShownInv == BaseInv /\ NestInv /\ AnswersFollow

LEMMA InitShown == ASSUME InferenceInit PROVE ShownInv
<1>1. BaseInv
  BY InitBase
<1>2. NestInv
  <2>1. items = <<>> /\ emit = [text |-> 0, tool |-> 0, runs |-> 0]
    BY DEF InferenceInit
  <2>2. DOMAIN items = {} /\ emit.text = 0 /\ emit.tool = 0
    BY <2>1
  <2> QED
    BY <2>2, Zenon DEF NestInv, NestOf, Nested, OnlyTextStops
<1>3. AnswersFollow
  <2>1. history = Append(<<>>, User) /\ <<>> \in Seq(Message) /\ User \in Message
    <3>1. 0 \in Nat
      OBVIOUS
    <3>2. User \in Message
      BY <3>1, MessageTypes, Zenon
    <3> HIDE DEF User
    <3> QED
      BY <3>2 DEF InferenceInit
  <2>2. Built(history) = AddMessage(<<>>, User)
    BY <2>1, BuildNext, BuildType, Zenon
  <2>3. AddMessage(<<>>, User) = Append(<<>>, [role |-> "user", parts |-> <<User>>])
    BY DEF AddMessage, User
  <2> DEFINE d == [role |-> "user", parts |-> <<User>>]
  <2>4. d.parts[1].calls = 0
    BY DEF User
  <2> HIDE DEF d
  <2>5. \A i \in DOMAIN Append(<<>>, d) : Append(<<>>, d)[i] = d
    OBVIOUS
  <2>6. ~ (0 > 0)
    OBVIOUS
  <2>7. Built(history) = Append(<<>>, d)
    BY <2>2, <2>3, Zenon DEF d
  <2> QED
    BY <2>4, <2>5, <2>6, <2>7, Zenon DEF AnswersFollow, Answered
<1> QED
  BY <1>1, <1>2, <1>3 DEF ShownInv

LEMMA NestUnchanged == ASSUME NestInv, UNCHANGED <<emit, items>> PROVE NestInv'
<1>1. emit' = emit /\ items' = items
  OBVIOUS
<1> QED
  BY <1>1, Zenon DEF NestInv

LEMMA AnswersUnchanged == ASSUME AnswersFollow, UNCHANGED history PROVE AnswersFollow'
BY Zenon DEF AnswersFollow

LEMMA StepShown == ASSUME ShownInv, [InferenceNext]_inferenceVars PROVE ShownInv'
<1>0. BaseInv /\ NestInv /\ AnswersFollow
  BY DEF ShownInv
<1>1. CASE OpenError \/ OpenSource("local") \/ OpenSource("pod")
  <2>1. UNCHANGED <<emit, items, history>>
    BY <1>1 DEF OpenError, OpenSource
  <2> QED
    BY <1>0, <1>1, <2>1, OpenBase, NestUnchanged, AnswersUnchanged DEF ShownInv
<1>2. CASE Provider
  <2>1. CASE \E a \in Answers[format] : CallProvider(a)
    <3>1. PICK a \in Answers[format] : CallProvider(a)
      BY <2>1
    <3>2. UNCHANGED <<emit, items, history>>
      BY <3>1 DEF CallProvider, turnVars
    <3>3. BaseInv'
      BY <1>0, <3>1, CallProviderBase, Zenon
    <3> QED
      BY <1>0, <3>2, <3>3, NestUnchanged, AnswersUnchanged DEF ShownInv
  <2>2. CASE CallFails \/ ProviderEnds \/ \E n \in 1..(2 * Len(said)) : Chunk(n)
    <3>1. UNCHANGED <<emit, items, history>>
      BY <2>2 DEF CallFails, ProviderEnds, Chunk, turnVars
    <3>2. BaseInv'
      BY <1>0, <2>2, ProviderBase, Zenon
    <3> QED
      BY <1>0, <3>1, <3>2, NestUnchanged, AnswersUnchanged DEF ShownInv
  <2> QED
    BY <1>2, <2>1, <2>2, Zenon DEF Provider
<1>3. CASE Source
  <2>1. UNCHANGED <<emit, items, history>>
    BY <1>3 DEF Source, ParseNext, SourceStep, SourceFails, turnVars, callVars
  <2>2. BaseInv'
    BY <1>0, <1>3, ParseBase, SourceStepBase, SourceFailsBase, Zenon DEF Source
  <2> QED
    BY <1>0, <2>1, <2>2, NestUnchanged, AnswersUnchanged DEF ShownInv
<1>4. CASE NextEvent
  <2>1. UNCHANGED history
    BY <1>4 DEF NextEvent, callVars
  <2> QED
    BY <1>0, <1>4, <2>1, NextEventBase, AnswersUnchanged DEF ShownInv
<1>5. CASE StreamEndsEarly \/ IdleTimeout \/ StreamCancelled \/ CancelTurn
  <2>1. BaseInv' /\ UNCHANGED <<callVars, parseVars, chan, held, emit, items>>
    BY <1>0, <1>5, TurnBase, Zenon
  <2>2. UNCHANGED <<emit, items, history>>
    BY <2>1 DEF callVars
  <2> QED
    BY <1>0, <2>1, <2>2, NestUnchanged, AnswersUnchanged DEF ShownInv
<1>6. CASE DropSource
  <2>1. UNCHANGED <<emit, items, history>>
    BY <1>6 DEF DropSource, callVars
  <2> QED
    BY <1>0, <1>6, <2>1, DropSourceBase, NestUnchanged, AnswersUnchanged DEF ShownInv
<1>7. CASE PodLost
  <2>1. UNCHANGED <<emit, items, history>>
    BY <1>7 DEF PodLost, callVars, turnVars
  <2>2. BaseInv'
    BY <1>0, <1>7, PodLostBase, Zenon
  <2> QED
    BY <1>0, <2>1, <2>2, NestUnchanged, AnswersUnchanged DEF ShownInv
<1>8. CASE NextRound
  <2>1. UNCHANGED <<emit, items>>
    BY <1>8 DEF NextRound
  <2> QED
    BY <1>0, <1>8, <2>1, NextRoundBase, NestUnchanged DEF ShownInv
<1>9. CASE UNCHANGED inferenceVars
  <2>1. UNCHANGED <<format, history, source, http, said, recvd, seen, parsed, pend, events, running, chan,
                    held, emit, items, result>>
    BY <1>9 DEF inferenceVars
  <2>2. BaseInv'
    BY <1>0, <2>1, Zenon DEF BaseInv, InferenceType, Arrived, InSequence
  <2> QED
    BY <1>0, <2>1, <2>2, NestUnchanged, AnswersUnchanged DEF ShownInv
<1> QED
  BY <1>1, <1>2, <1>3, <1>4, <1>5, <1>6, <1>7, <1>8, <1>9, Zenon DEF InferenceNext, Turn

LEMMA ShownAlways == InferenceSpec => []ShownInv
BY InitShown, StepShown, PTL DEF InferenceSpec

\* Over all the rounds of a turn every frame that stream_items_for makes is of
\* an item started before and not stopped, and no text run stays open beside a
\* tool call.
THEOREM ItemsStayNested == InferenceSpec => []ItemsNest
<1>1. ASSUME ShownInv PROVE ItemsNest
  BY <1>1, Zenon DEF ShownInv, NestInv, NestOf, Nested, ItemsNest
<1> QED
  BY <1>1, ShownAlways, PTL

\* build_api_messages sends Anthropic the results of a round in one message,
\* right after the calls they answer, however many rounds and calls there are.
THEOREM ResultsInOneMessage == InferenceSpec => []ResultsTogether
<1>1. ASSUME ShownInv PROVE ResultsTogether
  <2>1. CASE format = "anthropic"
    <3>1. BuildApiMessages(history) = Built(history)
      <4>1. format # "openai"
        BY <2>1
      <4> QED
        BY <4>1, Zenon DEF BuildApiMessages, Built
    <3> QED
      BY <1>1, <3>1, Zenon DEF ShownInv, AnswersFollow, Answered, ResultsTogether
  <2>2. CASE format # "anthropic"
    BY <2>2, Zenon DEF ResultsTogether
  <2> QED
    BY <2>1, <2>2
<1> QED
  BY <1>1, ShownAlways, PTL

----------------------------------------------------------------------------
(* What the answer says, up to an event *)

Speaking(s) == {k \in DOMAIN s : s[k].text # ""}
SpeechAt(s) == [k \in Speaking(s) |-> s[k].text]
SpokenTo(s, n) == Picked(SpeechAt(s), Speaking(s), n)

Mine(s, i) == {k \in DOMAIN s : s[k].call.index = i /\ s[k].call.arg # ""}
ArgAt(s, i) == [k \in Mine(s, i) |-> s[k].call.arg]
FragmentsTo(s, i, n) == Picked(ArgAt(s, i), Mine(s, i), n)

LEMMA SseTypes ==
    ASSUME NEW s \in Seq(SseEvent), NEW k \in DOMAIN s
    PROVE  /\ s[k].text \in Words /\ s[k].call.arg \in Words /\ s[k].call.index \in Nat
           /\ s[k].finish \in Words /\ s[k].think \in BOOLEAN
<1>1. s[k] \in SseEvent
  BY ElementOfSeq, LenProperties
<1>2. s[k].think \in BOOLEAN
  BY <1>1, Zenon DEF SseEvent
<1> QED
  BY <1>1, <1>2 DEF SseEvent, Words

LEMMA SpokenFirst ==
    ASSUME NEW s \in Seq(SseEvent)
    PROVE  /\ \A k \in Speaking(s) : SpeechAt(s)[k] \in Words
           /\ SpokenTo(s, 0) = <<>>
           /\ \A n \in Nat : SpokenTo(s, n) \in Seq(Words)
<1>1. \A k \in Speaking(s) : SpeechAt(s)[k] \in Words
  BY SseTypes, Zenon DEF Speaking, SpeechAt
<1>2. 0 \in Nat
  OBVIOUS
<1> QED
  BY <1>1, <1>2, PickedType, Zenon DEF SpokenTo

LEMMA SpokenNext ==
    ASSUME NEW s \in Seq(SseEvent), NEW k \in DOMAIN s
    PROVE  SpokenTo(s, k) = IF s[k].text # "" THEN Append(SpokenTo(s, k - 1), s[k].text)
                            ELSE SpokenTo(s, k - 1)
<1>1. k \in Nat /\ k > 0
  BY LenProperties
<1>2. \A i \in Speaking(s) : SpeechAt(s)[i] \in Words
  BY SpokenFirst, Zenon
<1>3. SpokenTo(s, k) = IF k \in Speaking(s) THEN Append(SpokenTo(s, k - 1), SpeechAt(s)[k])
                       ELSE SpokenTo(s, k - 1)
  <2> DEFINE K == Speaking(s)
             v == SpeechAt(s)
  <2>1. \A i \in K : v[i] \in Words
    BY <1>2
  <2> HIDE DEF K, v
  <2>2. Picked(v, K, k) = IF k \in K THEN Append(Picked(v, K, k - 1), v[k]) ELSE Picked(v, K, k - 1)
    BY <1>1, <2>1, PickedNext
  <2> QED
    BY <2>2, Zenon DEF SpokenTo, K, v
<1>4. (k \in Speaking(s) <=> s[k].text # "") /\ (k \in Speaking(s) => SpeechAt(s)[k] = s[k].text)
  BY Zenon DEF Speaking, SpeechAt
<1> QED
  BY <1>3, <1>4, Zenon

LEMMA FragmentsNone ==
    ASSUME NEW s \in Seq(SseEvent), NEW x, NEW n \in Nat, \A i \in 1..n : s[i].call.index # x
    PROVE  FragmentsTo(s, x, n) = <<>>
<1>1. \A k \in Mine(s, x) : ArgAt(s, x)[k] \in Words
  BY SseTypes, Zenon DEF Mine, ArgAt
<1>2. \A i \in 1..n : i \notin Mine(s, x)
  BY Zenon DEF Mine
<1> QED
  BY <1>1, <1>2, PickedNone, Zenon DEF FragmentsTo

LEMMA FragmentsNext ==
    ASSUME NEW s \in Seq(SseEvent), NEW k \in DOMAIN s, NEW x
    PROVE  FragmentsTo(s, x, k) =
             IF s[k].call.index = x /\ s[k].call.arg # "" THEN Append(FragmentsTo(s, x, k - 1), s[k].call.arg)
             ELSE FragmentsTo(s, x, k - 1)
<1>1. k \in Nat /\ k > 0
  BY LenProperties
<1>2. \A i \in Mine(s, x) : ArgAt(s, x)[i] \in Words
  BY SseTypes, Zenon DEF Mine, ArgAt
<1>3. FragmentsTo(s, x, k) = IF k \in Mine(s, x) THEN Append(FragmentsTo(s, x, k - 1), ArgAt(s, x)[k])
                             ELSE FragmentsTo(s, x, k - 1)
  <2> DEFINE K == Mine(s, x)
             v == ArgAt(s, x)
  <2>1. \A i \in K : v[i] \in Words
    BY <1>2
  <2> HIDE DEF K, v
  <2>2. Picked(v, K, k) = IF k \in K THEN Append(Picked(v, K, k - 1), v[k]) ELSE Picked(v, K, k - 1)
    BY <1>1, <2>1, PickedNext
  <2> QED
    BY <2>2, Zenon DEF FragmentsTo, K, v
<1>4. (k \in Mine(s, x) <=> s[k].call.index = x /\ s[k].call.arg # "")
      /\ (k \in Mine(s, x) => ArgAt(s, x)[k] = s[k].call.arg)
  BY Zenon DEF Mine, ArgAt
<1> QED
  BY <1>3, <1>4, Zenon

----------------------------------------------------------------------------
(* What the parser makes of one event *)

NoDone(evs) == \A i \in DOMAIN evs : evs[i].kind # "done"

LEMMA OptAdded ==
    ASSUME NEW evs \in Seq(StreamEvent), NEW b \in BOOLEAN, NEW e \in StreamEvent
    PROVE  /\ evs \o Opt(b, e) \in Seq(StreamEvent)
           /\ CollectText(evs \o Opt(b, e))
                = IF b /\ e.kind = "text" THEN Append(CollectText(evs), e.text) ELSE CollectText(evs)
           /\ CollectToolCalls(evs \o Opt(b, e))
                = IF b THEN AddEvent(CollectToolCalls(evs), e) ELSE CollectToolCalls(evs)
           /\ NoDone(evs) /\ e.kind # "done" => NoDone(evs \o Opt(b, e))
           /\ NoDone(evs) => \A i \in DOMAIN (evs \o Opt(b, e)) :
                (evs \o Opt(b, e))[i].kind = "done" => b /\ i = Len(evs \o Opt(b, e))
<1>1. CASE b
  <2>1. evs \o Opt(b, e) = Append(evs, e)
    BY <1>1, AppendIsConcat DEF Opt
  <2> DEFINE t == Append(evs, e)
             n == Len(evs)
  <2>2. n \in Nat /\ DOMAIN evs = 1..n /\ DOMAIN t = 1..(n + 1) /\ t[n + 1] = e
        /\ (\A i \in 1..n : t[i] = evs[i]) /\ t \in Seq(StreamEvent)
    BY Appended
  <2>3. Len(t) = n + 1
    BY AppendProperties
  <2>4. CollectText(t) = IF e.kind = "text" THEN Append(CollectText(evs), e.text) ELSE CollectText(evs)
    BY CollectTextNext, Zenon
  <2>5. CollectToolCalls(t) = AddEvent(CollectToolCalls(evs), e)
    BY CollectNext, Zenon
  <2> HIDE DEF t, n
  <2>6. \A k \in 1..(n + 1) : k \in 1..n \/ k = n + 1
    BY <2>2, LastIndex, Zenon
  <2>7. NoDone(evs) /\ e.kind # "done" => NoDone(t)
    BY <2>2, <2>6, Zenon DEF NoDone
  <2>8. NoDone(evs) => \A i \in DOMAIN t : t[i].kind = "done" => i = Len(t)
    BY <2>2, <2>3, <2>6, Zenon DEF NoDone
  <2>9. evs \o Opt(b, e) = t
    BY <2>1 DEF t
  <2> HIDE DEF Opt
  <2> QED
    BY <1>1, <2>2, <2>4, <2>5, <2>7, <2>8, <2>9, Zenon
<1>2. CASE ~b
  <2>1. evs \o Opt(b, e) = evs
    BY <1>2 DEF Opt
  <2> QED
    BY <1>2, <2>1, Zenon DEF NoDone
<1> QED
  BY <1>1, <1>2

\* Concatenation is associative.
Regroups(x, y, z) == x \o (y \o z) = (x \o y) \o z

LEMMA Regroup ==
    ASSUME NEW S, NEW x \in Seq(S), NEW y \in Seq(S), NEW z \in Seq(S) PROVE Regroups(x, y, z)
BY ConcatAssociative DEF Regroups

RegroupsFive(s, a, b, c, d, e) ==
    s \o (a \o b \o (c \o d) \o e) = ((((s \o a) \o b) \o c) \o d) \o e

LEMMA Regrouped ==
    ASSUME NEW S, NEW s \in Seq(S), NEW a \in Seq(S), NEW b \in Seq(S), NEW c \in Seq(S), NEW d \in Seq(S),
           NEW e \in Seq(S)
    PROVE  RegroupsFive(s, a, b, c, d, e)
<1> DEFINE ab == a \o b
           cd == c \o d
           u == ab \o cd
           r == s \o ab
<1>1. ab \in Seq(S) /\ cd \in Seq(S)
  BY ConcatProperties
<1>2. Regroups(s, a, b)
  BY Regroup, Zenon
<1> HIDE DEF ab, cd
<1>3. r \in Seq(S) /\ u \in Seq(S)
  BY <1>1, ConcatProperties
<1> HIDE DEF r, u
<1>4. Regroups(r, c, d) /\ Regroups(s, ab, cd) /\ Regroups(s, u, e)
  BY <1>1, <1>3, Regroup, Zenon
<1>5. s \o (u \o e) = ((((s \o a) \o b) \o c) \o d) \o e
  BY <1>2, <1>4, Zenon DEF Regroups, u, r, ab, cd
<1> QED
  BY <1>5, Zenon DEF RegroupsFive, u, ab, cd

\* The calls after a call starts, or not, and gets a fragment, or not.
Started(cs, b, i) == IF b THEN Append(cs, [id |-> i, args |-> <<>>]) ELSE cs
Extended(cs, b, x) == IF b /\ cs # <<>> THEN [cs EXCEPT ![Len(cs)].args = Append(@, x)] ELSE cs

\* Up to five events, each there or not.
Five(b1, b2, b3, b4, b5, w, x, a, d) ==
    Opt(b1, [kind |-> "text", text |-> w]) \o Opt(b2, [kind |-> "think"])
      \o (Opt(b3, [kind |-> "start", id |-> x]) \o Opt(b4, [kind |-> "input", arg |-> a]))
      \o Opt(b5, [kind |-> "done", stop |-> d])

\* What a sequence makes of the text and the calls of one before it.
Makes(made, evs, b1, b3, b4, b5, w, x, a) ==
    /\ made \in Seq(StreamEvent)
    /\ CollectText(made) = IF b1 THEN Append(CollectText(evs), w) ELSE CollectText(evs)
    /\ CollectToolCalls(made) = Extended(Started(CollectToolCalls(evs), b3, x), b4, a)
    /\ \A i \in DOMAIN made : made[i].kind = "done" => b5 /\ i = Len(made)

\* The five events follow others, none of which says that the answer is over.
MadeOf(made, evs, b1, b2, b3, b4, b5, w, x, a, d) ==
    /\ evs \in Seq(StreamEvent) /\ NoDone(evs) /\ w \in Words /\ x \in Nat /\ a \in Words /\ d \in Words
    /\ b1 \in BOOLEAN /\ b2 \in BOOLEAN /\ b3 \in BOOLEAN /\ b4 \in BOOLEAN /\ b5 \in BOOLEAN
    /\ made = evs \o Five(b1, b2, b3, b4, b5, w, x, a, d)

LEMMA FiveAdded ==
    ASSUME NEW made, NEW evs, NEW b1, NEW b2, NEW b3, NEW b4, NEW b5, NEW w, NEW x, NEW a, NEW d,
           MadeOf(made, evs, b1, b2, b3, b4, b5, w, x, a, d)
    PROVE  Makes(made, evs, b1, b3, b4, b5, w, x, a)
<1>0. /\ evs \in Seq(StreamEvent) /\ NoDone(evs) /\ w \in Words /\ x \in Nat /\ a \in Words /\ d \in Words
      /\ b1 \in BOOLEAN /\ b2 \in BOOLEAN /\ b3 \in BOOLEAN /\ b4 \in BOOLEAN /\ b5 \in BOOLEAN
      /\ made = evs \o Five(b1, b2, b3, b4, b5, w, x, a, d)
  BY Zenon DEF MadeOf
<1> USE <1>0
<1> DEFINE e1 == [kind |-> "text", text |-> w]
           e2 == [kind |-> "think"]
           e3 == [kind |-> "start", id |-> x]
           e4 == [kind |-> "input", arg |-> a]
           e5 == [kind |-> "done", stop |-> d]
           m1 == evs \o Opt(b1, e1)
           m2 == m1 \o Opt(b2, e2)
           m3 == m2 \o Opt(b3, e3)
           m4 == m3 \o Opt(b4, e4)
           m5 == m4 \o Opt(b5, e5)
<1>1. e1 \in StreamEvent /\ e2 \in StreamEvent /\ e3 \in StreamEvent /\ e4 \in StreamEvent /\ e5 \in StreamEvent
  BY DEF StreamEvent
<1>2. /\ e1.kind = "text" /\ e1.text = w /\ e1.kind # "done"
      /\ e2.kind # "text" /\ e2.kind # "start" /\ e2.kind # "input" /\ e2.kind # "done"
      /\ e3.kind = "start" /\ e3.kind # "text" /\ e3.kind # "done" /\ e3.id = x
      /\ e4.kind = "input" /\ e4.kind # "text" /\ e4.kind # "start" /\ e4.kind # "done" /\ e4.arg = a
      /\ e5.kind # "text" /\ e5.kind # "start" /\ e5.kind # "input"
      /\ e1.kind # "start" /\ e1.kind # "input"
  OBVIOUS
<1> HIDE DEF e1, e2, e3, e4, e5
<1>3. \A cs : /\ AddEvent(cs, e1) = cs /\ AddEvent(cs, e2) = cs /\ AddEvent(cs, e5) = cs
              /\ AddEvent(cs, e3) = Append(cs, [id |-> x, args |-> <<>>])
              /\ AddEvent(cs, e4) = Extended(cs, TRUE, a)
  <2> TAKE cs
  <2>1. AddEvent(cs, e1) = cs /\ AddEvent(cs, e2) = cs /\ AddEvent(cs, e5) = cs
    BY <1>2, Zenon DEF AddEvent
  <2>2. AddEvent(cs, e3) = Append(cs, [id |-> x, args |-> <<>>])
    BY <1>2, Zenon DEF AddEvent
  <2>3. AddEvent(cs, e4) = IF cs # <<>> THEN [cs EXCEPT ![Len(cs)].args = Append(@, e4.arg)] ELSE cs
    BY <1>2, Zenon DEF AddEvent
  <2>4. e4.arg = a
    BY <1>2
  <2>5. AddEvent(cs, e4) = Extended(cs, TRUE, a)
    BY <2>3, <2>4, Zenon DEF Extended
  <2> QED
    BY <2>1, <2>2, <2>5, Zenon
<1>4. /\ m1 \in Seq(StreamEvent) /\ NoDone(m1)
      /\ CollectText(m1) = IF b1 THEN Append(CollectText(evs), w) ELSE CollectText(evs)
      /\ CollectToolCalls(m1) = CollectToolCalls(evs)
  BY <1>1, <1>2, <1>3, OptAdded, Zenon
<1> HIDE DEF m1
<1>5. m2 \in Seq(StreamEvent) /\ NoDone(m2) /\ CollectText(m2) = CollectText(m1)
      /\ CollectToolCalls(m2) = CollectToolCalls(evs)
  <2>1. m2 \in Seq(StreamEvent) /\ NoDone(m2) /\ CollectText(m2) = CollectText(m1)
        /\ CollectToolCalls(m2) = IF b2 THEN AddEvent(CollectToolCalls(m1), e2) ELSE CollectToolCalls(m1)
    BY <1>1, <1>2, <1>4, OptAdded, Zenon
  <2> QED
    BY <1>3, <1>4, <2>1, Zenon
<1> HIDE DEF m2
<1>6. m3 \in Seq(StreamEvent) /\ NoDone(m3) /\ CollectText(m3) = CollectText(m1)
      /\ CollectToolCalls(m3) = Started(CollectToolCalls(evs), b3, x)
  <2>1. m3 \in Seq(StreamEvent) /\ NoDone(m3) /\ CollectText(m3) = CollectText(m2)
        /\ CollectToolCalls(m3) = IF b3 THEN AddEvent(CollectToolCalls(m2), e3) ELSE CollectToolCalls(m2)
    BY <1>1, <1>2, <1>5, OptAdded, Zenon
  <2> QED
    BY <1>3, <1>5, <2>1, Zenon DEF Started
<1> HIDE DEF m3
<1>7. m4 \in Seq(StreamEvent) /\ NoDone(m4) /\ CollectText(m4) = CollectText(m1)
      /\ CollectToolCalls(m4) = Extended(Started(CollectToolCalls(evs), b3, x), b4, a)
  <2>1. m4 \in Seq(StreamEvent) /\ NoDone(m4) /\ CollectText(m4) = CollectText(m3)
        /\ CollectToolCalls(m4) = IF b4 THEN AddEvent(CollectToolCalls(m3), e4) ELSE CollectToolCalls(m3)
    BY <1>1, <1>2, <1>6, OptAdded, Zenon
  <2>2. \A cs : Extended(cs, b4, a) = IF b4 THEN Extended(cs, TRUE, a) ELSE cs
    BY Zenon DEF Extended
  <2> QED
    BY <1>3, <1>6, <2>1, <2>2, Zenon
<1> HIDE DEF m4
<1>8. m5 \in Seq(StreamEvent) /\ CollectText(m5) = CollectText(m4)
      /\ CollectToolCalls(m5) = CollectToolCalls(m4)
      /\ \A i \in DOMAIN m5 : m5[i].kind = "done" => b5 /\ i = Len(m5)
  <2>1. m5 \in Seq(StreamEvent) /\ CollectText(m5) = CollectText(m4)
        /\ CollectToolCalls(m5) = IF b5 THEN AddEvent(CollectToolCalls(m4), e5) ELSE CollectToolCalls(m4)
    BY <1>1, <1>2, <1>7, OptAdded, Zenon
  <2>2. \A i \in DOMAIN m5 : m5[i].kind = "done" => b5 /\ i = Len(m5)
    BY <1>1, <1>7, OptAdded, Zenon
  <2> QED
    BY <1>3, <2>1, <2>2, Zenon
<1>9. made = m5
  <2> DEFINE o1 == Opt(b1, e1)
             o2 == Opt(b2, e2)
             o3 == Opt(b3, e3)
             o4 == Opt(b4, e4)
             o5 == Opt(b5, e5)
  <2>1. o1 \in Seq(StreamEvent) /\ o2 \in Seq(StreamEvent) /\ o3 \in Seq(StreamEvent)
        /\ o4 \in Seq(StreamEvent) /\ o5 \in Seq(StreamEvent)
    BY <1>1, OptType, Zenon
  <2>2. made = evs \o (o1 \o o2 \o (o3 \o o4) \o o5)
    BY Zenon DEF Five, e1, e2, e3, e4, e5
  <2>3. m5 = ((((evs \o o1) \o o2) \o o3) \o o4) \o o5
    BY Zenon DEF m1, m2, m3, m4
  <2> HIDE DEF o1, o2, o3, o4, o5
  <2>4. RegroupsFive(evs, o1, o2, o3, o4, o5)
    BY <2>1, Regrouped, Zenon
  <2> QED
    BY <2>2, <2>3, <2>4, Zenon DEF RegroupsFive
<1> QED
  BY <1>4, <1>7, <1>8, <1>9, Zenon DEF Makes

----------------------------------------------------------------------------
(* The calls that are kept *)

LEMMA StartedFacts ==
    ASSUME NEW cs \in Seq(ToolCall), NEW b \in BOOLEAN, NEW i \in Nat
    PROVE  /\ Started(cs, b, i) \in Seq(ToolCall)
           /\ ~b => Started(cs, b, i) = cs
           /\ b => /\ Len(Started(cs, b, i)) = Len(cs) + 1
                   /\ Started(cs, b, i)[Len(cs) + 1].id = i
                   /\ Started(cs, b, i)[Len(cs) + 1].args = <<>>
                   /\ \A j \in 1..Len(cs) : Started(cs, b, i)[j] = cs[j]
<1> DEFINE d == [id |-> i, args |-> <<>>]
<1>1. d \in ToolCall /\ d.id = i /\ d.args = <<>>
  BY DEF ToolCall
<1> HIDE DEF d
<1>2. Append(cs, d) \in Seq(ToolCall) /\ Len(Append(cs, d)) = Len(cs) + 1 /\ Append(cs, d)[Len(cs) + 1] = d
      /\ \A j \in 1..Len(cs) : Append(cs, d)[j] = cs[j]
  BY <1>1, AppendProperties
<1>3. Started(cs, b, i) = IF b THEN Append(cs, d) ELSE cs
  BY Zenon DEF Started, d
<1>4. CASE b
  <2>1. Started(cs, b, i) = Append(cs, d)
    BY <1>3, <1>4
  <2> QED
    BY <1>1, <1>2, <1>4, <2>1, Zenon
<1>5. CASE ~b
  BY <1>3, <1>5, Zenon
<1> QED
  BY <1>4, <1>5

LEMMA ExtendedFacts ==
    ASSUME NEW cs \in Seq(ToolCall), NEW b \in BOOLEAN, NEW x \in Words
    PROVE  /\ Extended(cs, b, x) \in Seq(ToolCall)
           /\ Len(Extended(cs, b, x)) = Len(cs)
           /\ \A j \in 1..Len(cs) :
                /\ Extended(cs, b, x)[j].id = cs[j].id
                /\ Extended(cs, b, x)[j].args = IF b /\ j = Len(cs) THEN Append(cs[j].args, x) ELSE cs[j].args
<1>1. CASE b /\ cs # <<>>
  <2> DEFINE n == Len(cs)
             c == cs[n]
             d == [c EXCEPT !.args = Append(@, x)]
  <2>1. n \in Nat /\ n \in 1..n /\ c \in ToolCall
    BY <1>1, ElementOfSeq, LenProperties, EmptySeq
  <2> HIDE DEF c
  <2>2. c.args \in Seq(Words) /\ c.id \in Nat
    BY <2>1 DEF ToolCall
  <2>3. Append(c.args, x) \in Seq(Words)
    BY <2>2, AppendProperties
  <2>4. d \in ToolCall /\ d.id = c.id /\ d.args = Append(c.args, x)
    BY <2>1, <2>3 DEF ToolCall
  <2>5. Extended(cs, b, x) = [cs EXCEPT ![n] = d]
    BY <1>1 DEF Extended, c
  <2> HIDE DEF d, n
  <2>6. /\ [cs EXCEPT ![n] = d] \in Seq(ToolCall) /\ Len([cs EXCEPT ![n] = d]) = n
        /\ \A j \in 1..n : [cs EXCEPT ![n] = d][j] = IF j = n THEN d ELSE cs[j]
    BY <2>1, <2>4, ExceptSeq DEF n
  <2>7. ASSUME NEW j \in 1..n
        PROVE  /\ Extended(cs, b, x)[j].id = cs[j].id
               /\ Extended(cs, b, x)[j].args = IF b /\ j = n THEN Append(cs[j].args, x) ELSE cs[j].args
    <3>1. Extended(cs, b, x)[j] = IF j = n THEN d ELSE cs[j]
      BY <2>5, <2>6, Zenon
    <3> QED
      BY <1>1, <2>4, <3>1, Zenon DEF c
  <2> QED
    BY <2>5, <2>6, <2>7, Zenon DEF n
<1>2. CASE ~ (b /\ cs # <<>>)
  <2>1. Extended(cs, b, x) = cs
    BY <1>2, Zenon DEF Extended
  <2>2. \A j \in 1..Len(cs) : cs # <<>>
    OBVIOUS
  <2> QED
    BY <1>2, <2>1, <2>2, Zenon
<1> QED
  BY <1>1, <1>2

\* InOrder, of any answer.
Ordered(s) ==
    \A i, j, k \in DOMAIN s :
        i < j /\ j < k /\ s[i].call.index = s[k].call.index /\ s[j].call.index # 0
            => s[i].call.index \in {0, s[j].call.index}

\* The calls met in the first p events: sn are their indices, cs the calls.
Met(s, sn, p) == \A x : x \in sn <=> x # 0 /\ \E i \in 1..p : s[i].call.index = x
IdsOf(sn, cs) ==
    /\ \A j \in DOMAIN cs : cs[j].id \in sn
    /\ \A x \in sn : \E j \in DOMAIN cs : cs[j].id = x
    /\ \A i, j \in DOMAIN cs : cs[i].id = cs[j].id => i = j
ArgsOf(s, p, cs) == \A j \in DOMAIN cs : cs[j].args = FragmentsTo(s, cs[j].id, p)
LastOf(s, p, cs) ==
    cs # <<>> => \E j \in 1..p :
        s[j].call.index = cs[Len(cs)].id /\ \A k \in 1..p : k > j => s[k].call.index = 0

CallsOf(s, sn, p, cs) ==
    Met(s, sn, p) /\ IdsOf(sn, cs) /\ (Ordered(s) => ArgsOf(s, p, cs) /\ LastOf(s, p, cs))

LEMMA MetNext ==
    ASSUME NEW s, NEW p \in Nat, NEW sn, Met(s, sn, p)
    PROVE  Met(s, sn \cup ({s[p + 1].call.index} \ {0}), p + 1)
<1> DEFINE k == p + 1
           c == s[k].call.index
           new == sn \cup ({c} \ {0})
<1>1. k \in 1..k /\ (\A i \in 1..p : i \in 1..k) /\ \A i \in 1..k : i \in 1..p \/ i = k
  BY LastIndex
<1> HIDE DEF k
<1>2. ASSUME NEW x PROVE x \in new <=> x # 0 /\ \E i \in 1..k : s[i].call.index = x
  <2>1. x \in new <=> x \in sn \/ (x = c /\ x # 0)
    OBVIOUS
  <2> HIDE DEF new
  <2> QED
    BY <1>1, <2>1, Zenon DEF Met
<1> QED
  BY <1>2, Zenon DEF Met, k

\* A call is started when its index is first met.
LEMMA IdsNext ==
    ASSUME NEW cs \in Seq(ToolCall), NEW sn, NEW c \in Nat, NEW b \in BOOLEAN, NEW new,
           IdsOf(sn, cs), b <=> c # 0 /\ c \notin sn, new = sn \cup ({c} \ {0})
    PROVE  IdsOf(new, Started(cs, b, c))
<1> DEFINE t == Started(cs, b, c)
           n == Len(cs)
<1>0. n \in Nat /\ DOMAIN cs = 1..n
  BY LenProperties
<1>1. CASE b
  <2>1. t \in Seq(ToolCall) /\ Len(t) = n + 1 /\ t[n + 1].id = c /\ \A j \in 1..n : t[j] = cs[j]
    BY <1>1, StartedFacts, Zenon
  <2>2. DOMAIN t = 1..(n + 1)
    BY <2>1, LenProperties
  <2>3. \A x : x \in new <=> x \in sn \/ x = c
    BY <1>1
  <2>4. c \notin sn
    BY <1>1
  <2>5. /\ n + 1 \in 1..(n + 1) /\ \A i \in 1..n : i \in 1..(n + 1)
        /\ \A i \in 1..(n + 1) : i \in 1..n \/ i = n + 1
    BY <1>0, LastIndex, Zenon
  <2> HIDE DEF t, n
  <2>6. \A j \in 1..n : cs[j].id \in sn
    BY <1>0, Zenon DEF IdsOf
  <2>7. \A j \in 1..(n + 1) : t[j].id \in new
    BY <2>1, <2>3, <2>5, <2>6, Zenon
  <2>8. \A x \in new : \E j \in 1..(n + 1) : t[j].id = x
    BY <1>0, <2>1, <2>3, <2>5, Zenon DEF IdsOf
  <2>9. ASSUME NEW i \in 1..(n + 1), NEW j \in 1..(n + 1), t[i].id = t[j].id PROVE i = j
    <3>1. CASE i \in 1..n /\ j \in 1..n
      BY <1>0, <2>1, <2>9, <3>1, Zenon DEF IdsOf
    <3>2. CASE i \in 1..n /\ j = n + 1
      BY <2>1, <2>4, <2>6, <2>9, <3>2, Zenon
    <3>3. CASE i = n + 1 /\ j \in 1..n
      BY <2>1, <2>4, <2>6, <2>9, <3>3, Zenon
    <3> QED
      BY <2>5, <3>1, <3>2, <3>3, Zenon
  <2>10. IdsOf(new, t)
    BY <2>2, <2>7, <2>8, <2>9, Zenon DEF IdsOf
  <2> QED
    BY <2>10 DEF t
<1>2. CASE ~b
  <2>1. new = sn
    BY <1>2
  <2>2. t = cs
    BY <1>2, StartedFacts, Zenon
  <2> QED
    BY <2>1, <2>2
<1> QED
  BY <1>1, <1>2

\* When the fragments of a call come together, a fragment of a call that was met
\* is of the call started last.
LEMMA LastIsMet ==
    ASSUME NEW s \in Seq(SseEvent), NEW p \in Nat, p + 1 \in DOMAIN s, NEW sn, NEW cs \in Seq(ToolCall),
           Met(s, sn, p), IdsOf(sn, cs), Ordered(s), LastOf(s, p, cs), s[p + 1].call.index \in sn
    PROVE  cs # <<>> /\ cs[Len(cs)].id = s[p + 1].call.index
<1> DEFINE k == p + 1
           c == s[k].call.index
           n == Len(cs)
<1>0. DOMAIN s = 1..Len(s) /\ Len(s) \in Nat /\ DOMAIN cs = 1..n /\ n \in Nat /\ (cs # <<>> => n \in 1..n)
  BY LenProperties, EmptySeq
<1>1. cs # <<>>
  <2>1. \E j \in DOMAIN cs : cs[j].id = c
    BY Zenon DEF IdsOf
  <2> QED
    BY <2>1
<1>2. \A i \in 1..p : i \in DOMAIN s /\ i < k
  BY <1>0
<1> HIDE DEF k, n
<1>3. PICK i \in 1..p : s[i].call.index = c
  BY Zenon DEF Met, k
<1>4. PICK j \in 1..p : s[j].call.index = cs[n].id /\ \A m \in 1..p : m > j => s[m].call.index = 0
  BY <1>1, Zenon DEF LastOf, n
<1>5. cs[n].id \in sn
  BY <1>0, <1>1, Zenon DEF IdsOf
<1>6. cs[n].id # 0 /\ c # 0
  BY <1>5, Zenon DEF Met, k
<1>7. ~ (i > j)
  BY <1>3, <1>4, <1>6, Zenon
<1>8. CASE i = j
  BY <1>1, <1>3, <1>4, <1>8, Zenon DEF k, n
<1>9. CASE i < j
  <2>1. s[i].call.index \in {0, s[j].call.index}
    <3>1. i \in DOMAIN s /\ j \in DOMAIN s /\ k \in DOMAIN s /\ j < k
      BY <1>2 DEF k
    <3>2. s[i].call.index = s[k].call.index /\ s[j].call.index # 0
      BY <1>3, <1>4, <1>6, Zenon
    <3> QED
      BY <1>9, <3>1, <3>2, Zenon DEF Ordered
  <2>2. c = s[j].call.index
    BY <1>3, <1>6, <2>1
  <2> QED
    BY <1>1, <1>4, <2>2, Zenon DEF k, n
<1> QED
  BY <1>7, <1>8, <1>9

\* The calls after one more event of the answer.
LEMMA CallsNext ==
    ASSUME NEW s \in Seq(SseEvent), NEW p \in Nat, p + 1 \in DOMAIN s, NEW sn, NEW cs \in Seq(ToolCall),
           CallsOf(s, sn, p, cs), NEW b \in BOOLEAN, NEW g \in BOOLEAN,
           b <=> s[p + 1].call.index # 0 /\ s[p + 1].call.index \notin sn,
           g <=> s[p + 1].call.index # 0 /\ s[p + 1].call.arg # ""
    PROVE  CallsOf(s, sn \cup ({s[p + 1].call.index} \ {0}), p + 1,
                   Extended(Started(cs, b, s[p + 1].call.index), g, s[p + 1].call.arg))
<1> DEFINE k == p + 1
           c == s[k].call.index
           a == s[k].call.arg
           new == sn \cup ({c} \ {0})
           t == Started(cs, b, c)
           u == Extended(t, g, a)
           m == Len(t)
<1>1. c \in Nat /\ a \in Words
  BY SseTypes, Zenon
<1>2. t \in Seq(ToolCall)
  BY <1>1, StartedFacts, Zenon
<1>3. Met(s, sn, p) /\ IdsOf(sn, cs) /\ (Ordered(s) => ArgsOf(s, p, cs) /\ LastOf(s, p, cs))
  BY Zenon DEF CallsOf
<1>4. Met(s, new, k)
  BY <1>3, MetNext, Zenon
<1>5. IdsOf(new, t)
  BY <1>1, <1>3, IdsNext, Zenon
<1>6. k \in 1..k /\ (\A i \in 1..p : i \in 1..k) /\ (\A i \in 1..k : i \in 1..p \/ i = k) /\ k - 1 = p
      /\ \A i \in 1..k : ~ (i > k)
  BY LastIndex, Zenon
<1>7. (b => c # 0 /\ c \notin sn) /\ (g => c # 0 /\ a # "") /\ (c # 0 /\ c \notin sn => b) /\ (c # 0 /\ a # "" => g)
  BY Zenon
<1>8. c # 0 => c \in new
  OBVIOUS
<1> HIDE DEF new
<1>9. \A x : FragmentsTo(s, x, k) =
               IF c = x /\ a # "" THEN Append(FragmentsTo(s, x, p), a) ELSE FragmentsTo(s, x, p)
  BY <1>6, FragmentsNext, Zenon
<1>10. b => m = Len(cs) + 1 /\ t[m].id = c /\ t[m].args = <<>> /\ \A j \in 1..Len(cs) : t[j] = cs[j]
  <2>1. b => m = Len(cs) + 1
    BY <1>1, StartedFacts, Zenon
  <2>2. b => t[Len(cs) + 1].id = c /\ t[Len(cs) + 1].args = <<>> /\ \A j \in 1..Len(cs) : t[j] = cs[j]
    BY <1>1, StartedFacts, Zenon
  <2> HIDE DEF m, t
  <2> QED
    BY <2>1, <2>2, Zenon
<1>11. ~b => t = cs
  BY <1>1, StartedFacts, Zenon
<1> HIDE DEF t
<1>12. u \in Seq(ToolCall) /\ Len(u) = m
       /\ \A j \in 1..m : u[j].id = t[j].id /\ u[j].args = IF g /\ j = m THEN Append(t[j].args, a) ELSE t[j].args
  BY <1>1, <1>2, ExtendedFacts, Zenon
<1>13. m \in Nat /\ DOMAIN t = 1..m /\ DOMAIN u = 1..m /\ Len(cs) \in Nat /\ DOMAIN cs = 1..Len(cs)
       /\ (t # <<>> => m \in 1..m) /\ (u # <<>> => t # <<>>) /\ (m # 0 => t # <<>>)
  <2>1. \A v \in Seq(ToolCall) : Len(v) \in Nat /\ DOMAIN v = 1..Len(v) /\ (v = <<>> <=> Len(v) = 0)
    <3> TAKE v \in Seq(ToolCall)
    <3> QED
      BY LenProperties, EmptySeq
  <2>2. \A l \in Nat : l # 0 => l \in 1..l
    BY UpToItself, Zenon
  <2> HIDE DEF u
  <2> QED
    BY <1>2, <1>12, <2>1, <2>2, Zenon
<1> HIDE DEF u, m
<1>14. IdsOf(new, u)
  <2>1. \A j \in 1..m : u[j].id = t[j].id
    BY <1>12, Zenon
  <2> QED
    BY <1>5, <1>13, <2>1, Zenon DEF IdsOf
<1>15. ASSUME Ordered(s) PROVE ArgsOf(s, k, u) /\ LastOf(s, k, u)
  <2>1. ArgsOf(s, p, cs) /\ LastOf(s, p, cs)
    BY <1>3, <1>15
  <2>2. c # 0 => t # <<>> /\ t[m].id = c
    <3>1. CASE b
      <4>1. m = Len(cs) + 1
        BY <1>10, <3>1
      <4>2. m # 0
        BY <1>13, <4>1, LastIndex, Zenon
      <4>3. t # <<>>
        BY <1>13, <4>2, Zenon
      <4> QED
        BY <1>10, <3>1, <4>3, Zenon
    <3>2. CASE ~b /\ c # 0
      <4>1. c \in sn
        BY <1>7, <3>2, Zenon
      <4>2. cs # <<>> /\ cs[Len(cs)].id = c
        BY <1>3, <1>15, <2>1, <4>1, LastIsMet, Zenon
      <4> QED
        BY <1>11, <3>2, <4>2, Zenon DEF m
    <3> QED
      BY <3>1, <3>2, Zenon
  <2>3. \A j \in 1..m : t[j].args = FragmentsTo(s, t[j].id, p)
    <3>1. CASE b
      <4>1. \A i \in 1..p : s[i].call.index # c
        BY <1>3, <1>7, <3>1, Zenon DEF Met
      <4>2. FragmentsTo(s, c, p) = <<>>
        BY <4>1, FragmentsNone, Zenon
      <4>3. \A j \in 1..m : j \in 1..Len(cs) \/ j = m
        BY <1>10, <1>13, <3>1, LastIndex, Zenon
      <4> QED
        BY <1>10, <1>13, <2>1, <3>1, <4>2, <4>3, Zenon DEF ArgsOf
    <3>2. CASE ~b
      BY <1>11, <1>13, <2>1, <3>2, Zenon DEF ArgsOf
    <3> QED
      BY <3>1, <3>2
  <2>4. ASSUME NEW j \in 1..m PROVE u[j].args = FragmentsTo(s, u[j].id, k)
    <3>1. u[j].id = t[j].id /\ t[j].args = FragmentsTo(s, t[j].id, p)
      BY <1>12, <2>3, Zenon
    <3>2. u[j].args = IF g /\ j = m THEN Append(t[j].args, a) ELSE t[j].args
      BY <1>12, Zenon
    <3>3. FragmentsTo(s, t[j].id, k) =
            IF c = t[j].id /\ a # "" THEN Append(FragmentsTo(s, t[j].id, p), a) ELSE FragmentsTo(s, t[j].id, p)
      BY <1>9, Zenon
    <3>4. t[j].id # 0
      <4>1. t[j].id \in new
        BY <1>5, <1>13, Zenon DEF IdsOf
      <4> QED
        BY <1>4, <4>1, Zenon DEF Met
    <3>5. (g /\ j = m) <=> (c = t[j].id /\ a # "")
      <4>1. ASSUME g, j = m PROVE c = t[j].id /\ a # ""
        BY <1>7, <2>2, <4>1, Zenon
      <4>2. ASSUME c = t[j].id, a # "" PROVE g /\ j = m
        <5>1. g
          BY <1>7, <3>4, <4>2, Zenon
        <5>2. t[m].id = t[j].id /\ m \in 1..m
          BY <1>13, <2>2, <3>4, <4>2, Zenon
        <5>3. j = m
          BY <1>5, <1>13, <5>2, Zenon DEF IdsOf
        <5> QED
          BY <5>1, <5>3
      <4> QED
        BY <4>1, <4>2, Zenon
    <3> QED
      BY <3>1, <3>2, <3>3, <3>5, Zenon
  <2>5. ArgsOf(s, k, u)
    BY <1>13, <2>4, Zenon DEF ArgsOf
  <2>6. LastOf(s, k, u)
    <3> SUFFICES ASSUME u # <<>>
                 PROVE  \E j \in 1..k : s[j].call.index = u[m].id /\ \A i \in 1..k : i > j => s[i].call.index = 0
      BY <1>12, Zenon DEF LastOf
    <3>0. m \in 1..m /\ t # <<>> /\ u[m].id = t[m].id
      BY <1>12, <1>13, Zenon
    <3>1. CASE c # 0
      BY <1>6, <2>2, <3>0, <3>1, Zenon
    <3>2. CASE c = 0
      <4>1. t = cs
        BY <1>7, <1>11, <3>2, Zenon
      <4>2. PICK j \in 1..p : s[j].call.index = cs[Len(cs)].id /\ \A i \in 1..p : i > j => s[i].call.index = 0
        BY <2>1, <3>0, <4>1, Zenon DEF LastOf
      <4>3. \A i \in 1..k : i > j => s[i].call.index = 0
        BY <1>6, <3>2, <4>2, Zenon
      <4> QED
        BY <1>6, <3>0, <4>1, <4>2, <4>3, Zenon DEF m
    <3> QED
      BY <3>1, <3>2
  <2> QED
    BY <2>5, <2>6
<1>16. CallsOf(s, new, k, u)
  BY <1>4, <1>14, <1>15, Zenon DEF CallsOf
<1> QED
  BY <1>16, Zenon DEF new, u, t

\* The text after one more event of the answer.
TextOf(s, sp, p, ts) ==
    /\ Len(ts) = Len(SpokenTo(s, p))
    /\ \A i \in 1..p : s[i].wide => i \in sp \/ \E j \in DOMAIN ts : ts[j] = s[i].text

LEMMA TextNext ==
    ASSUME NEW s \in Seq(SseEvent), NEW p \in Nat, p + 1 \in DOMAIN s, NEW sp, NEW ts \in Seq(Words),
           NEW w \in Words, TextOf(s, sp, p, ts),
           s[p + 1].wide => s[p + 1].text # "" /\ (p + 1 \in sp \/ w = s[p + 1].text)
    PROVE  TextOf(s, sp, p + 1, IF s[p + 1].text # "" THEN Append(ts, w) ELSE ts)
<1> DEFINE k == p + 1
           n == Len(ts)
           new == IF s[k].text # "" THEN Append(ts, w) ELSE ts
<1>1. k \in 1..k /\ (\A i \in 1..p : i \in 1..k) /\ (\A i \in 1..k : i \in 1..p \/ i = k) /\ k - 1 = p
  BY LastIndex, Zenon
<1>2. SpokenTo(s, k) = IF s[k].text # "" THEN Append(SpokenTo(s, p), s[k].text) ELSE SpokenTo(s, p)
  BY <1>1, SpokenNext, Zenon
<1>3. s[k].text \in Words
  BY SseTypes, Zenon
<1> HIDE DEF k
<1>4. SpokenTo(s, p) \in Seq(Words)
  BY SpokenFirst, Zenon
<1>5. Len(ts) = Len(SpokenTo(s, p))
      /\ \A i \in 1..p : s[i].wide => i \in sp \/ \E j \in DOMAIN ts : ts[j] = s[i].text
  BY Zenon DEF TextOf
<1>6. n \in Nat /\ DOMAIN ts = 1..n
  BY LenProperties
<1>7. s[k].wide => s[k].text # "" /\ (k \in sp \/ w = s[k].text)
  BY Zenon DEF k
<1>8. CASE s[k].text # ""
  <2>1. new = Append(ts, w)
    BY <1>8
  <2>2. Len(new) = n + 1 /\ DOMAIN new = 1..(n + 1) /\ new[n + 1] = w /\ \A j \in 1..n : new[j] = ts[j]
    <3>1. IsAppended(Append(ts, w), ts, w)
      BY AppendedIs, Zenon
    <3> HIDE DEF new
    <3> QED
      BY <2>1, <3>1, Zenon DEF IsAppended
  <2>3. Len(SpokenTo(s, k)) = Len(SpokenTo(s, p)) + 1
    <3> DEFINE z == SpokenTo(s, p)
    <3> HIDE DEF z
    <3>1. Len(Append(z, s[k].text)) = Len(z) + 1
      BY <1>3, <1>4, AppendProperties DEF z
    <3>2. SpokenTo(s, k) = Append(z, s[k].text)
      BY <1>2, <1>8, Zenon DEF z
    <3> QED
      BY <3>1, <3>2, Zenon DEF z
  <2>4. n + 1 \in 1..(n + 1) /\ \A j \in 1..n : j \in 1..(n + 1)
    BY <1>6, LastIndex, Zenon
  <2> HIDE DEF new
  <2>5. \A i \in 1..p : s[i].wide => i \in sp \/ \E j \in DOMAIN new : new[j] = s[i].text
    BY <1>5, <1>6, <2>2, <2>4, Zenon
  <2>6. s[k].wide => k \in sp \/ \E j \in DOMAIN new : new[j] = s[k].text
    BY <1>7, <2>2, <2>4, Zenon
  <2>7. TextOf(s, sp, k, new)
    BY <1>1, <1>5, <2>2, <2>3, <2>5, <2>6, Zenon DEF TextOf, n
  <2> QED
    BY <2>7, Zenon DEF new, k
<1>9. CASE s[k].text = ""
  <2>1. new = ts /\ SpokenTo(s, k) = SpokenTo(s, p) /\ ~s[k].wide
    BY <1>2, <1>7, <1>9, Zenon
  <2>2. TextOf(s, sp, k, ts)
    BY <1>1, <1>5, <2>1, Zenon DEF TextOf
  <2> QED
    BY <2>1, <2>2, Zenon DEF k
<1> QED
  BY <1>8, <1>9

----------------------------------------------------------------------------
(* The answer is kept whole *)

\* The event that says the answer is over is the last one made of it.
DoneOf(s, p, evs) == \A i \in DOMAIN evs : evs[i].kind = "done" => i = Len(evs) /\ p = Len(s)

\* A Complete holds all that the source has kept, and nothing more is to come.
WholeOf(c, evs, pd, p, s, r) ==
    c.kind = "complete" =>
        c.text = CollectText(evs) /\ c.calls = CollectToolCalls(evs) /\ pd = <<>> /\ p = Len(s) /\ ~r

MadeInv ==
    /\ TextOf(said, split, parsed, CollectText(events \o pend))
    /\ CallsOf(said, seen, parsed, CollectToolCalls(events \o pend))
    /\ DoneOf(said, parsed, events \o pend)

CompleteInv ==
    /\ WholeOf(result, events, pend, parsed, said, running)
    /\ \A i \in DOMAIN chan : WholeOf(chan[i], events, pend, parsed, said, running)

AnswerInv == MadeInv /\ CompleteInv

\* Nothing of an answer has been read.
LEMMA NothingMade ==
    ASSUME NEW s \in Seq(SseEvent), NEW sp
    PROVE  TextOf(s, sp, 0, CollectText(<<>> \o <<>>)) /\ CallsOf(s, {}, 0, CollectToolCalls(<<>> \o <<>>))
           /\ DoneOf(s, 0, <<>> \o <<>>)
<1>1. <<>> \o <<>> = <<>> /\ <<>> \in Seq(StreamEvent)
  OBVIOUS
<1>2. CollectText(<<>>) = <<>> /\ CollectToolCalls(<<>>) = <<>>
  BY <1>1, CollectTextType, CollectType, Zenon
<1>3. SpokenTo(s, 0) = <<>>
  BY SpokenFirst, Zenon
<1>4. (\A i \in 1..0 : FALSE) /\ DOMAIN <<>> = {}
  OBVIOUS
<1>5. TextOf(s, sp, 0, <<>>)
  BY <1>3, <1>4, Zenon DEF TextOf
<1>6. CallsOf(s, {}, 0, <<>>)
  BY <1>4, Zenon DEF CallsOf, Met, IdsOf, ArgsOf, LastOf
<1>7. DoneOf(s, 0, <<>>)
  BY <1>4, Zenon DEF DoneOf
<1> QED
  BY <1>1, <1>2, <1>5, <1>6, <1>7, Zenon

\* In both formats a call starts when its index is first met.
LEMMA StartsWhenMet ==
    ASSUME BaseInv, CallsOf(said, seen, parsed, CollectToolCalls(events \o pend)), parsed + 1 \in DOMAIN said,
           said[parsed + 1].call.index # 0
    PROVE  Starts(parsed + 1) <=> said[parsed + 1].call.index \notin seen
<1> DEFINE k == parsed + 1
           c == said[k].call.index
<1>1. CASE format = "anthropic"
  <2>1. said # <<>>
    OBVIOUS
  <2>2. said \in Answers[format] /\ format \in DOMAIN Answers /\ parsed \in Nat
    BY <2>1, Zenon DEF BaseInv, InSequence, InferenceType
  <2>3. said[k].call.arg = "" <=> \A j \in 1..(k - 1) : said[j].call.index # c
    BY <1>1, <2>2, AnswersAssumption, Zenon
  <2>4. k - 1 = parsed
    BY <2>2, LastIndex, Zenon
  <2>5. c \in seen <=> c # 0 /\ \E j \in 1..parsed : said[j].call.index = c
    BY Zenon DEF CallsOf, Met
  <2> HIDE DEF k
  <2>6. said[k].call.arg = "" <=> c \notin seen
    BY <2>3, <2>4, <2>5, Zenon DEF k
  <2> QED
    BY <1>1, <2>6, Zenon DEF Starts, k
<1>2. CASE format # "anthropic"
  BY <1>2, Zenon DEF Starts
<1> QED
  BY <1>1, <1>2

LEMMA ParseMade == ASSUME BaseInv, MadeInv, ParseNext PROVE MadeInv'
<1> DEFINE k == parsed + 1
           e == said[k]
           made == events \o ParseSseEvent(k)
           b3 == e.call.index # 0 /\ Starts(k)
           b4 == e.call.index # 0 /\ e.call.arg # ""
<1>1. /\ UNCHANGED <<said, split, events>> /\ pend = <<>> /\ parsed' = k /\ pend' = ParseSseEvent(k)
      /\ seen' = seen \cup ({e.call.index} \ {0})
  BY DEF ParseNext, callVars
<1>2. k \in DOMAIN said /\ parsed \in Nat /\ said \in Seq(SseEvent) /\ events \in Seq(StreamEvent)
      /\ format \in DOMAIN Answers
  BY ParseBase, Zenon DEF BaseInv, InferenceType
<1>3. events \o pend = events
  BY <1>1, <1>2
<1>4. TextOf(said, split, parsed, CollectText(events)) /\ CallsOf(said, seen, parsed, CollectToolCalls(events))
      /\ DoneOf(said, parsed, events)
  BY <1>3, Zenon DEF MadeInv
<1>5. NoDone(events)
  <2>1. parsed # Len(said)
    BY <1>2, LenProperties
  <2> QED
    BY <1>4, <2>1, Zenon DEF DoneOf, NoDone
<1>6. e.text \in Words /\ e.call.arg \in Words /\ e.call.index \in Nat /\ e.finish \in Words
  BY <1>2, SseTypes, Zenon
<1>7. e.think \in BOOLEAN
  BY <1>2, SseTypes, Zenon
<1>8. Text(k) \in Words
  <2>1. "?" \in Words
    BY DEF Words
  <2> QED
    BY <1>6, <2>1, Zenon DEF Text
<1>9. said \in Answers[format]
  <2>1. said # <<>>
    BY <1>2
  <2> QED
    BY <2>1, Zenon DEF BaseInv, InSequence
<1>10. (e.finish # "" => k = Len(said)) /\ (e.wide => e.text # "")
  BY <1>2, <1>9, AnswersAssumption, Zenon
<1>11. b3 <=> e.call.index # 0 /\ e.call.index \notin seen
  BY <1>2, StartsWhenMet, Zenon DEF MadeInv
<1>12. /\ made \in Seq(StreamEvent)
       /\ CollectText(made) = IF e.text # "" THEN Append(CollectText(events), Text(k)) ELSE CollectText(events)
       /\ CollectToolCalls(made)
            = Extended(Started(CollectToolCalls(events), b3, e.call.index), b4, e.call.arg)
       /\ \A i \in DOMAIN made : made[i].kind = "done" => e.finish # "" /\ i = Len(made)
  <2> DEFINE b1 == e.text # ""
             b2 == e.think
             b5 == e.finish # ""
             w == Text(k)
             x == e.call.index
             a == e.call.arg
             d == e.finish
  <2>1. made = events \o Five(b1, b2, b3, b4, b5, w, x, a, d)
    BY ParsedEvents, Zenon DEF Five, TextEv, ThinkEv, StartEv, InputEv, DoneEv
  <2>2. b1 \in BOOLEAN /\ b2 \in BOOLEAN /\ b3 \in BOOLEAN /\ b4 \in BOOLEAN /\ b5 \in BOOLEAN
    BY <1>7, Zenon
  <2>3. w \in Words /\ x \in Nat /\ a \in Words /\ d \in Words
    BY <1>6, <1>8, Zenon
  <2> HIDE DEF b1, b2, b3, b4, b5, w, x, a, d, made
  <2>4. MadeOf(made, events, b1, b2, b3, b4, b5, w, x, a, d)
    BY <1>2, <1>5, <2>1, <2>2, <2>3, Zenon DEF MadeOf
  <2>5. Makes(made, events, b1, b3, b4, b5, w, x, a)
    BY <2>4, FiveAdded, Zenon
  <2> QED
    BY <2>5, Zenon DEF Makes, b1, b5, w, x, a
<1>13. CollectText(events) \in Seq(Words) /\ CollectToolCalls(events) \in Seq(ToolCall)
  BY <1>2, CollectTextType, CollectType, Zenon
<1>14. e.wide => k \in split \/ Text(k) = e.text
  BY Zenon DEF Text
<1> HIDE DEF made
<1>15. TextOf(said, split, k, CollectText(made))
  <2>1. TextOf(said, split, k, IF e.text # "" THEN Append(CollectText(events), Text(k)) ELSE CollectText(events))
    BY <1>2, <1>4, <1>8, <1>10, <1>13, <1>14, TextNext, Zenon
  <2> QED
    BY <1>12, <2>1, Zenon
<1>16. CallsOf(said, seen \cup ({e.call.index} \ {0}), k, CollectToolCalls(made))
  <2> DEFINE b == b3
             g == b4
  <2>1. b \in BOOLEAN /\ g \in BOOLEAN /\ (g <=> e.call.index # 0 /\ e.call.arg # "")
    BY Zenon
  <2>2. b <=> e.call.index # 0 /\ e.call.index \notin seen
    BY <1>11
  <2> HIDE DEF b, g
  <2>3. CallsOf(said, seen \cup ({e.call.index} \ {0}), k,
                Extended(Started(CollectToolCalls(events), b, e.call.index), g, e.call.arg))
    BY <1>2, <1>4, <1>13, <2>1, <2>2, CallsNext, Zenon
  <2> QED
    BY <1>12, <2>3, Zenon DEF b, g
<1>17. DoneOf(said, k, made)
  BY <1>10, <1>12, Zenon DEF DoneOf
<1>18. events' \o pend' = made
  BY <1>1, Zenon DEF made
<1> HIDE DEF k, e
<1> QED
  BY <1>1, <1>15, <1>16, <1>17, <1>18, Zenon DEF MadeInv

\* The answer and what was made of it stay as they are; more of it may be split.
LEMMA MadeUnchanged ==
    ASSUME MadeInv, UNCHANGED <<said, seen, parsed>>, events' \o pend' = events \o pend, split \subseteq split'
    PROVE  MadeInv'
<1>1. said' = said /\ seen' = seen /\ parsed' = parsed
  OBVIOUS
<1>2. TextOf(said, split', parsed, CollectText(events \o pend))
  BY Zenon DEF MadeInv, TextOf
<1> QED
  BY <1>1, <1>2, Zenon DEF MadeInv

\* No Complete is made, and none was made while the source runs.
LEMMA CompleteUnchanged ==
    ASSUME CompleteInv, UNCHANGED <<said, parsed, pend, events>>, running' => running,
           result' = result \/ result'.kind # "complete" \/ (\E j \in DOMAIN chan : result' = chan[j]),
           \A i \in DOMAIN chan' : chan'[i].kind # "complete" \/ \E j \in DOMAIN chan : chan'[i] = chan[j]
    PROVE  CompleteInv'
<1>1. said' = said /\ parsed' = parsed /\ pend' = pend /\ events' = events
  OBVIOUS
<1>2. ASSUME NEW c, WholeOf(c, events, pend, parsed, said, running)
      PROVE  WholeOf(c, events, pend, parsed, said, running')
  BY <1>2, Zenon DEF WholeOf
<1>3. ASSUME NEW c, c.kind # "complete" PROVE WholeOf(c, events, pend, parsed, said, running')
  BY <1>3, Zenon DEF WholeOf
<1>4. WholeOf(result', events, pend, parsed, said, running')
  BY <1>2, <1>3, Zenon DEF CompleteInv
<1>5. ASSUME NEW i \in DOMAIN chan' PROVE WholeOf(chan'[i], events, pend, parsed, said, running')
  <2>1. CASE chan'[i].kind # "complete"
    BY <2>1, <1>3, Zenon
  <2>2. CASE \E j \in DOMAIN chan : chan'[i] = chan[j]
    BY <2>2, <1>2, Zenon DEF CompleteInv
  <2> QED
    BY <2>1, <2>2, Zenon
<1> QED
  BY <1>1, <1>4, <1>5, Zenon DEF CompleteInv

\* There is no Complete while the source runs.
LEMMA NoneWhileRunning ==
    ASSUME CompleteInv, running
    PROVE  result.kind # "complete" /\ \A i \in DOMAIN chan : chan[i].kind # "complete"
BY Zenon DEF CompleteInv, WholeOf

\* There is no Complete.
NoComplete == result.kind # "complete" /\ \A i \in DOMAIN chan : chan[i].kind # "complete"

LEMMA NothingWhole == ASSUME NoComplete PROVE CompleteInv
BY Zenon DEF NoComplete, CompleteInv, WholeOf

LEMMA InitAnswer == ASSUME InferenceInit PROVE AnswerInv
<1>1. said = <<>> /\ split = {} /\ seen = {} /\ parsed = 0 /\ pend = <<>> /\ events = <<>> /\ chan = <<>>
      /\ result = NoResult
  BY DEF InferenceInit
<1>2. <<>> \in Seq(SseEvent) /\ DOMAIN <<>> = {} /\ NoResult.kind # "complete"
  BY DEF NoResult
<1>3. MadeInv
  BY <1>1, <1>2, NothingMade, Zenon DEF MadeInv
<1>4. NoComplete
  BY <1>1, <1>2, Zenon DEF NoComplete
<1> QED
  BY <1>3, <1>4, NothingWhole, Zenon DEF AnswerInv

\* The actions that touch neither the answer nor the channel.
LEMMA QuietAnswer ==
    ASSUME AnswerInv, UNCHANGED <<said, seen, parsed, pend, events, chan>>, running' => running,
           split \subseteq split', result' = result \/ result'.kind # "complete"
    PROVE  AnswerInv'
<1>1. said' = said /\ seen' = seen /\ parsed' = parsed /\ pend' = pend /\ events' = events /\ chan' = chan
  OBVIOUS
<1>2. MadeInv'
  BY <1>1, MadeUnchanged, Zenon DEF AnswerInv
<1>3. CompleteInv'
  BY <1>1, CompleteUnchanged, Zenon DEF AnswerInv
<1> QED
  BY <1>2, <1>3, Zenon DEF AnswerInv

LEMMA OpenAnswer ==
    ASSUME BaseInv, AnswerInv, OpenError \/ OpenSource("local") \/ OpenSource("pod") PROVE AnswerInv'
<1>1. UNCHANGED <<said, split, seen, parsed, pend, events, result>> /\ source = "none"
      /\ (chan' = chan \/ chan' = <<[kind |-> "error"]>>)
  BY DEF OpenError, OpenSource, parseVars
<1>2. chan = <<>> /\ result.kind = "none"
  BY <1>1, Zenon DEF BaseInv, InSequence
<1>3. \A i \in DOMAIN chan' : chan'[i].kind # "complete"
  BY <1>1, <1>2
<1>4. result'.kind # "complete"
  BY <1>1, <1>2
<1>5. CompleteInv'
  BY <1>3, <1>4, Zenon DEF CompleteInv, WholeOf
<1>6. MadeInv'
  BY <1>1, MadeUnchanged, Zenon DEF AnswerInv
<1> QED
  BY <1>5, <1>6, Zenon DEF AnswerInv

LEMMA CallProviderAnswer ==
    ASSUME BaseInv, AnswerInv, NEW a \in Answers[format], CallProvider(a) PROVE AnswerInv'
<1>1. UNCHANGED <<split, seen, parsed, pend, events, chan, result, running>>
      /\ http = "none" /\ said' = a /\ running
  BY DEF CallProvider, parseVars, turnVars, Called
<1>2. parsed = 0 /\ pend = <<>> /\ events = <<>> /\ seen = {}
  BY <1>1, Zenon DEF BaseInv, InSequence
<1>3. a \in Seq(SseEvent)
  BY AnswersAssumption, Zenon DEF BaseInv, InferenceType
<1>4. parsed' = 0 /\ pend' = <<>> /\ events' = <<>> /\ seen' = {} /\ chan' = chan /\ result' = result
  BY <1>1, <1>2
<1>5. MadeInv'
  BY <1>1, <1>3, <1>4, NothingMade, Zenon DEF MadeInv
<1>6. CompleteInv'
  <2>1. result.kind # "complete" /\ \A i \in DOMAIN chan : chan[i].kind # "complete"
    BY <1>1, NoneWhileRunning, Zenon DEF AnswerInv
  <2> QED
    BY <1>4, <2>1, Zenon DEF CompleteInv, WholeOf
<1> QED
  BY <1>5, <1>6, Zenon DEF AnswerInv

LEMMA ParseAnswer == ASSUME BaseInv, AnswerInv, ParseNext PROVE AnswerInv'
<1>1. UNCHANGED <<chan, result>> /\ running
  BY DEF ParseNext, turnVars, Called
<1>2. MadeInv'
  BY ParseMade, Zenon DEF AnswerInv
<1>3. result.kind # "complete" /\ \A i \in DOMAIN chan : chan[i].kind # "complete"
  BY <1>1, NoneWhileRunning, Zenon DEF AnswerInv
<1>4. CompleteInv'
  BY <1>1, <1>3, Zenon DEF CompleteInv, WholeOf
<1> QED
  BY <1>2, <1>4, Zenon DEF AnswerInv

LEMMA JustOne == ASSUME NEW n \in Nat, NEW m \in Nat, n + 1 = n + m PROVE m = 1
OBVIOUS

LEMMA TailOfOne == ASSUME NEW S, NEW s \in Seq(S), Len(s) = 1 PROVE Tail(s) = <<>>
<1>1. s # <<>>
  OBVIOUS
<1>2. Tail(s) \in Seq(S) /\ Len(Tail(s)) = 0
  BY <1>1, HeadTailProperties
<1> QED
  BY <1>2, EmptySeq

\* The event that says the answer is over is the last one handed on.
LEMMA DoneEmptiesPend ==
    ASSUME NEW evs \in Seq(StreamEvent), NEW pd \in Seq(StreamEvent), pd # <<>>, Head(pd).kind = "done",
           NEW s, NEW p, DoneOf(s, p, evs \o pd)
    PROVE  Tail(pd) = <<>> /\ p = Len(s)
<1> DEFINE k == Len(evs) + 1
           all == evs \o pd
<1>1. Len(evs) \in Nat /\ Len(pd) \in Nat /\ Len(pd) > 0
  BY LenProperties, EmptySeq
<1>2. Len(all) = Len(evs) + Len(pd) /\ k \in DOMAIN all /\ all[k] = pd[1] /\ Head(pd) = pd[1]
  BY <1>1, ConcatProperties
<1>3. all[k].kind = "done"
  BY <1>2
<1> HIDE DEF k, all
<1>4. k = Len(all) /\ p = Len(s)
  BY <1>2, <1>3, Zenon DEF DoneOf, all
<1>5. Len(pd) = 1
  <2>1. Len(evs) + 1 = Len(evs) + Len(pd)
    BY <1>2, <1>4, Zenon DEF k
  <2> QED
    BY <1>1, <2>1, JustOne, Zenon
<1>6. Tail(pd) = <<>>
  BY <1>5, TailOfOne, Zenon
<1> QED
  BY <1>4, <1>6

LEMMA SourceStepAnswer == ASSUME BaseInv, AnswerInv, SourceStep PROVE AnswerInv'
<1> DEFINE e == Head(pend)
           evs == Append(events, e)
           out == IF e.kind = "done" THEN AssembleTurnComplete(evs, e.stop) ELSE e
<1>1. UNCHANGED <<said, split, seen, parsed, result>> /\ running /\ pend # <<>> /\ pend' = Tail(pend)
      /\ events' = evs /\ running' = (e.kind # "done" /\ (held \/ ~Forwarded(e)))
      /\ chan' = IF held /\ Forwarded(e) THEN Append(chan, out) ELSE chan
  BY DEF SourceStep, callVars, turnVars, Called
<1>2. pend \in Seq(StreamEvent) /\ events \in Seq(StreamEvent) /\ chan \in Seq(TurnEvent)
  BY Zenon DEF BaseInv, InferenceType
<1>3. e \in StreamEvent /\ events' \o pend' = events \o pend
  BY SourceStepBase, Zenon
<1>4. MadeInv'
  BY <1>1, <1>3, MadeUnchanged, Zenon DEF AnswerInv
<1>5. result.kind # "complete" /\ \A i \in DOMAIN chan : chan[i].kind # "complete"
  BY <1>1, NoneWhileRunning, Zenon DEF AnswerInv
<1>6. WholeOf(out, events', pend', parsed', said', running')
  <2>1. CASE e.kind = "done"
    <3>1. Tail(pend) = <<>> /\ parsed = Len(said)
      BY <1>1, <1>2, <2>1, DoneEmptiesPend, Zenon DEF AnswerInv, MadeInv
    <3>2. out = AssembleTurnComplete(evs, e.stop)
      BY <2>1
    <3>3. out.text = CollectText(evs) /\ out.calls = CollectToolCalls(evs)
      BY <3>2 DEF AssembleTurnComplete
    <3> HIDE DEF out, evs, e
    <3>4. ~running'
      BY <1>1, <2>1, Zenon
    <3> QED
      BY <1>1, <3>1, <3>3, <3>4, Zenon DEF WholeOf
  <2>2. CASE e.kind # "done"
    <3>1. out = e
      BY <2>2
    <3> HIDE DEF out, evs, e
    <3>2. e.kind # "complete"
      BY <1>3, SMT DEF StreamEvent
    <3> QED
      BY <3>1, <3>2, Zenon DEF WholeOf
  <2> QED
    BY <2>1, <2>2
<1>7. out \in TurnEvent
  <2>1. evs \in Seq(StreamEvent)
    BY <1>2, <1>3, AppendProperties
  <2> HIDE DEF evs, e
  <2>2. CASE e.kind = "done"
    BY <1>3, <2>1, <2>2, CompleteType, Zenon DEF TurnEvent
  <2>3. CASE e.kind # "done"
    BY <1>3, <2>3, Zenon DEF TurnEvent
  <2> QED
    BY <2>2, <2>3
<1> HIDE DEF out, evs, e
<1>8. \A i \in DOMAIN chan' : chan'[i] = out \/ \E j \in DOMAIN chan : chan'[i] = chan[j]
  <2>1. CASE chan' = chan
    BY <2>1, Zenon
  <2>2. CASE chan' = Append(chan, out)
    <3>1. Len(chan) \in Nat /\ DOMAIN chan = 1..Len(chan) /\ DOMAIN chan' = 1..(Len(chan) + 1)
          /\ chan'[Len(chan) + 1] = out /\ \A i \in 1..Len(chan) : chan'[i] = chan[i]
      BY <1>2, <1>7, <2>2, AppendProperties, LenProperties
    <3> QED
      BY <3>1, LastIndex, Zenon
  <2> QED
    BY <1>1, <2>1, <2>2, Zenon
<1>9. CompleteInv'
  <2>1. result'.kind # "complete"
    BY <1>1, <1>5
  <2>2. ASSUME NEW i \in DOMAIN chan' PROVE WholeOf(chan'[i], events', pend', parsed', said', running')
    <3>1. CASE chan'[i] = out
      BY <1>6, <3>1, Zenon
    <3>2. CASE \E j \in DOMAIN chan : chan'[i] = chan[j]
      BY <1>5, <3>2, Zenon DEF WholeOf
    <3> QED
      BY <1>8, <3>1, <3>2, Zenon
  <2>3. WholeOf(result', events', pend', parsed', said', running')
    BY <2>1, Zenon DEF WholeOf
  <2> QED
    BY <2>2, <2>3, Zenon DEF CompleteInv
<1> QED
  BY <1>4, <1>9, Zenon DEF AnswerInv

LEMMA SourceFailsAnswer == ASSUME BaseInv, AnswerInv, SourceFails PROVE AnswerInv'
<1> DEFINE out == [kind |-> "error"]
<1>1. UNCHANGED <<said, split, seen, parsed, pend, events, result>> /\ running' = FALSE
      /\ chan' = IF held THEN Append(chan, out) ELSE chan
  BY DEF SourceFails, callVars, turnVars
<1>2. chan \in Seq(TurnEvent) /\ out \in TurnEvent /\ out.kind # "complete"
  BY DEF BaseInv, InferenceType, TurnEvent
<1> HIDE DEF out
<1>3. \A i \in DOMAIN chan' : chan'[i] = out \/ \E j \in DOMAIN chan : chan'[i] = chan[j]
  <2>1. CASE chan' = chan
    BY <2>1, Zenon
  <2>2. CASE chan' = Append(chan, out)
    <3>1. Len(chan) \in Nat /\ DOMAIN chan = 1..Len(chan) /\ DOMAIN chan' = 1..(Len(chan) + 1)
          /\ chan'[Len(chan) + 1] = out /\ \A i \in 1..Len(chan) : chan'[i] = chan[i]
      BY <1>2, <2>2, AppendProperties, LenProperties
    <3> QED
      BY <3>1, LastIndex, Zenon
  <2> QED
    BY <1>1, <2>1, <2>2, Zenon
<1>4. \A i \in DOMAIN chan' : chan'[i].kind # "complete" \/ \E j \in DOMAIN chan : chan'[i] = chan[j]
  BY <1>2, <1>3, Zenon
<1>5. UNCHANGED <<said, parsed, pend, events>> /\ result' = result /\ ~running'
  BY <1>1
<1>6. CompleteInv'
  BY <1>4, <1>5, CompleteUnchanged, Zenon DEF AnswerInv
<1>7. MadeInv'
  BY <1>1, MadeUnchanged, Zenon DEF AnswerInv
<1> QED
  BY <1>6, <1>7, Zenon DEF AnswerInv

LEMMA PodLostAnswer == ASSUME BaseInv, AnswerInv, PodLost PROVE AnswerInv'
<1>1. UNCHANGED <<said, split, seen, parsed, pend, events, result>> /\ running' = FALSE
  BY DEF PodLost, callVars, turnVars
<1>2. PICK n \in 0..Len(chan) : chan' = SubSeq(chan, 1, n)
  BY DEF PodLost
<1>3. chan \in Seq(TurnEvent)
  BY Zenon DEF BaseInv, InferenceType
<1>4. \A i \in DOMAIN chan' : i \in DOMAIN chan /\ chan'[i] = chan[i]
  BY <1>2, <1>3
<1>5. UNCHANGED <<said, parsed, pend, events>> /\ result' = result /\ ~running'
  BY <1>1
<1>6. CompleteInv'
  BY <1>4, <1>5, CompleteUnchanged, Zenon DEF AnswerInv
<1>7. MadeInv'
  BY <1>1, MadeUnchanged, Zenon DEF AnswerInv
<1> QED
  BY <1>6, <1>7, Zenon DEF AnswerInv

LEMMA DropSourceAnswer == ASSUME AnswerInv, DropSource PROVE AnswerInv'
<1>1. UNCHANGED <<said, split, seen, parsed, pend, events, result>> /\ (running' => running) /\ chan' = <<>>
  BY DEF DropSource, callVars
<1>2. DOMAIN chan' = {}
  BY <1>1
<1>3. UNCHANGED <<said, parsed, pend, events>> /\ result' = result
  BY <1>1
<1>4. CompleteInv'
  BY <1>1, <1>2, <1>3, CompleteUnchanged, Zenon DEF AnswerInv
<1>5. MadeInv'
  BY <1>1, MadeUnchanged, Zenon DEF AnswerInv
<1> QED
  BY <1>4, <1>5, Zenon DEF AnswerInv

LEMMA NextEventAnswer == ASSUME BaseInv, AnswerInv, NextEvent PROVE AnswerInv'
<1> DEFINE e == Head(chan)
<1>1. UNCHANGED <<said, split, seen, parsed, pend, events, running>> /\ chan # <<>> /\ chan' = Tail(chan)
      /\ result' = CASE e.kind = "complete" -> e
                     [] e.kind = "error" -> [kind |-> "ended"]
                     [] OTHER -> result
  BY DEF NextEvent, callVars, parseVars
<1>2. chan \in Seq(TurnEvent)
  BY Zenon DEF BaseInv, InferenceType
<1>3. e = chan[1] /\ 1 \in DOMAIN chan
  BY <1>1, <1>2, EmptySeq, LenProperties
<1>4. \A i \in DOMAIN Tail(chan) : i + 1 \in DOMAIN chan /\ Tail(chan)[i] = chan[i + 1]
  BY <1>1, <1>2
<1> HIDE DEF e
<1>5. [kind |-> "ended"].kind # "complete"
  OBVIOUS
<1>6. result' = result \/ result'.kind # "complete" \/ result' = e
  BY <1>1, <1>5
<1>7. UNCHANGED <<said, parsed, pend, events>> /\ running' = running
  BY <1>1
<1>8. CompleteInv'
  <2>1. result' = result \/ result'.kind # "complete" \/ \E j \in DOMAIN chan : result' = chan[j]
    BY <1>3, <1>6, Zenon
  <2>2. \A i \in DOMAIN chan' : chan'[i].kind # "complete" \/ \E j \in DOMAIN chan : chan'[i] = chan[j]
    BY <1>1, <1>4, Zenon
  <2>3. CompleteInv /\ (running' => running)
    BY <1>7, Zenon DEF AnswerInv
  <2> QED
    BY <1>7, <2>1, <2>2, <2>3, CompleteUnchanged, Zenon
<1>9. MadeInv'
  BY <1>1, MadeUnchanged, Zenon DEF AnswerInv
<1> QED
  BY <1>8, <1>9, Zenon DEF AnswerInv

LEMMA NextRoundAnswer == ASSUME BaseInv, NextRound PROVE AnswerInv'
<1>1. said' = <<>> /\ seen' = {} /\ parsed' = 0 /\ pend' = <<>> /\ events' = <<>> /\ result' = NoResult
      /\ chan' = chan /\ ~held
  BY DEF NextRound
<1>2. chan = <<>>
  BY <1>1, Zenon DEF BaseInv, InSequence
<1>3. <<>> \in Seq(SseEvent) /\ DOMAIN <<>> = {} /\ NoResult.kind # "complete"
  BY DEF NoResult
<1>4. MadeInv'
  BY <1>1, <1>3, NothingMade, Zenon DEF MadeInv
<1>5. CompleteInv'
  BY <1>1, <1>2, <1>3, Zenon DEF CompleteInv, WholeOf
<1> QED
  BY <1>4, <1>5, Zenon DEF AnswerInv

LEMMA StepAnswer == ASSUME BaseInv, AnswerInv, [InferenceNext]_inferenceVars PROVE AnswerInv'
<1>1. CASE OpenError \/ OpenSource("local") \/ OpenSource("pod")
  BY <1>1, OpenAnswer, Zenon
<1>2. CASE Provider
  <2>1. CASE \E a \in Answers[format] : CallProvider(a)
    BY <2>1, CallProviderAnswer, Zenon
  <2>2. CASE CallFails \/ ProviderEnds \/ \E n \in 1..(2 * Len(said)) : Chunk(n)
    <3>1. UNCHANGED <<said, seen, parsed, pend, events, chan>> /\ running' = running /\ split \subseteq split'
          /\ result' = result
      <4>1. CASE CallFails \/ ProviderEnds
        BY <4>1 DEF CallFails, ProviderEnds, parseVars, turnVars
      <4>2. CASE \E n \in 1..(2 * Len(said)) : Chunk(n)
        BY <4>2 DEF Chunk, parseVars, turnVars
      <4> QED
        BY <2>2, <4>1, <4>2
    <3> QED
      BY <3>1, QuietAnswer, Zenon
  <2> QED
    BY <1>2, <2>1, <2>2, Zenon DEF Provider
<1>3. CASE Source
  BY <1>3, ParseAnswer, SourceStepAnswer, SourceFailsAnswer, Zenon DEF Source
<1>4. CASE NextEvent
  BY <1>4, NextEventAnswer, Zenon
<1>5. CASE StreamEndsEarly \/ IdleTimeout \/ StreamCancelled \/ CancelTurn
  <2>1. UNCHANGED <<callVars, parseVars, chan>> /\ (result' = result \/ result'.kind \in {"ended", "cancelled"})
    BY <1>5, TurnBase, Zenon
  <2>2. UNCHANGED <<said, seen, parsed, pend, events, chan>> /\ running' = running /\ split' = split
        /\ (result' = result \/ result'.kind # "complete")
    BY <2>1 DEF callVars, parseVars
  <2> QED
    BY <2>2, QuietAnswer, Zenon
<1>6. CASE DropSource
  BY <1>6, DropSourceAnswer, Zenon
<1>7. CASE PodLost
  BY <1>7, PodLostAnswer, Zenon
<1>8. CASE NextRound
  BY <1>8, NextRoundAnswer, Zenon
<1>9. CASE UNCHANGED inferenceVars
  <2>1. UNCHANGED <<said, seen, parsed, pend, events, chan>> /\ running' = running /\ split' = split
        /\ result' = result
    BY <1>9 DEF inferenceVars
  <2> QED
    BY <2>1, QuietAnswer, Zenon
<1> QED
  BY <1>1, <1>2, <1>3, <1>4, <1>5, <1>6, <1>7, <1>8, <1>9, Zenon DEF InferenceNext, Turn

\* Whatever the chunks, the source, the faults and the number of rounds, a round
\* that completes has all that the provider said, each call once and, when the
\* fragments of a call come together, with its own arguments.
THEOREM TurnsAreWhole == InferenceSpec => []TurnIsWhole
<1> DEFINE All == BaseInv /\ AnswerInv
<1>1. ASSUME All PROVE TurnIsWhole
  <2> SUFFICES ASSUME result.kind = "complete" PROVE TurnIsWhole
    BY Zenon DEF TurnIsWhole
  <2> DEFINE n == Len(said)
             ts == result.text
             cs == result.calls
  <2>1. BaseInv /\ MadeInv /\ CompleteInv
    BY <1>1, Zenon DEF AnswerInv
  <2>2. ts = CollectText(events) /\ cs = CollectToolCalls(events) /\ pend = <<>> /\ parsed = n
    BY <2>1, Zenon DEF CompleteInv, WholeOf
  <2>3. events \in Seq(StreamEvent) /\ said \in Seq(SseEvent)
    BY <2>1, Zenon DEF BaseInv, InferenceType
  <2>4. events \o pend = events
    BY <2>2, <2>3
  <2>5. DOMAIN said = 1..n
    BY <2>3, LenProperties
  <2>6. TextOf(said, split, n, ts) /\ CallsOf(said, seen, n, cs)
    BY <2>1, <2>2, <2>4, Zenon DEF MadeInv
  <2> HIDE DEF ts, cs
  <2>7. SpokenTo(said, n) = Spoken
    BY Zenon DEF SpokenTo, Speaking, SpeechAt, Spoken
  <2>8. \A i : FragmentsTo(said, i, n) = Fragments(i)
    BY Zenon DEF FragmentsTo, Mine, ArgAt, Fragments
  <2>9. Ordered(said) <=> InOrder
    BY Zenon DEF Ordered, InOrder
  <2>10. ToSet(ts) = {ts[i] : i \in DOMAIN ts} /\ ToSet(cs) = {cs[i] : i \in DOMAIN cs}
    BY Zenon DEF ToSet
  <2> HIDE DEF n
  <2>11. Len(ts) = Len(Spoken)
    BY <2>6, <2>7, Zenon DEF TextOf
  <2>12. \A i \in DOMAIN said : said[i].wide => i \in split \/ said[i].text \in ToSet(ts)
    <3>1. \A j \in DOMAIN ts : ts[j] \in ToSet(ts)
      BY <2>10, Zenon
    <3> QED
      BY <2>5, <2>6, <3>1, Zenon DEF TextOf
  <2>13. InOrder => \A c \in ToSet(cs) : c.args = Fragments(c.id)
    BY <2>6, <2>8, <2>9, <2>10, Zenon DEF CallsOf, ArgsOf
  <2>14. {c.id : c \in ToSet(cs)} = {said[i].call.index : i \in DOMAIN said} \ {0}
    <3>1. ASSUME NEW x PROVE x \in seen <=> x \in {said[i].call.index : i \in DOMAIN said} \ {0}
      BY <2>5, <2>6, Zenon DEF CallsOf, Met
    <3>2. ASSUME NEW x PROVE x \in seen <=> x \in {c.id : c \in ToSet(cs)}
      <4>1. x \in {c.id : c \in ToSet(cs)} <=> \E j \in DOMAIN cs : x = cs[j].id
        BY <2>10, Zenon
      <4>2. x \in seen <=> \E j \in DOMAIN cs : x = cs[j].id
        <5>1. IdsOf(seen, cs)
          BY <2>6, Zenon DEF CallsOf
        <5> QED
          BY <5>1, Zenon DEF IdsOf
      <4> QED
        BY <4>1, <4>2
    <3> QED
      BY <3>1, <3>2, Zenon
  <2> QED
    BY <2>2, <2>11, <2>12, <2>13, <2>14, Zenon DEF TurnIsWhole, ts, cs, n
<1>3. ASSUME ShownInv, AnswerInv, [InferenceNext]_inferenceVars PROVE AnswerInv'
  BY <1>3, StepAnswer, Zenon DEF ShownInv
<1>4. ASSUME ShownInv, AnswerInv PROVE TurnIsWhole
  BY <1>1, <1>4, Zenon DEF ShownInv
<1>5. InferenceInit => AnswerInv
  BY InitAnswer, Zenon
<1> HIDE DEF All
<1> QED
  BY <1>3, <1>4, <1>5, ShownAlways, PTL DEF InferenceSpec
=============================================================================
