---------------------------- MODULE ToolDispatch ----------------------------
(***************************************************************************)
(* The in-process dispatch of toolset calls (harness dispatch.rs): the     *)
(* callers of begin_call, the call queue, the table of active Jobs, the    *)
(* parked result senders and cancel tokens, and the dial drivers that run  *)
(* the calls on tool pods.  Every table is keyed by tool first; this is    *)
(* the slice of one tool, shared by several grants.                        *)
(*                                                                         *)
(* Each action is a stretch of code between two awaits; awaits whose other *)
(* side no other task can observe are folded into their neighbour.  A Job  *)
(* is named by the call that spawned it.                                   *)
(***************************************************************************)
EXTENDS Naturals, Sequences, FiniteSets

CONSTANTS
    Calls,        \* call ids
    Grants,       \* the grants the tool is called under
    Keepalive,    \* the toolset's keepalive flag
    None          \* no call, no record

ASSUME NoneAssumption == None \notin Calls
ASSUME KeepaliveAssumption == Keepalive \in BOOLEAN
ASSUME GrantsAssumption == Grants # {}

VARIABLES
    pc,        \* call -> where its begin_call is
    grant,     \* call -> the grant it selects
    target,    \* call -> the Job it was admitted against
    lock,      \* holder of the tool's dispatch lock
    active,    \* grant -> the active Job record
    queue,     \* grant -> pending calls, in order
    senders,   \* calls with a guard parked in result_txs
    shadow,    \* calls in call_ids
    tokens,    \* calls with a token in call_cancel_tokens
    fired,     \* calls whose registered token was cancelled
    ends,      \* call -> terminal frames put on its result channel
    dpc,       \* call -> where the driver its begin_call spawned is
    claimed,   \* driver -> the call it claimed
    owns,      \* driver -> it runs with the call's own token
    evicted,   \* driver -> queued calls it took while retiring
    doomed,    \* driver -> calls it read from the shadow while retiring
    ran,       \* driver/call pairs that reached a pod (history)
    failed     \* Jobs whose record a driver evicted (history)

beginVars  == <<pc, grant, target, lock>>
driverVars == <<dpc, claimed, owns, evicted, doomed>>
vars == <<pc, grant, target, lock, active, queue, senders, shadow, tokens, fired, ends,
          dpc, claimed, owns, evicted, doomed, ran, failed>>

NoJob == [job |-> None, warm |-> FALSE]
Record(c) == [job |-> c, warm |-> Keepalive]

----------------------------------------------------------------------------
Init ==
    /\ pc = [c \in Calls |-> "start"]
    /\ grant \in [Calls -> Grants]
    /\ target = [c \in Calls |-> None]
    /\ lock = None
    /\ active = [g \in Grants |-> NoJob]
    /\ queue = [g \in Grants |-> <<>>]
    /\ senders = {}
    /\ shadow = {}
    /\ tokens = {}
    /\ fired = {}
    /\ ends = [c \in Calls |-> <<>>]
    /\ dpc = [c \in Calls |-> "none"]
    /\ claimed = [c \in Calls |-> None]
    /\ owns = [c \in Calls |-> FALSE]
    /\ evicted = [c \in Calls |-> {}]
    /\ doomed = [c \in Calls |-> {}]
    /\ ran = {}
    /\ failed = {}

\* A guard dropped without its terminal sends the synthetic FAILED.
DropGuards(S) == ends' = [c \in Calls |-> IF c \in S THEN Append(ends[c], "FAILED")
                                                     ELSE ends[c]]

----------------------------------------------------------------------------
(* begin_call *)

\* Mutant of Attach: any grant's warm pod will do.
AttachAnyGrant(c) ==
    /\ pc[c] = "start"
    /\ lock = None
    /\ \E g \in Grants : active[g].warm /\ target' = [target EXCEPT ![c] = active[g].job]
    /\ pc' = [pc EXCEPT ![c] = "publish"]
    /\ UNCHANGED <<grant, lock, active, queue, senders, shadow, tokens, fired, ends,
                   driverVars, ran, failed>>

\* Under the dispatch lock the grant's warm pod is attachable: the call is bound to it.
Attach(c) ==
    /\ pc[c] = "start"
    /\ lock = None
    /\ active[grant[c]].warm
    /\ target' = [target EXCEPT ![c] = active[grant[c]].job]
    /\ pc' = [pc EXCEPT ![c] = "publish"]
    /\ UNCHANGED <<grant, lock, active, queue, senders, shadow, tokens, fired, ends,
                   driverVars, ran, failed>>

\* No attachable record: the lock stays held while the Job is created.
CreateJob(c) ==
    /\ pc[c] = "start"
    /\ lock = None
    /\ ~active[grant[c]].warm
    /\ lock' = c
    /\ pc' = [pc EXCEPT ![c] = "spawn"]
    /\ UNCHANGED <<grant, target, active, queue, senders, shadow, tokens, fired, ends,
                   driverVars, ran, failed>>

\* The Job exists: its record replaces whatever the grant had.
SetActiveJob(c) ==
    /\ pc[c] = "spawn"
    /\ active' = [active EXCEPT ![grant[c]] = Record(c)]
    /\ target' = [target EXCEPT ![c] = c]
    /\ lock' = None
    /\ pc' = [pc EXCEPT ![c] = "publish"]
    /\ UNCHANGED <<grant, queue, senders, shadow, tokens, fired, ends, driverVars, ran,
                   failed>>

\* Creating the Job fails or times out: begin_call returns Err.
CreateFails(c) ==
    /\ pc[c] = "spawn"
    /\ lock' = None
    /\ pc' = [pc EXCEPT ![c] = "err"]
    /\ UNCHANGED <<grant, target, active, queue, senders, shadow, tokens, fired, ends,
                   driverVars, ran, failed>>

\* set_result_tx and register_call_cancel, outside the lock.
Publish(c) ==
    /\ pc[c] = "publish"
    /\ senders' = senders \cup {c}
    /\ shadow' = shadow \cup {c}
    /\ tokens' = tokens \cup {c}
    /\ pc' = [pc EXCEPT ![c] = "enqueue"]
    /\ UNCHANGED <<grant, target, lock, active, queue, fired, ends, driverVars, ran,
                   failed>>

EnqueueCall(c) ==
    /\ pc[c] = "enqueue"
    /\ queue' = [queue EXCEPT ![grant[c]] = Append(@, c)]
    /\ pc' = [pc EXCEPT ![c] = "check"]
    /\ UNCHANGED <<grant, target, lock, active, senders, shadow, tokens, fired, ends,
                   driverVars, ran, failed>>

Queued(c) == \E i \in 1..Len(queue[grant[c]]) : queue[grant[c]][i] = c
RemoveIndex(s, i) == [j \in 1..(Len(s) - 1) |-> IF j < i THEN s[j] ELSE s[j + 1]]

\* Mutant of SpawnDialDriver: an attached call is left for the pod to pull.
DriveOwnJobOnly(c) ==
    /\ dpc' = [dpc EXCEPT ![c] = IF target[c] = c THEN "dequeue" ELSE "done"]
    /\ pc' = [pc EXCEPT ![c] = "ok"]
    /\ UNCHANGED <<claimed, owns, evicted, doomed>>

\* spawn_dial_driver, and begin_call returns the receiver.
SpawnDialDriver(c) ==
    /\ dpc' = [dpc EXCEPT ![c] = "dequeue"]
    /\ pc' = [pc EXCEPT ![c] = "ok"]
    /\ UNCHANGED <<claimed, owns, evicted, doomed>>

\* The record, read again after the unlocked publish, still names the Job.
StillActive(c) ==
    /\ pc[c] = "check"
    /\ active[grant[c]].job = target[c]
    /\ SpawnDialDriver(c)
    /\ UNCHANGED <<grant, target, lock, active, queue, senders, shadow, tokens, fired,
                   ends, ran, failed>>

\* It does not: remove_pending_call will arbitrate with the drivers.
SeesRetired(c) ==
    /\ pc[c] = "check"
    /\ active[grant[c]].job # target[c]
    /\ pc' = [pc EXCEPT ![c] = "withdraw"]
    /\ UNCHANGED <<grant, target, lock, active, queue, senders, shadow, tokens, fired,
                   ends, driverVars, ran, failed>>

\* The call was still queued, and is taken out.
Withdraw(c) ==
    /\ pc[c] = "withdraw"
    /\ \E i \in 1..Len(queue[grant[c]]) :
          /\ queue[grant[c]][i] = c
          /\ queue' = [queue EXCEPT ![grant[c]] = RemoveIndex(@, i)]
    /\ pc' = [pc EXCEPT ![c] = "refuse"]
    /\ UNCHANGED <<grant, target, lock, active, senders, shadow, tokens, fired, ends,
                   driverVars, ran, failed>>

\* Mutant of WithdrawLost: the call is refused though a driver took it.
RefuseAnyway(c) ==
    /\ pc[c] = "withdraw"
    /\ ~Queued(c)
    /\ pc' = [pc EXCEPT ![c] = "refuse"]
    /\ UNCHANGED <<grant, target, lock, active, queue, senders, shadow, tokens, fired,
                   ends, driverVars, ran, failed>>

\* "losing it means a job took the call": the call goes on.
WithdrawLost(c) ==
    /\ pc[c] = "withdraw"
    /\ ~Queued(c)
    /\ SpawnDialDriver(c)
    /\ UNCHANGED <<grant, target, lock, active, queue, senders, shadow, tokens, fired,
                   ends, ran, failed>>

\* finish_call and the parked guard's drop, then Err.
Refuse(c) ==
    /\ pc[c] = "refuse"
    /\ tokens' = tokens \ {c}
    /\ shadow' = shadow \ {c}
    /\ senders' = senders \ {c}
    /\ DropGuards({c} \cap senders)
    /\ pc' = [pc EXCEPT ![c] = "err"]
    /\ UNCHANGED <<grant, target, lock, active, queue, fired, driverVars, ran, failed>>

----------------------------------------------------------------------------
(* The driver d, spawned by call d for the Job target[d] *)

\* Positions of calls admitted against driver d's Job in a grant's queue.
Claimable(d, g) == {i \in 1..Len(queue[g]) : target[queue[g][i]] = target[d]}

\* dequeue_call: the first queued call of a bucket that names the Job.
DequeueCall(d, g) ==
    /\ dpc[d] = "dequeue"
    /\ \E i \in Claimable(d, g) :
          /\ \A j \in Claimable(d, g) : i <= j
          /\ claimed' = [claimed EXCEPT ![d] = queue[g][i]]
          /\ queue' = [queue EXCEPT ![g] = RemoveIndex(@, i)]
    /\ dpc' = [dpc EXCEPT ![d] = "sender"]
    /\ UNCHANGED <<beginVars, active, senders, shadow, tokens, fired, ends, owns,
                   evicted, doomed, ran, failed>>

\* Nothing queued for the Job: the driver returns.
DequeueNothing(d) ==
    /\ dpc[d] = "dequeue"
    /\ \A g \in Grants : Claimable(d, g) = {}
    /\ dpc' = [dpc EXCEPT ![d] = "done"]
    /\ UNCHANGED <<beginVars, active, queue, senders, shadow, tokens, fired, ends,
                   claimed, owns, evicted, doomed, ran, failed>>

\* Mutant of TakeSender: the parked guard is dropped without mark_complete.
TakeSenderUnmarked(d) ==
    /\ dpc[d] = "sender"
    /\ claimed[d] \in senders
    /\ owns' = [owns EXCEPT ![d] = claimed[d] \in tokens]
    /\ senders' = senders \ {claimed[d]}
    /\ DropGuards({claimed[d]})
    /\ dpc' = [dpc EXCEPT ![d] = "dial"]
    /\ UNCHANGED <<beginVars, active, queue, shadow, tokens, fired, claimed, evicted,
                   doomed, ran, failed>>

\* call_cancel_token(..).unwrap_or_default(), a fresh token if none is registered,
\* and take_result_tx: from here dial_and_run owns the terminal guarantee.
TakeSender(d) ==
    /\ dpc[d] = "sender"
    /\ claimed[d] \in senders
    /\ owns' = [owns EXCEPT ![d] = claimed[d] \in tokens]
    /\ senders' = senders \ {claimed[d]}
    /\ dpc' = [dpc EXCEPT ![d] = "dial"]
    /\ UNCHANGED <<beginVars, active, queue, shadow, tokens, fired, ends, claimed,
                   evicted, doomed, ran, failed>>

\* The sender was retired meanwhile: the driver returns.
SenderGone(d) ==
    /\ dpc[d] = "sender"
    /\ claimed[d] \notin senders
    /\ dpc' = [dpc EXCEPT ![d] = "done"]
    /\ UNCHANGED <<beginVars, active, queue, senders, shadow, tokens, fired, ends,
                   claimed, owns, evicted, doomed, ran, failed>>

\* The token this driver holds is cancelled.
SeesCancel(d) == owns[d] /\ claimed[d] \in fired

\* The pod answers the dial and gets the assignment.
Connect(d) ==
    /\ dpc[d] = "dial"
    /\ ran' = ran \cup {<<d, claimed[d]>>}
    /\ dpc' = [dpc EXCEPT ![d] = "run"]
    /\ UNCHANGED <<beginVars, active, queue, senders, shadow, tokens, fired, ends,
                   claimed, owns, evicted, doomed, failed>>

\* finish_call: the token and the shadow of a call that ended.
FinishCall(c) ==
    /\ tokens' = tokens \ {c}
    /\ shadow' = shadow \ {c}

\* Mutant of Lose: a lost call gets no synthetic terminal.
LoseSilently(d) ==
    /\ FinishCall(claimed[d])
    /\ owns' = [owns EXCEPT ![d] = FALSE]
    /\ dpc' = [dpc EXCEPT ![d] = "evict"]
    /\ UNCHANGED <<beginVars, active, queue, senders, fired, ends, claimed, evicted,
                   doomed, ran, failed>>

\* No terminal came: the guard fires one, and the record is to be evicted.
Lose(d) ==
    /\ DropGuards({claimed[d]})
    /\ FinishCall(claimed[d])
    /\ owns' = [owns EXCEPT ![d] = FALSE]
    /\ dpc' = [dpc EXCEPT ![d] = "evict"]
    /\ UNCHANGED <<beginVars, active, queue, senders, fired, claimed, evicted, doomed,
                   ran, failed>>

\* The readiness window ended without a connection.
DialTimesOut(d) == dpc[d] = "dial" /\ ~SeesCancel(d) /\ Lose(d)

\* The token fired before or between two attempts.
DialCancelled(d) == dpc[d] = "dial" /\ SeesCancel(d) /\ Lose(d)

\* The stream fails, ends or resets without a Complete.
RunBreaks(d) == dpc[d] = "run" /\ Lose(d)

\* The pod's terminal Complete is forwarded, the call finished and its Job bumped.
RunCompletes(d) ==
    /\ dpc[d] = "run"
    /\ ends' = [ends EXCEPT ![claimed[d]] = Append(@, "DONE")]
    /\ FinishCall(claimed[d])
    /\ active' = [g \in Grants |-> IF active[g].job = target[d] THEN Record(target[d])
                                                                ELSE active[g]]
    /\ owns' = [owns EXCEPT ![d] = FALSE]
    /\ dpc' = [dpc EXCEPT ![d] = "done"]
    /\ UNCHANGED <<beginVars, queue, senders, fired, claimed, evicted, doomed, ran,
                   failed>>

HasRecord(j) == \E g \in Grants : active[g].job = j

\* remove_active_job_named: only a record of this very Job is evicted ...
Evict(d) ==
    /\ dpc[d] = "evict"
    /\ HasRecord(target[d])
    /\ active' = [g \in Grants |-> IF active[g].job = target[d] THEN NoJob ELSE active[g]]
    /\ failed' = failed \cup {target[d]}
    /\ dpc' = [dpc EXCEPT ![d] = "retire"]
    /\ UNCHANGED <<beginVars, queue, senders, shadow, tokens, fired, ends, claimed,
                   owns, evicted, doomed, ran>>

\* ... and a superseded or missing one retires nothing.
NothingToEvict(d) ==
    /\ dpc[d] = "evict"
    /\ ~HasRecord(target[d])
    /\ dpc' = [dpc EXCEPT ![d] = "done"]
    /\ UNCHANGED <<beginVars, active, queue, senders, shadow, tokens, fired, ends,
                   claimed, owns, evicted, doomed, ran, failed>>

Elements(s) == {s[i] : i \in 1..Len(s)}

\* retire_calls_for_tool_job: every bucket of the tool is emptied ...
RetireQueue(d) ==
    /\ dpc[d] = "retire"
    /\ evicted' = [evicted EXCEPT ![d] = UNION {Elements(queue[g]) : g \in Grants}]
    /\ queue' = [g \in Grants |-> <<>>]
    /\ dpc' = [dpc EXCEPT ![d] = "retireShadow"]
    /\ UNCHANGED <<beginVars, active, senders, shadow, tokens, fired, ends, claimed,
                   owns, doomed, ran, failed>>

\* ... the tool's calls are read from the shadow ...
RetireShadow(d) ==
    /\ dpc[d] = "retireShadow"
    /\ doomed' = [doomed EXCEPT ![d] = shadow]
    /\ dpc' = [dpc EXCEPT ![d] = "retireSenders"]
    /\ UNCHANGED <<beginVars, active, queue, senders, shadow, tokens, fired, ends,
                   claimed, owns, evicted, ran, failed>>

\* ... their parked guards are taken and, with the shadow entries, dropped ...
RetireSenders(d) ==
    /\ dpc[d] = "retireSenders"
    /\ senders' = senders \ doomed[d]
    /\ shadow' = shadow \ doomed[d]
    /\ DropGuards(doomed[d] \cap senders)
    /\ doomed' = [doomed EXCEPT ![d] = {}]
    /\ dpc' = [dpc EXCEPT ![d] = "retireTokens"]
    /\ UNCHANGED <<beginVars, active, queue, tokens, fired, claimed, owns, evicted, ran,
                   failed>>

\* ... and the cancel of each evicted call is fired.
RetireTokens(d) ==
    /\ dpc[d] = "retireTokens"
    /\ fired' = fired \cup (evicted[d] \cap tokens)
    /\ tokens' = tokens \ evicted[d]
    /\ evicted' = [evicted EXCEPT ![d] = {}]
    /\ dpc' = [dpc EXCEPT ![d] = "done"]
    /\ UNCHANGED <<beginVars, active, queue, senders, shadow, ends, claimed, owns,
                   doomed, ran, failed>>

----------------------------------------------------------------------------
(* The rest of the harness, and time *)

\* fire_call_cancel, by the router on a cancelled turn or a client's CancelTool.
FireCallCancel(c) ==
    /\ pc[c] = "ok"
    /\ c \in tokens
    /\ tokens' = tokens \ {c}
    /\ fired' = fired \cup {c}
    /\ UNCHANGED <<beginVars, active, queue, senders, shadow, ends, driverVars, ran,
                   failed>>

\* attachable: the keepalive window, less its margin, has passed.
WindowPasses(g) ==
    /\ active[g].warm
    /\ active' = [active EXCEPT ![g].warm = FALSE]
    /\ UNCHANGED <<beginVars, queue, senders, shadow, tokens, fired, ends, driverVars,
                   ran, failed>>

BeginStep(c) ==
    \/ Attach(c) \/ CreateJob(c) \/ SetActiveJob(c) \/ CreateFails(c) \/ Publish(c)
    \/ EnqueueCall(c) \/ StillActive(c) \/ SeesRetired(c) \/ Withdraw(c)
    \/ WithdrawLost(c) \/ Refuse(c)

\* What a pod that was reached does, and the rest of the driver.
PodStep(d) == RunCompletes(d) \/ RunBreaks(d)

DriverStep(d) ==
    \/ \E g \in Grants : DequeueCall(d, g)
    \/ DequeueNothing(d) \/ TakeSender(d) \/ SenderGone(d)
    \/ Connect(d) \/ DialTimesOut(d) \/ DialCancelled(d)
    \/ Evict(d) \/ NothingToEvict(d)
    \/ RetireQueue(d) \/ RetireShadow(d) \/ RetireSenders(d) \/ RetireTokens(d)

Quiet == \A c \in Calls : pc[c] \in {"ok", "err"} /\ dpc[c] \in {"none", "done"}

\* Nothing left to do: every call of the instance was begun and driven.
AllServed == Quiet /\ UNCHANGED vars

Next ==
    \/ \E c \in Calls : BeginStep(c) \/ DriverStep(c) \/ PodStep(c) \/ FireCallCancel(c)
    \/ \E g \in Grants : WindowPasses(g)
    \/ AllServed

Spec == Init /\ [][Next]_vars

(* The runtime schedules its tasks; the API call is under a timeout and a  *)
(* dial under the readiness window.  What a pod does is not assumed here.  *)
FairSpec ==
    /\ Spec
    /\ \A c \in Calls : WF_vars(BeginStep(c)) /\ WF_vars(DriverStep(c))

----------------------------------------------------------------------------
(* Properties *)

CallPC == {"start", "spawn", "publish", "enqueue", "check", "withdraw", "refuse", "ok",
           "err"}
DriverPC == {"none", "dequeue", "sender", "dial", "run", "evict", "retire",
             "retireShadow", "retireSenders", "retireTokens", "done"}

\* Every variable has its type; the dispatch lock is held exactly while a Job is created.
TypeOK ==
    /\ pc \in [Calls -> CallPC]
    /\ grant \in [Calls -> Grants]
    /\ target \in [Calls -> Calls \cup {None}]
    /\ lock \in Calls \cup {None}
    /\ \A c \in Calls : pc[c] = "spawn" <=> lock = c
    /\ active \in [Grants -> [job : Calls \cup {None}, warm : BOOLEAN]]
    /\ queue \in [Grants -> Seq(Calls)]
    /\ senders \subseteq Calls
    /\ shadow \subseteq Calls
    /\ tokens \subseteq Calls
    /\ fired \subseteq Calls
    /\ ends \in [Calls -> Seq({"DONE", "FAILED"})]
    /\ dpc \in [Calls -> DriverPC]
    /\ claimed \in [Calls -> Calls \cup {None}]
    /\ owns \in [Calls -> BOOLEAN]
    /\ evicted \in [Calls -> SUBSET Calls]
    /\ doomed \in [Calls -> SUBSET Calls]
    /\ ran \subseteq Calls \X Calls
    /\ failed \subseteq Calls

\* A driver still answers for the call it claimed.
Driving(d) == dpc[d] \in {"dial", "run"}
HeldByDriver(c) == \E d \in Calls : Driving(d) /\ claimed[d] = c
NeverClaimed(c) == \A d \in Calls : claimed[d] # c

\* ToolResultGuard: a call's channel never gets two terminals, and once neither a
\* parked guard nor a driver holds its sender it has got one, unless begin_call
\* never handed out the receiver.
OneTerminal ==
    \A c \in Calls :
        /\ Len(ends[c]) <= 1
        /\ pc[c] = "ok" /\ c \notin senders /\ ~HeldByDriver(c) => Len(ends[c]) = 1

\* "a call for one grant never lands in another grant's bucket": what reaches a
\* pod is a call of the grant the pod's Job was spawned for.
GrantContained ==
    \A p \in ran : grant[p[2]] = grant[target[p[1]]] /\ target[p[1]] = target[p[2]]

\* "exactly one removes the entry": no call is run by two drivers, and none that
\* begin_call refused is run at all.
RunsOnce ==
    /\ \A p, q \in ran : p[2] = q[2] => p[1] = q[1]
    /\ \A p \in ran : pc[p[2]] # "err"

\* When all callers and drivers are through, no call is left queued and no sender
\* parked: every admitted call found a driver, its own or a peer's.
NothingStranded ==
    Quiet => senders = {} /\ \A g \in Grants : queue[g] = <<>>

\* If pods that are reached answer or break off, every receiver begin_call hands
\* out sees a terminal frame ("the producer's drain always terminates").
EveryCallEnds ==
    (\A d \in Calls : WF_vars(PodStep(d)))
        => \A c \in Calls : pc[c] = "ok" ~> Len(ends[c]) = 1

\* "neither can evict the other": a call ends without being dialed only if its own
\* Job's record was evicted.
FailedOnlyWithItsJob ==
    \A c \in Calls : pc[c] = "ok" /\ Len(ends[c]) = 1 /\ NeverClaimed(c)
        => target[c] \in failed

\* "Fire the per-call cancel so the tool pod ... wakes and stops": the token a
\* driver runs a cancelled call with is the one that was fired.
CancelReachesDriver ==
    \A d \in Calls : Driving(d) /\ claimed[d] \in fired => owns[d]
=============================================================================
