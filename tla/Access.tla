-------------------------------- MODULE Access --------------------------------
(***************************************************************************)
(* Who the relay serves (gateway.rs, identity.rs, identity_watcher.rs,     *)
(* capabilities.rs and the shared auth, configmap_watcher and              *)
(* watcher_retry).  Every call is checked step by step against three       *)
(* authorities that change under it: the bearer token and the subject's    *)
(* reach, both reviewed by the API server, and for a channel the handle,   *)
(* looked up in a table that a watcher copies from ConfigMaps.  An open    *)
(* stream repeats the checks before each item.  A call that names a        *)
(* conversation also needs its owner, from a cache or from the harness.    *)
(*                                                                         *)
(* One workspace and one channel.  A call's steps are its awaits.          *)
(***************************************************************************)
EXTENDS Naturals, Sequences, FiniteSets

CONSTANTS
    Subjects, Handles, Convs,
    Cms,        \* names of identity ConfigMaps
    First,      \* the ConfigMaps the relay finds: name -> row, or None
    Calls,      \* calls and stream items under way at a time
    Streams,
    None,
    MaxEdits,   \* bound: edits and revocations by the operator
    MaxFaults   \* bound: watch errors and crashes of the relay

\* The ServiceAccount token of the channel.
Channel == "channel"
Callers == Subjects \cup {Channel}

Broken == [subject |-> None, handle |-> None]
\* A ConfigMap that parses: one subject, and perhaps a handle of it.
Rows == [subject : Subjects, handle : Handles \cup {None}]
\* What the ConfigMaps may be: name -> row, or None.
Deliveries == [Cms -> Rows \cup {Broken, None}]

\* A stream's binding, and a call under way.
Bindings == [caller : Callers, sender : Handles \cup {None}, subject : Subjects, open : BOOLEAN]
CallRecords ==
    [pc : {"token", "handle", "reach", "owner", "resolve", "forward", "record", "served"},
     what : {"receive", "item", "mint", "use", "delete", "plain"}, stream : Streams \cup {None},
     caller : Callers, sender : Handles \cup {None}, subject : Subjects \cup {None},
     conv : Convs \cup {None}, held : SUBSET {"token", "handle", "reach"}]

ASSUME NoneAssumption ==
    None \notin Subjects \cup Handles \cup Convs \cup Streams \cup Rows \cup {Broken, "deleted"}
                 \cup Bindings \cup CallRecords
ASSUME SubjectsAssumption == Channel \notin Subjects /\ "deleted" \notin Subjects
ASSUME CmsAssumption == IsFiniteSet(Cms) /\ First \in Deliveries
ASSUME BoundsAssumption == {MaxEdits, MaxFaults} \subseteq Nat

VARIABLES
    states,     \* what the ConfigMaps were, oldest first; the last is now
    tokens,     \* callers whose token is valid
    reach,      \* subjects that may reach the workspace
    watch,      \* the watcher: [pc, at, todo, scratch, current]
    table,      \* the live IdentityTable: handle -> subject
    installed,  \* the state the table was made from (history)
    serving,    \* the relay's servers are up
    owners,     \* the harness's stamp: conversation -> subject
    cache,      \* conversation_owners of the relay
    streams,    \* channel stream -> its binding [caller, sender, subject, open], or None
    calls,      \* call -> its record, or None
    edits, faults

authVars == <<states, tokens, reach>>
relayVars == <<watch, table, installed, serving>>
vars == <<states, tokens, reach, watch, table, installed, serving, owners, cache, streams,
          calls, edits, faults>>

Cm == states[Len(states)]
Edit == edits < MaxEdits /\ edits' = edits + 1
Fault == faults < MaxFaults /\ faults' = faults + 1

----------------------------------------------------------------------------
(* The identity table. *)

NoTable == [h \in Handles |-> None]

\* A set of ConfigMaps: name -> row, for the ones that are there.
Present(s) == {n \in Cms : s[n] # None}

Claims(s, h) == {n \in Present(s) : s[n].handle = h}

\* apply_delivery: a ConfigMap that does not parse is absent, and a handle
\* claimed twice resolves to nobody.
ApplyDelivery(s) ==
    [h \in Handles |-> IF Cardinality(Claims(s, h)) = 1
                       THEN s[CHOOSE n \in Claims(s, h) : TRUE].subject ELSE None]

Nothing == [n \in Cms |-> None]
Down == [pc |-> "down", at |-> 0, todo |-> {}, scratch |-> Nothing, current |-> Nothing]

\* review_token_username and review_reach, answered by the API server.
TokenReview(caller) == caller \in tokens
SubjectAccessReview(subject) == subject \in reach

\* The authorities that hold for a call now.  Before a channel's sender is
\* resolved the call has no subject.
Holding(c, t) ==
    {a \in {"token", "handle", "reach"} :
        CASE a = "token" -> TokenReview(c.caller)
          [] a = "handle" -> c.caller = Channel /\ t[c.sender] # None
                             /\ c.subject \in {None, t[c.sender]}
          [] a = "reach" -> SubjectAccessReview(c.subject)}

\* install: the table is replaced whole.  A call under way may use what it now
\* says.
Install(s, v) ==
    /\ table' = ApplyDelivery(s)
    /\ installed' = v
    /\ calls' = [i \in Calls |->
                   IF calls[i] = None THEN None
                   ELSE [calls[i] EXCEPT !.held = @ \cup Holding(calls[i], table')]]

----------------------------------------------------------------------------
Init ==
    /\ states = <<First>>
    /\ tokens = Callers
    /\ reach = Subjects
    /\ watch = Down
    /\ table = NoTable
    /\ installed = 0
    /\ serving = FALSE
    /\ owners = [k \in Convs |-> None]
    /\ cache = [k \in Convs |-> None]
    /\ streams = [s \in Streams |-> None]
    /\ calls = [i \in Calls |-> None]
    /\ edits = 0
    /\ faults = 0

----------------------------------------------------------------------------
(* The operator. *)

EditConfigMap(n, r) ==
    /\ Edit
    /\ Cm[n] # r
    /\ states' = Append(states, [Cm EXCEPT ![n] = r])
    /\ UNCHANGED <<tokens, reach, relayVars, owners, cache, streams, calls, faults>>

RevokeToken(x) ==
    /\ Edit
    /\ x \in tokens
    /\ tokens' = tokens \ {x}
    /\ UNCHANGED <<states, reach, relayVars, owners, cache, streams, calls, faults>>

RevokeReach(x) ==
    /\ Edit
    /\ x \in reach
    /\ reach' = reach \ {x}
    /\ UNCHANGED <<states, tokens, relayVars, owners, cache, streams, calls, faults>>

----------------------------------------------------------------------------
(* The watcher. *)

OnlyWatch == UNCHANGED <<authVars, table, installed, serving, owners, cache, streams, calls, edits>>

\* Mutant of StartWatch: the watch ends with its first error.
StartWatchOnce ==
    /\ faults = 0
    /\ watch.pc = "down"
    /\ watch' = [watch EXCEPT !.pc = "list", !.at = Len(states), !.todo = Present(Cm),
                              !.scratch = Nothing]
    /\ UNCHANGED faults
    /\ OnlyWatch

\* run_watcher_forever starts the watch with fresh locals; a list is a snapshot.
StartWatch ==
    /\ watch.pc = "down"
    /\ watch' = [watch EXCEPT !.pc = "list", !.at = Len(states), !.todo = Present(Cm),
                              !.scratch = Nothing]
    /\ UNCHANGED faults
    /\ OnlyWatch

\* The API server drops the watch and the stream lists again.
Relist ==
    /\ Fault
    /\ watch.pc = "live"
    /\ watch' = [watch EXCEPT !.pc = "list", !.at = Len(states), !.todo = Present(Cm),
                              !.scratch = Nothing]
    /\ OnlyWatch

\* The error ends the watch: its sets are gone, the table stays.
WatchError ==
    /\ Fault
    /\ watch.pc # "down"
    /\ watch' = Down
    /\ OnlyWatch

\* Mutant of InitApply: the listed ConfigMaps go into the live set.
InitApplyLive(n) ==
    /\ watch.pc = "list"
    /\ n \in watch.todo
    /\ LET c == [watch.scratch EXCEPT ![n] = states[watch.at][n]]
       IN  /\ watch' = [watch EXCEPT !.todo = @ \ {n}, !.scratch = c]
           /\ Install(c, watch.at)
    /\ UNCHANGED <<authVars, serving, owners, cache, streams, edits, faults>>

InitApply(n) ==
    /\ watch.pc = "list"
    /\ n \in watch.todo
    /\ watch' = [watch EXCEPT !.todo = @ \ {n}, !.scratch[n] = states[watch.at][n]]
    /\ UNCHANGED faults
    /\ OnlyWatch

\* The servers start when both watchers have synced; 10 s without is a crash.
InitDone ==
    /\ watch.pc = "list"
    /\ watch.todo = {}
    /\ watch' = [watch EXCEPT !.pc = "live", !.current = watch.scratch, !.scratch = Nothing]
    /\ Install(watch.scratch, watch.at)
    /\ serving' = TRUE
    /\ UNCHANGED <<authVars, owners, cache, streams, edits, faults>>

\* The ConfigMap that the next edit changed is applied or deleted.
WatchEvent ==
    LET v == watch.at + 1
        n == CHOOSE m \in Cms : states[v][m] # states[watch.at][m]
        c == [watch.current EXCEPT ![n] = states[v][n]]
    IN  /\ watch.pc = "live"
        /\ watch.at < Len(states)
        /\ watch' = [watch EXCEPT !.at = v, !.current = c]
        /\ Install(c, v)
        /\ UNCHANGED <<authVars, serving, owners, cache, streams, edits, faults>>

RelayCrash ==
    /\ Fault
    /\ watch' = Down
    /\ table' = NoTable
    /\ installed' = 0
    /\ serving' = FALSE
    /\ cache' = [k \in Convs |-> None]
    /\ streams' = [s \in Streams |-> None]
    /\ calls' = [i \in Calls |-> None]
    /\ UNCHANGED <<authVars, owners, edits>>

----------------------------------------------------------------------------
(* The calls. *)

OnlyCalls == UNCHANGED <<authVars, relayVars, owners, cache, streams, edits, faults>>

Put(i, c) == calls' = [calls EXCEPT ![i] = c]
Goto(i, pc) == Put(i, [calls[i] EXCEPT !.pc = pc])
At(i, pc) == calls[i] # None /\ calls[i].pc = pc

Begin(i, what, s, caller, sender, subject, conv) ==
    LET c == [pc |-> "token", what |-> what, stream |-> s, caller |-> caller, sender |-> sender,
              subject |-> subject, conv |-> conv, held |-> {}]
    IN  /\ serving
        /\ calls[i] = None
        /\ Put(i, [c EXCEPT !.held = Holding(c, table)])
        /\ OnlyCalls

\* The calls under way that a stream's own task makes.
Own(s, what) == {j \in Calls : IF calls[j] = None THEN FALSE
                                ELSE calls[j].stream = s /\ calls[j].what = what}

\* channel_stream_receive: a person is its own subject, a channel names a sender.
Receive(i, s) ==
    /\ streams[s] = None
    /\ Own(s, "receive") \cup Own(s, "item") = {}
    /\ \/ \E x \in Subjects : Begin(i, "receive", s, x, None, x, None)
       \/ \E h \in Handles : Begin(i, "receive", s, Channel, h, None, None)

\* A frame of an open stream is taken up; a stream has one at a time.
TakeItem(i, s) ==
    /\ streams[s] # None /\ streams[s].open
    /\ Own(s, "receive") \cup Own(s, "item") = {}
    /\ Begin(i, "item", s, streams[s].caller, streams[s].sender, streams[s].subject, None)

\* channel_stream_ingest by the caller that opened the stream, which may be
\* draining.  A message without a conversation mints one, a ClientResponse
\* routes none.
Ingest(i, s, what, conv) ==
    /\ streams[s] # None
    /\ (what = "use") = (conv # None)
    /\ Begin(i, what, s, streams[s].caller, streams[s].sender, streams[s].subject, conv)

\* The RPCs of a person: MintConversation, the ones that name a conversation,
\* DeleteConversation among them, and the ones that name none.
PersonRpc(i, x, what, conv) ==
    /\ (what \in {"use", "delete"}) = (conv # None)
    /\ Begin(i, what, None, x, None, x, conv)

\* The end of a refused call; it ends the stream if it was its item.
Refuse(i) ==
    /\ calls' = [calls EXCEPT ![i] = None]
    /\ streams' = IF calls[i].what = "item" THEN [streams EXCEPT ![calls[i].stream].open = FALSE]
                  ELSE streams
    /\ UNCHANGED <<authVars, relayVars, owners, cache, edits, faults>>

\* authenticate; an ingest then looks its stream up.
CheckToken(i) ==
    /\ At(i, "token")
    /\ IF /\ TokenReview(calls[i].caller)
          /\ calls[i].stream # None /\ calls[i].what # "receive" => streams[calls[i].stream] # None
       THEN Goto(i, IF calls[i].caller = Channel THEN "handle" ELSE "reach") /\ OnlyCalls
       ELSE Refuse(i)

\* resolve_sender, and require_sender for a stream that is open.
CheckHandle(i) ==
    LET x == table[calls[i].sender]
        c == [calls[i] EXCEPT !.pc = "reach", !.subject = x]
    IN  /\ At(i, "handle")
        /\ IF x # None /\ calls[i].subject \in {None, x}
           THEN Put(i, [c EXCEPT !.held = @ \cup Holding(c, table)]) /\ OnlyCalls
           ELSE Refuse(i)

\* Mutant of CheckReach: an item is let through without a review.
CheckReachOnce(i) ==
    /\ At(i, "reach")
    /\ IF SubjectAccessReview(calls[i].subject) \/ calls[i].what = "item"
       THEN Goto(i, IF calls[i].conv = None THEN "forward" ELSE "owner") /\ OnlyCalls
       ELSE Refuse(i)

CheckReach(i) ==
    /\ At(i, "reach")
    /\ IF SubjectAccessReview(calls[i].subject)
       THEN Goto(i, IF calls[i].conv = None THEN "forward" ELSE "owner") /\ OnlyCalls
       ELSE Refuse(i)

\* conversation_access: a miss is not a permission.
CheckOwner(i) ==
    LET o == cache[calls[i].conv]
    IN  /\ At(i, "owner")
        /\ \/ o = calls[i].subject /\ Goto(i, "forward") /\ OnlyCalls
           \/ o = None /\ Goto(i, "resolve") /\ OnlyCalls
           \/ o \notin {None, calls[i].subject} /\ Refuse(i)

\* resolve_conversation_owner: the harness lists what the subject owns.
ResolveOwner(i) ==
    /\ At(i, "resolve")
    /\ IF owners[calls[i].conv] = calls[i].subject
       THEN /\ cache' = [cache EXCEPT ![calls[i].conv] = calls[i].subject]
            /\ Goto(i, "forward")
            /\ UNCHANGED <<authVars, relayVars, owners, streams, edits, faults>>
       ELSE Refuse(i)

\* A review or the harness does not answer.
CheckFails(i) ==
    /\ calls[i] # None
    /\ calls[i].pc \notin {"served", "record"}
    /\ Refuse(i)

\* The call is served: the stream opens, the item goes out, the harness mints or
\* deletes.  A minted id is fresh.
Forward(i) ==
    LET c == calls[i]
    IN  /\ At(i, "forward")
        /\ \/ /\ c.what = "receive"
              /\ streams' = [streams EXCEPT ![c.stream] =
                               [caller |-> c.caller, sender |-> c.sender, subject |-> c.subject,
                                open |-> TRUE]]
              /\ Goto(i, "served")
              /\ UNCHANGED owners
           \/ /\ c.what = "mint"
              /\ \E k \in Convs :
                   /\ owners[k] = None
                   /\ owners' = [owners EXCEPT ![k] = c.subject]
                   /\ Put(i, [c EXCEPT !.pc = "record", !.conv = k])
              /\ UNCHANGED streams
           \/ /\ c.what = "delete"
              /\ owners' = [owners EXCEPT ![c.conv] = IF @ = c.subject THEN "deleted" ELSE @]
              /\ Goto(i, "served")
              /\ UNCHANGED streams
           \/ /\ c.what \in {"item", "use", "plain"}
              /\ Goto(i, "served")
              /\ UNCHANGED <<owners, streams>>
        /\ UNCHANGED <<authVars, relayVars, cache, edits, faults>>

\* record_conversation_owner for a conversation just minted.
RecordOwner(i) ==
    /\ At(i, "record")
    /\ cache' = [cache EXCEPT ![calls[i].conv] = calls[i].subject]
    /\ Goto(i, "served")
    /\ UNCHANGED <<authVars, relayVars, owners, streams, edits, faults>>

Finish(i) ==
    /\ At(i, "served")
    /\ Put(i, None)
    /\ OnlyCalls

\* The client goes; its stream drains.
Disconnect(s) ==
    /\ streams[s] # None /\ streams[s].open
    /\ streams' = [streams EXCEPT ![s].open = FALSE]
    /\ calls' = [i \in Calls |-> IF i \in Own(s, "item") THEN None ELSE calls[i]]
    /\ UNCHANGED <<authVars, relayVars, owners, cache, edits, faults>>

\* The guard of a dropped stream unregisters it after the drain.
Unregister(s) ==
    /\ streams[s] # None /\ ~streams[s].open
    /\ streams' = [streams EXCEPT ![s] = None]
    /\ UNCHANGED <<authVars, relayVars, owners, cache, calls, edits, faults>>

----------------------------------------------------------------------------
WatchStep == StartWatch \/ (\E n \in Cms : InitApply(n)) \/ InitDone \/ WatchEvent

CallStep(i) ==
    \/ CheckToken(i) \/ CheckHandle(i) \/ CheckReach(i) \/ CheckOwner(i) \/ ResolveOwner(i)
    \/ CheckFails(i) \/ Forward(i) \/ RecordOwner(i) \/ Finish(i)

NewCall(i) ==
    \/ \E s \in Streams :
         \/ Receive(i, s) \/ TakeItem(i, s)
         \/ \E k \in Convs \cup {None}, what \in {"mint", "use", "plain"} : Ingest(i, s, what, k)
    \/ \E x \in Subjects, k \in Convs \cup {None}, what \in {"mint", "use", "delete", "plain"} :
         PersonRpc(i, x, what, k)

Next ==
    \/ \E n \in Cms, r \in Rows \cup {None, Broken} : EditConfigMap(n, r)
    \/ \E x \in Callers : RevokeToken(x)
    \/ \E x \in Subjects : RevokeReach(x)
    \/ WatchStep \/ Relist \/ WatchError \/ RelayCrash
    \/ \E i \in Calls : NewCall(i) \/ CallStep(i)
    \/ \E s \in Streams : Disconnect(s) \/ Unregister(s)

Spec == Init /\ [][Next]_vars

\* The watcher's task runs, and starts again after its backoff.
FairSpec == Spec /\ WF_vars(WatchStep)

----------------------------------------------------------------------------
TypeOK ==
    /\ states \in Seq(Deliveries)
    /\ tokens \subseteq Callers /\ reach \subseteq Subjects
    /\ watch \in [pc : {"down", "list", "live"}, at : Nat, todo : SUBSET Cms, scratch : Deliveries,
                  current : Deliveries]
    /\ table \in [Handles -> Subjects \cup {None}]
    /\ installed \in Nat /\ serving \in BOOLEAN
    /\ owners \in [Convs -> Subjects \cup {None, "deleted"}]
    /\ cache \in [Convs -> Subjects \cup {None}]
    /\ streams \in [Streams -> Bindings \cup {None}]
    /\ calls \in [Calls -> CallRecords \cup {None}]
    /\ edits \in Nat /\ faults \in Nat

Needed(c) == IF c.caller = Channel THEN {"token", "handle", "reach"} ELSE {"token", "reach"}

\* Whatever changes while its checks run, a call is served, and an item of an
\* open stream goes out, only if each thing that admits it held at some moment
\* since the call began or the item was taken; and what names a conversation
\* is served to its owner alone, cached or not (reauthorized,
\* channel_stream_ingest, require_conversation_subject).
ServedOnlyIfAllowed ==
    \A i \in Calls : At(i, "served") =>
        /\ Needed(calls[i]) \subseteq calls[i].held
        /\ calls[i].conv # None => owners[calls[i].conv] \in {calls[i].subject, "deleted"}

\* The live table is what the ConfigMaps said at one moment, whole, a handle
\* claimed twice left out; a failing or restarting watch never shows a part of
\* a list (watch_configmaps, apply_delivery).
TableIsDelivery ==
    /\ installed = 0 => table = NoTable /\ ~serving
    /\ installed # 0 =>
         \A h \in Handles :
            table[h] = IF \E n \in Cms : Claims(states[installed], h) = {n}
                       THEN states[installed][CHOOSE n \in Cms : states[installed][n] # None
                                               /\ states[installed][n].handle = h].subject
                       ELSE None

\* A handle that the ConfigMaps no longer bind to a subject stops resolving to
\* it, whatever errors the watch meets (run_watcher_forever).
RevocationTakesEffect ==
    \A h \in Handles, x \in Subjects :
        ApplyDelivery(Cm)[h] # x ~> table[h] # x \/ ApplyDelivery(Cm)[h] = x
=============================================================================
