---------------------------- MODULE Access_proofs ----------------------------
(***************************************************************************)
(* Theorems about Access, for all subjects, handles, ConfigMaps, calls and *)
(* streams, and every bound on edits and faults.                           *)
(***************************************************************************)
EXTENDS Access, FiniteSetTheorems, SequenceTheorems, TLAPS

----------------------------------------------------------------------------
(* The inductive invariant *)

\* Two deliveries that follow one another differ in one ConfigMap.
OneEdit(s, t) == \E n \in Cms : t[n] # s[n] /\ \A m \in Cms \ {n} : t[m] = s[m]

\* What has been listed of delivery s when todo is left.
Listed(s, todo) == [n \in Cms |-> IF n \in todo THEN None ELSE s[n]]

\* The watcher's sets and the table are of deliveries.
Watching ==
    /\ Len(states) > 0
    /\ \A v \in 1..(Len(states) - 1) : OneEdit(states[v], states[v + 1])
    /\ watch.pc # "down" => watch.at \in 1..Len(states)
    /\ watch.pc = "list" => watch.scratch = Listed(states[watch.at], watch.todo)
    /\ watch.pc = "live" => watch.current = states[watch.at]
    /\ installed = 0 => table = NoTable /\ ~serving
    /\ installed # 0 => installed \in 1..Len(states) /\ table = ApplyDelivery(states[installed])

\* Who a call or a stream speaks for: a person for itself, a channel for a sender.
Speaks(c) == IF c.caller = Channel THEN c.sender \in Handles ELSE c.subject = c.caller

\* What admits a call now is noted with it.
Noted(c) ==
    /\ c.caller \in tokens => "token" \in c.held
    /\ c.caller = Channel /\ table[c.sender] # None /\ c.subject \in {None, table[c.sender]}
         => "handle" \in c.held
    /\ c.subject \in reach => "reach" \in c.held

\* The checks a call has behind it.
Checked(c) ==
    /\ c.pc # "token" => "token" \in c.held
    /\ c.pc = "handle" => c.caller = Channel
    /\ c.pc \notin {"token", "handle"} => c.subject \in Subjects
    /\ c.pc \notin {"token", "handle"} /\ c.caller = Channel => "handle" \in c.held
    /\ c.pc \notin {"token", "handle", "reach"} => "reach" \in c.held

\* The conversation a call names, and whether it is the caller's.
Names(c) ==
    /\ c.pc \in {"owner", "resolve", "record"} => c.conv # None
    /\ c.what = "delete" => c.conv # None
    /\ c.what = "mint" /\ c.pc \notin {"record", "served"} => c.conv = None
    /\ c.pc \in {"forward", "record", "served"} /\ c.conv # None
         => owners[c.conv] \in {c.subject, "deleted"}

CallOK(c) == Speaks(c) /\ Noted(c) /\ Checked(c) /\ Names(c)

CallsOK == \A i \in Calls : calls[i] # None => CallOK(calls[i])

\* A stream's own task has one call at a time: its opening, or an item while it is open.
Tasks ==
    \A i \in Calls : calls[i] # None =>
        /\ calls[i].what \in {"receive", "item"} => calls[i].stream \in Streams
        /\ calls[i].what = "item" =>
             streams[calls[i].stream] # None /\ streams[calls[i].stream].open
        /\ calls[i].what = "receive" /\ calls[i].pc # "served" => streams[calls[i].stream] = None
        /\ calls[i].what \in {"receive", "item"} =>
             \A j \in Calls \ {i} : calls[j] # None /\ calls[j].what \in {"receive", "item"}
                                      => calls[j].stream # calls[i].stream

StreamsOK == \A s \in Streams : streams[s] # None => Speaks(streams[s])

CacheOK == \A k \in Convs : cache[k] # None => owners[k] \in {cache[k], "deleted"}

Inv == TypeOK /\ Watching /\ CallsOK /\ Tasks /\ StreamsOK /\ CacheOK

----------------------------------------------------------------------------
(* Records *)

Pcs == {"token", "handle", "reach", "owner", "resolve", "forward", "record", "served"}

\* Two calls are the same but for where they are, what is noted and the fields given.
SameCall(d, c) ==
    /\ d.what = c.what /\ d.stream = c.stream /\ d.caller = c.caller /\ d.sender = c.sender

Watchers == [pc : {"down", "list", "live"}, at : Nat, todo : SUBSET Cms, scratch : Deliveries,
             current : Deliveries]

----------------------------------------------------------------------------
(* The calls *)

\* What of a call's authorities holds, in the state before and after a step.
LEMMA HoldingFacts ==
    ASSUME NEW c, NEW t
    PROVE  /\ Holding(c, t) \in SUBSET {"token", "handle", "reach"}
           /\ c.caller \in tokens => "token" \in Holding(c, t)
           /\ c.caller = Channel /\ t[c.sender] # None /\ c.subject \in {None, t[c.sender]}
                => "handle" \in Holding(c, t)
           /\ c.subject \in reach => "reach" \in Holding(c, t)
BY DEF Holding, TokenReview, SubjectAccessReview

\* Owners are stamped once and only then marked deleted.
OwnersKept == \A k \in Convs : owners'[k] = owners[k] \/ owners[k] = None \/ owners'[k] = "deleted"

\* A call that stays as it is stays in order.
LEMMA CallsStep ==
    ASSUME Inv, TypeOK', table' = table, tokens' \subseteq tokens, reach' \subseteq reach, OwnersKept,
           \A j \in Calls : calls'[j] # None => calls'[j] = calls[j] \/ CallOK(calls[j])'
    PROVE  CallsOK'
<1> SUFFICES ASSUME NEW j \in Calls, calls'[j] # None, calls'[j] = calls[j]
             PROVE  CallOK(calls[j])'
  BY DEF CallsOK
<1>1. calls[j] \in CallRecords /\ CallOK(calls[j])
  BY DEF Inv, TypeOK, CallsOK
<1>2. Speaks(calls[j])' /\ Checked(calls[j])'
  BY <1>1 DEF CallOK, Speaks, Checked
<1>3. Noted(calls[j])'
  BY <1>1 DEF CallOK, Noted
<1>4. Names(calls[j])'
  <2>1. calls[j].conv \in Convs \cup {None}
    BY <1>1 DEF CallRecords
  <2>2. calls[j].pc \in {"forward", "record", "served"} => calls[j].subject \in Subjects
    BY <1>1 DEF CallOK, Checked
  <2> QED
    BY <1>1, <2>1, <2>2, NoneAssumption DEF CallOK, Names, OwnersKept
<1> QED
  BY <1>2, <1>3, <1>4 DEF CallOK

\* A step of one call.
LEMMA MoveCall ==
    ASSUME Inv, NEW i \in Calls, calls[i] # None, calls[i].pc # "served", OnlyCalls,
           NEW c \in CallRecords, calls' = [calls EXCEPT ![i] = c], SameCall(c, calls[i]), CallOK(c)
    PROVE  Inv'
<1>0. UNCHANGED <<states, tokens, reach, watch, table, installed, serving, owners, cache, streams,
                  edits, faults>>
  BY DEF OnlyCalls, authVars, relayVars
<1>1. calls'[i] = c /\ \A j \in Calls \ {i} : calls'[j] = calls[j]
  BY DEF Inv, TypeOK
<1>2. TypeOK'
  BY <1>0 DEF Inv, TypeOK
<1>3. Watching' /\ StreamsOK' /\ CacheOK'
  BY <1>0 DEF Inv, Watching, StreamsOK, CacheOK, Speaks
<1>4. CallsOK'
  <2>1. CallOK(calls[i])'
    BY <1>0, <1>1 DEF CallOK, Speaks, Noted, Checked, Names
  <2>2. OwnersKept
    BY <1>0 DEF OwnersKept
  <2> QED
    BY <1>0, <1>1, <1>2, <2>1, <2>2, CallsStep
<1>5. Tasks'
  BY <1>0, <1>1 DEF Inv, Tasks, SameCall
<1> QED
  BY <1>2, <1>3, <1>4, <1>5 DEF Inv

\* A call goes, and with a refused item its stream closes.
LEMMA RefuseCall ==
    ASSUME Inv, NEW i \in Calls, calls[i] # None, Refuse(i)
    PROVE  Inv'
<1>0. UNCHANGED <<states, tokens, reach, watch, table, installed, serving, owners, cache, edits,
                  faults>>
  BY DEF Refuse, authVars, relayVars
<1>1. calls'[i] = None /\ \A j \in Calls \ {i} : calls'[j] = calls[j]
  BY DEF Inv, TypeOK, Refuse
<1> DEFINE s == calls[i].stream
<1>2. \/ streams' = streams
      \/ /\ calls[i].what = "item" /\ s \in Streams
         /\ streams[s] \in Bindings
         /\ streams'[s] \in Bindings
         /\ streams'[s].caller = streams[s].caller /\ streams'[s].sender = streams[s].sender
         /\ streams'[s].subject = streams[s].subject
         /\ streams' = [streams EXCEPT ![s] = streams'[s]]
         /\ \A t \in Streams \ {s} : streams'[t] = streams[t]
  <2>1. CASE calls[i].what # "item"
    BY <2>1 DEF Refuse
  <2>2. CASE calls[i].what = "item"
    <3>1. s \in Streams /\ streams[s] \in Bindings
      BY <2>2 DEF Inv, Tasks, TypeOK
    <3>2. streams' = [streams EXCEPT ![s] = [streams[s] EXCEPT !.open = FALSE]]
      BY <2>2 DEF Refuse
    <3> DEFINE b == [streams[s] EXCEPT !.open = FALSE]
    <3>3. /\ b \in Bindings /\ b.caller = streams[s].caller /\ b.sender = streams[s].sender
          /\ b.subject = streams[s].subject
      BY <3>1 DEF Bindings
    <3> HIDE DEF b
    <3>4. streams'[s] = b /\ \A t \in Streams \ {s} : streams'[t] = streams[t]
      BY <3>1, <3>2 DEF Inv, TypeOK, b
    <3> QED
      BY <2>2, <3>1, <3>2, <3>3, <3>4 DEF b
  <2> QED
    BY <2>1, <2>2
<1>3. TypeOK'
  <2>1. calls' \in [Calls -> CallRecords \cup {None}]
    BY DEF Inv, TypeOK, Refuse
  <2>2. streams' \in [Streams -> Bindings \cup {None}]
    BY <1>2 DEF Inv, TypeOK
  <2> QED
    BY <1>0, <2>1, <2>2 DEF Inv, TypeOK
<1>4. Watching' /\ CacheOK'
  BY <1>0 DEF Inv, Watching, CacheOK
<1>5. StreamsOK'
  BY <1>2, NoneAssumption DEF Inv, StreamsOK, Speaks
<1>6. CallsOK'
  <2>1. OwnersKept
    BY <1>0 DEF OwnersKept
  <2> QED
    BY <1>0, <1>1, <1>3, <2>1, CallsStep
<1>7. Tasks'
  <2>1. CASE streams' = streams
    BY <1>1, <2>1 DEF Inv, Tasks
  <2>2. CASE /\ calls[i].what = "item" /\ s \in Streams
             /\ \A t \in Streams \ {s} : streams'[t] = streams[t]
    <3>1. \A j \in Calls \ {i} : calls[j] # None /\ calls[j].what \in {"receive", "item"}
                                   => calls[j].stream \in Streams \ {s}
      BY <2>2 DEF Inv, Tasks
    <3> QED
      BY <1>1, <2>2, <3>1 DEF Inv, Tasks
  <2> QED
    BY <1>2, <2>1, <2>2
<1> QED
  BY <1>3, <1>4, <1>5, <1>6, <1>7 DEF Inv

\* A call begins.
LEMMA BeginCall ==
    ASSUME Inv, NEW i \in Calls,
           NEW what \in {"receive", "item", "mint", "use", "delete", "plain"},
           NEW s \in Streams \cup {None}, NEW caller \in Callers, NEW sender \in Handles \cup {None},
           NEW subject \in Subjects \cup {None}, NEW conv \in Convs \cup {None},
           Begin(i, what, s, caller, sender, subject, conv),
           IF caller = Channel THEN sender \in Handles ELSE subject = caller,
           what = "delete" => conv # None, what = "mint" => conv = None,
           what \in {"receive", "item"} =>
             s \in Streams /\ Own(s, "receive") \cup Own(s, "item") = {},
           what = "item" => streams[s] # None /\ streams[s].open,
           what = "receive" => streams[s] = None
    PROVE  Inv'
<1> DEFINE c == [pc |-> "token", what |-> what, stream |-> s, caller |-> caller,
                 sender |-> sender, subject |-> subject, conv |-> conv, held |-> {}]
<1> DEFINE H == Holding(c, table)
<1> DEFINE d == [c EXCEPT !.held = H]
<1>0. /\ UNCHANGED <<states, tokens, reach, watch, table, installed, serving, owners, cache, streams,
                     edits, faults>>
      /\ calls[i] = None /\ calls' = [calls EXCEPT ![i] = d]
  BY DEF Begin, OnlyCalls, authVars, relayVars, Put
<1>1. /\ H \in SUBSET {"token", "handle", "reach"}
      /\ c.caller \in tokens => "token" \in H
      /\ c.caller = Channel /\ table[c.sender] # None /\ c.subject \in {None, table[c.sender]}
                => "handle" \in H
      /\ c.subject \in reach => "reach" \in H
  BY HoldingFacts
<1> HIDE DEF H
<1>2. /\ d \in CallRecords
      /\ d.pc = "token" /\ d.what = what /\ d.stream = s /\ d.caller = caller
      /\ d.sender = sender /\ d.subject = subject /\ d.conv = conv /\ d.held = H
      /\ c.caller = caller /\ c.sender = sender /\ c.subject = subject
  BY <1>1 DEF CallRecords
<1> HIDE DEF c, d
<1>3. calls'[i] = d /\ \A j \in Calls \ {i} : calls'[j] = calls[j]
  BY <1>0 DEF Inv, TypeOK
<1>4. TypeOK'
  BY <1>0, <1>2 DEF Inv, TypeOK
<1>5. Watching' /\ StreamsOK' /\ CacheOK'
  BY <1>0 DEF Inv, Watching, StreamsOK, CacheOK, Speaks
<1>6. CallsOK'
  <2>1. Speaks(d)
    BY <1>2 DEF Speaks
  <2>2. Noted(d)
    BY <1>1, <1>2 DEF Noted
  <2>3. Checked(d) /\ Names(d)
    BY <1>2 DEF Checked, Names
  <2>4. CallOK(calls[i])'
    BY <1>0, <1>3, <2>1, <2>2, <2>3 DEF CallOK, Speaks, Noted, Checked, Names
  <2>5. OwnersKept
    BY <1>0 DEF OwnersKept
  <2> QED
    BY <1>0, <1>3, <1>4, <2>4, <2>5, CallsStep
<1>7. Tasks'
  <2>1. what \in {"receive", "item"} =>
          \A j \in Calls : calls[j] # None /\ calls[j].what \in {"receive", "item"}
                             => calls[j].stream # s
    BY DEF Own
  <2> QED
    BY <1>0, <1>2, <1>3, <2>1 DEF Inv, Tasks
<1> QED
  BY <1>4, <1>5, <1>6, <1>7 DEF Inv

\* Every call and item begins in order.
LEMMA NewCallInv ==
    ASSUME Inv, NEW i \in Calls, NewCall(i)
    PROVE  Inv'
<1>0. None \notin Subjects /\ Channel \notin Subjects /\ Channel \in Callers /\ Subjects \subseteq Callers
  BY NoneAssumption, SubjectsAssumption DEF Callers
<1>1. ASSUME NEW s \in Streams, streams[s] # None
      PROVE  /\ streams[s].caller \in Callers /\ streams[s].sender \in Handles \cup {None}
             /\ streams[s].subject \in Subjects \cup {None}
             /\ IF streams[s].caller = Channel THEN streams[s].sender \in Handles
                ELSE streams[s].subject = streams[s].caller
  <2>1. streams[s] \in Bindings /\ Speaks(streams[s])
    BY <1>1 DEF Inv, TypeOK, StreamsOK
  <2> QED
    BY <2>1 DEF Bindings, Speaks
<1>2. ASSUME NEW s \in Streams, Receive(i, s) PROVE Inv'
  <2>1. streams[s] = None /\ Own(s, "receive") \cup Own(s, "item") = {}
    BY <1>2 DEF Receive
  <2>2. ASSUME NEW x \in Subjects, Begin(i, "receive", s, x, None, x, None) PROVE Inv'
    BY <1>0, <2>1, <2>2, BeginCall
  <2>3. ASSUME NEW h \in Handles, Begin(i, "receive", s, Channel, h, None, None) PROVE Inv'
    BY <1>0, <2>1, <2>3, BeginCall
  <2> QED
    BY <1>2, <2>2, <2>3 DEF Receive
<1>3. ASSUME NEW s \in Streams, TakeItem(i, s) PROVE Inv'
  <2>1. /\ streams[s] # None /\ streams[s].open /\ Own(s, "receive") \cup Own(s, "item") = {}
        /\ Begin(i, "item", s, streams[s].caller, streams[s].sender, streams[s].subject, None)
    BY <1>3 DEF TakeItem
  <2>2. /\ streams[s].caller \in Callers /\ streams[s].sender \in Handles \cup {None}
        /\ streams[s].subject \in Subjects \cup {None}
        /\ IF streams[s].caller = Channel THEN streams[s].sender \in Handles
           ELSE streams[s].subject = streams[s].caller
    BY <1>1, <2>1
  <2>3. PICK x \in Callers, h \in Handles \cup {None}, y \in Subjects \cup {None} :
          /\ Begin(i, "item", s, x, h, y, None)
          /\ IF x = Channel THEN h \in Handles ELSE y = x
    BY <2>1, <2>2
  <2> QED
    BY <2>1, <2>3, BeginCall
<1>4. ASSUME NEW s \in Streams, NEW k \in Convs \cup {None}, NEW what \in {"mint", "use", "plain"},
             Ingest(i, s, what, k)
      PROVE  Inv'
  <2>1. /\ streams[s] # None /\ (what = "mint" => k = None)
        /\ Begin(i, what, s, streams[s].caller, streams[s].sender, streams[s].subject, k)
    BY <1>4 DEF Ingest
  <2>2. /\ streams[s].caller \in Callers /\ streams[s].sender \in Handles \cup {None}
        /\ streams[s].subject \in Subjects \cup {None}
        /\ IF streams[s].caller = Channel THEN streams[s].sender \in Handles
           ELSE streams[s].subject = streams[s].caller
    BY <1>1, <2>1
  <2>3. what # "delete" /\ what # "item" /\ what # "receive"
    OBVIOUS
  <2>4. PICK x \in Callers, h \in Handles \cup {None}, y \in Subjects \cup {None} :
          /\ Begin(i, what, s, x, h, y, k)
          /\ IF x = Channel THEN h \in Handles ELSE y = x
    BY <2>1, <2>2
  <2>5. what \in {"receive", "item", "mint", "use", "delete", "plain"} /\ s \in Streams \cup {None}
    OBVIOUS
  <2> QED
    BY <2>1, <2>3, <2>4, <2>5, BeginCall
<1>5. ASSUME NEW x \in Subjects, NEW k \in Convs \cup {None},
             NEW what \in {"mint", "use", "delete", "plain"}, PersonRpc(i, x, what, k)
      PROVE  Inv'
  <2>1. /\ what = "mint" => k = None
        /\ what = "delete" => k # None
        /\ Begin(i, what, None, x, None, x, k)
    BY <1>5 DEF PersonRpc
  <2> QED
    BY <1>0, <2>1, BeginCall
<1> QED
  BY <1>2, <1>3, <1>4, <1>5 DEF NewCall

\* The checks of a call.
LEMMA CheckInv ==
    ASSUME Inv, NEW i \in Calls
    PROVE  /\ CheckToken(i) \/ CheckHandle(i) \/ CheckReach(i) \/ CheckOwner(i) => Inv'
           /\ CheckFails(i) \/ Finish(i) => Inv'
<1> DEFINE c == calls[i]
<1>0. ASSUME c # None PROVE c \in CallRecords /\ CallOK(c) /\ c.pc \in Pcs
  BY <1>0 DEF Inv, TypeOK, CallsOK, CallRecords, Pcs
<1>1. ASSUME c # None, NEW p \in Pcs, NEW d \in CallRecords, d = [c EXCEPT !.pc = p]
      PROVE  /\ SameCall(d, c)
             /\ d.pc = p /\ d.subject = c.subject /\ d.conv = c.conv /\ d.held = c.held
             /\ Speaks(d) /\ Noted(d)
  <2>1. c \in CallRecords /\ CallOK(c)
    BY <1>0, <1>1
  <2>2. /\ SameCall(d, c)
        /\ d.pc = p /\ d.subject = c.subject /\ d.conv = c.conv /\ d.held = c.held
    BY <1>1, <2>1 DEF CallRecords, SameCall
  <2> QED
    BY <2>1, <2>2 DEF CallOK, Speaks, Noted, SameCall
<1>2. ASSUME CheckToken(i) PROVE Inv'
  <2>0. c # None /\ c.pc = "token" /\ c \in CallRecords /\ CallOK(c)
    BY <1>0, <1>2 DEF CheckToken, At
  <2>1. CASE Refuse(i)
    BY <2>0, <2>1, RefuseCall
  <2>2. ASSUME c.caller \in tokens, Goto(i, IF c.caller = Channel THEN "handle" ELSE "reach"), OnlyCalls
        PROVE  Inv'
    <3> DEFINE p == IF c.caller = Channel THEN "handle" ELSE "reach"
    <3> DEFINE d == [c EXCEPT !.pc = p]
    <3>1. p \in Pcs /\ d \in CallRecords /\ calls' = [calls EXCEPT ![i] = d]
      BY <2>0, <2>2 DEF Pcs, CallRecords, Goto, Put
    <3>2. /\ SameCall(d, c) /\ d.pc = p /\ d.subject = c.subject /\ d.conv = c.conv /\ d.held = c.held
          /\ Speaks(d) /\ Noted(d)
      BY <1>1, <2>0, <3>1
    <3>3. "token" \in c.held
      BY <2>0, <2>2 DEF CallOK, Noted
    <3>4. c.caller # Channel => c.subject \in Subjects
      BY <2>0, SubjectsAssumption DEF CallOK, Speaks, CallRecords, Callers
    <3> HIDE DEF d
    <3>5. Checked(d) /\ Names(d)
      BY <2>0, <3>2, <3>3, <3>4 DEF Checked, Names, CallOK, SameCall
    <3> QED
      BY <2>0, <2>2, <3>1, <3>2, <3>5, MoveCall DEF CallOK
  <2> QED
    BY <1>2, <2>1, <2>2 DEF CheckToken, TokenReview
<1>3. ASSUME CheckHandle(i) PROVE Inv'
  <2>0. c # None /\ c.pc = "handle" /\ c \in CallRecords /\ CallOK(c)
    BY <1>0, <1>3 DEF CheckHandle, At
  <2> DEFINE x == table[c.sender]
  <2> DEFINE e == [c EXCEPT !.pc = "reach", !.subject = x]
  <2> DEFINE H == Holding(e, table)
  <2> DEFINE d == [e EXCEPT !.held = @ \cup H]
  <2>1. CASE Refuse(i)
    BY <2>0, <2>1, RefuseCall
  <2>2. ASSUME x # None, c.subject \in {None, x}, calls' = [calls EXCEPT ![i] = d], OnlyCalls
        PROVE  Inv'
    <3>1. c.caller = Channel /\ c.sender \in Handles /\ x \in Subjects
      BY <2>0, <2>2 DEF CallOK, Checked, Speaks, Inv, TypeOK
    <3>2. /\ e \in CallRecords /\ SameCall(e, c) /\ e.pc = "reach" /\ e.subject = x
          /\ e.conv = c.conv /\ e.held = c.held
      BY <2>0, <3>1 DEF CallRecords, SameCall
    <3>3. /\ H \in SUBSET {"token", "handle", "reach"}
          /\ e.caller = Channel /\ table[e.sender] # None /\ e.subject \in {None, table[e.sender]}
                => "handle" \in H
          /\ e.subject \in reach => "reach" \in H
      BY HoldingFacts
    <3> HIDE DEF H, e
    <3>4. /\ d \in CallRecords /\ SameCall(d, e) /\ d.pc = e.pc /\ d.subject = e.subject
          /\ d.conv = e.conv /\ d.held = e.held \cup H
      <4>1. "token" \in Pcs /\ e \in CallRecords /\ H \in SUBSET {"token", "handle", "reach"}
        BY <3>2, <3>3 DEF Pcs
      <4> QED
        BY <4>1 DEF CallRecords, SameCall
    <3> HIDE DEF d
    <3>5. SameCall(d, c) /\ d.pc = "reach" /\ d.subject = x /\ d.conv = c.conv
      BY <3>2, <3>4 DEF SameCall
    <3>6. "token" \in d.held /\ "handle" \in d.held /\ (d.subject \in reach => "reach" \in d.held)
      BY <2>0, <2>2, <3>1, <3>2, <3>3, <3>4 DEF CallOK, Checked, SameCall
    <3>7. Speaks(d) /\ Noted(d) /\ Checked(d)
      BY <2>0, <3>1, <3>5, <3>6 DEF Speaks, Noted, Checked, SameCall
    <3>8. Names(d)
      BY <2>0, <3>5 DEF CallOK, Names, SameCall
    <3> QED
      BY <2>0, <2>2, <3>4, <3>5, <3>7, <3>8, MoveCall DEF CallOK
  <2> QED
    BY <1>3, <2>1, <2>2 DEF CheckHandle, Put
<1>4. ASSUME CheckReach(i) PROVE Inv'
  <2>0. c # None /\ c.pc = "reach" /\ c \in CallRecords /\ CallOK(c)
    BY <1>0, <1>4 DEF CheckReach, At
  <2>1. CASE Refuse(i)
    BY <2>0, <2>1, RefuseCall
  <2>2. ASSUME c.subject \in reach, Goto(i, IF c.conv = None THEN "forward" ELSE "owner"), OnlyCalls
        PROVE  Inv'
    <3> DEFINE p == IF c.conv = None THEN "forward" ELSE "owner"
    <3> DEFINE d == [c EXCEPT !.pc = p]
    <3>1. p \in Pcs /\ d \in CallRecords /\ calls' = [calls EXCEPT ![i] = d]
      BY <2>0, <2>2 DEF Pcs, CallRecords, Goto, Put
    <3>2. /\ SameCall(d, c) /\ d.pc = p /\ d.subject = c.subject /\ d.conv = c.conv /\ d.held = c.held
          /\ Speaks(d) /\ Noted(d)
      BY <1>1, <2>0, <3>1
    <3> HIDE DEF d
    <3>3. "reach" \in c.held
      BY <2>0, <2>2 DEF CallOK, Noted
    <3>4. Checked(d)
      BY <2>0, <3>2, <3>3 DEF Checked, CallOK, SameCall
    <3>5. Names(d)
      BY <2>0, <3>2 DEF Names, CallOK, SameCall
    <3> QED
      BY <2>0, <2>2, <3>1, <3>2, <3>4, <3>5, MoveCall DEF CallOK
  <2> QED
    BY <1>4, <2>1, <2>2 DEF CheckReach, SubjectAccessReview
<1>5. ASSUME CheckOwner(i) PROVE Inv'
  <2>0. c # None /\ c.pc = "owner" /\ c \in CallRecords /\ CallOK(c)
    BY <1>0, <1>5 DEF CheckOwner, At
  <2>1. CASE Refuse(i)
    BY <2>0, <2>1, RefuseCall
  <2>2. ASSUME NEW p \in {"forward", "resolve"}, p = "forward" => cache[c.conv] = c.subject,
               Goto(i, p), OnlyCalls
        PROVE  Inv'
    <3> DEFINE d == [c EXCEPT !.pc = p]
    <3>1. p \in Pcs /\ d \in CallRecords /\ calls' = [calls EXCEPT ![i] = d]
      BY <2>0, <2>2 DEF Pcs, CallRecords, Goto, Put
    <3>2. /\ SameCall(d, c) /\ d.pc = p /\ d.subject = c.subject /\ d.conv = c.conv /\ d.held = c.held
          /\ Speaks(d) /\ Noted(d)
      BY <1>1, <2>0, <3>1
    <3> HIDE DEF d
    <3>3. Checked(d)
      BY <2>0, <3>2 DEF Checked, CallOK, SameCall
    <3>4. c.conv \in Convs /\ c.subject \in Subjects
      BY <2>0 DEF CallOK, Names, Checked, CallRecords
    <3>5. p = "forward" => owners[c.conv] \in {c.subject, "deleted"}
      BY <2>2, <3>4, NoneAssumption DEF Inv, CacheOK
    <3>6. c.what # "mint" \/ p # "forward"
      BY <2>0, <3>4, NoneAssumption DEF CallOK, Names
    <3>7. Names(d)
      BY <2>0, <3>2, <3>4, <3>5, <3>6 DEF Names, CallOK, SameCall
    <3> QED
      BY <2>0, <2>2, <3>1, <3>2, <3>3, <3>7, MoveCall DEF CallOK
  <2> QED
    BY <1>5, <2>1, <2>2 DEF CheckOwner
<1>6. ASSUME CheckFails(i) PROVE Inv'
  BY <1>6, RefuseCall DEF CheckFails
<1>7. ASSUME Finish(i) PROVE Inv'
  <2>0. /\ UNCHANGED <<states, tokens, reach, watch, table, installed, serving, owners, cache, streams,
                       edits, faults>>
        /\ calls' = [calls EXCEPT ![i] = None]
    BY <1>7 DEF Finish, Put, OnlyCalls, authVars, relayVars
  <2>1. calls'[i] = None /\ \A j \in Calls \ {i} : calls'[j] = calls[j]
    BY <2>0 DEF Inv, TypeOK
  <2>2. TypeOK'
    BY <2>0 DEF Inv, TypeOK
  <2>3. Watching' /\ StreamsOK' /\ CacheOK'
    BY <2>0 DEF Inv, Watching, StreamsOK, CacheOK, Speaks
  <2>4. CallsOK'
    <3>1. OwnersKept
      BY <2>0 DEF OwnersKept
    <3> QED
      BY <2>0, <2>1, <2>2, <3>1, CallsStep
  <2>5. Tasks'
    BY <2>0, <2>1 DEF Inv, Tasks
  <2> QED
    BY <2>2, <2>3, <2>4, <2>5 DEF Inv
<1> QED
  BY <1>2, <1>3, <1>4, <1>5, <1>6, <1>7
\* The owner is asked for, the call is forwarded, a minted conversation is recorded.
LEMMA ServeInv ==
    ASSUME Inv, NEW i \in Calls
    PROVE  ResolveOwner(i) \/ Forward(i) \/ RecordOwner(i) => Inv'
<1> DEFINE c == calls[i]
<1>0. ASSUME c # None PROVE c \in CallRecords /\ CallOK(c)
  BY <1>0 DEF Inv, TypeOK, CallsOK
<1>1. ASSUME ResolveOwner(i) PROVE Inv'
  <2>0. c # None /\ c.pc = "resolve" /\ c \in CallRecords /\ CallOK(c)
    BY <1>0, <1>1 DEF ResolveOwner, At
  <2>1. CASE Refuse(i)
    BY <2>0, <2>1, RefuseCall
  <2>2. ASSUME owners[c.conv] = c.subject, cache' = [cache EXCEPT ![c.conv] = c.subject],
               Goto(i, "forward"), UNCHANGED <<authVars, relayVars, owners, streams, edits, faults>>
        PROVE  Inv'
    <3>0. UNCHANGED <<states, tokens, reach, watch, table, installed, serving, owners, streams, edits,
                      faults>>
      BY <2>2 DEF authVars, relayVars
    <3>1. c.conv \in Convs /\ c.subject \in Subjects
      BY <2>0 DEF CallOK, Names, Checked, CallRecords
    <3> DEFINE d == [c EXCEPT !.pc = "forward"]
    <3>2. /\ d \in CallRecords /\ SameCall(d, c) /\ d.pc = "forward" /\ d.subject = c.subject
          /\ d.conv = c.conv /\ d.held = c.held
      BY <2>0 DEF CallRecords, SameCall
    <3>3. calls' = [calls EXCEPT ![i] = d]
      BY <2>2 DEF Goto, Put
    <3> HIDE DEF d
    <3>4. calls'[i] = d /\ \A j \in Calls \ {i} : calls'[j] = calls[j]
      BY <3>3 DEF Inv, TypeOK
    <3>5. TypeOK'
      BY <2>2, <3>0, <3>1, <3>2, <3>3 DEF Inv, TypeOK
    <3>6. Watching' /\ StreamsOK'
      BY <3>0 DEF Inv, Watching, StreamsOK, Speaks
    <3>7. CacheOK'
      BY <2>2, <3>0, <3>1 DEF Inv, CacheOK, TypeOK
    <3>8. CallsOK'
      <4>1. Speaks(d) /\ Noted(d) /\ Checked(d)
        BY <2>0, <3>2 DEF CallOK, Speaks, Noted, Checked, SameCall
      <4>2. Names(d)
        BY <2>0, <2>2, <3>2 DEF CallOK, Names, SameCall
      <4>3. CallOK(calls[i])'
        BY <3>0, <3>4, <4>1, <4>2 DEF CallOK, Speaks, Noted, Checked, Names
      <4>4. OwnersKept
        BY <3>0 DEF OwnersKept
      <4> QED
        BY <3>0, <3>4, <3>5, <4>3, <4>4, CallsStep
    <3>9. Tasks'
      BY <2>0, <3>0, <3>2, <3>4 DEF Inv, Tasks, SameCall
    <3> QED
      BY <3>5, <3>6, <3>7, <3>8, <3>9 DEF Inv
  <2> QED
    BY <1>1, <2>1, <2>2 DEF ResolveOwner
<1>2. ASSUME RecordOwner(i) PROVE Inv'
  <2>0. c # None /\ c.pc = "record" /\ c \in CallRecords /\ CallOK(c)
    BY <1>0, <1>2 DEF RecordOwner, At
  <2>1. /\ UNCHANGED <<states, tokens, reach, watch, table, installed, serving, owners, streams, edits,
                       faults>>
        /\ cache' = [cache EXCEPT ![c.conv] = c.subject]
    BY <1>2 DEF RecordOwner, authVars, relayVars
  <2>2. /\ c.conv \in Convs /\ c.subject \in Subjects
        /\ owners[c.conv] \in {c.subject, "deleted"}
    BY <2>0 DEF CallOK, Names, Checked, CallRecords
  <2> DEFINE d == [c EXCEPT !.pc = "served"]
  <2>3. /\ d \in CallRecords /\ SameCall(d, c) /\ d.pc = "served" /\ d.subject = c.subject
        /\ d.conv = c.conv /\ d.held = c.held
    BY <2>0 DEF CallRecords, SameCall
  <2>4. calls' = [calls EXCEPT ![i] = d]
    BY <1>2 DEF RecordOwner, Goto, Put
  <2> HIDE DEF d
  <2>5. calls'[i] = d /\ \A j \in Calls \ {i} : calls'[j] = calls[j]
    BY <2>4 DEF Inv, TypeOK
  <2>6. TypeOK'
    BY <2>1, <2>2, <2>3, <2>4 DEF Inv, TypeOK
  <2>7. Watching' /\ StreamsOK'
    BY <2>1 DEF Inv, Watching, StreamsOK, Speaks
  <2>8. CacheOK'
    BY <2>1, <2>2 DEF Inv, CacheOK, TypeOK
  <2>9. CallsOK'
    <3>1. Speaks(d) /\ Noted(d) /\ Checked(d)
      BY <2>0, <2>3 DEF CallOK, Speaks, Noted, Checked, SameCall
    <3>2. Names(d)
      BY <2>0, <2>2, <2>3 DEF CallOK, Names, SameCall
    <3>3. CallOK(calls[i])'
      BY <2>1, <2>5, <3>1, <3>2 DEF CallOK, Speaks, Noted, Checked, Names
    <3>4. OwnersKept
      BY <2>1 DEF OwnersKept
    <3> QED
      BY <2>1, <2>5, <2>6, <3>3, <3>4, CallsStep
  <2>10. Tasks'
    BY <2>0, <2>1, <2>3, <2>5 DEF Inv, Tasks, SameCall
  <2> QED
    BY <2>6, <2>7, <2>8, <2>9, <2>10 DEF Inv
<1>3. ASSUME Forward(i) PROVE Inv'
  <2>0. c # None /\ c.pc = "forward" /\ c \in CallRecords /\ CallOK(c)
    BY <1>0, <1>3 DEF Forward, At
  <2>1. UNCHANGED <<states, tokens, reach, watch, table, installed, serving, cache, edits, faults>>
    BY <1>3 DEF Forward, authVars, relayVars
  <2>2. c.subject \in Subjects
    BY <2>0 DEF CallOK, Checked
  <2> DEFINE d == [c EXCEPT !.pc = "served"]
  <2>3. /\ d \in CallRecords /\ SameCall(d, c) /\ d.pc = "served" /\ d.subject = c.subject
        /\ d.conv = c.conv /\ d.held = c.held
    BY <2>0 DEF CallRecords, SameCall
  <2>4. Speaks(d) /\ Noted(d) /\ Checked(d) /\ Names(d)
    BY <2>0, <2>3 DEF CallOK, Speaks, Noted, Checked, Names, SameCall
  <2>5. ASSUME c.what = "receive", calls' = [calls EXCEPT ![i] = d], UNCHANGED owners,
               streams' = [streams EXCEPT ![c.stream] =
                             [caller |-> c.caller, sender |-> c.sender, subject |-> c.subject,
                              open |-> TRUE]]
        PROVE  Inv'
    <3> DEFINE s == c.stream
    <3> DEFINE b == [caller |-> c.caller, sender |-> c.sender, subject |-> c.subject, open |-> TRUE]
    <3>1. b \in Bindings /\ Speaks(b)
      BY <2>0, <2>2 DEF Bindings, CallRecords, CallOK, Speaks
    <3> HIDE DEF d, b
    <3>2. s \in Streams
      BY <2>0, <2>5 DEF Inv, Tasks
    <3>3. calls'[i] = d /\ \A j \in Calls \ {i} : calls'[j] = calls[j]
      BY <2>5 DEF Inv, TypeOK
    <3>4. streams' = [streams EXCEPT ![s] = b]
      BY <2>5 DEF b
    <3>5. streams'[s] = b /\ \A t \in Streams \ {s} : streams'[t] = streams[t]
      BY <3>2, <3>4 DEF Inv, TypeOK
    <3>6. TypeOK'
      BY <2>1, <2>3, <2>5, <3>1, <3>2, <3>4 DEF Inv, TypeOK
    <3>7. Watching' /\ CacheOK'
      BY <2>1, <2>5 DEF Inv, Watching, CacheOK
    <3>8. StreamsOK'
      BY <3>1, <3>5 DEF Inv, StreamsOK, Speaks
    <3>9. CallsOK'
      <4>1. CallOK(calls[i])'
        BY <2>1, <2>4, <2>5, <3>3 DEF CallOK, Speaks, Noted, Checked, Names
      <4>2. OwnersKept
        BY <2>5 DEF OwnersKept
      <4> QED
        BY <2>1, <3>3, <3>6, <4>1, <4>2, CallsStep
    <3>10. Tasks'
      <4>1. \A j \in Calls \ {i} : calls[j] # None /\ calls[j].what \in {"receive", "item"}
                                     => calls[j].stream \in Streams \ {s}
        BY <2>0, <2>5 DEF Inv, Tasks
      <4> QED
        BY <2>0, <2>3, <2>5, <3>2, <3>3, <3>5, <4>1 DEF Inv, Tasks, SameCall
    <3> QED
      BY <3>6, <3>7, <3>8, <3>9, <3>10 DEF Inv
  <2>6. ASSUME c.what = "mint", NEW k \in Convs, owners[k] = None,
               owners' = [owners EXCEPT ![k] = c.subject], UNCHANGED streams,
               calls' = [calls EXCEPT ![i] = [c EXCEPT !.pc = "record", !.conv = k]]
        PROVE  Inv'
    <3> DEFINE e == [c EXCEPT !.pc = "record", !.conv = k]
    <3>1. /\ e \in CallRecords /\ SameCall(e, c) /\ e.pc = "record" /\ e.subject = c.subject
          /\ e.conv = k /\ e.held = c.held
      BY <2>0 DEF CallRecords, SameCall
    <3> HIDE DEF e
    <3>2. calls'[i] = e /\ \A j \in Calls \ {i} : calls'[j] = calls[j]
      BY <2>6 DEF Inv, TypeOK, e
    <3>3. owners'[k] = c.subject /\ \A m \in Convs \ {k} : owners'[m] = owners[m]
      BY <2>6 DEF Inv, TypeOK
    <3>4. TypeOK'
      <4>1. calls' \in [Calls -> CallRecords \cup {None}]
        BY <2>6, <3>1 DEF Inv, TypeOK, e
      <4>2. owners' \in [Convs -> Subjects \cup {None, "deleted"}]
        BY <2>2, <2>6 DEF Inv, TypeOK
      <4> QED
        BY <2>1, <2>6, <4>1, <4>2 DEF Inv, TypeOK
    <3>5. Watching' /\ StreamsOK'
      BY <2>1, <2>6 DEF Inv, Watching, StreamsOK, Speaks
    <3>6. CacheOK'
      <4>1. cache[k] = None
        BY <2>6, NoneAssumption DEF Inv, CacheOK
      <4> QED
        BY <2>1, <3>3, <4>1 DEF Inv, CacheOK
    <3>7. CallsOK'
      <4>1. Speaks(e) /\ Noted(e) /\ Checked(e)
        BY <2>0, <3>1 DEF CallOK, Speaks, Noted, Checked, SameCall
      <4>2. Names(calls[i])'
        BY <2>6, <3>1, <3>2, <3>3, NoneAssumption DEF Names, SameCall
      <4>3. CallOK(calls[i])'
        BY <2>1, <3>2, <4>1, <4>2 DEF CallOK, Speaks, Noted, Checked
      <4>4. OwnersKept
        BY <2>6, <3>3 DEF OwnersKept
      <4> QED
        BY <2>1, <3>2, <3>4, <4>3, <4>4, CallsStep
    <3>8. Tasks'
      BY <2>0, <2>6, <3>1, <3>2 DEF Inv, Tasks, SameCall
    <3> QED
      BY <3>4, <3>5, <3>6, <3>7, <3>8 DEF Inv
  <2>7. ASSUME c.what = "delete", UNCHANGED streams, calls' = [calls EXCEPT ![i] = d],
               owners' = [owners EXCEPT ![c.conv] = IF @ = c.subject THEN "deleted" ELSE @]
        PROVE  Inv'
    <3> HIDE DEF d
    <3>1. calls'[i] = d /\ \A j \in Calls \ {i} : calls'[j] = calls[j]
      BY <2>7 DEF Inv, TypeOK
    <3>2. c.conv \in Convs /\ owners[c.conv] \in {c.subject, "deleted"}
      BY <2>0, <2>7 DEF CallOK, Names, CallRecords
    <3>3. /\ owners'[c.conv] = "deleted" /\ \A m \in Convs \ {c.conv} : owners'[m] = owners[m]
          /\ owners' \in [Convs -> Subjects \cup {None, "deleted"}]
      BY <2>7, <3>2 DEF Inv, TypeOK
    <3>4. TypeOK'
      BY <2>1, <2>3, <2>7, <3>3 DEF Inv, TypeOK
    <3>5. Watching' /\ StreamsOK'
      BY <2>1, <2>7 DEF Inv, Watching, StreamsOK, Speaks
    <3>6. CacheOK'
      BY <2>1, <3>2, <3>3 DEF Inv, CacheOK
    <3>7. CallsOK'
      <4>1. Names(calls[i])'
        BY <2>4, <2>3, <3>1, <3>2, <3>3 DEF Names
      <4>2. CallOK(calls[i])'
        BY <2>1, <2>4, <3>1, <4>1 DEF CallOK, Speaks, Noted, Checked
      <4>3. OwnersKept
        BY <3>2, <3>3 DEF OwnersKept
      <4> QED
        BY <2>1, <3>1, <3>4, <4>2, <4>3, CallsStep
    <3>8. Tasks'
      BY <2>0, <2>3, <2>7, <3>1 DEF Inv, Tasks, SameCall
    <3> QED
      BY <3>4, <3>5, <3>6, <3>7, <3>8 DEF Inv
  <2>8. ASSUME UNCHANGED <<owners, streams>>, calls' = [calls EXCEPT ![i] = d]
        PROVE  Inv'
    <3>1. OnlyCalls
      BY <2>1, <2>8 DEF OnlyCalls, authVars, relayVars
    <3> HIDE DEF d
    <3>2. CallOK(d)
      BY <2>4 DEF CallOK
    <3> QED
      BY <2>0, <2>3, <2>8, <3>1, <3>2, MoveCall
  <2> QED
    BY <1>3, <2>5, <2>6, <2>7, <2>8 DEF Forward, Goto, Put
<1> QED
  BY <1>1, <1>2, <1>3
\* A stream closes with its client, and is unregistered after.
LEMMA StreamInv ==
    ASSUME Inv, NEW s \in Streams
    PROVE  Disconnect(s) \/ Unregister(s) => Inv'
<1>1. ASSUME Disconnect(s) PROVE Inv'
  <2>0. /\ UNCHANGED <<states, tokens, reach, watch, table, installed, serving, owners, cache, edits,
                       faults>>
        /\ streams[s] # None /\ streams[s].open
        /\ streams' = [streams EXCEPT ![s] = [streams[s] EXCEPT !.open = FALSE]]
        /\ calls' = [i \in Calls |-> IF i \in Own(s, "item") THEN None ELSE calls[i]]
    BY <1>1 DEF Disconnect, authVars, relayVars
  <2> DEFINE b == [streams[s] EXCEPT !.open = FALSE]
  <2>1. streams[s] \in Bindings
    BY <2>0 DEF Inv, TypeOK
  <2>2. /\ b \in Bindings /\ b.caller = streams[s].caller /\ b.sender = streams[s].sender
        /\ b.subject = streams[s].subject
    BY <2>1 DEF Bindings
  <2>3. streams'[s] = b /\ \A t \in Streams \ {s} : streams'[t] = streams[t]
    BY <2>0 DEF Inv, TypeOK
  <2>4. streams' \in [Streams -> Bindings \cup {None}]
    BY <2>0, <2>2 DEF Inv, TypeOK
  <2> HIDE DEF b
  <2>5. \A j \in Calls : calls'[j] # None => calls'[j] = calls[j] /\ j \notin Own(s, "item")
    BY <2>0
  <2>6. TypeOK'
    <3>1. calls' \in [Calls -> CallRecords \cup {None}]
      BY <2>0 DEF Inv, TypeOK
    <3> QED
      BY <2>0, <2>4, <3>1 DEF Inv, TypeOK
  <2>7. Watching' /\ CacheOK'
    BY <2>0 DEF Inv, Watching, CacheOK
  <2>8. StreamsOK'
    BY <2>0, <2>2, <2>3 DEF Inv, StreamsOK, Speaks
  <2>9. CallsOK'
    <3>1. OwnersKept
      BY <2>0 DEF OwnersKept
    <3> QED
      BY <2>0, <2>5, <2>6, <3>1, CallsStep
  <2>10. Tasks'
    <3>1. \A j \in Calls : calls'[j] # None =>
            /\ calls[j].what = "item" => calls[j].stream # s
            /\ calls[j].what = "receive" /\ calls[j].pc # "served" => calls[j].stream # s
      BY <2>0, <2>5 DEF Own, Inv, Tasks
    <3> QED
      BY <2>3, <2>5, <3>1 DEF Inv, Tasks
  <2> QED
    BY <2>6, <2>7, <2>8, <2>9, <2>10 DEF Inv
<1>2. ASSUME Unregister(s) PROVE Inv'
  <2>0. /\ UNCHANGED <<states, tokens, reach, watch, table, installed, serving, owners, cache, calls,
                       edits, faults>>
        /\ ~streams[s].open /\ streams' = [streams EXCEPT ![s] = None]
    BY <1>2 DEF Unregister, authVars, relayVars
  <2>1. streams'[s] = None /\ \A t \in Streams \ {s} : streams'[t] = streams[t]
    BY <2>0 DEF Inv, TypeOK
  <2>2. TypeOK'
    BY <2>0 DEF Inv, TypeOK
  <2>3. Watching' /\ CacheOK'
    BY <2>0 DEF Inv, Watching, CacheOK
  <2>4. StreamsOK'
    BY <2>1 DEF Inv, StreamsOK, Speaks
  <2>5. CallsOK'
    <3>1. OwnersKept
      BY <2>0 DEF OwnersKept
    <3> QED
      BY <2>0, <2>2, <3>1, CallsStep
  <2>6. Tasks'
    BY <2>0, <2>1 DEF Inv, Tasks
  <2> QED
    BY <2>2, <2>3, <2>4, <2>5, <2>6 DEF Inv
<1> QED
  BY <1>1, <1>2

----------------------------------------------------------------------------
(* The operator and the watcher *)

\* A step that leaves the calls, the table and the owners alone.
LEMMA CallsAlone ==
    ASSUME Inv, TypeOK', Watching', UNCHANGED <<table, owners, cache, streams, calls>>,
           tokens' \subseteq tokens, reach' \subseteq reach
    PROVE  Inv'
<1>1. CallsOK'
  <2>1. OwnersKept
    BY DEF OwnersKept
  <2> QED
    BY <2>1, CallsStep
<1>2. Tasks' /\ StreamsOK' /\ CacheOK'
  BY DEF Inv, Tasks, StreamsOK, CacheOK, Speaks
<1> QED
  BY <1>1, <1>2 DEF Inv

\* A table made of a delivery maps handles to subjects.
LEMMA TableType ==
    ASSUME NEW s \in Deliveries
    PROVE  ApplyDelivery(s) \in [Handles -> Subjects \cup {None}]
<1> SUFFICES ASSUME NEW h \in Handles, Cardinality(Claims(s, h)) = 1
             PROVE  s[CHOOSE n \in Claims(s, h) : TRUE].subject \in Subjects
  BY DEF ApplyDelivery
<1>1. Claims(s, h) # {}
  BY FS_EmptySet
<1>2. PICK n : n \in Claims(s, h) /\ n = CHOOSE m \in Claims(s, h) : TRUE
  BY <1>1
<1>3. n \in Cms /\ s[n] # None /\ s[n].handle = h
  BY <1>2 DEF Claims, Present
<1>4. s[n] \in Rows
  BY <1>3, NoneAssumption DEF Deliveries, Broken
<1> QED
  BY <1>2, <1>4 DEF Rows

\* A table that is put in place notes with each call what it now says of it.
LEMMA InstallCalls ==
    ASSUME Inv, NEW s \in Deliveries, NEW v, Install(s, v),
           UNCHANGED <<tokens, reach, owners, cache, streams>>
    PROVE  /\ calls' \in [Calls -> CallRecords \cup {None}]
           /\ table' \in [Handles -> Subjects \cup {None}]
           /\ CallsOK' /\ Tasks' /\ StreamsOK' /\ CacheOK'
<1>1. table' \in [Handles -> Subjects \cup {None}]
  BY TableType DEF Install
<1>2. ASSUME NEW j \in Calls, calls[j] # None
      PROVE  /\ calls'[j] \in CallRecords /\ SameCall(calls'[j], calls[j])
             /\ calls'[j].pc = calls[j].pc /\ calls'[j].subject = calls[j].subject
             /\ calls'[j].conv = calls[j].conv /\ calls[j].held \subseteq calls'[j].held
             /\ Noted(calls[j])'
  <2> DEFINE c == calls[j]
  <2> DEFINE H == Holding(c, table')
  <2> DEFINE d == [c EXCEPT !.held = @ \cup H]
  <2>1. c \in CallRecords /\ CallOK(c)
    BY <1>2 DEF Inv, TypeOK, CallsOK
  <2>2. calls'[j] = d
    BY <1>2 DEF Install
  <2>3. /\ H \in SUBSET {"token", "handle", "reach"}
        /\ c.caller = Channel /\ table'[c.sender] # None /\ c.subject \in {None, table'[c.sender]}
              => "handle" \in H
    BY HoldingFacts
  <2> HIDE DEF H
  <2>4. /\ d \in CallRecords /\ SameCall(d, c) /\ d.pc = c.pc /\ d.subject = c.subject
        /\ d.conv = c.conv /\ d.held = c.held \cup H
    BY <2>1, <2>3 DEF CallRecords, SameCall
  <2> HIDE DEF d
  <2>5. Noted(calls[j])'
    BY <2>1, <2>2, <2>3, <2>4 DEF CallOK, Noted, SameCall
  <2> QED
    BY <2>2, <2>4, <2>5
<1>3. \A j \in Calls : calls[j] = None => calls'[j] = None
  BY DEF Install
<1>4. calls' \in [Calls -> CallRecords \cup {None}]
  <2>1. calls' = [j \in Calls |-> calls'[j]]
    BY DEF Install
  <2>2. \A j \in Calls : calls'[j] \in CallRecords \cup {None}
    BY <1>2, <1>3
  <2> HIDE DEF Install
  <2> QED
    BY <2>1, <2>2
<1>5. CallsOK'
  <2> SUFFICES ASSUME NEW j \in Calls, calls'[j] # None
               PROVE  CallOK(calls[j])'
    BY DEF CallsOK
  <2>1. calls[j] # None /\ CallOK(calls[j])
    BY <1>3 DEF Inv, CallsOK
  <2>2. Speaks(calls[j])' /\ Checked(calls[j])' /\ Names(calls[j])'
    BY <1>2, <2>1 DEF CallOK, Speaks, Checked, Names, SameCall
  <2> QED
    BY <1>2, <2>1, <2>2 DEF CallOK
<1>6. Tasks'
  BY <1>2, <1>3 DEF Inv, Tasks, SameCall
<1>7. StreamsOK' /\ CacheOK'
  BY DEF Inv, StreamsOK, CacheOK, Speaks
<1> QED
  BY <1>1, <1>4, <1>5, <1>6, <1>7

\* An edit adds a delivery that differs from the last one in one ConfigMap.
LEMMA OperatorInv ==
    ASSUME Inv
    PROVE  /\ \A n \in Cms, r \in Rows \cup {None, Broken} : EditConfigMap(n, r) => Inv'
           /\ \A x \in Callers : RevokeToken(x) => Inv'
           /\ \A x \in Subjects : RevokeReach(x) => Inv'
<1>1. ASSUME NEW n \in Cms, NEW r \in Rows \cup {None, Broken}, EditConfigMap(n, r) PROVE Inv'
  <2> DEFINE D == [Cm EXCEPT ![n] = r]
  <2>0. /\ states' = Append(states, D) /\ Cm[n] # r /\ edits' = edits + 1
        /\ UNCHANGED <<tokens, reach, watch, table, installed, serving, owners, cache, streams, calls,
                       faults>>
    BY <1>1 DEF EditConfigMap, Edit, relayVars
  <2>1. /\ states \in Seq(Deliveries) /\ Len(states) \in Nat /\ Len(states) > 0
        /\ Cm = states[Len(states)] /\ Cm \in Deliveries
    BY DEF Inv, TypeOK, Watching, Cm
  <2>2. D \in Deliveries /\ OneEdit(Cm, D)
    BY <2>0, <2>1 DEF Deliveries, OneEdit
  <2> HIDE DEF D
  <2>3. /\ states' \in Seq(Deliveries) /\ Len(states') = Len(states) + 1
        /\ states'[Len(states) + 1] = D
        /\ \A v \in 1..Len(states) : states'[v] = states[v]
    BY <2>0, <2>1, <2>2
  <2>4. TypeOK'
    BY <2>0, <2>3 DEF Inv, TypeOK
  <2>5. Watching'
    <3>1. ASSUME NEW v \in 1..(Len(states') - 1) PROVE OneEdit(states'[v], states'[v + 1])
      <4>1. CASE v = Len(states)
        BY <2>1, <2>2, <2>3, <4>1
      <4>2. CASE v # Len(states)
        <5>1. v \in 1..(Len(states) - 1) /\ v \in 1..Len(states) /\ v + 1 \in 1..Len(states)
          BY <2>1, <2>3, <3>1, <4>2
        <5> QED
          BY <2>3, <5>1 DEF Inv, Watching
      <4> QED
        BY <4>1, <4>2
    <3>2. watch.pc # "down" => watch.at \in 1..Len(states') /\ states'[watch.at] = states[watch.at]
      BY <2>1, <2>3 DEF Inv, Watching
    <3>3. installed # 0 => installed \in 1..Len(states') /\ states'[installed] = states[installed]
      BY <2>1, <2>3 DEF Inv, Watching
    <3>4. Len(states') > 0
      BY <2>1, <2>3
    <3> QED
      BY <2>0, <3>1, <3>2, <3>3, <3>4 DEF Inv, Watching
  <2> QED
    BY <2>0, <2>4, <2>5, CallsAlone
<1>2. ASSUME NEW x \in Callers, RevokeToken(x) PROVE Inv'
  <2>0. /\ UNCHANGED <<states, reach, watch, table, installed, serving, owners, cache, streams, calls,
                       faults>>
        /\ tokens' = tokens \ {x} /\ edits' = edits + 1
    BY <1>2 DEF RevokeToken, Edit, relayVars
  <2>1. TypeOK' /\ Watching'
    BY <2>0 DEF Inv, TypeOK, Watching
  <2> QED
    BY <2>0, <2>1, CallsAlone
<1>3. ASSUME NEW x \in Subjects, RevokeReach(x) PROVE Inv'
  <2>0. /\ UNCHANGED <<states, tokens, watch, table, installed, serving, owners, cache, streams, calls,
                       faults>>
        /\ reach' = reach \ {x} /\ edits' = edits + 1
    BY <1>3 DEF RevokeReach, Edit, relayVars
  <2>1. TypeOK' /\ Watching'
    BY <2>0 DEF Inv, TypeOK, Watching
  <2> QED
    BY <2>0, <2>1, CallsAlone
<1> QED
  BY <1>1, <1>2, <1>3
\* A list begins with nothing of its snapshot, ends with all of it, and a
\* listed ConfigMap is as in the snapshot.
LEMMA ListedFacts ==
    ASSUME NEW s \in Deliveries
    PROVE  /\ Nothing \in Deliveries
           /\ Listed(s, Present(s)) = Nothing
           /\ Listed(s, {}) = s
           /\ \A T \in SUBSET Cms : Listed(s, T) \in Deliveries
           /\ \A T \in SUBSET Cms, n \in Cms : [Listed(s, T) EXCEPT ![n] = s[n]] = Listed(s, T \ {n})
<1>1. Nothing \in Deliveries
  BY DEF Nothing, Deliveries
<1>2. Listed(s, Present(s)) = Nothing
  BY DEF Listed, Present, Nothing
<1>3. Listed(s, {}) = s
  BY DEF Listed, Deliveries
<1>4. ASSUME NEW T \in SUBSET Cms PROVE Listed(s, T) \in Deliveries
  BY DEF Listed, Deliveries
<1>5. ASSUME NEW T \in SUBSET Cms, NEW n \in Cms
      PROVE  [Listed(s, T) EXCEPT ![n] = s[n]] = Listed(s, T \ {n})
  BY DEF Listed
<1> QED
  BY <1>1, <1>2, <1>3, <1>4, <1>5

\* The deliveries the watcher works with.
LEMMA WatchFacts ==
    ASSUME Inv
    PROVE  /\ watch \in Watchers
           /\ Len(states) \in Nat /\ Len(states) > 0 /\ Cm = states[Len(states)]
           /\ \A v \in 1..Len(states) : states[v] \in Deliveries
<1>1. states \in Seq(Deliveries) /\ Len(states) > 0
  BY DEF Inv, TypeOK, Watching
<1> QED
  BY <1>1 DEF Inv, TypeOK, Watchers, Cm

\* The watch starts, lists, fails.
LEMMA ListInv ==
    ASSUME Inv
    PROVE  /\ StartWatch \/ Relist \/ WatchError => Inv'
           /\ \A n \in Cms : InitApply(n) => Inv'
<1>1. ASSUME StartWatch \/ Relist PROVE Inv'
  <2>0. /\ UNCHANGED <<states, tokens, reach, table, installed, serving, owners, cache, streams, calls,
                       edits>>
        /\ watch' = [watch EXCEPT !.pc = "list", !.at = Len(states), !.todo = Present(Cm),
                                  !.scratch = Nothing]
    BY <1>1 DEF StartWatch, Relist, OnlyWatch, authVars
  <2>1. faults' \in Nat
    BY <1>1 DEF StartWatch, Relist, Fault, Inv, TypeOK
  <2>2. /\ Cm \in Deliveries /\ Nothing \in Deliveries /\ Listed(Cm, Present(Cm)) = Nothing
        /\ Present(Cm) \in SUBSET Cms
    BY WatchFacts, ListedFacts DEF Present
  <2>3. /\ watch' \in Watchers /\ watch'.pc = "list" /\ watch'.at = Len(states)
        /\ watch'.todo = Present(Cm) /\ watch'.scratch = Nothing
    BY <2>0, <2>2, WatchFacts DEF Watchers
  <2>4. TypeOK'
    BY <2>0, <2>1, <2>3 DEF Inv, TypeOK, Watchers
  <2>5. Watching'
    BY <2>0, <2>2, <2>3, WatchFacts DEF Inv, Watching
  <2> QED
    BY <2>0, <2>4, <2>5, CallsAlone
<1>2. ASSUME WatchError PROVE Inv'
  <2>0. /\ UNCHANGED <<states, tokens, reach, table, installed, serving, owners, cache, streams, calls,
                       edits>>
        /\ watch' = Down /\ faults' = faults + 1
    BY <1>2 DEF WatchError, Fault, OnlyWatch, authVars
  <2>1. Down \in Watchers /\ Down.pc = "down"
    BY DEF Down, Watchers, Nothing, Deliveries
  <2>2. TypeOK'
    BY <2>0, <2>1 DEF Inv, TypeOK, Watchers
  <2>3. Watching'
    BY <2>0, <2>1 DEF Inv, Watching
  <2> QED
    BY <2>0, <2>2, <2>3, CallsAlone
<1>3. ASSUME NEW n \in Cms, InitApply(n) PROVE Inv'
  <2> DEFINE D == states[watch.at]
  <2>0. /\ UNCHANGED <<states, tokens, reach, table, installed, serving, owners, cache, streams, calls,
                       edits, faults>>
        /\ watch.pc = "list"
        /\ watch' = [watch EXCEPT !.todo = @ \ {n}, !.scratch[n] = D[n]]
    BY <1>3 DEF InitApply, OnlyWatch, authVars
  <2>1. /\ watch \in Watchers /\ watch.at \in 1..Len(states) /\ D \in Deliveries
        /\ watch.scratch = Listed(D, watch.todo) /\ watch.todo \in SUBSET Cms
    BY <2>0, WatchFacts DEF Inv, Watching, Watchers
  <2>2. [watch.scratch EXCEPT ![n] = D[n]] = Listed(D, watch.todo \ {n})
    <3> HIDE DEF D
    <3> DEFINE T == watch.todo
    <3>1. D \in Deliveries /\ T \in SUBSET Cms /\ watch.scratch = Listed(D, T)
      BY <2>1
    <3> HIDE DEF T
    <3>2. [Listed(D, T) EXCEPT ![n] = D[n]] = Listed(D, T \ {n})
      BY <3>1, ListedFacts
    <3>3. [watch.scratch EXCEPT ![n] = D[n]] = Listed(D, T \ {n})
      BY <3>1, <3>2
    <3> QED
      BY <3>3 DEF T
  <2> HIDE DEF D
  <2>3. D[n] \in Rows \cup {Broken, None}
    BY <2>1 DEF Deliveries
  <2>4. /\ watch' \in Watchers /\ watch'.pc = "list" /\ watch'.at = watch.at
        /\ watch'.todo = watch.todo \ {n} /\ watch'.scratch = [watch.scratch EXCEPT ![n] = D[n]]
    BY <2>0, <2>1, <2>3 DEF Watchers, Deliveries
  <2>5. TypeOK'
    BY <2>0, <2>4 DEF Inv, TypeOK, Watchers
  <2>6. Watching'
    BY <2>0, <2>1, <2>2, <2>4 DEF Inv, Watching, D
  <2> QED
    BY <2>0, <2>5, <2>6, CallsAlone
<1> QED
  BY <1>1, <1>2, <1>3

\* A list that is done, or an event, puts a whole delivery in place.
LEMMA InstallInv ==
    ASSUME Inv
    PROVE  InitDone \/ WatchEvent \/ RelayCrash => Inv'
<1>1. ASSUME InitDone PROVE Inv'
  <2> DEFINE D == states[watch.at]
  <2>0. /\ UNCHANGED <<states, tokens, reach, owners, cache, streams, edits, faults>>
        /\ watch.pc = "list" /\ watch.todo = {} /\ serving' = TRUE
        /\ watch' = [watch EXCEPT !.pc = "live", !.current = watch.scratch, !.scratch = Nothing]
        /\ Install(watch.scratch, watch.at)
    BY <1>1 DEF InitDone, authVars
  <2>1. /\ watch \in Watchers /\ watch.at \in 1..Len(states) /\ D \in Deliveries
        /\ watch.scratch = D /\ Nothing \in Deliveries
    BY <2>0, WatchFacts, ListedFacts DEF Inv, Watching
  <2> HIDE DEF D
  <2>2. watch' \in Watchers /\ watch'.pc = "live" /\ watch'.at = watch.at /\ watch'.current = D
    BY <2>0, <2>1 DEF Watchers
  <2>3. installed' = watch.at /\ table' = ApplyDelivery(D)
    BY <2>0, <2>1 DEF Install
  <2>4. /\ calls' \in [Calls -> CallRecords \cup {None}]
        /\ table' \in [Handles -> Subjects \cup {None}]
        /\ CallsOK' /\ Tasks' /\ StreamsOK' /\ CacheOK'
    BY <2>0, <2>1, InstallCalls
  <2>5. TypeOK'
    <3>1. watch.at \in Nat
      BY <2>1, WatchFacts
    <3> QED
      BY <2>0, <2>2, <2>3, <2>4, <3>1 DEF Inv, TypeOK, Watchers
  <2>6. Watching'
    <3>1. watch.at # 0
      BY <2>1, WatchFacts
    <3> QED
      BY <2>0, <2>1, <2>2, <2>3, <3>1 DEF Inv, Watching, D
  <2> QED
    BY <2>4, <2>5, <2>6 DEF Inv
<1>2. ASSUME WatchEvent PROVE Inv'
  <2> DEFINE v == watch.at + 1
  <2> DEFINE C == states[watch.at]
  <2> DEFINE D == states[v]
  <2> DEFINE n == CHOOSE m \in Cms : D[m] # C[m]
  <2> DEFINE E == [watch.current EXCEPT ![n] = D[n]]
  <2>0. /\ UNCHANGED <<states, tokens, reach, serving, owners, cache, streams, edits, faults>>
        /\ watch.pc = "live" /\ watch.at < Len(states)
        /\ watch' = [watch EXCEPT !.at = v, !.current = E]
        /\ Install(E, v)
    BY <1>2 DEF WatchEvent, authVars
  <2>1. /\ watch \in Watchers /\ watch.at \in 1..(Len(states) - 1) /\ v \in 1..Len(states)
        /\ v \in Nat /\ v # 0
    BY <2>0, WatchFacts DEF Inv, Watching
  <2>2. /\ C \in Deliveries /\ D \in Deliveries /\ watch.current = C /\ OneEdit(C, D)
    <3>1. watch.at \in 1..Len(states)
      BY <2>1, WatchFacts
    <3> QED
      BY <2>0, <2>1, <3>1, WatchFacts DEF Inv, Watching
  <2>3. E = D
    <3> HIDE DEF C, D, n
    <3>1. PICK m \in Cms : D[m] # C[m] /\ \A k \in Cms \ {m} : D[k] = C[k]
      BY <2>2 DEF OneEdit
    <3>2. n \in Cms /\ D[n] # C[n]
      BY <3>1 DEF n
    <3>3. n = m
      BY <3>1, <3>2
    <3> QED
      BY <2>2, <3>1, <3>3 DEF Deliveries
  <2> HIDE DEF C, D, E, v
  <2>4. watch' \in Watchers /\ watch'.pc = "live" /\ watch'.at = v /\ watch'.current = D
    BY <2>0, <2>1, <2>2, <2>3 DEF Watchers
  <2>5. installed' = v /\ table' = ApplyDelivery(D)
    BY <2>0, <2>3 DEF Install
  <2>6. /\ calls' \in [Calls -> CallRecords \cup {None}]
        /\ table' \in [Handles -> Subjects \cup {None}]
        /\ CallsOK' /\ Tasks' /\ StreamsOK' /\ CacheOK'
    BY <2>0, <2>2, <2>3, InstallCalls
  <2>7. TypeOK'
    BY <2>0, <2>1, <2>4, <2>5, <2>6 DEF Inv, TypeOK, Watchers
  <2>8. Watching'
    BY <2>0, <2>1, <2>4, <2>5 DEF Inv, Watching, D
  <2> QED
    BY <2>6, <2>7, <2>8 DEF Inv
<1>3. ASSUME RelayCrash PROVE Inv'
  <2>0. /\ UNCHANGED <<states, tokens, reach, owners, edits>>
        /\ faults' = faults + 1 /\ watch' = Down /\ table' = NoTable /\ installed' = 0
        /\ serving' = FALSE /\ cache' = [k \in Convs |-> None]
        /\ streams' = [s \in Streams |-> None] /\ calls' = [i \in Calls |-> None]
    BY <1>3 DEF RelayCrash, Fault, authVars
  <2>1. Down \in Watchers /\ Down.pc = "down"
    BY DEF Down, Watchers, Nothing, Deliveries
  <2>2. TypeOK'
    <3>1. table' \in [Handles -> Subjects \cup {None}] /\ cache' \in [Convs -> Subjects \cup {None}]
      BY <2>0 DEF NoTable
    <3>2. /\ streams' \in [Streams -> Bindings \cup {None}]
          /\ calls' \in [Calls -> CallRecords \cup {None}]
      BY <2>0
    <3>3. watch' \in Watchers
      BY <2>0, <2>1
    <3>4. installed' \in Nat /\ serving' \in BOOLEAN /\ faults' \in Nat
      <4>1. faults \in Nat
        BY DEF Inv, TypeOK
      <4>2. installed' = 0 /\ serving' = FALSE /\ faults' = faults + 1
        BY <2>0
      <4>3. serving' \in BOOLEAN
        BY <4>2, Zenon
      <4>4. installed' \in Nat /\ faults' \in Nat
        BY <4>1, <4>2
      <4> QED
        BY <4>3, <4>4
    <3> QED
      BY <2>0, <3>1, <3>2, <3>3, <3>4 DEF Inv, TypeOK, Watchers
  <2>3. Watching'
    BY <2>0, <2>1 DEF Inv, Watching
  <2>4. CallsOK' /\ Tasks' /\ StreamsOK' /\ CacheOK'
    BY <2>0 DEF CallsOK, Tasks, StreamsOK, CacheOK
  <2> QED
    BY <2>2, <2>3, <2>4 DEF Inv
<1> QED
  BY <1>1, <1>2, <1>3

----------------------------------------------------------------------------
(* The theorems *)

\* The relay starts with no table, no stream and no call.
LEMMA InitInv == Init => Inv
<1> SUFFICES ASSUME Init PROVE Inv
  OBVIOUS
<1>1. Down \in Watchers /\ Down.pc = "down"
  BY DEF Down, Watchers, Nothing, Deliveries
<1>2. First \in Deliveries /\ states \in Seq(Deliveries) /\ Len(states) = 1
  BY CmsAssumption DEF Init
<1>3. TypeOK
  BY <1>1, <1>2 DEF Init, TypeOK, Watchers, NoTable, Callers
<1>4. Watching
  BY <1>1, <1>2 DEF Init, Watching
<1>5. CallsOK /\ Tasks /\ StreamsOK /\ CacheOK
  BY DEF Init, CallsOK, Tasks, StreamsOK, CacheOK
<1> QED
  BY <1>3, <1>4, <1>5 DEF Inv

\* Every step of the operator, the watcher, the calls and the streams keeps Inv.
LEMMA StepInv == Inv /\ [Next]_vars => Inv'
<1> SUFFICES ASSUME Inv, [Next]_vars PROVE Inv'
  OBVIOUS
<1>1. CASE UNCHANGED vars
  BY <1>1 DEF vars, Inv, TypeOK, Watching, CallsOK, CallOK, Speaks, Noted, Checked, Names, Tasks,
              StreamsOK, CacheOK
<1>2. ASSUME NEW i \in Calls, CallStep(i) PROVE Inv'
  BY <1>2, CheckInv, ServeInv DEF CallStep
<1>3. CASE WatchStep \/ Relist \/ WatchError \/ RelayCrash
  BY <1>3, ListInv, InstallInv DEF WatchStep
<1> QED
  BY <1>1, <1>2, <1>3, NewCallInv, OperatorInv, StreamInv DEF Next

\* Inv holds in every reachable state.
LEMMA Invariance == Spec => []Inv
BY InitInv, StepInv, PTL DEF Spec

\* The watcher, the identity table, the streams and the calls keep their shapes.
THEOREM TypeCorrect == Spec => []TypeOK
<1>1. Inv => TypeOK
  BY DEF Inv
<1> QED
  BY <1>1, Invariance, PTL

\* However revocations, edits, watch errors and crashes fall between the
\* awaits of a call, it is served only if its token, its sender's handle and
\* its subject's reach each held at some moment since it began, and only to
\* the owner of the conversation it names (reauthorized,
\* channel_stream_ingest, require_conversation_subject).
THEOREM OnlyTheAllowedAreServed == Spec => []ServedOnlyIfAllowed
<1>1. Inv => ServedOnlyIfAllowed
  BY DEF Inv, ServedOnlyIfAllowed, CallsOK, CallOK, Checked, Names, At, Needed
<1> QED
  BY <1>1, Invariance, PTL

\* The live table is apply_delivery of what the ConfigMaps were at one moment:
\* never a part of a list, and never a handle that two of them claim
\* (watch_configmaps, apply_delivery).
THEOREM TableIsWhole == Spec => []TableIsDelivery
<1>1. ASSUME NEW s \in Deliveries, NEW h \in Handles
      PROVE  ApplyDelivery(s)[h] =
               IF \E n \in Cms : Claims(s, h) = {n}
               THEN s[CHOOSE n \in Cms : s[n] # None /\ s[n].handle = h].subject ELSE None
  <2>0. ApplyDelivery(s)[h] = IF Cardinality(Claims(s, h)) = 1
                              THEN s[CHOOSE n \in Claims(s, h) : TRUE].subject ELSE None
    BY DEF ApplyDelivery
  <2>1. IsFiniteSet(Claims(s, h))
    <3>1. Claims(s, h) \subseteq Cms
      BY DEF Claims, Present
    <3> QED
      BY <3>1, CmsAssumption, FS_Subset
  <2>2. ASSUME NEW n \in Cms, Claims(s, h) = {n}
        PROVE  /\ Cardinality(Claims(s, h)) = 1
               /\ (CHOOSE m \in Claims(s, h) : TRUE) = n
               /\ (CHOOSE m \in Cms : s[m] # None /\ s[m].handle = h) = n
    <3>1. Cardinality(Claims(s, h)) = 1
      BY <2>2, FS_Singleton
    <3>2. (CHOOSE m \in Claims(s, h) : TRUE) = n
      BY <2>2
    <3>3. \A m \in Cms : s[m] # None /\ s[m].handle = h <=> m = n
      BY <2>2 DEF Claims, Present
    <3> QED
      BY <3>1, <3>2, <3>3
  <2>3. ASSUME Cardinality(Claims(s, h)) = 1
        PROVE  \E n \in Cms : Claims(s, h) = {n}
    <3>1. PICK n : Claims(s, h) = {n}
      BY <2>1, <2>3, FS_Singleton
    <3> QED
      BY <3>1 DEF Claims, Present
  <2> QED
    BY <2>0, <2>2, <2>3
<1>2. ASSUME Inv PROVE TableIsDelivery
  <2>1. installed = 0 => table = NoTable /\ ~serving
    BY <1>2 DEF Inv, Watching
  <2>2. ASSUME installed # 0
        PROVE  states[installed] \in Deliveries /\ table = ApplyDelivery(states[installed])
    BY <1>2, <2>2, WatchFacts DEF Inv, Watching
  <2> HIDE DEF Inv
  <2> QED
    BY <1>1, <2>1, <2>2 DEF TableIsDelivery
<1> QED
  BY <1>2, Invariance, PTL

=============================================================================
