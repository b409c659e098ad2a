------------------------------ MODULE Catalogue ------------------------------
(***************************************************************************)
(* What a tool name means to a call.  Toolset ConfigMaps are merged into   *)
(* the dispatch table (shared/toolset.rs), from which the router rebuilds  *)
(* its catalogue (tool_router.rs): tools, their args and the workspace's   *)
(* grants.  A call reads the catalogue and the table several times on its  *)
(* way to a Job, and awaits in between (call_tool,                         *)
(* dispatch_toolset_in_process, begin_call).                               *)
(*                                                                         *)
(* A ConfigMap is its image, its keepalive flag and its tools; an arg is a *)
(* name, a type, whether it is required, and the env it is mapped to.  The *)
(* call itself, once its Job is chosen, is in ToolDispatch.                *)
(***************************************************************************)
EXTENDS Naturals, Sequences, SequencesExt, FiniteSets

CONSTANTS
    Framework,  \* names of the runtime and channel-stream tools
    TOOLSETS,   \* the workspace's toolsets, a sequence without duplicates
    GRANTS,     \* its grants: [toolset, grant, secret, path]
    Data,       \* what a ConfigMap may hold: [image, keepalive, tools]
    AgentTools, \* the agent's tools: list, or None
    Inputs,     \* inputs the model may send: sets of [name, type]
    Selection,  \* the turn's grants: toolset -> grant name
    Calls,
    None,
    MaxEdits    \* bound: edits of a ConfigMap

VARIABLES
    cms,      \* toolset -> the data of its ConfigMap, or None
    table,    \* the dispatch table: toolset -> entry
    tools,    \* the router's catalogue, a sequence of entries
    applied,  \* the catalogue is rebuilt, the table not yet swapped
    call,     \* call -> what it has read so far
    active,   \* (tool, grant) -> the warm Job recorded for it
    edits

vars == <<cms, table, tools, applied, call, active, edits>>

Sets == ToSet(TOOLSETS)
Types == {"string", "integer", "number", "boolean"}
ReservedEnv == {"TOOLSET_TOOL_NAME", "HOME"}

----------------------------------------------------------------------------
(* Configuration. *)

\* A grant names a Secret; its path, if any, is absolute and not a mount the Job needs.
GrantIsSound(g) == g.secret # "" /\ g.path \in {None, "absolute"}

\* One unsound grant fails the start.
ParsesGrants == \A g \in GRANTS : GrantIsSound(g)

\* A workspace's grants for one toolset: grant name -> grant.
GrantsOf(ts) ==
    LET mine == {g \in GRANTS : g.toolset = ts}
    IN  [n \in {g.grant : g \in mine} |-> CHOOSE g \in mine : g.grant = n]

\* from_data: every arg has a known type and an env, or the ConfigMap does not parse.
Parses(d) == \A t \in d.tools : \A a \in t.args : a.type \in Types /\ a.env # ""

\* merge_configmaps: what does not parse is left out.
Merge(m) == [ts \in {x \in DOMAIN m : m[x] # None /\ Parses(m[x])} |-> m[ts]]

\* A tool that shadows the framework's, or an arg mapped to an env of the harness's own.
Clash(entry) ==
    \E t \in entry.tools : t.name \in Framework \/ \E a \in t.args : a.env \in ReservedEnv

----------------------------------------------------------------------------
(* The catalogue. *)

FrameworkEntry(n) ==
    [name |-> n, source |-> "framework", toolset |-> "", args |-> {}, grants |-> <<>>]

ToolEntry(ts, t) ==
    [name |-> t.name, source |-> "toolset", toolset |-> ts, args |-> t.args,
     grants |-> GrantsOf(ts)]

Listed(ts, tbl) ==
    IF ts \notin DOMAIN tbl THEN <<>>
    ELSE IF Clash(tbl[ts]) THEN <<>>
    ELSE SetToSeq({ToolEntry(ts, t) : t \in tbl[ts].tools})

\* The framework's entries stay; of each toolset in scope, all or nothing.  The stable sort
\* by name keeps entries of one name in this order.
ApplyToolsets(tbl) ==
    SetToSeq({FrameworkEntry(n) : n \in Framework})
    \o FlattenSeq([i \in DOMAIN TOOLSETS |-> Listed(TOOLSETS[i], tbl)])

\* The entry a reader finds: the first of that name.
Find(n) == tools[SelectInSeq(tools, LAMBDA e : e.name = n)]
Known(n) == \E i \in DOMAIN tools : tools[i].name = n

\* The definitions a model is shown: the agent's list narrows only toolset tools.
ToolDefinitions ==
    {e \in ToSet(tools) : e.source = "toolset" /\ AgentTools # None => e.name \in AgentTools}

Init ==
    /\ ParsesGrants
    /\ cms \in [Sets -> Data \cup {None}]
    /\ table = Merge(cms) /\ tools = ApplyToolsets(Merge(cms)) /\ applied = FALSE
    /\ call = [c \in Calls |-> [pc |-> "turn"]]
    /\ active = <<>>
    /\ edits = 0

\* A ConfigMap is added, changed or removed.
ConfigMapChanges(ts) ==
    /\ ~applied /\ table = Merge(cms)
    /\ edits < MaxEdits /\ edits' = edits + 1
    /\ \E d \in Data \cup {None} : d # cms[ts] /\ cms' = [cms EXCEPT ![ts] = d]
    /\ UNCHANGED <<table, tools, applied, call, active>>

\* The watcher merges, and inside the merge the router rebuilds its catalogue.
Rebuild ==
    /\ ~applied /\ table # Merge(cms)
    /\ tools' = ApplyToolsets(Merge(cms))
    /\ applied' = TRUE
    /\ UNCHANGED <<cms, table, call, active, edits>>

\* Then it swaps the dispatch table.
Swap ==
    /\ applied
    /\ table' = Merge(cms) /\ applied' = FALSE
    /\ UNCHANGED <<cms, tools, call, active, edits>>

----------------------------------------------------------------------------
(* A call. *)

Goes(c, r) == call' = [call EXCEPT ![c] = r @@ @]
Refused(c) == Goes(c, [pc |-> "refused"])
Is(c, p) == call[c].pc = p
Still == UNCHANGED <<cms, table, tools, applied, active, edits>>

\* The model is shown the definitions and calls one of them.
Turn(c) ==
    /\ Is(c, "turn")
    /\ \E e \in ToolDefinitions, input \in Inputs :
         Goes(c, [pc |-> "source", name |-> e.name, input |-> input])
    /\ Still

\* source_of: which arm of call_tool.
SourceOf(c) ==
    /\ Is(c, "source")
    /\ IF ~Known(call[c].name) THEN Refused(c)
       ELSE Goes(c, [pc |-> IF Find(call[c].name).source = "toolset" THEN "approval"
                            ELSE "framework"])
    /\ Still

\* The user is asked; this may take as long as the user does.
AskApproval(c) ==
    /\ Is(c, "approval")
    /\ Goes(c, [pc |-> "toolset"]) \/ Refused(c)
    /\ Still

ToolsetOf(c) ==
    /\ Is(c, "toolset")
    /\ IF Known(call[c].name)
       THEN Goes(c, [pc |-> "args", toolset |-> Find(call[c].name).toolset])
       ELSE Refused(c)
    /\ Still

\* validate_call_input: no field that is not declared, every required one there, each of
\* its declared type.  A whole number is a number too.
Fits(type, arg) == type = arg.type \/ (type = "integer" /\ arg.type = "number")
Valid(input, args) ==
    /\ \A f \in input : \E a \in args : a.name = f.name /\ Fits(f.type, a)
    /\ \A a \in args : a.required => \E f \in input : f.name = a.name

\* A tool that is gone by now has no args.
ArgsFor(c) ==
    /\ Is(c, "args")
    /\ LET args == IF Known(call[c].name) THEN Find(call[c].name).args ELSE {}
       IN  IF Valid(call[c].input, args)
           THEN Goes(c, [pc |-> "grants", args |-> args,
                         env |-> {a.env : a \in {x \in args : \E f \in call[c].input :
                                                                f.name = x.name}}])
           ELSE Refused(c)
    /\ Still

\* The turn's selection for the toolset read before, among the grants the tool has now.
GrantsFor(c) ==
    /\ Is(c, "grants")
    /\ LET bound == IF Known(call[c].name) THEN Find(call[c].name).grants ELSE <<>>
           ts == call[c].toolset
       IN  IF ts \notin DOMAIN Selection THEN Goes(c, [pc |-> "begin", grant |-> None])
           ELSE IF Selection[ts] \in DOMAIN bound
           THEN Goes(c, [pc |-> "begin", grant |-> bound[Selection[ts]]])
           ELSE Refused(c)
    /\ Still

\* begin_call: the toolset's entry, from the table.
ReadEntry(c) ==
    /\ Is(c, "begin")
    /\ IF call[c].toolset \in DOMAIN table
       THEN Goes(c, [pc |-> "spawn", entry |-> table[call[c].toolset]])
       ELSE Refused(c)
    /\ Still

GrantName(c) == IF call[c].grant = None THEN None ELSE call[c].grant.grant
JobKey(c) == <<call[c].name, GrantName(c)>>

\* The Job recorded for the tool's and the grant's names is attached to, if it is warm.
Attach(c) ==
    /\ Is(c, "spawn")
    /\ JobKey(c) \in DOMAIN active
    /\ Goes(c, [pc |-> "begun", job |-> active[JobKey(c)]])
    /\ UNCHANGED <<cms, table, tools, applied, active, edits>>

\* Else one is built from the entry and the grant; a warm one is recorded.  A record whose
\* pod has been idle is not attachable.
SpawnJob(c) ==
    /\ Is(c, "spawn")
    /\ LET job == [toolset |-> call[c].toolset, entry |-> call[c].entry,
                   grant |-> call[c].grant]
       IN  /\ Goes(c, [pc |-> "begun", job |-> job])
           /\ active' = IF job.entry.keepalive
                        THEN [k \in {JobKey(c)} |-> job] @@ active
                        ELSE [k \in DOMAIN active \ {JobKey(c)} |-> active[k]]
    /\ UNCHANGED <<cms, table, tools, applied, edits>>

Done(c) == call[c].pc \in {"refused", "framework", "begun"}
Finished == (\A c \in Calls : Done(c)) /\ UNCHANGED vars

CallStep(c) ==
    \/ Turn(c) \/ SourceOf(c) \/ AskApproval(c) \/ ToolsetOf(c) \/ ArgsFor(c) \/ GrantsFor(c)
    \/ ReadEntry(c) \/ Attach(c) \/ SpawnJob(c)

Next ==
    \/ \E ts \in Sets : ConfigMapChanges(ts)
    \/ Rebuild \/ Swap
    \/ \E c \in Calls : CallStep(c)
    \/ Finished

Spec == Init /\ [][Next]_vars

----------------------------------------------------------------------------
(* Properties *)

\* A call that reaches a Job of a toolset carries a grant of that toolset: "Rides the same
\* atomic swap as `args`, so a tool's grants can never lag its definition" (CatalogEntry,
\* tool_router.rs).  The swap is atomic; the reads of one call are not.
GrantsFollowDefinition ==
    \A c \in Calls : Is(c, "begun") /\ call[c].grant # None =>
        call[c].grant.toolset = call[c].toolset
=============================================================================
