---------------------------- MODULE CapabilityPod ----------------------------
(***************************************************************************)
(* One capability Job and its pod: what the harness writes into the Job    *)
(* (job.rs), how the pod starts and when it exits (toolset-runtime and     *)
(* inference-runtime main.rs, shared keepalive.rs), and how it serves the  *)
(* calls the harness dials it for (toolset-runtime server.rs, execute.rs,  *)
(* parts.rs, stdlib.rs): the child process and its two pipes, the frames,  *)
(* the cancel that arrives on the same stream.  A model call itself is in  *)
(* Inference; here it is what the inference pod does between two counters. *)
(*                                                                         *)
(* A line is what it holds.  Time is two facts: the idle window    *)
(* has passed since the last touch, the Job's deadline strikes.            *)
(***************************************************************************)
EXTENDS Naturals, Sequences

CONSTANTS
    MaxCalls,   \* bound: dials of the pod
    Tools,      \* tools of the Job: "Shell", "Read", "Write", "Edit", "Search" or of an image
    Entries,    \* toolset entries: [keepalive, env]
    Lines,      \* lines a process writes: [s, k], on a pipe and of a kind
    Grants,     \* grants of the Jobs: a target, by the mount it is in, or None
    None,       \* no grant
    ChanCap,    \* frames a call's channel holds (64)
    MaxOut,     \* lines of a builtin's output kept (30000 characters)
    MaxEvents   \* bound: lines, failures, deaths, helpers, cancels, second dials

ASSUME NoneAssumption == None \notin {"tmp", "home", "grant", "workspace", "provider"}
ASSUME BoundAssumption == {MaxCalls, ChanCap, MaxOut} \subseteq Nat \ {0} /\ MaxEvents \in Nat
ASSUME EntriesAssumption ==
    \A e \in Entries : e.keepalive \in BOOLEAN /\ e.env \in Seq(STRING \X STRING)
ASSUME LinesAssumption ==
    Lines \subseteq [s : {"out", "err"}, k : {"text", "binary", "image", "secret"}]

VARIABLES
    job,        \* the Job
    pod,        \* boot, stage, serve, serving, closing, gone
    staged,     \* the credential is at its target
    scrubs,     \* the frames' ScrubSet holds the credential
    logScrubs,  \* the log writer's ScrubSet holds it
    inFlight, completed, fresh,   \* Activity; fresh: touched within the idle window
    restarted,  \* the kubelet started the container again
    watcher,    \* poll, clock (it found no call in flight)
    pc,         \* call -> where its task is
    link,       \* call -> the harness holds the stream
    token,      \* calls whose cancel token fired
    child,      \* call -> none, alive, killed, ok, bad
    helper,     \* calls whose child left a process behind that holds the pipes
    shut,       \* calls whose child closed its pipes and runs on
    wrote,      \* call -> the lines written to each pipe, in order
    taken,      \* call -> lines read off each pipe
    open,       \* call -> pipes not at their end
    ended,      \* call -> how supervision ended: run, exit, cancel, timeout
    imgErr,     \* calls one of whose images failed
    pend,       \* call -> frames still to send
    chan,       \* call -> frames in its channel
    got,        \* call -> frames the harness read
    scratch,    \* the scratch image file is there
    file,       \* edits the workspace file holds
    snap,       \* call -> what an Edit read
    events

podVars == <<job, pod, staged, scrubs, logScrubs, restarted, watcher>>
actVars == <<inFlight, completed, fresh>>
procVars == <<child, helper, shut, wrote>>
taskVars == <<taken, open, ended, imgErr, snap>>
wireVars == <<pend, chan, got>>
vars == <<job, pod, staged, scrubs, logScrubs, restarted, watcher, inFlight, completed, fresh, pc,
          link, token, child, helper, shut, wrote, taken, open, ended, imgErr, snap, pend,
          chan, got, scratch, file, events>>

Calls == 1..MaxCalls
Pipes == {"out", "err"}
Builtins == {"Shell", "Read", "Write", "Edit", "Search"}
Event == events < MaxEvents /\ events' = events + 1

----------------------------------------------------------------------------
(* The Job. *)

\* Of two env vars of one name the kubelet takes the last.
EnvOf(env, name) ==
    LET hits == {i \in DOMAIN env : env[i][1] = name}
    IN  IF hits = {} THEN "" ELSE env[CHOOSE i \in hits : \A j \in hits : j <= i][2]

\* The Secret, staged read-only.
SecretVolume(g) == IF g = None THEN {} ELSE {"staging"}

\* Its target is registered to be scrubbed.
ScrubSecretsEnv(g) == <<<<"TOOLSET_SCRUB_SECRETS", g>>>>

\* The pod is told to copy it from the staging path to the target.
CredentialEnv(g) ==
    IF g = None THEN <<>> ELSE <<<<"TOOLSET_CREDENTIAL_MAP", g>>>> \o ScrubSecretsEnv(g)

\* The entry's own env, not held against the names the harness sets.
ForwardedEnv(e) == e.env

ToolEnv(tool, e, g) ==
    <<<<"TOOLSET_TOOL_NAME", tool>>>>
    \o (IF e.keepalive THEN <<<<"TOOLSET_KEEPALIVE", "true">>>> ELSE <<>>)
    \o <<<<"HOME", "home">>>> \o ForwardedEnv(e) \o CredentialEnv(g)

ToolMounts == {"tmp", "home", "grant", "workspace"}

BuildToolJob(tool, e, g) ==
    [kind |-> "tool", env |-> ToolEnv(tool, e, g), writable |-> ToolMounts,
     readonly |-> SecretVolume(g), restart |-> IF e.keepalive THEN "OnFailure" ELSE "Never"]

InferenceEnv(g) ==
    <<<<"INFERENCE_MODEL", "model">>, <<"HOME", "home">>>> \o CredentialEnv(g)
    \o (IF g = None THEN <<>> ELSE <<<<"INFERENCE_API_KEY_FILE", g>>>>)

\* A Job for one model call; its credential's target is fixed.
BuildInferenceJob(secret) ==
    LET g == IF secret THEN "provider" ELSE None
    IN  [kind |-> "inference", env |-> InferenceEnv(g), writable |-> {"tmp", "home", "provider"},
         readonly |-> SecretVolume(g), restart |-> "Never"]

Jobs == {BuildToolJob(t, e, g) : t \in Tools, e \in Entries, g \in Grants}
        \cup {BuildInferenceJob(s) : s \in BOOLEAN}

Tool == EnvOf(job.env, "TOOLSET_TOOL_NAME")
Keepalive == job.kind = "tool" /\ EnvOf(job.env, "TOOLSET_KEEPALIVE") = "true"
Target == EnvOf(job.env, "TOOLSET_CREDENTIAL_MAP")

Init ==
    /\ job \in Jobs
    /\ pod = "boot" /\ staged = FALSE /\ scrubs = FALSE /\ logScrubs = FALSE /\ restarted = FALSE
    /\ inFlight = 0 /\ completed = 0 /\ fresh = TRUE /\ watcher = "poll"
    /\ pc = [c \in Calls |-> "none"]
    /\ link = [c \in Calls |-> FALSE]
    /\ token = {}
    /\ child = [c \in Calls |-> "none"]
    /\ helper = {} /\ shut = {}
    /\ wrote = [c \in Calls |-> [s \in Pipes |-> <<>>]]
    /\ taken = [c \in Calls |-> [s \in Pipes |-> 0]]
    /\ open = [c \in Calls |-> {}]
    /\ ended = [c \in Calls |-> "run"]
    /\ imgErr = {}
    /\ snap = [c \in Calls |-> {}]
    /\ pend = [c \in Calls |-> <<>>]
    /\ chan = [c \in Calls |-> <<>>]
    /\ got = [c \in Calls |-> <<>>]
    /\ scratch = FALSE /\ file = {}
    /\ events = 0

----------------------------------------------------------------------------
(* main: boot, shutdown, death. *)

\* ScrubSet::from_env_var: the value of each registered target that can be read.
ScrubSetLoads == staged /\ EnvOf(job.env, "TOOLSET_SCRUB_SECRETS") # ""

\* ScrubSet::apply.
Scrubbed(k) == IF k = "secret" /\ scrubs THEN "redacted" ELSE k

\* The inference pod builds its log writer first, from a target nothing is copied to yet.
BootLog ==
    /\ pod = "boot"
    /\ logScrubs' = (job.kind = "inference" /\ ScrubSetLoads)
    /\ pod' = "stage"
    /\ UNCHANGED <<job, staged, scrubs, restarted, watcher, actVars, pc, link, token, procVars, taskVars,
                   wireVars, scratch, file, events>>

\* Every process and all memory of the container ends.
Dies == /\ pc' = [c \in Calls |-> IF pc[c] = "none" THEN "none" ELSE "ended"]
        /\ link' = [c \in Calls |-> FALSE]
        /\ child' = [c \in Calls |-> IF child[c] = "alive" THEN "killed" ELSE child[c]]
        /\ helper' = {} /\ imgErr' = {}
        /\ ended' = [c \in Calls |-> "run"]
        /\ taken' = [c \in Calls |-> [s \in Pipes |-> 0]]
        /\ open' = [c \in Calls |-> {}]
        /\ snap' = [c \in Calls |-> {}]
        /\ pend' = [c \in Calls |-> <<>>]
        /\ chan' = [c \in Calls |-> <<>>]
        /\ UNCHANGED <<job, staged, scrubs, logScrubs, watcher, actVars, token, shut, wrote,
                       got, scratch, file>>

Exits == pod' = "gone" /\ Dies /\ UNCHANGED restarted

\* The kubelet starts a container that failed again only under OnFailure, its volumes kept.
Fails ==
    /\ pod' = IF job.restart = "Never" THEN "gone" ELSE "boot"
    /\ restarted' = (restarted \/ job.restart = "OnFailure")
    /\ Dies

\* A copy needs the staged Secret and a writable target.
Copies == Target = "" \/ (Target \in job.writable /\ "staging" \in job.readonly)

\* stage_credentials: no map, or every copy lands.
StageCredentials ==
    /\ pod = "stage" /\ Copies
    /\ staged' = (staged \/ Target # "")
    /\ pod' = "serve"
    /\ UNCHANGED <<job, scrubs, logScrubs, restarted, watcher, actVars, pc, link, token,
                   procVars, taskVars, wireVars, scratch, file, events>>

\* A copy or a mode change is refused, as one to the read-only root always is: main
\* returns an error.
StageFails ==
    /\ pod = "stage" /\ Target # ""
    /\ IF Copies THEN Event ELSE UNCHANGED events
    /\ Fails

\* load_config: a name is missing, the format unknown, the key file there but unreadable or
\* blank.
LoadConfigFails ==
    /\ pod = "serve" /\ job.kind = "inference"
    /\ Event
    /\ Fails

\* Mutant of Serve: the registry is read before the copies are made.
ServeScrubFirst ==
    /\ pod = "serve"
    /\ scrubs' = logScrubs
    /\ pod' = "serving"
    /\ inFlight' = 0 /\ completed' = 0 /\ fresh' = TRUE /\ watcher' = "poll"
    /\ UNCHANGED <<job, staged, logScrubs, restarted, pc, link, token, procVars, taskVars, wireVars,
                   scratch, file, events>>

\* The service reads the registered values back from their targets and counts from zero.
Serve ==
    /\ pod = "serve"
    /\ scrubs' = ScrubSetLoads
    /\ pod' = "serving"
    /\ inFlight' = 0 /\ completed' = 0 /\ fresh' = TRUE /\ watcher' = "poll"
    /\ UNCHANGED <<job, staged, logScrubs, restarted, pc, link, token, procVars, taskVars, wireVars,
                   scratch, file, events>>

IdlePasses ==
    /\ pod = "serving" /\ fresh
    /\ fresh' = FALSE
    /\ UNCHANGED <<podVars, inFlight, completed, pc, link, token, procVars, taskVars,
                   wireVars, scratch, file, events>>

Close == pod' = "closing" /\ UNCHANGED watcher

\* wait: nothing in flight; a one-shot pod that finished a call closes, any other looks
\* at the clock next.
Poll ==
    /\ pod = "serving" /\ watcher = "poll"
    /\ inFlight = 0
    /\ IF ~Keepalive /\ completed >= 1 THEN Close ELSE watcher' = "clock" /\ UNCHANGED pod
    /\ UNCHANGED <<job, staged, scrubs, logScrubs, restarted, actVars, pc, link, token, procVars,
                   taskVars, wireVars, scratch, file, events>>

PollClock ==
    /\ pod = "serving" /\ watcher = "clock"
    /\ IF fresh THEN watcher' = "poll" /\ UNCHANGED pod ELSE Close
    /\ UNCHANGED <<job, staged, scrubs, logScrubs, restarted, actVars, pc, link, token, procVars,
                   taskVars, wireVars, scratch, file, events>>

\* A stream is over when its task dropped the sender and every frame was read, or the
\* harness went away.
Over(c) ==
    \/ pc[c] \in {"none", "refused"} \/ ~link[c]
    \/ (pc[c] \in {"finish", "touchEnd", "ended", "dead"} /\ chan[c] = <<>>)

\* serve_with_shutdown waits for the streams it holds, then main returns.
Shutdown ==
    /\ pod = "closing"
    /\ \A c \in Calls : Over(c)
    /\ Exits
    /\ UNCHANGED events

ContainerDies ==
    /\ pod \in {"serving", "closing"}
    /\ Event
    /\ Fails

\* backoffLimit 0: a Job whose container was restarted has failed, and its pod is removed.
JobFails ==
    /\ pod # "gone" /\ restarted
    /\ Exits
    /\ UNCHANGED events

\* activeDeadlineSeconds.
JobDeadline ==
    /\ pod # "gone"
    /\ Exits
    /\ UNCHANGED events

----------------------------------------------------------------------------
(* A call: the harness's half. *)

\* The harness dials a one-shot Job once, a warm one for each call.
Dial(c) ==
    /\ pc[c] = "none" /\ pod = "serving"
    /\ IF c = 1 THEN UNCHANGED events
       ELSE pc[c - 1] # "none" /\ job.restart = "OnFailure" /\ Event
    /\ pc' = [pc EXCEPT ![c] = "accepted"]
    /\ link' = [link EXCEPT ![c] = TRUE]
    /\ UNCHANGED <<podVars, actVars, token, procVars, taskVars, wireVars, scratch, file>>

\* The cancel is a message on the held stream; the watch task fires the token.
Cancel(c) ==
    /\ link[c] /\ c \notin token
    /\ pc[c] \notin {"accepted", "finish", "touchEnd", "ended", "dead"}
    /\ Event
    /\ token' = token \cup {c}
    /\ UNCHANGED <<podVars, actVars, pc, link, procVars, taskVars, wireVars, scratch, file>>

\* The harness drops the stream.  The watch task ends without firing the token.
Disconnect(c) ==
    /\ link[c]
    /\ Event
    /\ link' = [link EXCEPT ![c] = FALSE]
    /\ UNCHANGED <<podVars, actVars, pc, token, procVars, taskVars, wireVars, scratch, file>>

HarnessReads(c) ==
    /\ link[c] /\ chan[c] # <<>>
    /\ got' = [got EXCEPT ![c] = Append(@, Head(chan[c]))]
    /\ chan' = [chan EXCEPT ![c] = Tail(@)]
    /\ UNCHANGED <<podVars, actVars, pc, link, token, procVars, taskVars, pend, scratch, file, events>>

----------------------------------------------------------------------------
(* A call: run, the server's half. *)

\* The first message is the assignment: the call counts as in flight, the clock is touched
\* and the task spawned; the pod runs the one tool it was named for.
Assign(c) ==
    /\ pc[c] = "accepted" /\ link[c]
    /\ inFlight' = inFlight + 1 /\ fresh' = TRUE
    /\ pc' = [pc EXCEPT ![c] = IF job.kind = "inference" THEN "model"
                               ELSE IF Tool \in Builtins \ {"Shell"} THEN "files" ELSE "spawn"]
    /\ UNCHANGED <<podVars, completed, link, token, procVars, taskVars, wireVars, scratch,
                   file, events>>

\* The stream ended before an assignment: InvalidArgument.
RefuseRun(c) ==
    /\ pc[c] = "accepted" /\ ~link[c]
    /\ pc' = [pc EXCEPT ![c] = "refused"]
    /\ UNCHANGED <<podVars, actVars, link, token, procVars, taskVars, wireVars, scratch, file, events>>

\* run_model_call: a terminal event, or none after a cancel.
ModelCall(c) ==
    /\ pc[c] = "model"
    /\ IF c \in token
       THEN /\ pc' = [pc EXCEPT ![c] = "finish"]
            /\ UNCHANGED pend
       ELSE /\ pc' = [pc EXCEPT ![c] = "flush"]
            /\ \E o \in {"DONE", "FAILED"} :
                 pend' = [pend EXCEPT ![c] = <<[s |-> "end", n |-> 0, k |-> o]>>]
    /\ UNCHANGED <<podVars, actVars, link, token, procVars, taskVars, chan, got, scratch, file, events>>

\* The task's end: completed before in_flight, the clock last.
Finish(c) ==
    /\ pc[c] = "finish"
    /\ completed' = completed + 1
    /\ inFlight' = inFlight - 1
    /\ pc' = [pc EXCEPT ![c] = "touchEnd"]
    /\ UNCHANGED <<podVars, fresh, link, token, procVars, taskVars, wireVars, scratch, file, events>>

\* The clock is touched; with the task go its locals.
TouchEnd(c) ==
    /\ pc[c] = "touchEnd"
    /\ fresh' = TRUE
    /\ pc' = [pc EXCEPT ![c] = "ended"]
    /\ taken' = [taken EXCEPT ![c] = [s \in Pipes |-> 0]]
    /\ open' = [open EXCEPT ![c] = {}]
    /\ ended' = [ended EXCEPT ![c] = "run"]
    /\ imgErr' = imgErr \ {c}
    /\ snap' = [snap EXCEPT ![c] = {}]
    /\ UNCHANGED <<podVars, inFlight, completed, link, token, procVars, wireVars, scratch,
                   file, events>>

----------------------------------------------------------------------------
(* The child and what it leaves behind. *)

Holders(c) == (child[c] = "alive" /\ c \notin shut) \/ c \in helper
Pipe(c, s) == wrote[c][s]

\* A line to a pipe: text, bytes that are not UTF-8, the credential, or the marker of a
\* scratch image (which is written first).
ChildWrites(c, l) ==
    /\ Holders(c)
    /\ l.k = "secret" => staged
    /\ Event
    /\ wrote' = [wrote EXCEPT ![c][l.s] = Append(@, l.k)]
    /\ scratch' = (scratch \/ l.k = "image")
    /\ UNCHANGED <<podVars, actVars, pc, link, token, child, helper, shut, taskVars, wireVars,
                   file>>

ChildForks(c) ==
    /\ child[c] = "alive" /\ c \notin helper \cup shut
    /\ Event
    /\ helper' = helper \cup {c}
    /\ UNCHANGED <<podVars, actVars, pc, link, token, child, shut, wrote, taskVars, wireVars,
                   scratch, file>>

ChildShuts(c) ==
    /\ child[c] = "alive" /\ c \notin shut
    /\ Event
    /\ shut' = shut \cup {c}
    /\ UNCHANGED <<podVars, actVars, pc, link, token, child, helper, wrote, taskVars, wireVars,
                   scratch, file>>

ChildExits(c) ==
    /\ child[c] = "alive"
    /\ \E e \in {"ok", "bad"} : child' = [child EXCEPT ![c] = e]
    /\ UNCHANGED <<podVars, actVars, pc, link, token, helper, shut, wrote, taskVars, wireVars,
                   scratch, file, events>>

HelperExits(c) ==
    /\ c \in helper
    /\ helper' = helper \ {c}
    /\ UNCHANGED <<podVars, actVars, pc, link, token, child, shut, wrote, taskVars, wireVars,
                   scratch, file, events>>

Kill(c) == child' = [child EXCEPT ![c] = IF @ = "alive" THEN "killed" ELSE @]

----------------------------------------------------------------------------
(* Frames. *)

End(o) == [s |-> "end", n |-> 0, k |-> o]
Note(s) == [s |-> s, n |-> 0, k |-> "note"]

\* A line as its frame: the credential scrubbed, a marker's image read and its file
\* removed, or the error that takes its place.
LineFrame(s, k, n, there) ==
    [s |-> s, n |-> n, k |-> IF k = "image" /\ ~there THEN "noimage" ELSE Scrubbed(k)]

\* The n-th line of a pipe that is read as a whole: only its first image finds the file.
BufferedLine(s, ls, n) ==
    LineFrame(s, ls[n], n, scratch /\ \A i \in 1..(n - 1) : ls[i] # "image")

\* truncate_middle: a head and a tail around a note.
BufferedFrames(c, s) ==
    LET ls == Pipe(c, s)
    IN  IF Len(ls) <= MaxOut THEN [n \in DOMAIN ls |-> BufferedLine(s, ls, n)]
        ELSE <<BufferedLine(s, ls, 1), Note(s), BufferedLine(s, ls, Len(ls))>>

HasBadImage(fs) == \E i \in DOMAIN fs : fs[i].k = "noimage"

\* frames_for: the terminal is DONE or FAILED, after a cancel too.
FramesFor(c, good) ==
    LET fs == BufferedFrames(c, "out") \o BufferedFrames(c, "err")
    IN  Append(fs, End(IF good /\ ~HasBadImage(fs) THEN "DONE" ELSE "FAILED"))

Flushes(c, fs) ==
    /\ pend' = [pend EXCEPT ![c] = fs]
    /\ pc' = [pc EXCEPT ![c] = "flush"]

\* Mutant of Flush: the task returns, its counters as they were, where the harness is gone.
FlushReturns(c) ==
    /\ pc[c] = "flush"
    /\ IF ~link[c]
       THEN /\ pend' = [pend EXCEPT ![c] = <<>>]
            /\ pc' = [pc EXCEPT ![c] = "left"]
            /\ UNCHANGED chan
       ELSE /\ Len(chan[c]) < ChanCap
            /\ chan' = [chan EXCEPT ![c] = Append(@, Head(pend[c]))]
            /\ pend' = [pend EXCEPT ![c] = Tail(@)]
            /\ pc' = [pc EXCEPT ![c] = IF Len(pend[c]) = 1 THEN "finish" ELSE "flush"]
    /\ UNCHANGED <<podVars, actVars, link, token, procVars, taskVars, got, scratch, file, events>>

\* The last frames go out; a closed channel ends it early.
Flush(c) ==
    /\ pc[c] = "flush"
    /\ IF ~link[c]
       THEN /\ pend' = [pend EXCEPT ![c] = <<>>]
            /\ pc' = [pc EXCEPT ![c] = "finish"]
            /\ UNCHANGED chan
       ELSE /\ Len(chan[c]) < ChanCap
            /\ chan' = [chan EXCEPT ![c] = Append(@, Head(pend[c]))]
            /\ pend' = [pend EXCEPT ![c] = Tail(@)]
            /\ pc' = [pc EXCEPT ![c] = IF Len(pend[c]) = 1 THEN "finish" ELSE "flush"]
    /\ UNCHANGED <<podVars, actVars, link, token, procVars, taskVars, got, scratch, file, events>>

----------------------------------------------------------------------------
(* Spawning; stream_frames, for a tool of an image. *)

Spawn(c) ==
    /\ pc[c] = "spawn"
    /\ child' = [child EXCEPT ![c] = "alive"]
    /\ open' = [open EXCEPT ![c] = Pipes]
    /\ pc' = [pc EXCEPT ![c] = IF Tool = "Shell" THEN "shell" ELSE "pump"]
    /\ UNCHANGED <<podVars, actVars, link, token, helper, shut, wrote, taken, ended, imgErr,
                   snap, wireVars, scratch, file, events>>

\* The process does not start: one line, on stdout or for a Shell on stderr, and FAILED.
SpawnFails(c) ==
    /\ pc[c] = "spawn"
    /\ Event
    /\ Flushes(c, <<Note(IF Tool = "Shell" THEN "err" ELSE "out"), End("FAILED")>>)
    /\ UNCHANGED <<podVars, actVars, link, token, procVars, taskVars, chan, got, scratch, file>>

\* The select is biased: a fired token is served before any line.
KillOnCancel(c) ==
    /\ pc[c] = "pump" /\ open[c] # {}
    /\ c \in token /\ ended[c] = "run"
    /\ Kill(c)
    /\ ended' = [ended EXCEPT ![c] = "cancel"]
    /\ UNCHANGED <<podVars, actVars, pc, link, token, helper, shut, wrote, taken, open, imgErr,
                   snap, wireVars, scratch, file, events>>

\* How many lines next_line can return: one that is not UTF-8 is a read error, taken for
\* the end.
Readable(c, s) ==
    LET ls == Pipe(c, s)
    IN  CHOOSE n \in 0..Len(ls) : /\ \A i \in 1..n : ls[i] # "binary"
                                  /\ n < Len(ls) => ls[n + 1] = "binary"

Unread(c, s) == taken[c][s] < Readable(c, s)
Selects(c, s) == pc[c] = "pump" /\ s \in open[c] /\ (c \in token => ended[c] # "run")

ReadLine(c, s) ==
    /\ Selects(c, s) /\ Unread(c, s)
    /\ LET n == taken[c][s] + 1
           f == LineFrame(s, Pipe(c, s)[n], n, scratch)
       IN  /\ pend' = [pend EXCEPT ![c] = <<f>>]
           /\ taken' = [taken EXCEPT ![c][s] = n]
           /\ imgErr' = IF f.k = "noimage" THEN imgErr \cup {c} ELSE imgErr
           /\ scratch' = (scratch /\ f.k # "image")
    /\ pc' = [pc EXCEPT ![c] = "send"]
    /\ UNCHANGED <<podVars, actVars, link, token, procVars, open, ended, snap, chan, got, file, events>>

\* Mutant of PipeEnds: the pipe ends with the child.
PipeEndsAtExit(c, s) ==
    /\ Selects(c, s) /\ ~Unread(c, s)
    /\ child[c] # "alive"
    /\ open' = [open EXCEPT ![c] = @ \ {s}]
    /\ UNCHANGED <<podVars, actVars, pc, link, token, procVars, taken, ended, imgErr, snap,
                   wireVars, scratch, file, events>>

\* next_line returns None: every process that held the pipe let go of it, or the line
\* cannot be read.
PipeEnds(c, s) ==
    /\ Selects(c, s) /\ ~Unread(c, s)
    /\ ~Holders(c) \/ Readable(c, s) < Len(Pipe(c, s))
    /\ open' = [open EXCEPT ![c] = @ \ {s}]
    /\ UNCHANGED <<podVars, actVars, pc, link, token, procVars, taken, ended, imgErr, snap,
                   wireVars, scratch, file, events>>

\* A closed channel makes stream_frames return; the child is left to itself.
Send(c) ==
    /\ pc[c] = "send"
    /\ IF ~link[c]
       THEN /\ pc' = [pc EXCEPT ![c] = "finish"]
            /\ UNCHANGED chan
       ELSE /\ Len(chan[c]) < ChanCap
            /\ chan' = [chan EXCEPT ![c] = Append(@, Head(pend[c]))]
            /\ pc' = [pc EXCEPT ![c] = "pump"]
    /\ pend' = [pend EXCEPT ![c] = <<>>]
    /\ UNCHANGED <<podVars, actVars, link, token, procVars, taskVars, got, scratch, file, events>>

\* Both pipes are at their end and the child is reaped, a cancel no longer watched.
Reap(c) ==
    /\ pc[c] = "pump" /\ open[c] = {}
    /\ child[c] # "alive"
    /\ Flushes(c, <<End(IF ended[c] = "cancel" THEN "CANCELED"
                        ELSE IF child[c] = "ok" /\ c \notin imgErr THEN "DONE"
                        ELSE "FAILED")>>)
    /\ UNCHANGED <<podVars, actVars, link, token, procVars, taskVars, chan, got, scratch, file, events>>

----------------------------------------------------------------------------
(* run_supervised_child and the builtins. *)

\* Cancel, then deadline, then exit; a kill is waited for.
Supervise(c) ==
    /\ pc[c] = "shell"
    /\ \/ c \in token /\ Kill(c) /\ ended' = [ended EXCEPT ![c] = "cancel"]
       \/ c \notin token /\ Kill(c) /\ ended' = [ended EXCEPT ![c] = "timeout"]
       \/ /\ c \notin token /\ child[c] # "alive"
          /\ ended' = [ended EXCEPT ![c] = "exit"]
          /\ UNCHANGED child
    /\ pc' = [pc EXCEPT ![c] = "drain"]
    /\ UNCHANGED <<podVars, actVars, link, token, helper, shut, wrote, taken, open, imgErr,
                   snap, wireVars, scratch, file, events>>

\* The readers reach the pipes' ends; after a timeout what they read is dropped.
Collect(c) ==
    /\ pc[c] = "drain" /\ ~Holders(c)
    /\ LET kept == ended[c] # "timeout"
       IN  /\ Flushes(c, IF kept THEN FramesFor(c, ended[c] = "exit" /\ child[c] = "ok")
                         ELSE <<Note("err"), End("FAILED")>>)
           /\ scratch' = (scratch /\ ~(kept /\ \E i \in DOMAIN Pipe(c, "out") :
                                          Pipe(c, "out")[i] = "image"))
    /\ UNCHANGED <<podVars, actVars, link, token, procVars, taskVars, chan, got, file,
                   events>>

\* A cut inside a wide character panics: the task is gone, its counters as they were.
CollectPanics(c) ==
    /\ pc[c] = "drain" /\ ~Holders(c) /\ ended[c] # "timeout"
    /\ \E s \in Pipes : Len(Pipe(c, s)) > MaxOut
    /\ pc' = [pc EXCEPT ![c] = "dead"]
    /\ UNCHANGED <<podVars, actVars, link, token, procVars, taskVars, wireVars, scratch, file, events>>

\* Missing parameter, file over the cap, absent or unreadable, no unique match, rg failed.
FilesRefuse(c) ==
    /\ pc[c] \in {"files", "edit"}
    /\ Flushes(c, <<Note("err"), End("FAILED")>>)
    /\ UNCHANGED <<podVars, actVars, link, token, procVars, taskVars, chan, got, scratch, file, events>>

\* A page of the file's lines, or of the matches ripgrep found.
ReadFile(c) ==
    /\ pc[c] = "files" /\ Tool = "Read"
    /\ snap' = [snap EXCEPT ![c] = file]
    /\ Flushes(c, <<Note("out"), End("DONE")>>)
    /\ UNCHANGED <<podVars, actVars, link, token, procVars, taken, open, ended, imgErr, chan,
                   got, scratch, file, events>>

SearchFiles(c) ==
    /\ pc[c] = "files" /\ Tool = "Search"
    /\ Flushes(c, <<Note("out"), End("DONE")>>)
    /\ UNCHANGED <<podVars, actVars, link, token, procVars, taskVars, chan, got, scratch, file,
                   events>>

WriteFile(c) ==
    /\ pc[c] = "files" /\ Tool = "Write"
    /\ file' = {c}
    /\ Flushes(c, <<Note("out"), End("DONE")>>)
    /\ UNCHANGED <<podVars, actVars, link, token, procVars, taskVars, chan, got, scratch, events>>

\* Edit reads the whole file, replaces its one match and writes the whole file.
EditRead(c) ==
    /\ pc[c] = "files" /\ Tool = "Edit"
    /\ snap' = [snap EXCEPT ![c] = file]
    /\ pc' = [pc EXCEPT ![c] = "edit"]
    /\ UNCHANGED <<podVars, actVars, link, token, procVars, taken, open, ended, imgErr,
                   wireVars, scratch, file, events>>

EditWrite(c) ==
    /\ pc[c] = "edit"
    /\ file' = snap[c] \cup {c}
    /\ Flushes(c, <<Note("out"), End("DONE")>>)
    /\ UNCHANGED <<podVars, actVars, link, token, procVars, taskVars, chan, got, scratch, events>>

----------------------------------------------------------------------------
ServerStep(c) ==
    \/ Assign(c) \/ RefuseRun(c) \/ ModelCall(c) \/ Finish(c) \/ TouchEnd(c)
    \/ Spawn(c) \/ KillOnCancel(c) \/ Send(c) \/ Reap(c) \/ Flush(c)
    \/ \E s \in Pipes : ReadLine(c, s) \/ PipeEnds(c, s)
    \/ Supervise(c) \/ Collect(c) \/ CollectPanics(c)
    \/ FilesRefuse(c) \/ ReadFile(c) \/ SearchFiles(c) \/ WriteFile(c) \/ EditRead(c) \/ EditWrite(c)

PodStep == BootLog \/ StageCredentials \/ StageFails \/ LoadConfigFails \/ Serve \/ IdlePasses \/ Poll \/ PollClock
           \/ Shutdown

Gone == pod = "gone" /\ UNCHANGED vars

Next ==
    \/ PodStep \/ ContainerDies \/ JobFails \/ JobDeadline \/ Gone
    \/ \E c \in Calls :
        \/ Dial(c) \/ Cancel(c) \/ Disconnect(c) \/ HarnessReads(c)
        \/ ServerStep(c) \/ SpawnFails(c)
        \/ \E l \in Lines : ChildWrites(c, l)
        \/ ChildForks(c) \/ ChildShuts(c) \/ ChildExits(c) \/ HelperExits(c)

Spec == Init /\ [][Next]_vars

(* The runtime runs its tasks, time passes, and the harness reads what it   *)
(* holds a stream of.  That a process ends is nobody's promise.             *)
FairSpec ==
    /\ Spec
    /\ WF_vars(PodStep) /\ WF_vars(IdlePasses) /\ WF_vars(JobFails)
    /\ \A c \in Calls : WF_vars(ServerStep(c)) /\ WF_vars(HarnessReads(c))

----------------------------------------------------------------------------
(* Properties *)

\* Every line written to the pipe arrived, once and in order, or a note says it was cut.
\* The streaming half reads up to the first line that is not UTF-8.
WholePipe(c, s) ==
    LET mine == {i \in DOMAIN got[c] : got[c][i].s = s}
    IN  \/ \E i \in mine : got[c][i].k = "note"
        \/ /\ {got[c][i].n : i \in mine} = 1..(IF Tool = "Shell" THEN Len(Pipe(c, s)) ELSE Readable(c, s))
           /\ \A i, j \in mine : i < j => got[c][i].n < got[c][j].n

\* The one terminal frame is the last, and it is true: DONE means the tool ended well by
\* itself and all it wrote, its helpers' lines and its images included, came before it;
\* CANCELED means the harness asked for it (parts.rs, execute.rs).
TerminalTellsTruth ==
    \A c \in Calls : \A i \in DOMAIN got[c] : got[c][i].s = "end" =>
        /\ i = Len(got[c])
        /\ got[c][i].k = "CANCELED" => c \in token
        /\ got[c][i].k = "DONE" => /\ child[c] \in {"none", "ok"}
                                   /\ \A s \in Pipes : WholePipe(c, s)
                                   /\ ~HasBadImage(got[c])

\* No frame carries the credential, whenever it was staged and however often the pod
\* started (scrub.rs).
FramesScrubbed == \A c \in Calls : \A i \in DOMAIN got[c] : got[c][i].k # "secret"

\* A pod whose tools end and none of whose tasks died exits by itself: it does not linger
\* to its Job's deadline (keepalive.rs).
PodGoesAway ==
    /\ \A c \in Calls : WF_vars(ChildExits(c)) /\ WF_vars(HelperExits(c))
    /\ [](\A c \in Calls : pc[c] # "dead")
    => <>(pod = "gone")
=============================================================================
