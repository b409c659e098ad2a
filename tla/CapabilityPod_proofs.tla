------------------------- MODULE CapabilityPod_proofs -------------------------
(***************************************************************************)
(* Theorems about CapabilityPod, for all tools, entries, grants and lines, *)
(* any number of calls and every bound.                                    *)
(***************************************************************************)
EXTENDS CapabilityPod, SequenceTheorems, WellFoundedInduction, TLAPS

----------------------------------------------------------------------------
(* The inductive invariant *)

LineKinds == {"text", "binary", "image", "secret"}
FrameKinds == LineKinds \cup {"redacted", "noimage", "note", "DONE", "FAILED", "CANCELED"}
Frame == [s : Pipes \cup {"end"}, n : Nat, k : FrameKinds]

\* Where a call has sent nothing: before it has a process, and while a Shell runs.
Fresh == {"none", "accepted", "refused", "model", "files", "edit", "spawn"}
Buffering == {"shell", "drain"}
Streaming == {"pump", "send"}
Ending == {"flush", "finish", "touchEnd", "ended", "dead"}

TypeOK ==
    /\ job \in Jobs
    /\ pod \in {"boot", "stage", "serve", "serving", "closing", "gone"}
    /\ staged \in BOOLEAN /\ scrubs \in BOOLEAN /\ logScrubs \in BOOLEAN
    /\ restarted \in BOOLEAN /\ fresh \in BOOLEAN /\ scratch \in BOOLEAN
    /\ inFlight \in Int /\ completed \in Nat /\ events \in Nat
    /\ watcher \in {"poll", "clock"}
    /\ pc \in [Calls -> Fresh \cup Buffering \cup Streaming \cup Ending]
    /\ link \in [Calls -> BOOLEAN]
    /\ token \subseteq Calls /\ helper \subseteq Calls /\ shut \subseteq Calls
    /\ imgErr \subseteq Calls /\ file \subseteq Calls
    /\ child \in [Calls -> {"none", "alive", "killed", "ok", "bad"}]
    /\ wrote \in [Calls -> [Pipes -> Seq(LineKinds)]]
    /\ taken \in [Calls -> [Pipes -> Nat]]
    /\ open \in [Calls -> SUBSET Pipes]
    /\ ended \in [Calls -> {"run", "exit", "cancel", "timeout"}]
    /\ snap \in [Calls -> SUBSET Calls]
    /\ pend \in [Calls -> Seq(Frame)]
    /\ chan \in [Calls -> Seq(Frame)]
    /\ got \in [Calls -> Seq(Frame)]

\* A call's frames on their way, the ones the harness has read first.
Stream(c) == (got[c] \o chan[c]) \o pend[c]

\* A credential is staged from the Job's Secret, and whoever serves scrubs what is staged.
Staging ==
    /\ staged => "staging" \in job.readonly /\ Target # ""
    /\ pod \in {"serving", "closing"} /\ staged => scrubs
    /\ \A c \in Calls : pc[c] \notin {"none", "ended"} => pod \in {"serving", "closing"}
    /\ \A c \in Calls : \A s \in Pipes : \A i \in 1..Len(wrote[c][s]) :
          wrote[c][s][i] = "secret" => staged

\* No frame under way, or read, carries it.
NoSecret(S) == \A i \in 1..Len(S) : S[i].k # "secret"
Clean == \A c \in Calls : NoSecret(Stream(c))

\* What a call has, told by where its task is.
PlaceOf(c) ==
    /\ pc[c] \in Fresh => child[c] = "none" /\ \A s \in Pipes : taken[c][s] = 0
    /\ child[c] = "none" => c \notin helper /\ \A s \in Pipes : wrote[c][s] = <<>>
    /\ pc[c] \in Fresh \cup Buffering => got[c] = <<>> /\ chan[c] = <<>>
    /\ pc[c] \notin {"flush", "send"} => pend[c] = <<>>
    /\ pc[c] \in {"flush", "send"} => Len(pend[c]) > 0
    /\ pc[c] = "send" => Len(pend[c]) = 1
    /\ pc[c] \in Buffering => Tool = "Shell"
    /\ pc[c] \in Streaming => Tool # "Shell"
    /\ ended[c] = "cancel" => c \in token
Places == \A c \in Calls : PlaceOf(c)

\* The frames of pipe s are numbered 1 to m, in order.
Numbered(S, s, m) ==
    /\ \A i \in 1..Len(S) : S[i].s = s => S[i].n \in 1..m
    /\ \A n \in 1..m : \E i \in 1..Len(S) : S[i].s = s /\ S[i].n = n
    /\ \A i, j \in 1..Len(S) : S[i].s = s /\ S[j].s = s /\ i < j => S[i].n < S[j].n

HasNote(S, s) == \E i \in 1..Len(S) : S[i].s = s /\ S[i].k = "note"
NoEnd(S) == \A i \in 1..Len(S) : S[i].s # "end"
NoBad(S) == \A i \in 1..Len(S) : S[i].k # "noimage"

\* Nothing written to the pipe from now on would be read.
Spent(c, s) == ~Holders(c) \/ (Tool # "Shell" /\ Readable(c, s) < Len(Pipe(c, s)))

\* What has been read of a tool that is streamed is what has been sent.
Streamed(c) ==
    pc[c] \in Streaming =>
        /\ NoEnd(Stream(c))
        /\ c \in imgErr \/ NoBad(Stream(c))
        /\ \A s \in Pipes :
              /\ taken[c][s] <= Readable(c, s)
              /\ Numbered(Stream(c), s, taken[c][s])
              /\ s \notin open[c] => Spent(c, s) /\ taken[c][s] = Readable(c, s)
Pumps == \A c \in Calls : Streamed(c)

\* The lines of a pipe that are to arrive.
Due(c, s) == IF Tool = "Shell" THEN Len(Pipe(c, s)) ELSE Readable(c, s)

\* A terminal under way is the last frame, and true for good.
Good(c, S) ==
    /\ child[c] \in {"none", "ok"}
    /\ NoBad(S)
    /\ \A s \in Pipes : Spent(c, s) /\ (HasNote(S, s) \/ Numbered(S, s, Due(c, s)))
ToldIn(c, S) ==
    \A i \in 1..Len(S) : S[i].s = "end" =>
        /\ i = Len(S)
        /\ S[i].k = "CANCELED" => c \in token
        /\ S[i].k = "DONE" => Good(c, S)
Terminals ==
    \A c \in Calls :
        /\ pc[c] \notin Ending => NoEnd(Stream(c))
        /\ ToldIn(c, Stream(c))

Inv == TypeOK /\ Staging /\ Clean /\ Places /\ Pumps /\ Terminals

----------------------------------------------------------------------------
(* The operators *)

\* The elements of two sequences put one after the other (frames_for, the wire).
LEMMA Joined ==
    ASSUME NEW S, NEW a \in Seq(S), NEW b \in Seq(S)
    PROVE  /\ a \o b \in Seq(S) /\ Len(a \o b) = Len(a) + Len(b)
           /\ \A i \in 1..Len(a) : (a \o b)[i] = a[i]
           /\ \A i \in 1..Len(b) : (a \o b)[Len(a) + i] = b[i]
           /\ \A i \in 1..Len(a \o b) : \/ i \in 1..Len(a) /\ (a \o b)[i] = a[i]
                                        \/ i - Len(a) \in 1..Len(b) /\ (a \o b)[i] = b[i - Len(a)]
<1>1. Len(a) \in Nat /\ Len(b) \in Nat
  BY LenProperties
<1>2. /\ a \o b \in Seq(S) /\ Len(a \o b) = Len(a) + Len(b)
      /\ \A i \in 1..(Len(a) + Len(b)) : (a \o b)[i] = IF i <= Len(a) THEN a[i] ELSE b[i - Len(a)]
  BY ConcatProperties
<1>3. \A i \in 1..Len(b) : (a \o b)[Len(a) + i] = b[i]
  <2> SUFFICES ASSUME NEW i \in 1..Len(b) PROVE (a \o b)[Len(a) + i] = b[i]
    OBVIOUS
  <2>1. Len(a) + i \in 1..(Len(a) + Len(b)) /\ ~(Len(a) + i <= Len(a)) /\ (Len(a) + i) - Len(a) = i
    BY <1>1
  <2> QED BY <1>2, <2>1
<1> QED
  BY <1>1, <1>2, <1>3

\* A sequence is its first element and the rest.
LEMMA HeadAndTail ==
    ASSUME NEW S, NEW d \in Seq(S), Len(d) > 0
    PROVE  /\ Head(d) \in S /\ Tail(d) \in Seq(S) /\ <<Head(d)>> \in Seq(S)
           /\ <<Head(d)>> \o Tail(d) = d
<1>1. d # <<>> /\ Len(d) \in Nat
  BY LenProperties, EmptySeq
<1>2. /\ Head(d) \in S /\ Tail(d) \in Seq(S) /\ Len(Tail(d)) = Len(d) - 1
      /\ \A i \in 1..(Len(d) - 1) : Tail(d)[i] = d[i + 1]
      /\ Head(d) = d[1]
  BY <1>1, HeadTailProperties
<1>3. <<Head(d)>> \in Seq(S) /\ Len(<<Head(d)>>) = 1 /\ <<Head(d)>>[1] = d[1]
  BY <1>2
<1> DEFINE h == <<Head(d)>>
           t == Tail(d)
<1> HIDE DEF h, t
<1>4. h \o t \in Seq(S) /\ Len(h \o t) = Len(d)
  BY <1>1, <1>2, <1>3, ConcatProperties DEF h, t
<1>5. \A i \in 1..Len(d) : (h \o t)[i] = d[i]
  <2> SUFFICES ASSUME NEW i \in 1..Len(d) PROVE (h \o t)[i] = d[i]
    OBVIOUS
  <2>1. (h \o t)[i] = IF i <= 1 THEN h[i] ELSE t[i - 1]
    BY <1>1, <1>2, <1>3, ConcatProperties DEF h, t
  <2>2. i > 1 => i - 1 \in 1..(Len(d) - 1) /\ t[i - 1] = d[(i - 1) + 1]
    BY <1>1, <1>2 DEF t
  <2>3. i > 1 => (i - 1) + 1 = i
    BY <1>1
  <2>4. i <= 1 => i = 1 /\ h[i] = d[i]
    BY <1>1, <1>3 DEF h
  <2> QED BY <1>1, <2>1, <2>2, <2>3, <2>4
<1> QED
  BY <1>2, <1>3, <1>4, <1>5, SeqEqual DEF h, t

\* Sequences may be put together in any grouping.
LEMMA Grouped == \A a, b, d \in Seq(Frame) : (a \o b) \o d = a \o (b \o d)
<1> TAKE a, b, d \in Seq(Frame)
<1> HIDE DEF Frame
<1> QED
  OBVIOUS

\* Moving a frame from the task to the channel leaves the call's stream as it is.
LEMMA MovedOn ==
    ASSUME NEW a \in Seq(Frame), NEW b \in Seq(Frame), NEW d \in Seq(Frame), Len(d) > 0
    PROVE  (a \o Append(b, Head(d))) \o Tail(d) = (a \o b) \o d
<1>1. /\ Head(d) \in Frame /\ Tail(d) \in Seq(Frame) /\ <<Head(d)>> \in Seq(Frame)
      /\ <<Head(d)>> \o Tail(d) = d
  BY HeadAndTail
<1>2. Append(b, Head(d)) = b \o <<Head(d)>>
  BY <1>1, AppendIsConcat
<1>3. (a \o (b \o <<Head(d)>>)) \o Tail(d) = (a \o b) \o (<<Head(d)>> \o Tail(d))
  <2>2. a \o b \in Seq(Frame)
    OBVIOUS
  <2> DEFINE h == <<Head(d)>>
             t == Tail(d)
  <2> HIDE DEF h, t
  <2>3. h \in Seq(Frame) /\ t \in Seq(Frame)
    BY <1>1 DEF h, t
  <2>4. (a \o b) \o h = a \o (b \o h)
    BY <2>3, Grouped, Zenon
  <2>5. ((a \o b) \o h) \o t = (a \o b) \o (h \o t)
    BY <2>2, <2>3, Grouped, Zenon
  <2> QED BY <2>4, <2>5, Zenon DEF h, t
<1> QED
  BY <1>1, <1>2, <1>3, Zenon

\* The harness reading a frame leaves the call's stream as it is.
LEMMA ReadOn ==
    ASSUME NEW a \in Seq(Frame), NEW b \in Seq(Frame), NEW d, Len(b) > 0
    PROVE  (Append(a, Head(b)) \o Tail(b)) \o d = (a \o b) \o d
<1>1. /\ Head(b) \in Frame /\ Tail(b) \in Seq(Frame) /\ <<Head(b)>> \in Seq(Frame)
      /\ <<Head(b)>> \o Tail(b) = b
  BY HeadAndTail
<1>2. Append(a, Head(b)) = a \o <<Head(b)>>
  BY <1>1, AppendIsConcat
<1>3. (a \o <<Head(b)>>) \o Tail(b) = a \o (<<Head(b)>> \o Tail(b))
  <2>1. \A h, t \in Seq(Frame) : (a \o h) \o t = a \o (h \o t)
    BY Grouped
  <2> QED BY <1>1, <2>1, Zenon
<1> QED
  BY <1>1, <1>2, <1>3, Zenon

\* A set of naturals that is not empty has a least element.
LEMMA LeastOf ==
    ASSUME NEW T, T \subseteq Nat, T # {}
    PROVE  \E x \in T : \A y \in T : x <= y
<1>1. PICK x \in T : \A y \in T : ~(<<y, x>> \in OpToRel(<, Nat))
  BY WFMin, NatLessThanWellFounded
<1>2. \A y \in T : ~(y < x)
  BY <1>1 DEF OpToRel
<1> QED
  BY <1>2

\* How many lines of ls can be read before one that is not UTF-8 (next_line).
Legible(ls, n) ==
    /\ n \in 0..Len(ls)
    /\ \A i \in 1..n : ls[i] # "binary"
    /\ n < Len(ls) => ls[n + 1] = "binary"

\* That number exists and is the only one.
LEMMA LegibleIs ==
    ASSUME NEW ls \in Seq(LineKinds)
    PROVE  /\ \E n \in 0..Len(ls) : Legible(ls, n)
           /\ \A m, n : Legible(ls, m) /\ Legible(ls, n) => m = n
<1>1. Len(ls) \in Nat
  BY LenProperties
<1>2. \E n \in 0..Len(ls) : Legible(ls, n)
  <2> DEFINE T == {i \in 1..Len(ls) : ls[i] = "binary"}
  <2>1. CASE T = {}
    BY <1>1, <2>1 DEF Legible
  <2>2. CASE T # {}
    <3>1. T \subseteq Nat
      BY <1>1
    <3>2. PICK x \in T : \A y \in T : x <= y
      BY <2>2, <3>1, LeastOf
    <3>3. /\ x - 1 \in 0..Len(ls) /\ (x - 1) + 1 = x /\ ls[x] = "binary"
          /\ \A i \in 1..(x - 1) : i \in 1..Len(ls) /\ i < x
      BY <1>1, <3>2
    <3>4. \A i \in 1..(x - 1) : ls[i] # "binary"
      BY <1>1, <3>2, <3>3
    <3> QED BY <3>3, <3>4 DEF Legible
  <2> QED BY <2>1, <2>2
<1>3. ASSUME NEW m, NEW n, Legible(ls, m), Legible(ls, n), m < n PROVE FALSE
  <2>1. m \in Nat /\ n \in Nat /\ m + 1 \in 1..n /\ m < Len(ls)
    BY <1>1, <1>3 DEF Legible
  <2> QED BY <1>3, <2>1 DEF Legible
<1> QED
  BY <1>1, <1>2, <1>3 DEF Legible

\* Readable is that number for a pipe.
LEMMA ReadableIs ==
    ASSUME TypeOK, NEW c \in Calls, NEW s \in Pipes
    PROVE  /\ Legible(wrote[c][s], Readable(c, s))
           /\ Readable(c, s) \in Nat /\ Len(wrote[c][s]) \in Nat
           /\ Readable(c, s) <= Len(wrote[c][s])
<1>1. wrote[c][s] \in Seq(LineKinds) /\ Len(wrote[c][s]) \in Nat
  BY LenProperties DEF TypeOK
<1>2. PICK n \in 0..Len(wrote[c][s]) : Legible(wrote[c][s], n)
  BY <1>1, LegibleIs
<1>3. Legible(wrote[c][s], Readable(c, s))
  BY <1>2 DEF Readable, Pipe, Legible
<1> QED
  BY <1>1, <1>3 DEF Legible

\* What a pipe lets be read does not shrink when a line is added, and stays as it is
\* after a line that cannot be read.
LEMMA LegibleGrows ==
    ASSUME NEW ls \in Seq(LineKinds), NEW k \in LineKinds, NEW m, NEW n,
           Legible(ls, m), Legible(Append(ls, k), n)
    PROVE  m <= n /\ (m < Len(ls) => m = n /\ m < Len(Append(ls, k)))
<1>1. /\ Len(ls) \in Nat /\ Append(ls, k) \in Seq(LineKinds) /\ Len(Append(ls, k)) = Len(ls) + 1
      /\ \A i \in 1..Len(ls) : Append(ls, k)[i] = ls[i]
  BY LenProperties, AppendProperties
<1>2. CASE m < Len(ls)
  <2>1. m \in Nat /\ m + 1 \in 1..Len(ls)
    BY <1>1, <1>2 DEF Legible
  <2>2. Legible(Append(ls, k), m)
    BY <1>1, <1>2, <2>1 DEF Legible
  <2>3. m = n
    BY <1>1, <2>2, LegibleIs
  <2> QED BY <1>1, <1>2, <2>1, <2>3
<1>3. CASE ~(m < Len(ls))
  <2>1. m = Len(ls) /\ m \in Nat /\ n \in Nat
    BY <1>1, <1>3 DEF Legible
  <2>2. ASSUME n < m PROVE FALSE
    <3>1. n + 1 \in 1..Len(ls) /\ n + 1 \in 1..m /\ n < Len(Append(ls, k))
      BY <1>1, <2>1, <2>2
    <3> QED BY <1>1, <3>1 DEF Legible
  <2> QED BY <1>3, <2>1, <2>2
<1> QED
  BY <1>2, <1>3

\* Of several env vars of one name the last counts (EnvOf).
LEMMA LastCounts ==
    ASSUME NEW S, NEW env \in Seq(S), NEW name, NEW i \in 1..Len(env),
           env[i][1] = name, \A j \in 1..Len(env) : j > i => env[j][1] # name
    PROVE  EnvOf(env, name) = env[i][2]
<1>1. Len(env) \in Nat /\ DOMAIN env = 1..Len(env)
  BY LenProperties
<1> DEFINE hits == {j \in DOMAIN env : env[j][1] = name}
<1>2. i \in hits /\ \A j \in hits : j <= i
  BY <1>1
<1>3. \A x \in hits : (\A j \in hits : j <= x) => x = i
  BY <1>1, <1>2
<1>4. (CHOOSE x \in hits : \A j \in hits : j <= x) = i
  BY <1>2, <1>3
<1>5. hits # {}
  BY <1>2
<1> QED
  BY <1>4, <1>5 DEF EnvOf

\* What the Job's env holds.
Targets == Grants \cup {"provider"}
EnvVars ==
    (STRING \X STRING)
    \cup {<<"TOOLSET_KEEPALIVE", "true">>, <<"HOME", "home">>, <<"INFERENCE_MODEL", "model">>}
    \cup {<<"TOOLSET_TOOL_NAME", t>> : t \in Tools}
    \cup {<<"TOOLSET_CREDENTIAL_MAP", g>> : g \in Targets}
    \cup {<<"TOOLSET_SCRUB_SECRETS", g>> : g \in Targets}
    \cup {<<"INFERENCE_API_KEY_FILE", g>> : g \in Targets}

\* A credential's map and its registration to be scrubbed follow the entry's own env.
LEMMA CredentialsRegister ==
    ASSUME NEW env \in Seq(EnvVars), NEW g \in Targets, g # None
    PROVE  LET e == env \o CredentialEnv(g)
           IN  /\ e \in Seq(EnvVars) /\ Len(e) = Len(env) + 2
               /\ e[Len(env) + 1] = <<"TOOLSET_CREDENTIAL_MAP", g>>
               /\ e[Len(env) + 2] = <<"TOOLSET_SCRUB_SECRETS", g>>
<1> DEFINE m == <<"TOOLSET_CREDENTIAL_MAP", g>>
           r == <<"TOOLSET_SCRUB_SECRETS", g>>
<1>1. CredentialEnv(g) = <<m>> \o <<r>>
  BY DEF CredentialEnv, ScrubSecretsEnv
<1>2. m \in EnvVars /\ r \in EnvVars
  BY DEF EnvVars
<1> HIDE DEF m, r
<1> DEFINE a == <<m>>
           b == <<r>>
           cr == a \o b
<1>3. /\ a \in Seq(EnvVars) /\ Len(a) = 1 /\ a[1] = m
      /\ b \in Seq(EnvVars) /\ Len(b) = 1 /\ b[1] = r
  BY <1>2
<1> HIDE DEF a, b
<1>4. /\ cr \in Seq(EnvVars) /\ Len(cr) = Len(a) + Len(b)
      /\ \A i \in 1..Len(a) : cr[i] = a[i]
      /\ \A i \in 1..Len(b) : cr[Len(a) + i] = b[i]
  <2>1. a \in Seq(EnvVars) /\ b \in Seq(EnvVars)
    BY <1>3
  <2> QED BY <2>1, Joined
<1>5. Len(cr) = 2 /\ cr[1] = m /\ cr[2] = r /\ 1 \in 1..Len(cr) /\ 2 \in 1..Len(cr)
  BY <1>3, <1>4
<1> HIDE DEF cr
<1>6. /\ env \o cr \in Seq(EnvVars) /\ Len(env \o cr) = Len(env) + Len(cr)
      /\ \A i \in 1..Len(cr) : (env \o cr)[Len(env) + i] = cr[i]
  <2>1. cr \in Seq(EnvVars)
    BY <1>4
  <2> QED BY <2>1, Joined
<1>7. CredentialEnv(g) = cr
  BY <1>1 DEF cr, a, b
<1>8. /\ env \o cr \in Seq(EnvVars) /\ Len(env \o cr) = Len(env) + 2
      /\ (env \o cr)[Len(env) + 1] = m /\ (env \o cr)[Len(env) + 2] = r
  BY <1>5, <1>6
<1> QED
  BY <1>7, <1>8, Zenon DEF m, r

\* The env of a tool's Job, its credential left out.
PlainEnv(tool, e) ==
    <<<<"TOOLSET_TOOL_NAME", tool>>>>
    \o (IF e.keepalive THEN <<<<"TOOLSET_KEEPALIVE", "true">>>> ELSE <<>>)
    \o <<<<"HOME", "home">>>> \o ForwardedEnv(e)

\* It is a sequence of env vars.
LEMMA PlainEnvType ==
    ASSUME NEW tool \in Tools, NEW e \in Entries
    PROVE  PlainEnv(tool, e) \in Seq(EnvVars)
<1> DEFINE x == <<<<"TOOLSET_TOOL_NAME", tool>>>>
           y == IF e.keepalive THEN <<<<"TOOLSET_KEEPALIVE", "true">>>> ELSE <<>>
           z == <<<<"HOME", "home">>>>
           w == ForwardedEnv(e)
<1>1. x \in Seq(EnvVars)
  BY DEF EnvVars
<1>2. y \in Seq(EnvVars)
  BY DEF EnvVars
<1>3. z \in Seq(EnvVars)
  BY DEF EnvVars
<1>4. w \in Seq(EnvVars)
  <2>1. e.env \in Seq(STRING \X STRING)
    BY EntriesAssumption
  <2>2. STRING \X STRING \subseteq EnvVars
    BY DEF EnvVars
  <2> QED BY <2>1, <2>2, SeqMonotonic DEF ForwardedEnv
<1> HIDE DEF x, y, z, w
<1>5. x \o y \in Seq(EnvVars)
  BY <1>1, <1>2, Joined
<1>6. (x \o y) \o z \in Seq(EnvVars)
  BY <1>3, <1>5, Joined
<1>7. ((x \o y) \o z) \o w \in Seq(EnvVars)
  BY <1>4, <1>6, Joined
<1> QED
  BY <1>7 DEF PlainEnv, x, y, z, w

\* Of a Job with a Secret the credential map and its registration name the same target,
\* whatever the entry's own env says.
LEMMA JobRegisters ==
    ASSUME NEW j \in Jobs, "staging" \in j.readonly
    PROVE  EnvOf(j.env, "TOOLSET_CREDENTIAL_MAP") = EnvOf(j.env, "TOOLSET_SCRUB_SECRETS")
<1>1. CASE \E t \in Tools, e \in Entries, g \in Grants : j = BuildToolJob(t, e, g)
  <2>1. PICK t \in Tools, e \in Entries, g \in Grants : j = BuildToolJob(t, e, g)
    BY <1>1
  <2>2. g # None /\ j.env = PlainEnv(t, e) \o CredentialEnv(g)
    <3>1. j.readonly = SecretVolume(g) /\ j.env = ToolEnv(t, e, g)
      BY <2>1 DEF BuildToolJob
    <3> QED BY <3>1 DEF SecretVolume, ToolEnv, PlainEnv
  <2> DEFINE p == PlainEnv(t, e)
             v == p \o CredentialEnv(g)
  <2>3. p \in Seq(EnvVars) /\ Len(p) \in Nat /\ g \in Targets
    BY PlainEnvType, LenProperties DEF Targets
  <2> HIDE DEF p
  <2>4. /\ v \in Seq(EnvVars) /\ Len(v) = Len(p) + 2
        /\ v[Len(p) + 1] = <<"TOOLSET_CREDENTIAL_MAP", g>>
        /\ v[Len(p) + 2] = <<"TOOLSET_SCRUB_SECRETS", g>>
    BY <2>2, <2>3, CredentialsRegister
  <2> HIDE DEF v
  <2>5. EnvOf(v, "TOOLSET_CREDENTIAL_MAP") = v[Len(p) + 1][2]
    <3>1. Len(p) + 1 \in 1..Len(v) /\ \A k \in 1..Len(v) : k > Len(p) + 1 => k = Len(p) + 2
      BY <2>3, <2>4
    <3>2. \A k \in 1..Len(v) : k > Len(p) + 1 => v[k][1] # "TOOLSET_CREDENTIAL_MAP"
      BY <2>4, <3>1
    <3> QED BY <2>4, <3>1, <3>2, LastCounts
  <2>6. EnvOf(v, "TOOLSET_SCRUB_SECRETS") = v[Len(p) + 2][2]
    <3>1. Len(p) + 2 \in 1..Len(v) /\ \A k \in 1..Len(v) : ~(k > Len(p) + 2)
      BY <2>3, <2>4
    <3> QED BY <2>4, <3>1, LastCounts
  <2> QED BY <2>2, <2>4, <2>5, <2>6 DEF v, p
<1>2. CASE \E x \in BOOLEAN : j = BuildInferenceJob(x)
  <2>1. PICK x \in BOOLEAN : j = BuildInferenceJob(x)
    BY <1>2
  <2> DEFINE g == "provider"
             p == <<<<"INFERENCE_MODEL", "model">>, <<"HOME", "home">>>>
             u == p \o CredentialEnv(g)
             w == <<<<"INFERENCE_API_KEY_FILE", g>>>>
             v == u \o w
  <2>2. x = TRUE
    BY <2>1 DEF BuildInferenceJob, SecretVolume
  <2>3. g # None /\ j.env = v
    BY <2>1, <2>2, NoneAssumption DEF BuildInferenceJob, InferenceEnv
  <2>4. p \in Seq(EnvVars) /\ Len(p) = 2
    BY DEF EnvVars
  <2>5. w \in Seq(EnvVars) /\ Len(w) = 1 /\ w[1] = <<"INFERENCE_API_KEY_FILE", g>>
    BY DEF EnvVars, Targets
  <2>6. g \in Targets
    BY DEF Targets
  <2> HIDE DEF p, w, g
  <2>7. /\ u \in Seq(EnvVars) /\ Len(u) = 4
        /\ u[3] = <<"TOOLSET_CREDENTIAL_MAP", g>> /\ u[4] = <<"TOOLSET_SCRUB_SECRETS", g>>
    BY <2>3, <2>4, <2>6, CredentialsRegister
  <2> HIDE DEF u
  <2>8. /\ v \in Seq(EnvVars) /\ Len(v) = 5
        /\ v[3] = <<"TOOLSET_CREDENTIAL_MAP", g>> /\ v[4] = <<"TOOLSET_SCRUB_SECRETS", g>>
        /\ v[5] = <<"INFERENCE_API_KEY_FILE", g>>
    <3>1. /\ v \in Seq(EnvVars) /\ Len(v) = Len(u) + Len(w)
          /\ \A i \in 1..Len(u) : v[i] = u[i]
          /\ \A i \in 1..Len(w) : v[Len(u) + i] = w[i]
      <4>1. u \in Seq(EnvVars) /\ w \in Seq(EnvVars)
        BY <2>5, <2>7
      <4> QED BY <4>1, Joined
    <3>2. 3 \in 1..Len(u) /\ 4 \in 1..Len(u) /\ 1 \in 1..Len(w) /\ Len(u) + 1 = 5
      BY <2>5, <2>7
    <3> QED BY <2>5, <2>7, <3>1, <3>2
  <2> HIDE DEF v
  <2>9. EnvOf(v, "TOOLSET_CREDENTIAL_MAP") = v[3][2]
    <3>1. 3 \in 1..Len(v) /\ \A k \in 1..Len(v) : k > 3 => k \in {4, 5}
      BY <2>8
    <3>2. \A k \in 1..Len(v) : k > 3 => v[k][1] # "TOOLSET_CREDENTIAL_MAP"
      BY <2>8, <3>1
    <3>3. v[3][1] = "TOOLSET_CREDENTIAL_MAP"
      BY <2>8
    <3> QED BY <2>8, <3>1, <3>2, <3>3, LastCounts
  <2>10. EnvOf(v, "TOOLSET_SCRUB_SECRETS") = v[4][2]
    <3>1. 4 \in 1..Len(v) /\ \A k \in 1..Len(v) : k > 4 => k = 5
      BY <2>8
    <3>2. \A k \in 1..Len(v) : k > 4 => v[k][1] # "TOOLSET_SCRUB_SECRETS"
      BY <2>8, <3>1
    <3> QED BY <2>8, <3>1, <3>2, LastCounts
  <2> QED BY <2>3, <2>8, <2>9, <2>10
<1> QED
  BY <1>1, <1>2 DEF Jobs

----------------------------------------------------------------------------
(* Frames *)

\* The terminal and the notes are frames.
LEMMA MadeUp ==
    /\ \A o \in {"DONE", "FAILED", "CANCELED"} :
          End(o) \in Frame /\ End(o).s = "end" /\ End(o).k = o
    /\ \A s \in Pipes : Note(s) \in Frame /\ Note(s).s = s /\ Note(s).k = "note"
  BY DEF End, Note, Frame, FrameKinds, Pipes

\* A line becomes a frame of its pipe with its number, the credential redacted.
LEMMA LineFrameIs ==
    ASSUME NEW s \in Pipes, NEW k \in LineKinds, NEW n \in Nat, NEW there
    PROVE  /\ LineFrame(s, k, n, there) \in Frame
           /\ LineFrame(s, k, n, there).s = s /\ LineFrame(s, k, n, there).n = n
           /\ (k = "secret" => scrubs) => LineFrame(s, k, n, there).k # "secret"
<1> DEFINE x == IF k = "image" /\ ~there THEN "noimage" ELSE Scrubbed(k)
<1>1. Scrubbed(k) \in FrameKinds /\ ((k = "secret" => scrubs) => Scrubbed(k) # "secret")
  BY DEF Scrubbed, FrameKinds, LineKinds
<1>2. x \in FrameKinds /\ ((k = "secret" => scrubs) => x # "secret")
  BY <1>1 DEF FrameKinds
<1>3. LineFrame(s, k, n, there) = [s |-> s, n |-> n, k |-> x]
  BY DEF LineFrame
<1> HIDE DEF x
<1>4. [s |-> s, n |-> n, k |-> x] \in Frame
  BY <1>2 DEF Frame
<1> QED
  BY <1>2, <1>3, <1>4

\* The lines of a pipe that was read as a whole: all of them, numbered, or a note.
LEMMA BufferedIs ==
    ASSUME TypeOK, NEW c \in Calls, NEW s \in Pipes
    PROVE  LET fs == BufferedFrames(c, s)
           IN  /\ fs \in Seq(Frame)
               /\ \A i \in 1..Len(fs) : fs[i].s = s
               /\ (\A i \in 1..Len(wrote[c][s]) : wrote[c][s][i] = "secret" => scrubs)
                     => NoSecret(fs)
               /\ \/ \E i \in 1..Len(fs) : fs[i].k = "note"
                  \/ Len(fs) = Len(wrote[c][s]) /\ \A i \in 1..Len(fs) : fs[i].n = i
<1> DEFINE ls == wrote[c][s]
           fs == BufferedFrames(c, s)
           line(n) == BufferedLine(s, ls, n)
<1>1. ls \in Seq(LineKinds) /\ Len(ls) \in Nat /\ DOMAIN ls = 1..Len(ls)
  BY LenProperties DEF TypeOK
<1>2. \A n \in 1..Len(ls) : /\ line(n) \in Frame /\ line(n).s = s /\ line(n).n = n
                            /\ (ls[n] = "secret" => scrubs) => line(n).k # "secret"
  <2> SUFFICES ASSUME NEW n \in 1..Len(ls)
               PROVE  /\ line(n) \in Frame /\ line(n).s = s /\ line(n).n = n
                      /\ (ls[n] = "secret" => scrubs) => line(n).k # "secret"
    OBVIOUS
  <2>1. ls[n] \in LineKinds /\ n \in Nat
    BY <1>1
  <2> HIDE DEF ls
  <2> QED BY <2>1, LineFrameIs DEF BufferedLine
<1> HIDE DEF line
<1>3. CASE Len(ls) <= MaxOut
  <2>1. fs = [n \in 1..Len(ls) |-> line(n)]
    BY <1>1, <1>3 DEF BufferedFrames, Pipe, line
  <2> HIDE DEF fs, ls
  <2>2. fs \in [1..Len(ls) -> Frame] /\ \A i \in 1..Len(ls) : fs[i] = line(i)
    BY <1>2, <2>1
  <2>3. fs \in Seq(Frame) /\ Len(fs) = Len(ls)
    BY <1>1, <2>2, IsASeq, LenProperties
  <2> QED BY <1>2, <2>2, <2>3 DEF NoSecret, fs, ls
<1>4. CASE ~(Len(ls) <= MaxOut)
  <2>1. fs = <<line(1), Note(s), line(Len(ls))>>
    BY <1>1, <1>4 DEF BufferedFrames, Pipe, line
  <2>2. 1 \in 1..Len(ls) /\ Len(ls) \in 1..Len(ls)
    BY <1>1, <1>4, BoundAssumption
  <2>3. /\ line(1) \in Frame /\ Note(s) \in Frame /\ line(Len(ls)) \in Frame
        /\ line(1).s = s /\ Note(s).s = s /\ line(Len(ls)).s = s /\ Note(s).k = "note"
    BY <1>2, <2>2, MadeUp
  <2> HIDE DEF fs
  <2>4. /\ fs \in Seq(Frame) /\ Len(fs) = 3 /\ fs[1] = line(1) /\ fs[2] = Note(s)
        /\ fs[3] = line(Len(ls))
    BY <2>1, <2>3
  <2>5. \A i \in 1..Len(fs) : i = 1 \/ i = 2 \/ i = 3
    BY <2>4
  <2>6. (\A i \in 1..Len(ls) : ls[i] = "secret" => scrubs) => NoSecret(fs)
    <3>1. (\A i \in 1..Len(ls) : ls[i] = "secret" => scrubs)
            => line(1).k # "secret" /\ line(Len(ls)).k # "secret"
      BY <1>2, <2>2
    <3> QED BY <2>3, <2>4, <2>5, <3>1 DEF NoSecret
  <2>7. \E i \in 1..Len(fs) : fs[i].k = "note"
    BY <2>3, <2>4
  <2>8. \A i \in 1..Len(fs) : fs[i].s = s
    BY <2>3, <2>4, <2>5
  <2> QED BY <2>4, <2>6, <2>7, <2>8 DEF fs
<1> QED
  BY <1>3, <1>4

\* What a Shell that was not timed out sends: both pipes, and a terminal that is true.
LEMMA FramesForIs ==
    ASSUME TypeOK, NEW c \in Calls, NEW good \in BOOLEAN
    PROVE  LET S == FramesFor(c, good)
           IN  /\ S \in Seq(Frame) /\ Len(S) \in Nat /\ Len(S) > 0
               /\ \A i \in 1..Len(S) : S[i].s = "end" => i = Len(S)
               /\ S[Len(S)].k \in {"DONE", "FAILED"}
               /\ S[Len(S)].k = "DONE" => good /\ NoBad(S)
               /\ \A s \in Pipes : HasNote(S, s) \/ Numbered(S, s, Len(wrote[c][s]))
               /\ (\A s \in Pipes : \A i \in 1..Len(wrote[c][s]) :
                      wrote[c][s][i] = "secret" => scrubs) => NoSecret(S)
<1> DEFINE a == BufferedFrames(c, "out")
           b == BufferedFrames(c, "err")
           fs == a \o b
           o == IF good /\ ~HasBadImage(fs) THEN "DONE" ELSE "FAILED"
           S == Append(fs, End(o))
<1>1. "out" \in Pipes /\ "err" \in Pipes /\ Pipes = {"out", "err"}
  BY DEF Pipes
<1>2. /\ a \in Seq(Frame) /\ \A i \in 1..Len(a) : a[i].s = "out"
      /\ (\A i \in 1..Len(wrote[c]["out"]) : wrote[c]["out"][i] = "secret" => scrubs) => NoSecret(a)
      /\ \/ \E i \in 1..Len(a) : a[i].k = "note"
         \/ Len(a) = Len(wrote[c]["out"]) /\ \A i \in 1..Len(a) : a[i].n = i
  BY <1>1, BufferedIs
<1>3. /\ b \in Seq(Frame) /\ \A i \in 1..Len(b) : b[i].s = "err"
      /\ (\A i \in 1..Len(wrote[c]["err"]) : wrote[c]["err"][i] = "secret" => scrubs) => NoSecret(b)
      /\ \/ \E i \in 1..Len(b) : b[i].k = "note"
         \/ Len(b) = Len(wrote[c]["err"]) /\ \A i \in 1..Len(b) : b[i].n = i
  BY <1>1, BufferedIs
<1>4. FramesFor(c, good) = S
  BY DEF FramesFor
<1> HIDE DEF a, b
<1>5. Len(a) \in Nat /\ Len(b) \in Nat
  BY <1>2, <1>3, LenProperties
<1>6. /\ fs \in Seq(Frame) /\ Len(fs) = Len(a) + Len(b)
      /\ \A i \in 1..Len(a) : fs[i] = a[i]
      /\ \A i \in 1..Len(b) : fs[Len(a) + i] = b[i]
      /\ \A i \in 1..Len(fs) : \/ i \in 1..Len(a) /\ fs[i] = a[i]
                               \/ i - Len(a) \in 1..Len(b) /\ fs[i] = b[i - Len(a)]
  <2>1. a \in Seq(Frame) /\ b \in Seq(Frame)
    BY <1>2, <1>3
  <2> QED BY <2>1, Joined
<1>7. o \in {"DONE", "FAILED"} /\ (o = "DONE" => good /\ NoBad(fs))
  <2>1. DOMAIN fs = 1..Len(fs)
    BY <1>6, LenProperties
  <2> QED BY <2>1 DEF HasBadImage, NoBad
<1> HIDE DEF fs, o
<1>8. /\ S \in Seq(Frame) /\ Len(S) = Len(fs) + 1 /\ S[Len(S)] = End(o)
      /\ \A i \in 1..Len(fs) : S[i] = fs[i]
  BY <1>6, <1>7, MadeUp, AppendProperties
<1> HIDE DEF S
<1>9. Len(S) \in Nat /\ Len(S) = Len(a) + Len(b) + 1 /\ End(o).s = "end" /\ End(o).k = o
  BY <1>5, <1>6, <1>7, <1>8, MadeUp
<1>10. \A i \in 1..Len(S) : \/ i \in 1..Len(a) /\ S[i] = a[i]
                            \/ i - Len(a) \in 1..Len(b) /\ S[i] = b[i - Len(a)]
                            \/ i = Len(S)
  <2>1. \A i \in 1..Len(S) : i \in 1..Len(fs) \/ i = Len(S)
    <3>1. Len(fs) \in Nat /\ Len(S) = Len(fs) + 1
      BY <1>5, <1>6, <1>8
    <3> QED BY ONLY <3>1
  <2>2. \A i \in 1..Len(fs) : \/ i \in 1..Len(a) /\ S[i] = a[i]
                              \/ i - Len(a) \in 1..Len(b) /\ S[i] = b[i - Len(a)]
    BY <1>6, <1>8
  <2> QED BY <2>1, <2>2
<1>11. /\ \A i \in 1..Len(a) : i \in 1..Len(S) /\ S[i] = a[i]
       /\ \A i \in 1..Len(b) : Len(a) + i \in 1..Len(S) /\ S[Len(a) + i] = b[i]
  BY <1>5, <1>6, <1>8, <1>9
<1>12. \A i \in 1..Len(S) : S[i].s = "end" => i = Len(S)
  <2>1. /\ \A i \in 1..Len(a) : a[i].s # "end"
        /\ \A i \in 1..Len(b) : b[i].s # "end"
    BY <1>2, <1>3
  <2> QED BY <1>10, <2>1
<1>13. S[Len(S)].k = "DONE" => good /\ NoBad(S)
  <2> SUFFICES ASSUME S[Len(S)].k = "DONE" PROVE good /\ NoBad(S)
    OBVIOUS
  <2>1. good /\ \A i \in 1..Len(fs) : fs[i].k # "noimage"
    BY <1>7, <1>8, <1>9 DEF NoBad
  <2>2. \A i \in 1..Len(S) : i \in 1..Len(fs) \/ i = Len(S)
    <3>1. Len(fs) \in Nat /\ Len(S) = Len(fs) + 1
      BY <1>5, <1>6, <1>8
    <3> QED BY ONLY <3>1
  <2> QED BY <1>8, <2>1, <2>2 DEF NoBad
<1>14. ASSUME \A s \in Pipes : \A i \in 1..Len(wrote[c][s]) : wrote[c][s][i] = "secret" => scrubs
       PROVE  NoSecret(S)
  <2>1. NoSecret(a) /\ NoSecret(b)
    BY <1>1, <1>2, <1>3, <1>14
  <2>2. \A i \in 1..Len(S) : S[i].k # "secret"
    BY <1>7, <1>8, <1>9, <1>10, <2>1 DEF NoSecret
  <2> QED BY <2>2 DEF NoSecret
<1>15. HasNote(S, "out") \/ Numbered(S, "out", Len(wrote[c]["out"]))
  <2>1. CASE \E i \in 1..Len(a) : a[i].k = "note"
    BY <2>1, <1>2, <1>11 DEF HasNote
  <2>2. CASE Len(a) = Len(wrote[c]["out"]) /\ \A i \in 1..Len(a) : a[i].n = i
    <3>1. \A i \in 1..Len(S) : S[i].s = "out" => i \in 1..Len(a) /\ S[i].n = i
      BY <1>3, <1>8, <1>9, <1>10, <2>2
    <3>2. \A n \in 1..Len(a) : n \in 1..Len(S) /\ S[n].s = "out" /\ S[n].n = n
      BY <1>2, <1>11, <2>2
    <3> QED BY <2>2, <3>1, <3>2 DEF Numbered
  <2> QED BY <1>2, <2>1, <2>2
<1>16. HasNote(S, "err") \/ Numbered(S, "err", Len(wrote[c]["err"]))
  <2>1. CASE \E i \in 1..Len(b) : b[i].k = "note"
    BY <2>1, <1>3, <1>11 DEF HasNote
  <2>2. CASE Len(b) = Len(wrote[c]["err"]) /\ \A i \in 1..Len(b) : b[i].n = i
    <3>1. \A i \in 1..Len(S) : S[i].s = "err" => i - Len(a) \in 1..Len(b) /\ S[i].n = i - Len(a)
      BY <1>2, <1>8, <1>9, <1>10, <2>2
    <3>2. \A n \in 1..Len(b) : /\ Len(a) + n \in 1..Len(S)
                               /\ S[Len(a) + n].s = "err" /\ S[Len(a) + n].n = n
      BY <1>3, <1>11, <2>2
    <3>3. \A i, j \in 1..Len(S) : S[i].s = "err" /\ S[j].s = "err" /\ i < j => S[i].n < S[j].n
      BY <1>5, <1>9, <3>1
    <3> QED BY <2>2, <3>1, <3>2, <3>3 DEF Numbered
  <2> QED BY <1>3, <2>1, <2>2
<1>17. /\ S \in Seq(Frame) /\ Len(S) \in Nat /\ Len(S) > 0
       /\ S[Len(S)].k \in {"DONE", "FAILED"}
  BY <1>5, <1>7, <1>8, <1>9
<1>18. \A s \in Pipes : HasNote(S, s) \/ Numbered(S, s, Len(wrote[c][s]))
  BY <1>1, <1>15, <1>16
<1> QED
  BY <1>4, <1>12, <1>13, <1>14, <1>17, <1>18

----------------------------------------------------------------------------
(* Types *)

\* The end of the container keeps the types.
LEMMA DeathTypes ==
    ASSUME TypeOK, Dies, pod' \in {"boot", "gone"}, restarted' \in BOOLEAN, events' \in Nat
    PROVE  TypeOK'
<1>1. pc' \in [Calls -> Fresh \cup Buffering \cup Streaming \cup Ending]
  BY DEF TypeOK, Dies, Fresh, Ending
<1>2. child' \in [Calls -> {"none", "alive", "killed", "ok", "bad"}]
  BY DEF TypeOK, Dies
<1>3. taken' \in [Calls -> [Pipes -> Nat]] /\ open' \in [Calls -> SUBSET Pipes]
  BY DEF Dies
<1>4. pend' \in [Calls -> Seq(Frame)] /\ chan' \in [Calls -> Seq(Frame)]
  BY DEF Dies
<1>5. /\ link' \in [Calls -> BOOLEAN] /\ helper' \subseteq Calls /\ imgErr' \subseteq Calls
      /\ ended' \in [Calls -> {"run", "exit", "cancel", "timeout"}] /\ snap' \in [Calls -> SUBSET Calls]
  BY DEF Dies
<1> QED
  BY <1>1, <1>2, <1>3, <1>4, <1>5 DEF TypeOK, Dies, actVars

\* The steps of the pod keep the types.
LEMMA PodTypes ==
    ASSUME TypeOK, PodStep \/ ContainerDies \/ JobFails \/ JobDeadline \/ Gone
    PROVE  TypeOK'
<1> USE DEF podVars, actVars, procVars, taskVars, wireVars
<1>e. events \in Nat /\ MaxEvents \in Nat /\ (Event => events' \in Nat)
  BY BoundAssumption DEF TypeOK, Event
<1>f. Fails => pod' \in {"boot", "gone"} /\ restarted' \in BOOLEAN /\ Dies
  BY DEF Fails, TypeOK
<1>x. Exits => pod' \in {"boot", "gone"} /\ restarted' \in BOOLEAN /\ Dies
  BY DEF Exits, TypeOK
<1>1. CASE BootLog
  <2>1. logScrubs' \in BOOLEAN
    BY <1>1 DEF BootLog
  <2> QED BY <1>1, <2>1 DEF BootLog, TypeOK
<1>2. CASE StageCredentials
  <2>1. staged' \in BOOLEAN
    BY <1>2 DEF StageCredentials
  <2> QED BY <1>2, <2>1 DEF StageCredentials, TypeOK
<1>3. CASE StageFails
  <2>1. events' \in Nat
    BY <1>3, <1>e DEF StageFails
  <2> QED BY <1>3, <2>1, <1>f, DeathTypes DEF StageFails
<1>4. CASE LoadConfigFails
  BY <1>4, <1>e, <1>f, DeathTypes DEF LoadConfigFails
<1>5. CASE Serve
  <2>1. scrubs' \in BOOLEAN
    BY <1>5 DEF Serve, ScrubSetLoads
  <2> QED BY <1>5, <2>1 DEF Serve, TypeOK
<1>6. CASE IdlePasses
  BY <1>6 DEF IdlePasses, TypeOK
<1>7. CASE Poll
  BY <1>7 DEF Poll, Close, TypeOK
<1>8. CASE PollClock
  BY <1>8 DEF PollClock, Close, TypeOK
<1>9. CASE Shutdown
  BY <1>9, <1>e, <1>x, DeathTypes DEF Shutdown
<1>10. CASE ContainerDies
  BY <1>10, <1>e, <1>f, DeathTypes DEF ContainerDies
<1>11. CASE JobFails
  BY <1>11, <1>e, <1>x, DeathTypes DEF JobFails
<1>12. CASE JobDeadline
  BY <1>12, <1>e, <1>x, DeathTypes DEF JobDeadline
<1>13. CASE Gone
  BY <1>13 DEF Gone, vars, TypeOK
<1> QED
  BY <1>1, <1>2, <1>3, <1>4, <1>5, <1>6, <1>7, <1>8, <1>9, <1>10, <1>11, <1>12, <1>13 DEF PodStep

\* The steps of the harness and of a tool's processes keep the types.
LEMMA OuterTypes ==
    ASSUME TypeOK, NEW c \in Calls,
           \/ Dial(c) \/ Cancel(c) \/ Disconnect(c) \/ HarnessReads(c)
           \/ \E l \in Lines : ChildWrites(c, l)
           \/ ChildForks(c) \/ ChildShuts(c) \/ ChildExits(c) \/ HelperExits(c)
    PROVE  TypeOK'
<1> USE DEF podVars, actVars, procVars, taskVars, wireVars
<1>e. events \in Nat /\ MaxEvents \in Nat /\ (Event => events' \in Nat)
  BY BoundAssumption DEF TypeOK, Event
<1>1. CASE Dial(c)
  <2>1. events' \in Nat
    BY <1>1, <1>e DEF Dial
  <2>2. pc' \in [Calls -> Fresh \cup Buffering \cup Streaming \cup Ending]
    BY <1>1 DEF Dial, TypeOK, Fresh
  <2> QED BY <1>1, <2>1, <2>2 DEF Dial, TypeOK
<1>2. CASE Cancel(c)
  BY <1>2, <1>e DEF Cancel, TypeOK
<1>3. CASE Disconnect(c)
  BY <1>3, <1>e DEF Disconnect, TypeOK
<1>4. CASE HarnessReads(c)
  <2>1. chan[c] \in Seq(Frame) /\ chan[c] # <<>> /\ got[c] \in Seq(Frame)
    BY <1>4 DEF HarnessReads, TypeOK
  <2>2. Head(chan[c]) \in Frame /\ Tail(chan[c]) \in Seq(Frame)
    BY <2>1, HeadTailProperties
  <2>3. Append(got[c], Head(chan[c])) \in Seq(Frame)
    BY <2>1, <2>2, AppendProperties
  <2>4. /\ got' = [got EXCEPT ![c] = Append(got[c], Head(chan[c]))]
        /\ chan' = [chan EXCEPT ![c] = Tail(chan[c])]
    BY <1>4 DEF HarnessReads
  <2>5. got' \in [Calls -> Seq(Frame)] /\ chan' \in [Calls -> Seq(Frame)]
    BY <2>2, <2>3, <2>4 DEF TypeOK
  <2> QED BY <1>4, <2>5 DEF HarnessReads, TypeOK
<1>5. ASSUME NEW l \in Lines, ChildWrites(c, l) PROVE TypeOK'
  <2>1. l.s \in Pipes /\ l.k \in LineKinds
    BY LinesAssumption DEF Pipes, LineKinds
  <2>2. wrote[c] \in [Pipes -> Seq(LineKinds)] /\ wrote[c][l.s] \in Seq(LineKinds)
    BY <2>1 DEF TypeOK
  <2>3. Append(wrote[c][l.s], l.k) \in Seq(LineKinds)
    BY <2>1, <2>2, AppendProperties
  <2>4. wrote' = [wrote EXCEPT ![c] = [wrote[c] EXCEPT ![l.s] = Append(wrote[c][l.s], l.k)]]
    BY <1>5, <2>1, <2>2 DEF ChildWrites, TypeOK
  <2>5. wrote' \in [Calls -> [Pipes -> Seq(LineKinds)]]
    BY <2>2, <2>3, <2>4 DEF TypeOK
  <2>6. scratch' \in BOOLEAN
    BY <1>5 DEF ChildWrites
  <2> QED BY <1>5, <1>e, <2>5, <2>6 DEF ChildWrites, TypeOK
<1>6. CASE ChildForks(c)
  BY <1>6, <1>e DEF ChildForks, TypeOK
<1>7. CASE ChildShuts(c)
  BY <1>7, <1>e DEF ChildShuts, TypeOK
<1>8. CASE ChildExits(c)
  BY <1>8 DEF ChildExits, TypeOK
<1>9. CASE HelperExits(c)
  BY <1>9 DEF HelperExits, TypeOK
<1> QED
  BY <1>1, <1>2, <1>3, <1>4, <1>5, <1>6, <1>7, <1>8, <1>9

\* Frames handed to the task's last part keep the types.
LEMMA FlushTypes ==
    ASSUME TypeOK, NEW c \in Calls, NEW fs \in Seq(Frame), Flushes(c, fs)
    PROVE  /\ pend' \in [Calls -> Seq(Frame)]
           /\ pc' \in [Calls -> Fresh \cup Buffering \cup Streaming \cup Ending]
  BY DEF TypeOK, Flushes, Ending

\* The frames of one or two that the task makes up.
LEMMA MadeUpSeqs ==
    /\ \A o \in {"DONE", "FAILED", "CANCELED"} : <<End(o)>> \in Seq(Frame)
    /\ \A s \in Pipes : \A o \in {"DONE", "FAILED", "CANCELED"} :
          <<Note(s), End(o)>> \in Seq(Frame)
  BY MadeUp

\* What ReadLine sends is the frame of a line there is.
LEMMA NextLine ==
    ASSUME TypeOK, NEW c \in Calls, NEW s \in Pipes, Unread(c, s)
    PROVE  /\ taken[c][s] + 1 \in 1..Len(wrote[c][s]) /\ taken[c][s] + 1 \in Nat
           /\ wrote[c][s][taken[c][s] + 1] \in LineKinds
           /\ LineFrame(s, Pipe(c, s)[taken[c][s] + 1], taken[c][s] + 1, scratch) \in Frame
<1>1. taken[c][s] \in Nat /\ taken[c][s] < Readable(c, s)
  BY DEF TypeOK, Unread
<1>2. taken[c][s] + 1 \in 1..Len(wrote[c][s]) /\ taken[c][s] + 1 \in Nat
  BY <1>1, ReadableIs
<1>3. wrote[c][s] \in Seq(LineKinds)
  BY DEF TypeOK
<1>4. wrote[c][s][taken[c][s] + 1] \in LineKinds
  BY <1>2, <1>3, ElementOfSeq
<1> QED
  BY <1>2, <1>4, LineFrameIs DEF Pipe

\* The steps of a call's task keep the types.
LEMMA ServerTypes ==
    ASSUME TypeOK, Places, NEW c \in Calls, ServerStep(c) \/ SpawnFails(c)
    PROVE  TypeOK'
<1> USE DEF podVars, actVars, procVars, taskVars, wireVars
<1> DEFINE PcType == Fresh \cup Buffering \cup Streaming \cup Ending
<1>e. events \in Nat /\ MaxEvents \in Nat /\ (Event => events' \in Nat)
  BY BoundAssumption DEF TypeOK, Event
<1>p. {"out", "err"} = Pipes
  BY DEF Pipes
<1>h. pc[c] \in {"flush", "send"} => /\ pend[c] \in Seq(Frame) /\ pend[c] # <<>>
                                     /\ Head(pend[c]) \in Frame /\ Tail(pend[c]) \in Seq(Frame)
                                     /\ Append(chan[c], Head(pend[c])) \in Seq(Frame)
  <2> SUFFICES ASSUME pc[c] \in {"flush", "send"}
               PROVE  /\ pend[c] \in Seq(Frame) /\ pend[c] # <<>>
                      /\ Head(pend[c]) \in Frame /\ Tail(pend[c]) \in Seq(Frame)
                      /\ Append(chan[c], Head(pend[c])) \in Seq(Frame)
    OBVIOUS
  <2>1. pend[c] \in Seq(Frame) /\ Len(pend[c]) > 0 /\ chan[c] \in Seq(Frame)
    BY DEF TypeOK, Places, PlaceOf
  <2>2. Head(pend[c]) \in Frame /\ Tail(pend[c]) \in Seq(Frame)
    BY <2>1, HeadAndTail
  <2> QED BY <2>1, <2>2, AppendProperties
<1>1. CASE Assign(c)
  <2>1. pc' \in [Calls -> PcType]
    BY <1>1 DEF Assign, TypeOK, Fresh
  <2> QED BY <1>1, <2>1 DEF Assign, TypeOK
<1>2. CASE RefuseRun(c)
  <2>1. pc' \in [Calls -> PcType]
    BY <1>2 DEF RefuseRun, TypeOK, Fresh
  <2> QED BY <1>2, <2>1 DEF RefuseRun, TypeOK
<1>3. CASE ModelCall(c)
  <2>1. pc' \in [Calls -> PcType]
    BY <1>3 DEF ModelCall, TypeOK, Ending
  <2>2. pend' \in [Calls -> Seq(Frame)]
    <3>1. CASE pend' = pend
      BY <3>1 DEF TypeOK
    <3>2. CASE \E o \in {"DONE", "FAILED"} : pend' = [pend EXCEPT ![c] = <<End(o)>>]
      BY <3>2, MadeUpSeqs DEF TypeOK
    <3> QED BY <1>3, <3>1, <3>2 DEF ModelCall, End
  <2> QED BY <1>3, <2>1, <2>2 DEF ModelCall, TypeOK
<1>4. CASE Finish(c)
  <2>1. pc' \in [Calls -> PcType] /\ completed' \in Nat /\ inFlight' \in Int
    BY <1>4 DEF Finish, TypeOK, Ending
  <2> QED BY <1>4, <2>1 DEF Finish, TypeOK
<1>5. CASE TouchEnd(c)
  <2>1. pc' \in [Calls -> PcType]
    BY <1>5 DEF TouchEnd, TypeOK, Ending
  <2>2. taken' \in [Calls -> [Pipes -> Nat]]
    BY <1>5 DEF TouchEnd, TypeOK
  <2> QED BY <1>5, <2>1, <2>2 DEF TouchEnd, TypeOK
<1>6. CASE Spawn(c)
  <2>1. pc' \in [Calls -> PcType]
    BY <1>6 DEF Spawn, TypeOK, Buffering, Streaming
  <2> QED BY <1>6, <2>1 DEF Spawn, TypeOK
<1>7. CASE KillOnCancel(c)
  BY <1>7 DEF KillOnCancel, Kill, TypeOK
<1>8. CASE Send(c)
  <2>1. pc' \in [Calls -> PcType]
    <3>1. \E v \in {"finish", "pump"} : pc' = [pc EXCEPT ![c] = v]
      BY <1>8 DEF Send
    <3> QED BY <3>1 DEF TypeOK, Ending, Streaming
  <2>2. chan' \in [Calls -> Seq(Frame)]
    <3>1. CASE chan' = chan
      BY <3>1 DEF TypeOK
    <3>2. CASE chan' = [chan EXCEPT ![c] = Append(chan[c], Head(pend[c]))] /\ pc[c] = "send"
      BY <3>2, <1>h DEF TypeOK
    <3> QED BY <1>8, <3>1, <3>2 DEF Send
  <2>3. pend' \in [Calls -> Seq(Frame)]
    BY <1>8 DEF Send, TypeOK
  <2> QED BY <1>8, <2>1, <2>2, <2>3 DEF Send, TypeOK
<1>9. CASE Reap(c)
  <2>1. \E o \in {"DONE", "FAILED", "CANCELED"} : Flushes(c, <<End(o)>>)
    BY <1>9 DEF Reap
  <2>2. pend' \in [Calls -> Seq(Frame)] /\ pc' \in [Calls -> PcType]
    BY <2>1, MadeUpSeqs, FlushTypes
  <2> QED BY <1>9, <2>2 DEF Reap, TypeOK
<1>10. CASE Flush(c)
  <2>1. pc' \in [Calls -> PcType]
    BY <1>10 DEF Flush, TypeOK, Ending
  <2>2. chan' \in [Calls -> Seq(Frame)] /\ pend' \in [Calls -> Seq(Frame)]
    <3>1. CASE chan' = chan /\ pend' = [pend EXCEPT ![c] = <<>>]
      BY <3>1 DEF TypeOK
    <3>2. CASE /\ chan' = [chan EXCEPT ![c] = Append(chan[c], Head(pend[c]))] /\ pc[c] = "flush"
               /\ pend' = [pend EXCEPT ![c] = Tail(pend[c])]
      BY <3>2, <1>h DEF TypeOK
    <3> QED BY <1>10, <3>1, <3>2 DEF Flush
  <2> QED BY <1>10, <2>1, <2>2 DEF Flush, TypeOK
<1>11. ASSUME NEW s \in Pipes, ReadLine(c, s) PROVE TypeOK'
  <2> DEFINE n == taken[c][s] + 1
             f == LineFrame(s, Pipe(c, s)[n], n, scratch)
  <2>1. n \in Nat /\ f \in Frame
    BY <1>11, NextLine DEF ReadLine
  <2>2. /\ pend' = [pend EXCEPT ![c] = <<f>>]
        /\ taken' = [taken EXCEPT ![c][s] = n]
        /\ imgErr' = IF f.k = "noimage" THEN imgErr \cup {c} ELSE imgErr
        /\ scratch' = (scratch /\ f.k # "image")
        /\ pc' = [pc EXCEPT ![c] = "send"]
    BY <1>11 DEF ReadLine
  <2> HIDE DEF n, f
  <2>3. pend' \in [Calls -> Seq(Frame)]
    BY <2>1, <2>2 DEF TypeOK
  <2>4. taken' \in [Calls -> [Pipes -> Nat]]
    BY <2>1, <2>2 DEF TypeOK
  <2>5. imgErr' \subseteq Calls
    BY <2>2 DEF TypeOK
  <2>6. scratch' \in BOOLEAN
    BY <2>2
  <2>7. pc' \in [Calls -> PcType]
    BY <2>2 DEF TypeOK, Streaming
  <2> QED BY <1>11, <2>3, <2>4, <2>5, <2>6, <2>7 DEF ReadLine, TypeOK
<1>12. ASSUME NEW s \in Pipes, PipeEnds(c, s) PROVE TypeOK'
  BY <1>12 DEF PipeEnds, TypeOK
<1>13. CASE Supervise(c)
  <2>1. pc' \in [Calls -> PcType]
    BY <1>13 DEF Supervise, TypeOK, Buffering
  <2>2. child' \in [Calls -> {"none", "alive", "killed", "ok", "bad"}]
    BY <1>13 DEF Supervise, Kill, TypeOK
  <2>3. ended' \in [Calls -> {"run", "exit", "cancel", "timeout"}]
    BY <1>13 DEF Supervise, TypeOK
  <2> QED BY <1>13, <2>1, <2>2, <2>3 DEF Supervise, TypeOK
<1>14. CASE Collect(c)
  <2>1. CASE ended[c] # "timeout"
    <3> DEFINE good == ended[c] = "exit" /\ child[c] = "ok"
    <3>1. Flushes(c, FramesFor(c, good)) /\ good \in BOOLEAN
      BY <1>14, <2>1 DEF Collect
    <3> HIDE DEF good
    <3>2. FramesFor(c, good) \in Seq(Frame)
      BY <3>1, FramesForIs
    <3>3. pend' \in [Calls -> Seq(Frame)] /\ pc' \in [Calls -> PcType]
      BY <3>1, <3>2, FlushTypes
    <3>4. scratch' \in BOOLEAN
      BY <1>14 DEF Collect
    <3> QED BY <1>14, <3>3, <3>4 DEF Collect, TypeOK
  <2>2. CASE ended[c] = "timeout"
    <3>1. Flushes(c, <<Note("err"), End("FAILED")>>)
      BY <1>14, <2>2 DEF Collect
    <3>2. <<Note("err"), End("FAILED")>> \in Seq(Frame)
      BY <1>p, MadeUpSeqs
    <3>3. pend' \in [Calls -> Seq(Frame)] /\ pc' \in [Calls -> PcType]
      BY <3>1, <3>2, FlushTypes
    <3>4. scratch' \in BOOLEAN
      BY <1>14 DEF Collect
    <3> QED BY <1>14, <3>3, <3>4 DEF Collect, TypeOK
  <2> QED BY <2>1, <2>2
<1>15. CASE CollectPanics(c)
  <2>1. pc' \in [Calls -> PcType]
    BY <1>15 DEF CollectPanics, TypeOK, Ending
  <2> QED BY <1>15, <2>1 DEF CollectPanics, TypeOK
<1>16. \A s \in Pipes : \A o \in {"DONE", "FAILED"} : Flushes(c, <<Note(s), End(o)>>)
         => pend' \in [Calls -> Seq(Frame)] /\ pc' \in [Calls -> PcType]
  BY MadeUpSeqs, FlushTypes
<1>17. CASE SpawnFails(c)
  <2>1. pend' \in [Calls -> Seq(Frame)] /\ pc' \in [Calls -> PcType]
    BY <1>17, <1>16, <1>p DEF SpawnFails
  <2> QED BY <1>17, <1>e, <2>1 DEF SpawnFails, TypeOK
<1>18. CASE FilesRefuse(c)
  <2>1. pend' \in [Calls -> Seq(Frame)] /\ pc' \in [Calls -> PcType]
    BY <1>18, <1>16, <1>p DEF FilesRefuse
  <2> QED BY <1>18, <2>1 DEF FilesRefuse, TypeOK
<1>19. CASE ReadFile(c)
  <2>1. pend' \in [Calls -> Seq(Frame)] /\ pc' \in [Calls -> PcType]
    BY <1>19, <1>16, <1>p DEF ReadFile
  <2> QED BY <1>19, <2>1 DEF ReadFile, TypeOK
<1>20. CASE SearchFiles(c)
  <2>1. pend' \in [Calls -> Seq(Frame)] /\ pc' \in [Calls -> PcType]
    BY <1>20, <1>16, <1>p DEF SearchFiles
  <2> QED BY <1>20, <2>1 DEF SearchFiles, TypeOK
<1>21. CASE WriteFile(c)
  <2>1. pend' \in [Calls -> Seq(Frame)] /\ pc' \in [Calls -> PcType]
    BY <1>21, <1>16, <1>p DEF WriteFile
  <2> QED BY <1>21, <2>1 DEF WriteFile, TypeOK
<1>22. CASE EditRead(c)
  <2>1. pc' \in [Calls -> PcType]
    BY <1>22 DEF EditRead, TypeOK, Fresh
  <2> QED BY <1>22, <2>1 DEF EditRead, TypeOK
<1>23. CASE EditWrite(c)
  <2>1. pend' \in [Calls -> Seq(Frame)] /\ pc' \in [Calls -> PcType]
    BY <1>23, <1>16, <1>p DEF EditWrite
  <2>2. file' \subseteq Calls
    BY <1>23 DEF EditWrite, TypeOK
  <2> QED BY <1>23, <2>1, <2>2 DEF EditWrite, TypeOK
<1> QED
  BY <1>1, <1>2, <1>3, <1>4, <1>5, <1>6, <1>7, <1>8, <1>9, <1>10, <1>11, <1>12, <1>13, <1>14,
     <1>15, <1>17, <1>18, <1>19, <1>20, <1>21, <1>22, <1>23 DEF ServerStep

\* Every step keeps the types.
LEMMA StepTypes ==
    ASSUME TypeOK, Places, Next
    PROVE  TypeOK'
  BY PodTypes, OuterTypes, ServerTypes DEF Next

----------------------------------------------------------------------------
(* Steps *)

\* A step of a call: of the harness, of its task, or of the tool's processes.
CallStep(c) ==
    \/ Dial(c) \/ Cancel(c) \/ Disconnect(c) \/ HarnessReads(c)
    \/ ServerStep(c) \/ SpawnFails(c)
    \/ \E l \in Lines : ChildWrites(c, l)
    \/ ChildForks(c) \/ ChildShuts(c) \/ ChildExits(c) \/ HelperExits(c)

\* The step leaves the call as it is.
Untouched(d) ==
    /\ pc'[d] = pc[d] /\ child'[d] = child[d] /\ wrote'[d] = wrote[d]
    /\ taken'[d] = taken[d] /\ open'[d] = open[d] /\ ended'[d] = ended[d]
    /\ pend'[d] = pend[d] /\ chan'[d] = chan[d] /\ got'[d] = got[d]
    /\ d \in helper' <=> d \in helper
    /\ d \in shut' <=> d \in shut
    /\ d \in imgErr' <=> d \in imgErr
    /\ d \in token' <=> d \in token

\* A call's step touches neither the pod nor another call.
LEMMA OneCall ==
    ASSUME TypeOK, NEW c \in Calls, CallStep(c)
    PROVE  /\ job' = job /\ pod' = pod /\ staged' = staged /\ scrubs' = scrubs
           /\ \A d \in Calls \ {c} : Untouched(d)
<1> USE DEF podVars, actVars, procVars, taskVars, wireVars
<1>1. CASE Dial(c) \/ Cancel(c) \/ Disconnect(c) \/ HarnessReads(c)
  <2>1. CASE Dial(c)
    BY <2>1 DEF Dial, Untouched, TypeOK
  <2>2. CASE Cancel(c)
    BY <2>2 DEF Cancel, Untouched, TypeOK
  <2>3. CASE Disconnect(c)
    BY <2>3 DEF Disconnect, Untouched, TypeOK
  <2>4. CASE HarnessReads(c)
    BY <2>4 DEF HarnessReads, Untouched, TypeOK
  <2> QED BY <1>1, <2>1, <2>2, <2>3, <2>4
<1>2. ASSUME NEW l \in Lines, ChildWrites(c, l)
      PROVE  /\ job' = job /\ pod' = pod /\ staged' = staged /\ scrubs' = scrubs
             /\ \A d \in Calls \ {c} : Untouched(d)
  <2>1. \A d \in Calls \ {c} : wrote'[d] = wrote[d]
    BY <1>2 DEF ChildWrites, TypeOK
  <2> QED BY <1>2, <2>1 DEF ChildWrites, Untouched
<1>3. CASE ChildForks(c) \/ ChildShuts(c) \/ ChildExits(c) \/ HelperExits(c)
  <2>1. CASE ChildForks(c)
    BY <2>1 DEF ChildForks, Untouched, TypeOK
  <2>2. CASE ChildShuts(c)
    BY <2>2 DEF ChildShuts, Untouched, TypeOK
  <2>3. CASE ChildExits(c)
    BY <2>3 DEF ChildExits, Untouched, TypeOK
  <2>4. CASE HelperExits(c)
    BY <2>4 DEF HelperExits, Untouched, TypeOK
  <2> QED BY <1>3, <2>1, <2>2, <2>3, <2>4
<1>4. CASE Assign(c) \/ RefuseRun(c) \/ ModelCall(c) \/ Finish(c) \/ TouchEnd(c)
  <2>1. CASE Assign(c)
    BY <2>1 DEF Assign, Untouched, TypeOK
  <2>2. CASE RefuseRun(c)
    BY <2>2 DEF RefuseRun, Untouched, TypeOK
  <2>3. CASE ModelCall(c)
    <3>1. \A d \in Calls \ {c} : pend'[d] = pend[d] /\ pc'[d] = pc[d]
      BY <2>3 DEF ModelCall, TypeOK
    <3> QED BY <2>3, <3>1 DEF ModelCall, Untouched
  <2>4. CASE Finish(c)
    BY <2>4 DEF Finish, Untouched, TypeOK
  <2>5. CASE TouchEnd(c)
    BY <2>5 DEF TouchEnd, Untouched, TypeOK
  <2> QED BY <1>4, <2>1, <2>2, <2>3, <2>4, <2>5
<1>5. CASE Spawn(c) \/ KillOnCancel(c) \/ Send(c) \/ Reap(c) \/ Flush(c)
  <2>1. CASE Spawn(c)
    BY <2>1 DEF Spawn, Untouched, TypeOK
  <2>2. CASE KillOnCancel(c)
    BY <2>2 DEF KillOnCancel, Kill, Untouched, TypeOK
  <2>3. CASE Send(c)
    <3>1. \A d \in Calls \ {c} : chan'[d] = chan[d] /\ pc'[d] = pc[d] /\ pend'[d] = pend[d]
      BY <2>3 DEF Send, TypeOK
    <3> QED BY <2>3, <3>1 DEF Send, Untouched
  <2>4. CASE Reap(c)
    BY <2>4 DEF Reap, Flushes, Untouched, TypeOK
  <2>5. CASE Flush(c)
    <3>1. \A d \in Calls \ {c} : chan'[d] = chan[d] /\ pc'[d] = pc[d] /\ pend'[d] = pend[d]
      BY <2>5 DEF Flush, TypeOK
    <3> QED BY <2>5, <3>1 DEF Flush, Untouched
  <2> QED BY <1>5, <2>1, <2>2, <2>3, <2>4, <2>5
<1>6. ASSUME NEW s \in Pipes, ReadLine(c, s) \/ PipeEnds(c, s)
      PROVE  /\ job' = job /\ pod' = pod /\ staged' = staged /\ scrubs' = scrubs
             /\ \A d \in Calls \ {c} : Untouched(d)
  <2>1. CASE ReadLine(c, s)
    <3>1. \A d \in Calls \ {c} : /\ pend'[d] = pend[d] /\ pc'[d] = pc[d] /\ taken'[d] = taken[d]
                                 /\ d \in imgErr' <=> d \in imgErr
      BY <2>1 DEF ReadLine, TypeOK
    <3> QED BY <2>1, <3>1 DEF ReadLine, Untouched
  <2>2. CASE PipeEnds(c, s)
    BY <2>2 DEF PipeEnds, Untouched, TypeOK
  <2> QED BY <1>6, <2>1, <2>2
<1>7. CASE Supervise(c) \/ Collect(c) \/ CollectPanics(c)
  <2>1. CASE Supervise(c)
    <3>1. \A d \in Calls \ {c} : /\ child'[d] = child[d] /\ pc'[d] = pc[d] /\ ended'[d] = ended[d]
      BY <2>1 DEF Supervise, Kill, TypeOK
    <3> QED BY <2>1, <3>1 DEF Supervise, Untouched
  <2>2. CASE Collect(c)
    <3>1. \E fs : Flushes(c, fs)
      BY <2>2 DEF Collect
    <3>2. \A d \in Calls \ {c} : pend'[d] = pend[d] /\ pc'[d] = pc[d]
      BY <3>1 DEF Flushes, TypeOK
    <3> QED BY <2>2, <3>2 DEF Collect, Untouched
  <2>3. CASE CollectPanics(c)
    BY <2>3 DEF CollectPanics, Untouched, TypeOK
  <2> QED BY <1>7, <2>1, <2>2, <2>3
<1>8. CASE FilesRefuse(c) \/ ReadFile(c) \/ SearchFiles(c) \/ WriteFile(c) \/ EditRead(c)
           \/ EditWrite(c) \/ SpawnFails(c)
  <2>1. CASE FilesRefuse(c)
    BY <2>1 DEF FilesRefuse, Flushes, Untouched, TypeOK
  <2>2. CASE ReadFile(c)
    BY <2>2 DEF ReadFile, Flushes, Untouched, TypeOK
  <2>3. CASE SearchFiles(c)
    BY <2>3 DEF SearchFiles, Flushes, Untouched, TypeOK
  <2>4. CASE WriteFile(c)
    BY <2>4 DEF WriteFile, Flushes, Untouched, TypeOK
  <2>5. CASE EditRead(c)
    BY <2>5 DEF EditRead, Untouched, TypeOK
  <2>6. CASE EditWrite(c)
    BY <2>6 DEF EditWrite, Flushes, Untouched, TypeOK
  <2>7. CASE SpawnFails(c)
    BY <2>7 DEF SpawnFails, Flushes, Untouched, TypeOK
  <2> QED BY <1>8, <2>1, <2>2, <2>3, <2>4, <2>5, <2>6, <2>7
<1> QED
  BY <1>1, <1>2, <1>3, <1>4, <1>5, <1>6, <1>7, <1>8 DEF CallStep, ServerStep

\* A step is a call's, or leaves all calls as they are, or ends the container.
LEMMA Steps ==
    ASSUME TypeOK, Next
    PROVE  /\ job' = job /\ Tool' = Tool
           /\ \/ \E c \in Calls : CallStep(c)
              \/ \A d \in Calls : Untouched(d)
              \/ Dies /\ staged' = staged /\ scrubs' = scrubs /\ pod' \in {"boot", "gone"}
<1> USE DEF podVars, actVars, procVars, taskVars, wireVars
<1> DEFINE Out == Dies /\ staged' = staged /\ scrubs' = scrubs /\ pod' \in {"boot", "gone"}
<1>1. CASE PodStep \/ Gone
  <2>1. CASE BootLog
    BY <2>1 DEF BootLog, Untouched, Tool
  <2>2. CASE StageCredentials
    BY <2>2 DEF StageCredentials, Untouched, Tool
  <2>3. CASE StageFails
    BY <2>3 DEF StageFails, Fails, Dies, Tool
  <2>4. CASE LoadConfigFails
    BY <2>4 DEF LoadConfigFails, Fails, Dies, Tool
  <2>5. CASE Serve
    BY <2>5 DEF Serve, Untouched, Tool
  <2>6. CASE IdlePasses
    BY <2>6 DEF IdlePasses, Untouched, Tool
  <2>7. CASE Poll
    BY <2>7 DEF Poll, Untouched, Tool
  <2>8. CASE PollClock
    BY <2>8 DEF PollClock, Untouched, Tool
  <2>9. CASE Shutdown
    BY <2>9 DEF Shutdown, Exits, Dies, Tool
  <2>10. CASE Gone
    BY <2>10 DEF Gone, vars, Untouched, Tool
  <2> QED BY <1>1, <2>1, <2>2, <2>3, <2>4, <2>5, <2>6, <2>7, <2>8, <2>9, <2>10 DEF PodStep
<1>2. CASE ContainerDies
  BY <1>2 DEF ContainerDies, Fails, Dies, Tool
<1>3. CASE JobFails \/ JobDeadline
  BY <1>3 DEF JobFails, JobDeadline, Exits, Dies, Tool
<1>4. CASE \E c \in Calls : CallStep(c)
  BY <1>4, OneCall DEF Tool
<1> QED
  BY <1>1, <1>2, <1>3, <1>4 DEF Next, CallStep

\* How a call's task moves on: dialled by a pod that serves, and not back from its end.
LEMMA Moves ==
    ASSUME TypeOK, NEW c \in Calls, CallStep(c)
    PROVE  /\ pc[c] = "none" /\ pc'[c] # "none" => pod = "serving"
           /\ pc[c] = "ended" => pc'[c] = "ended"
           /\ pc[c] \in Ending => pc'[c] \in Ending
<1> USE DEF podVars, actVars, procVars, taskVars, wireVars, Ending
<1>1. CASE Dial(c)
  BY <1>1 DEF Dial, TypeOK
<1>2. CASE Cancel(c) \/ Disconnect(c) \/ HarnessReads(c) \/ ChildForks(c) \/ ChildShuts(c)
           \/ ChildExits(c) \/ HelperExits(c) \/ \E l \in Lines : ChildWrites(c, l)
  <2>1. pc' = pc
    BY <1>2 DEF Cancel, Disconnect, HarnessReads, ChildForks, ChildShuts, ChildExits,
                HelperExits, ChildWrites
  <2> QED BY <2>1
<1>3. CASE Assign(c) \/ RefuseRun(c) \/ ModelCall(c)
  <2>1. pc[c] \in {"accepted", "model"}
    BY <1>3 DEF Assign, RefuseRun, ModelCall
  <2> QED BY <2>1
<1>4. CASE Finish(c) \/ TouchEnd(c)
  <2>1. pc[c] \in {"finish", "touchEnd"} /\ pc'[c] \in {"touchEnd", "ended"}
    BY <1>4 DEF Finish, TouchEnd, TypeOK
  <2> QED BY <2>1
<1>5. CASE Flush(c)
  <2>1. pc[c] = "flush" /\ pc'[c] \in {"flush", "finish"}
    BY <1>5 DEF Flush, TypeOK
  <2> QED BY <2>1
<1>6. CASE Spawn(c) \/ KillOnCancel(c) \/ Send(c) \/ Reap(c)
           \/ \E s \in Pipes : ReadLine(c, s) \/ PipeEnds(c, s)
  <2>1. pc[c] \in {"spawn", "pump", "send"}
    BY <1>6 DEF Spawn, KillOnCancel, Send, Reap, ReadLine, PipeEnds, Selects
  <2> QED BY <2>1
<1>7. CASE Supervise(c) \/ Collect(c) \/ CollectPanics(c) \/ FilesRefuse(c) \/ ReadFile(c)
           \/ SearchFiles(c) \/ WriteFile(c) \/ EditRead(c) \/ EditWrite(c) \/ SpawnFails(c)
  <2>1. pc[c] \in {"shell", "drain", "files", "edit", "spawn"}
    BY <1>7 DEF Supervise, Collect, CollectPanics, FilesRefuse, ReadFile, SearchFiles, WriteFile,
                EditRead, EditWrite, SpawnFails
  <2> QED BY <2>1
<1> QED
  BY <1>1, <1>2, <1>3, <1>4, <1>5, <1>6, <1>7 DEF CallStep, ServerStep

\* What a step adds to a pipe.
LEMMA Writes ==
    ASSUME TypeOK, NEW c \in Calls, CallStep(c), NEW s \in Pipes
    PROVE  \/ wrote'[c][s] = wrote[c][s]
           \/ \E k \in LineKinds : /\ wrote'[c][s] = Append(wrote[c][s], k) /\ Holders(c)
                                   /\ k = "secret" => staged
<1> USE DEF podVars, actVars, procVars, taskVars, wireVars
<1>1. ASSUME NEW l \in Lines, ChildWrites(c, l)
      PROVE  \/ wrote'[c][s] = wrote[c][s]
             \/ \E k \in LineKinds : /\ wrote'[c][s] = Append(wrote[c][s], k) /\ Holders(c)
                                     /\ k = "secret" => staged
  <2>1. l.s \in Pipes /\ l.k \in LineKinds
    BY LinesAssumption DEF Pipes, LineKinds
  <2>2. /\ wrote' = [wrote EXCEPT ![c][l.s] = Append(wrote[c][l.s], l.k)]
        /\ Holders(c) /\ (l.k = "secret" => staged)
    BY <1>1 DEF ChildWrites
  <2>3. CASE s = l.s
    BY <2>1, <2>2, <2>3 DEF TypeOK
  <2>4. CASE s # l.s
    BY <2>1, <2>2, <2>4 DEF TypeOK
  <2> QED BY <2>3, <2>4
<1>2. CASE ~(\E l \in Lines : ChildWrites(c, l))
  <2>1. CASE Dial(c) \/ Cancel(c) \/ Disconnect(c) \/ HarnessReads(c) \/ ChildForks(c)
             \/ ChildShuts(c) \/ ChildExits(c) \/ HelperExits(c)
    BY <2>1 DEF Dial, Cancel, Disconnect, HarnessReads, ChildForks, ChildShuts, ChildExits,
                HelperExits
  <2>2. CASE Assign(c) \/ RefuseRun(c) \/ ModelCall(c) \/ Finish(c) \/ TouchEnd(c) \/ Flush(c)
    BY <2>2 DEF Assign, RefuseRun, ModelCall, Finish, TouchEnd, Flush
  <2>3. CASE Spawn(c) \/ KillOnCancel(c) \/ Send(c) \/ Reap(c)
             \/ \E t \in Pipes : ReadLine(c, t) \/ PipeEnds(c, t)
    BY <2>3 DEF Spawn, KillOnCancel, Send, Reap, ReadLine, PipeEnds
  <2>4. CASE Supervise(c) \/ Collect(c) \/ CollectPanics(c) \/ FilesRefuse(c) \/ ReadFile(c)
             \/ SearchFiles(c) \/ WriteFile(c) \/ EditRead(c) \/ EditWrite(c) \/ SpawnFails(c)
    BY <2>4 DEF Supervise, Collect, CollectPanics, FilesRefuse, ReadFile, SearchFiles, WriteFile,
                EditRead, EditWrite, SpawnFails
  <2> QED BY <1>2, <2>1, <2>2, <2>3, <2>4 DEF CallStep, ServerStep
<1> QED
  BY <1>1, <1>2

----------------------------------------------------------------------------
(* Staging *)

\* Every step keeps the credential's bookkeeping.
LEMMA StepStaging ==
    ASSUME TypeOK, Staging, Next, TypeOK'
    PROVE  Staging'
<1> USE DEF podVars, actVars, procVars, taskVars, wireVars
<1>t. job' = job /\ Target' = Target
  BY Steps DEF Target
<1>l. \A c \in Calls : \A s \in Pipes : wrote[c][s] \in Seq(LineKinds) /\ Len(wrote[c][s]) \in Nat
  BY LenProperties DEF TypeOK
<1>1. CASE \E c \in Calls : CallStep(c)
  <2>1. PICK c \in Calls : CallStep(c)
    BY <1>1
  <2>2. /\ pod' = pod /\ staged' = staged /\ scrubs' = scrubs
        /\ \A d \in Calls \ {c} : Untouched(d)
    BY <2>1, OneCall
  <2>3. \A d \in Calls : pc'[d] \notin {"none", "ended"} => pod' \in {"serving", "closing"}
    <3> SUFFICES ASSUME NEW d \in Calls, pc'[d] \notin {"none", "ended"}
                 PROVE  pod' \in {"serving", "closing"}
      OBVIOUS
    <3>1. CASE d = c
      BY <2>1, <2>2, <3>1, Moves DEF Staging
    <3>2. CASE d # c
      BY <2>2, <3>2 DEF Staging, Untouched
    <3> QED BY <3>1, <3>2
  <2>4. \A d \in Calls : \A s \in Pipes : \A i \in 1..Len(wrote'[d][s]) :
           wrote'[d][s][i] = "secret" => staged'
    <3> SUFFICES ASSUME NEW d \in Calls, NEW s \in Pipes, NEW i \in 1..Len(wrote'[d][s]),
                        wrote'[d][s][i] = "secret"
                 PROVE  staged'
      OBVIOUS
    <3>1. CASE wrote'[d][s] = wrote[d][s]
      BY <2>2, <3>1 DEF Staging
    <3>2. CASE d = c /\ wrote'[d][s] # wrote[d][s]
      <4>1. PICK k \in LineKinds : wrote'[c][s] = Append(wrote[c][s], k) /\ (k = "secret" => staged)
        BY <2>1, <3>2, Writes
      <4>2. /\ Len(wrote'[c][s]) = Len(wrote[c][s]) + 1 /\ wrote'[c][s][Len(wrote[c][s]) + 1] = k
            /\ \A j \in 1..Len(wrote[c][s]) : wrote'[c][s][j] = wrote[c][s][j]
        BY <1>l, <4>1, AppendProperties
      <4>3. i \in 1..Len(wrote[c][s]) \/ i = Len(wrote[c][s]) + 1
        BY <1>l, <3>2, <4>2
      <4> QED BY <2>2, <3>2, <4>1, <4>2, <4>3 DEF Staging
    <3>3. CASE d # c
      BY <2>2, <3>1, <3>3 DEF Untouched
    <3> QED BY <3>1, <3>2, <3>3
  <2> QED BY <1>t, <2>2, <2>3, <2>4 DEF Staging
<1>2. CASE Dies /\ staged' = staged /\ scrubs' = scrubs /\ pod' \in {"boot", "gone"}
  <2>1. \A d \in Calls : pc'[d] \in {"none", "ended"}
    BY <1>2 DEF Dies, TypeOK
  <2>2. wrote' = wrote
    BY <1>2 DEF Dies
  <2>3. pod' \notin {"serving", "closing"}
    BY <1>2
  <2> QED BY <1>t, <1>2, <2>1, <2>2, <2>3 DEF Staging
<1>3. CASE BootLog
  BY <1>3, <1>t DEF BootLog, Staging
<1>4. CASE StageCredentials
  <2>1. Target # "" => "staging" \in job.readonly
    BY <1>4 DEF StageCredentials, Copies
  <2>2. \A d \in Calls : pc[d] \in {"none", "ended"}
    BY <1>4 DEF StageCredentials, Staging
  <2>3. staged => staged'
    BY <1>4 DEF StageCredentials
  <2>4. staged' => "staging" \in job.readonly /\ Target # ""
    BY <1>4, <2>1 DEF StageCredentials, Staging
  <2> QED BY <1>4, <1>t, <2>2, <2>3, <2>4 DEF StageCredentials, Staging
<1>5. CASE Serve
  <2>1. staged => scrubs'
    <3>1. staged => EnvOf(job.env, "TOOLSET_SCRUB_SECRETS") # ""
      <4>1. job \in Jobs
        BY DEF TypeOK
      <4> QED BY <4>1, JobRegisters DEF Staging, Target
    <3> QED BY <1>5, <3>1 DEF Serve, ScrubSetLoads
  <2> QED BY <1>5, <1>t, <2>1 DEF Serve, Staging
<1>6. CASE IdlePasses \/ Poll \/ PollClock \/ Gone
  <2>1. /\ staged' = staged /\ scrubs' = scrubs /\ pc' = pc /\ wrote' = wrote
        /\ pod' = pod \/ (pod = "serving" /\ pod' = "closing")
    BY <1>6 DEF IdlePasses, Poll, PollClock, Close, Gone, vars
  <2> QED BY <1>t, <2>1 DEF Staging
<1>7. CASE \/ StageFails \/ LoadConfigFails \/ Shutdown \/ ContainerDies \/ JobFails \/ JobDeadline
  BY <1>7, <1>2 DEF StageFails, LoadConfigFails, Shutdown, ContainerDies, JobFails, JobDeadline,
                    Fails, Exits, Dies
<1> QED
  BY <1>1, <1>3, <1>4, <1>5, <1>6, <1>7 DEF Next, PodStep, CallStep

----------------------------------------------------------------------------
(* Places *)

\* A call that is left alone keeps its place, its stream and what is said of them.
LEMMA LeftAlone ==
    ASSUME NEW d \in Calls, Untouched(d), Tool' = Tool
    PROVE  /\ PlaceOf(d) => PlaceOf(d)'
           /\ Stream(d)' = Stream(d)
           /\ Holders(d)' = Holders(d)
           /\ \A s \in Pipes : /\ Readable(d, s)' = Readable(d, s) /\ Spent(d, s)' = Spent(d, s)
                               /\ Due(d, s)' = Due(d, s)
<1>1. Holders(d)' = Holders(d)
  BY DEF Holders, Untouched
<1>2. \A s \in Pipes : /\ Readable(d, s)' = Readable(d, s) /\ Pipe(d, s)' = Pipe(d, s)
  BY DEF Readable, Pipe, Untouched
<1>3. \A s \in Pipes : Spent(d, s)' = Spent(d, s)
  BY <1>1, <1>2 DEF Spent
<1>4. \A s \in Pipes : Due(d, s)' = Due(d, s)
  BY <1>2 DEF Due
<1>5. Stream(d)' = Stream(d)
  BY DEF Stream, Untouched
<1>6. PlaceOf(d) => PlaceOf(d)'
  BY DEF PlaceOf, Untouched
<1> QED
  BY <1>1, <1>2, <1>3, <1>4, <1>5, <1>6

\* The call whose step it is has its place.
LEMMA CallPlace ==
    ASSUME TypeOK, Places, NEW c \in Calls, CallStep(c), TypeOK'
    PROVE  PlaceOf(c)'
<1> USE DEF podVars, actVars, procVars, taskVars, wireVars
<1>p. PlaceOf(c)
  BY DEF Places
<1>t. Tool' = Tool
  BY OneCall DEF Tool
<1>w. ASSUME wrote' = wrote, helper' = helper, child' = child, token' = token, ended' = ended,
             got' = got
      PROVE  /\ child'[c] = "none" => c \notin helper' /\ \A s \in Pipes : wrote'[c][s] = <<>>
             /\ ended'[c] = "cancel" => c \in token'
  BY <1>p, <1>w DEF PlaceOf
<1>f. ASSUME NEW fs \in Seq(Frame), Flushes(c, fs), Len(fs) > 0, wrote' = wrote, helper' = helper,
             child' = child, token' = token, ended' = ended, got' = got, chan' = chan
      PROVE  PlaceOf(c)'
  <2>1. pc'[c] = "flush" /\ pend'[c] = fs
    BY <1>f DEF Flushes, TypeOK
  <2> QED BY <1>p, <1>f, <2>1 DEF PlaceOf, Fresh, Buffering, Streaming
<1>g. /\ \A o \in {"DONE", "FAILED", "CANCELED"} :
            <<End(o)>> \in Seq(Frame) /\ Len(<<End(o)>>) > 0
      /\ \A s \in Pipes : \A o \in {"DONE", "FAILED", "CANCELED"} :
            <<Note(s), End(o)>> \in Seq(Frame) /\ Len(<<Note(s), End(o)>>) > 0
  BY MadeUpSeqs
<1>q. "out" \in Pipes /\ "err" \in Pipes
  BY DEF Pipes
<1>1. CASE Dial(c)
  <2>1. pc[c] = "none" /\ pc'[c] = "accepted"
    BY <1>1 DEF Dial, TypeOK
  <2> QED BY <1>1, <1>p, <2>1 DEF Dial, PlaceOf, Fresh, Buffering, Streaming
<1>2. CASE Cancel(c) \/ Disconnect(c)
  <2>1. token \subseteq token'
    BY <1>2 DEF Cancel, Disconnect
  <2> QED BY <1>2, <1>p, <1>t, <2>1 DEF Cancel, Disconnect, PlaceOf
<1>3. CASE HarnessReads(c)
  <2>1. pc[c] \notin Fresh \cup Buffering
    BY <1>3, <1>p DEF HarnessReads, PlaceOf
  <2> QED BY <1>3, <1>p, <1>t, <2>1 DEF HarnessReads, PlaceOf
<1>4. CASE \E l \in Lines : ChildWrites(c, l)
  <2>1. Holders(c) /\ UNCHANGED <<pc, child, helper, got, chan, pend, ended, token>>
    BY <1>4 DEF ChildWrites
  <2>2. child[c] # "none"
    BY <1>p, <2>1 DEF Holders, PlaceOf
  <2> QED BY <1>p, <1>t, <2>1, <2>2 DEF PlaceOf
<1>5. CASE ChildForks(c) \/ ChildShuts(c) \/ ChildExits(c) \/ HelperExits(c)
  <2>1. /\ UNCHANGED <<pc, got, chan, pend, ended, token, wrote, taken>>
        /\ (c \in helper' => c \in helper \/ child[c] = "alive")
        /\ child'[c] = child[c] \/ (child[c] = "alive" /\ child'[c] \in {"ok", "bad"})
    BY <1>5 DEF ChildForks, ChildShuts, ChildExits, HelperExits, TypeOK
  <2> QED BY <1>p, <1>t, <2>1 DEF PlaceOf
<1>6. CASE Assign(c) \/ RefuseRun(c) \/ EditRead(c)
  <2>1. /\ pc[c] \in Fresh /\ pc'[c] \in Fresh
        /\ pc[c] \notin {"flush", "send"} /\ pc'[c] \notin {"flush", "send"} \cup Buffering \cup Streaming
        /\ UNCHANGED <<wrote, helper, child, token, ended, got, chan, pend, taken>>
    BY <1>6 DEF Assign, RefuseRun, EditRead, TypeOK, Fresh, Buffering, Streaming
  <2> QED BY <1>p, <2>1 DEF PlaceOf
<1>7. CASE ModelCall(c)
  <2>1. UNCHANGED <<wrote, helper, child, token, ended, got, chan>>
    BY <1>7 DEF ModelCall
  <2>2. CASE c \in token
    <3>1. pc[c] = "model" /\ pc'[c] = "finish" /\ pend' = pend
      BY <1>7, <2>2 DEF ModelCall, TypeOK
    <3> QED BY <1>p, <2>1, <3>1 DEF PlaceOf, Fresh, Buffering, Streaming
  <2>3. CASE c \notin token
    <3>1. PICK o \in {"DONE", "FAILED"} : Flushes(c, <<End(o)>>)
      BY <1>7, <2>3 DEF ModelCall, Flushes, End
    <3> QED BY <1>f, <1>g, <2>1, <3>1
  <2> QED BY <2>2, <2>3
<1>8. CASE Finish(c) \/ TouchEnd(c) \/ CollectPanics(c)
  <2>1. /\ pc'[c] \in {"touchEnd", "ended", "dead"} /\ pc[c] \in {"finish", "touchEnd", "drain"}
        /\ UNCHANGED <<wrote, helper, child, token, got, chan, pend>>
        /\ ended'[c] \in {ended[c], "run"}
    BY <1>8 DEF Finish, TouchEnd, CollectPanics, TypeOK
  <2> QED BY <1>p, <2>1 DEF PlaceOf, Fresh, Buffering, Streaming
<1>9. CASE Spawn(c)
  <2>1. /\ pc[c] = "spawn" /\ child'[c] = "alive"
        /\ pc'[c] = IF Tool = "Shell" THEN "shell" ELSE "pump"
        /\ UNCHANGED <<token, ended, got, chan, pend>>
    BY <1>9 DEF Spawn, TypeOK
  <2> QED BY <1>p, <1>t, <2>1 DEF PlaceOf, Fresh, Buffering, Streaming
<1>10. CASE KillOnCancel(c)
  <2>1. /\ pc[c] = "pump" /\ c \in token /\ UNCHANGED <<pc, token, got, chan, pend, helper, wrote>>
        /\ child'[c] = child[c] \/ child'[c] = "killed"
    BY <1>10 DEF KillOnCancel, Kill, TypeOK
  <2> QED BY <1>p, <1>t, <2>1 DEF PlaceOf, Fresh
<1>11. CASE Send(c)
  <2>1. /\ pc[c] = "send" /\ pc'[c] \in {"finish", "pump"} /\ pend'[c] = <<>>
        /\ UNCHANGED <<wrote, helper, child, token, ended, got>>
    <3>1. \E v \in {"finish", "pump"} : pc' = [pc EXCEPT ![c] = v]
      BY <1>11 DEF Send
    <3> QED BY <1>11, <3>1 DEF Send, TypeOK
  <2> QED BY <1>p, <1>t, <2>1 DEF PlaceOf, Fresh, Buffering, Streaming
<1>12. CASE Reap(c)
  <2>1. PICK o \in {"DONE", "FAILED", "CANCELED"} : Flushes(c, <<End(o)>>)
    BY <1>12 DEF Reap
  <2> QED BY <1>12, <1>f, <1>g, <2>1 DEF Reap
<1>13. CASE Flush(c)
  <2>1. UNCHANGED <<wrote, helper, child, token, ended, got>> /\ pc[c] = "flush"
    BY <1>13 DEF Flush
  <2>2. CASE ~link[c]
    <3>1. pc'[c] = "finish" /\ pend'[c] = <<>>
      BY <1>13, <2>2 DEF Flush, TypeOK
    <3> QED BY <1>p, <2>1, <3>1 DEF PlaceOf, Fresh, Buffering, Streaming
  <2>3. CASE link[c]
    <3>1. /\ pend'[c] = Tail(pend[c])
          /\ pc'[c] = IF Len(pend[c]) = 1 THEN "finish" ELSE "flush"
      BY <1>13, <2>3 DEF Flush, TypeOK
    <3>2. pend[c] \in Seq(Frame) /\ Len(pend[c]) \in Nat /\ Len(pend[c]) > 0
      BY <1>p, <2>1, LenProperties DEF TypeOK, PlaceOf
    <3>0. pend[c] # <<>>
      BY <3>2, EmptySeq
    <3>3. Tail(pend[c]) \in Seq(Frame) /\ Len(Tail(pend[c])) = Len(pend[c]) - 1
      BY <3>0, <3>2, HeadTailProperties
    <3>4. Len(pend[c]) = 1 => Tail(pend[c]) = <<>>
      <4>1. \A q \in Seq(Frame) : Len(q) = 0 => q = <<>>
        BY EmptySeq
      <4>2. Len(pend[c]) = 1 => Len(Tail(pend[c])) = 0
        BY <3>3
      <4> QED BY <3>3, <4>1, <4>2, Zenon
    <3>5. Len(pend[c]) # 1 => Len(Tail(pend[c])) > 0
      <4> DEFINE n == Len(pend[c])
                 m == Len(Tail(pend[c]))
      <4>1. n \in Nat /\ n > 0 /\ m = n - 1
        BY <3>2, <3>3
      <4> HIDE DEF n, m
      <4>2. n # 1 => m > 0
        BY <4>1
      <4> QED BY <4>2 DEF n, m
    <3> QED BY <1>p, <2>1, <3>1, <3>4, <3>5 DEF PlaceOf, Fresh, Buffering, Streaming
  <2> QED BY <2>2, <2>3
<1>14. ASSUME NEW s \in Pipes, ReadLine(c, s) PROVE PlaceOf(c)'
  <2>1. /\ pc[c] = "pump" /\ pc'[c] = "send"
        /\ UNCHANGED <<wrote, helper, child, token, ended, got, chan>>
    BY <1>14 DEF ReadLine, Selects, TypeOK
  <2>2. \E f : pend'[c] = <<f>>
    BY <1>14 DEF ReadLine, TypeOK
  <2>3. Len(pend'[c]) = 1
    BY <2>2
  <2> QED BY <1>p, <1>t, <2>1, <2>3 DEF PlaceOf, Fresh, Buffering, Streaming
<1>15. ASSUME NEW s \in Pipes, PipeEnds(c, s) PROVE PlaceOf(c)'
  BY <1>15, <1>p, <1>t DEF PipeEnds, PlaceOf
<1>16. CASE Supervise(c)
  <2>1. /\ pc[c] = "shell" /\ pc'[c] = "drain"
        /\ UNCHANGED <<wrote, helper, token, got, chan, pend>>
    BY <1>16 DEF Supervise, TypeOK
  <2>2. child'[c] = child[c] \/ child'[c] = "killed"
    BY <1>16 DEF Supervise, Kill, TypeOK
  <2>3. ended'[c] = "cancel" => c \in token
    BY <1>16 DEF Supervise, TypeOK
  <2> QED BY <1>p, <1>t, <2>1, <2>2, <2>3 DEF PlaceOf, Fresh, Buffering, Streaming
<1>17. CASE Collect(c)
  <2>1. \E fs \in Seq(Frame) : Flushes(c, fs) /\ Len(fs) > 0
    <3>1. CASE ended[c] # "timeout"
      <4> DEFINE good == ended[c] = "exit" /\ child[c] = "ok"
      <4>1. Flushes(c, FramesFor(c, good)) /\ good \in BOOLEAN
        BY <1>17, <3>1 DEF Collect
      <4> HIDE DEF good
      <4> QED BY <4>1, FramesForIs
    <3>2. CASE ended[c] = "timeout"
      <4>1. Flushes(c, <<Note("err"), End("FAILED")>>)
        BY <1>17, <3>2 DEF Collect
      <4> QED BY <4>1, <1>g, <1>q
    <3> QED BY <3>1, <3>2
  <2> QED BY <1>17, <1>f, <2>1 DEF Collect
<1>18. CASE FilesRefuse(c) \/ ReadFile(c) \/ SearchFiles(c) \/ WriteFile(c) \/ EditWrite(c)
            \/ SpawnFails(c)
  <2>1. PICK s \in Pipes, o \in {"DONE", "FAILED"} : Flushes(c, <<Note(s), End(o)>>)
    BY <1>18, <1>q DEF FilesRefuse, ReadFile, SearchFiles, WriteFile, EditWrite, SpawnFails
  <2>2. UNCHANGED <<wrote, helper, child, token, ended, got, chan>>
    BY <1>18 DEF FilesRefuse, ReadFile, SearchFiles, WriteFile, EditWrite, SpawnFails
  <2> QED BY <1>f, <1>g, <2>1, <2>2
<1> QED
  BY <1>1, <1>2, <1>3, <1>4, <1>5, <1>6, <1>7, <1>8, <1>9, <1>10, <1>11, <1>12, <1>13, <1>14,
     <1>15, <1>16, <1>17, <1>18 DEF CallStep, ServerStep

\* The end of the container leaves of a call what the harness has read.
LEMMA DeathPlace ==
    ASSUME TypeOK, Places, Dies, NEW d \in Calls
    PROVE  PlaceOf(d)' /\ pc'[d] \notin Streaming /\ Stream(d)' = got[d]
<1>1. /\ pc'[d] = IF pc[d] = "none" THEN "none" ELSE "ended"
      /\ child'[d] = IF child[d] = "alive" THEN "killed" ELSE child[d]
      /\ chan'[d] = <<>> /\ pend'[d] = <<>> /\ ended'[d] = "run"
      /\ got' = got /\ wrote' = wrote /\ helper' = {} /\ job' = job
      /\ \A s \in Pipes : taken'[d][s] = 0
  BY DEF Dies
<1>2. PlaceOf(d)
  BY DEF Places
<1>3. PlaceOf(d)' /\ pc'[d] \notin Streaming
  BY <1>1, <1>2 DEF PlaceOf, Fresh, Buffering, Streaming
<1>4. got[d] \in Seq(Frame)
  BY DEF TypeOK
<1>5. (got[d] \o <<>>) \o <<>> = got[d]
  BY <1>4, ConcatEmptySeq
<1> QED
  BY <1>1, <1>3, <1>5 DEF Stream

\* Every step leaves each call in its place.
LEMMA StepPlaces ==
    ASSUME TypeOK, Places, Next, TypeOK'
    PROVE  Places'
<1> SUFFICES ASSUME NEW d \in Calls PROVE PlaceOf(d)'
  BY DEF Places
<1>1. Tool' = Tool /\ PlaceOf(d)
  BY Steps DEF Places
<1>2. CASE \E c \in Calls : CallStep(c)
  <2>1. PICK c \in Calls : CallStep(c)
    BY <1>2
  <2>2. CASE d = c
    BY <2>1, <2>2, CallPlace
  <2>3. CASE d # c
    BY <1>1, <2>1, <2>3, OneCall, LeftAlone
  <2> QED BY <2>2, <2>3
<1>3. CASE Dies
  BY <1>3, DeathPlace
<1>4. CASE \A x \in Calls : Untouched(x)
  BY <1>1, <1>4, LeftAlone
<1> QED
  BY <1>2, <1>3, <1>4, Steps

----------------------------------------------------------------------------
(* Streams *)

Prefix(p, S) == p \in Seq(Frame) /\ Len(p) <= Len(S) /\ \A i \in 1..Len(p) : p[i] = S[i]

\* What the harness has read, and that with the channel, are prefixes of the stream.
LEMMA Prefixes ==
    ASSUME TypeOK, NEW c \in Calls
    PROVE  /\ Stream(c) \in Seq(Frame) /\ Len(Stream(c)) \in Nat
           /\ Prefix(got[c], Stream(c)) /\ Prefix(got[c] \o chan[c], Stream(c))
<1> DEFINE a == got[c]
           b == chan[c]
           d == pend[c]
           ab == a \o b
<1>1. a \in Seq(Frame) /\ b \in Seq(Frame) /\ d \in Seq(Frame)
  BY DEF TypeOK
<1>s. Stream(c) = ab \o d
  BY DEF Stream
<1> HIDE DEF a, b, d
<1>2. /\ ab \in Seq(Frame) /\ Len(ab) = Len(a) + Len(b)
      /\ \A i \in 1..Len(a) : ab[i] = a[i]
  BY <1>1, Joined
<1>n. Len(a) \in Nat /\ Len(b) \in Nat /\ Len(d) \in Nat
  BY <1>1, LenProperties
<1> HIDE DEF ab
<1>3. /\ ab \o d \in Seq(Frame) /\ Len(ab \o d) = Len(ab) + Len(d)
      /\ \A i \in 1..Len(ab) : (ab \o d)[i] = ab[i]
  <2>1. ab \in Seq(Frame) /\ d \in Seq(Frame)
    BY <1>1, <1>2
  <2> QED BY <2>1, Joined
<1>4. Len(ab \o d) \in Nat
  BY <1>n, <1>2, <1>3
<1>5. Prefix(ab, ab \o d)
  BY <1>n, <1>2, <1>3 DEF Prefix
<1>6. Prefix(a, ab \o d)
  <2>1. \A i \in 1..Len(a) : i \in 1..Len(ab)
    BY <1>n, <1>2
  <2>2. \A i \in 1..Len(a) : (ab \o d)[i] = a[i]
    BY <1>2, <1>3, <2>1
  <2>3. Len(a) <= Len(ab \o d)
    BY <1>n, <1>2, <1>3
  <2> QED BY <1>1, <2>2, <2>3 DEF Prefix
<1> QED
  BY <1>s, <1>3, <1>4, <1>5, <1>6 DEF ab, a, b

\* Frames made for a task that has none left follow on the stream.
LEMMA Follows ==
    ASSUME TypeOK, NEW c \in Calls, pend[c] = <<>>, got'[c] = got[c], chan'[c] = chan[c]
    PROVE  Stream(c)' = Stream(c) \o pend'[c]
<1>1. got[c] \in Seq(Frame) /\ chan[c] \in Seq(Frame)
  BY DEF TypeOK
<1>2. got[c] \o chan[c] \in Seq(Frame)
  BY <1>1, ConcatProperties
<1>3. (got[c] \o chan[c]) \o <<>> = got[c] \o chan[c]
  BY <1>2, ConcatEmptySeq
<1> QED
  BY <1>3 DEF Stream

\* A tool call that ends at once: what it has to say, and a terminal.
AtOnce(c) ==
    /\ pc[c] \in Fresh
    /\ UNCHANGED <<child, helper, shut, wrote, token, got, chan>>
    /\ \E o \in {"DONE", "FAILED"} :
          \/ Flushes(c, <<End(o)>>)
          \/ \E s \in Pipes : Flushes(c, <<Note(s), End(o)>>)

\* A step makes frames, moves them along, or drops those the task still had.
LEMMA StreamSteps ==
    ASSUME TypeOK, Places, NEW c \in Calls, CallStep(c)
    PROVE  \/ Stream(c)' = Stream(c)
           \/ pc'[c] = "finish" /\ Stream(c)' = got[c] \o chan[c]
           \/ AtOnce(c) \/ Collect(c) \/ Reap(c) \/ \E s \in Pipes : ReadLine(c, s)
<1> USE DEF podVars, actVars, procVars, taskVars, wireVars
<1>p. PlaceOf(c) /\ got[c] \in Seq(Frame) /\ chan[c] \in Seq(Frame) /\ pend[c] \in Seq(Frame)
  BY DEF Places, TypeOK
<1>c. (got[c] \o chan[c]) \o <<>> = got[c] \o chan[c]
  <2>1. got[c] \o chan[c] \in Seq(Frame)
    BY <1>p, ConcatProperties
  <2> QED BY <2>1, ConcatEmptySeq
<1>1. CASE Dial(c) \/ Cancel(c) \/ Disconnect(c) \/ ChildForks(c) \/ ChildShuts(c)
           \/ ChildExits(c) \/ HelperExits(c) \/ \E l \in Lines : ChildWrites(c, l)
  <2>1. UNCHANGED <<got, chan, pend>>
    BY <1>1 DEF Dial, Cancel, Disconnect, ChildForks, ChildShuts, ChildExits, HelperExits,
                ChildWrites
  <2> QED BY <2>1 DEF Stream
<1>2. CASE HarnessReads(c)
  <2>1. /\ got'[c] = Append(got[c], Head(chan[c])) /\ chan'[c] = Tail(chan[c])
        /\ pend'[c] = pend[c] /\ chan[c] # <<>>
    BY <1>2 DEF HarnessReads, TypeOK
  <2>2. Len(chan[c]) > 0
    BY <1>p, <2>1, EmptySeq, LenProperties
  <2>3. (Append(got[c], Head(chan[c])) \o Tail(chan[c])) \o pend[c] = (got[c] \o chan[c]) \o pend[c]
    BY <1>p, <2>2, ReadOn
  <2> QED BY <2>1, <2>3 DEF Stream
<1>3. CASE Assign(c) \/ RefuseRun(c) \/ Finish(c) \/ TouchEnd(c) \/ Spawn(c) \/ KillOnCancel(c)
           \/ Supervise(c) \/ CollectPanics(c) \/ EditRead(c) \/ \E s \in Pipes : PipeEnds(c, s)
  <2>1. UNCHANGED <<got, chan, pend>>
    BY <1>3 DEF Assign, RefuseRun, Finish, TouchEnd, Spawn, KillOnCancel, Supervise,
                CollectPanics, EditRead, PipeEnds
  <2> QED BY <2>1 DEF Stream
<1>4. CASE ModelCall(c)
  <2>1. CASE c \in token
    BY <1>4, <2>1 DEF ModelCall, Stream
  <2>2. CASE c \notin token
    <3>1. PICK o \in {"DONE", "FAILED"} : Flushes(c, <<End(o)>>)
      BY <1>4, <2>2 DEF ModelCall, Flushes, End
    <3> QED BY <1>4, <3>1 DEF ModelCall, AtOnce, Fresh
  <2> QED BY <2>1, <2>2
<1>5. CASE FilesRefuse(c) \/ ReadFile(c) \/ SearchFiles(c) \/ WriteFile(c) \/ EditWrite(c)
           \/ SpawnFails(c)
  <2>1. PICK s \in Pipes, o \in {"DONE", "FAILED"} : Flushes(c, <<Note(s), End(o)>>)
    BY <1>5 DEF FilesRefuse, ReadFile, SearchFiles, WriteFile, EditWrite, SpawnFails, Pipes
  <2>2. UNCHANGED <<child, helper, shut, wrote, token, got, chan>> /\ pc[c] \in Fresh
    BY <1>5 DEF FilesRefuse, ReadFile, SearchFiles, WriteFile, EditWrite, SpawnFails, Fresh
  <2> QED BY <2>1, <2>2 DEF AtOnce
<1>6. CASE Send(c) \/ Flush(c)
  <2>1. CASE ~link[c]
    <3>1. pc'[c] = "finish" /\ pend'[c] = <<>> /\ chan' = chan /\ got' = got
      BY <1>6, <2>1 DEF Send, Flush, TypeOK
    <3> QED BY <1>c, <3>1 DEF Stream
  <2>2. CASE link[c]
    <3>1. Len(pend[c]) > 0
      BY <1>6, <1>p DEF Send, Flush, PlaceOf
    <3>2. got' = got /\ chan'[c] = Append(chan[c], Head(pend[c])) /\ pend'[c] = Tail(pend[c])
      <4>1. CASE Flush(c)
        BY <2>2, <4>1 DEF Flush, TypeOK
      <4>2. CASE Send(c)
        <5>1. Len(pend[c]) = 1 /\ pend'[c] = <<>>
          BY <1>p, <4>2 DEF Send, PlaceOf, TypeOK
        <5>2. Tail(pend[c]) \in Seq(Frame) /\ Len(Tail(pend[c])) = 0
          <6>1. pend[c] # <<>>
            BY <1>p, <3>1, EmptySeq
          <6> QED BY <1>p, <5>1, <6>1, HeadTailProperties
        <5>3. \A q \in Seq(Frame) : Len(q) = 0 => q = <<>>
          BY EmptySeq
        <5>4. Tail(pend[c]) = <<>>
          BY <5>2, <5>3, Zenon
        <5>5. chan' = [chan EXCEPT ![c] = Append(chan[c], Head(pend[c]))] /\ got' = got
          BY <2>2, <4>2 DEF Send
        <5> QED BY <5>1, <5>4, <5>5 DEF TypeOK
      <4> QED BY <1>6, <4>1, <4>2
    <3>3. (got[c] \o Append(chan[c], Head(pend[c]))) \o Tail(pend[c]) = (got[c] \o chan[c]) \o pend[c]
      BY <1>p, <3>1, MovedOn
    <3> QED BY <3>2, <3>3 DEF Stream
  <2> QED BY <2>1, <2>2
<1> QED
  BY <1>1, <1>2, <1>3, <1>4, <1>5, <1>6 DEF CallStep, ServerStep

\* The first frames of a call that has sent none are its stream.
LEMMA FirstFrames ==
    ASSUME TypeOK, Places, NEW c \in Calls, pc[c] \in Fresh \cup Buffering,
           got' = got, chan' = chan, TypeOK'
    PROVE  Stream(c)' = pend'[c]
<1>1. got'[c] = <<>> /\ chan'[c] = <<>> /\ pend'[c] \in Seq(Frame)
  BY DEF Places, PlaceOf, TypeOK
<1>2. <<>> \in Seq(Frame)
  BY EmptySeq
<1>3. <<>> \o <<>> = <<>> /\ <<>> \o pend'[c] = pend'[c]
  BY <1>1, <1>2, ConcatEmptySeq
<1> QED
  BY <1>1, <1>3 DEF Stream

\* What a call that ends at once sends.
LEMMA AtOnceIs ==
    ASSUME TypeOK, Places, NEW c \in Calls, AtOnce(c), TypeOK'
    PROVE  \E o \in {"DONE", "FAILED"} :
              \/ Stream(c)' = <<End(o)>>
              \/ \E s \in Pipes : Stream(c)' = <<Note(s), End(o)>>
<1>1. Stream(c)' = pend'[c]
  BY FirstFrames DEF AtOnce
<1>2. \A fs : Flushes(c, fs) => pend'[c] = fs
  BY DEF Flushes, TypeOK
<1> QED
  BY <1>1, <1>2 DEF AtOnce

----------------------------------------------------------------------------
(* No frame carries the credential *)

\* A call's step adds no frame with the credential.
LEMMA CallClean ==
    ASSUME TypeOK, Staging, Places, NEW c \in Calls, NoSecret(Stream(c)), CallStep(c), TypeOK'
    PROVE  NoSecret(Stream(c)')
<1> USE DEF podVars, actVars, procVars, taskVars, wireVars
<1>s. pc[c] \notin {"none", "ended"} =>
        \A s \in Pipes : \A i \in 1..Len(wrote[c][s]) : wrote[c][s][i] = "secret" => scrubs
  BY DEF Staging
<1>1. CASE Stream(c)' = Stream(c)
  BY <1>1
<1>2. CASE Stream(c)' = got[c] \o chan[c]
  <2>1. Prefix(Stream(c)', Stream(c)) /\ Len(Stream(c)) \in Nat
    BY <1>2, Prefixes
  <2>2. Len(Stream(c)') \in Nat
    BY <2>1, LenProperties DEF Prefix
  <2> QED BY <2>1, <2>2 DEF Prefix, NoSecret
<1>3. CASE AtOnce(c)
  <2>1. PICK o \in {"DONE", "FAILED"} :
              \/ Stream(c)' = <<End(o)>>
              \/ \E s \in Pipes : Stream(c)' = <<Note(s), End(o)>>
    BY <1>3, AtOnceIs
  <2>2. End(o).k # "secret" /\ \A s \in Pipes : Note(s).k # "secret"
    BY MadeUp
  <2>3. CASE Stream(c)' = <<End(o)>>
    BY <2>2, <2>3 DEF NoSecret
  <2>4. ASSUME NEW s \in Pipes, Stream(c)' = <<Note(s), End(o)>> PROVE NoSecret(Stream(c)')
    BY <2>2, <2>4 DEF NoSecret
  <2> QED BY <2>1, <2>3, <2>4
<1>4. CASE Collect(c)
  <2>1. pc[c] = "drain" /\ got' = got /\ chan' = chan
    BY <1>4 DEF Collect
  <2>2. Stream(c)' = pend'[c]
    BY <2>1, FirstFrames DEF Buffering
  <2>3. \A fs : Flushes(c, fs) => pend'[c] = fs
    BY DEF Flushes, TypeOK
  <2>4. CASE ended[c] # "timeout"
    <3> DEFINE good == ended[c] = "exit" /\ child[c] = "ok"
    <3>1. Flushes(c, FramesFor(c, good)) /\ good \in BOOLEAN
      BY <1>4, <2>4 DEF Collect
    <3> HIDE DEF good
    <3>2. NoSecret(FramesFor(c, good))
      BY <1>s, <2>1, <3>1, FramesForIs
    <3> QED BY <2>2, <2>3, <3>1, <3>2
  <2>5. CASE ended[c] = "timeout"
    <3>1. Stream(c)' = <<Note("err"), End("FAILED")>>
      BY <1>4, <2>2, <2>3, <2>5 DEF Collect
    <3>2. Note("err").k # "secret" /\ End("FAILED").k # "secret"
      BY MadeUp DEF Pipes
    <3> QED BY <3>1, <3>2 DEF NoSecret
  <2> QED BY <2>4, <2>5
<1>5. ASSUME NEW f \in Frame, f.k # "secret", pend[c] = <<>>, got' = got, chan' = chan,
             pend'[c] = <<f>>
      PROVE  NoSecret(Stream(c)')
  <2>1. Stream(c)' = Stream(c) \o <<f>>
    BY <1>5, Follows
  <2>2. Stream(c) \in Seq(Frame) /\ Len(Stream(c)) \in Nat
    BY Prefixes
  <2>3. Stream(c) \o <<f>> = Append(Stream(c), f)
    BY <1>5, <2>2, AppendIsConcat
  <2> DEFINE S == Stream(c)
  <2>4. NoSecret(S) /\ S \in Seq(Frame)
    BY <2>2
  <2> HIDE DEF S
  <2>5. NoSecret(Append(S, f))
    <3>1. /\ Len(S) \in Nat /\ Len(Append(S, f)) = Len(S) + 1 /\ Append(S, f)[Len(S) + 1] = f
          /\ \A i \in 1..Len(S) : Append(S, f)[i] = S[i]
      BY <1>5, <2>4, LenProperties, AppendProperties
    <3>2. \A i \in 1..Len(Append(S, f)) : i \in 1..Len(S) \/ i = Len(S) + 1
      BY <3>1
    <3> QED BY <1>5, <2>4, <3>1, <3>2 DEF NoSecret
  <2> QED BY <2>1, <2>3, <2>5 DEF S
<1>6. CASE Reap(c)
  <2>1. PICK o \in {"DONE", "FAILED", "CANCELED"} : Flushes(c, <<End(o)>>)
    BY <1>6 DEF Reap
  <2>p. pc[c] = "pump"
    BY <1>6 DEF Reap
  <2>2. pend'[c] = <<End(o)>> /\ pend[c] = <<>> /\ got' = got /\ chan' = chan
    <3>1. pend'[c] = <<End(o)>>
      BY <2>1 DEF Flushes, TypeOK
    <3>2. pend[c] = <<>>
      BY <2>p DEF Places, PlaceOf
    <3> QED BY <1>6, <3>1, <3>2 DEF Reap
  <2> QED BY <1>5, <2>2, MadeUp
<1>7. ASSUME NEW s \in Pipes, ReadLine(c, s) PROVE NoSecret(Stream(c)')
  <2> DEFINE n == taken[c][s] + 1
             f == LineFrame(s, Pipe(c, s)[n], n, scratch)
  <2>1. /\ n \in 1..Len(wrote[c][s]) /\ n \in Nat /\ wrote[c][s][n] \in LineKinds /\ f \in Frame
    BY <1>7, NextLine DEF ReadLine
  <2>2. /\ pc[c] = "pump" /\ pend'[c] = <<f>> /\ pend[c] = <<>> /\ got' = got /\ chan' = chan
    BY <1>7 DEF ReadLine, Selects, TypeOK, Places, PlaceOf
  <2>3. wrote[c][s][n] = "secret" => scrubs
    BY <1>s, <2>1, <2>2
  <2>4. f.k # "secret"
    BY <2>1, <2>3, LineFrameIs DEF Pipe
  <2> HIDE DEF f
  <2> QED BY <1>5, <2>1, <2>2, <2>4
<1> QED
  BY <1>1, <1>2, <1>3, <1>4, <1>6, <1>7, StreamSteps

\* No step makes a frame with the credential.
LEMMA StepClean ==
    ASSUME TypeOK, Staging, Places, Clean, Next, TypeOK'
    PROVE  Clean'
<1> SUFFICES ASSUME NEW d \in Calls PROVE NoSecret(Stream(d)')
  BY DEF Clean
<1>1. Tool' = Tool /\ NoSecret(Stream(d))
  BY Steps DEF Clean
<1>2. CASE \E c \in Calls : CallStep(c)
  <2>1. PICK c \in Calls : CallStep(c)
    BY <1>2
  <2>2. CASE d = c
    BY <1>1, <2>1, <2>2, CallClean
  <2>3. CASE d # c
    BY <1>1, <2>1, <2>3, OneCall, LeftAlone
  <2> QED BY <2>2, <2>3
<1>3. CASE Dies
  <2>1. Prefix(Stream(d)', Stream(d)) /\ Len(Stream(d)) \in Nat
    BY <1>3, DeathPlace, Prefixes
  <2>2. Len(Stream(d)') \in Nat
    BY <2>1, LenProperties DEF Prefix
  <2> QED BY <1>1, <2>1, <2>2 DEF Prefix, NoSecret
<1>4. CASE \A x \in Calls : Untouched(x)
  BY <1>1, <1>4, LeftAlone
<1> QED
  BY <1>2, <1>3, <1>4, Steps

----------------------------------------------------------------------------
(* Pipes and what was read of them *)

\* A frame added to a stream: of its pipe the next number, of the others as before.
LEMMA Added ==
    ASSUME NEW S \in Seq(Frame), NEW f \in Frame
    PROVE  /\ Append(S, f) \in Seq(Frame) /\ Len(Append(S, f)) = Len(S) + 1 /\ Len(S) \in Nat
           /\ Append(S, f)[Len(S) + 1] = f
           /\ \A i \in 1..Len(S) : Append(S, f)[i] = S[i]
           /\ NoEnd(S) /\ f.s # "end" => NoEnd(Append(S, f))
           /\ NoBad(S) /\ f.k # "noimage" => NoBad(Append(S, f))
           /\ \A s : \A m \in Nat : Numbered(S, s, m) =>
                 /\ f.s # s => Numbered(Append(S, f), s, m)
                 /\ f.s = s /\ f.n = m + 1 => Numbered(Append(S, f), s, m + 1)
<1> DEFINE R == Append(S, f)
           l == Len(S)
<1>1. /\ R \in Seq(Frame) /\ Len(R) = l + 1 /\ l \in Nat /\ R[l + 1] = f
      /\ \A i \in 1..l : R[i] = S[i]
  BY LenProperties, AppendProperties
<1> HIDE DEF R, l
<1>2. \A i \in 1..Len(R) : i \in 1..l \/ i = l + 1
  BY <1>1
<1>n. Len(S) = l
  BY DEF l
<1>3. (NoEnd(S) /\ f.s # "end" => NoEnd(R)) /\ (NoBad(S) /\ f.k # "noimage" => NoBad(R))
  BY <1>1, <1>2, <1>n DEF NoEnd, NoBad
<1>4. ASSUME NEW s, NEW m \in Nat, Numbered(S, s, m), f.s # s
      PROVE  Numbered(R, s, m)
  <2>1. \A i \in 1..Len(R) : R[i].s = s => i \in 1..l /\ R[i] = S[i]
    BY <1>1, <1>2, <1>4
  <2>2. \A i \in 1..l : i \in 1..Len(R) /\ R[i] = S[i]
    BY <1>1
  <2>3. /\ \A i \in 1..l : S[i].s = s => S[i].n \in 1..m
        /\ \A n \in 1..m : \E i \in 1..l : S[i].s = s /\ S[i].n = n
        /\ \A i, j \in 1..l : S[i].s = s /\ S[j].s = s /\ i < j => S[i].n < S[j].n
    BY <1>4, <1>n DEF Numbered
  <2>4. \A i \in 1..Len(R) : R[i].s = s => R[i].n \in 1..m
    BY <2>1, <2>3
  <2>5. \A n \in 1..m : \E i \in 1..Len(R) : R[i].s = s /\ R[i].n = n
    BY <2>2, <2>3
  <2>6. \A i, j \in 1..Len(R) : R[i].s = s /\ R[j].s = s /\ i < j => R[i].n < R[j].n
    BY <2>1, <2>3
  <2> QED BY <2>4, <2>5, <2>6 DEF Numbered
<1>5. ASSUME NEW s, NEW m \in Nat, Numbered(S, s, m), f.s = s, f.n = m + 1
      PROVE  Numbered(R, s, m + 1)
  <2>2. \A i \in 1..l : i \in 1..Len(R) /\ R[i] = S[i]
    BY <1>1
  <2>3. /\ \A i \in 1..l : S[i].s = s => S[i].n \in 1..m
        /\ \A n \in 1..m : \E i \in 1..l : S[i].s = s /\ S[i].n = n
        /\ \A i, j \in 1..l : S[i].s = s /\ S[j].s = s /\ i < j => S[i].n < S[j].n
    BY <1>5, <1>n DEF Numbered
  <2>4. \A i \in 1..Len(R) : R[i].s = s => R[i].n \in 1..(m + 1)
    <3> SUFFICES ASSUME NEW i \in 1..Len(R), R[i].s = s PROVE R[i].n \in 1..(m + 1)
      OBVIOUS
    <3>1. CASE i \in 1..l
      BY <2>2, <2>3, <3>1
    <3>2. CASE i = l + 1
      BY <1>1, <1>5, <3>2
    <3> QED BY <1>2, <3>1, <3>2
  <2>5. \A n \in 1..(m + 1) : \E i \in 1..Len(R) : R[i].s = s /\ R[i].n = n
    <3> SUFFICES ASSUME NEW n \in 1..(m + 1) PROVE \E i \in 1..Len(R) : R[i].s = s /\ R[i].n = n
      OBVIOUS
    <3>1. CASE n \in 1..m
      BY <2>2, <2>3, <3>1
    <3>2. CASE n = m + 1
      <4>1. l + 1 \in 1..Len(R)
        BY <1>1
      <4> QED BY <1>1, <1>5, <3>2, <4>1
    <3> QED BY <3>1, <3>2
  <2>6. \A i, j \in 1..Len(R) : R[i].s = s /\ R[j].s = s /\ i < j => R[i].n < R[j].n
    <3> SUFFICES ASSUME NEW i \in 1..Len(R), NEW j \in 1..Len(R), R[i].s = s, R[j].s = s, i < j
                 PROVE  R[i].n < R[j].n
      OBVIOUS
    <3>0. i \in 1..l
      BY <1>1
    <3>1. CASE j \in 1..l
      BY <2>2, <2>3, <3>0, <3>1
    <3>2. CASE j = l + 1
      <4>1. R[i].n \in 1..m /\ R[j].n = m + 1
        BY <1>1, <1>5, <2>2, <2>3, <3>0, <3>2
      <4> QED BY <4>1
    <3> QED BY <1>2, <3>1, <3>2
  <2> QED BY <2>4, <2>5, <2>6 DEF Numbered
<1>6. /\ \A s : \A m \in Nat : Numbered(S, s, m) =>
            /\ f.s # s => Numbered(R, s, m)
            /\ f.s = s /\ f.n = m + 1 => Numbered(R, s, m + 1)
  BY <1>4, <1>5
<1> QED
  BY <1>1, <1>3, <1>6 DEF R, l

\* Once a call has its process, no step brings one back or gives its pipes a new writer.
LEMMA Processes ==
    ASSUME TypeOK, NEW c \in Calls, CallStep(c), ~Spawn(c)
    PROVE  /\ child[c] \in {"none", "ok"} => child'[c] = child[c]
           /\ Holders(c)' => Holders(c)
           /\ c \in token => c \in token'
<1> USE DEF podVars, actVars, procVars, taskVars, wireVars
<1>1. CASE Dial(c) \/ Cancel(c) \/ Disconnect(c) \/ HarnessReads(c)
           \/ \E l \in Lines : ChildWrites(c, l)
  <2>1. UNCHANGED <<child, helper, shut>> /\ token \subseteq token'
    BY <1>1 DEF Dial, Cancel, Disconnect, HarnessReads, ChildWrites
  <2> QED BY <2>1 DEF Holders
<1>2. CASE ChildForks(c) \/ ChildShuts(c) \/ ChildExits(c) \/ HelperExits(c)
  <2>1. token' = token
    BY <1>2 DEF ChildForks, ChildShuts, ChildExits, HelperExits
  <2>2. child[c] \in {"none", "ok"} => child'[c] = child[c]
    BY <1>2 DEF ChildForks, ChildShuts, ChildExits, HelperExits, TypeOK
  <2>3. CASE ChildForks(c)
    BY <2>3 DEF ChildForks, Holders
  <2>4. CASE ChildShuts(c)
    BY <2>4 DEF ChildShuts, Holders
  <2>5. CASE ChildExits(c)
    <3>1. child'[c] \in {"ok", "bad"} /\ helper' = helper
      BY <2>5 DEF ChildExits, TypeOK
    <3> QED BY <3>1, <2>1, <2>2 DEF Holders
  <2>6. CASE HelperExits(c)
    BY <2>6 DEF HelperExits, Holders
  <2> QED BY <1>2, <2>1, <2>2, <2>3, <2>4, <2>5, <2>6
<1>3. CASE Assign(c) \/ RefuseRun(c) \/ ModelCall(c) \/ Finish(c) \/ TouchEnd(c) \/ Flush(c)
           \/ Send(c) \/ Reap(c) \/ \E s \in Pipes : ReadLine(c, s) \/ PipeEnds(c, s)
  <2>1. UNCHANGED <<child, helper, shut, token>>
    BY <1>3 DEF Assign, RefuseRun, ModelCall, Finish, TouchEnd, Flush, Send, Reap, ReadLine, PipeEnds
  <2> QED BY <2>1 DEF Holders
<1>4. CASE Collect(c) \/ CollectPanics(c) \/ FilesRefuse(c) \/ ReadFile(c)
           \/ SearchFiles(c) \/ WriteFile(c) \/ EditRead(c) \/ EditWrite(c) \/ SpawnFails(c)
  <2>1. UNCHANGED <<child, helper, shut, token>>
    BY <1>4 DEF Collect, CollectPanics, FilesRefuse, ReadFile, SearchFiles, WriteFile,
                EditRead, EditWrite, SpawnFails
  <2> QED BY <2>1 DEF Holders
<1>5. CASE KillOnCancel(c) \/ Supervise(c)
  <2>1. UNCHANGED <<helper, shut, token>>
    BY <1>5 DEF KillOnCancel, Supervise
  <2>2. Kill(c) \/ child' = child
    BY <1>5 DEF KillOnCancel, Supervise
  <2>3. child'[c] = child[c] \/ (child[c] = "alive" /\ child'[c] = "killed")
    BY <2>2 DEF Kill, TypeOK
  <2> QED BY <2>1, <2>3 DEF Holders
<1> QED
  BY <1>1, <1>2, <1>3, <1>4, <1>5 DEF CallStep, ServerStep

\* What can be read of a pipe grows, and once it is spent stays.
LEMMA PipesKept ==
    ASSUME TypeOK, TypeOK', NEW c \in Calls, CallStep(c), ~Spawn(c), NEW s \in Pipes
    PROVE  /\ Readable(c, s) \in Nat /\ Readable(c, s)' \in Nat
           /\ Readable(c, s) <= Readable(c, s)'
           /\ Spent(c, s) => /\ Spent(c, s)' /\ Due(c, s)' = Due(c, s)
                             /\ Readable(c, s)' = Readable(c, s)
<1>t. Tool' = Tool
  BY OneCall DEF Tool
<1>h. Holders(c)' => Holders(c)
  BY Processes
<1>1. Legible(wrote[c][s], Readable(c, s)) /\ Readable(c, s) \in Nat
  BY ReadableIs
<1>2. CASE wrote'[c][s] = wrote[c][s]
  <2>1. Readable(c, s)' = Readable(c, s) /\ Pipe(c, s)' = Pipe(c, s)
    BY <1>2 DEF Readable, Pipe
  <2>2. Due(c, s)' = Due(c, s)
    BY <1>t, <2>1 DEF Due
  <2>3. Spent(c, s) => Spent(c, s)'
    BY <1>t, <1>h, <2>1 DEF Spent
  <2> QED BY <1>1, <2>1, <2>2, <2>3
<1>3. CASE wrote'[c][s] # wrote[c][s]
  <2>1. PICK k \in LineKinds : wrote'[c][s] = Append(wrote[c][s], k) /\ Holders(c)
    BY <1>3, Writes
  <2>2. wrote[c][s] \in Seq(LineKinds) /\ wrote'[c][s] \in Seq(LineKinds)
    BY DEF TypeOK
  <2> DEFINE ls == wrote[c][s]
             ms == wrote'[c][s]
             m == Readable(c, s)
             n == Readable(c, s)'
  <2>3. Len(ms) \in Nat /\ \E i \in 0..Len(ms) : Legible(ms, i)
    BY <2>2, LegibleIs, LenProperties
  <2>4. n = CHOOSE i \in 0..Len(ms) : /\ \A j \in 1..i : ms[j] # "binary"
                                      /\ i < Len(ms) => ms[i + 1] = "binary"
    BY DEF Readable, Pipe
  <2>5. Legible(ms, n) /\ n \in Nat
    <3> HIDE DEF ms, n
    <3>1. \E i \in 0..Len(ms) : /\ \A j \in 1..i : ms[j] # "binary"
                                /\ i < Len(ms) => ms[i + 1] = "binary"
      BY <2>3 DEF Legible
    <3>2. /\ n \in 0..Len(ms) /\ \A j \in 1..n : ms[j] # "binary"
          /\ n < Len(ms) => ms[n + 1] = "binary"
      BY <2>4, <3>1
    <3> QED BY <2>3, <3>2 DEF Legible
  <2>6. m <= n /\ (m < Len(ls) => m = n /\ m < Len(ms))
    <3> HIDE DEF ls, ms, m, n
    <3>1. ls \in Seq(LineKinds) /\ Legible(ls, m) /\ ms = Append(ls, k) /\ Legible(ms, n)
      BY <1>1, <2>1, <2>2, <2>5 DEF ls, ms, m, n
    <3> QED BY <3>1, LegibleGrows
  <2>7. Spent(c, s) => Spent(c, s)' /\ Due(c, s)' = Due(c, s) /\ m = n
    BY <1>t, <2>1, <2>6 DEF Spent, Due, Pipe
  <2> QED BY <1>1, <2>5, <2>6, <2>7
<1> QED
  BY <1>2, <1>3

\* What a step does to a call whose tool is streamed and goes on being streamed.
LEMMA PumpSteps ==
    ASSUME TypeOK, TypeOK', Places, NEW c \in Calls, CallStep(c), ~Spawn(c), pc'[c] \in Streaming
    PROVE  /\ pc[c] \in Streaming
           /\ \/ \E s \in Pipes : ReadLine(c, s)
              \/ /\ Stream(c)' = Stream(c) /\ taken'[c] = taken[c]
                 /\ c \in imgErr => c \in imgErr'
                 /\ \/ open'[c] = open[c]
                    \/ \E s \in Pipes : PipeEnds(c, s)
<1> USE DEF podVars, actVars, procVars, taskVars, wireVars
<1>1. CASE Dial(c) \/ Assign(c) \/ RefuseRun(c) \/ ModelCall(c) \/ EditRead(c)
  <2>1. pc'[c] \in {"accepted", "refused", "model", "files", "spawn", "edit", "finish", "flush"}
    BY <1>1 DEF Dial, Assign, RefuseRun, ModelCall, EditRead, TypeOK
  <2> QED BY <2>1 DEF Streaming
<1>2. CASE Finish(c) \/ TouchEnd(c) \/ CollectPanics(c) \/ Supervise(c)
  <2>1. pc'[c] \in {"touchEnd", "ended", "dead", "drain"}
    BY <1>2 DEF Finish, TouchEnd, CollectPanics, Supervise, TypeOK
  <2> QED BY <2>1 DEF Streaming
<1>3. CASE Flush(c)
  <2>1. \E v \in {"finish", "flush"} : pc' = [pc EXCEPT ![c] = v]
    BY <1>3 DEF Flush
  <2> QED BY <2>1 DEF Streaming, TypeOK
<1>4. CASE Reap(c) \/ Collect(c) \/ FilesRefuse(c) \/ ReadFile(c) \/ SearchFiles(c) \/ WriteFile(c)
           \/ EditWrite(c) \/ SpawnFails(c)
  <2>1. \E fs : Flushes(c, fs)
    BY <1>4 DEF Reap, Collect, FilesRefuse, ReadFile, SearchFiles, WriteFile, EditWrite, SpawnFails
  <2>2. pc'[c] = "flush"
    BY <2>1 DEF Flushes, TypeOK
  <2> QED BY <2>2 DEF Streaming
<1>s. ASSUME ~AtOnce(c), ~Collect(c), ~Reap(c), \A s \in Pipes : ~ReadLine(c, s)
      PROVE  Stream(c)' = Stream(c)
  <2>1. pc'[c] # "finish"
    BY DEF Streaming
  <2> QED BY <1>s, <2>1, StreamSteps
<1>5. CASE Cancel(c) \/ Disconnect(c) \/ HarnessReads(c) \/ ChildForks(c) \/ ChildShuts(c)
           \/ ChildExits(c) \/ HelperExits(c) \/ \E l \in Lines : ChildWrites(c, l)
  <2>1. UNCHANGED <<pc, taken, open, imgErr>>
    BY <1>5 DEF Cancel, Disconnect, HarnessReads, ChildForks, ChildShuts, ChildExits, HelperExits,
                ChildWrites
  <2>2. pc[c] \in Streaming
    BY <2>1
  <2>3. ~Collect(c) /\ \A fs : ~Flushes(c, fs)
    <3>1. pc[c] # "flush"
      BY <2>2 DEF Streaming
    <3>2. \A fs : ~Flushes(c, fs)
      BY <2>1, <3>1 DEF Flushes, TypeOK
    <3> QED BY <3>2 DEF Collect
  <2>4. ~AtOnce(c) /\ ~Reap(c)
    BY <2>3 DEF AtOnce, Reap
  <2>5. CASE \E s \in Pipes : ReadLine(c, s)
    BY <2>2, <2>5
  <2>6. CASE \A s \in Pipes : ~ReadLine(c, s)
    BY <1>s, <2>1, <2>2, <2>3, <2>4, <2>6
  <2> QED BY <2>5, <2>6
<1>6. CASE KillOnCancel(c) \/ \E s \in Pipes : PipeEnds(c, s)
  <2>1. UNCHANGED <<pc, taken, imgErr, got, chan, pend>>
    BY <1>6 DEF KillOnCancel, PipeEnds
  <2>2. open' = open \/ \E s \in Pipes : PipeEnds(c, s)
    BY <1>6 DEF KillOnCancel
  <2>3. Stream(c)' = Stream(c)
    BY <2>1 DEF Stream
  <2> QED BY <2>1, <2>2, <2>3
<1>7. CASE Send(c)
  <2>1. UNCHANGED <<taken, open, imgErr>> /\ pc[c] = "send"
    BY <1>7 DEF Send
  <2>2. \E v \in {"finish", "pump"} : pc' = [pc EXCEPT ![c] = v]
    BY <1>7 DEF Send
  <2>3. pc'[c] = "pump"
    BY <2>2 DEF Streaming, TypeOK
  <2>4. \A fs : ~Flushes(c, fs)
    BY <2>3 DEF Flushes, TypeOK
  <2>5. ~AtOnce(c) /\ ~Collect(c) /\ ~Reap(c) /\ \A s \in Pipes : ~ReadLine(c, s)
    BY <2>1, <2>4 DEF AtOnce, Collect, Reap, ReadLine, Selects
  <2> QED BY <1>s, <2>1, <2>5 DEF Streaming
<1>8. ASSUME NEW s \in Pipes, ReadLine(c, s) PROVE pc[c] \in Streaming
  BY <1>8 DEF ReadLine, Selects, Streaming
<1> QED
  BY <1>1, <1>2, <1>3, <1>4, <1>5, <1>6, <1>7, <1>8 DEF CallStep, ServerStep

\* What a read line adds to the stream.
LEMMA LineAdded ==
    ASSUME TypeOK, Places, NEW c \in Calls, NEW s \in Pipes, ReadLine(c, s)
    PROVE  \E f \in Frame : /\ f.s = s /\ f.n = taken[c][s] + 1
                            /\ Stream(c)' = Append(Stream(c), f)
                            /\ imgErr' = IF f.k = "noimage" THEN imgErr \cup {c} ELSE imgErr
<1> USE DEF podVars, actVars, procVars, taskVars, wireVars
<1> DEFINE n == taken[c][s] + 1
           f == LineFrame(s, Pipe(c, s)[n], n, scratch)
<1>1. /\ n \in 1..Len(wrote[c][s]) /\ n \in Nat /\ wrote[c][s][n] \in LineKinds /\ f \in Frame
  BY NextLine DEF ReadLine
<1>2. f.s = s /\ f.n = n
  BY <1>1, LineFrameIs DEF Pipe
<1>3. pc[c] = "pump" /\ pend' = [pend EXCEPT ![c] = <<f>>] /\ got' = got /\ chan' = chan
  BY DEF ReadLine, Selects
<1>4. imgErr' = IF f.k = "noimage" THEN imgErr \cup {c} ELSE imgErr
  BY DEF ReadLine
<1> HIDE DEF f
<1>5. pend'[c] = <<f>> /\ pend[c] = <<>>
  BY <1>3 DEF TypeOK, Places, PlaceOf
<1>6. Stream(c)' = Stream(c) \o <<f>>
  BY <1>3, <1>5, Follows
<1> DEFINE S == Stream(c)
<1>7. S \in Seq(Frame)
  BY Prefixes
<1> HIDE DEF S
<1>8. Append(S, f) = S \o <<f>>
  BY <1>1, <1>7, AppendIsConcat
<1>9. Stream(c)' = Append(Stream(c), f)
  BY <1>6, <1>8 DEF S
<1> QED
  BY <1>1, <1>2, <1>4, <1>9

\* A call that is streamed goes on sending what it reads.
LEMMA CallStreamed ==
    ASSUME TypeOK, TypeOK', Places, NEW c \in Calls, CallStep(c), Streamed(c)
    PROVE  Streamed(c)'
<1> USE DEF podVars, actVars, procVars, taskVars, wireVars
<1> SUFFICES ASSUME pc'[c] \in Streaming
             PROVE  /\ NoEnd(Stream(c)')
                    /\ c \in imgErr' \/ NoBad(Stream(c)')
                    /\ \A s \in Pipes :
                          /\ taken'[c][s] <= Readable(c, s)'
                          /\ Numbered(Stream(c)', s, taken'[c][s])
                          /\ s \notin open'[c] => Spent(c, s)' /\ taken'[c][s] = Readable(c, s)'
  BY DEF Streamed
<1>1. CASE Spawn(c)
  <2>1. pc[c] = "spawn" /\ taken' = taken /\ open'[c] = Pipes /\ wrote' = wrote
        /\ got' = got /\ chan' = chan /\ pend' = pend
    BY <1>1 DEF Spawn, TypeOK
  <2>2. Stream(c)' = <<>>
    <3>1. pend[c] = <<>>
      BY <2>1 DEF Places, PlaceOf
    <3> QED BY <2>1, <3>1, FirstFrames DEF Fresh
  <2>3. Len(<<>>) = 0
    OBVIOUS
  <2>4. \A s \in Pipes : taken'[c][s] = 0
    BY <2>1 DEF Places, PlaceOf, Fresh
  <2>5. \A s \in Pipes : Readable(c, s)' \in Nat
    <3> SUFFICES ASSUME NEW s \in Pipes PROVE Readable(c, s)' \in Nat
      OBVIOUS
    <3>1. Readable(c, s)' = Readable(c, s)
      BY <2>1 DEF Readable, Pipe
    <3> QED BY <3>1, ReadableIs
  <2>6. NoEnd(<<>>) /\ NoBad(<<>>)
    BY <2>3 DEF NoEnd, NoBad
  <2>7. \A s \in Pipes : Numbered(<<>>, s, 0)
    BY <2>3 DEF Numbered
  <2> QED BY <2>1, <2>2, <2>4, <2>5, <2>6, <2>7
<1>2. CASE ~Spawn(c)
  <2>0. pc[c] \in Streaming
    BY <1>2, PumpSteps
  <2>1. /\ NoEnd(Stream(c))
        /\ c \in imgErr \/ NoBad(Stream(c))
        /\ \A s \in Pipes :
              /\ taken[c][s] <= Readable(c, s)
              /\ Numbered(Stream(c), s, taken[c][s])
              /\ s \notin open[c] => Spent(c, s) /\ taken[c][s] = Readable(c, s)
    BY <2>0 DEF Streamed
  <2>2. \A s \in Pipes :
           /\ Readable(c, s) \in Nat /\ Readable(c, s)' \in Nat
           /\ Readable(c, s) <= Readable(c, s)'
           /\ Spent(c, s) => Spent(c, s)' /\ Readable(c, s)' = Readable(c, s)
    BY <1>2, PipesKept
  <2>n. \A s \in Pipes : taken[c][s] \in Nat
    BY DEF TypeOK
  <2>3. ASSUME Stream(c)' = Stream(c), taken'[c] = taken[c], c \in imgErr => c \in imgErr',
               open'[c] = open[c]
        PROVE  /\ NoEnd(Stream(c)')
               /\ c \in imgErr' \/ NoBad(Stream(c)')
               /\ \A s \in Pipes :
                     /\ taken'[c][s] <= Readable(c, s)'
                     /\ Numbered(Stream(c)', s, taken'[c][s])
                     /\ s \notin open'[c] => Spent(c, s)' /\ taken'[c][s] = Readable(c, s)'
    <3>1. \A s \in Pipes : taken'[c][s] <= Readable(c, s)'
      BY <2>1, <2>2, <2>3, <2>n
    <3>2. \A s \in Pipes : s \notin open'[c] => Spent(c, s)' /\ taken'[c][s] = Readable(c, s)'
      BY <2>1, <2>2, <2>3
    <3> QED BY <2>1, <2>3, <3>1, <3>2
  <2>4. ASSUME NEW t \in Pipes, PipeEnds(c, t), Stream(c)' = Stream(c), taken'[c] = taken[c],
               c \in imgErr => c \in imgErr'
        PROVE  /\ NoEnd(Stream(c)')
               /\ c \in imgErr' \/ NoBad(Stream(c)')
               /\ \A s \in Pipes :
                     /\ taken'[c][s] <= Readable(c, s)'
                     /\ Numbered(Stream(c)', s, taken'[c][s])
                     /\ s \notin open'[c] => Spent(c, s)' /\ taken'[c][s] = Readable(c, s)'
    <3>0. open' = [open EXCEPT ![c] = open[c] \ {t}] /\ pc[c] = "pump"
      BY <2>4 DEF PipeEnds, Selects
    <3>1. \A s \in Pipes : taken'[c][s] <= Readable(c, s)'
      BY <2>1, <2>2, <2>4, <2>n
    <3>t. Tool # "Shell"
      BY <2>0 DEF Places, PlaceOf
    <3>2. Spent(c, t) /\ taken[c][t] = Readable(c, t)
      <4>1. ~Holders(c) \/ Readable(c, t) < Len(Pipe(c, t))
        BY <2>4 DEF PipeEnds
      <4>2. ~(taken[c][t] < Readable(c, t))
        BY <2>4 DEF PipeEnds, Unread
      <4>3. taken[c][t] = Readable(c, t)
        BY <2>1, <2>2, <2>n, <4>2
      <4> QED BY <3>t, <4>1, <4>3 DEF Spent
    <3>3. \A s \in Pipes : s \notin open'[c] => Spent(c, s) /\ taken[c][s] = Readable(c, s)
      <4>1. open'[c] = open[c] \ {t}
        BY <3>0 DEF TypeOK
      <4> QED BY <2>1, <3>2, <4>1
    <3>4. \A s \in Pipes : s \notin open'[c] => Spent(c, s)' /\ taken'[c][s] = Readable(c, s)'
      BY <2>2, <2>4, <3>3
    <3> QED BY <2>1, <2>4, <3>1, <3>4
  <2>5. ASSUME NEW t \in Pipes, ReadLine(c, t)
        PROVE  /\ NoEnd(Stream(c)')
               /\ c \in imgErr' \/ NoBad(Stream(c)')
               /\ \A s \in Pipes :
                     /\ taken'[c][s] <= Readable(c, s)'
                     /\ Numbered(Stream(c)', s, taken'[c][s])
                     /\ s \notin open'[c] => Spent(c, s)' /\ taken'[c][s] = Readable(c, s)'
    <3>1. PICK f \in Frame : /\ f.s = t /\ f.n = taken[c][t] + 1
                             /\ Stream(c)' = Append(Stream(c), f)
                             /\ imgErr' = IF f.k = "noimage" THEN imgErr \cup {c} ELSE imgErr
      BY <2>5, LineAdded
    <3>2. /\ taken' = [taken EXCEPT ![c][t] = taken[c][t] + 1] /\ open' = open
          /\ t \in open[c] /\ taken[c][t] < Readable(c, t)
      BY <2>5 DEF ReadLine, Selects, Unread
    <3>3. /\ taken'[c][t] = taken[c][t] + 1
          /\ \A s \in Pipes \ {t} : taken'[c][s] = taken[c][s]
      BY <3>2 DEF TypeOK
    <3> DEFINE S == Stream(c)
               R == Stream(c)'
    <3>4. S \in Seq(Frame) /\ R = Append(S, f) /\ NoEnd(S) /\ (c \in imgErr \/ NoBad(S))
          /\ \A s \in Pipes : Numbered(S, s, taken[c][s])
      BY <2>1, <3>1, Prefixes
    <3> HIDE DEF S, R
    <3>5. f.s # "end"
      BY <3>1 DEF Pipes
    <3>6. /\ NoEnd(R)
          /\ NoBad(S) /\ f.k # "noimage" => NoBad(R)
          /\ \A s : \A m \in Nat : Numbered(S, s, m) =>
                 /\ f.s # s => Numbered(R, s, m)
                 /\ f.s = s /\ f.n = m + 1 => Numbered(R, s, m + 1)
      BY <3>4, <3>5, Added
    <3>7. c \in imgErr' \/ NoBad(R)
      BY <3>1, <3>4, <3>6
    <3>8. \A s \in Pipes : Numbered(R, s, taken'[c][s])
      <4> SUFFICES ASSUME NEW s \in Pipes PROVE Numbered(R, s, taken'[c][s])
        OBVIOUS
      <4>1. Numbered(S, s, taken[c][s]) /\ taken[c][s] \in Nat
        BY <2>n, <3>4
      <4>2. CASE s = t
        BY <3>1, <3>3, <3>6, <4>1, <4>2
      <4>3. CASE s # t
        BY <3>1, <3>3, <3>6, <4>1, <4>3
      <4> QED BY <4>2, <4>3
    <3>9. \A s \in Pipes : taken'[c][s] <= Readable(c, s)'
      <4> SUFFICES ASSUME NEW s \in Pipes PROVE taken'[c][s] <= Readable(c, s)'
        OBVIOUS
      <4>1. taken'[c][s] \in Nat /\ taken'[c][s] <= Readable(c, s)
        BY <2>1, <2>2, <2>n, <3>2, <3>3
      <4> QED BY <2>2, <4>1
    <3>10. \A s \in Pipes : s \notin open'[c] => Spent(c, s)' /\ taken'[c][s] = Readable(c, s)'
      BY <2>1, <2>2, <3>2, <3>3
    <3> QED BY <3>6, <3>7, <3>8, <3>9, <3>10 DEF R
  <2> QED BY <1>2, <2>3, <2>4, <2>5, PumpSteps
<1> QED
  BY <1>1, <1>2

\* Every step keeps what is streamed and what has been read together.
LEMMA StepPumps ==
    ASSUME TypeOK, Places, Pumps, Next, TypeOK'
    PROVE  Pumps'
<1> SUFFICES ASSUME NEW d \in Calls PROVE Streamed(d)'
  BY DEF Pumps
<1>1. Tool' = Tool /\ Streamed(d)
  BY Steps DEF Pumps
<1>u. ASSUME Untouched(d) PROVE Streamed(d)'
  <2>1. /\ Stream(d)' = Stream(d) /\ pc'[d] = pc[d] /\ taken'[d] = taken[d] /\ open'[d] = open[d]
        /\ d \in imgErr' <=> d \in imgErr
        /\ \A s \in Pipes : Readable(d, s)' = Readable(d, s) /\ Spent(d, s)' = Spent(d, s)
    BY <1>1, <1>u, LeftAlone DEF Untouched
  <2> QED BY <1>1, <2>1 DEF Streamed
<1>2. CASE \E c \in Calls : CallStep(c)
  <2>1. PICK c \in Calls : CallStep(c)
    BY <1>2
  <2>2. CASE d = c
    BY <1>1, <2>1, <2>2, CallStreamed
  <2>3. CASE d # c
    BY <1>u, <2>1, <2>3, OneCall
  <2> QED BY <2>2, <2>3
<1>3. CASE Dies
  BY <1>3, DeathPlace DEF Streamed
<1>4. CASE \A x \in Calls : Untouched(x)
  BY <1>4, <1>u
<1> QED
  BY <1>2, <1>3, <1>4, Steps

----------------------------------------------------------------------------
(* A terminal tells the truth *)

\* What makes a terminal true stays so.
LEMMA GoodKept ==
    ASSUME TypeOK, TypeOK', NEW c \in Calls, CallStep(c), ~Spawn(c), NEW S, Good(c, S)
    PROVE  Good(c, S)'
<1>1. child'[c] = child[c]
  BY Processes DEF Good
<1>2. \A s \in Pipes : Spent(c, s)' /\ Due(c, s)' = Due(c, s)
  BY PipesKept DEF Good
<1> QED
  BY <1>1, <1>2 DEF Good

\* A stream that is left as it is keeps its terminal.
LEMMA ToldKept ==
    ASSUME TypeOK, TypeOK', NEW c \in Calls, CallStep(c), NEW S, ToldIn(c, S),
           pc[c] \notin Ending => NoEnd(S)
    PROVE  ToldIn(c, S)'
<1>1. CASE Spawn(c)
  <2>1. pc[c] \notin Ending
    BY <1>1 DEF Spawn, Ending
  <2> QED BY <2>1 DEF NoEnd, ToldIn
<1>2. CASE ~Spawn(c)
  <2>1. c \in token => c \in token'
    BY <1>2, Processes
  <2>2. Good(c, S) => Good(c, S)'
    BY <1>2, GoodKept
  <2> QED BY <2>1, <2>2 DEF ToldIn
<1> QED
  BY <1>1, <1>2

\* What is left of a stream that is cut is told truly too: the terminal goes first.
LEMMA CutTold ==
    ASSUME NEW c \in Calls, NEW S \in Seq(Frame), NEW p, Prefix(p, S), ToldIn(c, S)
    PROVE  NoEnd(p) \/ p = S
<1>1. Len(S) \in Nat /\ p \in Seq(Frame) /\ Len(p) \in Nat /\ Len(p) <= Len(S)
  BY LenProperties DEF Prefix
<1>2. ASSUME NEW i \in 1..Len(p), p[i].s = "end" PROVE p = S
  <2>1. i \in 1..Len(S) /\ S[i].s = "end"
    BY <1>1, <1>2 DEF Prefix
  <2>2. i = Len(S)
    BY <2>1 DEF ToldIn
  <2>3. Len(p) = Len(S)
    BY <1>1, <2>2
  <2> QED BY <1>1, <2>3, SeqEqual DEF Prefix
<1> QED
  BY <1>2 DEF NoEnd

\* A tool that never ran has nothing to come.
LEMMA NothingDue ==
    ASSUME TypeOK, Places, NEW c \in Calls, child[c] = "none", NEW s \in Pipes
    PROVE  Spent(c, s) /\ Due(c, s) = 0
<1>1. c \notin helper /\ wrote[c][s] = <<>>
  BY DEF Places, PlaceOf
<1>2. ~Holders(c)
  BY <1>1 DEF Holders
<1>3. Len(wrote[c][s]) = 0
  BY <1>1
<1>4. Readable(c, s) = 0
  BY <1>3, ReadableIs
<1> QED
  BY <1>2, <1>3, <1>4 DEF Spent, Due, Pipe

\* A call that ends at once tells the truth.
LEMMA AtOnceTold ==
    ASSUME TypeOK, TypeOK', Places, NEW c \in Calls, CallStep(c), AtOnce(c)
    PROVE  ToldIn(c, Stream(c))'
<1>1. child[c] = "none"
  BY DEF AtOnce, Places, PlaceOf
<1>t. Tool' = Tool
  BY OneCall DEF Tool
<1>2. child'[c] = "none" /\ \A s \in Pipes : Spent(c, s)' /\ Due(c, s)' = 0
  <2>1. /\ child' = child /\ Holders(c)' = Holders(c)
        /\ \A s \in Pipes : Readable(c, s)' = Readable(c, s) /\ Pipe(c, s)' = Pipe(c, s)
    BY DEF AtOnce, Holders, Readable, Pipe
  <2>2. \A s \in Pipes : Spent(c, s)' = Spent(c, s) /\ Due(c, s)' = Due(c, s)
    BY <1>t, <2>1 DEF Spent, Due
  <2> QED BY <1>1, <2>1, <2>2, NothingDue
<1>3. PICK o \in {"DONE", "FAILED"} :
              \/ Stream(c)' = <<End(o)>>
              \/ \E s \in Pipes : Stream(c)' = <<Note(s), End(o)>>
  BY AtOnceIs
<1>4. End(o).s = "end" /\ End(o).k = o /\ \A s \in Pipes : Note(s).s = s /\ Note(s).k = "note"
  BY MadeUp
<1>5. CASE Stream(c)' = <<End(o)>>
  <2> DEFINE S == <<End(o)>>
  <2>1. Len(S) = 1 /\ S[1] = End(o) /\ \A i \in 1..Len(S) : i = 1
    OBVIOUS
  <2> HIDE DEF S
  <2>2. NoBad(S)
    BY <1>4, <2>1 DEF NoBad
  <2>3. \A s \in Pipes : Numbered(S, s, 0)
    <3> SUFFICES ASSUME NEW s \in Pipes PROVE Numbered(S, s, 0)
      OBVIOUS
    <3>1. \A i \in 1..Len(S) : S[i].s # s
      BY <1>4, <2>1 DEF Pipes
    <3> QED BY <3>1 DEF Numbered
  <2>4. Good(c, S)'
    BY <1>2, <2>2, <2>3 DEF Good
  <2> QED BY <1>4, <1>5, <2>1, <2>4 DEF ToldIn, S
<1>6. ASSUME NEW t \in Pipes, Stream(c)' = <<Note(t), End(o)>> PROVE ToldIn(c, Stream(c))'
  <2> DEFINE S == <<Note(t), End(o)>>
  <2>1. Len(S) = 2 /\ S[1] = Note(t) /\ S[2] = End(o) /\ \A i \in 1..Len(S) : i \in {1, 2}
    OBVIOUS
  <2> HIDE DEF S
  <2>2. NoBad(S)
    BY <1>4, <2>1 DEF NoBad
  <2>3. \A s \in Pipes : HasNote(S, s) \/ Numbered(S, s, 0)
    <3> SUFFICES ASSUME NEW s \in Pipes PROVE HasNote(S, s) \/ Numbered(S, s, 0)
      OBVIOUS
    <3>1. CASE s = t
      BY <1>4, <2>1, <3>1 DEF HasNote
    <3>2. CASE s # t
      <4>1. \A i \in 1..Len(S) : S[i].s # s
        BY <1>4, <2>1, <3>2 DEF Pipes
      <4> QED BY <4>1 DEF Numbered
    <3> QED BY <3>1, <3>2
  <2>4. Good(c, S)'
    BY <1>2, <2>2, <2>3 DEF Good
  <2>5. \A i \in 1..Len(S) : S[i].s = "end" => i = 2
    BY <1>4, <2>1 DEF Pipes
  <2>6. Stream(c)' = S
    BY <1>6 DEF S
  <2> QED BY <1>4, <2>1, <2>4, <2>5, <2>6 DEF ToldIn
<1> QED
  BY <1>3, <1>5, <1>6

\* A Shell that ended tells the truth.
LEMMA CollectTold ==
    ASSUME TypeOK, TypeOK', Places, NEW c \in Calls, CallStep(c), Collect(c)
    PROVE  ToldIn(c, Stream(c))'
<1> USE DEF podVars, actVars, procVars, taskVars, wireVars
<1>1. /\ pc[c] = "drain" /\ ~Holders(c)
      /\ UNCHANGED <<child, helper, shut, wrote, token, got, chan, job>>
  BY DEF Collect
<1>2. Stream(c)' = pend'[c]
  BY <1>1, FirstFrames DEF Buffering
<1>3. Tool = "Shell" /\ Tool' = Tool
  BY <1>1, OneCall DEF Places, PlaceOf, Buffering, Tool
<1>4. ~Holders(c)' /\ \A s \in Pipes : Spent(c, s)' /\ Due(c, s)' = Len(wrote[c][s])
  <2>1. ~Holders(c)'
    BY <1>1 DEF Holders
  <2> QED BY <1>1, <1>3, <2>1 DEF Spent, Due, Pipe
<1>5. CASE ended[c] = "timeout"
  <2> DEFINE S == <<Note("err"), End("FAILED")>>
  <2>1. Len(S) = 2 /\ S[1] = Note("err") /\ S[2] = End("FAILED") /\ \A i \in 1..Len(S) : i \in {1, 2}
    OBVIOUS
  <2>2. Flushes(c, S)
    BY <1>5 DEF Collect
  <2> HIDE DEF S
  <2>3. Stream(c)' = S
    BY <1>2, <2>2 DEF Flushes, TypeOK
  <2>4. S[1].s = "err" /\ S[2].k = "FAILED"
    BY <2>1, MadeUp DEF Pipes
  <2> QED BY <2>1, <2>3, <2>4 DEF ToldIn
<1>6. CASE ended[c] # "timeout"
  <2> DEFINE good == ended[c] = "exit" /\ child[c] = "ok"
  <2>0. PICK S : S = FramesFor(c, good)
    OBVIOUS
  <2>1. Flushes(c, S) /\ good \in BOOLEAN /\ (good => child[c] = "ok")
    BY <1>6, <2>0 DEF Collect
  <2> HIDE DEF good
  <2>2. /\ Len(S) \in Nat /\ Len(S) > 0
        /\ \A i \in 1..Len(S) : S[i].s = "end" => i = Len(S)
        /\ S[Len(S)].k \in {"DONE", "FAILED"}
        /\ S[Len(S)].k = "DONE" => good /\ NoBad(S)
        /\ \A s \in Pipes : HasNote(S, s) \/ Numbered(S, s, Len(wrote[c][s]))
    BY <2>0, <2>1, FramesForIs
  <2>3. Stream(c)' = S
    BY <1>2, <2>1 DEF Flushes, TypeOK
  <2>4. S[Len(S)].k = "DONE" => Good(c, S)'
    <3> SUFFICES ASSUME S[Len(S)].k = "DONE" PROVE Good(c, S)'
      OBVIOUS
    <3>1. child'[c] = "ok" /\ NoBad(S)
      BY <1>1, <2>1, <2>2
    <3> QED BY <1>4, <2>2, <3>1 DEF Good
  <2> QED BY <2>2, <2>3, <2>4 DEF ToldIn
<1> QED
  BY <1>5, <1>6

\* A tool that was streamed and reaped tells the truth.
LEMMA ReapTold ==
    ASSUME TypeOK, TypeOK', Places, Pumps, NEW c \in Calls, CallStep(c), Reap(c)
    PROVE  ToldIn(c, Stream(c))'
<1> USE DEF podVars, actVars, procVars, taskVars, wireVars
<1>1. /\ pc[c] = "pump" /\ open[c] = {} /\ UNCHANGED <<child, helper, shut, wrote, token, got, chan, job>>
  BY DEF Reap
<1> DEFINE o == IF ended[c] = "cancel" THEN "CANCELED"
                ELSE IF child[c] = "ok" /\ c \notin imgErr THEN "DONE" ELSE "FAILED"
<1>2. Flushes(c, <<End(o)>>) /\ o \in {"DONE", "FAILED", "CANCELED"}
  BY DEF Reap
<1>3. o = "CANCELED" => c \in token
  BY DEF Places, PlaceOf
<1>4. o = "DONE" => child[c] = "ok" /\ c \notin imgErr
  OBVIOUS
<1> HIDE DEF o
<1>5. End(o) \in Frame /\ End(o).s = "end" /\ End(o).k = o
  BY <1>2, MadeUp
<1>6. pend[c] = <<>> /\ pend'[c] = <<End(o)>>
  <2>1. pend[c] = <<>>
    BY <1>1 DEF Places, PlaceOf
  <2>2. pend'[c] = <<End(o)>>
    BY <1>2 DEF Flushes, TypeOK
  <2> QED BY <2>1, <2>2
<1> DEFINE S == Stream(c)
           e == End(o)
<1>7. Stream(c)' = S \o <<End(o)>>
  BY <1>1, <1>6, Follows
<1>8. /\ NoEnd(S) /\ (c \in imgErr \/ NoBad(S)) /\ S \in Seq(Frame)
      /\ \A s \in Pipes : /\ taken[c][s] \in Nat /\ Numbered(S, s, taken[c][s])
                          /\ Spent(c, s) /\ taken[c][s] = Readable(c, s)
  BY <1>1, Prefixes DEF Pumps, Streamed, Streaming, TypeOK
<1>9. Tool # "Shell" /\ Tool' = Tool
  BY <1>1, OneCall DEF Places, PlaceOf, Streaming, Tool
<1>10. \A s \in Pipes : Spent(c, s)' /\ Due(c, s)' = Readable(c, s)
  <2>1. /\ Holders(c)' = Holders(c)
        /\ \A s \in Pipes : Readable(c, s)' = Readable(c, s) /\ Pipe(c, s)' = Pipe(c, s)
    BY <1>1 DEF Holders, Readable, Pipe
  <2> QED BY <1>8, <1>9, <2>1 DEF Spent, Due
<1>11. e \in Frame /\ e.s = "end" /\ e.k = o
  BY <1>5
<1> HIDE DEF S, e
<1>r. PICK R : R = Append(S, e)
  OBVIOUS
<1>12. R = S \o <<e>>
  BY <1>r, <1>8, <1>11, AppendIsConcat
<1>13. /\ Len(R) = Len(S) + 1 /\ Len(S) \in Nat
       /\ R[Len(S) + 1] = e
       /\ \A i \in 1..Len(S) : R[i] = S[i]
       /\ NoBad(S) /\ e.k # "noimage" => NoBad(R)
       /\ \A s : \A m \in Nat : Numbered(S, s, m) => (e.s # s => Numbered(R, s, m))
  BY <1>r, <1>8, <1>11, Added
<1>14. \A i \in 1..Len(R) : R[i].s = "end" => i = Len(R)
  <2>1. \A i \in 1..Len(R) : i \in 1..Len(S) \/ i = Len(R)
    BY <1>13
  <2> QED BY <1>8, <1>13, <2>1 DEF NoEnd
<1>15. o = "DONE" => Good(c, R)'
  <2> SUFFICES ASSUME o = "DONE" PROVE Good(c, R)'
    OBVIOUS
  <2>1. child'[c] = "ok" /\ NoBad(S)
    BY <1>1, <1>4, <1>8
  <2>2. NoBad(R)
    BY <1>11, <1>13, <2>1
  <2>3. \A s \in Pipes : Numbered(R, s, taken[c][s])
    <3>1. \A s \in Pipes : s # "end"
      BY DEF Pipes
    <3> QED BY <1>8, <1>11, <1>13, <3>1
  <2>4. \A s \in Pipes : Numbered(R, s, Due(c, s)')
    BY <1>8, <1>10, <2>3
  <2> QED BY <1>10, <2>1, <2>2, <2>4 DEF Good
<1>16. R[Len(R)].k = o
  BY <1>11, <1>13
<1>17. Stream(c)' = R
  BY <1>7, <1>12 DEF e
<1>18. c \in token => c \in token'
  BY <1>1
<1> QED
  BY <1>3, <1>14, <1>15, <1>16, <1>17, <1>18 DEF ToldIn

\* The call whose step it is goes on telling the truth.
LEMMA CallTold ==
    ASSUME TypeOK, TypeOK', Places, Pumps, NEW c \in Calls, CallStep(c), ToldIn(c, Stream(c)),
           pc[c] \notin Ending => NoEnd(Stream(c))
    PROVE  /\ pc'[c] \notin Ending => NoEnd(Stream(c))'
           /\ ToldIn(c, Stream(c))'
<1> USE DEF podVars, actVars, procVars, taskVars, wireVars
<1>m. pc'[c] \notin Ending => pc[c] \notin Ending
  BY Moves
<1>f. \A fs : Flushes(c, fs) => pc'[c] \in Ending
  BY DEF Flushes, TypeOK, Ending
<1>n. NoEnd(Stream(c)') => ToldIn(c, Stream(c))'
  BY DEF NoEnd, ToldIn
<1>1. CASE Stream(c)' = Stream(c)
  <2> DEFINE S == Stream(c)
  <2>1. ToldIn(c, S) /\ (pc[c] \notin Ending => NoEnd(S))
    OBVIOUS
  <2>a. S = Stream(c)
    OBVIOUS
  <2>2. \A T : ToldIn(c, T) /\ (pc[c] \notin Ending => NoEnd(T)) => ToldIn(c, T)'
    BY ToldKept
  <2> QED BY <1>1, <1>m, <2>2 DEF ToldIn
<1>2. CASE pc'[c] = "finish" /\ Stream(c)' = got[c] \o chan[c]
  <2>1. Prefix(Stream(c)', Stream(c)) /\ Stream(c) \in Seq(Frame)
    BY <1>2, Prefixes
  <2>2. NoEnd(Stream(c)') \/ Stream(c)' = Stream(c)
    <3> DEFINE S == Stream(c)
               p == Stream(c)'
    <3>1. S \in Seq(Frame) /\ Prefix(p, S) /\ ToldIn(c, S)
      BY <2>1
    <3> HIDE DEF S, p
    <3>2. NoEnd(p) \/ p = S
      BY <3>1, CutTold
    <3> QED BY <3>2 DEF S, p
  <2>3. pc'[c] \in Ending
    BY <1>2 DEF Ending
  <2> QED BY <1>1, <1>n, <2>2, <2>3
<1>3. CASE AtOnce(c)
  BY <1>3, <1>f, AtOnceTold DEF AtOnce
<1>4. CASE Collect(c)
  BY <1>4, <1>f, CollectTold DEF Collect
<1>5. CASE Reap(c)
  BY <1>5, <1>f, ReapTold DEF Reap
<1>6. ASSUME NEW s \in Pipes, ReadLine(c, s) PROVE NoEnd(Stream(c)')
  <2>1. PICK f \in Frame : f.s = s /\ Stream(c)' = Append(Stream(c), f)
    BY <1>6, LineAdded
  <2>2. pc[c] = "pump"
    BY <1>6 DEF ReadLine, Selects
  <2> DEFINE S == Stream(c)
  <2>3. NoEnd(S) /\ S \in Seq(Frame)
    BY <2>2, Prefixes DEF Ending
  <2> HIDE DEF S
  <2>4. f.s # "end"
    BY <2>1 DEF Pipes
  <2>5. NoEnd(Append(S, f))
    BY <2>3, <2>4, Added
  <2> QED BY <2>1, <2>5 DEF S
<1> QED
  BY <1>1, <1>2, <1>3, <1>4, <1>5, <1>6, <1>n, StreamSteps

\* Every step leaves every terminal the last frame, and true.
LEMMA StepTerminals ==
    ASSUME TypeOK, Places, Pumps, Terminals, Next, TypeOK'
    PROVE  Terminals'
<1> SUFFICES ASSUME NEW d \in Calls
             PROVE  /\ pc'[d] \notin Ending => NoEnd(Stream(d))'
                    /\ ToldIn(d, Stream(d))'
  BY DEF Terminals
<1>1. Tool' = Tool /\ (pc[d] \notin Ending => NoEnd(Stream(d))) /\ ToldIn(d, Stream(d))
  BY Steps DEF Terminals
<1>u. ASSUME Untouched(d)
      PROVE  /\ pc'[d] \notin Ending => NoEnd(Stream(d))'
             /\ ToldIn(d, Stream(d))'
  <2>1. /\ Stream(d)' = Stream(d) /\ pc'[d] = pc[d] /\ child'[d] = child[d]
        /\ d \in token' <=> d \in token
        /\ \A s \in Pipes : Due(d, s)' = Due(d, s) /\ Spent(d, s)' = Spent(d, s)
    BY <1>1, <1>u, LeftAlone DEF Untouched
  <2>2. Good(d, Stream(d))' <=> Good(d, Stream(d))
    BY <2>1 DEF Good
  <2>3. ToldIn(d, Stream(d))'
    BY <1>1, <2>1, <2>2 DEF ToldIn
  <2> QED BY <1>1, <2>1, <2>3
<1>2. CASE \E c \in Calls : CallStep(c)
  <2>1. PICK c \in Calls : CallStep(c)
    BY <1>2
  <2>2. CASE d = c
    BY <1>1, <2>1, <2>2, CallTold
  <2>3. CASE d # c
    BY <1>u, <2>1, <2>3, OneCall
  <2> QED BY <2>2, <2>3
<1>3. CASE Dies
  <2>1. Stream(d)' = got[d] /\ Prefix(got[d], Stream(d)) /\ Stream(d) \in Seq(Frame)
    BY <1>3, DeathPlace, Prefixes
  <2>2. NoEnd(got[d]) \/ got[d] = Stream(d)
    <3> DEFINE S == Stream(d)
               p == got[d]
    <3>1. S \in Seq(Frame) /\ Prefix(p, S) /\ ToldIn(d, S)
      BY <1>1, <2>1
    <3> HIDE DEF S, p
    <3>2. NoEnd(p) \/ p = S
      BY <3>1, CutTold
    <3> QED BY <3>2 DEF S, p
  <2>3. CASE NoEnd(got[d])
    BY <2>1, <2>3 DEF NoEnd, ToldIn
  <2>4. CASE got[d] = Stream(d)
    <3>1. /\ pc'[d] = IF pc[d] = "none" THEN "none" ELSE "ended"
          /\ child'[d] = IF child[d] = "alive" THEN "killed" ELSE child[d]
          /\ wrote' = wrote /\ helper' = {} /\ token' = token
      BY <1>3 DEF Dies
    <3>2. pc'[d] \notin Ending => pc[d] \notin Ending
      BY <3>1 DEF Ending
    <3>3. ~Holders(d)'
      BY <3>1 DEF Holders
    <3>4. \A s \in Pipes : Readable(d, s)' = Readable(d, s) /\ Pipe(d, s)' = Pipe(d, s)
      BY <3>1 DEF Readable, Pipe
    <3>5. \A s \in Pipes : Due(d, s)' = Due(d, s) /\ Spent(d, s)'
      BY <1>1, <3>3, <3>4 DEF Due, Spent
    <3>6. Stream(d)' = Stream(d)
      BY <2>1, <2>4
    <3>7. Good(d, Stream(d)) => Good(d, Stream(d))'
      BY <3>1, <3>5, <3>6 DEF Good
    <3>8. ToldIn(d, Stream(d))'
      BY <1>1, <3>1, <3>6, <3>7 DEF ToldIn
    <3> QED BY <1>1, <3>2, <3>6, <3>8
  <2> QED BY <2>2, <2>3, <2>4
<1>4. CASE \A x \in Calls : Untouched(x)
  BY <1>4, <1>u
<1> QED
  BY <1>2, <1>3, <1>4, Steps

----------------------------------------------------------------------------
(* The theorems *)

\* A pod that has not started serves no call.
LEMMA InitInv ==
    ASSUME Init PROVE Inv
<1>e. <<>> \in Seq(Frame) /\ <<>> \in Seq(LineKinds) /\ Len(<<>>) = 0
  BY EmptySeq
<1>1. TypeOK
  <2>1. /\ wrote \in [Calls -> [Pipes -> Seq(LineKinds)]]
        /\ taken \in [Calls -> [Pipes -> Nat]]
        /\ pend \in [Calls -> Seq(Frame)] /\ chan \in [Calls -> Seq(Frame)]
        /\ got \in [Calls -> Seq(Frame)]
    BY <1>e DEF Init
  <2>2. /\ pc \in [Calls -> Fresh \cup Buffering \cup Streaming \cup Ending]
        /\ link \in [Calls -> BOOLEAN]
        /\ child \in [Calls -> {"none", "alive", "killed", "ok", "bad"}]
        /\ open \in [Calls -> SUBSET Pipes]
        /\ ended \in [Calls -> {"run", "exit", "cancel", "timeout"}]
        /\ snap \in [Calls -> SUBSET Calls]
    BY DEF Init, Fresh
  <2>3. /\ job \in Jobs /\ pod = "boot" /\ watcher = "poll"
        /\ staged = FALSE /\ scrubs = FALSE /\ logScrubs = FALSE /\ restarted = FALSE
        /\ fresh = TRUE /\ scratch = FALSE /\ inFlight = 0 /\ completed = 0 /\ events = 0
        /\ token = {} /\ helper = {} /\ shut = {} /\ imgErr = {} /\ file = {}
    BY DEF Init
  <2>4. inFlight \in Int /\ completed \in Nat /\ events \in Nat
    BY <2>3
  <2>5. /\ token \subseteq Calls /\ helper \subseteq Calls /\ shut \subseteq Calls
        /\ imgErr \subseteq Calls /\ file \subseteq Calls
    BY <2>3
  <2>6. /\ staged \in BOOLEAN /\ scrubs \in BOOLEAN /\ logScrubs \in BOOLEAN
        /\ restarted \in BOOLEAN /\ fresh \in BOOLEAN /\ scratch \in BOOLEAN
    BY <2>3
  <2>7. /\ job \in Jobs /\ watcher \in {"poll", "clock"}
        /\ pod \in {"boot", "stage", "serve", "serving", "closing", "gone"}
    BY <2>3
  <2> QED BY <2>1, <2>2, <2>4, <2>5, <2>6, <2>7, Zenon DEF TypeOK
<1>2. \A c \in Calls :
         /\ pc[c] = "none" /\ child[c] = "none" /\ ended[c] = "run"
         /\ got[c] = <<>> /\ chan[c] = <<>> /\ pend[c] = <<>>
         /\ \A s \in Pipes : wrote[c][s] = <<>> /\ taken[c][s] = 0
  BY DEF Init
<1>3. \A c \in Calls : Stream(c) = <<>>
  <2>1. (<<>> \o <<>>) \o <<>> = <<>>
    BY <1>e, ConcatEmptySeq
  <2> QED BY <1>2, <2>1 DEF Stream
<1>4. Staging
  <2>1. staged = FALSE /\ pod = "boot"
    BY DEF Init
  <2>2. \A c \in Calls : \A s \in Pipes : \A i \in 1..Len(wrote[c][s]) :
          wrote[c][s][i] = "secret" => staged
    BY <1>2, <1>e
  <2> QED BY <1>2, <2>1, <2>2 DEF Staging
<1>5. Clean
  BY <1>3, <1>e DEF Clean, NoSecret
<1>6. Places
  BY <1>2 DEF Init, Places, PlaceOf, Buffering, Streaming
<1>7. Pumps
  BY <1>2 DEF Pumps, Streamed, Streaming
<1>8. Terminals
  <2>1. NoEnd(<<>>) /\ \A c \in Calls : ToldIn(c, <<>>)
    BY <1>e DEF NoEnd, ToldIn
  <2> QED BY <1>3, <2>1 DEF Terminals
<1> QED
  BY <1>1, <1>4, <1>5, <1>6, <1>7, <1>8 DEF Inv

\* Every step keeps the invariant.
LEMMA NextInv ==
    ASSUME Inv, [Next]_vars PROVE Inv'
<1>1. CASE Next
  <2>1. TypeOK /\ Staging /\ Clean /\ Places /\ Pumps /\ Terminals
    BY DEF Inv
  <2>2. TypeOK'
    BY <1>1, <2>1, StepTypes
  <2>3. Staging'
    BY <1>1, <2>1, <2>2, StepStaging
  <2>4. Clean'
    BY <1>1, <2>1, <2>2, StepClean
  <2>5. Places'
    BY <1>1, <2>1, <2>2, StepPlaces
  <2>6. Pumps'
    BY <1>1, <2>1, <2>2, StepPumps
  <2>7. Terminals'
    BY <1>1, <2>1, <2>2, StepTerminals
  <2> QED BY <2>2, <2>3, <2>4, <2>5, <2>6, <2>7 DEF Inv
<1>2. CASE UNCHANGED vars
  <2>1. Tool' = Tool /\ Target' = Target /\ \A c \in Calls : Untouched(c)
    BY <1>2 DEF vars, Tool, Target, Untouched
  <2>2. TypeOK'
    BY <1>2 DEF vars, Inv, TypeOK
  <2>3. Staging'
    BY <1>2, <2>1 DEF vars, Inv, Staging
  <2>4. \A c \in Calls : /\ PlaceOf(c) => PlaceOf(c)'
                         /\ Stream(c)' = Stream(c)
                         /\ \A s \in Pipes : /\ Readable(c, s)' = Readable(c, s)
                                             /\ Spent(c, s)' = Spent(c, s)
                                             /\ Due(c, s)' = Due(c, s)
    BY <2>1, LeftAlone
  <2>5. Clean'
    BY <2>4 DEF Inv, Clean
  <2>6. Places'
    BY <2>4 DEF Inv, Places
  <2>7. Pumps'
    <3> SUFFICES ASSUME NEW c \in Calls PROVE Streamed(c)'
      BY DEF Pumps
    <3>1. Streamed(c) /\ Untouched(c)
      BY <2>1 DEF Inv, Pumps
    <3> QED BY <2>4, <3>1 DEF Streamed, Untouched
  <2>8. Terminals'
    <3> SUFFICES ASSUME NEW c \in Calls
                 PROVE  /\ pc'[c] \notin Ending => NoEnd(Stream(c))'
                        /\ ToldIn(c, Stream(c))'
      BY DEF Terminals
    <3>1. /\ pc[c] \notin Ending => NoEnd(Stream(c))
          /\ ToldIn(c, Stream(c)) /\ Untouched(c)
      BY <2>1 DEF Inv, Terminals
    <3>2. Good(c, Stream(c))' <=> Good(c, Stream(c))
      BY <2>4, <3>1 DEF Good, Untouched
    <3> QED BY <2>4, <3>1, <3>2 DEF ToldIn, Untouched
  <2> QED BY <2>2, <2>3, <2>5, <2>6, <2>7, <2>8 DEF Inv
<1> QED
  BY <1>1, <1>2

\* The invariant holds in every state of every pod.
THEOREM InvHolds == Spec => []Inv
<1>1. Init => Inv
  BY InitInv
<1>2. Inv /\ [Next]_vars => Inv'
  BY NextInv
<1> QED
  BY <1>1, <1>2, PTL DEF Spec

\* Every variable has its type: a call's task is at one of its places, pipes hold lines and
\* the wire holds frames.
THEOREM TypeCorrect == Spec => []TypeOK
<1>1. Inv => TypeOK
  BY DEF Inv
<1> QED
  BY <1>1, InvHolds, PTL

\* No frame the harness reads carries the credential, for every Job the harness builds,
\* whatever env its toolset entry forwards, whenever the credential was staged and however
\* often the container was started again (scrub.rs, job.rs, main.rs).
THEOREM FramesAreScrubbed == Spec => []FramesScrubbed
<1>1. Inv => FramesScrubbed
  <2> SUFFICES ASSUME Inv, NEW c \in Calls, NEW i \in DOMAIN got[c] PROVE got[c][i].k # "secret"
    BY DEF FramesScrubbed
  <2>1. /\ Prefix(got[c], Stream(c)) /\ Len(Stream(c)) \in Nat /\ NoSecret(Stream(c))
    BY Prefixes DEF Inv, Clean
  <2>2. Len(got[c]) \in Nat /\ i \in 1..Len(got[c])
    BY <2>1, LenProperties DEF Prefix
  <2>3. i \in 1..Len(Stream(c)) /\ got[c][i] = Stream(c)[i]
    BY <2>1, <2>2 DEF Prefix
  <2> QED BY <2>1, <2>3 DEF NoSecret
<1> QED
  BY <1>1, InvHolds, PTL

\* The terminal frame is the last one and is true: DONE means the tool ended well by itself
\* and all it and its helpers wrote came before, CANCELED that the harness asked for it
\* (execute.rs, parts.rs, stdlib.rs); for any number of lines, calls and channel slots.
THEOREM TerminalsAreTrue == Spec => []TerminalTellsTruth
<1>1. Inv => TerminalTellsTruth
  <2> SUFFICES ASSUME Inv, NEW c \in Calls, NEW i \in DOMAIN got[c], got[c][i].s = "end"
               PROVE  /\ i = Len(got[c])
                      /\ got[c][i].k = "CANCELED" => c \in token
                      /\ got[c][i].k = "DONE" => /\ child[c] \in {"none", "ok"}
                                                 /\ \A s \in Pipes : WholePipe(c, s)
                                                 /\ ~HasBadImage(got[c])
    BY DEF TerminalTellsTruth
  <2> DEFINE S == Stream(c)
             p == got[c]
  <2>1. /\ Prefix(p, S) /\ S \in Seq(Frame) /\ ToldIn(c, S) /\ p \in Seq(Frame)
    BY Prefixes DEF Inv, Terminals, TypeOK
  <2>2. Len(p) \in Nat /\ DOMAIN p = 1..Len(p)
    BY <2>1, LenProperties
  <2>3. p = S
    <3> HIDE DEF S, p
    <3>1. NoEnd(p) \/ p = S
      BY <2>1, CutTold
    <3> QED BY <2>2, <3>1 DEF NoEnd, p
  <2>4. ToldIn(c, p)
    BY <2>1, <2>3
  <2>5. /\ i = Len(p)
        /\ p[i].k = "CANCELED" => c \in token
        /\ p[i].k = "DONE" => Good(c, p)
    BY <2>2, <2>4 DEF ToldIn
  <2>6. ASSUME Good(c, p), NEW s \in Pipes PROVE WholePipe(c, s)
    <3> DEFINE mine == {j \in DOMAIN got[c] : got[c][j].s = s}
               m == IF Tool = "Shell" THEN Len(Pipe(c, s)) ELSE Readable(c, s)
    <3>1. CASE HasNote(p, s)
      <4>1. \E j \in mine : got[c][j].k = "note"
        BY <2>2, <3>1 DEF HasNote
      <4> QED BY <4>1 DEF WholePipe
    <3>2. CASE Numbered(p, s, m)
      <4>1. \A j \in mine : got[c][j].n \in 1..m
        BY <2>2, <3>2 DEF Numbered
      <4>2. \A n \in 1..m : \E j \in mine : got[c][j].n = n
        BY <2>2, <3>2 DEF Numbered
      <4>3. {got[c][j].n : j \in mine} = 1..m
        BY <4>1, <4>2
      <4>4. \A j, k \in mine : j < k => got[c][j].n < got[c][k].n
        BY <2>2, <3>2 DEF Numbered
      <4> QED BY <4>3, <4>4 DEF WholePipe
    <3> QED BY <2>6, <3>1, <3>2 DEF Good, Due
  <2>7. Good(c, p) => child[c] \in {"none", "ok"} /\ ~HasBadImage(p)
    BY <2>2 DEF Good, NoBad, HasBadImage
  <2> QED BY <2>5, <2>6, <2>7
<1> QED
  BY <1>1, InvHolds, PTL
=============================================================================
