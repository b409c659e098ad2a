----------------------------- MODULE AwaitStream -----------------------------
(***************************************************************************)
(* What DispatchTool / AwaitToolResult promise a client, with no session,  *)
(* fan-out, record or restart in sight: a call makes frames, of which the  *)
(* last is its terminal, and every await stream is given frames of its     *)
(* call in their order, none twice, and ends on a terminal: the call's     *)
(* own, or FAILED (frame 0) in place of one that cannot be had any more.   *)
(* A stream served from the live session skips nothing; one served from    *)
(* the record may miss frames the record does not hold.                    *)
(***************************************************************************)
EXTENDS Naturals, Sequences

CONSTANTS Calls, Awaiters, Kinds, Terminals, None

VARIABLES
    frames,  \* call -> kinds of the frames it made
    asked,   \* await stream -> its call
    served,  \* await stream -> "none", "live" or "record"
    given    \* await stream -> numbers of the frames it was given

vars == <<frames, asked, served, given>>

Complete(s) == Len(s) > 0 /\ s[Len(s)] \in Terminals

Over(a) ==
    /\ Len(given[a]) > 0
    /\ LET i == given[a][Len(given[a])] IN i = 0 \/ frames[asked[a]][i] \in Terminals

Init ==
    /\ frames = [c \in Calls |-> <<>>]
    /\ asked = [a \in Awaiters |-> None]
    /\ served = [a \in Awaiters |-> "none"]
    /\ given = [a \in Awaiters |-> <<>>]

\* A toolset call makes its frames one by one, a runtime call all at once.
Make(c) ==
    /\ ~Complete(frames[c])
    /\ Len(frames'[c]) > Len(frames[c])
    /\ SubSeq(frames'[c], 1, Len(frames[c])) = frames[c]
    /\ \A i \in 1..(Len(frames'[c]) - 1) : frames'[c][i] \in Kinds \ Terminals
    /\ frames'[c][Len(frames'[c])] \in Kinds
    /\ \A d \in Calls \ {c} : frames'[d] = frames[d]
    /\ UNCHANGED <<asked, served, given>>

Ask(a, c) ==
    /\ asked[a] = None
    /\ asked' = [asked EXCEPT ![a] = c]
    /\ UNCHANGED <<frames, served, given>>

Open(a, m) ==
    /\ asked[a] # None
    /\ served[a] = "none"
    /\ served' = [served EXCEPT ![a] = m]
    /\ UNCHANGED <<frames, asked, given>>

Give(a, i) ==
    /\ served[a] # "none"
    /\ ~Over(a)
    /\ i \in 1..Len(frames[asked[a]])
    /\ LET last == IF given[a] = <<>> THEN 0 ELSE given[a][Len(given[a])] IN
       IF served[a] = "live" THEN i = last + 1 ELSE i > last
    /\ given' = [given EXCEPT ![a] = Append(@, i)]
    /\ UNCHANGED <<frames, asked, served>>

Fail(a) ==
    /\ served[a] # "none"
    /\ ~Over(a)
    /\ given' = [given EXCEPT ![a] = Append(@, 0)]
    /\ UNCHANGED <<frames, asked, served>>

Next ==
    \/ \E c \in Calls : Make(c)
    \/ \E a \in Awaiters, c \in Calls : Ask(a, c)
    \/ \E a \in Awaiters, m \in {"live", "record"} : Open(a, m)
    \/ \E a \in Awaiters, c \in Calls : \E i \in 1..Len(frames[c]) : Give(a, i)
    \/ \E a \in Awaiters : Fail(a)

Spec == Init /\ [][Next]_vars

=============================================================================
