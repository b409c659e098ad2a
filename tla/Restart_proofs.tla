--------------------------- MODULE Restart_proofs ----------------------------
(***************************************************************************)
(* What is left when a process stops between two of its steps, and what    *)
(* the next one makes of it: theorems about ConversationRegistry, for      *)
(* every set of ids and requests, and about Sycoadm, for every set of      *)
(* tenants, versions and commands, every number of faults and either kind  *)
(* of cluster.                                                             *)
(***************************************************************************)
EXTENDS ConversationRegistry, Sycoadm, FiniteSetTheorems, TLAPS

----------------------------------------------------------------------------
(* ConversationRegistry: the inductive invariant *)

\* A mint that has not answered is the only request that ever touched its id.
Unanswered == {"idle", "open", "write", "rename", "apply"}

MintAlone ==
    /\ \A q, r \in Requests : kind[q] = "mint" /\ kind[r] = "mint" /\ id[q] = id[r] => q = r
    /\ \A r \in Requests : kind[r] = "mint" /\ pc[r] \in Unanswered =>
          /\ id[r] \notin listed /\ id[r] \notin gone
          /\ id[r] \notin deleting /\ id[r] \notin minted
          /\ \A q \in Requests : id[q] = id[r] /\ q # r => pc[q] = "idle"
          /\ pc[r] = "idle" => final[id[r]] = None /\ tmp[id[r]] = None

\* A file belongs to one conversation: it was created for that one's sidecar, by a
\* request that has opened it, and has one name at most.
Inodes ==
    /\ \A c \in Ids :
          /\ final[c] # None => id[final[c]] = c
          /\ tmp[c] # None => id[tmp[c]] = c /\ tmp[c] # final[c]
    /\ \A r \in Requests :
          /\ fd[r] # None => id[fd[r]] = id[r]
          /\ pc[r] \in {"idle", "owner", "open"} => final[id[r]] # r /\ tmp[id[r]] # r

\* A delete has marked its id before it touches the disk; only a rename reads an owner.
Handlers ==
    \A r \in Requests :
        /\ pc[r] \in {"wipe", "evict"} => kind[r] = "delete" /\ id[r] \in deleting
        /\ pc[r] = "owner" => kind[r] = "rename"

\* Until a delete begins everything that holds an owner, be it the registry, a
\* request about to write it or a file, holds the owner of the mint.
Owners ==
    /\ \A c \in listed : c \notin deleting => ownerOf[c] = c
    /\ \A r \in Requests : id[r] \notin deleting =>
          /\ pc[r] = "owner" => id[r] \in listed
          /\ pc[r] \in {"open", "write", "rename", "apply"} => owner[r] = id[r]
          /\ content[r].whole => content[r].owner = id[r]

\* While no two writers of a sidecar have met, the one that writes has the temporary
\* file to itself, and a file with the final name is whole.
Sidecars ==
    \A c \in Ids : c \notin deleting =>
        /\ \A r \in Requests : id[r] = c /\ pc[r] = "apply" => final[c] # None
        /\ c \in minted => final[c] # None
        /\ c \notin clashed =>
             /\ final[c] # None => content[final[c]].whole
             /\ \A q, r \in Writers(c) : q = r
             /\ \A r \in Writers(c) :
                   /\ tmp[c] = fd[r]
                   /\ content[fd[r]].whole <=> pc[r] = "rename"

Inv ==
    TypeOK /\ MintAlone /\ Inodes /\ Handlers /\ Owners /\ Sidecars /\ DeletedStaysGone

\* The initial state satisfies the invariant.
LEMMA InitInv == Init => Inv
<1> SUFFICES ASSUME Init PROVE Inv
  OBVIOUS
<1>1. TypeOK
  BY RestartsAssumption DEF Init, TypeOK, Torn
<1>2. MintAlone /\ Inodes /\ Handlers /\ DeletedStaysGone
  BY NoneAssumption DEF Init, MintAlone, Unanswered, Inodes, Handlers, DeletedStaysGone
<1>3. Owners /\ Sidecars
  BY DEF Init, Owners, Sidecars, Writers, Torn
<1> QED
  BY <1>1, <1>2, <1>3 DEF Inv

\* mint takes a fresh id and the caller's owner key.
LEMMA MintInv == ASSUME Inv, NEW r \in Requests, Mint(r) PROVE Inv'
<1> USE DEF Inv, Mint, registryVars, diskVars, historyVars
<1>1. TypeOK'
  BY NoneAssumption DEF TypeOK, Whole, Torn
<1>2. MintAlone'
  BY DEF TypeOK, MintAlone, Unanswered, Handlers
<1>3. Inodes'
  BY NoneAssumption DEF TypeOK, Inodes
<1>4. Handlers'
  BY DEF TypeOK, Handlers
<1>5. Owners'
  BY NoneAssumption DEF TypeOK, Owners, MintAlone, Unanswered, Inodes, Handlers, Whole, Torn
<1>6. Sidecars'
  BY NoneAssumption DEF TypeOK, Sidecars, Writers, Inodes, Owners, Handlers, Whole, Torn
<1>7. DeletedStaysGone'
  BY DEF TypeOK, DeletedStaysGone, MintAlone, Unanswered
<1> QED
  BY <1>1, <1>2, <1>3, <1>4, <1>5, <1>6, <1>7

\* A rename or a delete is let in for a listed id; a delete marks it.
LEMMA AdmitInv == ASSUME Inv, NEW r \in Requests, Admit(r) PROVE Inv'
<1> USE DEF Inv, Admit, registryVars, diskVars, historyVars
<1>1. TypeOK'
  BY NoneAssumption DEF TypeOK, Whole, Torn
<1>2. MintAlone'
  BY DEF TypeOK, MintAlone, Unanswered, Handlers
<1>3. Inodes'
  BY NoneAssumption DEF TypeOK, Inodes
<1>4. Handlers'
  BY DEF TypeOK, Handlers
<1>5. Owners'
  BY NoneAssumption DEF TypeOK, Owners, MintAlone, Unanswered, Inodes, Handlers, Whole, Torn
<1>6. Sidecars'
  BY NoneAssumption DEF TypeOK, Sidecars, Writers, Inodes, Owners, Handlers, Whole, Torn
<1>7. DeletedStaysGone'
  BY DEF TypeOK, DeletedStaysGone, MintAlone, Unanswered
<1> QED
  BY <1>1, <1>2, <1>3, <1>4, <1>5, <1>6, <1>7

\* A rename reads the owner it will write back.
LEMMA ReadOwnerInv == ASSUME Inv, NEW r \in Requests, ReadOwner(r) PROVE Inv'
<1> USE DEF Inv, ReadOwner, registryVars, diskVars, historyVars
<1>1. TypeOK'
  BY NoneAssumption DEF TypeOK, Whole, Torn
<1>2. MintAlone'
  BY DEF TypeOK, MintAlone, Unanswered, Handlers
<1>3. Inodes'
  BY NoneAssumption DEF TypeOK, Inodes
<1>4. Handlers'
  BY DEF TypeOK, Handlers
<1>5. Owners'
  BY NoneAssumption DEF TypeOK, Owners, MintAlone, Unanswered, Inodes, Handlers, Whole, Torn
<1>6. Sidecars'
  BY NoneAssumption DEF TypeOK, Sidecars, Writers, Inodes, Owners, Handlers, Whole, Torn
<1>7. DeletedStaysGone'
  BY DEF TypeOK, DeletedStaysGone, MintAlone, Unanswered
<1> QED
  BY <1>1, <1>2, <1>3, <1>4, <1>5, <1>6, <1>7

\* The temporary file is created or emptied; a second writer is noticed here.
LEMMA OpenTmpInv == ASSUME Inv, NEW r \in Requests, OpenTmp(r) PROVE Inv'
<1> USE DEF Inv, OpenTmp, registryVars, diskVars, historyVars
<1>1. TypeOK'
  BY NoneAssumption DEF TypeOK, Whole, Torn
<1>2. MintAlone'
  BY DEF TypeOK, MintAlone, Unanswered, Handlers
<1>3. Inodes'
  BY NoneAssumption DEF TypeOK, Inodes
<1>4. Handlers'
  BY DEF TypeOK, Handlers
<1>5. Owners'
  BY NoneAssumption DEF TypeOK, Owners, MintAlone, Unanswered, Inodes, Handlers, Whole, Torn
<1>6. Sidecars'
  BY NoneAssumption DEF TypeOK, Sidecars, Writers, Inodes, Owners, Handlers, Whole, Torn
<1>7. DeletedStaysGone'
  BY DEF TypeOK, DeletedStaysGone, MintAlone, Unanswered
<1> QED
  BY <1>1, <1>2, <1>3, <1>4, <1>5, <1>6, <1>7

\* The payload goes to the file the request has open.
LEMMA WriteTmpInv == ASSUME Inv, NEW r \in Requests, WriteTmp(r) PROVE Inv'
<1> USE DEF Inv, WriteTmp, registryVars, diskVars, historyVars
<1>1. TypeOK'
  <2>1. fd[r] \in Requests /\ owner[r] \in Ids \cup {None}
    BY DEF TypeOK
  <2>2. PICK b \in {Whole(owner[r])} \cup {t \in {Torn} : content[fd[r]].whole} :
           content' = [content EXCEPT ![fd[r]] = b]
    OBVIOUS
  <2>3. b \in [whole : BOOLEAN, owner : Ids \cup {None}]
    <3>1. b = Whole(owner[r]) \/ b = Torn
      BY <2>2
    <3>2. Whole(owner[r]) \in [whole : BOOLEAN, owner : Ids \cup {None}]
      BY <2>1 DEF Whole
    <3>3. Torn \in [whole : BOOLEAN, owner : Ids \cup {None}]
      BY DEF Torn
    <3> QED
      BY <3>1, <3>2, <3>3
  <2>4. content' \in [Requests -> [whole : BOOLEAN, owner : Ids \cup {None}]]
    BY <2>1, <2>2, <2>3 DEF TypeOK
  <2> QED
    BY <2>4 DEF TypeOK
<1>2. MintAlone'
  BY DEF TypeOK, MintAlone, Unanswered, Handlers
<1>3. Inodes'
  BY NoneAssumption DEF TypeOK, Inodes
<1>4. Handlers'
  BY DEF TypeOK, Handlers
<1>5. Owners'
  BY NoneAssumption DEF TypeOK, Owners, MintAlone, Unanswered, Inodes, Handlers, Whole, Torn
<1>6. Sidecars'
  BY NoneAssumption DEF TypeOK, Sidecars, Writers, Inodes, Owners, Handlers, Whole, Torn
<1>7. DeletedStaysGone'
  BY DEF TypeOK, DeletedStaysGone, MintAlone, Unanswered
<1> QED
  BY <1>1, <1>2, <1>3, <1>4, <1>5, <1>6, <1>7

\* Whatever has the temporary name becomes the sidecar.
LEMMA RenameTmpInv == ASSUME Inv, NEW r \in Requests, RenameTmp(r) PROVE Inv'
<1> USE DEF Inv, RenameTmp, registryVars, diskVars, historyVars
<1>1. TypeOK'
  BY NoneAssumption DEF TypeOK, Whole, Torn
<1>2. MintAlone'
  BY DEF TypeOK, MintAlone, Unanswered, Handlers
<1>3. Inodes'
  BY NoneAssumption DEF TypeOK, Inodes
<1>4. Handlers'
  BY DEF TypeOK, Handlers
<1>5. Owners'
  BY NoneAssumption DEF TypeOK, Owners, MintAlone, Unanswered, Inodes, Handlers, Whole, Torn
<1>6. Sidecars'
  BY NoneAssumption DEF TypeOK, Sidecars, Writers, Inodes, Owners, Handlers, Whole, Torn
<1>7. DeletedStaysGone'
  BY DEF TypeOK, DeletedStaysGone, MintAlone, Unanswered
<1> QED
  BY <1>1, <1>2, <1>3, <1>4, <1>5, <1>6, <1>7

\* The temporary file is gone: the request fails.
LEMMA RenameMissingInv == ASSUME Inv, NEW r \in Requests, RenameMissing(r) PROVE Inv'
<1> USE DEF Inv, RenameMissing, registryVars, diskVars, historyVars
<1>1. TypeOK'
  BY NoneAssumption DEF TypeOK, Whole, Torn
<1>2. MintAlone'
  BY DEF TypeOK, MintAlone, Unanswered, Handlers
<1>3. Inodes'
  BY NoneAssumption DEF TypeOK, Inodes
<1>4. Handlers'
  BY DEF TypeOK, Handlers
<1>5. Owners'
  BY NoneAssumption DEF TypeOK, Owners, MintAlone, Unanswered, Inodes, Handlers, Whole, Torn
<1>6. Sidecars'
  BY NoneAssumption DEF TypeOK, Sidecars, Writers, Inodes, Owners, Handlers, Whole, Torn
<1>7. DeletedStaysGone'
  BY DEF TypeOK, DeletedStaysGone, MintAlone, Unanswered
<1> QED
  BY <1>1, <1>2, <1>3, <1>4, <1>5, <1>6, <1>7

\* The request fails before its rename.
LEMMA WriteMetaFailsInv == ASSUME Inv, NEW r \in Requests, WriteMetaFails(r) PROVE Inv'
<1> USE DEF Inv, WriteMetaFails, registryVars, diskVars, historyVars
<1>1. TypeOK'
  BY NoneAssumption DEF TypeOK, Whole, Torn
<1>2. MintAlone'
  BY DEF TypeOK, MintAlone, Unanswered, Handlers
<1>3. Inodes'
  BY NoneAssumption DEF TypeOK, Inodes
<1>4. Handlers'
  BY DEF TypeOK, Handlers
<1>5. Owners'
  BY NoneAssumption DEF TypeOK, Owners, MintAlone, Unanswered, Inodes, Handlers, Whole, Torn
<1>6. Sidecars'
  BY NoneAssumption DEF TypeOK, Sidecars, Writers, Inodes, Owners, Handlers, Whole, Torn
<1>7. DeletedStaysGone'
  BY DEF TypeOK, DeletedStaysGone, MintAlone, Unanswered
<1> QED
  BY <1>1, <1>2, <1>3, <1>4, <1>5, <1>6, <1>7

\* mint lists the conversation.
LEMMA RegisterInv == ASSUME Inv, NEW r \in Requests, Register(r) PROVE Inv'
<1> USE DEF Inv, Register, registryVars, diskVars, historyVars
<1>1. TypeOK'
  BY NoneAssumption DEF TypeOK, Whole, Torn
<1>2. MintAlone'
  BY DEF TypeOK, MintAlone, Unanswered, Handlers
<1>3. Inodes'
  BY NoneAssumption DEF TypeOK, Inodes
<1>4. Handlers'
  BY DEF TypeOK, Handlers
<1>5. Owners'
  BY NoneAssumption DEF TypeOK, Owners, MintAlone, Unanswered, Inodes, Handlers, Whole, Torn
<1>6. Sidecars'
  BY NoneAssumption DEF TypeOK, Sidecars, Writers, Inodes, Owners, Handlers, Whole, Torn
<1>7. DeletedStaysGone'
  BY DEF TypeOK, DeletedStaysGone, MintAlone, Unanswered
<1> QED
  BY <1>1, <1>2, <1>3, <1>4, <1>5, <1>6, <1>7

\* A rename answers.
LEMMA ApplyNameInv == ASSUME Inv, NEW r \in Requests, ApplyName(r) PROVE Inv'
<1> USE DEF Inv, ApplyName, registryVars, diskVars, historyVars
<1>1. TypeOK'
  BY NoneAssumption DEF TypeOK, Whole, Torn
<1>2. MintAlone'
  BY DEF TypeOK, MintAlone, Unanswered, Handlers
<1>3. Inodes'
  BY NoneAssumption DEF TypeOK, Inodes
<1>4. Handlers'
  BY DEF TypeOK, Handlers
<1>5. Owners'
  BY NoneAssumption DEF TypeOK, Owners, MintAlone, Unanswered, Inodes, Handlers, Whole, Torn
<1>6. Sidecars'
  BY NoneAssumption DEF TypeOK, Sidecars, Writers, Inodes, Owners, Handlers, Whole, Torn
<1>7. DeletedStaysGone'
  BY DEF TypeOK, DeletedStaysGone, MintAlone, Unanswered
<1> QED
  BY <1>1, <1>2, <1>3, <1>4, <1>5, <1>6, <1>7

\* The directory is removed.
LEMMA WipeInv == ASSUME Inv, NEW r \in Requests, Wipe(r) PROVE Inv'
<1> USE DEF Inv, Wipe, registryVars, diskVars, historyVars
<1>1. TypeOK'
  BY NoneAssumption DEF TypeOK, Whole, Torn
<1>2. MintAlone'
  BY DEF TypeOK, MintAlone, Unanswered, Handlers
<1>3. Inodes'
  BY NoneAssumption DEF TypeOK, Inodes
<1>4. Handlers'
  BY DEF TypeOK, Handlers
<1>5. Owners'
  BY NoneAssumption DEF TypeOK, Owners, MintAlone, Unanswered, Inodes, Handlers, Whole, Torn
<1>6. Sidecars'
  BY NoneAssumption DEF TypeOK, Sidecars, Writers, Inodes, Owners, Handlers, Whole, Torn
<1>7. DeletedStaysGone'
  BY DEF TypeOK, DeletedStaysGone, MintAlone, Unanswered
<1> QED
  BY <1>1, <1>2, <1>3, <1>4, <1>5, <1>6, <1>7

\* The directory is removed in part.
LEMMA WipeFailsInv == ASSUME Inv, NEW r \in Requests, WipeFails(r) PROVE Inv'
<1> USE DEF Inv, WipeFails, registryVars, diskVars, historyVars
<1>1. TypeOK'
  BY NoneAssumption DEF TypeOK, Whole, Torn
<1>2. MintAlone'
  BY DEF TypeOK, MintAlone, Unanswered, Handlers
<1>3. Inodes'
  BY NoneAssumption DEF TypeOK, Inodes
<1>4. Handlers'
  BY DEF TypeOK, Handlers
<1>5. Owners'
  BY NoneAssumption DEF TypeOK, Owners, MintAlone, Unanswered, Inodes, Handlers, Whole, Torn
<1>6. Sidecars'
  BY NoneAssumption DEF TypeOK, Sidecars, Writers, Inodes, Owners, Handlers, Whole, Torn
<1>7. DeletedStaysGone'
  BY DEF TypeOK, DeletedStaysGone, MintAlone, Unanswered
<1> QED
  BY <1>1, <1>2, <1>3, <1>4, <1>5, <1>6, <1>7

\* The conversation is no longer listed.
LEMMA EvictInv == ASSUME Inv, NEW r \in Requests, Evict(r) PROVE Inv'
<1> USE DEF Inv, Evict, registryVars, diskVars, historyVars
<1>1. TypeOK'
  BY NoneAssumption DEF TypeOK, Whole, Torn
<1>2. MintAlone'
  BY DEF TypeOK, MintAlone, Unanswered, Handlers
<1>3. Inodes'
  BY NoneAssumption DEF TypeOK, Inodes
<1>4. Handlers'
  BY DEF TypeOK, Handlers
<1>5. Owners'
  BY NoneAssumption DEF TypeOK, Owners, MintAlone, Unanswered, Inodes, Handlers, Whole, Torn
<1>6. Sidecars'
  BY NoneAssumption DEF TypeOK, Sidecars, Writers, Inodes, Owners, Handlers, Whole, Torn
<1>7. DeletedStaysGone'
  BY DEF TypeOK, DeletedStaysGone, MintAlone, Unanswered
<1> QED
  BY <1>1, <1>2, <1>3, <1>4, <1>5, <1>6, <1>7

\* The pod reboots: requests are over, and the registry is what the sidecars say.
LEMMA RebootInv == ASSUME Inv, Reboot PROVE Inv'
<1> USE DEF Inv, Reboot, diskVars
<1>1. PICK seeded \in SUBSET {c \in Ids : Readable(c)} :
         /\ listed' = seeded
         /\ ownerOf' = [c \in Ids |-> IF c \in seeded THEN content[final[c]].owner ELSE None]
  OBVIOUS
<1>2. TypeOK'
  <2>1. \A c \in seeded : content[final[c]].owner \in Ids \cup {None}
    BY <1>1 DEF TypeOK, Readable
  <2> QED
    BY <1>1, <2>1 DEF TypeOK
<1>3. MintAlone'
  BY <1>1 DEF TypeOK, MintAlone, Unanswered, Readable
<1>4. Inodes' /\ Handlers'
  BY DEF TypeOK, Inodes, Handlers
<1>5. Owners'
  BY <1>1, NoneAssumption DEF TypeOK, Owners, Inodes, Readable
<1>6. Sidecars'
  BY DEF TypeOK, Sidecars, Writers
<1>7. DeletedStaysGone'
  BY DEF DeletedStaysGone
<1> QED
  BY <1>2, <1>3, <1>4, <1>5, <1>6, <1>7

\* The invariant is inductive.
LEMMA StepInv == Inv /\ [Next]_vars => Inv'
<1> SUFFICES ASSUME Inv, [Next]_vars PROVE Inv'
  OBVIOUS
<1>1. ASSUME NEW r \in Requests, Serve(r) PROVE Inv'
  BY <1>1, MintInv, AdmitInv, ReadOwnerInv, OpenTmpInv, WriteTmpInv, RenameTmpInv,
     RenameMissingInv, WriteMetaFailsInv, RegisterInv, ApplyNameInv, WipeInv, WipeFailsInv,
     EvictInv DEF Serve
<1>2. CASE UNCHANGED vars
  BY <1>2 DEF Inv, vars, TypeOK, MintAlone, Inodes, Handlers, Owners, Sidecars, Writers,
     DeletedStaysGone
<1> QED
  BY <1>1, <1>2, RebootInv DEF Next, Settled

----------------------------------------------------------------------------
(* The theorems *)

\* Registry, disk and requests keep their types, and a request that writes has a
\* file open.
THEOREM TypeCorrect == Spec => []TypeOK
<1>1. Inv => TypeOK
  BY DEF Inv
<1> QED
  BY <1>1, InitInv, StepInv, PTL DEF Spec

\* A rename never orphans a conversation: whatever renames, failures and reboots
\* happen, a listed conversation nobody began to delete has its minter as owner.
THEOREM OwnershipSurvives == Spec => []OwnerKept
<1>1. Inv => OwnerKept
  BY DEF Inv, Owners, OwnerKept
<1> QED
  BY <1>1, InitInv, StepInv, PTL DEF Spec

\* No request that is still running lists a conversation again whose delete was
\* answered since the last boot.
THEOREM DeleteIsFinal == Spec => []DeletedStaysGone
<1>1. Inv => DeletedStaysGone
  BY DEF Inv
<1> QED
  BY <1>1, InitInv, StepInv, PTL DEF Spec

\* An answered mint is on disk, whole and with its owner, at every moment until a
\* delete begins or two writers of the sidecar meet.
THEOREM MintIsDurable == Spec => []MintedSurvivesReboot
<1>1. Inv => MintedSurvivesReboot
  BY DEF Inv, TypeOK, Inodes, Owners, Sidecars, MintedSurvivesReboot, Readable
<1> QED
  BY <1>1, InitInv, StepInv, PTL DEF Spec

----------------------------------------------------------------------------
(***************************************************************************)
(* Sycoadm: the inductive invariant.  While no probe has misread what is   *)
(* there, host and cluster hold one trust, the binding is of Dex's user,   *)
(* and gVisor is on the node before Cilium, at every point where a command *)
(* may be cut short.                                                       *)
(***************************************************************************)

\* A version is a number, and 0 stands for none.
SycoadmConstants == Versions \subseteq Nat \ {0} /\ SelfService \in BOOLEAN /\ Older \in BOOLEAN

Pcs == {"idle", "cluster", "trust", "create", "tls", "gvisor", "runsc", "hup", "class", "cilium", "coredns",
        "crds", "kyverno", "operator", "dex", "email", "login", "grant", "layer", "store", "bucket", "upgrade",
        "write", "wait", "granttenant", "suspend"}
Cmds == {"none", "setup", "upgrade", "up", "down", "remove"}

HostType == [auth : Nat, ca : Nat, email : BOOLEAN]
DexType == [st : {"none", "recorded", "serving"}, cert : Nat, user : Nat]
KubeType == [boot : Nat, has : SUBSET Parts, tls : Nat, dex : DexType, layer : [v : Nat, ca : Nat], writer : Nat]

ProcType == [pc : Pcs, cmd : Cmds, v : Nat, dex : BOOLEAN, login : BOOLEAN, key : Nat, id : Nat,
             plan : SUBSET Tenants, t : Tenants \cup {Nobody}, keep : BOOLEAN]

\* The steps of setup up to the operator's, and all that only setup takes.
Before == {"cluster", "trust", "create", "tls", "gvisor", "runsc", "hup", "class", "cilium", "coredns", "crds",
           "kyverno", "operator"}
OfSetup == Before \cup {"dex", "email", "grant", "layer", "store", "bucket"}

\* A command knows its version where it installs one, and only a tenant's command
\* takes a tenant's steps.
ProcFine(p) ==
    /\ p \in ProcType
    /\ p.pc = "idle" <=> p.cmd = "none"
    /\ p.cmd = "setup" \/ p.pc = "upgrade" => p.v # 0
    /\ p.pc \in OfSetup => p.cmd = "setup"
    /\ p.pc \in {"write", "wait"} => p.cmd \in {"up", "upgrade"}
    /\ p.pc = "granttenant" => p.cmd \in {"down", "remove", "up", "upgrade"}

SetupType ==
    /\ host \in HostType
    /\ kube \in KubeType
    /\ ProcFine(proc)
    /\ churned \in BOOLEAN /\ ready \in BOOLEAN
    /\ trusts \in Nat /\ users \in Nat /\ misreads \in Nat

\* Where setup makes a new cluster.
Making == {"trust", "create", "tls"}
\* The trust on the host is the one the apiserver was booted with.
OneTrust ==
    /\ kube.boot # 0 => host.auth = kube.boot /\ host.ca = kube.boot
    /\ proc.pc \in {"trust", "create"} => kube.boot = 0
    /\ proc.pc = "create" => host.auth = host.ca /\ host.auth # 0
    /\ kube.dex.st # "none" => kube.dex.cert # 0 /\ kube.dex.user # 0

\* The binding is of a user who can log in.
Bound ==
    /\ kube.writer # 0 => LoginWorks /\ kube.writer = kube.dex.user
    /\ proc.pc \in Making => kube.writer = 0
    /\ proc.pc \in Before \cup {"dex"} /\ proc.dex => kube.writer = 0
    /\ proc.pc \in Before /\ ~proc.login => kube.writer # 0
    /\ proc.pc = "dex" => proc.dex /\ kube.tls # 0
    /\ proc.pc = "grant" => LoginWorks /\ proc.id = kube.dex.user
    /\ proc.pc \in {"layer", "store", "bucket"} => kube.writer # 0
    /\ ready => kube.writer # 0

\* gVisor is on the node before Cilium is.
Runtimes ==
    /\ "cilium" \in kube.has => {"runsc", "runtimeclass"} \subseteq kube.has
    /\ proc.pc \in {"runsc", "hup", "class"} => "cilium" \notin kube.has
    /\ proc.pc \in {"hup", "class"} => "runsc" \in kube.has
    /\ proc.pc = "cilium" => {"runsc", "runtimeclass"} \subseteq kube.has
    /\ ~churned

SetupInv == SetupType /\ (misreads = 0 => OneTrust /\ Bound /\ Runtimes)

----------------------------------------------------------------------------
(* Probes *)

LEMMA ProbeFacts ==
    ASSUME NEW truth, NEW seen, misreads \in Nat, IsFiniteSet(DOMAIN truth), Probe(truth, seen)
    PROVE  /\ misreads' \in Nat /\ (misreads' = 0 => misreads = 0)
           /\ misreads' = 0 => \A x \in DOMAIN truth : truth[x] => seen[x]
<1> DEFINE wrong == {x \in DOMAIN truth : truth[x] /\ ~seen[x]}
<1>1. IsFiniteSet(wrong)
  BY FS_Subset, Zenon
<1>2. Cardinality(wrong) \in Nat /\ (Cardinality(wrong) = 0 <=> wrong = {})
  BY <1>1, FS_CardinalityType, FS_EmptySet, Zenon
<1>3. misreads' = misreads + Cardinality(wrong)
  BY Zenon DEF Probe
<1> HIDE DEF wrong
<1>4. misreads' \in Nat /\ (misreads' = 0 => misreads = 0 /\ Cardinality(wrong) = 0)
  BY <1>2, <1>3
<1> QED
  BY <1>2, <1>4, Zenon DEF wrong

LEMMA ProbeOne ==
    ASSUME NEW a, NEW b, misreads \in Nat, Probe([there |-> a], [there |-> b])
    PROVE  /\ misreads' \in Nat /\ (misreads' = 0 => misreads = 0)
           /\ (b => a)
           /\ misreads' = 0 => (a => b)
<1> DEFINE truth == [there |-> a]
           seen == [there |-> b]
<1>1. DOMAIN truth = {"there"} /\ (truth["there"] = a) /\ (seen["there"] = b)
  OBVIOUS
<1>2. IsFiniteSet(DOMAIN truth)
  BY <1>1, FS_Singleton, Zenon
<1>3. /\ misreads' \in Nat /\ (misreads' = 0 => misreads = 0)
      /\ misreads' = 0 => \A x \in DOMAIN truth : truth[x] => seen[x]
  BY <1>2, ProbeFacts, Zenon
<1>4. \A x \in DOMAIN truth : seen[x] => truth[x]
  BY Zenon DEF Probe
<1> HIDE DEF truth, seen
<1> QED
  BY <1>1, <1>3, <1>4, Zenon

LEMMA ProbeTwo ==
    ASSUME NEW truth, NEW seen, NEW k, NEW l, misreads \in Nat, DOMAIN truth = {k, l}, Probe(truth, seen)
    PROVE  /\ misreads' \in Nat /\ (misreads' = 0 => misreads = 0)
           /\ (seen[k] => truth[k]) /\ (seen[l] => truth[l])
           /\ misreads' = 0 => (truth[k] => seen[k]) /\ (truth[l] => seen[l])
<1>1. IsFiniteSet({k} \cup {l}) /\ {k} \cup {l} = {k, l}
  BY FS_Singleton, FS_AddElement, Zenon
<1>2. /\ misreads' \in Nat /\ (misreads' = 0 => misreads = 0)
      /\ misreads' = 0 => \A x \in DOMAIN truth : truth[x] => seen[x]
  BY <1>1, ProbeFacts, Zenon
<1>3. \A x \in DOMAIN truth : seen[x] => truth[x]
  BY Zenon DEF Probe
<1> QED
  BY <1>2, <1>3, Zenon

----------------------------------------------------------------------------
(* The steps *)

LEMMA IdleType == ProcFine(Idle) /\ Idle.pc = "idle" /\ Idle.cmd = "none" /\ Idle.dex = FALSE
BY DEF Idle, ProcFine, ProcType, OfSetup, Before, Pcs, Cmds

LEMMA InitSetup == ASSUME SycoadmConstants, SycoadmInit PROVE SetupInv
<1>1. proc = Idle
  BY DEF SycoadmInit
<1>2. SetupType
  <2>1. host \in HostType /\ trusts \in Nat /\ users \in Nat /\ misreads \in Nat /\ churned \in BOOLEAN
        /\ ready \in BOOLEAN
    BY DEF SycoadmConstants, SycoadmInit, HostType
  <2>2. kube \in KubeType
    <3>1. [st |-> "serving", cert |-> 1, user |-> 1] \in DexType /\ [st |-> "none", cert |-> 0, user |-> 0] \in DexType
      BY DEF DexType
    <3>2. [v |-> 1, ca |-> 1] \in [v : Nat, ca : Nat] /\ [v |-> 0, ca |-> 0] \in [v : Nat, ca : Nat]
      OBVIOUS
    <3>3. NoCluster \in KubeType
      BY <3>1, <3>2 DEF KubeType, NoCluster
    <3>4. CASE ~Older
      BY <3>3, <3>4 DEF SycoadmInit
    <3>5. CASE Older
      <4> DEFINE d == [st |-> "serving", cert |-> 1, user |-> 1]
                 l == [v |-> 1, ca |-> 1]
      <4>1. kube = [boot |-> 1, has |-> Parts, tls |-> 1, dex |-> d, layer |-> l, writer |-> 1]
        BY <3>5 DEF SycoadmInit
      <4> HIDE DEF d, l
      <4>2. d \in DexType /\ l \in [v : Nat, ca : Nat]
        BY <3>1, <3>2 DEF d, l
      <4> QED
        BY <4>1, <4>2 DEF KubeType
    <3> QED
      BY <3>4, <3>5
  <2> QED
    BY <1>1, <2>1, <2>2, IdleType DEF SetupType
<1>3. OneTrust
  BY <1>1, IdleType DEF SycoadmInit, OneTrust, NoCluster
<1>4. Bound
  BY <1>1, IdleType DEF SycoadmInit, Bound, LoginWorks, NoCluster, Making, Before
<1>5. Runtimes
  BY <1>1, IdleType DEF SycoadmInit, Runtimes, NoCluster, Parts
<1> QED
  BY <1>2, <1>3, <1>4, <1>5 DEF SetupInv

\* Where the invariant says nothing of the command.
Elsewhere == {"idle", "email", "login", "upgrade", "write", "wait", "granttenant", "suspend"}

\* A step that leaves host and cluster as they are and goes elsewhere.
LEMMA MovesAway ==
    ASSUME SetupInv, UNCHANGED <<host, kube, churned, ready, trusts, users>>,
           misreads' \in Nat, misreads' = 0 => misreads = 0, ProcFine(proc'), proc'.pc \in Elsewhere
    PROVE  SetupInv'
<1>1. SetupType'
  BY Zenon DEF SetupInv, SetupType
<1>2. ASSUME misreads' = 0 PROVE OneTrust' /\ Bound' /\ Runtimes'
  <2>1. OneTrust /\ Bound /\ Runtimes
    BY <1>2 DEF SetupInv
  <2>2. OneTrust'
    BY <2>1 DEF OneTrust, Elsewhere
  <2>3. Bound'
    BY <2>1 DEF Bound, Elsewhere, LoginWorks, Making, Before
  <2>4. Runtimes'
    BY <2>1 DEF Runtimes, Elsewhere
  <2> QED
    BY <2>2, <2>3, <2>4
<1> QED
  BY <1>1, <1>2 DEF SetupInv

\* A step of others.
LEMMA OthersStep ==
    ASSUME SetupInv, UNCHANGED <<host, kube, proc, churned, ready, trusts, users, misreads>> PROVE SetupInv'
BY DEF SetupInv, SetupType, OneTrust, Bound, Runtimes, LoginWorks

LEMMA Exits ==
    ASSUME SetupInv, UNCHANGED <<host, kube, churned, ready, trusts, users>>,
           misreads' \in Nat, misreads' = 0 => misreads = 0, Exit
    PROVE  SetupInv'
<1>1. proc' = Idle
  BY DEF Exit
<1>2. Idle.pc \in Elsewhere /\ Idle.cmd # "setup"
  BY IdleType DEF Elsewhere
<1> QED
  BY <1>1, <1>2, IdleType, MovesAway, Zenon

LEMMA FailsSetup == ASSUME SetupInv, Fails PROVE SetupInv'
<1>1. UNCHANGED <<host, kube, churned, ready, trusts, users>> /\ misreads' = misreads /\ Exit
  BY DEF Fails, world, history
<1> QED
  BY <1>1, Exits, Zenon DEF SetupInv, SetupType

LEMMA UpgradeLayerSetup == ASSUME SetupInv, UpgradeLayer PROVE SetupInv'
<1>1. /\ kube' = [kube EXCEPT !.layer.v = proc.v] /\ proc.pc = "upgrade"
      /\ UNCHANGED <<host, churned, ready, trusts, users, misreads>>
      /\ (proc' = Idle \/ proc' = [proc EXCEPT !.pc = "login"])
  BY DEF UpgradeLayer, history, counts, Exit, Goto, At
<1>2. SetupType /\ proc \in ProcType /\ kube \in KubeType /\ proc.v \in Nat /\ proc.v # 0
  BY <1>1 DEF SetupInv, SetupType, ProcFine, ProcType
<1>3. /\ kube' \in KubeType /\ kube'.boot = kube.boot /\ kube'.has = kube.has /\ kube'.tls = kube.tls
      /\ kube'.dex = kube.dex /\ kube'.writer = kube.writer /\ kube'.layer.v # 0 /\ kube'.layer.ca = kube.layer.ca
  BY <1>1, <1>2 DEF KubeType
<1>4. ProcFine(proc') /\ proc'.pc \in {"idle", "login"}
  BY <1>1, <1>2, IdleType DEF ProcFine, ProcType, OfSetup, Before, Pcs, SetupType
<1>5. SetupType'
  BY <1>1, <1>2, <1>3, <1>4 DEF SetupType
<1>6. ASSUME misreads' = 0 PROVE OneTrust' /\ Bound' /\ Runtimes'
  <2>1. OneTrust /\ Bound /\ Runtimes
    BY <1>1, <1>6 DEF SetupInv
  <2>2. OneTrust'
    BY <1>1, <1>3, <1>4, <2>1 DEF OneTrust
  <2>3. Bound'
    BY <1>1, <1>3, <1>4, <2>1 DEF Bound, LoginWorks, Making, Before
  <2>4. Runtimes'
    BY <1>1, <1>3, <1>4, <2>1 DEF Runtimes
  <2> QED
    BY <2>2, <2>3, <2>4
<1> QED
  BY <1>5, <1>6 DEF SetupInv

LEMMA TenantStepSetup == ASSUME SetupInv, TenantStep PROVE SetupInv'
<1>0. ProcFine(proc) /\ misreads \in Nat
  BY DEF SetupInv, SetupType
<1>1. CASE UpgradeLayer
  BY <1>1, UpgradeLayerSetup
<1>2. CASE WaitJob \/ GrantTenant \/ Suspend \/ \E t \in Tenants : WriteProvision(t)
  <2>1. UNCHANGED <<host, kube, churned, ready, trusts, users>> /\ misreads' = misreads
    BY <1>2 DEF WaitJob, GrantTenant, Suspend, WriteProvision, history, counts, world
  <2>2. ProcFine(Idle) /\ Idle.pc \in Elsewhere
    BY IdleType DEF Elsewhere
  <2>3. ProcFine(proc') /\ proc'.pc \in Elsewhere
    <3>1. CASE WaitJob
      <4>1. proc.pc = "wait" /\ (proc' = Idle \/ proc' = [proc EXCEPT !.pc = "granttenant"])
        BY <3>1 DEF WaitJob, Exit, Goto, At
      <4> QED
        BY <1>0, <2>2, <4>1 DEF ProcFine, ProcType, OfSetup, Before, Pcs, Elsewhere
    <3>2. CASE GrantTenant
      <4>1. proc.pc = "granttenant"
        BY <3>2 DEF GrantTenant, At
      <4>2. proc.cmd \in {"down", "remove"} \/ proc.cmd \in {"up", "upgrade"}
        BY <1>0, <4>1 DEF ProcFine
      <4>3. \/ proc' = Idle \/ proc' = [proc EXCEPT !.pc = "suspend"]
            \/ proc.cmd \in {"up", "upgrade"} /\ proc' = [proc EXCEPT !.pc = "write"]
        BY <3>2, <4>2 DEF GrantTenant, Exit, Goto
      <4> QED
        BY <1>0, <2>2, <4>1, <4>3 DEF ProcFine, ProcType, OfSetup, Before, Pcs, Elsewhere
    <3>3. CASE Suspend
      BY <2>2, <3>3 DEF Suspend, Exit
    <3>4. ASSUME NEW t \in Tenants, WriteProvision(t) PROVE ProcFine(proc') /\ proc'.pc \in Elsewhere
      <4>1. proc.pc = "write"
            /\ (proc' = Idle \/ proc' = [proc EXCEPT !.pc = "wait", !.plan = proc.plan \ {t}, !.t = t])
        BY <3>4 DEF WriteProvision, Exit, At
      <4>2. CASE proc' = [proc EXCEPT !.pc = "wait", !.plan = proc.plan \ {t}, !.t = t]
        BY <1>0, <4>1, <4>2 DEF ProcFine, ProcType, OfSetup, Before, Pcs, Elsewhere
      <4> QED
        BY <2>2, <4>1, <4>2
    <3> QED
      BY <1>2, <3>1, <3>2, <3>3, <3>4
  <2> QED
    BY <1>0, <2>1, <2>3, MovesAway, Zenon
<1>3. CASE \E t \in Tenants : JobSucceeds(t)
  <2>1. UNCHANGED <<host, kube, proc, churned, ready, trusts, users, misreads>>
    BY <1>3 DEF JobSucceeds, counts
  <2> QED
    BY <2>1, OthersStep, Zenon
<1> QED
  BY <1>1, <1>2, <1>3, Zenon DEF TenantStep

\* The steps that only install a part.
LEMMA InstallsSetup ==
    ASSUME SetupInv,
           \/ CopyRunsc \/ InstallGvisorChart \/ InstallCilium \/ InstallKyvernoCrds \/ InstallKyverno
           \/ InstallObjectstore
    PROVE  SetupInv'
<1> DEFINE Part == {"runsc", "runtimeclass", "cilium", "crds", "kyverno", "objectstore"}
<1>0. SetupType /\ proc \in ProcType /\ kube \in KubeType
  BY DEF SetupInv, SetupType, ProcFine
<1>1. PICK part \in Part, to \in Pcs :
        /\ kube' = [kube EXCEPT !.has = kube.has \cup {part}] /\ proc' = [proc EXCEPT !.pc = to]
        /\ UNCHANGED <<host, churned, ready, trusts, users, misreads>>
        /\ \/ proc.pc = "runsc" /\ part = "runsc" /\ to = "hup"
           \/ proc.pc = "class" /\ part = "runtimeclass" /\ to = "cilium"
           \/ proc.pc = "cilium" /\ part = "cilium" /\ to = "coredns"
           \/ proc.pc = "crds" /\ part = "crds" /\ to = "kyverno"
           \/ proc.pc = "kyverno" /\ part = "kyverno" /\ to = "operator"
           \/ proc.pc = "store" /\ part = "objectstore" /\ to = "bucket"
  BY DEF CopyRunsc, InstallGvisorChart, InstallCilium, InstallKyvernoCrds, InstallKyverno, InstallObjectstore,
         Installs, Goto, At, history, counts, Pcs
<1>2. /\ kube' \in KubeType /\ kube'.boot = kube.boot /\ kube'.tls = kube.tls /\ kube'.dex = kube.dex
      /\ kube'.writer = kube.writer /\ kube'.layer = kube.layer /\ kube'.has = kube.has \cup {part}
  BY <1>0, <1>1 DEF KubeType, Parts
<1>3. ProcFine(proc') /\ proc'.pc = to /\ proc'.dex = proc.dex /\ proc'.login = proc.login
  BY <1>0, <1>1 DEF ProcType, ProcFine, OfSetup, Before, SetupType
<1>4. SetupType'
  BY <1>0, <1>1, <1>2, <1>3 DEF SetupType
<1>5. ASSUME misreads' = 0 PROVE OneTrust' /\ Bound' /\ Runtimes'
  <2>1. OneTrust /\ Bound /\ Runtimes
    BY <1>1, <1>5 DEF SetupInv
  <2>2. OneTrust'
    BY <1>1, <1>2, <1>3, <2>1 DEF OneTrust
  <2>3. Bound'
    BY <1>1, <1>2, <1>3, <2>1 DEF Bound, LoginWorks, Making, Before
  <2>4. Runtimes'
    BY <1>1, <1>2, <1>3, <2>1 DEF Runtimes
  <2> QED
    BY <2>2, <2>3, <2>4
<1> QED
  BY <1>4, <1>5 DEF SetupInv

\* A step that changes the command only.
LEMMA Proceeds ==
    ASSUME SetupInv, UNCHANGED <<host, kube, ready, trusts, users>>, misreads' \in Nat,
           misreads' = 0 => misreads = 0, churned' \in BOOLEAN, ProcFine(proc'),
           misreads' = 0 => OneTrust' /\ Bound' /\ Runtimes'
    PROVE  SetupInv'
BY Zenon DEF SetupInv, SetupType

LEMMA StartSetupSetup == ASSUME SycoadmConstants, SetupInv, NEW v \in Versions, StartSetup(v) PROVE SetupInv'
<1>1. PICK dex \in BOOLEAN, writer \in BOOLEAN :
        /\ Probe([dex |-> kube.dex.st # "none", writer |-> kube.writer # 0], [dex |-> dex, writer |-> writer])
        /\ proc' = [Idle EXCEPT !.pc = "cluster", !.cmd = "setup", !.v = v, !.dex = ~dex,
                                !.login = ~dex \/ ~writer \/ SelfService]
  BY DEF StartSetup
<1>2. UNCHANGED <<host, kube, ready, trusts, users, churned>> /\ SetupType
  BY DEF StartSetup, world, history, SetupInv
<1>3. /\ misreads' \in Nat /\ (misreads' = 0 => misreads = 0)
      /\ (dex => kube.dex.st # "none") /\ (writer => kube.writer # 0)
      /\ misreads' = 0 => (kube.dex.st # "none" => dex) /\ (kube.writer # 0 => writer)
  <2> DEFINE truth == [dex |-> kube.dex.st # "none", writer |-> kube.writer # 0]
             seen == [dex |-> dex, writer |-> writer]
  <2>1. DOMAIN truth = {"dex", "writer"} /\ misreads \in Nat
    BY <1>2 DEF SetupType
  <2>2. /\ truth["dex"] = (kube.dex.st # "none") /\ truth["writer"] = (kube.writer # 0)
        /\ seen["dex"] = dex /\ seen["writer"] = writer
    OBVIOUS
  <2>3. Probe(truth, seen)
    BY <1>1
  <2> HIDE DEF truth, seen
  <2> QED
    BY <2>1, <2>2, <2>3, ProbeTwo, Zenon
<1>4. v \in Nat /\ v # 0 /\ (~dex \/ ~writer \/ SelfService) \in BOOLEAN
  BY DEF SycoadmConstants
<1>5. /\ ProcFine(proc') /\ proc'.pc = "cluster" /\ proc'.dex = ~dex
      /\ (~proc'.login => dex /\ writer)
  BY <1>1, <1>4, IdleType DEF ProcFine, ProcType, OfSetup, Before, Pcs, Cmds
<1>6. ASSUME misreads' = 0 PROVE OneTrust' /\ Bound' /\ Runtimes'
  <2>1. OneTrust /\ Bound /\ Runtimes
    BY <1>3, <1>6 DEF SetupInv
  <2>2. OneTrust'
    BY <1>2, <1>5, <2>1 DEF OneTrust
  <2>3. Bound'
    BY <1>2, <1>3, <1>5, <1>6, <2>1 DEF Bound, LoginWorks, Making, Before
  <2>4. Runtimes'
    BY <1>2, <1>5, <2>1 DEF Runtimes
  <2> QED
    BY <2>2, <2>3, <2>4
<1>7. churned' \in BOOLEAN
  BY <1>2 DEF SetupType
<1> QED
  BY <1>2, <1>3, <1>5, <1>6, <1>7, Proceeds, Zenon

\* setup goes on to its next step.
LEMMA GoesOn ==
    ASSUME ProcFine(proc), proc.pc \in OfSetup, NEW to \in OfSetup \cup {"login"}, Goto(to)
    PROVE  /\ ProcFine(proc') /\ proc'.pc = to /\ proc'.dex = proc.dex /\ proc'.login = proc.login
           /\ proc'.id = proc.id /\ proc'.key = proc.key
<1>1. /\ proc' = [proc EXCEPT !.pc = to] /\ proc \in ProcType /\ proc.cmd = "setup" /\ proc.v # 0
      /\ to \in Pcs \ {"idle", "upgrade", "write", "wait", "granttenant"}
  BY DEF Goto, ProcFine, OfSetup, Before, Pcs
<1>2. /\ proc' \in ProcType /\ proc'.pc = to /\ proc'.dex = proc.dex /\ proc'.login = proc.login
      /\ proc'.id = proc.id /\ proc'.key = proc.key /\ proc'.cmd = proc.cmd /\ proc'.v = proc.v
  BY <1>1 DEF ProcType
<1> QED
  BY <1>1, <1>2 DEF ProcFine

LEMMA EnsureClusterSetup == ASSUME SetupInv, EnsureCluster PROVE SetupInv'
<1>1. PICK there \in BOOLEAN :
        /\ Probe([there |-> kube.boot # 0], [there |-> there])
        /\ CASE ~there -> Goto("trust")
             [] there /\ host.auth # 0 -> Goto("gvisor")
             [] there /\ host.auth = 0 -> Exit
  BY DEF EnsureCluster
<1>2. UNCHANGED <<host, kube, ready, trusts, users, churned>> /\ SetupType /\ proc.pc = "cluster"
  BY DEF EnsureCluster, world, history, SetupInv, At
<1>3. /\ misreads' \in Nat /\ (misreads' = 0 => misreads = 0) /\ (misreads' = 0 => (kube.boot # 0 => there))
  BY <1>1, <1>2, ProbeOne, Zenon DEF SetupType
<1>4. CASE Exit
  BY <1>2, <1>3, <1>4, Exits, Zenon
<1>5. CASE ~Exit
  <2>0. ProcFine(proc)
    BY <1>2 DEF SetupType
  <2>1. \/ ~there /\ Goto("trust")
        \/ Goto("gvisor")
    BY <1>1, <1>5
  <2>2. ProcFine(proc') /\ proc'.dex = proc.dex /\ proc'.login = proc.login
        /\ (proc'.pc = "gvisor" \/ (proc'.pc = "trust" /\ ~there))
    <3>1. "trust" \in OfSetup \cup {"login"} /\ "gvisor" \in OfSetup \cup {"login"} /\ proc.pc \in OfSetup
      BY <1>2 DEF OfSetup, Before
    <3> QED
      BY <2>0, <2>1, <3>1, GoesOn, Zenon
  <2>3. ASSUME misreads' = 0 PROVE OneTrust' /\ Bound' /\ Runtimes'
    <3>1. OneTrust /\ Bound /\ Runtimes
      BY <1>3, <2>3 DEF SetupInv
    <3>2. OneTrust'
      BY <1>2, <1>3, <2>2, <2>3, <3>1 DEF OneTrust
    <3>3. kube.boot = 0 => kube.writer = 0
      BY <3>1 DEF OneTrust, Bound, LoginWorks
    <3>4. Bound'
      BY <1>2, <1>3, <2>2, <2>3, <3>1, <3>3 DEF Bound, LoginWorks, Making, Before
    <3>5. Runtimes'
      BY <1>2, <2>2, <3>1 DEF Runtimes
    <3> QED
      BY <3>2, <3>4, <3>5
  <2>4. churned' \in BOOLEAN
    BY <1>2 DEF SetupType
  <2> QED
    BY <1>2, <1>3, <2>2, <2>3, <2>4, Proceeds, Zenon
<1> QED
  BY <1>4, <1>5

LEMMA CheckGvisorSetup == ASSUME SetupInv, CheckGvisor PROVE SetupInv'
<1>1. PICK runsc \in BOOLEAN, class \in BOOLEAN :
        /\ Probe([runsc |-> "runsc" \in kube.has, class |-> "runtimeclass" \in kube.has],
                 [runsc |-> runsc, class |-> class])
        /\ Goto(IF runsc /\ class THEN "cilium" ELSE "runsc")
  BY DEF CheckGvisor
<1>2. UNCHANGED <<host, kube, ready, trusts, users, churned>> /\ SetupType /\ proc.pc = "gvisor"
  BY DEF CheckGvisor, world, history, SetupInv, At
<1>3. /\ misreads' \in Nat /\ (misreads' = 0 => misreads = 0)
      /\ (runsc => "runsc" \in kube.has) /\ (class => "runtimeclass" \in kube.has)
      /\ misreads' = 0 => ("runsc" \in kube.has => runsc) /\ ("runtimeclass" \in kube.has => class)
  <2> DEFINE truth == [runsc |-> "runsc" \in kube.has, class |-> "runtimeclass" \in kube.has]
             seen == [runsc |-> runsc, class |-> class]
  <2>1. DOMAIN truth = {"runsc", "class"} /\ misreads \in Nat
    BY <1>2 DEF SetupType
  <2>2. /\ truth["runsc"] = ("runsc" \in kube.has) /\ truth["class"] = ("runtimeclass" \in kube.has)
        /\ seen["runsc"] = runsc /\ seen["class"] = class
    OBVIOUS
  <2>3. Probe(truth, seen)
    BY <1>1
  <2> HIDE DEF truth, seen
  <2> QED
    BY <2>1, <2>2, <2>3, ProbeTwo, Zenon
<1>4. ProcFine(proc') /\ proc'.dex = proc.dex /\ proc'.login = proc.login
      /\ proc'.pc = IF runsc /\ class THEN "cilium" ELSE "runsc"
  <2>1. /\ ProcFine(proc) /\ proc.pc \in OfSetup
        /\ (IF runsc /\ class THEN "cilium" ELSE "runsc") \in OfSetup \cup {"login"}
    BY <1>2 DEF SetupType, OfSetup, Before
  <2> QED
    BY <1>1, <2>1, GoesOn, Zenon
<1>5. ASSUME misreads' = 0 PROVE OneTrust' /\ Bound' /\ Runtimes'
  <2>1. OneTrust /\ Bound /\ Runtimes
    BY <1>3, <1>5 DEF SetupInv
  <2>2. OneTrust'
    BY <1>2, <1>4, <2>1 DEF OneTrust
  <2>3. Bound'
    BY <1>2, <1>4, <2>1 DEF Bound, LoginWorks, Making, Before
  <2>4. Runtimes'
    BY <1>2, <1>3, <1>4, <1>5, <2>1 DEF Runtimes
  <2> QED
    BY <2>2, <2>3, <2>4
<1>6. churned' \in BOOLEAN
  BY <1>2 DEF SetupType
<1> QED
  BY <1>2, <1>3, <1>4, <1>5, <1>6, Proceeds, Zenon

LEMMA InstallOperatorSetup == ASSUME SetupInv, InstallOperator PROVE SetupInv'
<1>1. UNCHANGED <<host, kube, ready, trusts, users, churned>> /\ misreads' = misreads /\ SetupType
      /\ proc.pc = "operator" /\ ProcFine(proc) /\ misreads \in Nat /\ churned' \in BOOLEAN
  BY DEF InstallOperator, world, history, counts, SetupInv, SetupType, At
<1>2. proc.pc \in OfSetup /\ "layer" \in OfSetup \cup {"login"} /\ "dex" \in OfSetup \cup {"login"}
      /\ "login" \in OfSetup \cup {"login"} /\ proc.login \in BOOLEAN /\ proc.dex \in BOOLEAN
  BY <1>1 DEF OfSetup, Before, ProcFine, ProcType
<1>3. \/ Exit
      \/ ~proc.login /\ Goto("layer")
      \/ Goto("login")
      \/ proc.dex /\ kube.tls # 0 /\ Goto("dex")
  BY <1>2, Zenon DEF InstallOperator
<1>4. CASE Exit
  BY <1>1, <1>4, Exits, Zenon
<1>5. ASSUME ~proc.login, Goto("layer") PROVE SetupInv'
  <2>1. ProcFine(proc') /\ proc'.pc = "layer"
    BY <1>1, <1>2, <1>5, GoesOn, Zenon
  <2>2. ASSUME misreads' = 0 PROVE OneTrust' /\ Bound' /\ Runtimes'
    <3>1. OneTrust /\ Bound /\ Runtimes
      BY <1>1, <2>2 DEF SetupInv
    <3>2. OneTrust' /\ Runtimes'
      BY <1>1, <2>1, <3>1 DEF OneTrust, Runtimes
    <3>3. Bound'
      BY <1>1, <1>5, <2>1, <3>1 DEF Bound, LoginWorks, Making, Before
    <3> QED
      BY <3>2, <3>3
  <2> QED
    BY <1>1, <2>1, <2>2, Proceeds, Zenon
<1>6. CASE Goto("login")
  <2>1. ProcFine(proc') /\ proc'.pc = "login"
    BY <1>1, <1>2, <1>6, GoesOn, Zenon
  <2>2. proc'.pc \in Elsewhere
    BY <2>1 DEF Elsewhere
  <2> QED
    BY <1>1, <2>1, <2>2, MovesAway, Zenon
<1>7. ASSUME proc.dex, kube.tls # 0, Goto("dex") PROVE SetupInv'
  <2>1. ProcFine(proc') /\ proc'.pc = "dex" /\ proc'.dex = proc.dex
    BY <1>1, <1>2, <1>7, GoesOn, Zenon
  <2>2. ASSUME misreads' = 0 PROVE OneTrust' /\ Bound' /\ Runtimes'
    <3>1. OneTrust /\ Bound /\ Runtimes
      BY <1>1, <2>2 DEF SetupInv
    <3>2. OneTrust' /\ Runtimes'
      BY <1>1, <2>1, <3>1 DEF OneTrust, Runtimes
    <3>3. Bound'
      BY <1>1, <1>7, <2>1, <3>1 DEF Bound, LoginWorks, Making, Before
    <3> QED
      BY <3>2, <3>3
  <2> QED
    BY <1>1, <2>1, <2>2, Proceeds, Zenon
<1> QED
  BY <1>3, <1>4, <1>5, <1>6, <1>7

LEMMA SignalNodeSetup == ASSUME SetupInv, SignalNode PROVE SetupInv'
<1>1. UNCHANGED <<host, kube, ready, trusts, users>> /\ misreads' = misreads /\ SetupType
      /\ proc.pc = "hup" /\ ProcFine(proc) /\ misreads \in Nat /\ Goto("class")
      /\ churned' = (churned \/ "cilium" \in kube.has) /\ churned \in BOOLEAN
  BY DEF SignalNode, world, counts, SetupInv, SetupType, At
<1>2. proc.pc \in OfSetup /\ "class" \in OfSetup \cup {"login"}
  BY <1>1 DEF OfSetup, Before
<1>3. ProcFine(proc') /\ proc'.pc = "class" /\ proc'.dex = proc.dex /\ proc'.login = proc.login
  BY <1>1, <1>2, GoesOn, Zenon
<1>4. ASSUME misreads' = 0 PROVE OneTrust' /\ Bound' /\ Runtimes'
  <2>1. OneTrust /\ Bound /\ Runtimes
    BY <1>1, <1>4 DEF SetupInv
  <2>2. OneTrust'
    BY <1>1, <1>3, <2>1 DEF OneTrust
  <2>3. Bound'
    BY <1>1, <1>3, <2>1 DEF Bound, LoginWorks, Making, Before
  <2>4. Runtimes'
    BY <1>1, <1>3, <2>1 DEF Runtimes
  <2> QED
    BY <2>2, <2>3, <2>4
<1>5. churned' \in BOOLEAN
  BY <1>1
<1> QED
  BY <1>1, <1>3, <1>4, <1>5, Proceeds, Zenon

LEMMA GenerateTrustSetup == ASSUME SetupInv, GenerateTrust PROVE SetupInv'
<1>1. /\ UNCHANGED <<kube, ready, churned, users, misreads>> /\ SetupType /\ proc.pc = "trust" /\ ProcFine(proc)
      /\ trusts' = trusts + 1 /\ trusts \in Nat
      /\ host' = [auth |-> trusts', ca |-> trusts', email |-> FALSE]
      /\ proc' = [proc EXCEPT !.pc = "create", !.key = trusts']
  BY DEF GenerateTrust, history, SetupInv, SetupType, At
<1>2. trusts' \in Nat /\ trusts' # 0
  BY <1>1
<1>3. host' \in HostType /\ host'.auth = trusts' /\ host'.ca = trusts'
  BY <1>1, <1>2 DEF HostType
<1>4. ProcFine(proc') /\ proc'.pc = "create" /\ proc'.dex = proc.dex /\ proc'.login = proc.login
  BY <1>1, <1>2 DEF ProcFine, ProcType, Pcs, OfSetup, Before
<1>5. SetupType'
  BY <1>1, <1>2, <1>3, <1>4, Zenon DEF SetupType
<1>6. ASSUME misreads' = 0 PROVE OneTrust' /\ Bound' /\ Runtimes'
  <2>1. OneTrust /\ Bound /\ Runtimes
    BY <1>1, <1>6 DEF SetupInv
  <2>2. OneTrust'
    BY <1>1, <1>2, <1>3, <1>4, <2>1 DEF OneTrust
  <2>3. Bound'
    BY <1>1, <1>4, <2>1 DEF Bound, LoginWorks, Making, Before
  <2>4. Runtimes'
    BY <1>1, <1>4, <2>1 DEF Runtimes
  <2> QED
    BY <2>2, <2>3, <2>4
<1> QED
  BY <1>5, <1>6 DEF SetupInv

LEMMA GenerateTrustCutSetup == ASSUME SetupInv, GenerateTrustCut PROVE SetupInv'
<1>1. /\ UNCHANGED <<kube, ready, churned, users, misreads>> /\ SetupType /\ proc.pc = "trust"
      /\ proc' = Idle /\ trusts \in Nat
      /\ \/ host' = [auth |-> 0, ca |-> 0, email |-> FALSE] /\ trusts' = trusts
         \/ host' = [auth |-> 0, ca |-> trusts', email |-> FALSE] /\ trusts' = trusts + 1
  BY DEF GenerateTrustCut, history, SetupInv, SetupType, At, Exit
<1>2. trusts' \in Nat /\ host' \in HostType
  <2>1. trusts' \in Nat
    BY <1>1
  <2>2. /\ [auth |-> 0, ca |-> 0, email |-> FALSE] \in HostType
        /\ [auth |-> 0, ca |-> trusts', email |-> FALSE] \in HostType
    BY <2>1 DEF HostType
  <2> QED
    BY <1>1, <2>1, <2>2, Zenon
<1>3. SetupType'
  BY <1>1, <1>2, IdleType, Zenon DEF SetupType
<1>4. ASSUME misreads' = 0 PROVE OneTrust' /\ Bound' /\ Runtimes'
  <2>1. OneTrust /\ Bound /\ Runtimes
    BY <1>1, <1>4 DEF SetupInv
  <2>2. OneTrust'
    BY <1>1, <2>1, IdleType DEF OneTrust
  <2>3. Bound'
    BY <1>1, <2>1, IdleType DEF Bound, LoginWorks, Making, Before
  <2>4. Runtimes'
    BY <1>1, <2>1, IdleType DEF Runtimes
  <2> QED
    BY <2>2, <2>3, <2>4
<1> QED
  BY <1>3, <1>4 DEF SetupInv

LEMMA SaveEmailSetup == ASSUME SetupInv, SaveEmail PROVE SetupInv'
<1>1. /\ UNCHANGED <<kube, ready, churned, trusts, users, misreads>> /\ SetupType /\ proc.pc = "email"
      /\ ProcFine(proc) /\ Goto("login") /\ host' = [host EXCEPT !.email = TRUE] /\ host \in HostType
  BY DEF SaveEmail, history, counts, SetupInv, SetupType, At
<1>2. host' \in HostType /\ host'.auth = host.auth /\ host'.ca = host.ca
  BY <1>1 DEF HostType
<1>3. proc.pc \in OfSetup /\ "login" \in OfSetup \cup {"login"}
  BY <1>1 DEF OfSetup
<1>4. ProcFine(proc') /\ proc'.pc = "login"
  BY <1>1, <1>3, GoesOn, Zenon
<1>5. SetupType'
  BY <1>1, <1>2, <1>4, Zenon DEF SetupType
<1>6. ASSUME misreads' = 0 PROVE OneTrust' /\ Bound' /\ Runtimes'
  <2>1. OneTrust /\ Bound /\ Runtimes
    BY <1>1, <1>6 DEF SetupInv
  <2>2. OneTrust'
    BY <1>1, <1>2, <1>4, <2>1 DEF OneTrust
  <2>3. Bound'
    BY <1>1, <1>4, <2>1 DEF Bound, LoginWorks, Making, Before
  <2>4. Runtimes'
    BY <1>1, <1>4, <2>1 DEF Runtimes
  <2> QED
    BY <2>2, <2>3, <2>4
<1> QED
  BY <1>5, <1>6 DEF SetupInv

LEMMA LoginSetup == ASSUME SetupInv, Login PROVE SetupInv'
<1>1. UNCHANGED <<host, kube, ready, trusts, users, churned>> /\ misreads' = misreads /\ SetupType
      /\ proc.pc = "login" /\ ProcFine(proc) /\ misreads \in Nat /\ churned' \in BOOLEAN
      /\ kube.dex.user \in Nat
  BY DEF Login, world, history, counts, SetupInv, SetupType, At, KubeType, DexType
<1>2. CASE Exit
  BY <1>1, <1>2, Exits, Zenon
<1>3. CASE LoginWorks /\ proc' = [proc EXCEPT !.pc = AfterLogin, !.id = kube.dex.user]
  <2>1. proc \in ProcType /\ proc.cmd \in Cmds \ {"none"}
    BY <1>1 DEF ProcFine, ProcType
  <2>2. \/ proc.cmd = "setup" /\ AfterLogin = "grant"
        \/ proc.cmd \in {"upgrade", "up"} /\ AfterLogin = "write"
        \/ proc.cmd \in {"down", "remove"} /\ AfterLogin = "granttenant"
    BY <2>1 DEF AfterLogin, Cmds
  <2>3. proc' \in ProcType /\ proc'.pc = AfterLogin /\ proc'.id = kube.dex.user /\ proc'.cmd = proc.cmd
        /\ proc'.v = proc.v
    BY <1>1, <1>3, <2>1, <2>2 DEF ProcType, Pcs
  <2>4. ProcFine(proc')
    BY <1>1, <2>1, <2>2, <2>3 DEF ProcFine, OfSetup, Before
  <2>5. CASE proc'.pc = "grant"
    <3>1. ASSUME misreads' = 0 PROVE OneTrust' /\ Bound' /\ Runtimes'
      <4>1. OneTrust /\ Bound /\ Runtimes
        BY <1>1, <3>1 DEF SetupInv
      <4>2. OneTrust' /\ Runtimes'
        BY <1>1, <2>5, <4>1 DEF OneTrust, Runtimes
      <4>3. Bound'
        BY <1>1, <1>3, <2>3, <2>5, <4>1 DEF Bound, LoginWorks, Making, Before
      <4> QED
        BY <4>2, <4>3
    <3> QED
      BY <1>1, <2>4, <3>1, Proceeds, Zenon
  <2>6. CASE proc'.pc # "grant"
    <3>1. proc'.pc \in Elsewhere
      BY <2>2, <2>3, <2>6 DEF Elsewhere
    <3> QED
      BY <1>1, <2>4, <3>1, MovesAway, Zenon
  <2> QED
    BY <2>5, <2>6
<1> QED
  BY <1>2, <1>3 DEF Login

LEMMA CreateClusterSetup == ASSUME SetupInv, CreateCluster PROVE SetupInv'
<1>1. /\ UNCHANGED <<host, ready, churned, trusts, users, misreads>> /\ SetupType /\ proc.pc = "create"
      /\ ProcFine(proc) /\ host \in HostType /\ misreads \in Nat
  BY DEF CreateCluster, history, counts, SetupInv, SetupType, At
<1>2. ASSUME kube' = kube, Exit PROVE SetupInv'
  BY <1>1, <1>2, Exits, Zenon
<1>3. ASSUME kube.boot = 0, kube' = [NoCluster EXCEPT !.boot = host.auth, !.has = {"nodehosts"}], Goto("tls")
      PROVE  SetupInv'
  <2>1. host.auth \in Nat
    BY <1>1 DEF HostType
  <2>2. /\ kube'.boot = host.auth /\ kube'.has = {"nodehosts"} /\ kube'.tls = 0 /\ kube'.writer = 0
        /\ kube'.dex = [st |-> "none", cert |-> 0, user |-> 0] /\ kube'.dex.st = "none" /\ kube'.layer.v = 0
    BY <1>3 DEF NoCluster
  <2>3. kube' \in KubeType
    <3> DEFINE d == [st |-> "none", cert |-> 0, user |-> 0]
               l == [v |-> 0, ca |-> 0]
    <3>1. d \in DexType /\ l \in [v : Nat, ca : Nat]
      BY DEF DexType
    <3>2. kube' = [boot |-> host.auth, has |-> {"nodehosts"}, tls |-> 0, dex |-> d, layer |-> l, writer |-> 0]
      BY <1>3 DEF NoCluster
    <3> HIDE DEF d, l
    <3> QED
      BY <2>1, <3>1, <3>2 DEF KubeType, Parts
  <2>4. proc.pc \in OfSetup /\ "tls" \in OfSetup \cup {"login"}
    BY <1>1 DEF OfSetup, Before
  <2>5. ProcFine(proc') /\ proc'.pc = "tls" /\ proc'.dex = proc.dex /\ proc'.login = proc.login
    BY <1>1, <1>3, <2>4, GoesOn, Zenon
  <2>6. SetupType'
    BY <1>1, <2>3, <2>5, Zenon DEF SetupType
  <2>7. ASSUME misreads' = 0 PROVE OneTrust' /\ Bound' /\ Runtimes'
    <3>1. OneTrust /\ Bound /\ Runtimes
      BY <1>1, <2>7 DEF SetupInv
    <3>2. OneTrust'
      BY <1>1, <2>2, <2>5, <3>1 DEF OneTrust
    <3>3. kube.writer = 0
      BY <1>1, <3>1 DEF Bound, Making
    <3>4. Bound'
      BY <1>1, <1>3, <2>2, <2>5, <3>1, <3>3 DEF Bound, LoginWorks, Making, Before
    <3>5. Runtimes'
      BY <1>1, <2>2, <2>5, <3>1 DEF Runtimes
    <3> QED
      BY <3>2, <3>4, <3>5
  <2> QED
    BY <2>6, <2>7 DEF SetupInv
<1> QED
  BY <1>2, <1>3 DEF CreateCluster

LEMMA UploadTlsSetup == ASSUME SetupInv, UploadTls PROVE SetupInv'
<1>1. /\ UNCHANGED <<host, ready, churned, trusts, users, misreads>> /\ SetupType /\ proc.pc = "tls"
      /\ ProcFine(proc) /\ kube \in KubeType /\ kube' = [kube EXCEPT !.tls = proc.key] /\ Goto("gvisor")
  BY DEF UploadTls, history, counts, SetupInv, SetupType, At
<1>2. proc.key \in Nat /\ proc.pc \in OfSetup /\ "gvisor" \in OfSetup \cup {"login"}
  BY <1>1 DEF ProcFine, ProcType, OfSetup, Before
<1>3. /\ kube' \in KubeType /\ kube'.boot = kube.boot /\ kube'.has = kube.has /\ kube'.dex = kube.dex
      /\ kube'.writer = kube.writer /\ kube'.layer = kube.layer
  BY <1>1, <1>2 DEF KubeType
<1>4. ProcFine(proc') /\ proc'.pc = "gvisor" /\ proc'.dex = proc.dex /\ proc'.login = proc.login
  BY <1>1, <1>2, GoesOn, Zenon
<1>5. SetupType'
  BY <1>1, <1>3, <1>4, Zenon DEF SetupType
<1>6. ASSUME misreads' = 0 PROVE OneTrust' /\ Bound' /\ Runtimes'
  <2>1. OneTrust /\ Bound /\ Runtimes
    BY <1>1, <1>6 DEF SetupInv
  <2>2. OneTrust'
    BY <1>1, <1>3, <1>4, <2>1 DEF OneTrust
  <2>3. Bound'
    BY <1>1, <1>3, <1>4, <2>1 DEF Bound, LoginWorks, Making, Before
  <2>4. Runtimes'
    BY <1>1, <1>3, <1>4, <2>1 DEF Runtimes
  <2> QED
    BY <2>2, <2>3, <2>4
<1> QED
  BY <1>5, <1>6 DEF SetupInv

LEMMA PatchCorednsSetup == ASSUME SetupInv, PatchCoredns PROVE SetupInv'
<1>1. PICK ip \in BOOLEAN, read \in BOOLEAN :
        /\ Probe([ip |-> TRUE, read |-> TRUE], [ip |-> ip, read |-> read])
        /\ kube' = [kube EXCEPT !.has =
                      CASE ~ip -> kube.has
                        [] ip /\ read -> kube.has \cup {"registry"}
                        [] ip /\ ~read -> (kube.has \ {"nodehosts"}) \cup {"registry"}]
  BY DEF PatchCoredns
<1>2. /\ UNCHANGED <<host, ready, churned, trusts, users>> /\ SetupType /\ proc.pc = "coredns"
      /\ ProcFine(proc) /\ kube \in KubeType /\ Goto("crds") /\ misreads \in Nat
  BY DEF PatchCoredns, history, SetupInv, SetupType, At
<1>3. misreads' \in Nat /\ (misreads' = 0 => misreads = 0)
  <2> DEFINE truth == [ip |-> TRUE, read |-> TRUE]
             seen == [ip |-> ip, read |-> read]
  <2>1. DOMAIN truth = {"ip", "read"} /\ Probe(truth, seen)
    BY <1>1
  <2> HIDE DEF truth, seen
  <2> QED
    BY <1>2, <2>1, ProbeTwo, Zenon
<1>4. PICK h \in SUBSET Parts :
        /\ kube' = [kube EXCEPT !.has = h]
        /\ \A x \in {"runsc", "runtimeclass", "cilium"} : x \in h <=> x \in kube.has
  <2>1. kube.has \in SUBSET Parts
    BY <1>2 DEF KubeType
  <2>2. CASE ~ip
    BY <1>1, <2>1, <2>2
  <2>3. CASE ip /\ read
    BY <1>1, <2>1, <2>3 DEF Parts
  <2>4. CASE ip /\ ~read
    BY <1>1, <2>1, <2>4 DEF Parts
  <2> QED
    BY <2>2, <2>3, <2>4
<1>5. /\ kube' \in KubeType /\ kube'.boot = kube.boot /\ kube'.has = h /\ kube'.dex = kube.dex
      /\ kube'.writer = kube.writer /\ kube'.layer = kube.layer /\ kube'.tls = kube.tls
  BY <1>2, <1>4 DEF KubeType
<1>6. proc.pc \in OfSetup /\ "crds" \in OfSetup \cup {"login"}
  BY <1>2 DEF OfSetup, Before
<1>7. ProcFine(proc') /\ proc'.pc = "crds" /\ proc'.dex = proc.dex /\ proc'.login = proc.login
  BY <1>2, <1>6, GoesOn, Zenon
<1>8. SetupType'
  BY <1>2, <1>3, <1>5, <1>7, Zenon DEF SetupType
<1>9. ASSUME misreads' = 0 PROVE OneTrust' /\ Bound' /\ Runtimes'
  <2>1. OneTrust /\ Bound /\ Runtimes
    BY <1>3, <1>9 DEF SetupInv
  <2>2. OneTrust'
    BY <1>2, <1>5, <1>7, <2>1 DEF OneTrust
  <2>3. Bound'
    BY <1>2, <1>5, <1>7, <2>1 DEF Bound, LoginWorks, Making, Before
  <2>4. Runtimes'
    BY <1>2, <1>4, <1>5, <1>7, <2>1 DEF Runtimes
  <2> QED
    BY <2>2, <2>3, <2>4
<1> QED
  BY <1>8, <1>9 DEF SetupInv

\* install_dex, whether helm waits for its pods or not.
LEMMA DexSetup == ASSUME SetupInv, InstallDex \/ InstallDexCut PROVE SetupInv'
<1>1. /\ UNCHANGED <<host, ready, churned, trusts, misreads>> /\ SetupType /\ proc.pc = "dex"
      /\ ProcFine(proc) /\ kube \in KubeType /\ users' = users + 1 /\ users \in Nat /\ (Goto("email") \/ Exit)
      /\ \E s \in {"serving", "recorded"} :
            kube' = [kube EXCEPT !.dex = [st |-> s, cert |-> kube.tls, user |-> users']]
  BY DEF InstallDex, InstallDexCut, history, SetupInv, SetupType, At
<1>2. PICK s \in {"serving", "recorded"} :
            kube' = [kube EXCEPT !.dex = [st |-> s, cert |-> kube.tls, user |-> users']]
  BY <1>1
<1>3. users' \in Nat /\ users' # 0 /\ kube.tls \in Nat
  BY <1>1 DEF KubeType
<1>4. /\ kube' \in KubeType /\ kube'.boot = kube.boot /\ kube'.has = kube.has
      /\ kube'.writer = kube.writer /\ kube'.layer = kube.layer /\ kube'.tls = kube.tls
      /\ kube'.dex.cert = kube.tls /\ kube'.dex.user = users'
  <2> DEFINE d == [st |-> s, cert |-> kube.tls, user |-> users']
  <2>1. d \in DexType /\ d.cert = kube.tls /\ d.user = users'
    BY <1>3 DEF DexType
  <2>2. kube' = [kube EXCEPT !.dex = d]
    BY <1>2
  <2> HIDE DEF d
  <2> QED
    BY <1>1, <2>1, <2>2 DEF KubeType
<1>5. ProcFine(proc') /\ proc'.pc \in {"email", "idle"}
  <2>1. proc.pc \in OfSetup /\ "email" \in OfSetup \cup {"login"}
    BY <1>1 DEF OfSetup
  <2>2. CASE Exit
    BY <2>2, IdleType DEF Exit
  <2>3. CASE Goto("email")
    <3>1. ProcFine(proc') /\ proc'.pc = "email"
      BY <1>1, <2>1, <2>3, GoesOn, Zenon
    <3> QED
      BY <3>1
  <2> QED
    BY <1>1, <2>2, <2>3
<1>6. SetupType'
  BY <1>1, <1>3, <1>4, <1>5, Zenon DEF SetupType
<1>7. ASSUME misreads' = 0 PROVE OneTrust' /\ Bound' /\ Runtimes'
  <2>1. OneTrust /\ Bound /\ Runtimes
    BY <1>1, <1>7 DEF SetupInv
  <2>2. kube.writer = 0 /\ kube.tls # 0
    BY <1>1, <2>1 DEF Bound
  <2>3. OneTrust'
    BY <1>1, <1>3, <1>4, <1>5, <2>1, <2>2 DEF OneTrust
  <2>4. Bound'
    BY <1>1, <1>4, <1>5, <2>1, <2>2 DEF Bound, LoginWorks, Making, Before
  <2>5. Runtimes'
    BY <1>1, <1>4, <1>5, <2>1 DEF Runtimes
  <2> QED
    BY <2>3, <2>4, <2>5
<1> QED
  BY <1>6, <1>7 DEF SetupInv

LEMMA DexComesUpSetup == ASSUME SetupInv, DexComesUp PROVE SetupInv'
<1>1. /\ UNCHANGED <<host, proc, ready, churned, trusts, users, misreads>> /\ SetupType
      /\ kube \in KubeType /\ kube.dex.st = "recorded" /\ kube' = [kube EXCEPT !.dex.st = "serving"]
  BY DEF DexComesUp, history, counts, SetupInv, SetupType
<1>2. /\ kube' \in KubeType /\ kube'.boot = kube.boot /\ kube'.has = kube.has
      /\ kube'.writer = kube.writer /\ kube'.layer = kube.layer /\ kube'.tls = kube.tls
      /\ kube'.dex.cert = kube.dex.cert /\ kube'.dex.user = kube.dex.user /\ kube'.dex.st = "serving"
  <2> DEFINE d == [kube.dex EXCEPT !.st = "serving"]
  <2>1. d \in DexType /\ d.cert = kube.dex.cert /\ d.user = kube.dex.user /\ d.st = "serving"
    BY <1>1 DEF DexType, KubeType
  <2>2. kube' = [kube EXCEPT !.dex = d]
    BY <1>1
  <2> HIDE DEF d
  <2> QED
    BY <1>1, <2>1, <2>2 DEF KubeType
<1>3. SetupType'
  BY <1>1, <1>2, Zenon DEF SetupType
<1>4. ASSUME misreads' = 0 PROVE OneTrust' /\ Bound' /\ Runtimes'
  <2>1. OneTrust /\ Bound /\ Runtimes
    BY <1>1, <1>4 DEF SetupInv
  <2>2. OneTrust'
    BY <1>1, <1>2, <2>1 DEF OneTrust
  <2>3. Bound'
    BY <1>1, <1>2, <2>1 DEF Bound, LoginWorks
  <2>4. Runtimes'
    BY <1>1, <1>2, <2>1 DEF Runtimes
  <2> QED
    BY <2>2, <2>3, <2>4
<1> QED
  BY <1>3, <1>4 DEF SetupInv

LEMMA GrantSystemSetup == ASSUME SetupInv, GrantSystem PROVE SetupInv'
<1>1. /\ UNCHANGED <<host, ready, churned, trusts, users, misreads>> /\ SetupType /\ proc.pc = "grant"
      /\ ProcFine(proc) /\ kube \in KubeType /\ kube' = [kube EXCEPT !.writer = proc.id] /\ Goto("layer")
  BY DEF GrantSystem, history, counts, SetupInv, SetupType, At
<1>2. proc.id \in Nat /\ proc.pc \in OfSetup /\ "layer" \in OfSetup \cup {"login"}
  BY <1>1 DEF ProcFine, ProcType, OfSetup
<1>3. /\ kube' \in KubeType /\ kube'.boot = kube.boot /\ kube'.has = kube.has /\ kube'.dex = kube.dex
      /\ kube'.writer = proc.id /\ kube'.layer = kube.layer /\ kube'.tls = kube.tls
  BY <1>1, <1>2 DEF KubeType
<1>4. ProcFine(proc') /\ proc'.pc = "layer"
  BY <1>1, <1>2, GoesOn, Zenon
<1>5. SetupType'
  BY <1>1, <1>3, <1>4, Zenon DEF SetupType
<1>6. ASSUME misreads' = 0 PROVE OneTrust' /\ Bound' /\ Runtimes'
  <2>1. OneTrust /\ Bound /\ Runtimes
    BY <1>1, <1>6 DEF SetupInv
  <2>2. LoginWorks /\ proc.id = kube.dex.user /\ kube.dex.user # 0
    BY <1>1, <2>1 DEF Bound, OneTrust, LoginWorks
  <2>3. OneTrust'
    BY <1>1, <1>3, <1>4, <2>1 DEF OneTrust
  <2>4. Bound'
    BY <1>1, <1>3, <1>4, <2>1, <2>2 DEF Bound, LoginWorks, Making, Before
  <2>5. Runtimes'
    BY <1>1, <1>3, <1>4, <2>1 DEF Runtimes
  <2> QED
    BY <2>3, <2>4, <2>5
<1> QED
  BY <1>5, <1>6 DEF SetupInv

LEMMA InstallClusterLayerSetup == ASSUME SetupInv, InstallClusterLayer PROVE SetupInv'
<1>1. /\ UNCHANGED <<host, ready, churned, trusts, users, misreads>> /\ SetupType /\ proc.pc = "layer"
      /\ ProcFine(proc) /\ kube \in KubeType /\ host \in HostType /\ misreads \in Nat
  BY DEF InstallClusterLayer, history, counts, SetupInv, SetupType, At
<1>2. ASSUME kube' = kube, Exit PROVE SetupInv'
  BY <1>1, <1>2, Exits, Zenon
<1>3. ASSUME kube' = [kube EXCEPT !.layer = [v |-> proc.v, ca |-> host.ca]], Goto("store")
      PROVE  SetupInv'
  <2>1. host.ca \in Nat /\ proc.v \in Nat /\ proc.v # 0
    BY <1>1 DEF HostType, ProcFine, ProcType, OfSetup
  <2>2. /\ kube' \in KubeType /\ kube'.boot = kube.boot /\ kube'.has = kube.has /\ kube'.dex = kube.dex
        /\ kube'.writer = kube.writer /\ kube'.tls = kube.tls
        /\ kube'.layer.v = proc.v /\ kube'.layer.ca = host.ca
    <3> DEFINE l == [v |-> proc.v, ca |-> host.ca]
    <3>1. l \in [v : Nat, ca : Nat] /\ l.v = proc.v /\ l.ca = host.ca
      BY <2>1
    <3>2. kube' = [kube EXCEPT !.layer = l]
      BY <1>3
    <3> HIDE DEF l
    <3> QED
      BY <1>1, <3>1, <3>2 DEF KubeType
  <2>3. proc.pc \in OfSetup /\ "store" \in OfSetup \cup {"login"}
    BY <1>1 DEF OfSetup
  <2>4. ProcFine(proc') /\ proc'.pc = "store"
    BY <1>1, <1>3, <2>3, GoesOn, Zenon
  <2>5. SetupType'
    BY <1>1, <2>2, <2>4, Zenon DEF SetupType
  <2>6. ASSUME misreads' = 0 PROVE OneTrust' /\ Bound' /\ Runtimes'
    <3>1. OneTrust /\ Bound /\ Runtimes
      BY <1>1, <2>6 DEF SetupInv
    <3>2. OneTrust'
      BY <1>1, <2>2, <2>4, <3>1 DEF OneTrust
    <3>3. kube.writer # 0 /\ kube.boot # 0 /\ host.ca = kube.boot
      BY <1>1, <3>1 DEF Bound, LoginWorks, OneTrust
    <3>4. Bound'
      BY <1>1, <2>1, <2>2, <2>4, <3>1, <3>3 DEF Bound, LoginWorks, Making, Before
    <3>5. Runtimes'
      BY <1>1, <2>2, <2>4, <3>1 DEF Runtimes
    <3> QED
      BY <3>2, <3>4, <3>5
  <2> QED
    BY <2>5, <2>6 DEF SetupInv
<1> QED
  BY <1>2, <1>3 DEF InstallClusterLayer

LEMMA CreateBucketSetup == ASSUME SetupInv, CreateBucket PROVE SetupInv'
<1>1. /\ UNCHANGED <<host, churned, trusts, users, misreads>> /\ SetupType /\ proc.pc = "bucket"
      /\ kube \in KubeType /\ kube' = [kube EXCEPT !.has = kube.has \cup {"bucket"}] /\ proc' = Idle /\ ready' = TRUE
  BY DEF CreateBucket, Exit, counts, SetupInv, SetupType, At
<1>2. /\ kube' \in KubeType /\ kube'.boot = kube.boot /\ kube'.has = kube.has \cup {"bucket"} /\ kube'.dex = kube.dex
      /\ kube'.writer = kube.writer /\ kube'.layer = kube.layer /\ kube'.tls = kube.tls
  BY <1>1 DEF KubeType, Parts
<1>3. SetupType'
  BY <1>1, <1>2, IdleType, Zenon DEF SetupType
<1>4. ASSUME misreads' = 0 PROVE OneTrust' /\ Bound' /\ Runtimes'
  <2>1. OneTrust /\ Bound /\ Runtimes
    BY <1>1, <1>4 DEF SetupInv
  <2>2. OneTrust'
    BY <1>1, <1>2, <2>1, IdleType DEF OneTrust
  <2>3. Bound'
    BY <1>1, <1>2, <2>1, IdleType DEF Bound, LoginWorks, Making, Before
  <2>4. Runtimes'
    BY <1>1, <1>2, <2>1, IdleType DEF Runtimes
  <2> QED
    BY <2>2, <2>3, <2>4
<1> QED
  BY <1>3, <1>4 DEF SetupInv

LEMMA DestroySetup == ASSUME SetupInv, Destroy PROVE SetupInv'
<1>1. /\ UNCHANGED <<host, proc, churned, trusts, users, misreads>> /\ SetupType /\ proc.pc = "idle"
      /\ kube' = NoCluster /\ ready' = FALSE
  BY DEF Destroy, counts, SetupInv, SetupType, At
<1>2. NoCluster \in KubeType
  <2>1. [st |-> "none", cert |-> 0, user |-> 0] \in DexType /\ [v |-> 0, ca |-> 0] \in [v : Nat, ca : Nat]
    BY DEF DexType
  <2> QED
    BY <2>1 DEF KubeType, NoCluster
<1>3. SetupType'
  BY <1>1, <1>2, Zenon DEF SetupType
<1>4. ASSUME misreads' = 0 PROVE OneTrust' /\ Bound' /\ Runtimes'
  <2>1. OneTrust /\ Bound /\ Runtimes
    BY <1>1, <1>4 DEF SetupInv
  <2>2. OneTrust'
    BY <1>1, <2>1 DEF OneTrust, NoCluster
  <2>3. Bound'
    BY <1>1, <2>1 DEF Bound, LoginWorks, Making, Before, NoCluster
  <2>4. Runtimes'
    BY <1>1, <2>1 DEF Runtimes, NoCluster
  <2> QED
    BY <2>2, <2>3, <2>4
<1> QED
  BY <1>3, <1>4 DEF SetupInv

LEMMA StartUpgradeSetup == ASSUME SycoadmConstants, SetupInv, NEW v \in Versions, StartUpgrade(v) PROVE SetupInv'
<1> DEFINE plan == {t \in {t \in Tenants : tenant[t].st # "none"} : ~tenant[t].reap}
<1>1. UNCHANGED <<host, kube, churned, ready, trusts, users>> /\ misreads' = misreads /\ misreads \in Nat
      /\ proc' = [Idle EXCEPT !.pc = "upgrade", !.cmd = "upgrade", !.v = v, !.plan = plan]
  BY DEF StartUpgrade, world, history, counts, SetupInv, SetupType
<1>2. v \in Nat /\ v # 0 /\ plan \in SUBSET Tenants
  BY DEF SycoadmConstants
<1> HIDE DEF plan
<1>3. ProcFine(proc') /\ proc'.pc \in Elsewhere
  BY <1>1, <1>2, IdleType DEF ProcFine, ProcType, Pcs, Cmds, OfSetup, Before, Elsewhere
<1> QED
  BY <1>1, <1>3, MovesAway, Zenon

LEMMA StartUpSetup ==
    ASSUME SycoadmConstants, SetupInv, NEW t \in Tenants, NEW v \in Versions, StartUp(t, v)
    PROVE  SetupInv'
<1>1. UNCHANGED <<host, kube, churned, ready, trusts, users>> /\ misreads' = misreads /\ misreads \in Nat
      /\ proc' = [Idle EXCEPT !.pc = "login", !.cmd = "up", !.v = v, !.plan = {t}]
  BY DEF StartUp, world, history, counts, SetupInv, SetupType
<1>2. v \in Nat /\ v # 0
  BY DEF SycoadmConstants
<1>3. ProcFine(proc') /\ proc'.pc \in Elsewhere
  BY <1>1, <1>2, IdleType DEF ProcFine, ProcType, Pcs, Cmds, OfSetup, Before, Elsewhere
<1> QED
  BY <1>1, <1>3, MovesAway, Zenon

LEMMA StartDownSetup ==
    ASSUME SetupInv, NEW t \in Tenants, NEW cmd \in {"down", "remove"}, NEW keep \in BOOLEAN, StartDown(t, cmd, keep)
    PROVE  SetupInv'
<1>1. UNCHANGED <<host, kube, churned, ready, trusts, users>> /\ misreads \in Nat
      /\ proc' = [Idle EXCEPT !.pc = "login", !.cmd = cmd, !.t = t, !.keep = keep]
  BY DEF StartDown, world, history, SetupInv, SetupType
<1>2. PICK there \in BOOLEAN : Probe([ns |-> tenant[t].st # "none"], [ns |-> there])
  BY DEF StartDown
<1>3. misreads' \in Nat /\ (misreads' = 0 => misreads = 0)
  <2> DEFINE truth == [ns |-> tenant[t].st # "none"]
             seen == [ns |-> there]
  <2>1. DOMAIN truth = {"ns"} /\ Probe(truth, seen)
    BY <1>2
  <2> HIDE DEF truth, seen
  <2>2. IsFiniteSet(DOMAIN truth)
    BY <2>1, FS_Singleton, Zenon
  <2> QED
    BY <1>1, <2>1, <2>2, ProbeFacts, Zenon
<1>4. ProcFine(proc') /\ proc'.pc \in Elsewhere
  BY <1>1, IdleType DEF ProcFine, ProcType, Pcs, Cmds, OfSetup, Before, Elsewhere
<1> QED
  BY <1>1, <1>3, <1>4, MovesAway, Zenon

LEMMA StepSetup == ASSUME SycoadmConstants, SetupInv, [SycoadmNext]_sycoadmVars PROVE SetupInv'
<1>1. CASE Start
  <2>1. CASE Setup
    BY <2>1, StartSetupSetup DEF Setup
  <2>2. CASE Destroy
    BY <2>2, DestroySetup
  <2>3. CASE \E v \in Versions : StartUpgrade(v)
    BY <2>3, StartUpgradeSetup
  <2>4. CASE \E t \in Tenants, v \in Versions : StartUp(t, v)
    BY <2>4, StartUpSetup
  <2>5. CASE \E t \in Tenants, c \in Commands \cap {"down", "remove"}, keep \in BOOLEAN : StartDown(t, c, keep)
    <3>1. PICK t \in Tenants, c \in Commands \cap {"down", "remove"}, keep \in BOOLEAN : StartDown(t, c, keep)
      BY <2>5
    <3>2. c \in {"down", "remove"}
      OBVIOUS
    <3> QED
      BY <3>1, <3>2, StartDownSetup, Zenon
  <2> QED
    BY <1>1, <2>1, <2>2, <2>3, <2>4, <2>5, Zenon DEF Start
<1>2. CASE SetupStep
  BY <1>2, InstallsSetup, EnsureClusterSetup, GenerateTrustSetup, CreateClusterSetup, UploadTlsSetup,
     CheckGvisorSetup, SignalNodeSetup, PatchCorednsSetup, InstallOperatorSetup, DexSetup, SaveEmailSetup,
     LoginSetup, GrantSystemSetup, InstallClusterLayerSetup, CreateBucketSetup, Zenon DEF SetupStep
<1>3. CASE TenantStep
  BY <1>3, TenantStepSetup
<1>4. CASE Fails \/ GenerateTrustCut \/ InstallDexCut \/ DexComesUp
  BY <1>4, FailsSetup, GenerateTrustCutSetup, DexSetup, DexComesUpSetup, Zenon
<1>5. CASE \E t \in Tenants : JobFails(t) \/ Reap(t)
  <2>1. UNCHANGED <<host, kube, proc, churned, ready, trusts, users, misreads>>
    BY <1>5 DEF JobFails, Reap, history, counts
  <2> QED
    BY <2>1, OthersStep, Zenon
<1>6. CASE UNCHANGED sycoadmVars
  <2>1. UNCHANGED <<host, kube, proc, churned, ready, trusts, users, misreads>>
    BY <1>6 DEF sycoadmVars
  <2> QED
    BY <2>1, OthersStep, Zenon
<1> QED
  BY <1>1, <1>2, <1>3, <1>4, <1>5, <1>6, Zenon DEF SycoadmNext

LEMMA SetupHolds == ASSUME SycoadmConstants PROVE SycoadmSpec => []SetupInv
<1>1. SycoadmInit => SetupInv
  BY InitSetup
<1>2. SetupInv /\ [SycoadmNext]_sycoadmVars => SetupInv'
  BY StepSetup
<1> QED
  BY <1>1, <1>2, PTL DEF SycoadmSpec

\* As long as no probe misreads, an operator who has seen setup succeed can log
\* in and write commands until the cluster is destroyed: no later setup, upgrade,
\* failure or interrupt parts the certificate of Dex, the CA of the layer and the
\* trust of the apiserver, or leaves the binding to a user Dex no longer knows
\* (setup.rs, upgrade.rs).
THEOREM LoginSurvives == ASSUME SycoadmConstants PROVE SycoadmSpec => []ReadyMeansLogin
<1>1. SetupInv => ReadyMeansLogin
  BY DEF SetupInv, Bound, ReadyMeansLogin
<1> QED
  BY <1>1, SetupHolds, PTL

\* As long as no probe misreads, k3s is never signalled once Cilium is on the
\* node, wherever the setups before were cut short (setup.rs, install_gvisor).
THEOREM NodeIsLeftAlone == ASSUME SycoadmConstants PROVE SycoadmSpec => []NodeLeftAlone
<1>1. SetupInv => NodeLeftAlone
  BY DEF SetupInv, Runtimes, NodeLeftAlone
<1> QED
  BY <1>1, SetupHolds, PTL
=============================================================================
