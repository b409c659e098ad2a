------------------------ MODULE ConversationRegistry ------------------------
(***************************************************************************)
(* The registry of one workspace's conversations (harness registry.rs) and *)
(* the meta.json sidecars it is rebuilt from (conversation.rs).  Minting,  *)
(* renaming and deleting are gRPC requests that run side by side; the pod  *)
(* may die at any point and rebuild the registry from the sidecars.        *)
(*                                                                         *)
(* write_meta truncates meta.json.tmp, writes it and renames it, and every *)
(* writer of a conversation uses the same temporary name.  A file is an    *)
(* inode, named after the request that created it: a writer keeps writing  *)
(* to its inode when another request renames it.  The owner key is         *)
(* abstracted to the conversation it was stamped on; the display name,     *)
(* which no property tells apart, is left out of the payload.              *)
(***************************************************************************)
EXTENDS Naturals, FiniteSets

CONSTANTS
    Ids,          \* conversation ids
    Requests,     \* requests to the registry
    MaxRestarts,  \* bound: pod deaths
    None          \* no file, the empty owner key

ASSUME NoneAssumption == None \notin Ids \cup Requests
ASSUME RestartsAssumption == MaxRestarts \in Nat

VARIABLES
    listed,    \* ids in the registry's meta table
    ownerOf,   \* id -> the owner in its record
    final,     \* id -> inode of meta.json
    tmp,       \* id -> inode of meta.json.tmp
    content,   \* inode -> what the file holds
    pc,        \* request -> where it is
    kind,      \* request -> which operation
    id,        \* request -> the conversation it is about
    owner,     \* request -> the owner it writes
    fd,        \* request -> the inode it has open
    minted,    \* ids whose mint was answered (history)
    deleting,  \* ids a delete of which has begun (history)
    deleted,   \* ids whose delete was answered (history)
    gone,      \* ... since the last boot (history)
    clashed,   \* ids two of whose writers met (history)
    restarts

registryVars == <<listed, ownerOf>>
diskVars     == <<final, tmp, content>>
requestVars  == <<pc, kind, id, owner, fd>>
historyVars  == <<minted, deleting, deleted, gone, clashed>>
vars == <<listed, ownerOf, final, tmp, content, pc, kind, id, owner, fd, minted, deleting,
          deleted, gone, clashed, restarts>>

Whole(o) == [whole |-> TRUE, owner |-> o]
Torn == [whole |-> FALSE, owner |-> None]

----------------------------------------------------------------------------
Init ==
    /\ listed = {}
    /\ ownerOf = [c \in Ids |-> None]
    /\ final = [c \in Ids |-> None]
    /\ tmp = [c \in Ids |-> None]
    /\ content = [r \in Requests |-> Torn]
    /\ pc = [r \in Requests |-> "idle"]
    /\ kind \in [Requests -> {"mint", "rename", "delete"}]
    /\ id \in [Requests -> Ids]
    /\ \A q, r \in Requests : kind[q] = "mint" /\ kind[r] = "mint" /\ q # r => id[q] # id[r]
    /\ owner = [r \in Requests |-> None]
    /\ fd = [r \in Requests |-> None]
    /\ minted = {}
    /\ deleting = {}
    /\ deleted = {}
    /\ gone = {}
    /\ clashed = {}
    /\ restarts = 0

----------------------------------------------------------------------------
(* The gRPC handlers up to their first write *)

\* mint: a fresh id, stamped with the caller's owner key.
Mint(r) ==
    /\ pc[r] = "idle"
    /\ kind[r] = "mint"
    /\ owner' = [owner EXCEPT ![r] = id[r]]
    /\ pc' = [pc EXCEPT ![r] = "open"]
    /\ UNCHANGED <<registryVars, diskVars, kind, id, fd, historyVars, restarts>>

\* set_conversation_name and delete_conversation answer only a listed id.
Admit(r) ==
    /\ pc[r] = "idle"
    /\ kind[r] # "mint"
    /\ id[r] \in listed
    /\ pc' = [pc EXCEPT ![r] = IF kind[r] = "rename" THEN "owner" ELSE "wipe"]
    /\ deleting' = IF kind[r] = "delete" THEN deleting \cup {id[r]} ELSE deleting
    /\ UNCHANGED <<registryVars, diskVars, kind, id, owner, fd, minted, deleted, gone,
                   clashed, restarts>>

\* Mutant of ReadOwner: the rename writes no owner.
ReadNoOwner(r) ==
    /\ pc[r] = "owner"
    /\ pc' = [pc EXCEPT ![r] = "open"]
    /\ UNCHANGED <<registryVars, diskVars, kind, id, owner, fd, historyVars, restarts>>

\* set_name: "The owner is rewritten verbatim", the empty key if the record is gone.
ReadOwner(r) ==
    /\ pc[r] = "owner"
    /\ owner' = [owner EXCEPT ![r] = IF id[r] \in listed THEN ownerOf[id[r]] ELSE None]
    /\ pc' = [pc EXCEPT ![r] = "open"]
    /\ UNCHANGED <<registryVars, diskVars, kind, id, fd, historyVars, restarts>>

----------------------------------------------------------------------------
(* write_meta, on a blocking thread *)

\* Requests that hold the temporary file of c open or have yet to rename it.
Writers(c) == {r \in Requests : id[r] = c /\ pc[r] \in {"write", "rename"}}

\* fs::write opens the temporary name: a new file, or the one that is there, emptied.
OpenTmp(r) ==
    /\ pc[r] = "open"
    /\ LET i == IF tmp[id[r]] = None THEN r ELSE tmp[id[r]] IN
          /\ tmp' = [tmp EXCEPT ![id[r]] = i]
          /\ fd' = [fd EXCEPT ![r] = i]
          /\ content' = [content EXCEPT ![i] = Torn]
    /\ clashed' = IF Writers(id[r]) = {} THEN clashed ELSE clashed \cup {id[r]}
    /\ pc' = [pc EXCEPT ![r] = "write"]
    /\ UNCHANGED <<registryVars, final, kind, id, owner, minted, deleting, deleted, gone,
                   restarts>>

\* The payload is written; over another writer's longer one its tail remains.
WriteTmp(r) ==
    /\ pc[r] = "write"
    /\ \E b \in {Whole(owner[r])} \cup {t \in {Torn} : content[fd[r]].whole} :
          content' = [content EXCEPT ![fd[r]] = b]
    /\ pc' = [pc EXCEPT ![r] = "rename"]
    /\ UNCHANGED <<registryVars, final, tmp, kind, id, owner, fd, historyVars, restarts>>

\* fs::rename moves whatever has the temporary name; nothing has it: Err.
RenameTmp(r) ==
    /\ pc[r] = "rename"
    /\ tmp[id[r]] # None
    /\ final' = [final EXCEPT ![id[r]] = tmp[id[r]]]
    /\ tmp' = [tmp EXCEPT ![id[r]] = None]
    /\ pc' = [pc EXCEPT ![r] = "apply"]
    /\ UNCHANGED <<registryVars, content, kind, id, owner, fd, historyVars, restarts>>

RenameMissing(r) ==
    /\ pc[r] = "rename"
    /\ tmp[id[r]] = None
    /\ pc' = [pc EXCEPT ![r] = "err"]
    /\ UNCHANGED <<registryVars, diskVars, kind, id, owner, fd, historyVars, restarts>>

\* Mutant of WriteMetaFails: the error is swallowed and the request goes on.
WriteMetaIgnored(r) ==
    /\ pc[r] \in {"open", "write"}
    /\ pc' = [pc EXCEPT ![r] = "apply"]
    /\ UNCHANGED <<registryVars, diskVars, kind, id, owner, fd, historyVars, restarts>>

\* Creating the directory, opening or writing the file fails.
WriteMetaFails(r) ==
    /\ pc[r] \in {"open", "write"}
    /\ pc' = [pc EXCEPT ![r] = "err"]
    /\ UNCHANGED <<registryVars, diskVars, kind, id, owner, fd, historyVars, restarts>>

----------------------------------------------------------------------------
(* The registry, once the disk was written *)

\* mint registers the conversation and answers.
Register(r) ==
    /\ pc[r] = "apply"
    /\ kind[r] = "mint"
    /\ listed' = listed \cup {id[r]}
    /\ ownerOf' = [ownerOf EXCEPT ![id[r]] = owner[r]]
    /\ minted' = minted \cup {id[r]}
    /\ pc' = [pc EXCEPT ![r] = "done"]
    /\ UNCHANGED <<diskVars, kind, id, owner, fd, deleting, deleted, gone, clashed,
                   restarts>>

\* Mutant of ApplyName: the record is inserted rather than updated.
ApplyNameInserts(r) ==
    /\ pc[r] = "apply"
    /\ kind[r] = "rename"
    /\ listed' = listed \cup {id[r]}
    /\ ownerOf' = [ownerOf EXCEPT ![id[r]] = owner[r]]
    /\ pc' = [pc EXCEPT ![r] = "done"]
    /\ UNCHANGED <<diskVars, kind, id, owner, fd, historyVars, restarts>>

\* set_name updates the name in the record, if there still is one, and answers.
ApplyName(r) ==
    /\ pc[r] = "apply"
    /\ kind[r] = "rename"
    /\ pc' = [pc EXCEPT ![r] = "done"]
    /\ UNCHANGED <<registryVars, diskVars, kind, id, owner, fd, historyVars, restarts>>

----------------------------------------------------------------------------
(* delete *)

\* remove_dir_all: the conversation's directory is gone.
Wipe(r) ==
    /\ pc[r] = "wipe"
    /\ final' = [final EXCEPT ![id[r]] = None]
    /\ tmp' = [tmp EXCEPT ![id[r]] = None]
    /\ pc' = [pc EXCEPT ![r] = "evict"]
    /\ UNCHANGED <<registryVars, content, kind, id, owner, fd, historyVars, restarts>>

\* Some of it is gone, and the call returned an error: nothing is evicted.
WipeFails(r) ==
    /\ pc[r] = "wipe"
    /\ \E f \in {final[id[r]], None}, t \in {tmp[id[r]], None} :
          /\ final' = [final EXCEPT ![id[r]] = f]
          /\ tmp' = [tmp EXCEPT ![id[r]] = t]
    /\ pc' = [pc EXCEPT ![r] = "err"]
    /\ UNCHANGED <<registryVars, content, kind, id, owner, fd, historyVars, restarts>>

\* The registry entry, and the cached log, are evicted and the call answers.
Evict(r) ==
    /\ pc[r] = "evict"
    /\ listed' = listed \ {id[r]}
    /\ deleted' = deleted \cup {id[r]}
    /\ gone' = gone \cup {id[r]}
    /\ pc' = [pc EXCEPT ![r] = "done"]
    /\ UNCHANGED <<ownerOf, diskVars, kind, id, owner, fd, minted, deleting, clashed,
                   restarts>>

----------------------------------------------------------------------------
(* The pod *)

\* walk_conversations skips a directory with no meta.json or a malformed one.
Readable(c) == final[c] # None /\ content[final[c]].whole

\* The pod dies, with the requests it was serving, and boots: rebuild_from_disk
\* seeds the registry before anything is served.  A sidecar that cannot be read is
\* skipped; if the walk fails the pod serves with an empty registry.
Reboot ==
    /\ restarts < MaxRestarts
    /\ restarts' = restarts + 1
    /\ \E seeded \in SUBSET {c \in Ids : Readable(c)} :
          /\ listed' = seeded
          /\ ownerOf' = [c \in Ids |-> IF c \in seeded THEN content[final[c]].owner ELSE None]
    /\ pc' = [r \in Requests |-> IF pc[r] = "idle" THEN "idle" ELSE "done"]
    /\ gone' = {}
    /\ UNCHANGED <<diskVars, kind, id, owner, fd, minted, deleting, deleted, clashed>>

Serve(r) ==
    \/ Mint(r) \/ Admit(r) \/ ReadOwner(r)
    \/ OpenTmp(r) \/ WriteTmp(r) \/ RenameTmp(r) \/ RenameMissing(r) \/ WriteMetaFails(r)
    \/ Register(r) \/ ApplyName(r)
    \/ Wipe(r) \/ WipeFails(r) \/ Evict(r)

\* No request is left that could be served.
Settled ==
    /\ \A r \in Requests : pc[r] \in {"idle", "done", "err"}
    /\ UNCHANGED vars

Next ==
    \/ \E r \in Requests : Serve(r)
    \/ Reboot
    \/ Settled

Spec == Init /\ [][Next]_vars

----------------------------------------------------------------------------
(* Properties *)

\* Every variable has its type; a request that writes has a file open.
TypeOK ==
    /\ listed \subseteq Ids
    /\ ownerOf \in [Ids -> Ids \cup {None}]
    /\ final \in [Ids -> Requests \cup {None}]
    /\ tmp \in [Ids -> Requests \cup {None}]
    /\ content \in [Requests -> [whole : BOOLEAN, owner : Ids \cup {None}]]
    /\ pc \in [Requests -> {"idle", "owner", "open", "write", "rename", "apply", "wipe",
                            "evict", "done", "err"}]
    /\ kind \in [Requests -> {"mint", "rename", "delete"}]
    /\ id \in [Requests -> Ids]
    /\ owner \in [Requests -> Ids \cup {None}]
    /\ fd \in [Requests -> Requests \cup {None}]
    /\ \A r \in Requests : pc[r] \in {"write", "rename"} => fd[r] # None
    /\ minted \subseteq Ids /\ deleting \subseteq Ids /\ deleted \subseteq Ids
    /\ gone \subseteq Ids /\ clashed \subseteq Ids
    /\ restarts \in Nat

\* "a rename must never orphan a conversation from the subject that minted it":
\* whatever renames, failures and reboots happen, a listed conversation that
\* nobody began to delete has the owner it was minted with.
OwnerKept == \A c \in listed : c \notin deleting => ownerOf[c] = c

\* Until the pod reboots a deleted conversation is not listed again, though renames
\* and failed deletes of it may still be running.
DeletedStaysGone == gone \cap listed = {}

\* "ownership survives a harness roll": a conversation whose mint was answered and
\* that nobody began to delete has at every moment a sidecar a reboot can seed it
\* from, with its owner, unless two writers of that sidecar met.
MintedSurvivesReboot ==
    \A c \in minted : c \notin deleting /\ c \notin clashed
        => Readable(c) /\ content[final[c]].owner = c

\* "so concurrent readers never see a half-written file".
MetaNeverTorn == \A c \in Ids : final[c] # None => content[final[c]].whole

\* "a previously-deleted id can never resurrect into `list`/`owns`".
NoResurrection == deleted \cap listed = {}
=============================================================================
