---------------------------- MODULE SnapshotVault ----------------------------
(***************************************************************************)
(* What the snapshot lifecycle promises to list, browse and restore: a     *)
(* snapshot is requested once for a set of source items, becomes visible   *)
(* in one atomic step with one record per requested item, never changes    *)
(* while it is visible, and once retired never comes back.                 *)
(***************************************************************************)
EXTENDS Naturals

CONSTANTS SnapshotId, SourceItem, RecordKind

VARIABLES
    state,      \* where each snapshot is in its visible life
    request,    \* the items its scan emitted
    content     \* the records list_entries and the restore see; {} if hidden

vaultVars == <<state, request, content>>

VaultInit ==
    /\ state = [i \in SnapshotId |-> "unused"]
    /\ request = [i \in SnapshotId |-> {}]
    /\ content = [i \in SnapshotId |-> {}]

Request(i) ==
    /\ state[i] = "unused"
    /\ \E found \in SUBSET SourceItem : request' = [request EXCEPT ![i] = found]
    /\ state' = [state EXCEPT ![i] = "hidden"]
    /\ UNCHANGED content

\* One record per requested item, all of them at once.
MakeVisible(i) ==
    /\ state[i] = "hidden"
    /\ \E kind \in [request[i] -> RecordKind] :
         content' = [content EXCEPT ![i] = {<<p, kind[p]>> : p \in request[i]}]
    /\ state' = [state EXCEPT ![i] = "visible"]
    /\ UNCHANGED request

Retire(i) ==
    /\ state[i] \in {"hidden", "visible"}
    /\ state' = [state EXCEPT ![i] = "retired"]
    /\ content' = [content EXCEPT ![i] = {}]
    /\ UNCHANGED request

VaultNext == \E i \in SnapshotId : Request(i) \/ MakeVisible(i) \/ Retire(i)

VaultSpec == VaultInit /\ [][VaultNext]_vaultVars
=============================================================================
