----------------------------- MODULE UpdateManager -----------------------------
(***************************************************************************)
(* The updates prepared for each user and not fetched yet.  Every operator *)
(* is one method, run under _mtxUpdates.  The vectors of an update packet  *)
(* are sets: no property depends on the order inside one packet.           *)
(***************************************************************************)
EXTENDS ServerTypes

VARIABLE updates  \* username -> the UpdateResponse prepared so far

UMTypeOK == updates \in [Users -> UpdateResponse]

UMInit == updates = [u \in Users |-> NoUpdates]

\* Fault: the entry is copied, not extracted.
RetrieveUpdatesCopy(u) == UNCHANGED updates

\* Fault: the extracted entry is left without a value.
RetrieveUpdatesHole(u) == updates' = [updates EXCEPT ![u] = Absent]

\* retrieve_updates hands the entry over and removes it.
RetrieveUpdates(u) == updates' = [updates EXCEPT ![u] = NoUpdates]

RegisterOwner(u, s) ==
    updates' = [updates EXCEPT ![u].added_as_owner = @ \cup {s}]

\* Fault: the entry is looked up, not made if there is none.
RegisterRegMemberFind(u, s) ==
    updates' = IF updates[u] = NoUpdates THEN updates
               ELSE [updates EXCEPT ![u].added_as_reg_member = @ \cup {s}]

RegisterRegMember(u, s) ==
    updates' = [updates EXCEPT ![u].added_as_reg_member = @ \cup {s}]

RegisterLookup(u, o) ==
    updates' = [updates EXCEPT ![u].on_lookup = @ \cup {o}]

\* Fault: the list is assigned, not appended to.
RegisterDecryptionParticipatingAssign(u, o, ids) ==
    updates' = [updates EXCEPT ![u].to_decrypt = {[op |-> o, shards_ids |-> ids]}]

RegisterDecryptionParticipating(u, o, ids) ==
    updates' = [updates EXCEPT ![u].to_decrypt =
                    @ \cup {[op |-> o, shards_ids |-> ids]}]

RegisterFinishedDecryption(u, finished) ==
    updates' = [updates EXCEPT ![u].finished_decryptions = @ \cup {finished}]
==============================================================================
