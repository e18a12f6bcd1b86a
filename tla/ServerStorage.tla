----------------------------- MODULE ServerStorage -----------------------------
(***************************************************************************)
(* SqliteServerStorage under the connecting and the connected client       *)
(* handlers: three tables, each statement a critical section of _mtxDB.    *)
(* Every connection has a thread of the server; a statement may fail, and  *)
(* the process may crash and be started again over the same database.      *)
(*                                                                         *)
(* What make_userset hands to the update manager is kept in memory.        *)
(***************************************************************************)
EXTENDS Naturals, Sequences, FiniteSets, SequencesExt

CONSTANTS
    Conns,
    Users,
    UserSetIDs,
    Passwords,
    Stored,      \* the accounts in the database at first
    Plans,       \* what usersets may be asked for
    MaxMembers,  \* MAX_MEMBERS: shard IDs are sampled from 1..MaxMembers
    None,
    MaxFaults    \* failed statements and crashes

ASSUME StorageConstants ==
    /\ Stored \in [Users -> Passwords \cup {None}] /\ None \notin Passwords \cup Users
    /\ None \notin [owners : Nat, regs : Nat]
    /\ \A info \in SUBSET [username : Users, shard_id : 1..MaxMembers, is_owner : BOOLEAN] :
          info # None
    /\ Plans \subseteq [owners : Seq(Users), reg_members : Seq(Users),
                        owners_threshold : Nat, reg_members_threshold : Nat]
    /\ IsFiniteSet(Users) /\ MaxMembers \in Nat /\ MaxFaults \in Nat

VARIABLES
    accounts,      \* table Users: a password, hashed, by username
    usersets,      \* table UserSets: the thresholds by ID
    members,       \* table Members, in the order of insertion
    owed,          \* UpdateManager: key shards not yet fetched
    pc, username, req, id, todo, sampled,   \* of each connection's thread
    intended,      \* the rows each userset was inserted for (history)
    faults         \* failed statements and crashes so far

tables == <<accounts, usersets, members>>
thread == <<pc, username, req, id, todo, sampled>>
vars == <<tables, owed, thread, intended, faults>>

ShardIDs == 1..MaxMembers
Row(m, isOwner) == [username |-> m, is_owner |-> isOwner]
Thresholds(plan) == [owners |-> plan.owners_threshold, regs |-> plan.reg_members_threshold]

\* new_userset reads the names into sets; the creator is one of the owners.
PlannedRows(creator, plan) ==
    LET owners == ToSet(plan.owners) \cup {creator}
        regs == ToSet(plan.reg_members)
    IN  SetToSeq({Row(m, TRUE) : m \in owners}) \o SetToSeq({Row(m, FALSE) : m \in regs})

Init ==
    /\ accounts = Stored
    /\ usersets = [i \in UserSetIDs |-> None] /\ members = <<>>
    /\ owed = {}
    /\ pc = [c \in Conns |-> "connecting"]
    /\ username = [c \in Conns |-> None]
    /\ req = [c \in Conns |-> None] /\ id = [c \in Conns |-> None]
    /\ todo = [c \in Conns |-> <<>>] /\ sampled = [c \in Conns |-> None]
    /\ intended = [i \in UserSetIDs |-> <<>>]
    /\ faults = 0

-----------------------------------------------------------------------------
\* The numbers of a userset's rows, and the ID get_shard_id reads: the last row's.
RowsOf(i) == {k \in 1..Len(members) : members[k].userset_id = i}
ShardOf(m, i) == LET rows == {k \in RowsOf(i) : members[k].username = m}
                 IN  IF rows = {} THEN 0 ELSE members[Max(rows)].shard_id

\* A request is answered, and the thread goes on as "connecting" or "connected".
Answer(c, next) ==
    /\ pc' = [pc EXCEPT ![c] = next]
    /\ req' = [req EXCEPT ![c] = None] /\ id' = [id EXCEPT ![c] = None]
    /\ todo' = [todo EXCEPT ![c] = <<>>] /\ sampled' = [sampled EXCEPT ![c] = None]

\* An exception that is no ServerException is only logged: nobody is answered.
Silent(c) == Answer(c, "silent")

Idle(c) == pc[c] \in {"connecting", "connected"}
Step(c, from, to) == pc[c] = from /\ pc' = [pc EXCEPT ![c] = to]
Local == UNCHANGED <<accounts, usersets, members, owed, username, intended, faults>>

-----------------------------------------------------------------------------
\* ConnectingClientHandler.
Signup(c, u, p) ==
    /\ Step(c, "connecting", "new_user")
    /\ req' = [req EXCEPT ![c] = [username |-> u, password |-> p]]
    /\ UNCHANGED <<id, todo, sampled>> /\ Local

\* new_user looks the name up ...
CheckNewUser(c) ==
    /\ pc[c] = "new_user"
    /\ IF accounts[req[c].username] # None
       THEN Answer(c, "connecting")
       ELSE Step(c, "new_user", "insert_user") /\ UNCHANGED <<req, id, todo, sampled>>
    /\ Local

\* ... and inserts it in a critical section of its own; the primary key refuses a
\* second row.
InsertUser(c) ==
    /\ pc[c] = "insert_user"
    /\ LET u == req[c].username IN
       IF accounts[u] # None
       THEN Answer(c, "connecting") /\ UNCHANGED <<accounts, username>>
       ELSE /\ accounts' = [accounts EXCEPT ![u] = req[c].password]
            /\ username' = [username EXCEPT ![c] = u]
            /\ Answer(c, "connected")
    /\ UNCHANGED <<usersets, members, owed, intended, faults>>

Login(c, u, p) ==
    /\ pc[c] = "connecting"
    /\ IF accounts[u] = p
       THEN username' = [username EXCEPT ![c] = u] /\ Answer(c, "connected")
       ELSE UNCHANGED username /\ Answer(c, "connecting")
    /\ UNCHANGED <<tables, owed, intended, faults>>

\* handle_request(LogoutRequest) of either handler ends the connection, as does
\* a lost one; another may come in its place.
Logout(c) ==
    /\ pc[c] \in {"connecting", "connected", "silent"}
    /\ username' = [username EXCEPT ![c] = None]
    /\ Answer(c, "connecting")
    /\ UNCHANGED <<tables, owed, intended, faults>>

-----------------------------------------------------------------------------
Making == {"check_members", "insert_userset"}
\* UserSetIDs stands for an ID space that is never used up.
IDsLeft == Cardinality({i \in UserSetIDs : usersets[i] # None})
           + Cardinality({c \in Conns : pc[c] \in Making}) < Cardinality(UserSetIDs)

\* make_userset, as far as the storage and the update manager go.
MakeUserSet(c, plan) ==
    /\ IDsLeft /\ Step(c, "connected", "check_members")
    /\ req' = [req EXCEPT ![c] = plan]
    /\ todo' = [todo EXCEPT ![c] = PlannedRows(username[c], plan)]
    /\ UNCHANGED <<id, sampled>> /\ Local

\* The members are looked up one by one.
CheckMember(c) ==
    /\ pc[c] = "check_members" /\ todo[c] # <<>>
    /\ IF accounts[Head(todo[c]).username] = None
       THEN Answer(c, "connected")
       ELSE /\ todo' = [todo EXCEPT ![c] = Tail(@)]
            /\ UNCHANGED <<pc, req, id, sampled>>
    /\ Local

\* generate_unique_userset_id samples until the ID is not in the table.
ChooseUserSetID(c) == \E i \in UserSetIDs :
    /\ pc[c] = "check_members" /\ todo[c] = <<>> /\ usersets[i] = None
    /\ Step(c, "check_members", "insert_userset")
    /\ id' = [id EXCEPT ![c] = i]
    /\ UNCHANGED <<req, todo, sampled>> /\ Local

\* Fault: an existing row is taken over.
InsertUserSetReplace(c) ==
    /\ Step(c, "insert_userset", "sample_shard")
    /\ usersets' = [usersets EXCEPT ![id[c]] = Thresholds(req[c])]
    /\ intended' = [intended EXCEPT ![id[c]] = PlannedRows(username[c], req[c])]
    /\ todo' = [todo EXCEPT ![c] = PlannedRows(username[c], req[c])]
    /\ UNCHANGED <<accounts, members, owed, username, req, id, sampled, faults>>

InsertUserSet(c) ==
    /\ pc[c] = "insert_userset"
    /\ IF usersets[id[c]] # None
       THEN /\ Answer(c, "connected")
            /\ UNCHANGED <<usersets, intended>>
       ELSE /\ Step(c, "insert_userset", "sample_shard")
            /\ usersets' = [usersets EXCEPT ![id[c]] = Thresholds(req[c])]
            /\ intended' = [intended EXCEPT ![id[c]] = PlannedRows(username[c], req[c])]
            /\ todo' = [todo EXCEPT ![c] = PlannedRows(username[c], req[c])]
            /\ UNCHANGED <<req, id, sampled>>
    /\ UNCHANGED <<accounts, members, owed, username, faults>>

\* Fault: the range of the samples ends one below MAX_MEMBERS.
FreeShardIDsBelow(i) ==
    {x \in ShardIDs \ {MaxMembers} :
        \A r \in ToSet(members) : r.userset_id = i => r.shard_id # x}
\* Fault: what has been sampled before is not looked up.
FreeShardIDsAll(i) == ShardIDs

FreeShardIDs(i) == {x \in ShardIDs : \A r \in ToSet(members) : r.userset_id = i => r.shard_id # x}

\* generate_unique_shard_id samples until the ID is free, for ever if none is.
SampleShardID(c) == \E x \in FreeShardIDs(id[c]) :
    /\ todo[c] # <<>>
    /\ Step(c, "sample_shard", "insert_member")
    /\ sampled' = [sampled EXCEPT ![c] = x]
    /\ UNCHANGED <<req, id, todo>> /\ Local

\* Fault: the loop ends one member early.
IsLastEarly(names) == Len(names) <= 2

IsLast(names) == Len(names) = 1

InsertMember(c) ==
    /\ pc[c] = "insert_member"
    /\ Step(c, "insert_member", IF IsLast(todo[c]) THEN "make_keys" ELSE "sample_shard")
    /\ members' = Append(members, [username |-> Head(todo[c]).username, userset_id |-> id[c],
                                   shard_id |-> sampled[c], is_owner |-> Head(todo[c]).is_owner])
    /\ todo' = [todo EXCEPT ![c] = Tail(@)]
    /\ UNCHANGED <<accounts, usersets, owed, username, req, id, sampled, intended,
                   faults>>

\* make_shards refuses an ID given twice: a name listed twice, in the same list.
MakesShards(plan) == IsInjective(plan.owners) /\ IsInjective(plan.reg_members)

\* The key shards are made for the stored IDs and registered as updates.
MakeKeys(c) ==
    /\ pc[c] = "make_keys"
    /\ IF MakesShards(req[c])
       THEN /\ owed' = owed \cup {[username |-> m, userset_id |-> id[c],
                                   shard_id |-> ShardOf(m, id[c])] :
                                  m \in ToSet(req[c].owners) \cup ToSet(req[c].reg_members)}
            /\ Answer(c, "connected")
       ELSE Silent(c) /\ UNCHANGED owed
    /\ UNCHANGED <<tables, username, intended, faults>>

\* retrieve_updates.
Update(c) ==
    /\ pc[c] = "connected"
    /\ owed' = {k \in owed : k.username # username[c]}
    /\ UNCHANGED <<tables, thread, intended, faults>>

-----------------------------------------------------------------------------
\* get_usersets: what u owns, from the first of its rows on.
GetUserSets(u) == {r.userset_id : r \in {x \in ToSet(members) : x.username = u /\ x.is_owner}}

\* A bound: one thread reads at a time, as reads change nothing.
NobodyReads == \A c \in Conns : pc[c] # "read_members"

\* GetMembersRequest, for an ID that some owner was given, perhaps too early;
\* get_userset_info reads two tables, one after the other.
GetMembers(c) == \E i \in UNION {GetUserSets(u) : u \in Users} :
    /\ NobodyReads /\ Step(c, "connected", "read_members")
    /\ req' = [req EXCEPT ![c] = [there |-> RowsOf(i)]]
    /\ id' = [id EXCEPT ![c] = i]
    /\ sampled' = [sampled EXCEPT ![c] = usersets[i]]
    /\ UNCHANGED todo /\ Local

\* Fault: only the owners are read.
MemberRowsOwners(i) == {k \in RowsOf(i) : members[k].is_owner}

MemberRows(i) == RowsOf(i)

\* The rows are answered with the thresholds.
ReadMembers(c) == pc[c] = "read_members" /\ Answer(c, "connected") /\ Local

-----------------------------------------------------------------------------
\* A statement fails: what the handler catches is answered with an error.
Fail(c) ==
    /\ faults < MaxFaults /\ faults' = faults + 1
    /\ pc[c] \in {"new_user", "insert_user", "check_members", "insert_userset",
                  "sample_shard", "insert_member", "make_keys", "read_members"}
    /\ Answer(c, IF pc[c] \in {"new_user", "insert_user"} THEN "connecting"
                          ELSE "connected")
    /\ UNCHANGED <<tables, owed, username, intended>>

\* handle_request(LoginRequest) catches nothing.
FailLogin(c) ==
    /\ faults < MaxFaults /\ faults' = faults + 1
    /\ pc[c] = "connecting" /\ Silent(c)
    /\ UNCHANGED <<tables, owed, username, intended>>

\* The process crashes, and is started again.
Crash ==
    /\ faults < MaxFaults /\ faults' = faults + 1
    /\ owed' = {}
    /\ pc' = [c \in Conns |-> "connecting"] /\ username' = [c \in Conns |-> None]
    /\ req' = [c \in Conns |-> None] /\ id' = [c \in Conns |-> None]
    /\ todo' = [c \in Conns |-> <<>>] /\ sampled' = [c \in Conns |-> None]
    /\ UNCHANGED <<tables, intended>>

Requests(c) ==
    \/ \E u \in Users, p \in Passwords : Signup(c, u, p) \/ Login(c, u, p)
    \/ \E plan \in Plans : MakeUserSet(c, plan)
    \/ Update(c) \/ GetMembers(c) \/ Logout(c)

\* What a thread does to answer a request.
Work(c) ==
    \/ CheckNewUser(c) \/ InsertUser(c)
    \/ CheckMember(c) \/ ChooseUserSetID(c) \/ InsertUserSet(c) \/ SampleShardID(c)
    \/ InsertMember(c) \/ MakeKeys(c)
    \/ ReadMembers(c)

Next ==
    \/ \E c \in Conns : Requests(c) \/ Work(c) \/ Fail(c) \/ FailLogin(c)
    \/ Crash

Spec == Init /\ [][Next]_vars
FairSpec == Spec /\ \A c \in Conns : WF_vars(Work(c))
=============================================================================
