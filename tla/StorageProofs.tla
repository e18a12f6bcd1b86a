----------------------------- MODULE StorageProofs -----------------------------
(***************************************************************************)
(* The shard IDs of a userset differ, what make_userset answered for is    *)
(* whole, and accounts and usersets come into being in one step each, for  *)
(* any connections, users, plans and faults.                               *)
(*                                                                         *)
(* The argument: one thread inserts the rows of a userset, and it has as   *)
(* many left to insert as the userset lacks.                               *)
(***************************************************************************)
EXTENDS StorageProperties, FiniteSetTheorems, SequenceTheorems, WellFoundedInduction, TLAPS

\* A row is of a userset that is in the table, as is the one a thread inserts into.
UserSetsMade ==
    /\ \A k \in 1..Len(members) : usersets[members[k].userset_id] # None
    /\ \A c \in Conns : pc[c] \in Inserting => usersets[id[c]] # None

\* One thread inserts the members of a userset: the one that inserted its row.
OneInserter ==
    \A c, d \in Conns : pc[c] \in Inserting /\ pc[d] \in Inserting /\ id[c] = id[d] => c = d

\* What was sampled is still free when it is inserted.
SampledIsFree ==
    \A c \in Conns : pc[c] = "insert_member" =>
        \A k \in 1..Len(members) :
            members[k].userset_id = id[c] => members[k].shard_id # sampled[c]

\* The inductive invariant.
StorageInv == TypeOK /\ UserSetsMade /\ OneInserter /\ SampledIsFree /\ ShardIDsDiffer

-----------------------------------------------------------------------------
\* A finite set has a sequence of its elements: SetToSeq chooses one.
LEMMA SetToSeqProperties ==
    ASSUME NEW S, IsFiniteSet(S)
    PROVE  SetToSeq(S) \in Seq(S) /\ (S # {} => SetToSeq(S) # <<>>)
<1> DEFINE n == Cardinality(S)
<1>1. n \in Nat /\ ExistsBijection(1..n, S)
  BY FS_CardinalityType
<1>2. PICK f \in [1..n -> S] : IsInjective(f) /\ \A s \in S : \E k \in 1..n : f[k] = s
  BY <1>1 DEF ExistsBijection, Bijection, Injection, Surjection
<1>3. SetToSeq(S) \in [1..n -> S] /\ IsInjective(SetToSeq(S))
  BY <1>2 DEF SetToSeq
<1>4. SetToSeq(S) \in Seq(S)
  BY <1>1, <1>3
<1>5. ASSUME S # {} PROVE SetToSeq(S) # <<>>
  <2>1. n # 0
    BY <1>5, FS_EmptySet
  <2> QED
    BY <2>1, <1>1, <1>3
<1> QED
  BY <1>4, <1>5

\* The planned rows name users, and there is at least the creator's.
LEMMA PlannedRowsProperties ==
    ASSUME NEW creator \in Users, NEW plan \in Plans
    PROVE  PlannedRows(creator, plan) \in Seq(PlannedRow) /\ PlannedRows(creator, plan) # <<>>
<1> DEFINE owners == ToSet(plan.owners) \cup {creator}
           regs == ToSet(plan.reg_members)
           RowsFor(names, b) == {Row(m, b) : m \in names}
<1>1. owners \in SUBSET Users /\ regs \in SUBSET Users
  BY StorageConstants DEF ToSet
<1>2. ASSUME NEW names \in SUBSET Users, NEW b \in BOOLEAN
      PROVE  IsFiniteSet(RowsFor(names, b)) /\ RowsFor(names, b) \in SUBSET PlannedRow
  <2> DEFINE f == [m \in names |-> Row(m, b)]
  <2>1. f \in Surjection(names, RowsFor(names, b))
    BY DEF Surjection
  <2>2. IsFiniteSet(names)
    BY FS_Subset, StorageConstants
  <2>3. IsFiniteSet(RowsFor(names, b))
    BY <2>1, <2>2, FS_Surjection
  <2> QED
    BY <2>3 DEF Row, PlannedRow
<1>3. /\ SetToSeq(RowsFor(owners, TRUE)) \in Seq(PlannedRow)
      /\ SetToSeq(RowsFor(regs, FALSE)) \in Seq(PlannedRow)
  BY <1>1, <1>2, SetToSeqProperties, SeqMonotonic
<1>4. SetToSeq(RowsFor(owners, TRUE)) # <<>>
  BY <1>1, <1>2, SetToSeqProperties
<1>5. PlannedRows(creator, plan) = SetToSeq(RowsFor(owners, TRUE)) \o SetToSeq(RowsFor(regs, FALSE))
  BY DEF PlannedRows
<1> DEFINE first == SetToSeq(RowsFor(owners, TRUE))
           second == SetToSeq(RowsFor(regs, FALSE))
<1>6. first \in Seq(PlannedRow) /\ second \in Seq(PlannedRow) /\ first # <<>>
  BY <1>3, <1>4
<1>7. PlannedRows(creator, plan) = first \o second
  BY <1>5
<1> HIDE DEF first, second
<1>8. first \o second \in Seq(PlannedRow) /\ first \o second # <<>>
  BY <1>6, ConcatProperties, ConcatEqualIffEmpty
<1> QED
  BY <1>7, <1>8

-----------------------------------------------------------------------------
\* The initial states satisfy the inductive invariant.
LEMMA InitStorageInv == Init => StorageInv
<1> SUFFICES ASSUME Init PROVE StorageInv
  OBVIOUS
<1>1. members = <<>> /\ Len(members) = 0 /\ members \in Seq(Members)
  BY EmptySeq DEF Init
<1>2. <<>> \in Seq(PlannedRow)
  BY EmptySeq
<1> QED
  BY <1>1, <1>2, StorageConstants DEF Init, StorageInv, TypeOK, Locations, Inserting, UserSetsMade,
     OneInserter, SampledIsFree, ShardIDsDiffer

\* A step that inserts nothing, samples nothing and makes nobody an inserter.
LEMMA StepsAside ==
    ASSUME StorageInv, UNCHANGED <<usersets, members>>,
           \A c \in Conns :
               /\ pc'[c] \in Inserting => pc[c] \in Inserting /\ id'[c] = id[c]
               /\ pc'[c] = "insert_member" => pc[c] = "insert_member" /\ sampled'[c] = sampled[c]
    PROVE  UserSetsMade' /\ OneInserter' /\ SampledIsFree' /\ ShardIDsDiffer'
<1>1. UserSetsMade'
  BY DEF StorageInv, UserSetsMade
<1>2. OneInserter'
  BY DEF StorageInv, OneInserter
<1>3. SampledIsFree'
  BY DEF StorageInv, SampledIsFree, Inserting
<1>4. ShardIDsDiffer'
  BY DEF StorageInv, ShardIDsDiffer
<1> QED
  BY <1>1, <1>2, <1>3, <1>4

\* Answering a request leaves the thread without locals, and the others as they were.
LEMMA AnswerTypes ==
    ASSUME TypeOK, NEW c \in Conns, NEW next \in {"connecting", "connected", "silent"}, Answer(c, next),
           UNCHANGED <<usersets, members>>, faults' \in 0..MaxFaults,
           accounts' \in [Users -> Passwords \cup {None}],
           username' \in [Conns -> Users \cup {None}],
           \A d \in Conns \ {c} : username'[d] = username[d],
           next = "connected" => username'[c] \in Users
    PROVE  TypeOK'
<1>1. todo' \in [Conns -> Seq(PlannedRow)]
  BY EmptySeq DEF Answer, TypeOK
<1>2. pc' \in [Conns -> Locations] /\ id' \in [Conns -> UserSetIDs \cup {None}]
      /\ DOMAIN req' = Conns /\ DOMAIN sampled' = Conns
  BY DEF Answer, TypeOK, Locations
<1>3. ASSUME NEW d \in Conns \ {c}
      PROVE  /\ pc'[d] = pc[d] /\ req'[d] = req[d] /\ id'[d] = id[d] /\ todo'[d] = todo[d]
             /\ sampled'[d] = sampled[d]
  BY DEF Answer, TypeOK
<1>4. pc'[c] = next
  BY DEF Answer, TypeOK
<1> QED
  BY <1>1, <1>2, <1>3, <1>4 DEF TypeOK, Inserting

\* ... and neither inserts nor samples.
LEMMA AnswersAside ==
    ASSUME StorageInv, NEW c \in Conns, NEW next \in {"connecting", "connected", "silent"}, Answer(c, next),
           UNCHANGED <<usersets, members>>
    PROVE  UserSetsMade' /\ OneInserter' /\ SampledIsFree' /\ ShardIDsDiffer'
<1>1. \A d \in Conns :
          /\ pc'[d] \in Inserting => pc[d] \in Inserting /\ id'[d] = id[d]
          /\ pc'[d] = "insert_member" => pc[d] = "insert_member" /\ sampled'[d] = sampled[d]
  BY DEF Answer, Inserting, StorageInv, TypeOK
<1> QED
  BY <1>1, StepsAside

-----------------------------------------------------------------------------
\* Each action of a thread keeps the inductive invariant.
LEMMA SignupInv ==
    ASSUME StorageInv, NEW c \in Conns, NEW u \in Users, NEW p \in Passwords, Signup(c, u, p)
    PROVE  StorageInv'
<1>1. TypeOK'
  BY DEF Signup, Step, Local, StorageInv, TypeOK, Locations, Inserting
<1>2. UserSetsMade' /\ OneInserter' /\ SampledIsFree' /\ ShardIDsDiffer'
  BY StepsAside DEF Signup, Step, Local, StorageInv, TypeOK, Inserting
<1> QED
  BY <1>1, <1>2 DEF StorageInv

LEMMA CheckNewUserInv ==
    ASSUME StorageInv, NEW c \in Conns, CheckNewUser(c)
    PROVE  StorageInv'
<1>1. CASE Answer(c, "connecting")
  <2>1. TypeOK'
    BY <1>1, AnswerTypes DEF CheckNewUser, Local, StorageInv, TypeOK
  <2> QED
    BY <1>1, <2>1, AnswersAside DEF CheckNewUser, Local, StorageInv
<1>2. CASE Step(c, "new_user", "insert_user") /\ UNCHANGED <<req, id, todo, sampled>>
  <2>1. TypeOK'
    BY <1>2 DEF CheckNewUser, Step, Local, StorageInv, TypeOK, Locations, Inserting
  <2>2. UserSetsMade' /\ OneInserter' /\ SampledIsFree' /\ ShardIDsDiffer'
    BY <1>2, StepsAside DEF CheckNewUser, Step, Local, StorageInv, TypeOK, Inserting
  <2> QED
    BY <2>1, <2>2 DEF StorageInv
<1> QED
  BY <1>1, <1>2 DEF CheckNewUser

LEMMA InsertUserInv ==
    ASSUME StorageInv, NEW c \in Conns, InsertUser(c)
    PROVE  StorageInv'
<1>1. PICK next \in {"connecting", "connected"} : Answer(c, next) /\ (next = "connected" => username'[c] \in Users)
  BY DEF InsertUser, StorageInv, TypeOK
<1>2. /\ accounts' \in [Users -> Passwords \cup {None}]
      /\ username' \in [Conns -> Users \cup {None}]
      /\ \A d \in Conns \ {c} : username'[d] = username[d]
  BY DEF InsertUser, StorageInv, TypeOK
<1>3. UNCHANGED <<usersets, members, faults>>
  BY DEF InsertUser
<1>4. TypeOK'
  BY <1>1, <1>2, <1>3, AnswerTypes DEF StorageInv, TypeOK
<1> QED
  BY <1>1, <1>3, <1>4, AnswersAside DEF StorageInv

LEMMA LoginInv ==
    ASSUME StorageInv, NEW c \in Conns, NEW u \in Users, NEW p \in Passwords, Login(c, u, p)
    PROVE  StorageInv'
<1>1. PICK next \in {"connecting", "connected"} : Answer(c, next) /\ (next = "connected" => username'[c] \in Users)
  BY DEF Login, StorageInv, TypeOK
<1>2. /\ accounts' \in [Users -> Passwords \cup {None}]
      /\ username' \in [Conns -> Users \cup {None}]
      /\ \A d \in Conns \ {c} : username'[d] = username[d]
  BY DEF Login, tables, StorageInv, TypeOK
<1>3. UNCHANGED <<usersets, members, faults>>
  BY DEF Login, tables
<1>4. TypeOK'
  BY <1>1, <1>2, <1>3, AnswerTypes DEF StorageInv, TypeOK
<1> QED
  BY <1>1, <1>3, <1>4, AnswersAside DEF StorageInv

LEMMA LogoutInv ==
    ASSUME StorageInv, NEW c \in Conns, Logout(c)
    PROVE  StorageInv'
<1>1. /\ Answer(c, "connecting") /\ UNCHANGED <<accounts, usersets, members, faults>>
      /\ username' \in [Conns -> Users \cup {None}]
      /\ \A d \in Conns \ {c} : username'[d] = username[d]
  BY DEF Logout, tables, StorageInv, TypeOK
<1>2. TypeOK'
  BY <1>1, AnswerTypes DEF StorageInv, TypeOK
<1> QED
  BY <1>1, <1>2, AnswersAside DEF StorageInv

LEMMA MakeUserSetInv ==
    ASSUME StorageInv, NEW c \in Conns, NEW plan \in Plans, MakeUserSet(c, plan)
    PROVE  StorageInv'
<1>1. username[c] \in Users /\ PlannedRows(username[c], plan) \in Seq(PlannedRow)
  BY PlannedRowsProperties DEF MakeUserSet, Step, StorageInv, TypeOK
<1>2. TypeOK'
  BY <1>1 DEF MakeUserSet, Step, Local, StorageInv, TypeOK, Locations, Inserting
<1>3. UserSetsMade' /\ OneInserter' /\ SampledIsFree' /\ ShardIDsDiffer'
  BY StepsAside DEF MakeUserSet, Step, Local, StorageInv, TypeOK, Inserting
<1> QED
  BY <1>2, <1>3 DEF StorageInv

LEMMA CheckMemberInv ==
    ASSUME StorageInv, NEW c \in Conns, CheckMember(c)
    PROVE  StorageInv'
<1>1. CASE Answer(c, "connected")
  <2>1. TypeOK'
    BY <1>1, AnswerTypes DEF CheckMember, Local, StorageInv, TypeOK
  <2> QED
    BY <1>1, <2>1, AnswersAside DEF CheckMember, Local, StorageInv
<1>2. CASE todo' = [todo EXCEPT ![c] = Tail(@)] /\ UNCHANGED <<pc, req, id, sampled>>
  <2>1. Tail(todo[c]) \in Seq(PlannedRow)
    BY HeadTailProperties DEF CheckMember, StorageInv, TypeOK
  <2>2. TypeOK'
    BY <1>2, <2>1 DEF CheckMember, Local, StorageInv, TypeOK, Inserting
  <2>3. UserSetsMade' /\ OneInserter' /\ SampledIsFree' /\ ShardIDsDiffer'
    BY <1>2, StepsAside DEF CheckMember, Local, StorageInv, TypeOK, Inserting
  <2> QED
    BY <2>2, <2>3 DEF StorageInv
<1> QED
  BY <1>1, <1>2 DEF CheckMember

LEMMA ChooseUserSetIDInv ==
    ASSUME StorageInv, NEW c \in Conns, ChooseUserSetID(c)
    PROVE  StorageInv'
<1>1. TypeOK'
  BY DEF ChooseUserSetID, Step, Local, StorageInv, TypeOK, Locations, Inserting
<1>2. UserSetsMade' /\ OneInserter' /\ SampledIsFree' /\ ShardIDsDiffer'
  BY StepsAside DEF ChooseUserSetID, Step, Local, StorageInv, TypeOK, Inserting
<1> QED
  BY <1>1, <1>2 DEF StorageInv

\* The row of a userset that was not there makes its thread the one that inserts into it.
LEMMA InsertUserSetInv ==
    ASSUME StorageInv, NEW c \in Conns, InsertUserSet(c)
    PROVE  StorageInv'
<1>1. CASE usersets[id[c]] # None
  <2>1. Answer(c, "connected") /\ UNCHANGED <<accounts, usersets, members, username, faults>>
    BY <1>1 DEF InsertUserSet
  <2>2. username[c] \in Users
    BY DEF InsertUserSet, StorageInv, TypeOK
  <2>3. TypeOK'
    BY <2>1, <2>2, AnswerTypes DEF StorageInv, TypeOK
  <2> QED
    BY <2>1, <2>3, AnswersAside DEF StorageInv
<1>2. CASE usersets[id[c]] = None
  <2> DEFINE rows == PlannedRows(username[c], req[c])
  <2>1. /\ pc[c] = "insert_userset" /\ id[c] \in UserSetIDs
        /\ req[c] \in Plans /\ username[c] \in Users
    BY DEF InsertUserSet, StorageInv, TypeOK
  <2>2. /\ pc' = [pc EXCEPT ![c] = "sample_shard"]
        /\ usersets' = [usersets EXCEPT ![id[c]] = Thresholds(req[c])]
        /\ todo' = [todo EXCEPT ![c] = rows]
        /\ UNCHANGED <<accounts, members, username, req, id, sampled, faults>>
    BY <1>2 DEF InsertUserSet, Step
  <2>3. rows \in Seq(PlannedRow) /\ rows # <<>>
    BY <2>1, PlannedRowsProperties
  <2>4. Thresholds(req[c]) \in [owners : Nat, regs : Nat] /\ Thresholds(req[c]) # None
    BY <2>1, StorageConstants DEF Thresholds
  <2> HIDE DEF rows
  <2>5. TypeOK'
    BY <2>1, <2>2, <2>3, <2>4 DEF StorageInv, TypeOK, Locations, Inserting
  <2>6. UserSetsMade'
    BY <2>1, <2>2, <2>4 DEF StorageInv, TypeOK, UserSetsMade, Inserting
  <2>7. OneInserter'  \* whoever inserts already does so into a userset that is there
    BY <1>2, <2>1, <2>2 DEF StorageInv, TypeOK, UserSetsMade, OneInserter, Inserting
  <2>8. SampledIsFree' /\ ShardIDsDiffer'
    BY <2>1, <2>2 DEF StorageInv, TypeOK, SampledIsFree, ShardIDsDiffer
  <2> QED
    BY <2>5, <2>6, <2>7, <2>8 DEF StorageInv
<1> QED
  BY <1>1, <1>2

LEMMA SampleShardIDInv ==
    ASSUME StorageInv, NEW c \in Conns, SampleShardID(c)
    PROVE  StorageInv'
<1>1. PICK x \in FreeShardIDs(id[c]) : sampled' = [sampled EXCEPT ![c] = x]
  BY DEF SampleShardID
<1>2. x \in ShardIDs /\ \A k \in 1..Len(members) :
          members[k].userset_id = id[c] => members[k].shard_id # x
  BY <1>1, LenProperties DEF FreeShardIDs, ToSet, StorageInv, TypeOK
<1>3. /\ pc[c] = "sample_shard" /\ pc' = [pc EXCEPT ![c] = "insert_member"] /\ todo[c] # <<>>
      /\ UNCHANGED <<accounts, usersets, members, username, req, id, todo, faults>>
  BY DEF SampleShardID, Step, Local
<1>4. TypeOK'
  BY <1>1, <1>2, <1>3 DEF StorageInv, TypeOK, Locations, Inserting
<1>5. UserSetsMade' /\ OneInserter'
  BY <1>3 DEF StorageInv, TypeOK, UserSetsMade, OneInserter, Inserting
<1>6. SampledIsFree' /\ ShardIDsDiffer'
  BY <1>1, <1>2, <1>3 DEF StorageInv, TypeOK, SampledIsFree, ShardIDsDiffer
<1> QED
  BY <1>4, <1>5, <1>6 DEF StorageInv

\* What was sampled has stayed free, as no other thread inserts into the userset.
LEMMA InsertMemberInv ==
    ASSUME StorageInv, NEW c \in Conns, InsertMember(c)
    PROVE  StorageInv'
<1> DEFINE row == [username |-> Head(todo[c]).username, userset_id |-> id[c],
                   shard_id |-> sampled[c], is_owner |-> Head(todo[c]).is_owner]
           n == Len(members)
<1>1. /\ pc[c] = "insert_member" /\ id[c] \in UserSetIDs /\ sampled[c] \in ShardIDs
      /\ todo[c] \in Seq(PlannedRow) /\ todo[c] # <<>>
  BY DEF InsertMember, Step, StorageInv, TypeOK, Inserting
<1>2. Head(todo[c]) \in PlannedRow /\ Tail(todo[c]) \in Seq(PlannedRow) /\ Len(Tail(todo[c])) = Len(todo[c]) - 1
  BY <1>1, HeadTailProperties
<1>3. row \in Members
  BY <1>1, <1>2 DEF Members, PlannedRow
<1>4. /\ members' = Append(members, row) /\ todo' = [todo EXCEPT ![c] = Tail(@)]
      /\ pc' = [pc EXCEPT ![c] = IF IsLast(todo[c]) THEN "make_keys" ELSE "sample_shard"]
      /\ UNCHANGED <<accounts, usersets, username, req, id, sampled, faults>>
  BY DEF InsertMember, Step
<1>5. /\ n \in Nat /\ members' \in Seq(Members) /\ Len(members') = n + 1
      /\ \A k \in 1..n : members'[k] = members[k] /\ members'[n + 1] = row
  BY <1>3, <1>4, AppendProperties, LenProperties DEF StorageInv, TypeOK
<1>6. ~IsLast(todo[c]) => Tail(todo[c]) # <<>>
  <2>1. Len(todo[c]) \in Nat \ {0}
    BY <1>1, EmptySeq
  <2>2. ~IsLast(todo[c]) => Len(Tail(todo[c])) # 0
    BY <2>1, <1>2 DEF IsLast
  <2> QED
    BY <2>2, EmptySeq
<1>7. row.userset_id = id[c] /\ row.shard_id = sampled[c]
  OBVIOUS
<1> HIDE DEF row
<1>8. TypeOK'
  BY <1>1, <1>2, <1>4, <1>5, <1>6 DEF StorageInv, TypeOK, Locations, Inserting
<1>9. UserSetsMade'
  BY <1>1, <1>4, <1>5, <1>7 DEF StorageInv, TypeOK, UserSetsMade, Inserting
<1>10. OneInserter'
  BY <1>1, <1>4 DEF StorageInv, TypeOK, OneInserter, Inserting
<1>11. SampledIsFree'
  <2> SUFFICES ASSUME NEW d \in Conns, pc'[d] = "insert_member", NEW k \in 1..(n + 1),
                      members'[k].userset_id = id'[d]
               PROVE  members'[k].shard_id # sampled'[d]
    BY <1>5 DEF SampledIsFree
  <2>1. d # c /\ pc[d] = "insert_member" /\ id[d] # id[c]
    BY <1>1, <1>4 DEF StorageInv, TypeOK, OneInserter, Inserting
  <2>2. k \in 1..n
    BY <2>1, <1>4, <1>5, <1>7
  <2> QED
    BY <2>1, <2>2, <1>4, <1>5 DEF StorageInv, SampledIsFree
<1>12. ShardIDsDiffer'
  <2>1. \A k \in 1..n : members[k].userset_id = id[c] => members[k].shard_id # sampled[c]
    BY <1>1 DEF StorageInv, SampledIsFree
  <2>2. DOMAIN members' = 1..(n + 1) /\ DOMAIN members = 1..n
    BY <1>5, LenProperties DEF StorageInv, TypeOK
  <2> QED
    BY <2>1, <2>2, <1>5, <1>7 DEF StorageInv, ShardIDsDiffer
<1> QED
  BY <1>8, <1>9, <1>10, <1>11, <1>12 DEF StorageInv

LEMMA MakeKeysInv ==
    ASSUME StorageInv, NEW c \in Conns, MakeKeys(c)
    PROVE  StorageInv'
<1>1. PICK next \in {"connected", "silent"} : Answer(c, next)
  BY DEF MakeKeys, Silent
<1>2. username[c] \in Users /\ UNCHANGED <<accounts, usersets, members, username, faults>>
  BY DEF MakeKeys, tables, StorageInv, TypeOK, Inserting
<1>3. TypeOK'
  BY <1>1, <1>2, AnswerTypes DEF StorageInv, TypeOK
<1> QED
  BY <1>1, <1>2, <1>3, AnswersAside DEF StorageInv

LEMMA GetMembersInv ==
    ASSUME StorageInv, NEW c \in Conns, GetMembers(c)
    PROVE  StorageInv'
<1>1. PICK i \in UNION {GetUserSets(u) : u \in Users} : id' = [id EXCEPT ![c] = i]
  BY DEF GetMembers
<1>2. i \in UserSetIDs
  <2>1. PICK r \in ToSet(members) : r.userset_id = i
    BY <1>1 DEF GetUserSets
  <2>2. r \in Members
    BY <2>1, LenProperties, ElementOfSeq DEF ToSet, StorageInv, TypeOK
  <2> QED
    BY <2>1, <2>2 DEF Members
<1>3. TypeOK'
  BY <1>1, <1>2 DEF GetMembers, Step, Local, StorageInv, TypeOK, Locations, Inserting
<1>4. UserSetsMade' /\ OneInserter' /\ SampledIsFree' /\ ShardIDsDiffer'
  BY <1>1, StepsAside DEF GetMembers, Step, Local, StorageInv, TypeOK, Inserting
<1> QED
  BY <1>3, <1>4 DEF StorageInv

LEMMA ReadMembersInv ==
    ASSUME StorageInv, NEW c \in Conns, ReadMembers(c)
    PROVE  StorageInv'
<1>1. TypeOK'
  BY AnswerTypes DEF ReadMembers, Local, StorageInv, TypeOK
<1> QED
  BY <1>1, AnswersAside DEF ReadMembers, Local, StorageInv

LEMMA FailInv ==
    ASSUME StorageInv, NEW c \in Conns, Fail(c)
    PROVE  StorageInv'
<1>1. PICK next \in {"connecting", "connected"} :
          Answer(c, next) /\ (next = "connected" => username[c] \in Users)
  BY DEF Fail, StorageInv, TypeOK, Inserting
<1>2. UNCHANGED <<accounts, usersets, members, username>>
  BY DEF Fail, tables
<1>3. faults' \in 0..MaxFaults
  BY StorageConstants DEF Fail, StorageInv, TypeOK
<1>4. TypeOK'
  BY <1>1, <1>2, <1>3, AnswerTypes DEF StorageInv, TypeOK
<1> QED
  BY <1>1, <1>2, <1>4, AnswersAside DEF StorageInv

LEMMA FailLoginInv ==
    ASSUME StorageInv, NEW c \in Conns, FailLogin(c)
    PROVE  StorageInv'
<1>1. Answer(c, "silent") /\ UNCHANGED <<accounts, usersets, members, username>>
  BY DEF FailLogin, Silent, tables
<1>2. faults' \in 0..MaxFaults
  BY StorageConstants DEF FailLogin, StorageInv, TypeOK
<1>3. TypeOK'
  BY <1>1, <1>2, AnswerTypes DEF StorageInv, TypeOK
<1> QED
  BY <1>1, <1>3, AnswersAside DEF StorageInv

\* A crash leaves rows that nobody inserts after any more.
LEMMA CrashInv == StorageInv /\ Crash => StorageInv'
<1> SUFFICES ASSUME StorageInv, Crash PROVE StorageInv'
  OBVIOUS
<1>1. <<>> \in Seq(PlannedRow)
  BY EmptySeq
<1>2. faults' \in 0..MaxFaults
  BY StorageConstants DEF Crash, StorageInv, TypeOK
<1>3. TypeOK'
  BY <1>1, <1>2 DEF Crash, tables, StorageInv, TypeOK, Locations, Inserting
<1>4. UserSetsMade' /\ OneInserter' /\ SampledIsFree' /\ ShardIDsDiffer'
  BY StepsAside DEF Crash, tables, Inserting
<1> QED
  BY <1>3, <1>4 DEF StorageInv

-----------------------------------------------------------------------------
\* Every step preserves the inductive invariant.
LEMMA NextStorageInv == StorageInv /\ [Next]_vars => StorageInv'
<1> SUFFICES ASSUME StorageInv, [Next]_vars PROVE StorageInv'
  OBVIOUS
<1>1. ASSUME NEW c \in Conns, Requests(c) PROVE StorageInv'
  <2>1. ASSUME Update(c) PROVE StorageInv'
    <3>1. TypeOK'
      BY <2>1 DEF Update, tables, thread, StorageInv, TypeOK
    <3>2. UserSetsMade' /\ OneInserter' /\ SampledIsFree' /\ ShardIDsDiffer'
      BY <2>1, StepsAside DEF Update, tables, thread
    <3> QED
      BY <3>1, <3>2 DEF StorageInv
  <2> QED
    BY <1>1, <2>1, SignupInv, LoginInv, MakeUserSetInv, GetMembersInv, LogoutInv DEF Requests
<1>2. ASSUME NEW c \in Conns, Work(c) PROVE StorageInv'
  BY <1>2, CheckNewUserInv, InsertUserInv, CheckMemberInv, ChooseUserSetIDInv, InsertUserSetInv,
     SampleShardIDInv, InsertMemberInv, MakeKeysInv, ReadMembersInv DEF Work
<1>3. CASE UNCHANGED vars
  <2>1. TypeOK'
    BY <1>3 DEF vars, tables, thread, StorageInv, TypeOK
  <2>2. UserSetsMade' /\ OneInserter' /\ SampledIsFree' /\ ShardIDsDiffer'
    BY <1>3, StepsAside DEF vars, tables, thread
  <2> QED
    BY <2>1, <2>2 DEF StorageInv
<1> QED
  BY <1>1, <1>2, <1>3, FailInv, FailLoginInv, CrashInv DEF Next

\* The inductive invariant holds of every reachable state.
LEMMA StorageInvHolds == Spec => []StorageInv
  BY InitStorageInv, NextStorageInv, PTL DEF Spec

\* The tables and every thread's locals keep their types (ServerStorage's tables, and
\* what handlers hold between two statements).
THEOREM StorageTypeOK == Spec => []TypeOK
  BY StorageInvHolds, PTL DEF StorageInv

\* No two members of a userset get one shard ID, over any interleaving of connections,
\* failed statements and crashes (generate_unique_shard_id and new_userset, which look an
\* ID up and insert it in two critical sections).
THEOREM ShardIDsAreUnique == Spec => []ShardIDsDiffer
  BY StorageInvHolds, PTL DEF StorageInv

-----------------------------------------------------------------------------
\* Whole usersets.  What a thread still has to insert, and who has been looked up.

HaveAccounts(rows) == \A k \in 1..Len(rows) : accounts[rows[k].username] # None

\* A thread that checks members has found those that it does not have to check yet, one
\* that inserts them has as many left as the userset lacks, and one that reads them has
\* the thresholds and the rows of a userset that is there.
ThreadOK(c) ==
    /\ pc[c] = "check_members" =>
          LET planned == PlannedRows(username[c], req[c]) IN
          \A k \in 1..Len(planned) :
              \/ accounts[planned[k].username] # None
              \/ \E j \in 1..Len(todo[c]) : todo[c][j] = planned[k]
    /\ pc[c] = "insert_userset" => HaveAccounts(PlannedRows(username[c], req[c]))
    /\ pc[c] \in Inserting =>
          /\ HaveAccounts(todo[c])
          /\ Cardinality(RowsOf(id[c])) + Len(todo[c]) = Len(intended[id[c]])
    /\ pc[c] = "make_keys" => todo[c] = <<>>
    /\ pc[c] = "read_members" =>
          /\ sampled[c] = usersets[id[c]] /\ sampled[c] # None
          /\ req[c].there \subseteq RowsOf(id[c])

OwedOK == \A k \in owed :
    /\ k.userset_id \in UserSetIDs /\ Complete(k.userset_id)
    /\ k.shard_id = ShardOf(k.username, k.userset_id)

\* The inductive invariant of the refinement.
WholeInv ==
    /\ intended \in [UserSetIDs -> Seq(PlannedRow)]
    /\ HaveAccounts(members)
    /\ \A c \in Conns : ThreadOK(c)
    /\ OwedOK

-----------------------------------------------------------------------------
\* A set of numbers up to n has a greatest: Max chooses it.
LEMMA MaxIsIn ==
    ASSUME NEW n \in Nat, NEW S \in SUBSET (1..n), S # {}
    PROVE  Max(S) \in S
<1> DEFINE T == {n - x : x \in S}
           R == OpToRel(<, Nat)
<1>1. \E x \in T : \A y \in T : ~(<<y, x>> \in R)
  <2>1. T \subseteq Nat /\ T # {}
    OBVIOUS
  <2>2. IsWellFoundedOn(R, Nat)
    BY NatLessThanWellFounded
  <2> HIDE DEF T, R
  <2> QED
    BY <2>1, <2>2, WFMin
<1>2. R = {ss \in Nat \X Nat : ss[1] < ss[2]}
  BY DEF OpToRel
<1> HIDE DEF R
<1>3. PICK x \in S : \A y \in T : ~(<<y, n - x>> \in R)
  BY <1>1
<1>4. ASSUME NEW y \in S, n - y < n - x PROVE FALSE
  <2>1. <<n - y, n - x>> \in R
    BY <1>2, <1>4
  <2> QED
    BY <2>1, <1>3
<1>5. \A y \in S : x >= y
  BY <1>4
<1> QED
  BY <1>5 DEF Max

\* A userset's row numbers.
LEMMA RowsOfProperties ==
    ASSUME TypeOK, NEW i
    PROVE  /\ Len(members) \in Nat /\ RowsOf(i) \in SUBSET (1..Len(members))
           /\ IsFiniteSet(RowsOf(i)) /\ Cardinality(RowsOf(i)) \in Nat
<1>1. Len(members) \in Nat /\ RowsOf(i) \in SUBSET (1..Len(members))
  BY LenProperties DEF TypeOK, RowsOf
<1>2. IsFiniteSet(1..Len(members))
  BY <1>1, FS_Interval
<1> QED
  BY <1>1, <1>2, FS_Subset, FS_CardinalityType

\* A row that is appended is one more of its userset's, and none of another's.
LEMMA AppendedRow ==
    ASSUME TypeOK, NEW row \in Members, members' = Append(members, row), NEW i
    PROVE  /\ row.userset_id # i => RowsOf(i)' = RowsOf(i)
           /\ row.userset_id = i =>
                 /\ RowsOf(i)' = RowsOf(i) \cup {Len(members) + 1}
                 /\ Cardinality(RowsOf(i)') = Cardinality(RowsOf(i)) + 1
<1> DEFINE n == Len(members)
<1>1. /\ n \in Nat /\ Len(members') = n + 1 /\ members'[n + 1] = row
      /\ \A k \in 1..n : members'[k] = members[k]
  BY AppendProperties, LenProperties DEF TypeOK
<1>2. 1..(n + 1) = (1..n) \cup {n + 1} /\ n + 1 \notin 1..n
  BY <1>1
<1>3. row.userset_id # i => RowsOf(i)' = RowsOf(i)
  BY <1>1, <1>2 DEF RowsOf
<1>4. row.userset_id = i => RowsOf(i)' = RowsOf(i) \cup {n + 1}
  BY <1>1, <1>2 DEF RowsOf
<1>5. n + 1 \notin RowsOf(i) /\ IsFiniteSet(RowsOf(i))
  BY <1>2, RowsOfProperties
<1>6. Cardinality(RowsOf(i) \cup {n + 1}) = Cardinality(RowsOf(i)) + 1
  BY <1>5, FS_AddElement
<1> QED
  BY <1>3, <1>4, <1>6

\* A userset that gets no row keeps its shard IDs.
LEMMA ShardOfStays ==
    ASSUME TypeOK, NEW i, RowsOf(i)' = RowsOf(i), \A k \in 1..Len(members) : members'[k] = members[k], NEW m
    PROVE  ShardOf(m, i)' = ShardOf(m, i)
<1> DEFINE rows == {k \in RowsOf(i) : members[k].username = m}
<1>1. RowsOf(i) \in SUBSET (1..Len(members)) /\ Len(members) \in Nat
  BY RowsOfProperties
<1>2. {k \in RowsOf(i) : members[k].username = m}' = rows
  BY <1>1
<1>3. rows # {} => Max(rows) \in 1..Len(members)
  BY <1>1, MaxIsIn
<1> HIDE DEF rows
<1>4. ShardOf(m, i) = IF rows = {} THEN 0 ELSE members[Max(rows)].shard_id
  BY DEF ShardOf, rows
<1>5. ShardOf(m, i)' = IF rows = {} THEN 0 ELSE members'[Max(rows)].shard_id
  BY <1>2 DEF ShardOf
<1> QED
  BY <1>3, <1>4, <1>5

-----------------------------------------------------------------------------
\* Accounts stay.
AccountsStay == \A u \in Users : accounts[u] # None => accounts'[u] # None

\* Between two requests a thread owes nothing.
Resting == {"connecting", "connected", "silent", "new_user", "insert_user"}

LEMMA RestingThread == ASSUME NEW c, pc'[c] \in Resting PROVE ThreadOK(c)'
  BY DEF Resting, ThreadOK, Inserting

\* A step of another thread that adds no rows where this one inserts leaves it as it was.
LEMMA OtherThread ==
    ASSUME StorageInv, NEW c \in Conns, ThreadOK(c), AccountsStay,
           pc[c] \in Inserting => intended'[id[c]] = intended[id[c]] /\ RowsOf(id[c])' = RowsOf(id[c]),
           pc[c] = "read_members" =>
              usersets'[id[c]] = usersets[id[c]] /\ RowsOf(id[c]) \subseteq RowsOf(id[c])',
           pc'[c] = pc[c], username'[c] = username[c], req'[c] = req[c], id'[c] = id[c],
           todo'[c] = todo[c], sampled'[c] = sampled[c]
    PROVE  ThreadOK(c)'
<1> DEFINE planned == PlannedRows(username[c], req[c])
<1>1. pc[c] \in {"check_members", "insert_userset"} => planned \in Seq(PlannedRow)
  BY PlannedRowsProperties DEF StorageInv, TypeOK
<1>2. todo[c] \in Seq(PlannedRow)
  BY DEF StorageInv, TypeOK
<1>3. ASSUME NEW rows \in Seq(PlannedRow), NEW k \in 1..Len(rows), accounts[rows[k].username] # None
      PROVE  accounts'[rows[k].username] # None
  <2>1. rows[k] \in PlannedRow
    BY ElementOfSeq
  <2> QED
    BY <2>1, <1>3 DEF AccountsStay, PlannedRow
<1>4. PlannedRows(username[c], req[c])' = planned
  BY DEF PlannedRows, Row
<1> HIDE DEF planned
<1>5. ASSUME pc[c] = "check_members"
      PROVE \A k \in 1..Len(planned) :
              \/ accounts'[planned[k].username] # None
              \/ \E j \in 1..Len(todo'[c]) : todo'[c][j] = planned[k]
  BY <1>1, <1>3, <1>5 DEF ThreadOK, planned
<1>6. ASSUME pc[c] = "insert_userset"
      PROVE  \A k \in 1..Len(planned) : accounts'[planned[k].username] # None
  BY <1>1, <1>3, <1>6 DEF ThreadOK, HaveAccounts, planned
<1>7. ASSUME pc[c] \in Inserting
      PROVE  \A k \in 1..Len(todo[c]) : accounts'[todo[c][k].username] # None
  BY <1>2, <1>3, <1>7 DEF ThreadOK, HaveAccounts
<1>8. pc[c] \in Inserting => Cardinality(RowsOf(id[c]))' + Len(todo'[c]) = Len(intended'[id'[c]])
  BY DEF ThreadOK
<1> QED
  BY <1>4, <1>5, <1>6, <1>7, <1>8 DEF ThreadOK, HaveAccounts

LEMMA ThreadStays ==
    ASSUME StorageInv, NEW c \in Conns, ThreadOK(c), AccountsStay, UNCHANGED <<usersets, members, intended>>,
           pc'[c] = pc[c], username'[c] = username[c], req'[c] = req[c], id'[c] = id[c],
           todo'[c] = todo[c], sampled'[c] = sampled[c]
    PROVE  ThreadOK(c)'
<1>1. RowsOf(id[c])' = RowsOf(id[c])
  BY DEF RowsOf
<1> QED
  BY <1>1, OtherThread

\* A step that adds no rows keeps the invariant if every thread keeps its part of it.
LEMMA WholeStays ==
    ASSUME StorageInv, WholeInv, AccountsStay, UNCHANGED <<usersets, members, intended>>,
           \A k \in owed' : k \in owed \/
              /\ k.userset_id \in UserSetIDs /\ Complete(k.userset_id)
              /\ k.shard_id = ShardOf(k.username, k.userset_id),
           \A c \in Conns : ThreadOK(c)'
    PROVE  WholeInv'
<1>1. HaveAccounts(members)'
  <2> SUFFICES ASSUME NEW k \in 1..Len(members) PROVE accounts'[members[k].username] # None
    BY DEF HaveAccounts
  <2>1. members[k] \in Members
    BY ElementOfSeq DEF StorageInv, TypeOK
  <2> QED
    BY <2>1 DEF Members, WholeInv, HaveAccounts, AccountsStay
<1>2. \A i : RowsOf(i)' = RowsOf(i)
  BY DEF RowsOf
<1>3. \A i : Complete(i)' = Complete(i)
  BY <1>2 DEF Complete
<1>4. \A m, i : ShardOf(m, i)' = ShardOf(m, i)
  BY DEF ShardOf, RowsOf
<1>5. OwedOK'
  BY <1>3, <1>4 DEF WholeInv, OwedOK
<1> QED
  BY <1>1, <1>5 DEF WholeInv

\* A step of c that adds no rows: the other threads stay as they are.
LEMMA OneThreadMoves ==
    ASSUME StorageInv, WholeInv, AccountsStay, UNCHANGED <<usersets, members, intended>>,
           \A k \in owed' : k \in owed \/
              /\ k.userset_id \in UserSetIDs /\ Complete(k.userset_id)
              /\ k.shard_id = ShardOf(k.username, k.userset_id),
           NEW c \in Conns, ThreadOK(c)',
           \A d \in Conns \ {c} :
              /\ pc'[d] = pc[d] /\ username'[d] = username[d] /\ req'[d] = req[d] /\ id'[d] = id[d]
              /\ todo'[d] = todo[d] /\ sampled'[d] = sampled[d]
    PROVE  WholeInv'
<1>1. \A d \in Conns \ {c} : ThreadOK(d)'
  BY ThreadStays DEF WholeInv
<1> QED
  BY <1>1, WholeStays

LEMMA AnswerWhole ==
    ASSUME StorageInv, WholeInv, AccountsStay, UNCHANGED <<usersets, members, intended>>, owed' \subseteq owed,
           NEW c \in Conns, NEW next \in {"connecting", "connected", "silent"}, Answer(c, next),
           \A d \in Conns \ {c} : username'[d] = username[d]
    PROVE  WholeInv'
<1>1. pc'[c] = next
  BY DEF Answer, StorageInv, TypeOK
<1>2. ThreadOK(c)'
  BY <1>1, RestingThread DEF Resting
<1>3. \A d \in Conns \ {c} :
              /\ pc'[d] = pc[d] /\ username'[d] = username[d] /\ req'[d] = req[d] /\ id'[d] = id[d]
              /\ todo'[d] = todo[d] /\ sampled'[d] = sampled[d]
  BY DEF Answer, StorageInv, TypeOK
<1> QED
  BY <1>2, <1>3, OneThreadMoves

-----------------------------------------------------------------------------
LEMMA InitWhole == Init => WholeInv
<1> SUFFICES ASSUME Init PROVE WholeInv
  OBVIOUS
<1>1. Len(members) = 0 /\ <<>> \in Seq(PlannedRow)
  BY EmptySeq DEF Init
<1>2. \A c \in Conns : ThreadOK(c)
  BY DEF Init, ThreadOK, Inserting
<1> QED
  BY <1>1, <1>2 DEF Init, WholeInv, HaveAccounts, OwedOK

\* The steps that end a request, or begin one that adds nothing.
LEMMA QuietSteps ==
    ASSUME StorageInv, WholeInv, NEW c \in Conns,
           \/ \E u \in Users, p \in Passwords : Signup(c, u, p) \/ Login(c, u, p)
           \/ Update(c) \/ Logout(c) \/ CheckNewUser(c) \/ InsertUser(c) \/ ReadMembers(c)
           \/ Fail(c) \/ FailLogin(c)
    PROVE  WholeInv' /\ UNCHANGED <<usersets, members, intended>>
<1>1. ASSUME NEW u \in Users, NEW p \in Passwords, Signup(c, u, p)
      PROVE  WholeInv' /\ UNCHANGED <<usersets, members, intended>>
  <2>1. pc'[c] = "new_user"
    BY <1>1 DEF Signup, Step, StorageInv, TypeOK
  <2> QED
    BY <2>1, <1>1, RestingThread, OneThreadMoves
    DEF Signup, Step, Local, Resting, AccountsStay, StorageInv, TypeOK
<1>2. ASSUME Update(c) PROVE WholeInv' /\ UNCHANGED <<usersets, members, intended>>
  <2>1. \A d \in Conns : ThreadOK(d)'
    BY <1>2, ThreadStays DEF Update, tables, thread, AccountsStay, WholeInv
  <2> QED
    BY <2>1, <1>2, WholeStays DEF Update, tables, AccountsStay
<1>3. CASE CheckNewUser(c)
  <2>1. CASE Answer(c, "connecting")
    BY <2>1, <1>3, AnswerWhole DEF CheckNewUser, Local, AccountsStay
  <2>2. CASE Step(c, "new_user", "insert_user") /\ UNCHANGED <<req, id, todo, sampled>>
    <3>1. pc'[c] = "insert_user"
      BY <2>2 DEF Step, StorageInv, TypeOK
    <3> QED
      BY <3>1, <2>2, <1>3, RestingThread, OneThreadMoves
      DEF CheckNewUser, Step, Local, Resting, AccountsStay, StorageInv, TypeOK
  <2> QED
    BY <2>1, <2>2, <1>3 DEF CheckNewUser
<1>4. CASE InsertUser(c)
  <2>1. PICK next \in {"connecting", "connected"} : Answer(c, next)
    BY <1>4 DEF InsertUser
  <2>2. req[c].username \in Users /\ req[c].password # None
    BY <1>4, StorageConstants DEF InsertUser, StorageInv, TypeOK
  <2>3. AccountsStay /\ \A d \in Conns \ {c} : username'[d] = username[d]
    BY <1>4, <2>2 DEF InsertUser, AccountsStay, StorageInv, TypeOK
  <2> QED
    BY <2>1, <2>3, <1>4, AnswerWhole DEF InsertUser
<1>5. ASSUME NEW u \in Users, NEW p \in Passwords, Login(c, u, p)
      PROVE  WholeInv' /\ UNCHANGED <<usersets, members, intended>>
  <2>1. PICK next \in {"connecting", "connected"} : Answer(c, next)
    BY <1>5 DEF Login
  <2>2. \A d \in Conns \ {c} : username'[d] = username[d]
    BY <1>5 DEF Login, StorageInv, TypeOK
  <2> QED
    BY <2>1, <2>2, <1>5, AnswerWhole DEF Login, tables, AccountsStay
<1>6. CASE Logout(c)
  BY <1>6, AnswerWhole DEF Logout, tables, AccountsStay, StorageInv, TypeOK
<1>7. CASE ReadMembers(c)
  BY <1>7, AnswerWhole DEF ReadMembers, Local, AccountsStay
<1>8. CASE Fail(c)
  <2>1. PICK next \in {"connecting", "connected"} : Answer(c, next)
    BY <1>8 DEF Fail
  <2> QED
    BY <2>1, <1>8, AnswerWhole DEF Fail, tables, AccountsStay
<1>9. CASE FailLogin(c)
  BY <1>9, AnswerWhole DEF FailLogin, Silent, tables, AccountsStay
<1> QED
  BY <1>1, <1>2, <1>3, <1>4, <1>5, <1>6, <1>7, <1>8, <1>9

-----------------------------------------------------------------------------
\* The steps of make_userset.
LEMMA MakeUserSetWhole ==
    ASSUME StorageInv, WholeInv, NEW c \in Conns, NEW plan \in Plans, MakeUserSet(c, plan)
    PROVE  WholeInv' /\ UNCHANGED <<usersets, members, intended>>
<1>1. /\ pc'[c] = "check_members" /\ username'[c] = username[c] /\ req'[c] = plan
      /\ todo'[c] = PlannedRows(username[c], plan)
  BY DEF MakeUserSet, Step, Local, StorageInv, TypeOK
<1>2. ThreadOK(c)'
  BY <1>1 DEF ThreadOK, Inserting
<1> QED
  BY <1>2, OneThreadMoves DEF MakeUserSet, Step, Local, AccountsStay, StorageInv, TypeOK

\* Who has been looked up has an account, and keeps it.
LEMMA CheckMemberWhole ==
    ASSUME StorageInv, WholeInv, NEW c \in Conns, CheckMember(c)
    PROVE  WholeInv' /\ UNCHANGED <<usersets, members, intended>>
<1>1. CASE Answer(c, "connected")
  BY <1>1, AnswerWhole DEF CheckMember, Local, AccountsStay
<1>2. CASE /\ accounts[Head(todo[c]).username] # None /\ todo' = [todo EXCEPT ![c] = Tail(@)]
           /\ UNCHANGED <<pc, req, id, sampled>>
  <2> DEFINE planned == PlannedRows(username[c], req[c])
  <2>1. pc[c] = "check_members" /\ todo[c] \in Seq(PlannedRow) /\ todo[c] # <<>>
        /\ todo'[c] = Tail(todo[c])
    BY <1>2 DEF CheckMember, StorageInv, TypeOK
  <2>2. /\ Len(todo[c]) \in Nat /\ Len(Tail(todo[c])) = Len(todo[c]) - 1
        /\ \A i \in 1..Len(Tail(todo[c])) : Tail(todo[c])[i] = todo[c][i + 1]
        /\ Head(todo[c]) = todo[c][1]
    BY <2>1, HeadTailProperties, LenProperties
  <2>3. \A j \in 1..Len(todo[c]) : accounts[todo[c][j].username] # None
                                   \/ \E i \in 1..Len(Tail(todo[c])) : Tail(todo[c])[i] = todo[c][j]
    <3> SUFFICES ASSUME NEW j \in 1..Len(todo[c]), j # 1
                 PROVE  \E i \in 1..Len(Tail(todo[c])) : Tail(todo[c])[i] = todo[c][j]
      BY <1>2, <2>2
    <3>1. j - 1 \in 1..Len(Tail(todo[c])) /\ Tail(todo[c])[j - 1] = todo[c][j]
      BY <2>2
    <3> QED
      BY <3>1
  <2>4. PlannedRows(username[c], req[c])' = planned
    BY <1>2 DEF CheckMember, Local
  <2>5. \A k \in 1..Len(planned) : accounts[planned[k].username] # None
                                   \/ \E j \in 1..Len(todo[c]) : todo[c][j] = planned[k]
    BY <2>1 DEF WholeInv, ThreadOK
  <2> HIDE DEF planned
  <2>6. \A k \in 1..Len(planned) : accounts[planned[k].username] # None
                                   \/ \E i \in 1..Len(todo'[c]) : todo'[c][i] = planned[k]
    <3> SUFFICES ASSUME NEW k \in 1..Len(planned), accounts[planned[k].username] = None
                 PROVE  \E i \in 1..Len(todo'[c]) : todo'[c][i] = planned[k]
      OBVIOUS
    <3>1. PICK j \in 1..Len(todo[c]) : todo[c][j] = planned[k]
      BY <2>5
    <3>2. \E i \in 1..Len(Tail(todo[c])) : Tail(todo[c])[i] = todo[c][j]
      BY <2>3, <3>1
    <3> QED
      BY <2>1, <3>1, <3>2
  <2>7. pc'[c] = "check_members" /\ accounts' = accounts
    BY <1>2, <2>1 DEF CheckMember, Local
  <2>8. \A k \in 1..Len(PlannedRows(username[c], req[c])') :
            \/ accounts'[PlannedRows(username[c], req[c])'[k].username] # None
            \/ \E i \in 1..Len(todo'[c]) : todo'[c][i] = PlannedRows(username[c], req[c])'[k]
    BY <2>4, <2>6, <2>7
  <2>9. ThreadOK(c)'
    BY <2>7, <2>8 DEF ThreadOK, Inserting
  <2> QED
    BY <1>2, <2>9, OneThreadMoves DEF CheckMember, Local, AccountsStay, StorageInv, TypeOK
<1> QED
  BY <1>1, <1>2 DEF CheckMember, Local

LEMMA ChooseUserSetIDWhole ==
    ASSUME StorageInv, WholeInv, NEW c \in Conns, ChooseUserSetID(c)
    PROVE  WholeInv' /\ UNCHANGED <<usersets, members, intended>>
<1> DEFINE planned == PlannedRows(username[c], req[c])
<1>1. pc[c] = "check_members" /\ pc'[c] = "insert_userset" /\ todo[c] = <<>>
  BY DEF ChooseUserSetID, Step, StorageInv, TypeOK
<1>2. Len(todo[c]) = 0
  BY <1>1, EmptySeq
<1>3. \A k \in 1..Len(planned) : accounts[planned[k].username] # None
                                 \/ \E j \in 1..Len(todo[c]) : todo[c][j] = planned[k]
  BY <1>1 DEF WholeInv, ThreadOK
<1>4. PlannedRows(username[c], req[c])' = planned
  BY DEF ChooseUserSetID, Local
<1> HIDE DEF planned
<1>5. ThreadOK(c)'
  BY <1>1, <1>2, <1>3, <1>4 DEF ThreadOK, HaveAccounts, Inserting, ChooseUserSetID, Local
<1> QED
  BY <1>5, OneThreadMoves DEF ChooseUserSetID, Step, Local, AccountsStay, StorageInv, TypeOK

LEMMA SampleShardIDWhole ==
    ASSUME StorageInv, WholeInv, NEW c \in Conns, SampleShardID(c)
    PROVE  WholeInv' /\ UNCHANGED <<usersets, members, intended>>
<1>1. pc[c] = "sample_shard" /\ pc'[c] = "insert_member" /\ UNCHANGED <<id, todo, intended, members, accounts>>
  BY DEF SampleShardID, Step, Local, StorageInv, TypeOK
<1>2. RowsOf(id[c])' = RowsOf(id[c])
  BY <1>1 DEF RowsOf
<1>3. ThreadOK(c)'
  BY <1>1, <1>2 DEF WholeInv, ThreadOK, HaveAccounts, Inserting
<1> QED
  BY <1>3, OneThreadMoves DEF SampleShardID, Step, Local, AccountsStay, StorageInv, TypeOK

\* A userset whose members are all inserted is whole.
LEMMA KeysOfWholeSets ==
    ASSUME StorageInv, WholeInv, NEW c \in Conns, pc[c] = "make_keys"
    PROVE  id[c] \in UserSetIDs /\ Complete(id[c])
<1>1. id[c] \in UserSetIDs /\ usersets[id[c]] # None
  BY DEF StorageInv, TypeOK, UserSetsMade, Inserting
<1>2. Len(todo[c]) = 0
  BY EmptySeq DEF WholeInv, ThreadOK
<1>3. Cardinality(RowsOf(id[c])) = Len(intended[id[c]])
  BY <1>2, RowsOfProperties DEF WholeInv, ThreadOK, Inserting, StorageInv
<1> QED
  BY <1>1, <1>3 DEF Complete

LEMMA MakeKeysWhole ==
    ASSUME StorageInv, WholeInv, NEW c \in Conns, MakeKeys(c)
    PROVE  WholeInv' /\ UNCHANGED <<usersets, members, intended>>
<1>1. PICK next \in {"connected", "silent"} : Answer(c, next)
  BY DEF MakeKeys, Silent
<1>2. UNCHANGED <<accounts, usersets, members, username, intended>>
  BY DEF MakeKeys, tables
<1>3. \A k \in owed' : k \in owed \/
              /\ k.userset_id \in UserSetIDs /\ Complete(k.userset_id)
              /\ k.shard_id = ShardOf(k.username, k.userset_id)
  BY KeysOfWholeSets DEF MakeKeys
<1>4. ThreadOK(c)'
  BY <1>1, RestingThread DEF Answer, Resting, StorageInv, TypeOK
<1>5. \A d \in Conns \ {c} :
              /\ pc'[d] = pc[d] /\ username'[d] = username[d] /\ req'[d] = req[d] /\ id'[d] = id[d]
              /\ todo'[d] = todo[d] /\ sampled'[d] = sampled[d]
  BY <1>1, <1>2 DEF Answer, StorageInv, TypeOK
<1> QED
  BY <1>2, <1>3, <1>4, <1>5, OneThreadMoves DEF AccountsStay

\* Whoever reads members reads those of a userset that has rows, and so thresholds.
LEMMA GetMembersWhole ==
    ASSUME StorageInv, WholeInv, NEW c \in Conns, GetMembers(c)
    PROVE  WholeInv' /\ UNCHANGED <<usersets, members, intended>>
<1>1. PICK i \in UNION {GetUserSets(u) : u \in Users} :
          /\ id' = [id EXCEPT ![c] = i] /\ sampled' = [sampled EXCEPT ![c] = usersets[i]]
          /\ req' = [req EXCEPT ![c] = [there |-> RowsOf(i)]]
  BY DEF GetMembers
<1>2. usersets[i] # None
  <2>1. PICK r \in ToSet(members) : r.userset_id = i
    BY <1>1 DEF GetUserSets
  <2>2. PICK k \in 1..Len(members) : r = members[k]
    BY <2>1, LenProperties DEF ToSet, StorageInv, TypeOK
  <2> QED
    BY <2>1, <2>2 DEF StorageInv, UserSetsMade
<1>3. /\ pc'[c] = "read_members" /\ id'[c] = i /\ sampled'[c] = usersets[i]
      /\ req'[c].there = RowsOf(i) /\ UNCHANGED <<members, usersets>>
  BY <1>1 DEF GetMembers, Step, Local, StorageInv, TypeOK
<1>4. RowsOf(i)' = RowsOf(i)
  BY <1>3 DEF RowsOf
<1>5. ThreadOK(c)'
  BY <1>2, <1>3, <1>4 DEF ThreadOK, Inserting
<1> QED
  BY <1>1, <1>5, OneThreadMoves DEF GetMembers, Step, Local, AccountsStay, StorageInv, TypeOK

\* The row of a userset: it has no members yet, so nobody reads them, none was answered
\* for it, and its thread has all of them to insert.
LEMMA InsertUserSetWhole ==
    ASSUME StorageInv, WholeInv, NEW c \in Conns, InsertUserSet(c)
    PROVE  WholeInv' /\ UNCHANGED <<accounts, members>>
           /\ \A i \in UserSetIDs : Complete(i)' = Complete(i)
<1>1. CASE usersets[id[c]] # None
  <2>1. Answer(c, "connected") /\ UNCHANGED <<accounts, usersets, members, owed, username, intended>>
    BY <1>1 DEF InsertUserSet
  <2>2. \A i \in UserSetIDs : Complete(i)' = Complete(i)
    BY <2>1 DEF Complete, RowsOf
  <2> QED
    BY <2>1, <2>2, AnswerWhole DEF AccountsStay
<1>2. CASE usersets[id[c]] = None
  <2> DEFINE rows == PlannedRows(username[c], req[c])
             s == id[c]
  <2>1. /\ pc[c] = "insert_userset" /\ s \in UserSetIDs
        /\ req[c] \in Plans /\ username[c] \in Users
    BY DEF InsertUserSet, StorageInv, TypeOK
  <2>2. /\ pc' = [pc EXCEPT ![c] = "sample_shard"]
        /\ usersets' = [usersets EXCEPT ![s] = Thresholds(req[c])]
        /\ intended' = [intended EXCEPT ![s] = rows]
        /\ todo' = [todo EXCEPT ![c] = rows]
        /\ UNCHANGED <<accounts, members, owed, username, req, id, sampled>>
    BY <1>2 DEF InsertUserSet, Step
  <2>3. rows \in Seq(PlannedRow) /\ Len(rows) \in Nat \ {0}
    BY <2>1, PlannedRowsProperties, EmptySeq
  <2>4. \A i : RowsOf(i)' = RowsOf(i)
    BY <2>2 DEF RowsOf
  <2>5. RowsOf(s) = {} /\ Cardinality(RowsOf(s)) = 0
    BY <1>2, FS_EmptySet DEF RowsOf, StorageInv, UserSetsMade
  <2>6. HaveAccounts(rows)
    BY <2>1 DEF WholeInv, ThreadOK
  <2> HIDE DEF rows
  <2>7. /\ pc'[c] = "sample_shard" /\ id'[c] = s /\ todo'[c] = rows /\ intended'[s] = rows
        /\ \A i \in UserSetIDs \ {s} : intended'[i] = intended[i] /\ usersets'[i] = usersets[i]
    BY <2>1, <2>2 DEF WholeInv, StorageInv, TypeOK
  <2>8. ThreadOK(c)'
    <3>1. HaveAccounts(todo[c])'
      BY <2>2, <2>6, <2>7 DEF HaveAccounts
    <3>2. RowsOf(id[c])' = RowsOf(s)
      BY <2>2 DEF RowsOf
    <3>3. Cardinality(RowsOf(id[c])') + Len(todo'[c]) = Len(intended'[id'[c]])
      BY <2>3, <2>5, <2>7, <3>2
    <3> QED
      BY <2>7, <3>1, <3>3 DEF ThreadOK, Inserting
  <2>9. ASSUME NEW d \in Conns \ {c} PROVE ThreadOK(d)'
    <3>1. pc[d] \in Inserting => id[d] \in UserSetIDs \ {s}
      BY <1>2 DEF StorageInv, TypeOK, UserSetsMade
    <3>2. pc[d] = "read_members" => id[d] \in UserSetIDs \ {s}
      BY <1>2 DEF StorageInv, TypeOK, WholeInv, ThreadOK
    <3>3. ThreadOK(d) /\ pc'[d] = pc[d] /\ todo'[d] = todo[d]
      BY <2>2 DEF WholeInv, StorageInv, TypeOK
    <3>4. RowsOf(id[d])' = RowsOf(id[d])
      BY <2>2 DEF RowsOf
    <3> QED
      BY <2>2, <2>7, <3>1, <3>2, <3>3, <3>4, OtherThread DEF AccountsStay
  <2>10. ~Complete(s) /\ ~Complete(s)'
    BY <1>2, <2>3, <2>4, <2>5, <2>7 DEF Complete
  <2>11. \A i \in UserSetIDs : Complete(i)' = Complete(i)
    BY <2>4, <2>7, <2>10 DEF Complete
  <2>12. OwedOK'
    <3>1. \A m, i : ShardOf(m, i)' = ShardOf(m, i)
      BY <2>2 DEF ShardOf, RowsOf
    <3> QED
      BY <2>2, <2>11, <3>1 DEF WholeInv, OwedOK
  <2>13. intended' \in [UserSetIDs -> Seq(PlannedRow)] /\ HaveAccounts(members)'
    BY <2>1, <2>2, <2>3 DEF WholeInv, HaveAccounts
  <2> QED
    BY <2>2, <2>8, <2>9, <2>11, <2>12, <2>13 DEF WholeInv
<1> QED
  BY <1>1, <1>2

\* A member's row: it is the thread's own userset, not yet whole, that gets it, and
\* its last row makes it whole.
LEMMA InsertMemberWhole ==
    ASSUME StorageInv, WholeInv, NEW c \in Conns, InsertMember(c)
    PROVE  /\ WholeInv' /\ UNCHANGED <<accounts, usersets, intended>>
           /\ id[c] \in UserSetIDs /\ ~Complete(id[c])
           /\ \A i \in UserSetIDs \ {id[c]} : RowsOf(i)' = RowsOf(i)
           /\ \A k \in 1..Len(members) : members'[k] = members[k]
<1> DEFINE row == [username |-> Head(todo[c]).username, userset_id |-> id[c],
                   shard_id |-> sampled[c], is_owner |-> Head(todo[c]).is_owner]
           n == Len(members)
           s == id[c]
<1>1. /\ pc[c] = "insert_member" /\ s \in UserSetIDs /\ sampled[c] \in ShardIDs
      /\ todo[c] \in Seq(PlannedRow) /\ todo[c] # <<>>
  BY DEF InsertMember, Step, StorageInv, TypeOK, Inserting
<1> DEFINE rest == Tail(todo[c])
           left == Len(todo[c])
<1>2. /\ Head(todo[c]) \in PlannedRow /\ Head(todo[c]) = todo[c][1] /\ rest \in Seq(PlannedRow)
      /\ left \in Nat \ {0} /\ Len(rest) = left - 1
      /\ \A k \in 1..Len(rest) : rest[k] = todo[c][k + 1]
  BY <1>1, HeadTailProperties, EmptySeq
<1>3. row \in Members /\ row.userset_id = s /\ row.username = todo[c][1].username
  BY <1>1, <1>2 DEF Members, PlannedRow
<1>4. /\ members' = Append(members, row) /\ todo' = [todo EXCEPT ![c] = Tail(@)]
      /\ pc' = [pc EXCEPT ![c] = IF IsLast(todo[c]) THEN "make_keys" ELSE "sample_shard"]
      /\ UNCHANGED <<accounts, usersets, owed, username, req, id, sampled, intended>>
  BY DEF InsertMember, Step
<1> HIDE DEF row, rest, left
<1>5. /\ n \in Nat /\ Len(members') = n + 1 /\ members'[n + 1] = row
      /\ \A k \in 1..n : members'[k] = members[k]
  BY <1>3, <1>4, AppendProperties, LenProperties DEF StorageInv, TypeOK
<1>6. /\ \A i : i # s => RowsOf(i)' = RowsOf(i)
      /\ RowsOf(s)' = RowsOf(s) \cup {n + 1}
      /\ Cardinality(RowsOf(s)') = Cardinality(RowsOf(s)) + 1
      /\ Cardinality(RowsOf(s)) \in Nat
  BY <1>3, <1>4, AppendedRow, RowsOfProperties DEF StorageInv
<1>7. HaveAccounts(todo[c]) /\ Cardinality(RowsOf(s)) + left = Len(intended[s])
  BY <1>1 DEF left, WholeInv, ThreadOK, Inserting
<1>8. ~Complete(s)
  BY <1>2, <1>6, <1>7 DEF Complete
<1>9. HaveAccounts(members)'
  <2> SUFFICES ASSUME NEW k \in 1..(n + 1) PROVE accounts[members'[k].username] # None
    BY <1>4, <1>5 DEF HaveAccounts
  <2>1. CASE k = n + 1
    <3>1. 1 \in 1..Len(todo[c])
      BY <1>2 DEF left
    <3> QED
      BY <2>1, <3>1, <1>3, <1>5, <1>7 DEF HaveAccounts
  <2>2. CASE k \in 1..n
    BY <2>2, <1>5 DEF WholeInv, HaveAccounts
  <2> QED
    BY <2>1, <2>2, <1>5
<1>10. ThreadOK(c)'
  <2>1. /\ todo'[c] = rest /\ id'[c] = s /\ intended'[s] = intended[s]
        /\ pc'[c] = IF IsLast(todo[c]) THEN "make_keys" ELSE "sample_shard"
    BY <1>1, <1>4 DEF StorageInv, TypeOK, rest
  <2>2. HaveAccounts(todo[c])'
    <3> SUFFICES ASSUME NEW k \in 1..Len(rest) PROVE accounts[rest[k].username] # None
      BY <1>4, <2>1 DEF HaveAccounts
    <3>1. k + 1 \in 1..Len(todo[c])
      BY <1>2 DEF left
    <3>2. accounts[todo[c][k + 1].username] # None
      BY <3>1, <1>7 DEF HaveAccounts
    <3> QED
      BY <3>2, <1>2
  <2>3. Cardinality(RowsOf(s)') + Len(rest) = Len(intended[s])
    BY <1>2, <1>6, <1>7
  <2>4. IsLast(todo[c]) => rest = <<>>
    <3>1. IsLast(todo[c]) => Len(rest) = 0
      BY <1>2 DEF IsLast, left
    <3> QED
      BY <3>1, <1>2, EmptySeq
  <2>5. Cardinality(RowsOf(id[c])') + Len(todo'[c]) = Len(intended'[id'[c]])
    BY <2>1, <2>3, <1>4
  <2> QED
    BY <2>1, <2>2, <2>4, <2>5 DEF ThreadOK, Inserting
<1>11. ASSUME NEW d \in Conns \ {c} PROVE ThreadOK(d)'
  <2>1. pc[d] \in Inserting => id[d] # s
    BY <1>1 DEF StorageInv, OneInserter, Inserting
  <2>2. ThreadOK(d) /\ pc'[d] = pc[d] /\ todo'[d] = todo[d] /\ id'[d] = id[d]
    BY <1>4 DEF WholeInv, StorageInv, TypeOK
  <2> PICK i : i = id[d]
    OBVIOUS
  <2>3. RowsOf(i) \subseteq RowsOf(i)' /\ (i # s => RowsOf(i)' = RowsOf(i))
    BY <1>4, <1>6
  <2>4. RowsOf(id[d])' = RowsOf(i)'
    BY <2>2 DEF RowsOf
  <2> QED
    BY <1>4, <2>1, <2>2, <2>3, <2>4, OtherThread DEF AccountsStay
<1>12. OwedOK'
  <2> SUFFICES ASSUME NEW k \in owed
               PROVE  /\ k.userset_id \in UserSetIDs /\ Complete(k.userset_id)'
                      /\ k.shard_id = ShardOf(k.username, k.userset_id)'
    BY <1>4 DEF OwedOK
  <2>1. /\ k.userset_id \in UserSetIDs \ {s} /\ Complete(k.userset_id)
        /\ k.shard_id = ShardOf(k.username, k.userset_id)
    BY <1>8 DEF WholeInv, OwedOK
  <2>2. RowsOf(k.userset_id)' = RowsOf(k.userset_id)
    BY <1>6, <2>1
  <2>3. ShardOf(k.username, k.userset_id)' = ShardOf(k.username, k.userset_id)
    BY <1>5, <2>2, ShardOfStays DEF StorageInv
  <2> QED
    BY <1>4, <2>1, <2>2, <2>3 DEF Complete
<1>13. intended' \in [UserSetIDs -> Seq(PlannedRow)]
  BY <1>4 DEF WholeInv
<1>14. WholeInv'
  BY <1>9, <1>10, <1>11, <1>12, <1>13 DEF WholeInv
<1> QED
  BY <1>1, <1>4, <1>5, <1>6, <1>8, <1>14

LEMMA CrashWhole == StorageInv /\ WholeInv /\ Crash => WholeInv' /\ UNCHANGED <<usersets, members, intended>>
<1> SUFFICES ASSUME StorageInv, WholeInv, Crash PROVE WholeInv' /\ UNCHANGED <<usersets, members, intended>>
  OBVIOUS
<1>1. \A c \in Conns : ThreadOK(c)'
  BY RestingThread DEF Crash, Resting
<1> QED
  BY <1>1, WholeStays DEF Crash, tables, AccountsStay

-----------------------------------------------------------------------------
LEMMA RequestWhole ==
    ASSUME StorageInv, WholeInv, NEW c \in Conns, Requests(c)
    PROVE  WholeInv' /\ UNCHANGED <<accounts, usersets, members, intended>>
<1>1. WholeInv' /\ UNCHANGED <<usersets, members, intended>>
  BY QuietSteps, MakeUserSetWhole, GetMembersWhole DEF Requests
<1>2. UNCHANGED accounts
  BY DEF Requests, Signup, Login, MakeUserSet, Update, GetMembers, Logout, Local, tables
<1> QED
  BY <1>1, <1>2

LEMMA WorkWhole ==
    ASSUME StorageInv, WholeInv, NEW c \in Conns, Work(c)
    PROVE  WholeInv'
BY QuietSteps, CheckMemberWhole, ChooseUserSetIDWhole, InsertUserSetWhole, SampleShardIDWhole,
   InsertMemberWhole, MakeKeysWhole DEF Work

LEMMA NextWhole == StorageInv /\ WholeInv /\ [Next]_vars => WholeInv'
<1> SUFFICES ASSUME StorageInv, WholeInv, [Next]_vars PROVE WholeInv'
  OBVIOUS
<1>1. CASE UNCHANGED vars
  <2>1. \A c \in Conns : ThreadOK(c)'
    BY <1>1, ThreadStays DEF vars, tables, thread, AccountsStay, WholeInv
  <2> QED
    BY <2>1, <1>1, WholeStays DEF vars, tables, AccountsStay
<1> QED
  BY <1>1, RequestWhole, WorkWhole, QuietSteps, CrashWhole DEF Next

\* Usersets of which every row is there are whole from then on, in every reachable state.
LEMMA WholeInvHolds == Spec => [](StorageInv /\ WholeInv)
<1>1. Init => StorageInv /\ WholeInv
  BY InitStorageInv, InitWhole
<1>2. StorageInv /\ WholeInv /\ [Next]_vars => (StorageInv /\ WholeInv)'
  BY NextStorageInv, NextWhole
<1> QED
  BY <1>1, <1>2, PTL DEF Spec

\* An answered make_userset stands for a whole userset, and so does every key shard that
\* waits or was handed out, over failed statements and crashes; get_members answers no less
\* than was there (new_userset and get_userset_info, which take several critical sections).
THEOREM AnsweredSetsAreComplete == Spec => []AnsweredSetsComplete
<1>1. StorageInv /\ WholeInv => AnsweredSetsComplete
  <2> SUFFICES ASSUME StorageInv, WholeInv PROVE AnsweredSetsComplete
    OBVIOUS
  <2>1. \A c \in Conns : pc[c] = "make_keys" => Complete(id[c])
    BY KeysOfWholeSets
  <2> QED
    BY <2>1 DEF AnsweredSetsComplete, WholeInv, ThreadOK, OwedOK, MemberRows
<1> QED
  BY <1>1, WholeInvHolds, PTL

-----------------------------------------------------------------------------
\* The refinement.  What AbstractStorage sees of a userset is Infos.

LEMMA SameInfos ==
    ASSUME UNCHANGED <<accounts, members>>, \A i \in UserSetIDs : Complete(i)' = Complete(i)
    PROVE  UNCHANGED <<accounts, Infos>>
<1>1. \A i \in UserSetIDs : InfoOf(i)' = InfoOf(i)
  BY DEF InfoOf, RowsOf
<1> QED
  BY <1>1 DEF Infos

LEMMA NoNewRows ==
    ASSUME UNCHANGED <<accounts, usersets, members, intended>> PROVE UNCHANGED <<accounts, Infos>>
<1>1. \A i \in UserSetIDs : Complete(i)' = Complete(i)
  BY DEF Complete, RowsOf
<1> QED
  BY <1>1, SameInfos

\* A new user is a step of AbstractStorage, or the name was taken.
LEMMA InsertUserAbstract ==
    ASSUME StorageInv, NEW c \in Conns, InsertUser(c)
    PROVE  Abstract!NewUser \/ UNCHANGED <<accounts, Infos>>
<1>1. UNCHANGED <<usersets, members, intended>>
  BY DEF InsertUser
<1>2. req[c].username \in Users /\ req[c].password \in Passwords
  BY DEF InsertUser, StorageInv, TypeOK
<1>3. \A i \in UserSetIDs : Complete(i)' = Complete(i)
  BY <1>1 DEF Complete, RowsOf
<1>4. CASE accounts[req[c].username] # None
  BY <1>1, <1>3, <1>4, SameInfos DEF InsertUser
<1>5. CASE accounts[req[c].username] = None
  <2>1. \A i \in UserSetIDs : InfoOf(i)' = InfoOf(i)
    BY <1>1 DEF InfoOf, RowsOf
  <2>2. Infos' = Infos
    BY <1>3, <2>1 DEF Infos
  <2> QED
    BY <1>2, <1>5, <2>2 DEF InsertUser, Abstract!NewUser
<1> QED
  BY <1>4, <1>5

\* A member's row makes its userset appear whole, or nothing to be seen.
LEMMA InsertMemberAbstract ==
    ASSUME StorageInv, WholeInv, NEW c \in Conns, InsertMember(c)
    PROVE  Abstract!NewUserSet \/ UNCHANGED <<accounts, Infos>>
<1> PICK i : i = id[c]
  OBVIOUS
<1>1. /\ WholeInv' /\ StorageInv' /\ UNCHANGED <<accounts, usersets, intended>>
      /\ i \in UserSetIDs /\ ~Complete(i)
      /\ \A j \in UserSetIDs \ {i} : RowsOf(j)' = RowsOf(j)
      /\ \A k \in 1..Len(members) : members'[k] = members[k]
  BY InsertMemberWhole, InsertMemberInv
<1>2. ASSUME NEW j \in UserSetIDs \ {i} PROVE Complete(j)' = Complete(j) /\ InfoOf(j)' = InfoOf(j)
  <2>1. RowsOf(j) \in SUBSET (1..Len(members)) /\ RowsOf(j)' = RowsOf(j)
    BY <1>1, RowsOfProperties DEF StorageInv
  <2> QED
    BY <1>1, <2>1 DEF Complete, InfoOf
<1>3. CASE ~Complete(i)'
  BY <1>1, <1>2, <1>3 DEF Infos
<1>4. CASE Complete(i)'
  <2>1. Infos[i] = None /\ Infos'[i] = InfoOf(i)'
    BY <1>1, <1>4 DEF Infos
  <2>2. Infos' = [Infos EXCEPT ![i] = Infos'[i]]
    BY <1>1, <1>2 DEF Infos
  <2>3. /\ RowsOf(i)' \subseteq 1..Len(members') /\ \A k \in 1..Len(members') : members'[k] \in Members
        /\ DOMAIN members' = 1..Len(members')
    BY <1>1, RowsOfProperties, LenProperties, ElementOfSeq DEF StorageInv, TypeOK, RowsOf
  <2>4. InfoOf(i)' \in SUBSET [username : Users, shard_id : ShardIDs, is_owner : BOOLEAN]
    BY <2>3 DEF InfoOf, Members
  <2>5. InfoOf(i)' # None
    BY <2>4, StorageConstants DEF ShardIDs
  <2>6. \A m \in InfoOf(i)' : accounts[m.username] # None
    BY <1>1, <2>3 DEF InfoOf, WholeInv, HaveAccounts
  <2>7. ASSUME NEW m \in InfoOf(i)', NEW n \in InfoOf(i)', m.shard_id = n.shard_id PROVE m = n
    <3>1. PICK k \in RowsOf(i)' :
              m = [username |-> members'[k].username, shard_id |-> members'[k].shard_id,
                   is_owner |-> members'[k].is_owner]
      BY DEF InfoOf
    <3>2. PICK l \in RowsOf(i)' :
              n = [username |-> members'[l].username, shard_id |-> members'[l].shard_id,
                   is_owner |-> members'[l].is_owner]
      BY DEF InfoOf
    <3>3. members'[k].userset_id = i /\ members'[l].userset_id = i
      BY DEF RowsOf
    <3>4. k = l
      BY <1>1, <2>3, <2>7, <3>1, <3>2, <3>3 DEF StorageInv, ShardIDsDiffer
    <3> QED
      BY <3>1, <3>2, <3>4
  <2>8. Abstract!Valid(InfoOf(i)')
    BY <2>4, <2>6, <2>7 DEF Abstract!Valid, Abstract!Member
  <2> QED
    BY <1>1, <2>1, <2>2, <2>5, <2>8 DEF Abstract!NewUserSet
<1> QED
  BY <1>3, <1>4

\* Every step of the storage is one of AbstractStorage, or changes nothing that it sees.
LEMMA NextAbstract ==
    ASSUME StorageInv, WholeInv, [Next]_vars PROVE [Abstract!Next]_<<accounts, Infos>>
<1>1. CASE UNCHANGED vars
  BY <1>1, NoNewRows DEF vars, tables
<1>2. ASSUME NEW c \in Conns, Requests(c) PROVE UNCHANGED <<accounts, Infos>>
  BY <1>2, RequestWhole, NoNewRows
<1>3. ASSUME NEW c \in Conns, Work(c) PROVE [Abstract!Next]_<<accounts, Infos>>
  <2>1. ASSUME CheckNewUser(c) \/ CheckMember(c) \/ ChooseUserSetID(c) \/ SampleShardID(c)
               \/ MakeKeys(c) \/ ReadMembers(c)
        PROVE  UNCHANGED <<accounts, usersets, members, intended>>
    BY <2>1 DEF CheckNewUser, CheckMember, ChooseUserSetID, SampleShardID, MakeKeys, ReadMembers, Local, tables
  <2>2. CASE InsertUserSet(c)
    BY <2>2, InsertUserSetWhole, SameInfos
  <2> QED
    BY <1>3, <2>1, <2>2, NoNewRows, InsertUserAbstract, InsertMemberAbstract DEF Work, Abstract!Next
<1>4. ASSUME NEW c \in Conns, Fail(c) \/ FailLogin(c) PROVE UNCHANGED <<accounts, Infos>>
  BY <1>4, NoNewRows DEF Fail, FailLogin, tables
<1>5. CASE Crash
  BY <1>5, NoNewRows DEF Crash, tables
<1> QED
  BY <1>1, <1>2, <1>3, <1>4, <1>5 DEF Next

\* Accounts and usersets come into being in one step each and stay, whatever fails or
\* crashes: new_userset, which inserts row after row without a transaction, makes a userset
\* with its last row, and what an interrupted one left never becomes a userset.
THEOREM StorageIsAtomic == Spec => ImplementsAbstractStorage
<1>1. Init => Abstract!Init
  <2> SUFFICES ASSUME Init PROVE Abstract!Init
    OBVIOUS
  <2>1. \A i \in UserSetIDs : ~Complete(i)
    BY DEF Init, Complete
  <2>2. Infos = [i \in UserSetIDs |-> None]
    BY <2>1 DEF Infos
  <2> QED
    BY <2>2 DEF Init, Abstract!Init
<1>2. StorageInv /\ WholeInv /\ [Next]_vars => [Abstract!Next]_<<accounts, Infos>>
  BY NextAbstract
<1> QED
  BY <1>1, <1>2, WholeInvHolds, PTL DEF Spec, ImplementsAbstractStorage, Abstract!Spec
=============================================================================
