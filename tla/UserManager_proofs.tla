------------------------- MODULE UserManager_proofs -------------------------
(***************************************************************************)
(* For any number of threads, users, calls, failing statements and         *)
(* restarts: the counters that new ids are taken from stay above the ids   *)
(* that are stored (IdsBelowBase); and unless two creations met, the cache *)
(* and the table agree on who has which id and name (IdsAgree).            *)
(***************************************************************************)
EXTENDS UserManager, TLAPS

(***************************************************************************)
(* IdsBelowBase is preserved by the calls as it stands; the start of a     *)
(* process needs more, because the counters are computed anew: that the    *)
(* ids of the rows are bounded, and that the group counter does not start  *)
(* below the boundary.                                                     *)
(***************************************************************************)
IdInv ==
    /\ DOMAIN t_user \subseteq Nat
    /\ \E u \in Nat : \A id \in DOMAIN t_user : id <= u
    /\ base_user_id_ \in Nat /\ base_group_id_ \in Nat
    /\ GROUPID_BOUBDARY <= base_group_id_
    /\ IdsBelowBase

\* What most steps do: no id comes or goes and no counter moves.
SameIds ==
    /\ DOMAIN t_user' = DOMAIN t_user
    /\ UNCHANGED <<base_user_id_, base_group_id_, up>>

LEMMA SameIdsKeep == IdInv /\ SameIds => IdInv'
BY DEF IdInv, IdsBelowBase, SameIds

LEMMA CrashIds == IdInv /\ Crash => IdInv'
<1> SUFFICES ASSUME IdInv, Crash PROVE IdInv' OBVIOUS
<1>1. t_user' = t_user /\ base_user_id_' = 0 /\ base_group_id_' = GROUPID_BOUBDARY /\ ~up'
  BY Zenon DEF Crash, dbVars
<1>2. GROUPID_BOUBDARY \in Nat /\ GROUPID_BOUBDARY <= GROUPID_BOUBDARY BY UserAssumption, SMT
<1> QED BY <1>1, <1>2 DEF IdInv, IdsBelowBase

\* A call that ends early, or that only reads or writes other tables and the cache.
LEMMA GiveUpIds == ASSUME NEW t, NEW ids, GiveUp(t, ids) PROVE SameIds
BY DEF GiveUp, SameIds, dbVars, memVars

\* Counting up moves a counter away from the ids below it.
LEMMA CountIds ==
  ASSUME IdInv, NEW t, CountUser(t) \/ CountGroup(t)
  PROVE  IdInv'
<1> DEFINE b == base_user_id_
           g == base_group_id_
           c == base_user_id_'
           h == base_group_id_'
           B == GROUPID_BOUBDARY
<1>1. b \in Nat /\ g \in Nat /\ B \in Nat /\ B <= g BY UserAssumption DEF IdInv
<1>2. t_user' = t_user /\ up' = up /\ ((c = b + 1 /\ h = g) \/ (c = b /\ h = g + 1))
  BY DEF CountUser, CountGroup, dbVars
<1>3. DOMAIN t_user \subseteq Nat /\ \E u \in Nat : \A id \in DOMAIN t_user : id <= u
  BY DEF IdInv
<1>4. (up /\ b < B) => \A id \in DOMAIN t_user : id <= IF id < B THEN b ELSE g
  BY DEF IdInv, IdsBelowBase
<1>5. c \in Nat /\ h \in Nat /\ B <= h /\ b <= c /\ g <= h /\ (c < B => b < B)
  <2> HIDE DEF b, g, c, h, B
  <2> QED BY <1>1, <1>2, SMT
<1>6. (up /\ c < B) => \A id \in DOMAIN t_user : id <= IF id < B THEN c ELSE h
  <2> HIDE DEF b, g, c, h, B
  <2> QED BY <1>1, <1>3, <1>4, <1>5, SMT
<1> QED BY <1>2, <1>3, <1>5, <1>6 DEF IdInv, IdsBelowBase

\* A row is inserted under the counter of its kind.  A user whose number has run into
\* those of the groups falls outside IdsBelowBase until the next start.
LEMMA InsertIds ==
  ASSUME IdInv, NEW t, NEW id \in {base_user_id_, base_group_id_}, NEW row, Insert(t, id, row)
  PROVE  IdInv'
<1>1. CASE SameIds BY <1>1, SameIdsKeep
<1>2. CASE Store(t, AddRow(t_user, id, row), "push")
  <2> DEFINE b == base_user_id_
             g == base_group_id_
             B == GROUPID_BOUBDARY
  <2>1. b \in Nat /\ g \in Nat /\ B \in Nat /\ B <= g BY UserAssumption DEF IdInv
  <2>2. /\ DOMAIN t_user' = DOMAIN t_user \cup {id}
        /\ UNCHANGED <<base_user_id_, base_group_id_, up>>
    BY <1>2 DEF Store, memVars, AddRow
  <2>3. id = b \/ id = g OBVIOUS
  <2>4. DOMAIN t_user' \subseteq Nat BY <2>1, <2>2 DEF IdInv
  <2>5. \E u \in Nat : \A i \in DOMAIN t_user' : i <= u
    <3>1. PICK u \in Nat : \A i \in DOMAIN t_user : i <= u BY DEF IdInv
    <3>2. DOMAIN t_user \subseteq Nat BY DEF IdInv
    <3>3. id \in Nat BY <2>1, <2>3
    <3> DEFINE v == u + id
    <3>4. v \in Nat /\ u <= v /\ id <= v BY <3>1, <3>3, SMT
    <3> HIDE DEF v
    <3>5. \A i \in DOMAIN t_user : i <= v BY <3>1, <3>2, <3>4, SMT
    <3> QED BY <2>2, <3>4, <3>5
  <2>6. (up /\ b < B) => \A i \in DOMAIN t_user \cup {id} : i <= IF i < B THEN b ELSE g
    <3>1. (up /\ b < B) => \A i \in DOMAIN t_user : i <= IF i < B THEN b ELSE g
      BY DEF IdInv, IdsBelowBase
    <3>2. b < B => id <= IF id < B THEN b ELSE g
      <4> HIDE DEF b, g, B
      <4> QED BY <2>1, <2>3, SMT
    <3> QED BY <3>1, <3>2
  <2> QED BY <2>1, <2>2, <2>4, <2>5, <2>6 DEF IdInv, IdsBelowBase
<1> QED BY <1>1, <1>2, GiveUpIds DEF Insert, Fail, Refuse

LEMMA RegisterIds ==
  ASSUME IdInv, NEW t, register_user(t) \/ addUser(t) \/ addGroup(t)
  PROVE  IdInv'
<1>1. CASE register_user(t)
  BY <1>1, SameIdsKeep DEF register_user, SameIds, dbVars, memVars
<1>2. CASE addUser(t)
  <2>1. ASSUME NEW users, NEW ret, Cache(t, users, ret) PROVE SameIds
    BY <2>1 DEF Cache, SameIds, dbVars
  <2>2. ASSUME NEW ids, Fail(t, ids) PROVE SameIds BY <2>2, GiveUpIds DEF Fail
  <2> QED BY <1>2, <2>1, <2>2, SameIdsKeep, CountIds, InsertIds DEF addUser
<1>3. CASE addGroup(t)
  <2>1. ASSUME NEW users, NEW ret, Cache(t, users, ret) PROVE SameIds
    BY <2>1 DEF Cache, SameIds, dbVars
  <2>2. ASSUME NEW ids, Fail(t, ids) PROVE SameIds BY <2>2, GiveUpIds DEF Fail
  <2> QED BY <1>3, <2>1, <2>2, SameIdsKeep, CountIds, InsertIds, Zenon DEF addGroup
<1> QED BY <1>1, <1>2, <1>3

\* All other operations keep the ids: they change columns, relationships and the cache.
LEMMA OtherIds ==
  ASSUME NEW t,
         \/ updateUserInfoInDb(t) \/ modifyUserPassword(t) \/ updateUserTeamInfoInDbAndMemory(t)
         \/ saveChatMsgToDb(t) \/ Befriend(t) \/ Unfriend(t)
         \/ deleteTeam(t) \/ modifyTeamName(t) \/ updateMarknameInDb(t) \/ moveFriendToOtherTeam(t)
  PROVE  SameIds
<1>1. ASSUME NEW ids, Fail(t, ids) \/ Refuse(t, ids) PROVE SameIds
  BY <1>1, GiveUpIds DEF Fail, Refuse
<1>2. ASSUME NEW users, NEW ret, Cache(t, users, ret) PROVE SameIds
  BY <1>2 DEF Cache, SameIds, dbVars
<1>3. ASSUME NEW rows, NEW next, Relate(t, rows, next) PROVE SameIds
  BY <1>3 DEF Relate, SameIds, memVars
<1>4. ASSUME UNCHANGED <<dbVars, memVars, up, history>> PROVE SameIds
  BY <1>4 DEF SameIds, dbVars, memVars
<1>5. ASSUME NEW col, SetColumn(t, col) PROVE SameIds
  <2>1. ASSUME NEW next, NEW rows, DOMAIN rows = DOMAIN t_user, Store(t, rows, next) PROVE SameIds
    BY <2>1 DEF Store, SameIds, memVars
  <2> QED BY <1>1, <1>2, <1>5, <2>1 DEF SetColumn
<1>6. ASSUME NEW old, NEW new, Rename(t, old, new) PROVE SameIds
  BY <1>1, <1>2, <1>3, <1>6 DEF Rename
<1>7. CASE updateUserInfoInDb(t) \/ modifyUserPassword(t) \/ updateUserTeamInfoInDbAndMemory(t)
  BY <1>5, <1>7 DEF updateUserInfoInDb, modifyUserPassword, updateUserTeamInfoInDbAndMemory
<1>8. CASE saveChatMsgToDb(t)
  BY <1>1, <1>8, Zenon DEF saveChatMsgToDb, SameIds, memVars
<1>9. CASE Befriend(t)
  BY <1>1, <1>2, <1>3, <1>9 DEF Befriend, makeFriendRelationshipInDB
<1>10. CASE Unfriend(t)
  BY <1>1, <1>2, <1>3, <1>4, <1>10, Zenon DEF Unfriend, releaseFriendRelationship, deleteFriendToUser
<1>11. CASE deleteTeam(t) \/ modifyTeamName(t)
  BY <1>6, <1>11 DEF deleteTeam, modifyTeamName
<1>12. CASE updateMarknameInDb(t)
  BY <1>1, <1>2, <1>3, <1>12 DEF updateMarknameInDb
<1>13. CASE moveFriendToOtherTeam(t)
  BY <1>1, <1>2, <1>3, <1>4, <1>13 DEF moveFriendToOtherTeam
<1> QED BY <1>7, <1>8, <1>9, <1>10, <1>11, <1>12, <1>13

LEMMA StepIds == ASSUME IdInv, NEW t, Step(t) PROVE IdInv'
BY RegisterIds, OtherIds, SameIdsKeep DEF Step

LEMMA CallIds == ASSUME NEW t, NEW c, Call(t, c) PROVE SameIds
BY DEF Call, SameIds, dbVars, memVars

-----------------------------------------------------------------------------
(***************************************************************************)
(* What the actions do to call, to the names and ids of the rows, and to   *)
(* those of the cached users.                                              *)
(***************************************************************************)
Fields == {"op", "pc", "id", "f", "v", "w", "ret"}

IsList(s) == \E n \in Nat : s = [i \in 1 .. n |-> s[i]]

Shape ==
    /\ DOMAIN call = Threads
    /\ \A t \in Threads : DOMAIN call[t] = Fields
    /\ \A t \in Threads : call[t].op # "none" => call[t].ret = ""
    /\ overlapped \in BOOLEAN
    /\ \A id \in DOMAIN t_user : "username" \in DOMAIN t_user[id]
    /\ IsList(all_cached_users_)
    /\ \A i \in DOMAIN all_cached_users_ :
           "userid" \in DOMAIN all_cached_users_[i] /\ "username" \in DOMAIN all_cached_users_[i]

LEMMA GotoFields ==
  ASSUME Shape, NEW t \in Threads, NEW pc, Goto(t, pc)
  PROVE  /\ DOMAIN call' = Threads
         /\ \A s \in Threads \ {t} : call'[s] = call[s]
         /\ DOMAIN call'[t] = Fields
         /\ call'[t].op = call[t].op /\ call'[t].f = call[t].f /\ call'[t].ret = call[t].ret
         /\ call'[t].pc = pc
<1>1. call' = [call EXCEPT ![t] = [call[t] EXCEPT !.pc = pc]] BY DEF Goto
<1>2. DOMAIN call = Threads /\ DOMAIN call[t] = Fields BY Zenon DEF Shape
<1> DEFINE c == call[t]
<1>3. call'[t] = [c EXCEPT !.pc = pc] BY <1>1, <1>2
<1>4. DOMAIN [c EXCEPT !.pc = pc] = Fields BY <1>2
<1>5. \A x \in Fields : [c EXCEPT !.pc = pc][x] = IF x = "pc" THEN pc ELSE c[x] BY <1>2
<1>6. {"op", "f", "ret", "pc"} \subseteq Fields BY DEF Fields
<1> HIDE DEF c
<1>7. /\ [c EXCEPT !.pc = pc].op = c.op /\ [c EXCEPT !.pc = pc].f = c.f
      /\ [c EXCEPT !.pc = pc].ret = c.ret /\ [c EXCEPT !.pc = pc].pc = pc
  BY <1>5, <1>6
<1> QED BY <1>1, <1>2, <1>3, <1>4, <1>7 DEF c

LEMMA ReturnFields ==
  ASSUME Shape, NEW t \in Threads, NEW ret, Return(t, ret)
  PROVE  /\ DOMAIN call' = Threads
         /\ \A s \in Threads \ {t} : call'[s] = call[s]
         /\ DOMAIN call'[t] = Fields
         /\ call'[t].op = "none" /\ call'[t].pc = ""
         /\ call'[t].ret = IF call[t].op = "register_user" THEN ret ELSE ""
<1> DEFINE r == IF call[t].op = "register_user" THEN ret ELSE ""
<1>1. call' = [call EXCEPT ![t] = Idle(r)] BY Zenon DEF Return
<1>2. DOMAIN call = Threads BY Zenon DEF Shape
<1>3. /\ DOMAIN Idle(r) = Fields /\ Idle(r).op = "none" /\ Idle(r).pc = "" /\ Idle(r).ret = r
  <2> HIDE DEF r
  <2> QED BY DEF Idle, Request, Fields
<1> QED BY <1>1, <1>2, <1>3, Zenon

\* Steps that keep who has which id and name, in the table and in the cache.
SameRows(rows) ==
    /\ DOMAIN rows = DOMAIN t_user
    /\ \A id \in DOMAIN t_user :
           DOMAIN rows[id] = DOMAIN t_user[id] /\ rows[id].username = t_user[id].username

SameUsers(users) ==
    /\ IsList(users) /\ DOMAIN users = DOMAIN all_cached_users_
    /\ \A i \in DOMAIN users :
           /\ DOMAIN users[i] = DOMAIN all_cached_users_[i]
           /\ users[i].userid = all_cached_users_[i].userid
           /\ users[i].username = all_cached_users_[i].username

SameAccounts ==
    /\ SameRows(t_user') /\ SameUsers(all_cached_users_')
    /\ UNCHANGED <<base_user_id_, base_group_id_, up, overlapped>>

\* Only t moves, in its call or to the end of it.
Moves(t) ==
    /\ DOMAIN call' = Threads /\ DOMAIN call'[t] = Fields
    /\ \A s \in Threads \ {t} : call'[s] = call[s]
    /\ call'[t].op \in {"none", call[t].op}

\* Only columns other than name and id change in the cached users.
LEMMA UsersKept ==
  ASSUME Shape, NEW users, DOMAIN users = DOMAIN all_cached_users_,
         users = [i \in DOMAIN users |-> users[i]],
         \A i \in DOMAIN users :
             \/ users[i] = all_cached_users_[i]
             \/ \E col \in {"info", "password", "teaminfo", "friends"} : \E v :
                    users[i] = [all_cached_users_[i] EXCEPT ![col] = v]
  PROVE  SameUsers(users)
<1>1. PICK n \in Nat : all_cached_users_ = [i \in 1 .. n |-> all_cached_users_[i]]
  BY Zenon DEF Shape, IsList
<1>2. DOMAIN users = 1 .. n BY <1>1
<1>3. IsList(users) BY <1>1, <1>2 DEF IsList
<1>4. ASSUME NEW i \in DOMAIN users
      PROVE  /\ DOMAIN users[i] = DOMAIN all_cached_users_[i]
             /\ users[i].userid = all_cached_users_[i].userid
             /\ users[i].username = all_cached_users_[i].username
  <2>1. CASE users[i] = all_cached_users_[i] BY <2>1
  <2>2. ASSUME NEW col \in {"info", "password", "teaminfo", "friends"}, NEW v,
               users[i] = [all_cached_users_[i] EXCEPT ![col] = v]
        PROVE  /\ DOMAIN users[i] = DOMAIN all_cached_users_[i]
               /\ users[i].userid = all_cached_users_[i].userid
               /\ users[i].username = all_cached_users_[i].username
    <3> DEFINE u == all_cached_users_[i]
    <3>1. "userid" \in DOMAIN u /\ "username" \in DOMAIN u BY Zenon DEF Shape
    <3>2. col # "userid" /\ col # "username" OBVIOUS
    <3> HIDE DEF u
    <3>3. /\ DOMAIN [u EXCEPT ![col] = v] = DOMAIN u
          /\ [u EXCEPT ![col] = v]["userid"] = u["userid"]
          /\ [u EXCEPT ![col] = v]["username"] = u["username"]
      BY <3>1, <3>2
    <3> QED BY <2>2, <3>3 DEF u
  <2> QED BY <2>1, <2>2
<1> QED BY <1>3, <1>4 DEF SameUsers

\* The parts the other operations are made of.
LEMMA SameKept == ASSUME Shape PROVE SameRows(t_user) /\ SameUsers(all_cached_users_)
BY Zenon DEF Shape, SameRows, SameUsers

LEMMA EndMoves ==
  ASSUME Shape, NEW t \in Threads, NEW ret, call[t].op # "register_user", Return(t, ret)
  PROVE  Moves(t) /\ call'[t].ret = ""
BY ReturnFields, Zenon DEF Moves

LEMMA GotoMoves ==
  ASSUME Shape, NEW t \in Threads, NEW pc, call[t].op # "none", Goto(t, pc)
  PROVE  Moves(t) /\ call'[t].ret = ""
BY GotoFields, Zenon DEF Moves, Shape

\* The operations other than registering and creating groups.
LEMMA OtherAccounts ==
  ASSUME Shape, NEW t \in Threads,
         \/ updateUserInfoInDb(t) \/ modifyUserPassword(t) \/ updateUserTeamInfoInDbAndMemory(t)
         \/ saveChatMsgToDb(t) \/ Befriend(t) \/ Unfriend(t)
         \/ deleteTeam(t) \/ modifyTeamName(t) \/ updateMarknameInDb(t) \/ moveFriendToOtherTeam(t)
  PROVE  /\ SameAccounts /\ Moves(t) /\ call'[t].ret = ""
         /\ call[t].op \notin {"none", "register_user", "addGroup"}
<1> DEFINE Goal == SameAccounts /\ Moves(t) /\ call'[t].ret = ""
<1>1. call[t].op \notin {"none", "register_user", "addGroup"}
  BY DEF updateUserInfoInDb, modifyUserPassword, updateUserTeamInfoInDbAndMemory, saveChatMsgToDb,
         Befriend, Unfriend, deleteTeam, modifyTeamName, updateMarknameInDb, moveFriendToOtherTeam
<1>2. ASSUME NEW ids, Fail(t, ids) \/ Refuse(t, ids) PROVE Goal
  <2>1. /\ Return(t, "failed")
        /\ UNCHANGED <<dbVars, memVars, up, calls, crashes, overlapped>>
    BY <1>2 DEF Fail, Refuse, GiveUp
  <2>2. SameAccounts BY <2>1, SameKept, Zenon DEF SameAccounts, dbVars, memVars
  <2> QED BY <1>1, <2>1, <2>2, EndMoves, Zenon
<1>3. ASSUME NEW users, NEW ret, SameUsers(users), Cache(t, users, ret) PROVE Goal
  <2>1. SameAccounts BY <1>3, SameKept DEF Cache, SameAccounts, dbVars, history
  <2> QED BY <1>1, <1>3, <2>1, EndMoves, Zenon DEF Cache
<1>4. ASSUME NEW rows, NEW next, Relate(t, rows, next) PROVE Goal
  <2>1. SameAccounts BY <1>4, SameKept DEF Relate, SameAccounts, memVars, history
  <2> QED BY <1>1, <1>4, <2>1, GotoMoves, Zenon DEF Relate
<1>5. ASSUME NEW pc, Goto(t, pc), UNCHANGED <<dbVars, memVars, up, history>> PROVE Goal
  <2>1. SameAccounts BY <1>5, SameKept DEF SameAccounts, dbVars, memVars, history
  <2> QED BY <1>1, <1>5, <2>1, GotoMoves, Zenon
<1>6. ASSUME NEW next, NEW rows, SameRows(rows), Store(t, rows, next) PROVE Goal
  <2>1. SameAccounts BY <1>6, SameKept DEF Store, SameAccounts, memVars, history
  <2> QED BY <1>1, <1>6, <2>1, GotoMoves, Zenon DEF Store
<1> HIDE DEF Goal
<1>7. ASSUME NEW col \in {"info", "password", "teaminfo"}, SetColumn(t, col) PROVE Goal
  <2> DEFINE c == call[t]
             i == UserAt(c.id)
             rows == [id \in DOMAIN t_user |->
                 IF id = c.id THEN [t_user[id] EXCEPT ![col] = c.v] ELSE t_user[id]]
             users == [all_cached_users_ EXCEPT ![i][col] = c.v]
  <2>1. SameRows(rows)
    <3>1. ASSUME NEW id \in DOMAIN t_user
          PROVE  DOMAIN rows[id] = DOMAIN t_user[id] /\ rows[id].username = t_user[id].username
      <4> DEFINE r == t_user[id]
                 v == c.v
      <4>1. "username" \in DOMAIN r /\ col # "username" BY Zenon DEF Shape
      <4>2. rows[id] = r \/ rows[id] = [r EXCEPT ![col] = v] OBVIOUS
      <4> HIDE DEF r, v, rows
      <4>3. /\ DOMAIN [r EXCEPT ![col] = v] = DOMAIN r
            /\ [r EXCEPT ![col] = v]["username"] = r["username"]
        BY <4>1
      <4> QED BY <4>2, <4>3, Zenon DEF r
    <3> QED BY <3>1 DEF SameRows
  <2>2. SameUsers(users)
    <3>1. /\ DOMAIN users = DOMAIN all_cached_users_
          /\ users = [j \in DOMAIN users |-> users[j]]
          /\ \A j \in DOMAIN users :
                users[j] = IF j = i THEN [all_cached_users_[j] EXCEPT ![col] = c.v]
                           ELSE all_cached_users_[j]
      OBVIOUS
    <3> HIDE DEF users
    <3>2. col \in {"info", "password", "teaminfo", "friends"} OBVIOUS
    <3> QED BY <3>1, <3>2, UsersKept
  <2>3. SameUsers(all_cached_users_) BY SameKept
  <2>4. \/ Fail(t, {}) \/ Store(t, rows, "mem")
        \/ Cache(t, users, "ok") \/ Cache(t, all_cached_users_, "failed")
    BY <1>7 DEF SetColumn
  <2> QED BY <1>2, <1>3, <1>6, <2>1, <2>2, <2>3, <2>4
<1>8. ASSUME NEW id, NEW f, NEW operation
      PROVE  SameUsers(updateUserRelationshipInMemory(all_cached_users_, id, f, operation))
  <2> DEFINE users == updateUserRelationshipInMemory(all_cached_users_, id, f, operation)
  <2>1. /\ DOMAIN users = DOMAIN all_cached_users_
        /\ users = [j \in DOMAIN users |-> users[j]]
        /\ \A j \in DOMAIN users :
               \/ users[j] = all_cached_users_[j]
               \/ \E v : users[j] = [all_cached_users_[j] EXCEPT !["friends"] = v]
    BY Zenon DEF updateUserRelationshipInMemory
  <2> HIDE DEF users
  <2>2. "friends" \in {"info", "password", "teaminfo", "friends"} OBVIOUS
  <2>3. SameUsers(users) BY <2>1, <2>2, UsersKept
  <2> QED BY <2>3 DEF users
<1>9. ASSUME NEW id, NEW f PROVE SameUsers(addFriendToUser(id, f))
  <2> DEFINE changed == updateUserRelationshipInMemory(all_cached_users_, id, f, "FRIEND_OPERATION_ADD")
             users == addFriendToUser(id, f)
  <2>1. SameUsers(changed) BY <1>8
  <2>2. SameUsers(all_cached_users_) BY SameKept
  <2>3. /\ DOMAIN users = DOMAIN all_cached_users_
        /\ users = [j \in DOMAIN users |-> users[j]]
        /\ \A j \in DOMAIN users : users[j] = changed[j] \/ users[j] = all_cached_users_[j]
    BY DEF addFriendToUser
  <2> HIDE DEF users, changed
  <2>4. PICK n \in Nat : all_cached_users_ = [j \in 1 .. n |-> all_cached_users_[j]]
    BY Zenon DEF Shape, IsList
  <2>5. IsList(users)
    <3>1. DOMAIN users = 1 .. n BY <2>3, <2>4
    <3> QED BY <2>3, <3>1 DEF IsList
  <2>6. SameUsers(users) BY <2>1, <2>2, <2>3, <2>5 DEF SameUsers
  <2> QED BY <2>6 DEF users
<1>10. ASSUME NEW old, NEW new, Rename(t, old, new) PROVE Goal
  <2> DEFINE i == UserAt(call[t].id)
             users == [j \in DOMAIN all_cached_users_ |->
                 LET u == all_cached_users_[j]
                 IN IF j = i THEN [u EXCEPT !.friends =
                                      [k \in DOMAIN @ |-> RenameEntry(@[k], old, new)]]
                    ELSE u]
  <2>1. /\ DOMAIN users = DOMAIN all_cached_users_
        /\ users = [j \in DOMAIN users |-> users[j]]
        /\ \A j \in DOMAIN users :
               \/ users[j] = all_cached_users_[j]
               \/ \E v : users[j] = [all_cached_users_[j] EXCEPT !["friends"] = v]
    BY Zenon
  <2> HIDE DEF users
  <2>2. "friends" \in {"info", "password", "teaminfo", "friends"} OBVIOUS
  <2>3. SameUsers(users) BY <2>1, <2>2, UsersKept
  <2>4. \/ \E ids : Fail(t, ids)
        \/ \E rows, next : Relate(t, rows, next)
        \/ Cache(t, users, "ok")
    BY <1>10 DEF Rename, users
  <2> QED BY <1>2, <1>3, <1>4, <2>3, <2>4
<1>11. ASSUME NEW i, NEW f, NEW col, NEW v PROVE SameUsers(SetEntry(i, f, col, v))
  <2> DEFINE u == all_cached_users_[i]
             k == FriendAt(u.friends, f)
             users == [all_cached_users_ EXCEPT ![i].friends[k][col] = v]
  <2>1. /\ DOMAIN users = DOMAIN all_cached_users_
        /\ users = [j \in DOMAIN users |-> users[j]]
        /\ \A j \in DOMAIN users :
               \/ users[j] = all_cached_users_[j]
               \/ \E w : users[j] = [all_cached_users_[j] EXCEPT !["friends"] = w]
    BY Zenon
  <2> HIDE DEF users
  <2>2. "friends" \in {"info", "password", "teaminfo", "friends"} OBVIOUS
  <2>3. SameUsers(users) BY <2>1, <2>2, UsersKept
  <2>4. SetEntry(i, f, col, v) = all_cached_users_ \/ SetEntry(i, f, col, v) = users
    BY DEF SetEntry, users
  <2> QED BY <2>3, <2>4, SameKept
<1> SUFFICES Goal BY <1>1, Zenon DEF Goal
<1>12. CASE updateUserInfoInDb(t) \/ modifyUserPassword(t) \/ updateUserTeamInfoInDbAndMemory(t)
  BY <1>7, <1>12 DEF updateUserInfoInDb, modifyUserPassword, updateUserTeamInfoInDbAndMemory
<1>13. CASE saveChatMsgToDb(t)
  <2>1. \/ Fail(t, {})
        \/ Return(t, "ok") /\ UNCHANGED <<t_user, t_user_relationship, memVars, up, history>>
    BY <1>13, Zenon DEF saveChatMsgToDb
  <2>2. ASSUME Return(t, "ok"), UNCHANGED <<t_user, t_user_relationship, memVars, up, history>>
        PROVE  Goal
    <3>1. SameAccounts BY <2>2, SameKept, Zenon DEF SameAccounts, memVars, history
    <3> QED BY <1>1, <2>2, <3>1, EndMoves, Zenon DEF Goal
  <2> QED BY <1>2, <2>1, <2>2, Zenon
<1>14. CASE Befriend(t)
  BY <1>2, <1>3, <1>4, <1>8, <1>9, <1>14, Zenon DEF Befriend, makeFriendRelationshipInDB
<1>15. CASE Unfriend(t)
  BY <1>2, <1>3, <1>4, <1>5, <1>8, <1>15, Zenon
     DEF Unfriend, releaseFriendRelationship, deleteFriendToUser
<1>16. CASE deleteTeam(t) \/ modifyTeamName(t) BY <1>10, <1>16, Zenon DEF deleteTeam, modifyTeamName
<1>17. CASE updateMarknameInDb(t)
  BY <1>2, <1>3, <1>4, <1>11, <1>17, SameKept, Zenon DEF updateMarknameInDb
<1>18. CASE moveFriendToOtherTeam(t)
  BY <1>2, <1>3, <1>4, <1>5, <1>11, <1>18, SameKept, Zenon DEF moveFriendToOtherTeam
<1> QED BY <1>1, <1>12, <1>13, <1>14, <1>15, <1>16, <1>17, <1>18, Zenon
-----------------------------------------------------------------------------
(***************************************************************************)
(* IdsAgree.  That a name is looked for among the cached users, and the    *)
(* row inserted without a further look, is enough because of what holds in *)
(* between: every ordinary row is cached or about to be, by the one call   *)
(* that registers; and the counter that the call reads three times is its  *)
(* own until it returns.                                                   *)
(***************************************************************************)
Alone == \A s, t \in Threads : (Creates(call[s]) /\ call[s].op = call[t].op) => s = t

CacheAgrees ==
    \A i, j \in DOMAIN all_cached_users_ :
        LET u == all_cached_users_[i]
        IN /\ u.userid \in DOMAIN t_user /\ t_user[u.userid].username = u.username
           /\ i # j => all_cached_users_[j].userid # u.userid

NamesDiffer ==
    \A a, b \in {id \in DOMAIN t_user : id <= GROUPID_BOUBDARY} :
        t_user[a].username = t_user[b].username => a = b

Pushes(t, op) == call[t].op = op /\ call[t].pc = "push"

\* The rows of ordinary users are cached, or about to be.
Stored ==
    up => \A id \in DOMAIN t_user :
              id <= GROUPID_BOUBDARY =>
                  \/ id \in CachedIds
                  \/ \E t \in Threads : Pushes(t, "register_user") /\ base_user_id_ = id

\* A name that was looked for is still free when it is inserted.
NameFree ==
    \A t \in Threads : (call[t].op = "register_user" /\ call[t].pc \in {"connect", "insert"}) =>
        \A id \in DOMAIN t_user : id <= GROUPID_BOUBDARY => t_user[id].username # call[t].f

\* What is about to be cached is stored under the counter, and not cached yet.
PushInv ==
    /\ \A t \in Threads : Pushes(t, "register_user") =>
           /\ base_user_id_ \in DOMAIN t_user \ CachedIds
           /\ t_user[base_user_id_].username = call[t].f
    /\ \A t \in Threads : Pushes(t, "addGroup") =>
           /\ base_group_id_ \in DOMAIN t_user \ CachedIds
           /\ t_user[base_group_id_].username = base_group_id_
    /\ \A s, t \in Threads : (Pushes(s, "register_user") /\ Pushes(t, "addGroup")) =>
           base_user_id_ # base_group_id_

\* A number counted up for a group is above the boundary.
GroupInv ==
    \A t \in Threads : (call[t].op = "addGroup" /\ call[t].pc \in {"insert", "push"}) =>
        base_group_id_ > GROUPID_BOUBDARY

\* While the process is down there are no calls, and nothing is cached.
DownInv == ~up => DOMAIN all_cached_users_ = {} /\ \A t \in Threads : call[t].op = "none"

Agreed == Alone /\ CacheAgrees /\ NamesDiffer /\ Stored /\ NameFree /\ PushInv /\ GroupInv

AgreeInv == IdInv /\ Shape /\ DownInv /\ (~overlapped => Agreed)

\* A call that has looked for its name, or counted up.
Engaged(c) ==
    \/ c.op = "register_user" /\ c.pc \in {"connect", "insert", "push"}
    \/ c.op = "addGroup" /\ c.pc \in {"insert", "push"}

LEMMA AgreeIds == IdsAgree <=> (~overlapped => CacheAgrees /\ NamesDiffer)
BY DEF IdsAgree, CacheAgrees, NamesDiffer

\* A step that keeps the accounts, and after which no call is engaged that was not,
\* keeps all of it.
LEMMA KeptAgree ==
  ASSUME Agreed, SameAccounts, Alone',
         \A s \in Threads : Engaged(call'[s]) => call'[s] = call[s],
         \A s \in Threads : Pushes(s, "register_user") => call'[s] = call[s]
  PROVE  Agreed'
<1>1. /\ DOMAIN t_user' = DOMAIN t_user
      /\ \A id \in DOMAIN t_user : t_user'[id].username = t_user[id].username
  BY DEF SameAccounts, SameRows
<1>2. /\ DOMAIN all_cached_users_' = DOMAIN all_cached_users_
      /\ \A i \in DOMAIN all_cached_users_ :
             /\ all_cached_users_'[i].userid = all_cached_users_[i].userid
             /\ all_cached_users_'[i].username = all_cached_users_[i].username
  BY DEF SameAccounts, SameUsers
<1>3. UNCHANGED <<base_user_id_, base_group_id_, up>> BY DEF SameAccounts
<1>4. CachedIds' = CachedIds BY <1>2 DEF CachedIds
<1>5. CacheAgrees' BY <1>1, <1>2 DEF Agreed, CacheAgrees
<1>6. NamesDiffer' BY <1>1 DEF Agreed, NamesDiffer
<1>7. Stored' BY <1>1, <1>3, <1>4 DEF Agreed, Stored, Pushes
<1>8. NameFree' BY <1>1 DEF Agreed, NameFree, Engaged
<1>9. \A s \in Threads : \A op \in {"register_user", "addGroup"} :
          Pushes(s, op)' => Pushes(s, op) /\ call'[s] = call[s]
  BY DEF Pushes, Engaged
<1>10. PushInv'
  <2>1. PushInv BY DEF Agreed
  <2> QED BY <1>1, <1>3, <1>4, <1>9, <2>1 DEF PushInv
<1>11. GroupInv' BY <1>3 DEF Agreed, GroupInv, Engaged
<1> QED BY <1>5, <1>6, <1>7, <1>8, <1>10, <1>11 DEF Agreed

\* The shape is kept with the accounts.
LEMMA KeptShape ==
  ASSUME Shape, SameAccounts, NEW t \in Threads, Moves(t),
         call'[t].op # "none" => call'[t].ret = ""
  PROVE  Shape'
BY Zenon DEF Shape, SameAccounts, SameRows, SameUsers, Moves

\* Fewer calls are not less alone.
LEMMA MovesAlone == ASSUME Alone, NEW t \in Threads, Moves(t) PROVE Alone'
BY DEF Alone, Moves, Creates

\* A thread moves that is not engaged and does not become so, or ends its call before the push.
LEMMA QuietAgree ==
  ASSUME Shape, DownInv, ~overlapped => Agreed, SameAccounts, NEW t \in Threads, Moves(t),
         call'[t].op # "none" => call'[t].ret = "", ~Pushes(t, "register_user"), ~Engaged(call'[t])
  PROVE  Shape' /\ DownInv' /\ (~overlapped' => Agreed')
<1>1. Shape' BY KeptShape, Zenon
<1>2. DownInv' BY Zenon DEF DownInv, SameAccounts, SameUsers, Moves
<1>3. ASSUME ~overlapped' PROVE Agreed'
  <2>1. Agreed BY <1>3, Zenon DEF SameAccounts
  <2>2. Alone' BY <2>1, MovesAlone, Zenon DEF Agreed
  <2> QED BY <2>1, <2>2, KeptAgree, Zenon DEF Moves
<1> QED BY <1>1, <1>2, <1>3, Zenon

\* The calls that are made: none begins engaged.
LEMMA RequestFields ==
  ASSUME NEW c \in ChatRequests \cup RegisterRequests
  PROVE  /\ DOMAIN c = Fields /\ c.ret = "" /\ c.op # "none" /\ ~Engaged(c)
         /\ c \in ChatRequests => c.op # "register_user"
         /\ c \in RegisterRequests => c.op = "register_user" /\ c.f \in Names
<1> DEFINE Good(op, pc) == DOMAIN c = Fields /\ c.ret = "" /\ c.op = op /\ c.pc = pc
<1>0. ASSUME NEW op, NEW pc, NEW id, NEW f, NEW v, NEW w, c = Request(op, pc, id, f, v, w)
      PROVE  Good(op, pc) /\ c.f = f
  BY <1>0, Zenon DEF Request, Fields
<1>1. c \in RegisterRequests => Good("register_user", "check") /\ c.f \in Names
  <2> SUFFICES ASSUME c \in RegisterRequests PROVE Good("register_user", "check") /\ c.f \in Names
    BY Zenon
  <2>1. PICK n \in Names, v \in Values : c = Request("register_user", "check", 0, n, v, "none")
    BY DEF RegisterRequests
  <2> QED BY <1>0, <2>1, Zenon
<1>2. c \in ColumnRequests => \E op \in ColumnOps : Good(op, "sql")
  <2> SUFFICES ASSUME c \in ColumnRequests PROVE \E op \in ColumnOps : Good(op, "sql") BY Zenon
  <2>1. PICK op \in ColumnOps, id \in Ordinary \cup Strangers, v \in Values :
            c = Request(op, "sql", id, 0, v, "none")
    BY DEF ColumnRequests
  <2> QED BY <1>0, <2>1, Zenon
<1>3. c \in TeamRequests => Good("deleteTeam", "sql") \/ Good("modifyTeamName", "sql")
  <2> DEFINE Made(op) == \E id, v, w : c = Request(op, "sql", id, 0, v, w)
  <2>1. c \in TeamRequests => Made("deleteTeam") \/ Made("modifyTeamName") BY DEF TeamRequests
  <2> QED BY <1>0, <2>1, Zenon
<1>4. c \in FriendRequests => \E op \in {"updateMarknameInDb", "moveFriendToOtherTeam",
                                          "Befriend", "Unfriend"} : Good(op, "sql")
  <2> DEFINE Made(op) == \E id, f, v : c = Request(op, "sql", id, f, v, "none")
  <2>1. c \in FriendRequests => \/ Made("updateMarknameInDb") \/ Made("moveFriendToOtherTeam")
                                \/ Made("Befriend") \/ Made("Unfriend")
    BY DEF FriendRequests
  <2> QED BY <1>0, <2>1, Zenon
<1>5. c = Request("addGroup", "connect", 0, 0, "none", "none") => Good("addGroup", "connect")
  BY <1>0, Zenon
<1>6. c = Request("saveChatMsgToDb", "sql", 0, 0, "none", "none") => Good("saveChatMsgToDb", "sql")
  BY <1>0, Zenon
<1>7. c \in ChatRequests =>
          \/ c \in ColumnRequests \/ c \in TeamRequests \/ c \in FriendRequests
          \/ c = Request("addGroup", "connect", 0, 0, "none", "none")
          \/ c = Request("saveChatMsgToDb", "sql", 0, 0, "none", "none")
  BY Zenon DEF ChatRequests
<1> HIDE DEF Good
<1>8. c \in ChatRequests =>
          \/ Good("addGroup", "connect")
          \/ \E op \in ColumnOps \cup {"deleteTeam", "modifyTeamName", "updateMarknameInDb",
                 "moveFriendToOtherTeam", "Befriend", "Unfriend", "saveChatMsgToDb"} : Good(op, "sql")
  BY <1>2, <1>3, <1>4, <1>5, <1>6, <1>7
<1>9. CASE c \in ChatRequests
  <2>1. DOMAIN c = Fields /\ c.ret = "" /\ c.op # "none" /\ ~Engaged(c) /\ c.op # "register_user"
    BY <1>8, <1>9, Zenon DEF Good, Engaged, ColumnOps
  <2> QED BY <1>1, <2>1, Zenon DEF Good
<1>10. CASE c \in RegisterRequests /\ c \notin ChatRequests BY <1>1, <1>10, Zenon DEF Good, Engaged
<1> QED BY <1>9, <1>10, Zenon

LEMMA CallAgree ==
  ASSUME Shape, DownInv, ~overlapped => Agreed,
         NEW t \in Threads, NEW c \in ChatRequests \cup RegisterRequests, Call(t, c)
  PROVE  Shape' /\ DownInv' /\ (~overlapped' => Agreed')
<1>1. /\ up /\ call[t].op = "none" /\ call' = [call EXCEPT ![t] = c]
      /\ UNCHANGED <<t_user, memVars, up>>
      /\ overlapped' = (overlapped \/ (Creates(c) /\ \E s \in Threads \ {t} :
                                           call[s].op # "none" /\ call[s].op = c.op))
  BY DEF Call, Busy, dbVars
<1>2. DOMAIN c = Fields /\ c.ret = "" /\ c.op # "none" /\ ~Engaged(c) BY RequestFields, Zenon
<1>3. /\ DOMAIN call' = Threads /\ call'[t] = c
      /\ \A s \in Threads \ {t} : call'[s] = call[s]
  BY <1>1, Zenon DEF Shape
<1>4. Shape'
  BY <1>1, <1>2, <1>3, Zenon DEF Shape, memVars
<1>5. DownInv' BY <1>1, Zenon DEF DownInv
<1>6. ASSUME ~overlapped' PROVE Agreed'
  <2>1. Agreed /\ ~overlapped BY <1>1, <1>6, Zenon
  <2>2. Creates(c) => \A s \in Threads \ {t} : call[s].op # c.op
    BY <1>1, <1>2, <1>6, Zenon
  <2>3. Alone'
    <3>1. ASSUME NEW r \in Threads, NEW s \in Threads,
                 Creates(call'[r]), call'[r].op = call'[s].op
          PROVE  r = s
      <4>1. CASE r = t \/ s = t BY <1>3, <2>2, <3>1, <4>1 DEF Creates
      <4>2. CASE r # t /\ s # t BY <1>3, <2>1, <3>1, <4>2 DEF Agreed, Alone
      <4> QED BY <4>1, <4>2
    <3> QED BY <3>1 DEF Alone, Creates
  <2>7. overlapped' = overlapped BY <1>4, <1>6, <2>1, Zenon DEF Shape
  <2>4. SameAccounts BY <1>1, <2>7, SameKept DEF SameAccounts, memVars
  <2>5. \A s \in Threads : Engaged(call'[s]) => call'[s] = call[s] BY <1>2, <1>3, Zenon
  <2>6. \A s \in Threads : Pushes(s, "register_user") => call'[s] = call[s]
    BY <1>1, <1>3 DEF Pushes
  <2> QED BY <2>1, <2>3, <2>4, <2>5, <2>6, KeptAgree
<1> QED BY <1>4, <1>5, <1>6

\* register_user: a name that no cached user has is no ordinary row's.
LEMMA CheckAgree ==
  ASSUME Shape, DownInv, ~overlapped => Agreed, NEW t \in Threads, register_user(t)
  PROVE  Shape' /\ DownInv' /\ (~overlapped' => Agreed')
<1>1. /\ call[t].op = "register_user" /\ call[t].pc = "check"
      /\ UNCHANGED <<t_user, memVars, up, overlapped>>
  BY DEF register_user, dbVars, history
<1>2. SameAccounts BY <1>1, SameKept, Zenon DEF SameAccounts, memVars
<1>3. CASE Return(t, "already")
  <2>1. Moves(t) /\ call'[t].op = "none" BY <1>3, ReturnFields, Zenon DEF Moves
  <2> QED BY <1>1, <1>2, <2>1, QuietAgree, Zenon DEF Pushes, Engaged
<1>4. CASE IsNew(call[t].f) /\ Goto(t, "connect")
  <2>1. /\ Moves(t) /\ call'[t].op = "register_user" /\ call'[t].pc = "connect"
        /\ call'[t].f = call[t].f /\ call'[t].ret = ""
    BY <1>1, <1>4, GotoFields, Zenon DEF Moves, Shape
  <2>2. Shape' BY <1>2, <2>1, KeptShape, Zenon
  <2>3. up /\ DownInv' BY <1>1 DEF DownInv
  <2>4. ASSUME ~overlapped' PROVE Agreed'
    <3>1. Agreed BY <1>1, <2>4
    <3>2. Alone' BY <2>1, <3>1, MovesAlone, Zenon DEF Agreed
    <3>3. \A s \in Threads : ~Pushes(s, "register_user")
      BY <1>1, <3>1 DEF Agreed, Alone, Creates, Pushes
    <3>4. ASSUME NEW id \in DOMAIN t_user, id <= GROUPID_BOUBDARY
          PROVE  t_user[id].username # call[t].f
      <4>1. id \in CachedIds BY <2>3, <3>1, <3>3, <3>4 DEF Agreed, Stored
      <4>2. PICK i \in DOMAIN all_cached_users_ : all_cached_users_[i].userid = id
        BY <4>1 DEF CachedIds
      <4>3. all_cached_users_[i].username = t_user[id].username
        BY <3>1, <4>2 DEF Agreed, CacheAgrees
      <4> QED BY <1>4, <4>3 DEF IsNew, getUserInfoByUsername
    <3>5. UNCHANGED <<t_user, all_cached_users_, base_user_id_, base_group_id_, up>> BY <1>1 DEF memVars
    <3>6. \A s \in Threads : \A op \in {"register_user", "addGroup"} :
              Pushes(s, op)' => Pushes(s, op) /\ call'[s] = call[s]
      BY <2>1, Zenon DEF Pushes, Moves
    <3>7. CacheAgrees' /\ NamesDiffer' BY <3>1, <3>5 DEF Agreed, CacheAgrees, NamesDiffer
    <3>8. CachedIds' = CachedIds BY <3>5 DEF CachedIds
    <3>9. Stored' BY <3>1, <3>3, <3>5, <3>8 DEF Agreed, Stored
    <3>10. NameFree' BY <2>1, <3>1, <3>4, <3>5, Zenon DEF Agreed, NameFree, Moves
    <3>11. PushInv'
      <4>1. PushInv BY <3>1, Zenon DEF Agreed
      <4> QED BY <3>5, <3>6, <3>8, <4>1 DEF PushInv
    <3>12. GroupInv' BY <2>1, <3>1, <3>5, Zenon DEF Agreed, GroupInv, Moves
    <3> QED BY <3>2, <3>7, <3>9, <3>10, <3>11, <3>12 DEF Agreed
  <2> QED BY <2>2, <2>3, <2>4, Zenon
<1> QED BY <1>3, <1>4 DEF register_user

\* A call that ends before it stored anything.
LEMMA EndAgree ==
  ASSUME Shape, DownInv, ~overlapped => Agreed, NEW t \in Threads, NEW ids, call[t].pc # "push",
         Fail(t, ids) \/ Refuse(t, ids)
  PROVE  Shape' /\ DownInv' /\ (~overlapped' => Agreed')
<1>1. Return(t, "failed") /\ UNCHANGED <<t_user, memVars, up, overlapped>>
  BY Zenon DEF Fail, Refuse, GiveUp, dbVars
<1>2. Moves(t) /\ call'[t].op = "none" BY <1>1, ReturnFields, Zenon DEF Moves
<1>3. SameAccounts BY <1>1, SameKept, Zenon DEF SameAccounts, memVars
<1> QED BY <1>2, <1>3, QuietAgree, Zenon DEF Pushes, Engaged

\* What the counting and inserting steps of a call have in common: t goes on, and what it
\* is to be alone with is unchanged.
LEMMA CreateMoves ==
  ASSUME Shape, DownInv, NEW t \in Threads, NEW pc, Creates(call[t]), Goto(t, pc), up' = up
  PROVE  /\ Moves(t) /\ call'[t].op = call[t].op /\ call'[t].pc = pc
         /\ call'[t].f = call[t].f /\ call'[t].ret = ""
         /\ up /\ DownInv'
BY GotoFields, Zenon DEF Moves, Shape, Creates, DownInv

\* Counting up, which nobody else's push depends on.
LEMMA CountAgree ==
  ASSUME IdInv, Shape, DownInv, ~overlapped => Agreed, NEW t \in Threads, call[t].pc = "connect",
         \/ call[t].op = "register_user" /\ CountUser(t)
         \/ call[t].op = "addGroup" /\ CountGroup(t)
  PROVE  Shape' /\ DownInv' /\ (~overlapped' => Agreed')
<1>1. /\ Goto(t, "insert") /\ UNCHANGED <<t_user, all_cached_users_, up, overlapped>>
      /\ Creates(call[t])
      /\ call[t].op = "register_user" => base_group_id_' = base_group_id_
      /\ call[t].op = "addGroup" =>
             base_user_id_' = base_user_id_ /\ base_group_id_' = base_group_id_ + 1
  BY Zenon DEF CountUser, CountGroup, dbVars, history, Creates
<1>2. /\ Moves(t) /\ call'[t].op = call[t].op /\ call'[t].pc = "insert"
      /\ call'[t].f = call[t].f /\ call'[t].ret = "" /\ up /\ DownInv'
  BY <1>1, CreateMoves, Zenon
<1>3. Shape' BY <1>1, <1>2, Zenon DEF Shape, Moves
<1>4. ASSUME ~overlapped' PROVE Agreed'
  <2>1. Agreed BY <1>1, <1>4, Zenon
  <2>2. Alone' BY <1>2, <2>1, MovesAlone, Zenon DEF Agreed
  <2>3. \A s \in Threads : ~Pushes(s, call[t].op)
    BY <1>1, <2>1, Zenon DEF Agreed, Alone, Pushes
  <2>4. \A s \in Threads : \A op \in {"register_user", "addGroup"} :
            /\ Pushes(s, op)' <=> Pushes(s, op)
            /\ Pushes(s, op)' => call'[s] = call[s]
    BY <1>2, Zenon DEF Pushes, Moves
  <2>5. CacheAgrees' /\ NamesDiffer' /\ CachedIds' = CachedIds
    <3>1. CacheAgrees /\ NamesDiffer BY <2>1, Zenon DEF Agreed
    <3>2. CacheAgrees' BY <1>1, <3>1 DEF CacheAgrees
    <3>3. NamesDiffer' BY <1>1, <3>1 DEF NamesDiffer
    <3>4. CachedIds' = CachedIds BY <1>1 DEF CachedIds
    <3> QED BY <3>2, <3>3, <3>4
  <2>6. Stored'
    <3>1. Stored BY <2>1, Zenon DEF Agreed
    <3>2. CASE call[t].op = "register_user" BY <1>1, <2>3, <2>5, <3>1, <3>2, Zenon DEF Stored
    <3>3. CASE call[t].op = "addGroup" BY <1>1, <2>4, <2>5, <3>1, <3>3, Zenon DEF Stored
    <3> QED BY <1>1, <3>2, <3>3 DEF Creates
  <2>7. NameFree'
    <3>1. NameFree BY <2>1, Zenon DEF Agreed
    <3>2. \A s \in Threads :
              (call'[s].op = "register_user" /\ call'[s].pc \in {"connect", "insert"}) =>
              (call[s].op = "register_user" /\ call[s].pc \in {"connect", "insert"} /\ call'[s].f = call[s].f)
      <4>1. ASSUME NEW s \in Threads, s # t PROVE call'[s] = call[s] BY <1>2, <4>1, Zenon DEF Moves
      <4>2. call'[t].op = call[t].op /\ call'[t].f = call[t].f BY <1>2, Zenon
      <4> QED BY <4>1, <4>2
    <3> QED BY <1>1, <3>1, <3>2 DEF NameFree
  <2>8. PushInv'
    <3>1. PushInv BY <2>1, Zenon DEF Agreed
    <3>2. call[t].op = "register_user" \/ call[t].op = "addGroup" BY <1>1, Zenon DEF Creates
    <3> QED BY <1>1, <2>3, <2>4, <2>5, <3>1, <3>2 DEF PushInv
  <2>9. GroupInv'
    <3>1. CASE call[t].op = "addGroup"
      <4>1. base_group_id_' > GROUPID_BOUBDARY
        <5> DEFINE g == base_group_id_
                   h == base_group_id_'
                   B == GROUPID_BOUBDARY
        <5>1. g \in Nat /\ B \in Nat /\ B <= g /\ h = g + 1 BY <1>1, <3>1, UserAssumption DEF IdInv
        <5> HIDE DEF g, h, B
        <5>2. h > B BY <5>1
        <5> QED BY <5>2, Zenon DEF h, B
      <4> QED BY <4>1 DEF GroupInv
    <3>2. CASE call[t].op = "register_user"
      BY <1>1, <1>2, <2>1, <3>2, Zenon DEF Agreed, GroupInv, Moves
    <3> QED BY <1>1, <3>1, <3>2 DEF Creates
  <2> QED BY <2>2, <2>5, <2>6, <2>7, <2>8, <2>9 DEF Agreed
<1> QED BY <1>2, <1>3, <1>4, Zenon

LEMMA RowName ==
  ASSUME NEW name, NEW password, NEW info
  PROVE  /\ "username" \in DOMAIN Row(name, password, info)
         /\ Row(name, password, info).username = name
BY Zenon DEF Row

LEMMA UserName ==
  ASSUME NEW id, NEW row, NEW friends
  PROVE  /\ "userid" \in DOMAIN User(id, row, friends) /\ "username" \in DOMAIN User(id, row, friends)
         /\ User(id, row, friends).userid = id
         /\ User(id, row, friends).username = row.username
BY Zenon DEF User

\* A user with this id and this name.
IsUser(u, id, name) ==
    "userid" \in DOMAIN u /\ "username" \in DOMAIN u /\ u.userid = id /\ u.username = name

LEMMA NewUser ==
  ASSUME NEW id, NEW name, NEW password, NEW info, NEW friends
  PROVE  IsUser(User(id, Row(name, password, info), friends), id, name)
<1> DEFINE row == Row(name, password, info)
           u == User(id, row, friends)
<1>1. row.username = name BY RowName
<1> HIDE DEF row
<1>2. "userid" \in DOMAIN u /\ "username" \in DOMAIN u /\ u.userid = id /\ u.username = row.username
  BY UserName
<1> HIDE DEF u
<1>3. IsUser(u, id, name) BY <1>1, <1>2, Zenon DEF IsUser
<1> QED BY <1>3 DEF u, row

\* The row of a new user or group.
LEMMA InsertAgree ==
  ASSUME IdInv, Shape, DownInv, ~overlapped => Agreed, NEW t \in Threads, NEW id, NEW row,
         call[t].pc = "insert", id \notin DOMAIN t_user,
         "username" \in DOMAIN row, Store(t, AddRow(t_user, id, row), "push"),
         \/ call[t].op = "register_user" /\ id = base_user_id_ /\ row.username = call[t].f
         \/ call[t].op = "addGroup" /\ id = base_group_id_ /\ row.username = base_group_id_
  PROVE  Shape' /\ DownInv' /\ (~overlapped' => Agreed')
<1>1. /\ Goto(t, "push") /\ Creates(call[t]) /\ t_user' = AddRow(t_user, id, row)
      /\ UNCHANGED <<all_cached_users_, base_user_id_, base_group_id_, up, overlapped>>
  BY Zenon DEF Store, memVars, history, Creates
<1>2. /\ DOMAIN t_user' = DOMAIN t_user \cup {id} /\ t_user'[id] = row
      /\ \A i \in DOMAIN t_user : t_user'[i] = t_user[i]
  BY <1>1, Zenon DEF AddRow
<1>3. /\ Moves(t) /\ call'[t].op = call[t].op /\ call'[t].pc = "push"
      /\ call'[t].f = call[t].f /\ call'[t].ret = "" /\ up /\ DownInv'
  BY <1>1, CreateMoves, Zenon
<1>4. Shape' BY <1>1, <1>2, <1>3, Zenon DEF Shape, Moves
<1>5. ASSUME ~overlapped' PROVE Agreed'
  <2>1. Agreed BY <1>1, <1>5, Zenon
  <2>2. Alone' BY <1>3, <2>1, MovesAlone, Zenon DEF Agreed
  <2>3. \A s \in Threads : s # t => call[s].op # call[t].op
    BY <1>1, <2>1, Zenon DEF Agreed, Alone
  <2>4. \A s \in Threads : \A op \in {"register_user", "addGroup"} :
            /\ Pushes(s, op)' <=> (s = t /\ op = call[t].op) \/ Pushes(s, op)
            /\ s # t => call'[s] = call[s]
    BY <1>3, Zenon DEF Pushes, Moves
  <2>5. CachedIds' = CachedIds /\ id \notin CachedIds
    BY <1>1, <2>1, Zenon DEF Agreed, CacheAgrees, CachedIds
  <2>6. CacheAgrees'
    <3>1. CacheAgrees BY <2>1, Zenon DEF Agreed
    <3>2. ASSUME NEW i \in DOMAIN all_cached_users_, NEW j \in DOMAIN all_cached_users_
          PROVE  LET u == all_cached_users_[i]
                 IN /\ u.userid \in DOMAIN t_user' /\ t_user'[u.userid].username = u.username
                    /\ i # j => all_cached_users_[j].userid # u.userid
      <4> DEFINE u == all_cached_users_[i]
      <4>1. /\ u.userid \in DOMAIN t_user /\ t_user[u.userid].username = u.username
            /\ i # j => all_cached_users_[j].userid # u.userid
        BY <3>1, Zenon DEF CacheAgrees
      <4>2. u.userid \in DOMAIN t_user' /\ t_user'[u.userid] = t_user[u.userid] BY <1>2, <4>1, Zenon
      <4> QED BY <4>1, <4>2, Zenon
    <3> QED BY <1>1, <3>2 DEF CacheAgrees
  <2>7. call[t].op = "addGroup" => ~(id <= GROUPID_BOUBDARY)
    <3> SUFFICES ASSUME call[t].op = "addGroup" PROVE ~(id <= GROUPID_BOUBDARY) BY Zenon
    <3>1. id = base_group_id_ /\ base_group_id_ > GROUPID_BOUBDARY /\ base_group_id_ \in Nat
      BY <2>1, Zenon DEF Agreed, GroupInv, IdInv
    <3> QED BY <3>1, UserAssumption
  <2>8. call[t].op = "register_user" =>
            \A i \in DOMAIN t_user : i <= GROUPID_BOUBDARY => t_user[i].username # row.username
    BY <2>1, Zenon DEF Agreed, NameFree
  <2>9. NamesDiffer' BY <1>2, <2>1, <2>7, <2>8, Zenon DEF Agreed, NamesDiffer
  <2>10. Stored'
    <3>1. ASSUME NEW i \in DOMAIN t_user', i <= GROUPID_BOUBDARY
          PROVE  \/ i \in CachedIds'
                 \/ \E s \in Threads : Pushes(s, "register_user")' /\ base_user_id_' = i
      <4>1. CASE i = id BY <1>1, <2>4, <2>7, <3>1, <4>1, Zenon
      <4>2. CASE i # id BY <1>1, <1>2, <1>3, <2>1, <2>4, <2>5, <3>1, <4>2, Zenon DEF Agreed, Stored
      <4> QED BY <4>1, <4>2, Zenon
    <3> QED BY <3>1, Zenon DEF Stored
  <2>11. NameFree'
    <3>1. ASSUME NEW s \in Threads, call'[s].op = "register_user", call'[s].pc \in {"connect", "insert"},
                 NEW i \in DOMAIN t_user', i <= GROUPID_BOUBDARY
          PROVE  t_user'[i].username # call'[s].f
      <4>1. s # t /\ call'[s] = call[s] BY <1>3, <2>4, <3>1, Zenon
      <4>2. i # id BY <1>3, <2>3, <2>7, <3>1, <4>1, Zenon
      <4> QED BY <1>2, <2>1, <3>1, <4>1, <4>2, Zenon DEF Agreed, NameFree
    <3> QED BY <3>1, Zenon DEF NameFree
  <2>12. PushInv'
    <3>1. PushInv BY <2>1, Zenon DEF Agreed
    <3>2. \A s \in Threads : Pushes(s, "register_user")' =>
              /\ base_user_id_' \in DOMAIN t_user' \ CachedIds'
              /\ t_user'[base_user_id_'].username = call'[s].f
      <4> SUFFICES ASSUME NEW s \in Threads, Pushes(s, "register_user")'
                   PROVE  /\ base_user_id_' \in DOMAIN t_user' \ CachedIds'
                          /\ t_user'[base_user_id_'].username = call'[s].f
        BY Zenon
      <4>1. CASE s = t
        <5>1. call[t].op = "register_user" BY <1>3, <4>1, Zenon DEF Pushes
        <5> QED BY <1>1, <1>2, <1>3, <2>5, <4>1, <5>1, Zenon
      <4>2. CASE s # t
        <5>1. Pushes(s, "register_user") /\ call'[s] = call[s] BY <2>4, <4>2, Zenon
        <5> QED BY <1>1, <1>2, <2>5, <3>1, <5>1, Zenon DEF PushInv
      <4> QED BY <4>1, <4>2, Zenon
    <3>3. \A s \in Threads : Pushes(s, "addGroup")' =>
              /\ base_group_id_' \in DOMAIN t_user' \ CachedIds'
              /\ t_user'[base_group_id_'].username = base_group_id_'
      BY <1>1, <1>2, <1>3, <2>3, <2>4, <2>5, <3>1, Zenon DEF PushInv, Pushes
    <3>4. \A r, s \in Threads : (Pushes(r, "register_user")' /\ Pushes(s, "addGroup")') =>
              base_user_id_' # base_group_id_'
      <4>1. ASSUME NEW r \in Threads, NEW s \in Threads,
                   Pushes(r, "register_user")', Pushes(s, "addGroup")'
            PROVE  base_user_id_ # base_group_id_
        <5>1. CASE r = t BY <2>4, <3>1, <4>1, <5>1, Zenon DEF PushInv, Pushes
        <5>2. CASE s = t BY <2>4, <3>1, <4>1, <5>2 DEF PushInv, Pushes
        <5>3. CASE r # t /\ s # t BY <2>4, <3>1, <4>1, <5>3, Zenon DEF PushInv
        <5> QED BY <5>1, <5>2, <5>3, Zenon
      <4> QED BY <1>1, <4>1
    <3> QED BY <3>2, <3>3, <3>4 DEF PushInv
  <2>13. GroupInv' BY <1>1, <1>3, <2>1, Zenon DEF Agreed, GroupInv, Moves
  <2> QED BY <2>2, <2>6, <2>9, <2>10, <2>11, <2>12, <2>13, Zenon DEF Agreed
<1> QED BY <1>3, <1>4, <1>5, Zenon

LEMMA EmptyList == IsList(<<>>) /\ DOMAIN <<>> = {}
<1>1. \E n \in Nat : <<>> = [i \in 1 .. n |-> <<>>[i]]
  <2>1. <<>> = [i \in 1 .. 0 |-> <<>>[i]] OBVIOUS
  <2> WITNESS 0 \in Nat
  <2> QED BY <2>1
<1> QED BY <1>1 DEF IsList

LEMMA AppendList ==
  ASSUME NEW s, IsList(s), NEW x
  PROVE  /\ IsList(Append(s, x))
         /\ Len(s) + 1 \notin DOMAIN s
         /\ DOMAIN Append(s, x) = DOMAIN s \cup {Len(s) + 1}
         /\ Append(s, x)[Len(s) + 1] = x
         /\ \A i \in DOMAIN s : Append(s, x)[i] = s[i]
<1>1. PICK n \in Nat : s = [i \in 1 .. n |-> s[i]] BY DEF IsList
<1> DEFINE S == {s[i] : i \in 1 .. n} \cup {x}
<1>2. s \in Seq(S) /\ x \in S /\ DOMAIN s = 1 .. n
  <2>1. s \in [1 .. n -> S] BY <1>1
  <2> QED BY <1>1, <2>1
<1>3. Len(s) = n BY <1>2
<1> HIDE DEF S
<1>4. /\ Append(s, x) \in Seq(S) /\ Len(Append(s, x)) = n + 1
      /\ \A i \in 1 .. n : Append(s, x)[i] = s[i]
      /\ Append(s, x)[n + 1] = x
  BY <1>2, <1>3
<1>5. Append(s, x) = [i \in 1 .. n + 1 |-> Append(s, x)[i]]
  <2> DEFINE q == Append(s, x)
             m == n + 1
  <2>1. q \in Seq(S) /\ Len(q) = m BY <1>4
  <2> HIDE DEF q, m
  <2>2. q \in [1 .. m -> S] BY <2>1
  <2>3. q = [i \in 1 .. m |-> q[i]] BY <2>2
  <2> QED BY <2>3 DEF q, m
<1>6. DOMAIN Append(s, x) = 1 .. n + 1 BY <1>4
<1>7. n + 1 \in Nat /\ n + 1 \notin 1 .. n /\ 1 .. n + 1 = (1 .. n) \cup {n + 1} OBVIOUS
<1> QED BY <1>2, <1>3, <1>4, <1>5, <1>6, <1>7 DEF IsList

\* The new user or group is cached, under the id and the name that are stored.
LEMMA PushAgree ==
  ASSUME Shape, DownInv, ~overlapped => Agreed, NEW t \in Threads, NEW u, call[t].pc = "push",
         "userid" \in DOMAIN u, "username" \in DOMAIN u,
         Cache(t, Append(all_cached_users_, u), "ok"),
         \/ call[t].op = "register_user" /\ u.userid = base_user_id_ /\ u.username = call[t].f
         \/ call[t].op = "addGroup" /\ u.userid = base_group_id_ /\ u.username = base_group_id_
  PROVE  Shape' /\ DownInv' /\ (~overlapped' => Agreed')
<1> DEFINE k == Len(all_cached_users_) + 1
<1>1. /\ Return(t, "ok") /\ all_cached_users_' = Append(all_cached_users_, u)
      /\ UNCHANGED <<t_user, base_user_id_, base_group_id_, up, overlapped>>
  BY Zenon DEF Cache, dbVars, history
<1>2. /\ IsList(all_cached_users_') /\ k \notin DOMAIN all_cached_users_
      /\ DOMAIN all_cached_users_' = DOMAIN all_cached_users_ \cup {k}
      /\ all_cached_users_'[k] = u
      /\ \A i \in DOMAIN all_cached_users_ : all_cached_users_'[i] = all_cached_users_[i]
  <2> DEFINE q == Append(all_cached_users_, u)
  <2>1. IsList(all_cached_users_) BY Zenon DEF Shape
  <2>2. /\ IsList(q) /\ k \notin DOMAIN all_cached_users_
        /\ DOMAIN q = DOMAIN all_cached_users_ \cup {k} /\ q[k] = u
        /\ \A i \in DOMAIN all_cached_users_ : q[i] = all_cached_users_[i]
    BY <2>1, AppendList
  <2> QED BY <1>1, <2>2
<1> HIDE DEF k
<1>3. Moves(t) /\ call'[t].op = "none" BY <1>1, ReturnFields, Zenon DEF Moves
<1>4. Shape' BY <1>1, <1>2, <1>3, Zenon DEF Shape, Moves
<1>5. up /\ DownInv' BY <1>1 DEF DownInv
<1>6. ASSUME ~overlapped' PROVE Agreed'
  <2>1. Agreed BY <1>1, <1>6
  <2>2. Alone' BY <1>3, <2>1, MovesAlone, Zenon DEF Agreed
  <2>3. \A s \in Threads : s # t => call[s].op # call[t].op
    BY <2>1, Zenon DEF Agreed, Alone, Creates
  <2>4. /\ u.userid \in DOMAIN t_user \ CachedIds
        /\ t_user[u.userid].username = u.username
    BY <2>1, Zenon DEF Agreed, PushInv, Pushes
  <2>5. CacheAgrees'
    <3>1. \A i \in DOMAIN all_cached_users_ : all_cached_users_[i].userid # u.userid
      BY <2>4 DEF CachedIds
    <3>2. CacheAgrees BY <2>1, Zenon DEF Agreed
    <3> QED BY <1>1, <1>2, <2>4, <3>1, <3>2 DEF CacheAgrees
  <2>6. NamesDiffer' BY <1>1, <2>1, Zenon DEF Agreed, NamesDiffer
  <2>7. CachedIds' = CachedIds \cup {u.userid} BY <1>2 DEF CachedIds
  <2>8. \A s \in Threads : \A op \in {"register_user", "addGroup"} :
            /\ Pushes(s, op)' <=> (s # t /\ Pushes(s, op))
            /\ s # t => call'[s] = call[s]
    BY <1>3, Zenon DEF Pushes, Moves
  <2>9. Stored'
    <3>1. ASSUME NEW i \in DOMAIN t_user, i <= GROUPID_BOUBDARY, i \notin CachedIds'
          PROVE  \E s \in Threads : Pushes(s, "register_user")' /\ base_user_id_ = i
      <4>1. PICK s \in Threads : Pushes(s, "register_user") /\ base_user_id_ = i
        BY <1>5, <2>1, <2>7, <3>1 DEF Agreed, Stored
      <4>2. s # t BY <2>7, <3>1, <4>1, Zenon DEF Pushes
      <4> QED BY <2>8, <4>1, <4>2
    <3> QED BY <1>1, <3>1 DEF Stored
  <2>10. NameFree' BY <1>1, <1>3, <2>1 DEF Agreed, NameFree, Moves
  <2>11. PushInv'
    <3>1. PushInv BY <2>1, Zenon DEF Agreed
    <3>2. \A s \in Threads : Pushes(s, "register_user")' =>
              /\ Pushes(s, "register_user") /\ call'[s] = call[s] /\ base_user_id_ # u.userid
      BY <2>3, <2>8, <3>1 DEF PushInv, Pushes
    <3>3. \A s \in Threads : Pushes(s, "addGroup")' =>
              /\ Pushes(s, "addGroup") /\ call'[s] = call[s] /\ base_group_id_ # u.userid
      BY <2>3, <2>8, <3>1 DEF PushInv, Pushes
    <3> QED BY <1>1, <2>7, <3>1, <3>2, <3>3 DEF PushInv
  <2>12. GroupInv' BY <1>1, <1>3, <2>1 DEF Agreed, GroupInv, Moves
  <2> QED BY <2>2, <2>5, <2>6, <2>9, <2>10, <2>11, <2>12 DEF Agreed
<1> QED BY <1>4, <1>5, <1>6, Zenon

\* A crash leaves the table.
LEMMA CrashAgree ==
  ASSUME Shape, DownInv, ~overlapped => Agreed, Crash
  PROVE  Shape' /\ DownInv' /\ (~overlapped' => Agreed')
<1>1. /\ ~up' /\ all_cached_users_' = <<>> /\ call' = [t \in Threads |-> Idle("")]
      /\ UNCHANGED <<t_user, overlapped>>
  BY Zenon DEF Crash, dbVars
<1>2. \A t \in Threads : DOMAIN call'[t] = Fields /\ call'[t].op = "none" BY <1>1, Zenon DEF Idle, Request, Fields
<1>3. DOMAIN all_cached_users_' = {} /\ IsList(all_cached_users_') BY <1>1, EmptyList, Zenon
<1>4. Shape' BY <1>1, <1>2, <1>3, Zenon DEF Shape
<1>5. DownInv' BY <1>1, <1>2, <1>3, Zenon DEF DownInv
<1>6. ASSUME ~overlapped' PROVE Agreed'
  <2>1. NamesDiffer' BY <1>1, <1>6, Zenon DEF Agreed, NamesDiffer
  <2>2. Alone' /\ NameFree' /\ PushInv' /\ GroupInv'
    BY <1>2, Zenon DEF Alone, NameFree, PushInv, GroupInv, Creates, Pushes
  <2>3. CacheAgrees' /\ Stored' BY <1>1, <1>3, Zenon DEF CacheAgrees, Stored
  <2> QED BY <2>1, <2>2, <2>3 DEF Agreed
<1> QED BY <1>4, <1>5, <1>6

\* The three steps of addUser, and of addGroup.
LEMMA CreateAgree ==
  ASSUME AgreeInv, NEW t \in Threads, addUser(t) \/ addGroup(t)
  PROVE  Shape' /\ DownInv' /\ (~overlapped' => Agreed')
<1>0. IdInv /\ Shape /\ DownInv /\ (~overlapped => Agreed) BY Zenon DEF AgreeInv
<1>1. CASE addUser(t)
  <2> DEFINE c == call[t]
             row == Row(c.f, c.v, "columns")
             u == User(base_user_id_, Row(c.f, c.v, "preset"), <<>>)
  <2>1. /\ c.op = "register_user"
        /\ \/ c.pc = "connect" /\ (Fail(t, {}) \/ CountUser(t))
           \/ Insert(t, base_user_id_, row)
           \/ c.pc = "push" /\ Cache(t, Append(all_cached_users_, u), "ok")
    BY <1>1, Zenon DEF addUser
  <2>2. "username" \in DOMAIN row /\ row.username = c.f BY RowName
  <2>3. "userid" \in DOMAIN u /\ "username" \in DOMAIN u /\ u.userid = base_user_id_ /\ u.username = c.f
    <3>1. IsUser(u, base_user_id_, c.f) BY NewUser, Zenon
    <3> QED BY <3>1, Zenon DEF IsUser
  <2> HIDE DEF row, u
  <2>4. CASE c.pc = "connect" /\ Fail(t, {}) BY <1>0, <2>4, EndAgree, Zenon
  <2>5. CASE c.pc = "connect" /\ CountUser(t) BY <1>0, <2>1, <2>5, CountAgree, Zenon
  <2>6. CASE Insert(t, base_user_id_, row)
    <3>1. CASE Fail(t, {}) \/ Refuse(t, {}) BY <1>0, <2>6, <3>1, EndAgree, Zenon DEF Insert
    <3>2. CASE base_user_id_ \notin DOMAIN t_user /\ Store(t, AddRow(t_user, base_user_id_, row), "push")
      BY <1>0, <2>1, <2>2, <2>6, <3>2, InsertAgree, Zenon DEF Insert
    <3> QED BY <2>6, <3>1, <3>2, Zenon DEF Insert
  <2>7. CASE c.pc = "push" /\ Cache(t, Append(all_cached_users_, u), "ok")
    BY <1>0, <2>1, <2>3, <2>7, PushAgree, Zenon
  <2> QED BY <2>1, <2>4, <2>5, <2>6, <2>7, Zenon
<1>2. CASE addGroup(t)
  <2> DEFINE c == call[t]
             e == ""
             row == Row(base_group_id_, e, "columns")
             u == User(base_group_id_, Row(base_group_id_, e, "preset"), <<>>)
  <2>1. /\ c.op = "addGroup"
        /\ \/ c.pc = "connect" /\ (Fail(t, {}) \/ CountGroup(t))
           \/ Insert(t, base_group_id_, row)
           \/ c.pc = "push" /\ Cache(t, Append(all_cached_users_, u), "ok")
    BY <1>2, Zenon DEF addGroup
  <2> HIDE DEF e
  <2>2. "username" \in DOMAIN row /\ row.username = base_group_id_ BY RowName
  <2>3. /\ "userid" \in DOMAIN u /\ "username" \in DOMAIN u
        /\ u.userid = base_group_id_ /\ u.username = base_group_id_
    <3>1. IsUser(u, base_group_id_, base_group_id_) BY NewUser, Zenon
    <3> QED BY <3>1, Zenon DEF IsUser
  <2> HIDE DEF row, u
  <2>4. CASE c.pc = "connect" /\ Fail(t, {}) BY <1>0, <2>4, EndAgree
  <2>5. CASE c.pc = "connect" /\ CountGroup(t) BY <1>0, <2>1, <2>5, CountAgree, Zenon
  <2>6. CASE Insert(t, base_group_id_, row)
    <3>1. CASE Fail(t, {}) \/ Refuse(t, {}) BY <1>0, <2>6, <3>1, EndAgree, Zenon DEF Insert
    <3>2. CASE base_group_id_ \notin DOMAIN t_user /\ Store(t, AddRow(t_user, base_group_id_, row), "push")
      BY <1>0, <2>1, <2>2, <2>6, <3>2, InsertAgree, Zenon DEF Insert
    <3> QED BY <2>6, <3>1, <3>2 DEF Insert
  <2>7. CASE c.pc = "push" /\ Cache(t, Append(all_cached_users_, u), "ok")
    BY <1>0, <2>1, <2>3, <2>7, PushAgree, Zenon
  <2> QED BY <2>1, <2>4, <2>5, <2>6, <2>7, Zenon
<1> QED BY <1>1, <1>2

LEMMA StepAgree ==
  ASSUME AgreeInv, NEW t \in Threads, Step(t)
  PROVE  Shape' /\ DownInv' /\ (~overlapped' => Agreed')
<1>0. Shape /\ DownInv /\ (~overlapped => Agreed) BY DEF AgreeInv
<1>1. CASE register_user(t) BY <1>0, <1>1, CheckAgree
<1>2. CASE addUser(t) \/ addGroup(t) BY <1>2, CreateAgree
<1>3. ASSUME SameAccounts, Moves(t), call'[t].ret = "",
             call[t].op \notin {"none", "register_user", "addGroup"}
      PROVE  Shape' /\ DownInv' /\ (~overlapped' => Agreed')
  <2>1. ~Pushes(t, "register_user") /\ ~Engaged(call'[t]) BY <1>3, Zenon DEF Pushes, Engaged, Moves
  <2> QED BY <1>0, <1>3, <2>1, QuietAgree, Zenon
<1> QED BY <1>0, <1>1, <1>2, <1>3, OtherAccounts, Zenon DEF Step

LEMMA StutterAgree ==
  ASSUME AgreeInv, UNCHANGED vars
  PROVE  AgreeInv'
<1>0. IdInv /\ Shape /\ DownInv /\ (~overlapped => Agreed) BY DEF AgreeInv
<1>1. UNCHANGED <<t_user, all_cached_users_, base_user_id_, base_group_id_, up, call, overlapped>>
  BY DEF vars, dbVars, memVars, history
<1>2. IdInv' BY <1>0, <1>1, SameIdsKeep, Zenon DEF SameIds
<1>3. Shape' /\ DownInv' BY <1>0, <1>1, Zenon DEF Shape, DownInv
<1>4. SameAccounts BY <1>0, <1>1, SameKept DEF SameAccounts
<1>5. Agreed => Alone' BY <1>1 DEF Agreed, Alone, Creates
<1>6. \A s \in Threads : call'[s] = call[s] BY <1>1
<1>7. Agreed => Agreed' BY <1>4, <1>5, <1>6, KeptAgree
<1> QED BY <1>0, <1>1, <1>2, <1>3, <1>7 DEF AgreeInv
-----------------------------------------------------------------------------
(***************************************************************************)
(* The first state and the start of a process, which count the rows and    *)
(* look for the largest ids: here the sets of ids have to be finite.       *)
(***************************************************************************)
INSTANCE FiniteSetTheorems

\* The least element of a non-empty set of numbers.
LEMMA LeastNat ==
  ASSUME NEW S \in SUBSET Nat, S # {}
  PROVE  \E x \in S : \A y \in S : x <= y
<1>1. PICK x \in S : \A y \in S : ~ (<<y, x>> \in OpToRel(<, Nat))
  BY NatLessThanWellFounded, WFMin, Zenon
<1>2. \A y \in S : ~ (y < x) BY <1>1, Zenon DEF OpToRel
<1>3. \A y \in S : x <= y BY <1>2, SMT
<1> QED BY <1>3

\* A finite set of numbers has an upper bound: of the prefixes of an enumeration
\* that have none, the shortest would extend one that has.
LEMMA FiniteBounded ==
  ASSUME NEW S \in SUBSET Nat, IsFiniteSet(S)
  PROVE  \E u \in Nat : \A s \in S : s <= u
<1>1. PICK n \in Nat : ExistsSurjection(1 .. n, S) BY FS_NatSurjection
<1>2. PICK f \in Surjection(1 .. n, S) : TRUE BY <1>1 DEF ExistsSurjection
<1>3. f \in [1 .. n -> S] /\ \A s \in S : \E i \in 1 .. n : f[i] = s
  BY <1>2 DEF Surjection
<1>0. \A i \in 1 .. n : f[i] \in Nat BY <1>3, Zenon
<1> DEFINE Open == {k \in Nat : k <= n /\ \A u \in Nat : \E i \in 1 .. k : ~ (f[i] <= u)}
<1>4. ASSUME NEW k \in Open, \A j \in Open : k <= j PROVE FALSE
  <2>1. k \in Nat /\ k <= n /\ \A u \in Nat : \E i \in 1 .. k : ~ (f[i] <= u) BY <1>4
  <2>2. k # 0 BY <2>1, SMT
  <2> DEFINE h == k - 1
  <2>3. h \in Nat /\ h <= n /\ ~ (k <= h) /\ k = h + 1 BY <2>1, <2>2, SMT
  <2> HIDE DEF h
  <2>4. h \notin Open BY <1>4, <2>3, Zenon
  <2>5. PICK u \in Nat : \A i \in 1 .. h : f[i] <= u BY <2>3, <2>4, Zenon
  <2>13. k \in 1 .. n BY <2>1, <2>2, SMT
  <2>6. f[k] \in Nat BY <1>0, <2>13, Zenon
  <2> HIDE DEF Open
  <2> DEFINE v == IF u <= f[k] THEN f[k] ELSE u
  <2>7. v \in Nat /\ u <= v /\ f[k] <= v
    <3> DEFINE g == f[k]
    <3>1. g \in Nat BY <2>6
    <3> HIDE DEF g
    <3>2. (IF u <= g THEN g ELSE u) \in Nat /\ u <= (IF u <= g THEN g ELSE u) /\ g <= (IF u <= g THEN g ELSE u)
      BY <2>5, <3>1, SMT
    <3> QED BY <3>2 DEF g
  <2> HIDE DEF v
  <2>8. PICK i \in 1 .. k : ~ (f[i] <= v) BY <2>1, <2>7, Zenon
  <2>14. i \in 1 .. n BY <2>1, <2>8, SMT
  <2>9. f[i] \in Nat BY <1>0, <2>14, Zenon
  <2>10. i # k BY <2>7, <2>8
  <2>11. i \in 1 .. h BY <2>3, <2>8, <2>10, SMT
  <2>12. f[i] <= u BY <2>5, <2>11
  <2> DEFINE g == f[i]
  <2>15. g \in Nat /\ g <= u /\ ~ (g <= v) /\ v \in Nat /\ u \in Nat /\ u <= v
    BY <2>5, <2>7, <2>8, <2>9, <2>12
  <2> HIDE DEF g
  <2> QED BY <2>15, SMT
<1>5. Open = {} BY <1>4, LeastNat, Zenon
<1>6. n \notin Open BY <1>5, Zenon
<1>7. PICK u \in Nat : \A i \in 1 .. n : f[i] <= u
  <2>1. n <= n BY SMT
  <2> QED BY <1>6, <2>1, Zenon
<1> QED BY <1>3, <1>7, Zenon

\* Base returns an upper bound of its arguments, and one of them.
LEMMA BaseBound ==
  ASSUME NEW base \in Nat, NEW ids \in SUBSET Nat,
         NEW u \in Nat, \A i \in ids : i <= u
  PROVE  /\ Base(base, ids) \in Nat
         /\ base <= Base(base, ids)
         /\ \A i \in ids : i <= Base(base, ids)
<1> DEFINE S == {base} \cup ids
           Above == {v \in Nat : \A i \in S : i <= v}
           w == IF u <= base THEN base ELSE u
<1>1. w \in Above BY SMT
<1>2. PICK m \in Above : \A v \in Above : m <= v BY <1>1, LeastNat, Zenon
<1>3. m \in S
  <2> SUFFICES ASSUME m \notin S PROVE FALSE OBVIOUS
  <2>1. \A i \in S : i <= m /\ i # m BY <1>2
  <2>2. m # 0 /\ m - 1 \in Nat BY <1>2, <2>1, SMT
  <2>3. \A i \in S : i <= m - 1 BY <2>1, <1>2, SMT
  <2>4. m - 1 \in Above BY <2>2, <2>3
  <2> QED BY <1>2, <2>2, <2>4, SMT
<1>4. \E x \in S : \A y \in S : x >= y BY <1>2, <1>3, SMT
<1>5. Max(S) \in S /\ \A y \in S : Max(S) >= y
  <2> HIDE DEF S
  <2> QED BY <1>4, Zenon DEF Max
<1>6. Base(base, ids) = Max(S) BY DEF Base
<1> DEFINE z == Max(S)
<1>7. z \in Nat /\ \A y \in S : z >= y BY <1>5, Zenon
<1> HIDE DEF z
<1>8. base <= z /\ \A i \in ids : i <= z BY <1>7, SMT
<1> QED BY <1>6, <1>7, <1>8 DEF z

LEMMA InitIds == Init => IdInv
<1> SUFFICES ASSUME Init PROVE IdInv OBVIOUS
<1>1. DOMAIN t_user = DOMAIN Users BY Zenon DEF Init
<1>2. DOMAIN t_user \subseteq Nat BY <1>1, UserAssumption
<1>3. \E u \in Nat : \A id \in DOMAIN t_user : id <= u
  BY <1>1, <1>2, UserAssumption, FiniteBounded
<1>4. base_user_id_ = 0 /\ base_group_id_ = GROUPID_BOUBDARY /\ GROUPID_BOUBDARY \in Nat /\ ~up
  BY UserAssumption, Zenon DEF Init
<1> QED BY <1>2, <1>3, <1>4, SMT DEF IdInv, IdsBelowBase

\* A start takes the largest ids on the two sides of the boundary.
LEMMA StartIds == IdInv /\ init => IdInv'
<1> SUFFICES ASSUME IdInv, init PROVE IdInv' OBVIOUS
<1> DEFINE low == {i \in DOMAIN t_user : i < GROUPID_BOUBDARY}
           high == {i \in DOMAIN t_user : i > GROUPID_BOUBDARY}
<1>1. /\ base_user_id_' = Base(base_user_id_, low)
      /\ base_group_id_' = Base(base_group_id_, high)
      /\ t_user' = t_user
  BY Zenon DEF init, loadUsersFromDb, dbVars
<1>2. PICK u \in Nat : \A id \in DOMAIN t_user : id <= u BY DEF IdInv
<1>3. low \in SUBSET Nat /\ high \in SUBSET Nat /\ base_user_id_ \in Nat /\ base_group_id_ \in Nat
  BY DEF IdInv
<1>4. (\A i \in low : i <= u) /\ (\A i \in high : i <= u) BY <1>2
<1>5. base_user_id_' \in Nat /\ \A i \in low : i <= base_user_id_'
  <2> HIDE DEF low, high
  <2> QED BY <1>1, <1>2, <1>3, <1>4, BaseBound, Zenon
<1>6. /\ base_group_id_' \in Nat /\ base_group_id_ <= base_group_id_'
      /\ \A i \in high : i <= base_group_id_'
  <2> HIDE DEF low, high
  <2> QED BY <1>1, <1>2, <1>3, <1>4, BaseBound, Zenon
<1>7. GROUPID_BOUBDARY <= base_group_id_'
  BY <1>3, <1>6, UserAssumption, SMT DEF IdInv
<1>8. \A id \in DOMAIN t_user :
          id <= IF id < GROUPID_BOUBDARY THEN base_user_id_' ELSE base_group_id_'
  <2> SUFFICES ASSUME NEW id \in DOMAIN t_user
               PROVE  id <= IF id < GROUPID_BOUBDARY THEN base_user_id_' ELSE base_group_id_'
    OBVIOUS
  <2>1. id \in Nat /\ GROUPID_BOUBDARY \in Nat BY UserAssumption DEF IdInv
  <2>2. CASE id < GROUPID_BOUBDARY BY <1>5, <2>2
  <2>3. CASE id = GROUPID_BOUBDARY BY <1>7, <2>1, <2>3, SMT
  <2>4. CASE id > GROUPID_BOUBDARY BY <1>6, <2>1, <2>4, SMT
  <2> QED BY <2>1, <2>2, <2>3, <2>4, SMT
<1> QED BY <1>1, <1>2, <1>5, <1>6, <1>7, <1>8 DEF IdInv, IdsBelowBase

\* For any threads, calls, failures and restarts, also of registrations that meet, no
\* stored id is above the counter that the next one is counted up from: addUser and
\* addGroup never meet a taken id, as long as users' ids are below the boundary.
THEOREM IdsCorrect == Spec => []IdsBelowBase
<1>1. IdInv /\ [Next]_vars => IdInv'
  <2>1. ASSUME UNCHANGED vars PROVE SameIds BY <2>1 DEF vars, dbVars, memVars, SameIds
  <2> QED BY <2>1, StartIds, CrashIds, StepIds, CallIds, SameIdsKeep DEF Next
<1>2. IdInv => IdsBelowBase BY DEF IdInv
<1> QED BY <1>1, <1>2, InitIds, PTL DEF Spec

LEMMA FiniteIds == IdInv => IsFiniteSet(DOMAIN t_user)
<1> SUFFICES ASSUME IdInv PROVE IsFiniteSet(DOMAIN t_user) OBVIOUS
<1>1. PICK u \in Nat : \A id \in DOMAIN t_user : id <= u BY DEF IdInv
<1>2. DOMAIN t_user \in SUBSET Nat BY DEF IdInv
<1> QED BY <1>1, <1>2, FS_BoundedSetOfNaturals

\* The sorted ids are all ids, each once.
LEMMA DescendingAll ==
  ASSUME NEW S \in SUBSET Nat, IsFiniteSet(S), NEW ids \in Descending(S)
  PROVE  /\ Cardinality(S) \in Nat /\ ids \in [1 .. Cardinality(S) -> S]
         /\ \A i, j \in DOMAIN ids : ids[i] = ids[j] => i = j
         /\ \A id \in S : \E i \in DOMAIN ids : ids[i] = id
<1> DEFINE n == Cardinality(S)
<1>1. n \in Nat BY FS_CardinalityType
<1>2. ids \in [1 .. n -> S] /\ \A i, j \in DOMAIN ids : i < j => ids[i] > ids[j] BY DEF Descending
<1>3. ASSUME NEW i \in 1 .. n, NEW j \in 1 .. n, ids[i] = ids[j] PROVE i = j
  <2> DEFINE x == ids[i]
             y == ids[j]
  <2>1. x \in Nat /\ y \in Nat /\ x = y BY <1>2, <1>3, Zenon
  <2>2. (i < j => x > y) /\ (j < i => y > x) BY <1>2
  <2> HIDE DEF x, y, n
  <2>3. ~(i < j) /\ ~(j < i) BY <2>1, <2>2
  <2> QED BY <1>1, <1>3, <2>3
<1>4. ids \in Injection(1 .. n, S) BY <1>2, <1>3 DEF Injection, IsInjective
<1>5. Cardinality(1 .. n) = Cardinality(S)
  <2> HIDE DEF n
  <2>1. Cardinality(1 .. n) = IF 1 > n THEN 0 ELSE n - 1 + 1 BY <1>1, FS_Interval
  <2>2. Cardinality(1 .. n) = n BY <1>1, <2>1
  <2> QED BY <2>2 DEF n
<1>6. ids \in Surjection(1 .. n, S) BY <1>4, <1>5, FS_Injection
<1> QED BY <1>1, <1>2, <1>3, <1>6 DEF Surjection

\* A start caches every row.
LEMMA StartAgree ==
  ASSUME IdInv, Shape, DownInv, ~overlapped => Agreed, init
  PROVE  Shape' /\ DownInv' /\ (~overlapped' => Agreed')
<1>1. /\ ~up /\ up' /\ UNCHANGED <<t_user, call, overlapped>>
      /\ \A s \in Threads : call[s].op = "none"
  BY DEF init, dbVars, DownInv
<1>2. PICK failed : loadUsersFromDb(failed) BY Zenon DEF init
<1>9. PICK ids \in Descending(DOMAIN t_user) :
          all_cached_users_' = [i \in DOMAIN ids |->
              User(ids[i], t_user[ids[i]],
                   IF ids[i] \in failed THEN <<>> ELSE loadRelationshipFromDb(ids[i]))]
  BY <1>2 DEF loadUsersFromDb
<1> DEFINE n == Cardinality(DOMAIN t_user)
<1>3. /\ n \in Nat /\ ids \in [1 .. n -> DOMAIN t_user]
      /\ \A i, j \in DOMAIN ids : ids[i] = ids[j] => i = j
      /\ \A id \in DOMAIN t_user : \E i \in DOMAIN ids : ids[i] = id
  <2>1. DOMAIN t_user \in SUBSET Nat BY DEF IdInv
  <2> QED BY <2>1, DescendingAll, FiniteIds
<1> HIDE DEF n
<1>4. /\ DOMAIN all_cached_users_' = 1 .. n
      /\ all_cached_users_' = [i \in 1 .. n |-> all_cached_users_'[i]]
      /\ \A i \in 1 .. n :
             all_cached_users_'[i] = User(ids[i], t_user[ids[i]],
                 IF ids[i] \in failed THEN <<>> ELSE loadRelationshipFromDb(ids[i]))
  BY <1>3, <1>9
<1>5. \A i \in 1 .. n :
          /\ "userid" \in DOMAIN all_cached_users_'[i] /\ "username" \in DOMAIN all_cached_users_'[i]
          /\ all_cached_users_'[i].userid = ids[i]
          /\ all_cached_users_'[i].username = t_user[ids[i]].username
  BY <1>4, UserName
<1>6. Shape'
  <2>1. IsList(all_cached_users_') BY <1>3, <1>4 DEF IsList
  <2> QED BY <1>1, <1>4, <1>5, <2>1, Zenon DEF Shape
<1>7. DownInv' BY <1>1 DEF DownInv
<1>8. ASSUME ~overlapped' PROVE Agreed'
  <2>1. Agreed BY <1>1, <1>8, Zenon
  <2>2. Alone' /\ NameFree' /\ PushInv' /\ GroupInv'
    BY <1>1, Zenon DEF Alone, NameFree, PushInv, GroupInv, Creates, Pushes
  <2>3. NamesDiffer' BY <1>1, <2>1, Zenon DEF Agreed, NamesDiffer
  <2>4. CacheAgrees' BY <1>1, <1>3, <1>4, <1>5 DEF CacheAgrees
  <2>5. DOMAIN t_user \subseteq CachedIds' BY <1>3, <1>4, <1>5 DEF CachedIds
  <2>6. Stored' BY <1>1, <2>5 DEF Stored
  <2> QED BY <2>2, <2>3, <2>4, <2>6, Zenon DEF Agreed
<1> QED BY <1>6, <1>7, <1>8

LEMMA InitAgree == Init => Shape /\ DownInv /\ Agreed /\ ~overlapped
<1> SUFFICES ASSUME Init PROVE Shape /\ DownInv /\ Agreed /\ ~overlapped OBVIOUS
<1> DEFINE e == ""
<1>1. /\ DOMAIN t_user = DOMAIN Users
      /\ \A id \in DOMAIN Users : t_user[id] = Row(Users[id], e, e)
      /\ all_cached_users_ = <<>> /\ up = FALSE /\ overlapped = FALSE
  BY Zenon DEF Init
<1>0. call = [t \in Threads |-> Idle("")] BY Zenon DEF Init
<1> HIDE DEF e
<1>2. \A id \in DOMAIN t_user : "username" \in DOMAIN t_user[id] /\ t_user[id].username = Users[id]
  BY <1>1, RowName
<1>3. \A t \in Threads : DOMAIN call[t] = Fields /\ call[t].op = "none"
  BY <1>0, Zenon DEF Idle, Request, Fields
<1>4. DOMAIN all_cached_users_ = {} /\ IsList(all_cached_users_)
  BY <1>1, EmptyList, Zenon
<1>5. Shape BY <1>0, <1>1, <1>2, <1>3, <1>4, Zenon DEF Shape
<1>6. DownInv BY <1>3, <1>4 DEF DownInv
<1>7. NamesDiffer
  <2>1. ASSUME NEW a \in DOMAIN t_user, NEW b \in DOMAIN t_user, a <= GROUPID_BOUBDARY,
               b <= GROUPID_BOUBDARY, t_user[a].username = t_user[b].username
        PROVE  a = b
    <3>1. a \in DOMAIN Users /\ b \in DOMAIN Users /\ Users[a] = Users[b] BY <1>1, <1>2, <2>1, Zenon
    <3>2. a < GROUPID_BOUBDARY /\ b < GROUPID_BOUBDARY BY <2>1, <3>1, UserAssumption
    <3> QED BY <3>1, <3>2, UserAssumption, Zenon
  <2> QED BY <2>1 DEF NamesDiffer
<1>8. Alone /\ NameFree /\ PushInv /\ GroupInv
  BY <1>3, Zenon DEF Alone, NameFree, PushInv, GroupInv, Creates, Pushes
<1>9. CacheAgrees /\ Stored BY <1>1, <1>4 DEF CacheAgrees, Stored
<1> QED BY <1>1, <1>5, <1>6, <1>7, <1>8, <1>9 DEF Agreed

LEMMA AgreeStep == AgreeInv /\ [Next]_vars => AgreeInv'
<1> SUFFICES ASSUME AgreeInv, [Next]_vars PROVE AgreeInv' OBVIOUS
<1>0. IdInv /\ Shape /\ DownInv /\ (~overlapped => Agreed) BY DEF AgreeInv
<1>1. CASE init BY <1>0, <1>1, StartIds, StartAgree DEF AgreeInv
<1>2. CASE Crash BY <1>0, <1>2, CrashIds, CrashAgree, Zenon DEF AgreeInv
<1>3. ASSUME NEW t \in Threads, Step(t) PROVE AgreeInv'
  BY <1>0, <1>3, StepIds, StepAgree DEF AgreeInv
<1>4. ASSUME NEW t \in Threads, NEW c \in ChatRequests \cup RegisterRequests, Call(t, c)
      PROVE  AgreeInv'
  BY <1>0, <1>4, CallIds, SameIdsKeep, CallAgree DEF AgreeInv
<1>5. CASE UNCHANGED vars BY <1>0, <1>5, StutterAgree DEF AgreeInv
<1> QED BY <1>1, <1>2, <1>3, <1>4, <1>5 DEF Next

\* For any threads, users, calls, failing statements and restarts: unless two registrations
\* or two creations of groups met, every cached user is stored under its id with its name,
\* no id is cached twice, and no two ordinary users have one name.  register_user and addUser
\* keep this although the look for the name, the counting, the insertion and the caching
\* are separate accesses, with other calls in between.
THEOREM AgreeCorrect == Spec => []IdsAgree
<1>1. Init => AgreeInv BY InitIds, InitAgree DEF AgreeInv
<1>2. AgreeInv => IdsAgree BY AgreeIds DEF AgreeInv, Agreed
<1> QED BY <1>1, <1>2, AgreeStep, PTL DEF Spec
=============================================================================
