---------------------------- MODULE UserManager ----------------------------
(***************************************************************************)
(* service/user_manager.cpp and BussinessLogic::register_user: the users,  *)
(* groups and friendships of the database (t_user, t_user_relationship)    *)
(* and the copy of them in all_cached_users_, under calls of several       *)
(* threads, statements that fail and restarts of the process.              *)
(*                                                                         *)
(* A call advances from one shared access to the next: a statement, or a   *)
(* visit to all_cached_users_ under mutex_.  A statement that fails has    *)
(* written nothing.  f_user_id is the key of t_user and the two ids that   *)
(* of t_user_relationship.  The nine columns updateUserInfoInDb writes are *)
(* one, info; a name is a number, as a group's name is its id; ownerid,    *)
(* which nothing reads, is left out.                                       *)
(***************************************************************************)
EXTENDS Integers, Sequences, FiniteSets, FiniteSetsExt

CONSTANTS
    Threads,
    GROUPID_BOUBDARY,
    Strangers,    \* ids of nobody, which a caller may hold
    Users,        \* the rows of t_user before the first start: id to name
    Friends,      \* and of t_user_relationship: pair of ids to pair of teams
    Names,        \* what is registered
    Values,       \* what is written to columns
    Teams,
    MaxCalls,     \* bound: how many calls are made
    MaxFaults,    \* bound: how many statements fail
    MaxCrashes    \* bound: how often the process is killed

DEFAULT_TEAMNAME == "My Friends"

ASSUME UserAssumption ==
    /\ GROUPID_BOUBDARY \in Nat \ {0}
    /\ DOMAIN Users \subseteq Nat \ {0, GROUPID_BOUBDARY}
    /\ IsFiniteSet(DOMAIN Users)
    /\ \A a, b \in {id \in DOMAIN Users : id < GROUPID_BOUBDARY} : Users[a] = Users[b] => a = b
    /\ {MaxCalls, MaxFaults, MaxCrashes} \subseteq Nat

VARIABLES
    t_user,               \* external: rows, by f_user_id
    t_user_relationship,  \* external: rows, by (f_user_id1, f_user_id2)
    t_chatmsg,            \* external: the number of rows
    all_cached_users_,
    base_user_id_,
    base_group_id_,
    up,          \* init() has returned true
    call,        \* what each thread is executing, and what its last call returned
    calls,       \* history: the number of calls so far
    faults,      \* history: the number of failed statements so far
    crashes,     \* history: the number of crashes so far
    torn,        \* history: users two calls touched at once, or one left half-changed
    overlapped   \* history: two registrations, or two creations of groups, met

dbVars  == <<t_user, t_user_relationship, t_chatmsg>>
memVars == <<all_cached_users_, base_user_id_, base_group_id_>>
history == <<calls, faults, crashes, torn, overlapped>>
vars    == <<dbVars, memVars, up, call, history>>

Row(name, password, info) ==
    [username |-> name, password |-> password, info |-> info, teaminfo |-> ""]

User(id, row, friends) ==
    [userid |-> id, username |-> row.username, password |-> row.password,
     info |-> row.info, teaminfo |-> row.teaminfo, friends |-> friends]

FriendInfo(id, mark, team) == [friendid |-> id, markname |-> mark, teamname |-> team]

\* A request: user id, its friend f (or the name to register), and two values, 0 and
\* "none" where there is none; pc is the next access.
Request(op, pc, id, f, v, w) ==
    [op |-> op, pc |-> pc, id |-> id, f |-> f, v |-> v, w |-> w, ret |-> ""]

Idle(ret) == [Request("none", "", 0, 0, "", "") EXCEPT !.ret = ret]

\* The user with the smaller id is first in a row; marks and teams are by side.
Pair(a, b) == IF a < b THEN <<a, b>> ELSE <<b, a>>

Side(id, f) == IF id < f THEN 1 ELSE 2

Relation(teams) == [mark |-> <<"", "">>, team |-> teams]

Init ==
    /\ t_user = [id \in DOMAIN Users |-> Row(Users[id], "", "")]
    /\ t_user_relationship = [p \in DOMAIN Friends |-> Relation(Friends[p])]
    /\ t_chatmsg = 0
    /\ all_cached_users_ = <<>>
    /\ base_user_id_ = 0 /\ base_group_id_ = GROUPID_BOUBDARY
    /\ up = FALSE
    /\ call = [t \in Threads |-> Idle("")]
    /\ calls = 0 /\ faults = 0 /\ crashes = 0
    /\ torn = {} /\ overlapped = FALSE
-----------------------------------------------------------------------------
(***************************************************************************)
(* Starting.                                                               *)
(***************************************************************************)
\* The order in which the server returns rows that no ORDER BY sorts.
SomeOrder(rows) == CHOOSE s \in [1 .. Cardinality(rows) -> rows] : IsInjective(s)

\* The friends of a user, from both sides of the rows.
loadRelationshipFromDb(id) ==
    LET rows == SomeOrder({p \in DOMAIN t_user_relationship : id \in {p[1], p[2]}})
        Entry(p) == LET k == IF p[1] = id THEN 1 ELSE 2
                        r == t_user_relationship[p]
                    IN FriendInfo(p[3 - k], r.mark[k],
                           IF r.team[k] = "" THEN DEFAULT_TEAMNAME ELSE r.team[k])
    IN [i \in DOMAIN rows |-> Entry(rows[i])]

\* The variant that takes the last row, which has the smallest id, for the largest.
BaseOfLast(base, ids) == IF ids = {} THEN base ELSE Min(ids)

Base(base, ids) == Max({base} \cup ids)

\* ORDER BY f_user_id DESC: the one order of the ids from the largest to the smallest.
Descending(ids) ==
    {s \in [1 .. Cardinality(ids) -> ids] : \A i, j \in DOMAIN s : i < j => s[i] > s[j]}

\* Users in descending order of their ids; the largest id on either side of the
\* boundary.  An empty table is taken for an error.
loadUsersFromDb(failed) ==
    /\ DOMAIN t_user # {}
    /\ \E ids \in Descending(DOMAIN t_user) :
           all_cached_users_' = [i \in DOMAIN ids |->
               User(ids[i], t_user[ids[i]],
                    IF ids[i] \in failed THEN <<>> ELSE loadRelationshipFromDb(ids[i]))]
    /\ base_user_id_' = Base(base_user_id_, {i \in DOMAIN t_user : i < GROUPID_BOUBDARY})
    /\ base_group_id_' = Base(base_group_id_, {i \in DOMAIN t_user : i > GROUPID_BOUBDARY})

\* A relationship that cannot be loaded is logged, and the start goes on.
init ==
    /\ ~up /\ up' = TRUE
    /\ \E failed \in SUBSET {id \in DOMAIN t_user : loadRelationshipFromDb(id) # <<>>} :
           /\ loadUsersFromDb(failed)
           /\ faults' = faults + Cardinality(failed) /\ faults' <= MaxFaults
           /\ torn' = failed
    /\ UNCHANGED <<dbVars, call, calls, crashes, overlapped>>

\* The process dies: only the database is left.
Crash ==
    /\ up /\ crashes < MaxCrashes
    /\ up' = FALSE /\ crashes' = crashes + 1
    /\ all_cached_users_' = <<>> /\ base_user_id_' = 0 /\ base_group_id_' = GROUPID_BOUBDARY
    /\ call' = [t \in Threads |-> Idle("")]
    /\ torn' = {}
    /\ UNCHANGED <<dbVars, calls, faults, overlapped>>
-----------------------------------------------------------------------------
(***************************************************************************)
(* Calls.                                                                  *)
(***************************************************************************)
Busy(t) == call[t].op # "none"

\* The users whose data a call reads or writes.
Creates(c) == c.op \in {"register_user", "addGroup"}

Touches(c) == IF Creates(c) THEN {} ELSE {c.id, c.f} \ {0}

\* A thread makes a call.
Call(t, c) ==
    LET others == {call[s] : s \in {s \in Threads \ {t} : Busy(s)}}
    IN /\ up /\ ~Busy(t) /\ calls < MaxCalls
       /\ call' = [call EXCEPT ![t] = c] /\ calls' = calls + 1
       /\ torn' = torn \cup (Touches(c) \cap UNION {Touches(o) : o \in others})
       /\ overlapped' = (overlapped \/ (Creates(c) /\ \E o \in others : o.op = c.op))
       /\ UNCHANGED <<dbVars, memVars, up, faults, crashes>>

Goto(t, pc) == call' = [call EXCEPT ![t].pc = pc]

\* Only register_user's caller looks at the result.
Return(t, ret) ==
    call' = [call EXCEPT ![t] = Idle(IF call[t].op = "register_user" THEN ret ELSE "")]

\* The call ends early; the users in ids stay half-changed.
GiveUp(t, ids) ==
    /\ Return(t, "failed")
    /\ torn' = torn \cup ids
    /\ UNCHANGED <<dbVars, memVars, up, calls, crashes, overlapped>>

\* initialize() or execute() fails.
Fail(t, ids) ==
    /\ faults < MaxFaults /\ faults' = faults + 1
    /\ GiveUp(t, ids)

\* The call is refused, by the code or by a key of the database.
Refuse(t, ids) == GiveUp(t, ids) /\ UNCHANGED faults

\* A table with one more row.
AddRow(rows, key, row) == [k \in DOMAIN rows \cup {key} |-> IF k = key THEN row ELSE rows[k]]

\* A statement on t_user_relationship.
Relate(t, rows, next) ==
    /\ t_user_relationship' = rows
    /\ Goto(t, next)
    /\ UNCHANGED <<t_user, t_chatmsg, memVars, up, history>>

\* A statement on t_user.
Store(t, rows, next) ==
    /\ t_user' = rows
    /\ Goto(t, next)
    /\ UNCHANGED <<t_user_relationship, t_chatmsg, memVars, up, history>>

\* What a call does to all_cached_users_, and its end.
Cache(t, users, ret) ==
    /\ all_cached_users_' = users
    /\ Return(t, ret)
    /\ UNCHANGED <<dbVars, base_user_id_, base_group_id_, up, history>>

(***************************************************************************)
(* Looking up: the first match in the lists, at 0 if there is none.        *)
(***************************************************************************)
FirstOf(matches) == IF matches = {} THEN 0 ELSE Min(matches)

UserAt(id) == FirstOf({i \in DOMAIN all_cached_users_ : all_cached_users_[i].userid = id})

FriendAt(friends, f) == FirstOf({k \in DOMAIN friends : friends[k].friendid = f})

getUserInfoByUsername(name) == \E i \in DOMAIN all_cached_users_ : all_cached_users_[i].username = name

getUserInfoByUserId(id) == all_cached_users_[UserAt(id)]

\* This one goes on to a later entry of the same id.
FriendOwnerAt(id, f) ==
    FirstOf({i \in DOMAIN all_cached_users_ :
                LET u == all_cached_users_[i] IN u.userid = id /\ FriendAt(u.friends, f) # 0})

isFriend(id, f) == FriendOwnerAt(id, f) # 0

FriendEntry(id, f) ==
    LET u == all_cached_users_[FriendOwnerAt(id, f)] IN u.friends[FriendAt(u.friends, f)]

getFriendMarknameByUserId(id, f) == FriendEntry(id, f).markname

getTeamInfoByUserId(id) == getUserInfoByUserId(id).teaminfo

\* The friends of a user that are users themselves.
getFriendInfoByUserId(id) ==
    {e.friendid : e \in {e \in Range(getUserInfoByUserId(id).friends) : UserAt(e.friendid) # 0}}

(***************************************************************************)
(* New users and groups.                                                   *)
(***************************************************************************)
\* The variant that registers a name without looking for it.
NotFound(name) == TRUE

IsNew(name) == ~getUserInfoByUsername(name)

\* register_user tests the name, and calls addUser.
register_user(t) ==
    /\ call[t].op = "register_user" /\ call[t].pc = "check"
    /\ IF IsNew(call[t].f) THEN Goto(t, "connect") ELSE Return(t, "already")
    /\ UNCHANGED <<dbVars, memVars, up, history>>

\* INSERT of a row; a second one with the same key fails.
Insert(t, id, row) ==
    /\ call[t].pc = "insert"
    /\ \/ Fail(t, {})
       \/ id \in DOMAIN t_user /\ Refuse(t, {})
       \/ id \notin DOMAIN t_user /\ Store(t, AddRow(t_user, id, row), "push")

\* addUser: count, insert under the count read again, and cache under the count
\* read once more.
CountUser(t) ==
    /\ base_user_id_' = base_user_id_ + 1
    /\ Goto(t, "insert")
    /\ UNCHANGED <<dbVars, all_cached_users_, base_group_id_, up, history>>

addUser(t) ==
    /\ call[t].op = "register_user"
    /\ \/ call[t].pc = "connect" /\ (Fail(t, {}) \/ CountUser(t))
       \/ Insert(t, base_user_id_, Row(call[t].f, call[t].v, "columns"))
       \/ /\ call[t].pc = "push"
          /\ Cache(t, Append(all_cached_users_,
                 User(base_user_id_, Row(call[t].f, call[t].v, "preset"), <<>>)), "ok")

CountGroup(t) ==
    /\ base_group_id_' = base_group_id_ + 1
    /\ Goto(t, "insert")
    /\ UNCHANGED <<dbVars, all_cached_users_, base_user_id_, up, history>>

addGroup(t) ==
    /\ call[t].op = "addGroup"
    /\ \/ call[t].pc = "connect" /\ (Fail(t, {}) \/ CountGroup(t))
       \/ Insert(t, base_group_id_, Row(base_group_id_, "", "columns"))
       \/ /\ call[t].pc = "push"
          /\ Cache(t, Append(all_cached_users_,
                 User(base_group_id_, Row(base_group_id_, "", "preset"), <<>>)), "ok")

(***************************************************************************)
(* Columns of a user: the row, then the first cached user with the id.     *)
(***************************************************************************)
SetColumn(t, col) ==
    LET c == call[t]
        i == UserAt(c.id)
    IN \/ c.pc = "sql" /\ Fail(t, {})
       \/ /\ c.pc = "sql"
          /\ Store(t, [id \in DOMAIN t_user |->
                 IF id = c.id THEN [t_user[id] EXCEPT ![col] = c.v] ELSE t_user[id]], "mem")
       \/ c.pc = "mem" /\ i # 0 /\ Cache(t, [all_cached_users_ EXCEPT ![i][col] = c.v], "ok")
       \/ c.pc = "mem" /\ i = 0 /\ Cache(t, all_cached_users_, "failed")

updateUserInfoInDb(t) == call[t].op = "updateUserInfoInDb" /\ SetColumn(t, "info")

modifyUserPassword(t) == call[t].op = "modifyUserPassword" /\ SetColumn(t, "password")

updateUserTeamInfoInDbAndMemory(t) ==
    call[t].op = "updateUserTeamInfoInDbAndMemory" /\ SetColumn(t, "teaminfo")

saveChatMsgToDb(t) ==
    /\ call[t].op = "saveChatMsgToDb"
    /\ \/ Fail(t, {})
       \/ /\ t_chatmsg' = t_chatmsg + 1
          /\ Return(t, "ok")
          /\ UNCHANGED <<t_user, t_user_relationship, memVars, up, history>>
-----------------------------------------------------------------------------
(***************************************************************************)
(* Friendships.  The callers (the chat session, not in the repository) are *)
(* taken to follow a change of the database by the change in memory, and   *)
(* to stop at the first function that returns false.                       *)
(***************************************************************************)
\* INSERT of the pair, small id first.
makeFriendRelationshipInDB(t) ==
    LET p == Pair(call[t].id, call[t].f)
        refused == call[t].id = call[t].f \/ p \in DOMAIN t_user_relationship
    IN \/ Fail(t, {})
       \/ refused /\ Refuse(t, {})
       \/ ~refused /\ Relate(t, AddRow(t_user_relationship, p, Relation(<<DEFAULT_TEAMNAME, DEFAULT_TEAMNAME>>)), "mem")

\* DELETE of the pair ...
releaseFriendRelationship(t) ==
    LET p == Pair(call[t].id, call[t].f)
    IN \/ Fail(t, {})
       \/ call[t].id = call[t].f /\ Refuse(t, {})
       \/ /\ call[t].id # call[t].f
          /\ Relate(t, Restrict(t_user_relationship, DOMAIN t_user_relationship \ {p}), "find")

\* ... and deleteFriendToUser, which erases from copies of the users: all it does
\* is find out whether both are cached as friends.
deleteFriendToUser(t) ==
    LET found == {p \in {<<call[t].id, call[t].f>>, <<call[t].f, call[t].id>>} : isFriend(p[1], p[2])}
    IN IF Cardinality(found) = 2
       THEN Goto(t, "mem") /\ UNCHANGED <<dbVars, memVars, up, history>>
       ELSE Refuse(t, {p[1] : p \in found})

AddEntry(friends, f) == Append(friends, FriendInfo(f, "", DEFAULT_TEAMNAME))

\* The first entry of f is erased, and none if there is none.
DeleteEntry(friends, f) ==
    LET k == FriendAt(friends, f)
    IN SubSeq(friends, 1, k - 1) \o SubSeq(friends, k + 1, Len(friends))

ChangeEntry(friends, f, operation) ==
    IF operation = "FRIEND_OPERATION_ADD" THEN AddEntry(friends, f) ELSE DeleteEntry(friends, f)

\* Both lists change under one lock.
updateUserRelationshipInMemory(users, id, f, operation) ==
    [i \in DOMAIN users |->
        IF users[i].userid = id THEN [users[i] EXCEPT !.friends = ChangeEntry(@, f, operation)]
        ELSE IF users[i].userid = f
        THEN [users[i] EXCEPT !.friends = ChangeEntry(@, id, operation)]
        ELSE users[i]]

\* The same in a walk that stops as soon as both have been found.
addFriendToUser(id, f) ==
    LET both    == UserAt(id) # 0 /\ UserAt(f) # 0
        last    == IF both THEN Max({UserAt(id), UserAt(f)}) ELSE Len(all_cached_users_)
        changed == updateUserRelationshipInMemory(all_cached_users_, id, f, "FRIEND_OPERATION_ADD")
    IN [i \in DOMAIN all_cached_users_ |->
           IF i <= last THEN changed[i] ELSE all_cached_users_[i]]

Befriend(t) ==
    LET c == call[t]
    IN /\ c.op = "Befriend"
       /\ \/ c.pc = "sql" /\ makeFriendRelationshipInDB(t)
          \/ c.pc = "mem" /\ Cache(t, updateUserRelationshipInMemory(
                                          all_cached_users_, c.id, c.f, "FRIEND_OPERATION_ADD"), "ok")
          \/ c.pc = "mem" /\ Cache(t, addFriendToUser(c.id, c.f), "ok")

Unfriend(t) ==
    LET c == call[t]
    IN /\ c.op = "Unfriend"
       /\ \/ c.pc = "sql" /\ releaseFriendRelationship(t)
          \/ c.pc = "find" /\ deleteFriendToUser(t)
          \/ c.pc = "mem" /\ Cache(t, updateUserRelationshipInMemory(
                                          all_cached_users_, c.id, c.f, "FRIEND_OPERATION_DELETE"), "ok")

(***************************************************************************)
(* Marks and teams.                                                        *)
(***************************************************************************)
\* UPDATE ... SET f_user<k>_teamname = new WHERE f_user_id<k> = id AND it was old.
RenameSide(k, id, old, new) ==
    [p \in DOMAIN t_user_relationship |->
        LET r == t_user_relationship[p]
        IN IF p[k] = id /\ r.team[k] = old THEN [r EXCEPT !.team[k] = new] ELSE r]

\* The variant that forgets the cached list.
KeepEntry(e, old, new) == e

RenameEntry(e, old, new) == IF e.teamname = old THEN [e EXCEPT !.teamname = new] ELSE e

\* Two statements, one for each side, and the cached list.
Rename(t, old, new) ==
    LET c == call[t]
        i == UserAt(c.id)
    IN \/ c.pc = "sql" /\ (Fail(t, {}) \/ Relate(t, RenameSide(1, c.id, old, new), "sql2"))
       \/ c.pc = "sql2" /\ (Fail(t, {c.id}) \/ Relate(t, RenameSide(2, c.id, old, new), "mem"))
       \/ /\ c.pc = "mem"
          /\ Cache(t, [j \in DOMAIN all_cached_users_ |->
                 LET u == all_cached_users_[j]
                 IN IF j = i THEN [u EXCEPT !.friends =
                                      [k \in DOMAIN @ |-> RenameEntry(@[k], old, new)]]
                    ELSE u], "ok")

deleteTeam(t) == call[t].op = "deleteTeam" /\ Rename(t, call[t].v, DEFAULT_TEAMNAME)

modifyTeamName(t) == call[t].op = "modifyTeamName" /\ Rename(t, call[t].v, call[t].w)

\* UPDATE of the user's own side of the pair.
SetSide(id, f, col, v) ==
    [p \in DOMAIN t_user_relationship |->
        IF p = Pair(id, f) THEN [t_user_relationship[p] EXCEPT ![col][Side(id, f)] = v]
        ELSE t_user_relationship[p]]

SetEntry(i, f, col, v) ==
    LET u == all_cached_users_[i]
        k == FriendAt(u.friends, f)
    IN IF k = 0 THEN all_cached_users_ ELSE [all_cached_users_ EXCEPT ![i].friends[k][col] = v]

updateMarknameInDb(t) ==
    LET c == call[t]
        i == FriendOwnerAt(c.id, c.f)
    IN /\ c.op = "updateMarknameInDb"
       /\ \/ c.pc = "sql" /\ (Fail(t, {}) \/ Relate(t, SetSide(c.id, c.f, "mark", c.v), "mem"))
          \/ c.pc = "mem" /\ i # 0 /\ Cache(t, SetEntry(i, c.f, "markname", c.v), "ok")
          \/ c.pc = "mem" /\ i = 0 /\ Cache(t, all_cached_users_, "failed")

\* The user is looked up under the lock and written through a pointer after it.
moveFriendToOtherTeam(t) ==
    LET c == call[t]
        i == UserAt(c.id)
    IN /\ c.op = "moveFriendToOtherTeam"
       /\ \/ c.pc = "sql" /\ (Fail(t, {}) \/ Relate(t, SetSide(c.id, c.f, "team", c.v), "mem"))
          \/ c.pc = "mem" /\ i = 0 /\ Cache(t, all_cached_users_, "failed")
          \/ c.pc = "mem" /\ i # 0 /\ Goto(t, "write") /\ UNCHANGED <<dbVars, memVars, up, history>>
          \/ c.pc = "write" /\ Cache(t, SetEntry(i, c.f, "teamname", c.v), "ok")

-----------------------------------------------------------------------------
CachedIds == {all_cached_users_[i].userid : i \in DOMAIN all_cached_users_}

ColumnOps == {"updateUserInfoInDb", "modifyUserPassword", "updateUserTeamInfoInDbAndMemory"}

\* The calls of chat sessions: by an ordinary user, about any account.
Ordinary == {i \in CachedIds : i < GROUPID_BOUBDARY}

ColumnRequests ==
    {Request(op, "sql", id, 0, v, "none") : op \in ColumnOps, id \in Ordinary \cup Strangers, v \in Values}

TeamRequests ==
    {Request("deleteTeam", "sql", id, 0, v, "none") : id \in Ordinary, v \in Teams}
    \cup {Request("modifyTeamName", "sql", id, 0, p[1], p[2]) :
             id \in Ordinary, p \in {p \in Teams \X Teams : p[1] # p[2]}}

FriendRequests ==
    {Request("updateMarknameInDb", "sql", id, f, v, "none") :
        id \in Ordinary, f \in CachedIds, v \in Values}
    \cup {Request("moveFriendToOtherTeam", "sql", id, f, v, "none") :
             id \in Ordinary \cup Strangers, f \in CachedIds, v \in Teams}
    \cup {Request(op, "sql", id, f, "none", "none") :
             op \in {"Befriend", "Unfriend"}, id \in Ordinary, f \in CachedIds}

ChatRequests ==
    ColumnRequests \cup TeamRequests \cup FriendRequests
    \cup {Request("addGroup", "connect", 0, 0, "none", "none"), Request("saveChatMsgToDb", "sql", 0, 0, "none", "none")}

RegisterRequests == {Request("register_user", "check", 0, n, p, "none") : n \in Names, p \in Values}

Step(t) ==
    \/ register_user(t) \/ addUser(t) \/ addGroup(t)
    \/ updateUserInfoInDb(t) \/ modifyUserPassword(t) \/ updateUserTeamInfoInDbAndMemory(t)
    \/ saveChatMsgToDb(t)
    \/ Befriend(t) \/ Unfriend(t)
    \/ deleteTeam(t) \/ modifyTeamName(t) \/ updateMarknameInDb(t) \/ moveFriendToOtherTeam(t)

Next ==
    \/ init \/ Crash
    \/ \E t \in Threads : Step(t) \/ \E c \in ChatRequests \cup RegisterRequests : Call(t, c)

Spec == Init /\ [][Next]_vars
-----------------------------------------------------------------------------
\* The type of the variables; names and passwords of rows are not restricted.
TypeOK ==
    /\ DOMAIN t_user \subseteq Nat \ {0}
    /\ \A p \in DOMAIN t_user_relationship : p[1] < p[2]
    /\ t_chatmsg \in 0 .. MaxCalls
    /\ {base_user_id_, base_group_id_} \subseteq Nat
    /\ \A i \in DOMAIN all_cached_users_ :
           LET u == all_cached_users_[i]
           IN u.userid \in Nat /\ \A k \in DOMAIN u.friends : u.friends[k].friendid \in Nat
    /\ {up, overlapped} \subseteq BOOLEAN
    /\ calls \in 0 .. MaxCalls /\ faults \in 0 .. MaxFaults /\ crashes \in 0 .. MaxCrashes
    /\ \A t \in Threads : call[t].ret \in {"", "ok", "failed", "already"}

\* Once the process is up, no stored id is above the counter of its kind, so that
\* the next id addUser or addGroup counts up to is free: "take the largest
\* user_id of the database, new users count up from it" (user_manager.h:110).
\* Inserts by several threads and restarts in between are included; users whose
\* ids run into those of groups are not, for nothing in addUser stops them there.
IdsBelowBase ==
    (up /\ base_user_id_ < GROUPID_BOUBDARY) =>
        \A id \in DOMAIN t_user :
            id <= IF id < GROUPID_BOUBDARY THEN base_user_id_ ELSE base_group_id_

\* Unless two registrations (or two creations of groups) met, every cached user is
\* stored under its cached id, no id is cached twice, and no two ordinary users have one name:
\* register_user's test before its insert, and addUser's repeated reads of the counter.
IdsAgree ==
    ~overlapped =>
        /\ \A i, j \in DOMAIN all_cached_users_ :
               LET u == all_cached_users_[i]
               IN /\ u.userid \in DOMAIN t_user /\ t_user[u.userid].username = u.username
                  /\ i # j => all_cached_users_[j].userid # u.userid
        /\ \A a, b \in {id \in DOMAIN t_user : id <= GROUPID_BOUBDARY} :
               t_user[a].username = t_user[b].username => a = b

\* A user no call is at work on, and that no two calls met on and none left
\* half-changed, is cached as it is stored: what the getters answer from memory
\* is what a restart would load.
Coherent ==
    \A id \in CachedIds :
        (~overlapped /\ id \notin torn /\ \A t \in Threads : id \notin Touches(call[t])) =>
            LET u == getUserInfoByUserId(id)
                friends == {f \in CachedIds : f # id /\ Pair(id, f) \in DOMAIN t_user_relationship}
            IN /\ u.password = t_user[id].password
               /\ u.info \in {t_user[id].info, "preset"}
               /\ getTeamInfoByUserId(id) = t_user[id].teaminfo
               /\ Len(u.friends) = Cardinality(friends)
               /\ getFriendInfoByUserId(id) = friends
               /\ \A f \in friends :
                      LET r == t_user_relationship[Pair(id, f)]
                      IN /\ getFriendMarknameByUserId(id, f) = r.mark[Side(id, f)]
                         /\ FriendEntry(id, f).teamname = r.team[Side(id, f)]

=============================================================================
