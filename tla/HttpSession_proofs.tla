------------------------ MODULE HttpSession_proofs ------------------------
(***************************************************************************)
(* What UserManager_proofs says of the accounts, with the http sessions in *)
(* front; and an answer to a registration rests on a row (Registered).     *)
(***************************************************************************)
EXTENDS HttpSession, UserManager_proofs

\* The same with the http sessions in front, which the runs check.
THEOREM HttpIdsCorrect == HttpSpec => []IdsBelowBase
<1>1. HttpInit => IdInv BY InitIds, Zenon DEF HttpInit
<1>2. IdInv /\ [HttpNext]_httpVars => IdInv'
  <2>1. ASSUME UNCHANGED vars PROVE SameIds BY <2>1 DEF vars, dbVars, memVars, SameIds
  <2>2. ASSUME UNCHANGED httpVars PROVE SameIds BY <2>1, <2>2 DEF httpVars
  <2>3. ASSUME NEW s, NEW len, NEW ends, on_read(s, len, ends) PROVE SameIds
    BY <2>1, <2>2, <2>3, CallIds DEF on_read, _process
  <2>4. ASSUME NEW s, _on_register_response(s) PROVE SameIds
    BY <2>4, Zenon DEF _on_register_response, SameIds, dbVars, memVars
  <2> QED BY <2>2, <2>3, <2>4, StartIds, CrashIds, StepIds, CallIds, SameIdsKeep
          DEF HttpNext, HttpCrash
<1>3. IdInv => IdsBelowBase BY DEF IdInv
<1> QED BY <1>1, <1>2, <1>3, PTL DEF HttpSpec
-----------------------------------------------------------------------------
(***************************************************************************)
(* The same with http sessions in front: a step of theirs is a step of the *)
(* UserManager, or takes the result of a call that has returned.           *)
(***************************************************************************)
LEMMA HttpSteps ==
  ASSUME [HttpNext]_httpVars
  PROVE  [Next]_vars \/ \E s \in Sessions : _on_register_response(s)
<1>1. ASSUME NEW s \in Sessions, NEW len, NEW ends, on_read(s, len, ends) PROVE [Next]_vars
  <2>1. UNCHANGED vars \/ \E c \in RegisterRequests : Call(s, c)
    BY <1>1 DEF on_read, _process, httpVars
  <2>2. s \in Threads BY SessionAssumption
  <2> QED BY <2>1, <2>2 DEF Next
<1> QED BY <1>1 DEF HttpNext, HttpCrash, Next, httpVars

LEMMA ResponseFields ==
  ASSUME Shape, NEW s \in Sessions, _on_register_response(s)
  PROVE  /\ s \in Threads /\ call[s].op = "none" /\ Moves(s)
         /\ call'[s].op = "none" /\ call'[s].ret = ""
         /\ UNCHANGED <<t_user, all_cached_users_, base_user_id_, base_group_id_, up, overlapped>>
<1>1. s \in Threads BY SessionAssumption
<1>2. /\ call[s].ret # "" /\ call' = [call EXCEPT ![s] = Idle("")]
      /\ UNCHANGED <<t_user, all_cached_users_, base_user_id_, base_group_id_, up, overlapped>>
  BY Zenon DEF _on_register_response, dbVars, memVars, history
<1>3. DOMAIN Idle("") = Fields /\ Idle("").op = "none" /\ Idle("").ret = ""
  BY DEF Idle, Request, Fields
<1> QED BY <1>1, <1>2, <1>3, Zenon DEF Shape, Moves

LEMMA HttpAgreeStep == AgreeInv /\ [HttpNext]_httpVars => AgreeInv'
<1> SUFFICES ASSUME AgreeInv, [HttpNext]_httpVars PROVE AgreeInv' OBVIOUS
<1>1. ASSUME NEW s \in Sessions, _on_register_response(s) PROVE AgreeInv'
  <2>0. IdInv /\ Shape /\ DownInv /\ (~overlapped => Agreed) BY DEF AgreeInv
  <2>1. /\ s \in Threads /\ call[s].op = "none" /\ Moves(s)
        /\ call'[s].op = "none" /\ call'[s].ret = ""
        /\ UNCHANGED <<t_user, all_cached_users_, base_user_id_, base_group_id_, up, overlapped>>
    BY <1>1, <2>0, ResponseFields, Zenon
  <2>2. IdInv' BY <2>0, <2>1, SameIdsKeep, Zenon DEF SameIds
  <2>3. SameAccounts BY <2>0, <2>1, SameKept, Zenon DEF SameAccounts
  <2>4. ~Pushes(s, "register_user") /\ ~Engaged(call'[s]) BY <2>1, Zenon DEF Pushes, Engaged
  <2> QED BY <2>0, <2>1, <2>2, <2>3, <2>4, QuietAgree, Zenon DEF AgreeInv
<1> QED BY <1>1, HttpSteps, AgreeStep

\* The theorem above with the http sessions in front, which the run checks.
THEOREM HttpAgreeCorrect == HttpSpec => []IdsAgree
<1>1. HttpInit => AgreeInv BY InitIds, InitAgree, Zenon DEF HttpInit, AgreeInv
<1>2. AgreeInv => IdsAgree BY AgreeIds DEF AgreeInv, Agreed
<1> QED BY <1>1, <1>2, HttpAgreeStep, PTL DEF HttpSpec

(***************************************************************************)
(* Registered.  A session has a claim to an account of its name from the   *)
(* moment its row is stored: it will be told "ok", unless the process      *)
(* ends before.  There are never more claims than rows; and whatever is    *)
(* cached, or was found there, has a row.                                  *)
(***************************************************************************)
Claims(n) ==
    {s \in Sessions :
        /\ http[s].name = n
        /\ http[s].reply = "ok" \/ call[s].ret = "ok" \/ Pushes(s, "register_user")}

Holders(n) == {id \in DOMAIN t_user : t_user[id].username = n}

\* A call of register_user is one of a session that waits for it, for the name asked for.
Unanswered(session) == session.reply = ""

SessionInv ==
    /\ DOMAIN http = Sessions
    /\ \A s \in Sessions : DOMAIN http[s] = {"conn", "name", "reply"}
    /\ \A t \in Threads : call[t].op = "register_user" =>
           t \in Sessions /\ http[t].conn = "busy" /\ call[t].f = http[t].name /\ call[t].f \in Names
    /\ \A s \in Sessions : http[s].conn # "closed" => Unanswered(http[s])

ClaimInv == \A n \in Names : Cardinality(Claims(n)) <= Cardinality(Holders(n))

KnownInv ==
    /\ \A i \in DOMAIN all_cached_users_ :
           all_cached_users_[i].username \in Names => Holders(all_cached_users_[i].username) # {}
    /\ \A t \in Threads : Pushes(t, "register_user") => Holders(call[t].f) # {}
    /\ \A s \in Sessions :
           (http[s].reply = "already" \/ call[s].ret = "already") => Holders(http[s].name) # {}

AccountInv == AgreeInv /\ SessionInv /\ ClaimInv /\ KnownInv

\* Rows only come, and keep their names.
KeepsRows ==
    /\ DOMAIN t_user \subseteq DOMAIN t_user'
    /\ \A id \in DOMAIN t_user : t_user'[id].username = t_user[id].username

LEMMA HoldersGrow == ASSUME KeepsRows, NEW n PROVE Holders(n) \subseteq Holders(n)'
BY DEF KeepsRows, Holders

LEMMA FiniteClaims ==
  ASSUME IdInv, NEW n
  PROVE  /\ IsFiniteSet(Claims(n)) /\ Cardinality(Claims(n)) \in Nat
         /\ IsFiniteSet(Holders(n)) /\ Cardinality(Holders(n)) \in Nat
<1>1. Claims(n) \in SUBSET Sessions /\ Holders(n) \in SUBSET DOMAIN t_user BY DEF Claims, Holders
<1>2. IsFiniteSet(Sessions) /\ IsFiniteSet(DOMAIN t_user) BY SessionAssumption, FiniteIds
<1>3. IsFiniteSet(Claims(n)) /\ IsFiniteSet(Holders(n)) BY <1>1, <1>2, FS_Subset
<1> QED BY <1>3, FS_CardinalityType

\* Steps that add no claim.
LEMMA ClaimsKept ==
  ASSUME IdInv, IdInv', ClaimInv, KeepsRows, \A n \in Names : Claims(n)' \subseteq Claims(n)
  PROVE  ClaimInv'
<1> SUFFICES ASSUME NEW n \in Names PROVE Cardinality(Claims(n)') <= Cardinality(Holders(n)')
  BY DEF ClaimInv
<1> DEFINE C == Claims(n)
           D == Claims(n)'
           H == Holders(n)
           I == Holders(n)'
<1>1. D \in SUBSET C /\ H \in SUBSET I BY HoldersGrow
<1>2. IsFiniteSet(C) /\ Cardinality(C) \in Nat /\ Cardinality(H) \in Nat BY FiniteClaims
<1>3. IsFiniteSet(I) /\ Cardinality(I) \in Nat /\ Cardinality(D) \in Nat
  <2>1. PICK u \in Nat : \A id \in DOMAIN t_user' : id <= u BY DEF IdInv
  <2>2. DOMAIN t_user' \in SUBSET Nat BY DEF IdInv
  <2>3. IsFiniteSet(DOMAIN t_user') BY <2>1, <2>2, FS_BoundedSetOfNaturals
  <2>4. I \in SUBSET DOMAIN t_user' BY DEF Holders
  <2>5. IsFiniteSet(I) /\ IsFiniteSet(D) BY <1>1, <1>2, <2>3, <2>4, FS_Subset
  <2> QED BY <2>5, FS_CardinalityType
<1>4. Cardinality(C) <= Cardinality(H) BY DEF ClaimInv
<1> HIDE DEF C, D, H, I
<1>5. Cardinality(D) <= Cardinality(C) BY <1>1, <1>2, FS_Subset
<1>6. Cardinality(H) <= Cardinality(I) BY <1>1, <1>3, FS_Subset
<1> DEFINE c == Cardinality(C)
           d == Cardinality(D)
           h == Cardinality(H)
           i == Cardinality(I)
<1>7. c \in Nat /\ d \in Nat /\ h \in Nat /\ i \in Nat /\ d <= c /\ c <= h /\ h <= i
  BY <1>2, <1>3, <1>4, <1>5, <1>6
<1> HIDE DEF c, d, h, i
<1>8. d <= i BY <1>7
<1> QED BY <1>8 DEF d, i, D, I

\* Steps that store no row for a session: what is to be shown of each.
LEMMA KeptKnown ==
  ASSUME AccountInv, IdInv', KeepsRows,
         \A n \in Names : Claims(n)' \subseteq Claims(n),
         (\A i \in DOMAIN all_cached_users_ :
             all_cached_users_[i].username \in Names => Holders(all_cached_users_[i].username) # {})',
         \A t \in Threads : Pushes(t, "register_user")' =>
             Pushes(t, "register_user") /\ call'[t].f = call[t].f,
         \A s \in Sessions : (http'[s].reply = "already" \/ call'[s].ret = "already") =>
             /\ http'[s].name = http[s].name
             /\ Holders(http[s].name) # {}
  PROVE  ClaimInv' /\ KnownInv'
<1>1. IdInv /\ ClaimInv /\ KnownInv BY DEF AccountInv, AgreeInv
<1>2. ClaimInv' BY <1>1, ClaimsKept
<1>3. \A t \in Threads : Pushes(t, "register_user")' => Holders(call[t].f)' # {}
  BY <1>1 DEF KnownInv, KeepsRows, Holders
<1>4. \A s \in Sessions : (http'[s].reply = "already" \/ call'[s].ret = "already") =>
          Holders(http[s].name)' # {}
  BY DEF KeepsRows, Holders
<1> QED BY <1>2, <1>3, <1>4 DEF KnownInv

\* The cached users have rows.
AllKnown ==
    \A i \in DOMAIN all_cached_users_ :
        all_cached_users_[i].username \in Names => Holders(all_cached_users_[i].username) # {}

LEMMA CachedKnown ==
  ASSUME KnownInv, SameUsers(all_cached_users_'), KeepsRows
  PROVE  AllKnown'
<1> SUFFICES ASSUME NEW i \in DOMAIN all_cached_users_', all_cached_users_'[i].username \in Names
             PROVE  Holders(all_cached_users_[i].username)' # {}
  BY DEF AllKnown
<1>1. i \in DOMAIN all_cached_users_ /\ all_cached_users_'[i].username = all_cached_users_[i].username
  BY DEF SameUsers
<1>2. PICK id \in DOMAIN t_user : t_user[id].username = all_cached_users_[i].username
  BY <1>1 DEF KnownInv, Holders
<1>3. id \in DOMAIN t_user' /\ t_user'[id].username = all_cached_users_'[i].username
  BY <1>1, <1>2 DEF KeepsRows
<1> QED BY <1>3 DEF Holders

\* A thread moves, with no new claim.
LEMMA MoveAccounts ==
  ASSUME AccountInv, IdInv', KeepsRows, AllKnown', http' = http, NEW t \in Threads,
         \A s \in Threads \ {t} : call'[s] = call[s],
         call'[t].op = "register_user" =>
             call[t].op = "register_user" /\ call'[t].f = call[t].f,
         Pushes(t, "register_user")' => Pushes(t, "register_user"),
         call'[t].ret = "ok" => Pushes(t, "register_user"),
         call'[t].ret = "already" => Holders(http[t].name) # {}
  PROVE  SessionInv' /\ ClaimInv' /\ KnownInv'
<1>0. SessionInv /\ KnownInv /\ Sessions \subseteq Threads BY SessionAssumption DEF AccountInv
<1>1. SessionInv' BY <1>0 DEF SessionInv
<1>2. ASSUME NEW s \in Threads
      PROVE  /\ Pushes(s, "register_user")' => Pushes(s, "register_user") /\ call'[s].f = call[s].f
             /\ call'[s].ret = "ok" => Pushes(s, "register_user") \/ call[s].ret = "ok"
             /\ call'[s].ret = "already" => call[s].ret = "already" \/ Holders(http[s].name) # {}
  <2>1. CASE s # t BY <2>1 DEF Pushes
  <2>2. CASE s = t BY <2>2 DEF Pushes
  <2> QED BY <2>1, <2>2
<1>3. \A n \in Names : Claims(n)' \subseteq Claims(n)
  BY <1>0, <1>2 DEF Claims
<1>4. \A s \in Sessions : (http'[s].reply = "already" \/ call'[s].ret = "already") =>
             http'[s].name = http[s].name /\ Holders(http[s].name) # {}
  BY <1>0, <1>2 DEF KnownInv
<1> QED BY <1>1, <1>2, <1>3, <1>4, KeptKnown DEF AllKnown

\* The row of a session's user is stored: one more row of the name, and one more claim to it.
LEMMA InsertAccounts ==
  ASSUME AccountInv, IdInv', http' = http, NEW t \in Threads, NEW row,
         call[t].op = "register_user", call[t].pc = "insert", row.username = call[t].f,
         base_user_id_ \notin DOMAIN t_user, Store(t, AddRow(t_user, base_user_id_, row), "push")
  PROVE  SessionInv' /\ ClaimInv' /\ KnownInv'
<1> DEFINE id == base_user_id_
<1>0. IdInv /\ Shape /\ SessionInv /\ ClaimInv /\ KnownInv /\ Sessions \subseteq Threads
  BY SessionAssumption DEF AccountInv, AgreeInv
<1>1. Goto(t, "push") /\ t_user' = AddRow(t_user, id, row) /\ all_cached_users_' = all_cached_users_
  BY DEF Store, memVars
<1>2. /\ DOMAIN t_user' = DOMAIN t_user \cup {id} /\ t_user'[id] = row
      /\ \A i \in DOMAIN t_user : t_user'[i] = t_user[i]
  BY <1>1 DEF AddRow
<1> HIDE DEF id
<1>3. /\ \A s \in Threads \ {t} : call'[s] = call[s]
      /\ call'[t].op = "register_user" /\ call'[t].pc = "push" /\ call'[t].f = call[t].f
      /\ call'[t].ret = call[t].ret
  BY <1>0, <1>1, GotoFields
<1>4. KeepsRows BY <1>2 DEF KeepsRows
<1>5. SessionInv'
  <2>1. \A s \in Threads : call'[s].op = call[s].op /\ call'[s].f = call[s].f BY <1>3
  <2> QED BY <1>0, <2>1 DEF SessionInv
<1>6. ClaimInv'
  <2> SUFFICES ASSUME NEW n \in Names PROVE Cardinality(Claims(n)') <= Cardinality(Holders(n)')
    BY DEF ClaimInv
  <2> DEFINE C == Claims(n)
             D == Claims(n)'
             H == Holders(n)
             I == Holders(n)'
  <2>1. C \in SUBSET Sessions /\ H \in SUBSET DOMAIN t_user BY DEF Claims, Holders
  <2>2. IsFiniteSet(C) /\ IsFiniteSet(H) /\ Cardinality(C) \in Nat /\ Cardinality(H) \in Nat
    BY <1>0, FiniteClaims
  <2>3. Cardinality(C) <= Cardinality(H) BY <1>0 DEF ClaimInv
  <2>4. CASE n = call[t].f
    <3>1. D \in SUBSET (C \cup {t}) BY <1>0, <1>3 DEF Claims, Pushes
    <3>2. I = H \cup {id} /\ id \notin H BY <1>2, <2>4 DEF Holders, id
    <3> HIDE DEF C, D, H, I
    <3>3. IsFiniteSet(C \cup {t}) /\ Cardinality(C \cup {t}) = IF t \in C THEN Cardinality(C) ELSE Cardinality(C) + 1
      BY <2>2, FS_AddElement
    <3>4. IsFiniteSet(D) /\ Cardinality(D) <= Cardinality(C \cup {t}) BY <3>1, <3>3, FS_Subset
    <3>5. Cardinality(I) = Cardinality(H) + 1 BY <2>2, <3>2, FS_AddElement, Zenon
    <3>6. Cardinality(D) \in Nat BY <3>4, FS_CardinalityType
    <3> DEFINE c == Cardinality(C)
               d == Cardinality(D)
               e == Cardinality(C \cup {t})
               h == Cardinality(H)
               i == Cardinality(I)
    <3>7. c \in Nat /\ d \in Nat /\ h \in Nat /\ (e = c \/ e = c + 1) /\ d <= e /\ c <= h /\ i = h + 1
      BY <2>2, <2>3, <3>3, <3>4, <3>5, <3>6
    <3> HIDE DEF c, d, e, h, i
    <3>8. d <= i BY <3>7
    <3> QED BY <3>8 DEF d, i, D, I
  <2>5. CASE n # call[t].f
    <3>1. D \in SUBSET C
      <4>1. t \in Sessions => http[t].name # n BY <1>0, <2>5 DEF SessionInv
      <4>2. \A s \in Sessions \ {t} : call'[s] = call[s] BY <1>0, <1>3
      <4> QED BY <4>1, <4>2 DEF Claims, Pushes
    <3>2. I = H BY <1>2, <2>5 DEF Holders, id
    <3> HIDE DEF C, D, H, I
    <3>3. IsFiniteSet(D) /\ Cardinality(D) <= Cardinality(C) BY <2>2, <3>1, FS_Subset
    <3>4. Cardinality(D) \in Nat BY <3>3, FS_CardinalityType
    <3> DEFINE c == Cardinality(C)
               d == Cardinality(D)
               h == Cardinality(H)
    <3>5. c \in Nat /\ d \in Nat /\ h \in Nat /\ d <= c /\ c <= h BY <2>2, <2>3, <3>3, <3>4
    <3> HIDE DEF c, d, h
    <3>6. d <= h BY <3>5
    <3>7. Cardinality(D) <= Cardinality(I) BY <3>2, <3>6 DEF d, h
    <3> QED BY <3>7 DEF D, I
  <2> QED BY <2>4, <2>5
<1>7. AllKnown'
  <2>1. SameUsers(all_cached_users_') BY <1>0, <1>1, SameKept
  <2> QED BY <1>0, <1>4, <2>1, CachedKnown
<1>8. \A s \in Threads : Pushes(s, "register_user")' => Holders(call[s].f)' # {}
  <2> SUFFICES ASSUME NEW s \in Threads, Pushes(s, "register_user")' PROVE Holders(call[s].f)' # {}
    OBVIOUS
  <2>1. CASE s = t BY <1>2, <1>3, <2>1 DEF Holders
  <2>2. CASE s # t
    <3>1. call'[s] = call[s] /\ Holders(call[s].f) # {} BY <1>0, <1>3, <2>2 DEF KnownInv, Pushes
    <3> QED BY <1>4, <3>1 DEF KeepsRows, Holders
  <2> QED BY <2>1, <2>2
<1>9. \A s \in Sessions : (http'[s].reply = "already" \/ call'[s].ret = "already") =>
          Holders(http[s].name)' # {}
  <2>1. \A s \in Sessions : call'[s].ret = call[s].ret BY <1>0, <1>3
  <2> QED BY <1>0, <1>4, <2>1 DEF KnownInv, KeepsRows, Holders
<1> QED BY <1>5, <1>6, <1>7, <1>8, <1>9 DEF KnownInv, AllKnown

\* A thread goes on or ends, and leaves the table and the cache alone.
LEMMA QuietAccounts ==
  ASSUME AccountInv, IdInv', http' = http, NEW t \in Threads, call[t].op # "none",
         UNCHANGED <<t_user, all_cached_users_>>,
         \/ \E pc : pc # "push" /\ Goto(t, pc)
         \/ Return(t, "failed")
         \/ Return(t, "already") /\ ~IsNew(call[t].f)
  PROVE  SessionInv' /\ ClaimInv' /\ KnownInv'
<1>0. Shape /\ SessionInv /\ KnownInv BY DEF AccountInv, AgreeInv
<1>1. KeepsRows /\ AllKnown'
  <2>1. SameUsers(all_cached_users_') /\ KeepsRows BY <1>0, SameKept DEF KeepsRows
  <2> QED BY <1>0, <2>1, CachedKnown
<1>2. ASSUME NEW pc, pc # "push", Goto(t, pc) PROVE SessionInv' /\ ClaimInv' /\ KnownInv'
  <2>1. /\ \A s \in Threads \ {t} : call'[s] = call[s]
        /\ call'[t].op = call[t].op /\ call'[t].f = call[t].f
        /\ call'[t].ret = "" /\ call'[t].pc # "push"
    BY <1>0, <1>2, GotoFields, Zenon DEF Shape
  <2> QED BY <1>1, <2>1, MoveAccounts, Zenon DEF Pushes
<1>3. ASSUME NEW ret, Return(t, ret), ret = "failed" \/ (ret = "already" /\ ~IsNew(call[t].f))
      PROVE  SessionInv' /\ ClaimInv' /\ KnownInv'
  <2>1. /\ \A s \in Threads \ {t} : call'[s] = call[s]
        /\ call'[t].op = "none" /\ call'[t].ret = IF call[t].op = "register_user" THEN ret ELSE ""
    BY <1>0, <1>3, ReturnFields, Zenon
  <2>2. call'[t].ret # "ok" BY <1>3, <2>1, Zenon
  <2>3. call'[t].ret = "already" => Holders(http[t].name) # {}
    <3> SUFFICES ASSUME call'[t].ret = "already" PROVE Holders(http[t].name) # {} OBVIOUS
    <3>1. call[t].op = "register_user" /\ ~IsNew(call[t].f) BY <1>3, <2>1, Zenon
    <3>2. call[t].f = http[t].name /\ call[t].f \in Names BY <1>0, <3>1 DEF SessionInv
    <3>3. PICK i \in DOMAIN all_cached_users_ : all_cached_users_[i].username = call[t].f
      BY <3>1, Zenon DEF IsNew, getUserInfoByUsername
    <3> QED BY <1>0, <3>2, <3>3, Zenon DEF KnownInv
  <2> QED BY <1>1, <2>1, <2>2, <2>3, MoveAccounts, Zenon DEF Pushes
<1> QED BY <1>2, <1>3

\* A new user or group is cached: its name is one that has a row, or is no user's.
LEMMA PushAccounts ==
  ASSUME AccountInv, IdInv', http' = http, NEW t \in Threads, NEW u, call[t].pc = "push",
         Cache(t, Append(all_cached_users_, u), "ok"),
         \/ call[t].op = "register_user" /\ u.username = call[t].f
         \/ call[t].op = "addGroup" /\ u.username \notin Names
  PROVE  SessionInv' /\ ClaimInv' /\ KnownInv'
<1> DEFINE k == Len(all_cached_users_) + 1
<1>0. Shape /\ KnownInv BY DEF AccountInv, AgreeInv
<1>1. /\ Return(t, "ok") /\ all_cached_users_' = Append(all_cached_users_, u) /\ t_user' = t_user
  BY DEF Cache, dbVars
<1>2. /\ DOMAIN all_cached_users_' = DOMAIN all_cached_users_ \cup {k}
      /\ all_cached_users_'[k] = u
      /\ \A i \in DOMAIN all_cached_users_ : all_cached_users_'[i] = all_cached_users_[i]
  <2> DEFINE q == Append(all_cached_users_, u)
  <2>1. IsList(all_cached_users_) BY <1>0, Zenon DEF Shape
  <2>2. /\ DOMAIN q = DOMAIN all_cached_users_ \cup {k} /\ q[k] = u
        /\ \A i \in DOMAIN all_cached_users_ : q[i] = all_cached_users_[i]
    BY <2>1, AppendList
  <2> QED BY <1>1, <2>2
<1> HIDE DEF k
<1>3. u.username \in Names => Holders(u.username) # {} BY <1>0 DEF KnownInv, Pushes
<1>4. AllKnown'
  <2> SUFFICES ASSUME NEW i \in DOMAIN all_cached_users_', all_cached_users_'[i].username \in Names
               PROVE  Holders(all_cached_users_[i].username)' # {}
    BY DEF AllKnown
  <2> DEFINE n == all_cached_users_'[i].username
  <2>1. CASE i = k
    <3>1. PICK id \in DOMAIN t_user : t_user[id].username = n BY <1>2, <1>3, <2>1, Zenon DEF Holders
    <3> QED BY <1>1, <3>1 DEF Holders
  <2>2. CASE i \in DOMAIN all_cached_users_
    <3>1. PICK id \in DOMAIN t_user : t_user[id].username = n BY <1>0, <1>2, <2>2, Zenon DEF KnownInv, Holders
    <3> QED BY <1>1, <3>1 DEF Holders
  <2> QED BY <1>2, <2>1, <2>2, Zenon
<1>5. /\ \A s \in Threads \ {t} : call'[s] = call[s]
      /\ call'[t].op = "none" /\ call'[t].ret = IF call[t].op = "register_user" THEN "ok" ELSE ""
  BY <1>0, <1>1, ReturnFields, Zenon
<1>6. KeepsRows BY <1>1 DEF KeepsRows
<1>7. /\ call'[t].ret = "ok" => Pushes(t, "register_user")
      /\ call'[t].ret # "already"
  BY <1>5, Zenon DEF Pushes
<1> QED BY <1>4, <1>5, <1>6, <1>7, MoveAccounts, Zenon DEF Pushes

\* The row of a group, which no session claims.
LEMMA GroupAccounts ==
  ASSUME AccountInv, IdInv', http' = http, NEW t \in Threads, NEW id, NEW row,
         call[t].op = "addGroup", id \notin DOMAIN t_user, Store(t, AddRow(t_user, id, row), "push")
  PROVE  SessionInv' /\ ClaimInv' /\ KnownInv'
<1>0. Shape /\ KnownInv BY DEF AccountInv, AgreeInv
<1>1. Goto(t, "push") /\ t_user' = AddRow(t_user, id, row) /\ all_cached_users_' = all_cached_users_
  BY DEF Store, memVars
<1>2. KeepsRows BY <1>1 DEF AddRow, KeepsRows
<1>3. SameUsers(all_cached_users_') BY <1>0, <1>1, SameKept
<1>4. AllKnown' BY <1>0, <1>2, <1>3, CachedKnown, Zenon
<1>5. /\ \A s \in Threads \ {t} : call'[s] = call[s]
      /\ call'[t].op = "addGroup" /\ call'[t].ret = ""
  BY <1>0, <1>1, GotoFields, Zenon DEF Shape
<1> QED BY <1>2, <1>4, <1>5, MoveAccounts, Zenon DEF Pushes

LEMMA StepAccounts ==
  ASSUME Names \cap Nat = {}, AccountInv, IdInv', http' = http, NEW t \in Threads, Step(t)
  PROVE  SessionInv' /\ ClaimInv' /\ KnownInv'
<1> DEFINE Goal == SessionInv' /\ ClaimInv' /\ KnownInv'
           c == call[t]
<1>0. IdInv /\ Shape /\ KnownInv BY Zenon DEF AccountInv, AgreeInv
<1>1. ASSUME NEW ids, c.op # "none", Fail(t, ids) \/ Refuse(t, ids) PROVE Goal
  <2>1. Return(t, "failed") /\ UNCHANGED <<t_user, all_cached_users_>>
    BY <1>1 DEF Fail, Refuse, GiveUp, dbVars, memVars
  <2> QED BY <1>1, <2>1, QuietAccounts, Zenon
<1>2. CASE register_user(t)
  <2>1. /\ c.op = "register_user" /\ UNCHANGED <<t_user, all_cached_users_>>
        /\ Goto(t, "connect") \/ (Return(t, "already") /\ ~IsNew(c.f))
    BY <1>2, Zenon DEF register_user, dbVars, memVars
  <2> QED BY <2>1, QuietAccounts, Zenon
<1>3. CASE addUser(t)
  <2> DEFINE row == Row(c.f, c.v, "columns")
             u == User(base_user_id_, Row(c.f, c.v, "preset"), <<>>)
  <2>1. /\ c.op = "register_user"
        /\ \/ c.pc = "connect" /\ (Fail(t, {}) \/ CountUser(t))
           \/ Insert(t, base_user_id_, row)
           \/ c.pc = "push" /\ Cache(t, Append(all_cached_users_, u), "ok")
    BY <1>3 DEF addUser
  <2>2. row.username = c.f /\ u.username = c.f
    <3>1. row.username = c.f BY RowName
    <3>2. IsUser(u, base_user_id_, c.f) BY NewUser, Zenon
    <3> QED BY <3>1, <3>2, Zenon DEF IsUser
  <2> HIDE DEF row, u
  <2>3. CASE Fail(t, {}) \/ Refuse(t, {}) BY <1>1, <2>1, <2>3, Zenon
  <2>4. CASE CountUser(t)
    <3>1. Goto(t, "insert") /\ UNCHANGED <<t_user, all_cached_users_>> BY <2>4, Zenon DEF CountUser, dbVars
    <3> QED BY <2>1, <3>1, QuietAccounts
  <2>5. CASE /\ c.pc = "insert" /\ base_user_id_ \notin DOMAIN t_user
             /\ Store(t, AddRow(t_user, base_user_id_, row), "push")
    BY <2>1, <2>2, <2>5, InsertAccounts, Zenon
  <2>6. CASE c.pc = "push" /\ Cache(t, Append(all_cached_users_, u), "ok")
    BY <2>1, <2>2, <2>6, PushAccounts, Zenon
  <2> QED BY <2>1, <2>3, <2>4, <2>5, <2>6, Zenon DEF Insert
<1>4. CASE addGroup(t)
  <2> DEFINE e == ""
             row == Row(base_group_id_, e, "columns")
             u == User(base_group_id_, Row(base_group_id_, e, "preset"), <<>>)
  <2>1. /\ c.op = "addGroup"
        /\ \/ c.pc = "connect" /\ (Fail(t, {}) \/ CountGroup(t))
           \/ Insert(t, base_group_id_, row)
           \/ c.pc = "push" /\ Cache(t, Append(all_cached_users_, u), "ok")
    BY <1>4, Zenon DEF addGroup
  <2> HIDE DEF e
  <2>2. u.username = base_group_id_
    <3>1. IsUser(u, base_group_id_, base_group_id_) BY NewUser, Zenon
    <3> QED BY <3>1, Zenon DEF IsUser
  <2>3. u.username \notin Names BY <1>0, <2>2, Zenon DEF IdInv
  <2> HIDE DEF row, u
  <2>4. CASE Fail(t, {}) \/ Refuse(t, {}) BY <1>1, <2>1, <2>4, Zenon
  <2>5. CASE CountGroup(t)
    <3>1. Goto(t, "insert") /\ UNCHANGED <<t_user, all_cached_users_>> BY <2>5 DEF CountGroup, dbVars
    <3> QED BY <2>1, <3>1, QuietAccounts, Zenon
  <2>6. CASE /\ base_group_id_ \notin DOMAIN t_user
             /\ Store(t, AddRow(t_user, base_group_id_, row), "push")
    BY <2>1, <2>6, GroupAccounts, Zenon
  <2>7. CASE c.pc = "push" /\ Cache(t, Append(all_cached_users_, u), "ok")
    BY <2>1, <2>3, <2>7, PushAccounts, Zenon
  <2> QED BY <2>1, <2>4, <2>5, <2>6, <2>7, Zenon DEF Insert
<1>5. ASSUME SameAccounts, Moves(t), call'[t].ret = "", c.op \notin {"none", "register_user", "addGroup"}
      PROVE  Goal
  <2>1. KeepsRows BY <1>5, Zenon DEF SameAccounts, SameRows, KeepsRows
  <2>2. AllKnown' BY <1>0, <1>5, <2>1, CachedKnown, Zenon DEF SameAccounts
  <2>3. /\ \A s \in Threads \ {t} : call'[s] = call[s]
        /\ call'[t].op # "register_user" /\ call'[t].ret = ""
    BY <1>5, Zenon DEF Moves
  <2> QED BY <2>1, <2>2, <2>3, MoveAccounts, Zenon DEF Pushes
<1>6. CASE ~(register_user(t) \/ addUser(t) \/ addGroup(t))
  <2>1. /\ SameAccounts /\ Moves(t) /\ call'[t].ret = ""
        /\ c.op \notin {"none", "register_user", "addGroup"}
    BY <1>0, <1>6, OtherAccounts, Zenon DEF Step
  <2> QED BY <1>5, <2>1, Zenon
<1> QED BY <1>2, <1>3, <1>4, <1>6, Zenon

\* A start caches what has rows.
LEMMA StartAccounts ==
  ASSUME AccountInv, IdInv', http' = http, init
  PROVE  SessionInv' /\ ClaimInv' /\ KnownInv'
<1>0. IdInv /\ SessionInv /\ KnownInv BY DEF AccountInv, AgreeInv
<1>1. UNCHANGED <<t_user, call>> BY DEF init, dbVars
<1>2. PICK failed : loadUsersFromDb(failed) BY Zenon DEF init
<1>3. PICK ids \in Descending(DOMAIN t_user) :
          all_cached_users_' = [i \in DOMAIN ids |->
              User(ids[i], t_user[ids[i]],
                   IF ids[i] \in failed THEN <<>> ELSE loadRelationshipFromDb(ids[i]))]
  BY <1>2 DEF loadUsersFromDb
<1>4. \A i \in DOMAIN ids : ids[i] \in DOMAIN t_user
  <2>1. DOMAIN t_user \in SUBSET Nat BY <1>0 DEF IdInv
  <2>2. ids \in [1 .. Cardinality(DOMAIN t_user) -> DOMAIN t_user] BY <1>0, <2>1, DescendingAll, FiniteIds, Zenon
  <2> QED BY <2>2
<1>5. /\ DOMAIN all_cached_users_' = DOMAIN ids
      /\ \A i \in DOMAIN ids : all_cached_users_'[i].username = t_user[ids[i]].username
  BY <1>3, UserName
<1>6. AllKnown' BY <1>1, <1>4, <1>5 DEF AllKnown, Holders
<1>7. KeepsRows BY <1>1, Zenon DEF KeepsRows
<1>8. SessionInv' BY <1>0, <1>1 DEF SessionInv
<1>9. \A n \in Names : Claims(n)' \subseteq Claims(n) BY <1>1 DEF Claims, Pushes
<1>10. \A t \in Threads : Pushes(t, "register_user")' => Pushes(t, "register_user") /\ call'[t].f = call[t].f
  BY <1>1 DEF Pushes
<1>11. \A s \in Sessions : (http'[s].reply = "already" \/ call'[s].ret = "already") =>
           http'[s].name = http[s].name /\ Holders(http[s].name) # {}
  BY <1>0, <1>1, Zenon DEF KnownInv
<1> QED BY <1>6, <1>7, <1>8, <1>9, <1>10, <1>11, KeptKnown, Zenon DEF AllKnown

\* A chat session makes a call.
LEMMA ChatAccounts ==
  ASSUME AccountInv, IdInv', http' = http, NEW t \in Threads, NEW c \in ChatRequests, Call(t, c)
  PROVE  SessionInv' /\ ClaimInv' /\ KnownInv'
<1>0. Shape /\ KnownInv BY DEF AccountInv, AgreeInv
<1>1. call' = [call EXCEPT ![t] = c] /\ UNCHANGED <<t_user, all_cached_users_>>
  BY DEF Call, dbVars, memVars
<1>2. c.ret = "" /\ c.op # "register_user" BY RequestFields, Zenon
<1>3. call'[t] = c /\ \A s \in Threads \ {t} : call'[s] = call[s] BY <1>0, <1>1, Zenon DEF Shape
<1>4. KeepsRows /\ SameUsers(all_cached_users_') BY <1>0, <1>1, SameKept DEF KeepsRows
<1>5. AllKnown' BY <1>0, <1>4, CachedKnown, Zenon
<1> QED BY <1>2, <1>3, <1>4, <1>5, MoveAccounts, Zenon DEF Pushes

\* Steps of the sessions: the table and the cache stay, and nobody is told anything new.
LEMMA SessionAccounts ==
  ASSUME AccountInv, IdInv', UNCHANGED <<t_user, all_cached_users_>>,
         \A s \in Threads : Pushes(s, "register_user")' => Pushes(s, "register_user") /\ call'[s] = call[s],
         \A s \in Sessions : \A r \in {"ok", "already"} : (http'[s].reply = r \/ call'[s].ret = r) =>
             /\ http'[s].name = http[s].name
             /\ http[s].reply = r \/ call[s].ret = r,
         \A s \in Sessions : Pushes(s, "register_user")' => http'[s].name = http[s].name
  PROVE  ClaimInv' /\ KnownInv'
<1>0. Shape /\ KnownInv /\ Sessions \subseteq Threads BY SessionAssumption, Zenon DEF AccountInv, AgreeInv
<1>1. KeepsRows /\ SameUsers(all_cached_users_') BY <1>0, SameKept, Zenon DEF KeepsRows
<1>2. AllKnown' BY <1>0, <1>1, CachedKnown, Zenon
<1>3. \A n \in Names : Claims(n)' \subseteq Claims(n) BY <1>0 DEF Claims
<1>4. \A s \in Sessions : (http'[s].reply = "already" \/ call'[s].ret = "already") =>
          http'[s].name = http[s].name /\ Holders(http[s].name) # {}
  BY <1>0 DEF KnownInv
<1> QED BY <1>1, <1>2, <1>3, <1>4, KeptKnown, Zenon DEF AllKnown

LEMMA CrashAccounts ==
  ASSUME AccountInv, IdInv', HttpCrash
  PROVE  SessionInv' /\ ClaimInv' /\ KnownInv'
<1>0. SessionInv /\ KnownInv /\ Sessions \subseteq Threads
  BY SessionAssumption DEF AccountInv
<1>1. /\ all_cached_users_' = <<>> /\ call' = [t \in Threads |-> Idle("")] /\ t_user' = t_user
      /\ http' = [s \in Sessions |->
                     IF http[s].conn = "busy" THEN [http[s] EXCEPT !.conn = "closed"] ELSE http[s]]
  BY Zenon DEF HttpCrash, Crash, dbVars
<1>2. \A t \in Threads : call'[t].op = "none" /\ call'[t].ret = "" BY <1>1, Zenon DEF Idle, Request
<1>3. /\ DOMAIN http' = Sessions
      /\ \A s \in Sessions : /\ DOMAIN http'[s] = {"conn", "name", "reply"}
                             /\ http'[s].name = http[s].name /\ http'[s].reply = http[s].reply
                             /\ http'[s].conn \in {http[s].conn, "closed"}
  BY <1>0, <1>1, Zenon DEF SessionInv
<1>4. SessionInv'
  <2>1. \A s \in Sessions : Unanswered(http[s]) => Unanswered(http'[s]) BY <1>3, Zenon DEF Unanswered
  <2>2. \A t \in Threads : call'[t].op = "none" BY <1>2, Zenon
  <2> QED BY <1>0, <1>3, <2>1, <2>2 DEF SessionInv
<1>5. AllKnown' BY <1>1, EmptyList, Zenon DEF AllKnown
<1>6. KeepsRows BY <1>1, Zenon DEF KeepsRows
<1>7. \A t \in Threads : ~Pushes(t, "register_user")' BY <1>2, Zenon DEF Pushes
<1>8. \A n \in Names : Claims(n)' \subseteq Claims(n) BY <1>0, <1>2, <1>3, <1>7, Zenon DEF Claims
<1>9. \A s \in Sessions : (http'[s].reply = "already" \/ call'[s].ret = "already") =>
          http'[s].name = http[s].name /\ Holders(http[s].name) # {}
  BY <1>0, <1>2, <1>3, Zenon DEF KnownInv
<1> QED BY <1>4, <1>5, <1>6, <1>7, <1>8, <1>9, KeptKnown, Zenon DEF AllKnown

\* A request is complete: refused, or a call of register_user.
LEMMA ReadAccounts ==
  ASSUME AccountInv, IdInv', NEW s \in Sessions, NEW len, NEW ends, on_read(s, len, ends)
  PROVE  SessionInv' /\ ClaimInv' /\ KnownInv'
<1>0. Shape /\ SessionInv /\ s \in Threads /\ Sessions \subseteq Threads
  BY SessionAssumption DEF AccountInv, AgreeInv
<1>1. /\ http[s].conn = "open"
      /\ \/ UNCHANGED httpVars
         \/ force_close(s) /\ UNCHANGED vars
         \/ \E c \in RegisterRequests :
                Call(s, c) /\ http' = [http EXCEPT ![s].conn = "busy", ![s].name = c.f]
  BY DEF on_read, _process
<1>a. Unanswered(http[s]) BY <1>0, <1>1, Zenon DEF SessionInv
<1>2. http[s].reply = "" BY <1>a, Zenon DEF Unanswered
<1>3. CASE UNCHANGED httpVars
  <2>1. UNCHANGED <<t_user, all_cached_users_, call, http>> BY <1>3, Zenon DEF httpVars, vars, dbVars, memVars
  <2>2. SessionInv' BY <1>0, <2>1, Zenon DEF SessionInv
  <2> QED BY <2>1, <2>2, SessionAccounts, Zenon DEF Pushes
<1>4. CASE force_close(s) /\ UNCHANGED vars
  <2>1. UNCHANGED <<t_user, all_cached_users_, call>> BY <1>4 DEF vars, dbVars, memVars
  <2>2. /\ DOMAIN http' = Sessions /\ \A r \in Sessions \ {s} : http'[r] = http[r]
        /\ DOMAIN http'[s] = {"conn", "name", "reply"}
        /\ http'[s].conn = "closed" /\ http'[s].name = http[s].name /\ http'[s].reply = http[s].reply
    BY <1>0, <1>4 DEF SessionInv, force_close
  <2>3. \A t \in Threads : call'[t] = call[t] BY <2>1, Zenon
  <2>4. \A t \in Threads : call'[t].op = "register_user" =>
            /\ t \in Sessions /\ http'[t].conn = "busy"
            /\ call'[t].f = http'[t].name /\ call'[t].f \in Names
    <3> SUFFICES ASSUME NEW t \in Threads, call'[t].op = "register_user"
                 PROVE  /\ t \in Sessions /\ http'[t].conn = "busy"
                        /\ call'[t].f = http'[t].name /\ call'[t].f \in Names
      OBVIOUS
    <3>1. call'[t] = call[t] /\ t \in Sessions /\ http[t].conn = "busy"
      BY <1>0, <2>3 DEF SessionInv
    <3>2. http'[t] = http[t] BY <1>1, <2>2, <3>1, Zenon
    <3> QED BY <1>0, <3>1, <3>2, Zenon DEF SessionInv
  <2>5. ASSUME NEW r \in Sessions
        PROVE  /\ http'[r].conn # "closed" => Unanswered(http'[r])
               /\ DOMAIN http'[r] = {"conn", "name", "reply"}
    <3>1. CASE r = s BY <2>2, <3>1, Zenon
    <3>2. CASE r # s
      <4>1. http'[r] = http[r] BY <2>2, <3>2, Zenon
      <4> QED BY <1>0, <4>1, Zenon DEF SessionInv
    <3> QED BY <3>1, <3>2, Zenon
  <2>7. SessionInv' BY <2>2, <2>4, <2>5, Zenon DEF SessionInv
  <2>8. \A r \in Sessions : http'[r].name = http[r].name /\ http'[r].reply = http[r].reply BY <2>2, Zenon
  <2> QED BY <1>0, <2>1, <2>3, <2>7, <2>8, SessionAccounts, Zenon DEF Pushes
<1>5. ASSUME NEW c \in RegisterRequests, Call(s, c),
             http' = [http EXCEPT ![s].conn = "busy", ![s].name = c.f]
      PROVE  SessionInv' /\ ClaimInv' /\ KnownInv'
  <2>1. /\ call' = [call EXCEPT ![s] = c] /\ UNCHANGED <<t_user, all_cached_users_>>
    BY <1>5 DEF Call, dbVars, memVars
  <2>2. c.ret = "" /\ c.op = "register_user" /\ c.f \in Names /\ c.pc # "push"
    BY RequestFields, Zenon DEF Engaged
  <2>3. call'[s] = c /\ \A t \in Threads \ {s} : call'[t] = call[t] BY <1>0, <2>1, Zenon DEF Shape
  <2>4. /\ DOMAIN http' = Sessions /\ \A r \in Sessions \ {s} : http'[r] = http[r]
        /\ DOMAIN http'[s] = {"conn", "name", "reply"}
        /\ http'[s].conn = "busy" /\ http'[s].name = c.f /\ http'[s].reply = http[s].reply
    BY <1>0, <1>5, Zenon DEF SessionInv
  <2>5. SessionInv'
    <3>1. c.op = "register_user" /\ c.f \in Names BY <2>2, Zenon
    <3>2. Unanswered(http'[s]) BY <1>2, <2>4, Zenon DEF Unanswered
    <3>3. ASSUME NEW r \in Sessions
          PROVE  /\ http'[r].conn # "closed" => Unanswered(http'[r])
                 /\ DOMAIN http'[r] = {"conn", "name", "reply"}
      <4>1. CASE r = s BY <2>4, <3>2, <4>1, Zenon
      <4>2. CASE r # s
        <5>1. http'[r] = http[r] BY <2>4, <4>2, Zenon
        <5> QED BY <1>0, <5>1, Zenon DEF SessionInv
      <4> QED BY <4>1, <4>2, Zenon
    <3>4. ASSUME NEW t \in Threads, call'[t].op = "register_user"
          PROVE  /\ t \in Sessions /\ http'[t].conn = "busy"
                 /\ call'[t].f = http'[t].name /\ call'[t].f \in Names
      <4>1. CASE t = s BY <2>3, <2>4, <3>1, <4>1, Zenon
      <4>2. CASE t # s
        <5>1. call'[t] = call[t] BY <2>3, <4>2, Zenon
        <5>2. t \in Sessions /\ http[t].conn = "busy" /\ call[t].f = http[t].name /\ call[t].f \in Names
          BY <1>0, <3>4, <5>1, Zenon DEF SessionInv
        <5>3. http'[t] = http[t] BY <2>4, <4>2, <5>2, Zenon
        <5> QED BY <5>1, <5>2, <5>3, Zenon
      <4> QED BY <4>1, <4>2, Zenon
    <3> QED BY <2>4, <3>3, <3>4, Zenon DEF SessionInv
  <2>6. ASSUME NEW r \in Sessions
        PROVE  /\ \A v \in {"ok", "already"} : (http'[r].reply = v \/ call'[r].ret = v) =>
                      /\ http'[r].name = http[r].name
                      /\ http[r].reply = v \/ call[r].ret = v
               /\ Pushes(r, "register_user")' => http'[r].name = http[r].name
    <3>1. CASE r = s BY <1>2, <2>2, <2>3, <2>4, <3>1, Zenon DEF Pushes
    <3>2. CASE r # s BY <1>0, <2>3, <2>4, <3>2, Zenon
    <3> QED BY <3>1, <3>2, Zenon
  <2>7. \A t \in Threads : Pushes(t, "register_user")' => Pushes(t, "register_user") /\ call'[t] = call[t]
    BY <2>2, <2>3, Zenon DEF Pushes
  <2> QED BY <2>1, <2>5, <2>6, <2>7, SessionAccounts, Zenon
<1> QED BY <1>1, <1>3, <1>4, <1>5, Zenon

\* The answer is what register_user returned.
LEMMA ResponseAccounts ==
  ASSUME AccountInv, IdInv', NEW s \in Sessions, _on_register_response(s)
  PROVE  SessionInv' /\ ClaimInv' /\ KnownInv'
<1>0. Shape /\ SessionInv /\ Sessions \subseteq Threads BY SessionAssumption, Zenon DEF AccountInv, AgreeInv
<1>1. /\ s \in Threads /\ call[s].op = "none" /\ Moves(s)
      /\ call'[s].op = "none" /\ call'[s].ret = ""
      /\ UNCHANGED <<t_user, all_cached_users_>>
  BY <1>0, ResponseFields, Zenon
<1>2. http' = [http EXCEPT ![s].conn = "closed", ![s].reply = call[s].ret]
  BY Zenon DEF _on_register_response, Answer
<1>3. /\ DOMAIN http' = Sessions /\ \A r \in Sessions \ {s} : http'[r] = http[r]
      /\ DOMAIN http'[s] = {"conn", "name", "reply"}
      /\ http'[s].conn = "closed" /\ http'[s].name = http[s].name /\ http'[s].reply = call[s].ret
  BY <1>0, <1>2, Zenon DEF SessionInv
<1>4. \A t \in Threads \ {s} : call'[t] = call[t] BY <1>1, Zenon DEF Moves
<1>5. SessionInv'
  <2>1. ASSUME NEW t \in Threads, call'[t].op = "register_user"
        PROVE  /\ t \in Sessions /\ http'[t].conn = "busy"
               /\ call'[t].f = http'[t].name /\ call'[t].f \in Names
    <3>1. t # s BY <1>1, <2>1, Zenon
    <3>2. call'[t] = call[t] BY <1>4, <3>1, Zenon
    <3>3. t \in Sessions /\ http[t].conn = "busy" /\ call[t].f = http[t].name /\ call[t].f \in Names
      BY <1>0, <2>1, <3>2, Zenon DEF SessionInv
    <3>4. http'[t] = http[t] BY <1>3, <3>1, <3>3, Zenon
    <3> QED BY <3>2, <3>3, <3>4, Zenon
  <2>2. ASSUME NEW r \in Sessions
        PROVE  /\ http'[r].conn # "closed" => Unanswered(http'[r])
               /\ DOMAIN http'[r] = {"conn", "name", "reply"}
    <3>1. CASE r = s BY <1>3, <3>1, Zenon
    <3>2. CASE r # s
      <4>1. http'[r] = http[r] BY <1>3, <3>2, Zenon
      <4> QED BY <1>0, <4>1, Zenon DEF SessionInv
    <3> QED BY <3>1, <3>2, Zenon
  <2> QED BY <1>3, <2>1, <2>2, Zenon DEF SessionInv
<1>6. ASSUME NEW r \in Sessions
      PROVE  /\ \A v \in {"ok", "already"} : (http'[r].reply = v \/ call'[r].ret = v) =>
                    /\ http'[r].name = http[r].name
                    /\ http[r].reply = v \/ call[r].ret = v
             /\ Pushes(r, "register_user")' => http'[r].name = http[r].name
  <2>1. CASE r = s BY <1>1, <1>3, <2>1, Zenon DEF Pushes
  <2>2. CASE r # s BY <1>0, <1>3, <1>4, <2>2, Zenon
  <2> QED BY <2>1, <2>2, Zenon
<1>7. \A t \in Threads : Pushes(t, "register_user")' => Pushes(t, "register_user") /\ call'[t] = call[t]
  BY <1>1, <1>4, Zenon DEF Pushes
<1> QED BY <1>1, <1>5, <1>6, <1>7, SessionAccounts, Zenon

LEMMA AccountStep == Names \cap Nat = {} => (AccountInv /\ [HttpNext]_httpVars => AccountInv')
<1> SUFFICES ASSUME Names \cap Nat = {}, AccountInv, [HttpNext]_httpVars PROVE AccountInv' OBVIOUS
<1>0. AgreeInv /\ AgreeInv' /\ IdInv' BY HttpAgreeStep DEF AccountInv, AgreeInv
<1> DEFINE Goal == SessionInv' /\ ClaimInv' /\ KnownInv'
<1> SUFFICES Goal BY <1>0 DEF AccountInv
<1>1. CASE init /\ UNCHANGED http BY <1>0, <1>1, StartAccounts, Zenon
<1>2. CASE HttpCrash BY <1>0, <1>2, CrashAccounts, Zenon
<1>3. ASSUME NEW t \in Threads, Step(t), UNCHANGED http PROVE Goal BY <1>0, <1>3, StepAccounts, Zenon
<1>4. ASSUME NEW t \in Threads, NEW c \in ChatRequests, Call(t, c), UNCHANGED http PROVE Goal
  BY <1>0, <1>4, ChatAccounts, Zenon
<1>5. ASSUME NEW s \in Sessions, NEW len, NEW ends, on_read(s, len, ends) PROVE Goal
  BY <1>0, <1>5, ReadAccounts, Zenon
<1>6. ASSUME NEW s \in Sessions, _on_register_response(s) PROVE Goal
  BY <1>0, <1>6, ResponseAccounts, Zenon
<1>7. CASE UNCHANGED httpVars
  <2>1. UNCHANGED <<t_user, all_cached_users_, call, http>> BY <1>7, Zenon DEF httpVars, vars, dbVars, memVars
  <2>2. SessionInv' BY <2>1 DEF SessionInv, AccountInv
  <2> QED BY <1>0, <2>1, <2>2, SessionAccounts, Zenon DEF Pushes
<1> HIDE DEF Goal
<1> QED BY <1>1, <1>2, <1>3, <1>4, <1>5, <1>6, <1>7, Zenon DEF HttpNext

LEMMA InitAccounts == HttpInit => AccountInv
<1> SUFFICES ASSUME HttpInit PROVE AccountInv OBVIOUS
<1>1. AgreeInv BY InitIds, InitAgree, Zenon DEF HttpInit, AgreeInv
<1>2. /\ call = [t \in Threads |-> Idle("")] /\ all_cached_users_ = <<>>
      /\ http = [s \in Sessions |-> [conn |-> "open", name |-> 0, reply |-> ""]]
  BY Zenon DEF HttpInit, Init
<1>3. \A t \in Threads : call[t].op = "none" /\ call[t].ret = "" BY <1>2, Zenon DEF Idle, Request
<1>4. /\ DOMAIN http = Sessions
      /\ \A s \in Sessions : DOMAIN http[s] = {"conn", "name", "reply"} /\ http[s].reply = ""
  BY <1>2, Zenon
<1>5. Sessions \subseteq Threads BY SessionAssumption, Zenon
<1>6. SessionInv BY <1>3, <1>4, Zenon DEF SessionInv, Unanswered
<1>7. KnownInv BY <1>2, <1>3, <1>4, <1>5, EmptyList, Zenon DEF KnownInv, Pushes
<1>8. ClaimInv
  <2> SUFFICES ASSUME NEW n \in Names PROVE Cardinality(Claims(n)) <= Cardinality(Holders(n))
    BY DEF ClaimInv
  <2>1. Claims(n) = {} BY <1>3, <1>4, <1>5, Zenon DEF Claims, Pushes
  <2>2. Cardinality(Holders(n)) \in Nat BY <1>1, FiniteClaims DEF AgreeInv
  <2>3. Cardinality(Claims(n)) = 0 BY <2>1, FS_EmptySet, Zenon
  <2> QED BY <2>2, <2>3
<1> QED BY <1>1, <1>6, <1>7, <1>8, Zenon DEF AccountInv

LEMMA AccountsRegistered == AccountInv => Registered
<1> SUFFICES ASSUME AccountInv, NEW n \in Names
             PROVE  LET told(r) == {s \in Sessions : http[s].name = n /\ http[s].reply = r}
                        rows    == {id \in DOMAIN t_user : t_user[id].username = n}
                    IN /\ Cardinality(told("ok")) <= Cardinality(rows)
                       /\ told("already") # {} => rows # {}
  BY DEF Registered
<1> DEFINE told(r) == {s \in Sessions : http[s].name = n /\ http[s].reply = r}
           T == told("ok")
           C == Claims(n)
           H == Holders(n)
<1>1. T \in SUBSET C BY DEF Claims
<1>2. IdInv /\ ClaimInv /\ KnownInv BY DEF AccountInv, AgreeInv
<1>3. told("already") # {} => H # {} BY <1>2 DEF KnownInv
<1>4. IsFiniteSet(C) /\ Cardinality(C) \in Nat /\ Cardinality(H) \in Nat BY <1>2, FiniteClaims
<1>5. Cardinality(C) <= Cardinality(H) BY <1>2 DEF ClaimInv
<1>6. Cardinality(T) <= Cardinality(H)
  <2> HIDE DEF T, C, H
  <2>1. IsFiniteSet(T) /\ Cardinality(T) <= Cardinality(C) BY <1>1, <1>4, FS_Subset, Zenon
  <2>2. Cardinality(T) \in Nat BY <2>1, FS_CardinalityType
  <2> DEFINE c == Cardinality(C)
             d == Cardinality(T)
             h == Cardinality(H)
  <2>3. c \in Nat /\ d \in Nat /\ h \in Nat /\ d <= c /\ c <= h BY <1>4, <1>5, <2>1, <2>2, Zenon
  <2> HIDE DEF c, d, h
  <2>4. d <= h BY <2>3
  <2> QED BY <2>4 DEF d, h
<1> QED BY <1>3, <1>6, Zenon DEF Holders

\* For any sessions, chat threads, failing statements, crashes and restarts, as long as nobody
\* registers under a number (addGroup takes the number of a group for its name): every session
\* that was told "ok" has a row of t_user of its name, different sessions different rows, and
\* one that was told "registered already" has a row to be registered by.  It holds although
\* register_user decides from the cache, addUser reads the counter three times, and two
\* registrations may take one id: the second insertion is refused, and so is its session.
THEOREM RegisteredCorrect ==
  ASSUME Names \cap Nat = {}
  PROVE  HttpSpec => []Registered
<1>1. AccountInv /\ [HttpNext]_httpVars => AccountInv' BY AccountStep
<1> QED BY <1>1, InitAccounts, AccountsRegistered, PTL DEF HttpSpec
=============================================================================
