-------------------------- MODULE TcpServer_proofs --------------------------
(***************************************************************************)
(* The server uses the pool of io threads as the pool is meant to be used: *)
(* every behaviour of TcpServer is one of EventLoopThreadPool.  What the   *)
(* pool guarantees, for any number of threads, therefore holds for the     *)
(* loops that TcpServer::new_conn gives its connections to.  The second    *)
(* part follows a connection from new_conn to its destruction, whether     *)
(* remove_conn or stop takes it out of the map: conn_destroyed is queued   *)
(* for it once, on its own loop (DestroyedOnce).                           *)
(***************************************************************************)
EXTENDS TcpServer, TLAPS

(***************************************************************************)
(* The inductive invariant.  LoopsLive alone is not inductive: that the    *)
(* loops of the threads started so far stay alive rests on quit_, which    *)
(* only stop() sets, and that they were collected in order rests on cur.   *)
(***************************************************************************)
Running == {"enter", "loop"}

\* While the pool is being started: threads before cur run, cur is on its way, the
\* others have not begun; nothing was handed out.
Starting ==
    /\ cur \in 1 .. num_threads_ + 1
    /\ bpc = "wait" => cur \in Thread
    /\ loops_ = [i \in 1 .. (cur - 1) |-> i]
    /\ \A t \in Thread :
          /\ t < cur => tpc[t] \in Running
          /\ t = cur => tpc[t] \in IF bpc = "wait" THEN {"begin", "publish"} \cup Running ELSE {"none"}
          /\ t > cur => tpc[t] = "none"
    /\ next_ = 0 /\ \A t \in Thread : given[t] = 0

Serving ==
    /\ loops_ = [t \in Thread |-> t]
    /\ \A t \in Thread : tpc[t] \in Running
    /\ next_ \in Nat /\ (next_ = 0 \/ next_ < num_threads_)
    /\ \A s, t \in Thread :
          given[s] - given[t] = (IF s <= next_ THEN 1 ELSE 0) - (IF t <= next_ THEN 1 ELSE 0)

PoolInv ==
    /\ tpc \in [Thread -> {"none", "begin", "publish", "enter", "loop", "leave", "ended"}]
    /\ loop_ \in [Thread -> BOOLEAN] /\ quit_ \in [Thread -> BOOLEAN]
    /\ given \in [Thread -> Int]
    /\ bpc \in {"start", "wait", "serve"} => \A t \in Thread :
          ~quit_[t] /\ (loop_[t] => tpc[t] \in Running)
    /\ bpc \in {"start", "wait"} => Starting
    /\ bpc = "serve" => Serving

LEMMA InitPool == Init => PoolInv
BY PoolAssumption, SMT DEF Init, PoolInv, Starting, Thread, Running

\* A step of an io thread's function moves that thread on, and before stop() it can
\* neither leave loop() nor go back.
LEMMA ThreadPool == ASSUME NEW t \in Thread, PoolInv, ThreadStep(t) PROVE PoolInv'
<1> USE DEF Running
<1>1. CASE Begin(t)
  BY <1>1, SMT DEF PoolInv, Begin, Goto, Starting, Serving, Thread
<1>2. CASE Publish(t)
  BY <1>2, SMT DEF PoolInv, Publish, Goto, Starting, Serving, Thread
<1>3. CASE Enter(t)
  BY <1>3, SMT DEF PoolInv, Enter, Goto, Starting, Serving, Thread
<1>4. CASE Loop(t)
  BY <1>4, SMT DEF PoolInv, Loop, Goto, Starting, Serving, Thread
<1>5. CASE Leave(t)
  BY <1>5, SMT DEF PoolInv, Leave, Goto, Starting, Serving, Thread
<1> QED BY <1>1, <1>2, <1>3, <1>4, <1>5 DEF ThreadStep

\* start(): a thread is made, and its loop is collected once it is published.
LEMMA StartPool == ASSUME PoolInv, StartThread \/ WaitLoop PROVE PoolInv'
<1> USE PoolAssumption DEF Running
<1>1. CASE StartThread /\ cur \in Thread
  <2>1. /\ bpc = "start" /\ bpc' = "wait" /\ tpc' = [tpc EXCEPT ![cur] = "begin"] /\ cur' = cur
        /\ UNCHANGED <<loop_, quit_, loops_, next_, given>>
    BY <1>1 DEF StartThread
  <2>2. Starting BY <2>1 DEF PoolInv
  <2>3. /\ tpc' \in [Thread -> {"none", "begin", "publish", "enter", "loop", "leave", "ended"}]
        /\ tpc[cur] = "none" /\ tpc'[cur] = "begin" /\ \A t \in Thread \ {cur} : tpc'[t] = tpc[t]
    BY <1>1, <2>1, <2>2, SMT DEF PoolInv, Starting, Thread
  <2>4. Starting'
    <3>1. ASSUME NEW t \in Thread
          PROVE  /\ t < cur => tpc'[t] \in Running
                 /\ t = cur => tpc'[t] \in {"begin", "publish"} \cup Running
                 /\ t > cur => tpc'[t] = "none"
      <4>1. CASE t = cur BY <2>2, <2>3, <4>1, SMT DEF Starting, Thread
      <4>2. CASE t # cur BY <2>2, <2>3, <4>2, SMT DEF Starting, Thread
      <4> QED BY <4>1, <4>2
    <3> QED BY <1>1, <2>1, <2>2, <3>1 DEF Starting
  <2>5. \A t \in Thread : ~quit_'[t] /\ (loop_'[t] => tpc'[t] \in Running)
    BY <2>1, <2>3 DEF PoolInv
  <2> QED BY <2>1, <2>3, <2>4, <2>5 DEF PoolInv
<1>2. CASE StartThread /\ cur \notin Thread
  <2>1. /\ bpc' = "serve" /\ cur = num_threads_ + 1
        /\ UNCHANGED <<tpc, loop_, quit_, loops_, next_, given>>
    BY <1>2, SMT DEF PoolInv, StartThread, Starting, Thread
  <2>2. loops_ = [t \in Thread |-> t]
    BY <1>2, <2>1, SMT DEF PoolInv, StartThread, Starting, Thread
  <2>3. Serving'
    BY <1>2, <2>1, <2>2, SMT DEF PoolInv, StartThread, Starting, Serving, Thread
  <2> QED BY <1>2, <2>1, <2>3, SMT DEF PoolInv, StartThread
<1>3. CASE WaitLoop
  <2>1. loop_[cur] /\ cur \in Thread /\ tpc[cur] \in Running
    BY <1>3, SMT DEF PoolInv, WaitLoop, Ready, Starting, Thread
  <2>2. cur \in Nat \ {0} /\ cur' = cur + 1 /\ loops_ = [i \in 1 .. (cur - 1) |-> i]
    BY <1>3, SMT DEF PoolInv, WaitLoop, Starting
  <2>3. loops_ \in Seq(Nat) /\ Len(loops_) = cur - 1 BY <2>2, SMT
  <2>4. loops_' = Append(loops_, cur) BY <1>3, <2>1 DEF WaitLoop
  <2>5. loops_' = [i \in 1 .. (cur' - 1) |-> i]
    <3> DEFINE up == [i \in 1 .. cur |-> i]
    <3>1. up \in Seq(Nat) /\ Len(up) = cur BY <2>2, SMT
    <3>2. loops_' \in Seq(Nat) /\ Len(loops_') = cur BY <2>2, <2>3, <2>4, SMT
    <3>3. \A i \in 1 .. cur : loops_'[i] = up[i] BY <2>2, <2>3, <2>4, SMT
    <3>4. loops_' = up
      <4>1. loops_' = [i \in 1 .. cur |-> loops_'[i]] BY <3>2, SMT
      <4> QED BY <3>3, <4>1, Zenon
    <3> QED BY <2>2, <3>4, SMT
  <2>6. Starting'
    <3>1. /\ bpc' = "start" /\ cur' = cur + 1 /\ cur \in Thread
          /\ UNCHANGED <<tpc, next_, given>>
      BY <1>3, <2>1 DEF WaitLoop
    <3>2. cur' \in 1 .. num_threads_ + 1 BY <3>1, SMT DEF Thread
    <3>3. next_' = 0 /\ \A t \in Thread : given'[t] = 0
      BY <1>3, <3>1 DEF PoolInv, WaitLoop, Starting
    <3>4. ASSUME NEW t \in Thread
          PROVE  /\ t < cur' => tpc'[t] \in Running
                 /\ t = cur' => tpc'[t] = "none"
                 /\ t > cur' => tpc'[t] = "none"
      <4>1. /\ t < cur => tpc[t] \in Running
            /\ t > cur => tpc[t] = "none"
        BY <1>3 DEF PoolInv, WaitLoop, Starting
      <4> QED BY <4>1, <3>1, <2>1, SMT DEF Thread
    <3> QED BY <2>5, <3>1, <3>2, <3>3, <3>4 DEF Starting
  <2> QED BY <1>3, <2>6, SMT DEF PoolInv, WaitLoop
<1> QED BY <1>1, <1>2, <1>3

\* Handing out a loop moves next_ and keeps the loops balanced.
LEMMA NextLoopPool == ASSUME PoolInv, get_next_loop PROVE PoolInv'
<1> USE PoolAssumption
<1> DEFINE h == next_ + 1
<1>1. Serving BY SMT DEF PoolInv, get_next_loop
<1>2. h \in Thread /\ loops_[h] = h /\ Len(loops_) = num_threads_
  BY <1>1, SMT DEF Serving, get_next_loop, Thread
<1>3. next_' = IF h = num_threads_ THEN 0 ELSE h
  BY <1>2, SMT DEF get_next_loop, Wrap, Thread
<1>4. given' = [given EXCEPT ![h] = given[h] + 1]
  BY <1>2 DEF get_next_loop
<1>5. next_' \in Nat /\ (next_' = 0 \/ next_' < num_threads_)
  BY <1>2, <1>3, SMT DEF Thread
<1>6. ASSUME NEW s \in Thread, NEW t \in Thread
      PROVE given'[s] - given'[t] = (IF s <= next_' THEN 1 ELSE 0) - (IF t <= next_' THEN 1 ELSE 0)
  <2>1. given[s] \in Int /\ given[t] \in Int /\ given[h] \in Int
    BY <1>2, <1>6 DEF PoolInv
  <2>2. given[s] - given[t] = (IF s <= next_ THEN 1 ELSE 0) - (IF t <= next_ THEN 1 ELSE 0)
    BY <1>1, <1>6 DEF Serving
  <2>3. /\ given'[s] = IF s = h THEN given[s] + 1 ELSE given[s]
        /\ given'[t] = IF t = h THEN given[t] + 1 ELSE given[t]
    BY <1>2, <1>4, <1>6, SMT DEF PoolInv
  <2>4. /\ h = next_ + 1 /\ next_ \in Nat /\ s \in 1 .. num_threads_ /\ t \in 1 .. num_threads_
        /\ h <= num_threads_
    BY <1>1, <1>2, <1>6, SMT DEF Serving, Thread
  <2> DEFINE n == next_'
             gs == given'[s]
             gt == given'[t]
             a == given[s]
             b == given[t]
  <2>5. /\ n = IF h = num_threads_ THEN 0 ELSE h
        /\ a \in Int /\ b \in Int
        /\ a - b = (IF s <= next_ THEN 1 ELSE 0) - (IF t <= next_ THEN 1 ELSE 0)
        /\ gs = IF s = h THEN a + 1 ELSE a
        /\ gt = IF t = h THEN b + 1 ELSE b
    BY <1>3, <2>1, <2>2, <2>3
  <2> HIDE DEF h, n, gs, gt, a, b
  <2>6. gs - gt = (IF s <= n THEN 1 ELSE 0) - (IF t <= n THEN 1 ELSE 0)
    BY <2>4, <2>5, SMT
  <2> QED BY <2>6 DEF n, gs, gt
<1>7. given' \in [Thread -> Int]
  BY <1>2, <1>4, SMT DEF PoolInv
<1>8. Serving'
  BY <1>1, <1>5, <1>6, SMT DEF Serving, get_next_loop
<1> QED BY <1>7, <1>8, SMT DEF PoolInv, get_next_loop

\* Once stop() has begun, only the types are left to keep.
LEMMA StopPool ==
  ASSUME PoolInv, BeginStop \/ StopThread \/ Quit \/ Wakeup \/ Join
  PROVE  PoolInv'
<1>1. bpc' \notin {"start", "wait", "serve"} \/ (Join /\ bpc' = "stop")
  BY SMT DEF BeginStop, StopThread, Quit, Wakeup, Join
<1>2. quit_' \in [Thread -> BOOLEAN]
  <2>1. quit_' = quit_ \/ quit_' = [quit_ EXCEPT ![cur] = TRUE]
    BY DEF BeginStop, StopThread, Quit, SetQuit, Wakeup, Join
  <2> QED BY <2>1, Zenon DEF PoolInv
<1>3. UNCHANGED <<tpc, loop_, given>>
  BY DEF BeginStop, StopThread, Quit, Wakeup, Join
<1>4. bpc' \notin {"start", "wait", "serve"} BY <1>1
<1> QED BY <1>2, <1>3, <1>4 DEF PoolInv

LEMMA PoolInductive == Spec => []PoolInv
<1>1. PoolInv /\ [Next]_vars => PoolInv'
  <2>1. ASSUME PoolInv, UNCHANGED vars PROVE PoolInv'
    BY <2>1 DEF PoolInv, vars, Starting, Serving
  <2> QED BY <2>1, ThreadPool, StartPool, NextLoopPool, StopPool DEF Next, BaseStep
<1> QED BY <1>1, InitPool, PTL DEF Spec

(***************************************************************************)
(* Every connection is destroyed once.                                     *)
(***************************************************************************)
Entries == {"conn_established", "conn_destroyed"} \X Nat

Queued(q, op, c) == \E i \in 1 .. Len(q) : q[i] = <<op, c>>

\* In a loop's queue, no conn_destroyed is there twice or before its conn_established.
Ordered(q) ==
    \A i, j \in 1 .. Len(q) :
        q[j][1] = "conn_destroyed" /\ q[i][2] = q[j][2] => i <= j

\* A connection is in the map, or its conn_destroyed is queued on its loop, or has run;
\* one that is not yet established has its conn_established queued there, so that
\* conn_destroyed cannot come first.
Fate(c) ==
    /\ destroyed[c] \in {0, 1}
    /\ c \in conn_map_ => destroyed[c] = 0 /\ ~Queued(functors[conns[c]], "conn_destroyed", c)
    /\ c \notin conn_map_ => (destroyed[c] = 1 <=> ~Queued(functors[conns[c]], "conn_destroyed", c))
    /\ state_[c] = "kConnecting" =>
          destroyed[c] = 0 /\ Queued(functors[conns[c]], "conn_established", c)

FateInv ==
    /\ conns \in Seq(Thread) /\ conn_map_ \subseteq Conn
    /\ DOMAIN destroyed = Conn /\ destroyed \in Seq(Nat)
    /\ DOMAIN state_ = Conn /\ state_ \in Seq({"kConnecting", "kConnected", "kDisconnected"})
    /\ functors \in [Thread -> Seq(Entries)]
    /\ \A t \in Thread :
          /\ Ordered(functors[t])
          /\ \A i \in 1 .. Len(functors[t]) : functors[t][i][2] \in Conn /\ conns[functors[t][i][2]] = t
    /\ removes \in Seq(Nat) /\ \A i \in 1 .. Len(removes) : removes[i] \in Conn
    /\ \A c \in Conn : Fate(c)

LEMMA FateTypes ==
  ASSUME FateInv
  PROVE  /\ Len(conns) \in Nat /\ Conn = 1 .. Len(conns)
         /\ \A d \in Conn : d \in Nat /\ conns[d] \in Thread /\ Fate(d)
<1>1. conns \in Seq(Thread) BY DEF FateInv
<1>2. Len(conns) \in Nat /\ \A d \in 1 .. Len(conns) : d \in Nat /\ conns[d] \in Thread BY <1>1, SMT
<1>3. \A d \in Conn : Fate(d) BY DEF FateInv
<1> QED BY <1>2, <1>3 DEF Conn

LEMMA AppendQueue ==
  ASSUME NEW q \in Seq(Entries), NEW op \in {"conn_established", "conn_destroyed"}, NEW c \in Nat
  PROVE  LET r == Append(q, <<op, c>>)
         IN /\ r \in Seq(Entries)
            /\ \A o, d : Queued(r, o, d) <=> Queued(q, o, d) \/ (o = op /\ d = c)
            /\ Ordered(q) /\ ~Queued(q, "conn_destroyed", c) => Ordered(r)
            /\ \A i \in 1 .. Len(r) : r[i][2] = c \/ \E j \in 1 .. Len(q) : r[i][2] = q[j][2]
<1> DEFINE x == <<op, c>>
           r == Append(q, x)
           L == Len(q)
<1>1. x \in Entries /\ x[1] = op /\ x[2] = c BY DEF Entries
<1>2. /\ L \in Nat /\ r \in Seq(Entries) /\ Len(r) = L + 1 /\ r[L + 1] = x
      /\ \A i \in 1 .. L : r[i] = q[i] /\ q[i] \in Entries
  BY <1>1, SMT
<1>3. \A e \in Entries : \A o, d : e = <<o, d>> <=> e[1] = o /\ e[2] = d BY DEF Entries
<1>4. 1 .. Len(r) = 1 .. L \cup {L + 1} BY <1>2, SMT
<1> HIDE DEF r, L, x
<1>5. \A o, d : Queued(r, o, d) <=> Queued(q, o, d) \/ x = <<o, d>>
  BY <1>2, <1>4, Zenon DEF Queued, L
<1>6. ASSUME Ordered(q), ~Queued(q, "conn_destroyed", c) PROVE Ordered(r)
  <2> SUFFICES ASSUME NEW i \in 1 .. L + 1, NEW j \in 1 .. L + 1,
                      r[j][1] = "conn_destroyed", r[i][2] = r[j][2]
               PROVE  i <= j
    BY <1>2 DEF Ordered
  <2>1. CASE i \in 1 .. L /\ j \in 1 .. L BY <1>2, <1>6, <2>1 DEF Ordered, L
  <2>2. CASE j = L + 1 BY <1>2, <2>2, SMT
  <2>3. CASE i = L + 1 /\ j \in 1 .. L
    <3>1. q[j] \in Entries /\ q[j][1] = "conn_destroyed" /\ q[j][2] = c BY <1>1, <1>2, <2>3
    <3>2. q[j] = <<"conn_destroyed", c>> BY <3>1 DEF Entries
    <3> QED BY <1>6, <2>3, <3>2 DEF Queued, L
  <2> QED BY <1>2, <2>1, <2>2, <2>3, SMT
<1>7. \A i \in 1 .. Len(r) : r[i][2] = c \/ \E j \in 1 .. Len(q) : r[i][2] = q[j][2]
  BY <1>1, <1>2, <1>4, Zenon DEF L
<1>8. \A o, d : x = <<o, d>> <=> o = op /\ d = c BY <1>1, <1>3
<1> QED BY <1>2, <1>5, <1>6, <1>7, <1>8, Zenon DEF r, x

LEMMA TailQueue ==
  ASSUME NEW q \in Seq(Entries), q # <<>>
  PROVE  /\ Tail(q) \in Seq(Entries) /\ Head(q) \in Entries /\ Head(q) = q[1] /\ 1 \in 1 .. Len(q)
         /\ \A o, d : Queued(q, o, d) <=> Queued(Tail(q), o, d) \/ Head(q) = <<o, d>>
         /\ Ordered(q) => Ordered(Tail(q))
         /\ Ordered(q) /\ Head(q)[1] = "conn_destroyed" => \A o : ~Queued(Tail(q), o, Head(q)[2])
         /\ \A i \in 1 .. Len(Tail(q)) : \E j \in 1 .. Len(q) : Tail(q)[i] = q[j]
<1> DEFINE r == Tail(q)
           L == Len(q)
           x == Head(q)
<1>1. /\ L \in Nat \ {0} /\ r \in Seq(Entries) /\ Len(r) = L - 1 /\ x = q[1] /\ x \in Entries
      /\ \A i \in 1 .. L - 1 : r[i] = q[i + 1] /\ i + 1 \in 1 .. L
  BY SMT
<1>2. 1 \in 1 .. L BY <1>1, SMT
<1>3. \A j \in 1 .. L : j = 1 \/ (j - 1 \in 1 .. L - 1 /\ r[j - 1] = q[j])
  <2> SUFFICES ASSUME NEW j \in 1 .. L, j # 1 PROVE j - 1 \in 1 .. L - 1 /\ r[j - 1] = q[j]
    OBVIOUS
  <2>1. j - 1 \in 1 .. L - 1 /\ (j - 1) + 1 = j BY <1>1, SMT
  <2> QED BY <1>1, <2>1
<1> HIDE DEF r, L, x
<1>4. \A o, d : Queued(q, o, d) <=> Queued(r, o, d) \/ x = <<o, d>>
  BY <1>1, <1>2, <1>3, Zenon DEF Queued, L
<1>5. ASSUME Ordered(q) PROVE Ordered(r)
  <2> SUFFICES ASSUME NEW i \in 1 .. L - 1, NEW j \in 1 .. L - 1,
                      r[j][1] = "conn_destroyed", r[i][2] = r[j][2]
               PROVE  i <= j
    BY <1>1 DEF Ordered
  <2>1. i + 1 <= j + 1 BY <1>1, <1>5, Zenon DEF Ordered, L
  <2> QED BY <1>1, <2>1, SMT
<1>6. ASSUME Ordered(q), x[1] = "conn_destroyed", NEW o, Queued(r, o, x[2]) PROVE FALSE
  <2>1. PICK i \in 1 .. L - 1 : r[i] = <<o, x[2]>> BY <1>1, <1>6, Zenon DEF Queued
  <2>2. q[i + 1][2] = q[1][2] /\ i + 1 \in 1 .. L BY <1>1, <2>1
  <2>3. i + 1 <= 1 BY <1>1, <1>2, <1>6, <2>2 DEF Ordered, L
  <2> QED BY <1>1, <2>3, SMT
<1>7. \A i \in 1 .. Len(r) : \E j \in 1 .. L : r[i] = q[j] BY <1>1
<1> QED BY <1>1, <1>2, <1>4, <1>5, <1>6, <1>7 DEF r, L, x

LEMMA ConcatQueue ==
  ASSUME NEW q \in Seq(Entries), NEW S \in SUBSET Nat, Cardinality(S) \in Nat,
         NEW ids \in Orders(S), Ordered(q),
         \A c \in S : ~Queued(q, "conn_destroyed", c)
  PROVE  LET r == q \o [i \in 1 .. Cardinality(S) |-> <<"conn_destroyed", ids[i]>>]
         IN /\ r \in Seq(Entries) /\ Ordered(r)
            /\ \A o, d : Queued(r, o, d) <=> Queued(q, o, d) \/ (o = "conn_destroyed" /\ d \in S)
            /\ \A i \in 1 .. Len(r) : r[i][2] \in S \/ \E j \in 1 .. Len(q) : r[i][2] = q[j][2]
<1> DEFINE n == Cardinality(S)
           e == [i \in 1 .. n |-> <<"conn_destroyed", ids[i]>>]
           r == q \o e
           L == Len(q)
<1>1. /\ \A i \in 1 .. n : ids[i] \in S
      /\ \A c \in S : \E i \in 1 .. n : ids[i] = c
      /\ \A i, j \in 1 .. n : ids[i] = ids[j] => i = j
  <2>1. ids \in [1 .. n -> S] BY DEF Orders
  <2>2. \A c \in S : \E i \in 1 .. n : ids[i] = c /\ \A j \in 1 .. n : ids[j] = c => j = i
    BY DEF Orders
  <2> QED BY <2>1, <2>2, Zenon
<1>2. \A i \in 1 .. n : e[i] = <<"conn_destroyed", ids[i]>> /\ e[i] \in Entries
  BY <1>1, Zenon DEF Entries
<1>3. e \in Seq(Entries) /\ Len(e) = n
  <2>1. e \in [1 .. n -> Entries] BY <1>2
  <2>2. n \in Nat OBVIOUS
  <2> HIDE DEF e, n
  <2> QED BY <2>1, <2>2, SMT
<1> HIDE DEF e, n
<1>4. /\ L \in Nat /\ n \in Nat /\ r \in Seq(Entries) /\ Len(r) = L + n
      /\ \A i \in 1 .. L : r[i] = q[i] /\ q[i] \in Entries
      /\ \A i \in 1 .. n : r[L + i] = e[i] /\ L + i \in 1 .. L + n
  BY <1>3, SMT
<1>5. \A k \in 1 .. L + n : k \in 1 .. L \/ (k - L \in 1 .. n /\ r[k] = e[k - L] /\ ~(k <= L))
  <2> SUFFICES ASSUME NEW k \in 1 .. L + n, k \notin 1 .. L
               PROVE  k - L \in 1 .. n /\ r[k] = e[k - L] /\ ~(k <= L)
    BY Zenon
  <2>1. k - L \in 1 .. n /\ L + (k - L) = k /\ ~(k <= L) BY <1>4, SMT
  <2> QED BY <1>4, <2>1
<1> HIDE DEF r, L
<1>6. \A o, d : Queued(r, o, d) <=> Queued(q, o, d) \/ (o = "conn_destroyed" /\ d \in S)
  <2> TAKE o, d
  <2>1. ASSUME Queued(r, o, d) PROVE Queued(q, o, d) \/ (o = "conn_destroyed" /\ d \in S)
    <3>1. PICK k \in 1 .. L + n : r[k] = <<o, d>> BY <1>4, <2>1, Zenon DEF Queued
    <3>2. CASE k \in 1 .. L BY <1>4, <3>1, <3>2, Zenon DEF Queued, L
    <3>3. CASE k - L \in 1 .. n /\ r[k] = e[k - L] BY <1>1, <1>2, <3>1, <3>3
    <3> QED BY <1>5, <3>2, <3>3
  <2>2. ASSUME Queued(q, o, d) PROVE Queued(r, o, d)
    <3>1. PICK k \in 1 .. L : q[k] = <<o, d>> BY <2>2 DEF Queued, L
    <3>2. k \in 1 .. L + n BY <1>4, SMT
    <3> QED BY <1>4, <3>1, <3>2, Zenon DEF Queued
  <2>3. ASSUME o = "conn_destroyed", d \in S PROVE Queued(r, o, d)
    <3>1. PICK i \in 1 .. n : ids[i] = d BY <1>1, <2>3
    <3> QED BY <1>2, <1>4, <2>3, <3>1, Zenon DEF Queued
  <2> QED BY <2>1, <2>2, <2>3
<1>7. \A i \in 1 .. Len(r) : r[i][2] \in S \/ \E j \in 1 .. Len(q) : r[i][2] = q[j][2]
  <2> SUFFICES ASSUME NEW k \in 1 .. L + n
               PROVE  r[k][2] \in S \/ \E j \in 1 .. L : r[k][2] = q[j][2]
    BY <1>4 DEF L
  <2>1. CASE k \in 1 .. L BY <1>4, <2>1
  <2>2. CASE k - L \in 1 .. n /\ r[k] = e[k - L] BY <1>1, <1>2, <2>2
  <2> QED BY <1>5, <2>1, <2>2
<1>8. Ordered(r)
  <2> SUFFICES ASSUME NEW i \in 1 .. L + n, NEW j \in 1 .. L + n,
                      r[j][1] = "conn_destroyed", r[i][2] = r[j][2]
               PROVE  i <= j
    BY <1>4 DEF Ordered
  <2>1. CASE i \in 1 .. L /\ j \in 1 .. L BY <1>4, <2>1 DEF Ordered, L
  <2>2. CASE i \in 1 .. L /\ j \notin 1 .. L BY <1>4, <2>2, SMT
  <2>3. CASE i \notin 1 .. L /\ j \in 1 .. L
    <3>1. r[i] = <<"conn_destroyed", ids[i - L]>> /\ ids[i - L] \in S BY <1>1, <1>2, <1>5, <2>3
    <3>2. q[j] = r[j] /\ q[j] \in Entries BY <1>4, <2>3
    <3>3. q[j] = <<"conn_destroyed", ids[i - L]>> BY <3>1, <3>2 DEF Entries
    <3> QED BY <2>3, <3>1, <3>3, Zenon DEF Queued, L
  <2>4. CASE i \notin 1 .. L /\ j \notin 1 .. L
    <3>1. ids[i - L] = ids[j - L] /\ i - L \in 1 .. n /\ j - L \in 1 .. n BY <1>2, <1>5, <2>4
    <3>2. i - L = j - L BY <1>1, <3>1
    <3> QED BY <1>4, <3>2, SMT
  <2> QED BY <2>1, <2>2, <2>3, <2>4
<1> QED BY <1>4, <1>6, <1>7, <1>8, Zenon DEF r, e, n

\* What the state of a connection rests on.
LEMMA SameFate ==
  ASSUME NEW c, Fate(c), conns'[c] = conns[c], destroyed'[c] = destroyed[c], state_'[c] = state_[c],
         c \in conn_map_' <=> c \in conn_map_,
         \A o : Queued(functors'[conns[c]], o, c) <=> Queued(functors[conns[c]], o, c)
  PROVE  Fate(c)'
BY DEF Fate

LEMMA SameConns == ASSUME FateInv, UNCHANGED connVars PROVE FateInv'
<1>1. UNCHANGED <<conns, conn_map_, state_, destroyed, functors, removes>> /\ Conn' = Conn
  BY DEF connVars, Conn
<1>2. ASSUME NEW c \in Conn PROVE Fate(c)'
  <2>1. Fate(c) BY DEF FateInv
  <2> QED BY <1>1, <2>1, SameFate
<1> QED BY <1>1, <1>2 DEF FateInv

\* The loop that new_conn gives the connection to is a thread's.
LEMMA NextIsThread == ASSUME PoolInv, get_next_loop PROVE loops_[next_ + 1] \in Thread
<1>1. Serving BY SMT DEF PoolInv, get_next_loop
<1> QED BY <1>1, PoolAssumption, SMT DEF Serving, get_next_loop, Thread

\* Queueing an entry changes the queue of one loop, and there the fate of one connection.
QueuedOne(t, op, c) ==
    /\ functors' \in [Thread -> Seq(Entries)]
    /\ \A u \in Thread : Ordered(functors'[u])
    /\ \A u \in Thread : \A o, d :
          Queued(functors'[u], o, d) <=> Queued(functors[u], o, d) \/ (u = t /\ o = op /\ d = c)
    /\ \A u \in Thread : \A i \in 1 .. Len(functors'[u]) :
          \/ u = t /\ functors'[u][i][2] = c
          \/ \E j \in 1 .. Len(functors[u]) : functors'[u][i][2] = functors[u][j][2]

LEMMA QueueOne ==
  ASSUME FateInv, NEW t \in Thread, NEW op \in {"conn_established", "conn_destroyed"}, NEW c \in Nat,
         functors' = Queue(functors, t, op, c), ~Queued(functors[t], "conn_destroyed", c)
  PROVE  QueuedOne(t, op, c)
<1> DEFINE r == Append(functors[t], <<op, c>>)
<1>1. functors \in [Thread -> Seq(Entries)] /\ \A u \in Thread : Ordered(functors[u]) BY DEF FateInv
<1>2. functors' = [functors EXCEPT ![t] = r] BY DEF Queue
<1>3. functors[t] \in Seq(Entries) BY <1>1
<1>4. /\ r \in Seq(Entries) /\ Ordered(r)
      /\ \A o, d : Queued(r, o, d) <=> Queued(functors[t], o, d) \/ (o = op /\ d = c)
      /\ \A i \in 1 .. Len(r) : r[i][2] = c \/ \E j \in 1 .. Len(functors[t]) : r[i][2] = functors[t][j][2]
  BY <1>1, <1>3, AppendQueue
<1> HIDE DEF r
<1>5. functors'[t] = r /\ \A u \in Thread \ {t} : functors'[u] = functors[u] BY <1>1, <1>2
<1>6. functors' \in [Thread -> Seq(Entries)] BY <1>1, <1>2, <1>4
<1>7. \A u \in Thread : Ordered(functors'[u]) BY <1>1, <1>4, <1>5
<1>8. ASSUME NEW u \in Thread, NEW o, NEW d
      PROVE  Queued(functors'[u], o, d) <=> Queued(functors[u], o, d) \/ (u = t /\ o = op /\ d = c)
  BY <1>4, <1>5
<1>9. ASSUME NEW u \in Thread, NEW i \in 1 .. Len(functors'[u])
      PROVE  \/ u = t /\ functors'[u][i][2] = c
             \/ \E j \in 1 .. Len(functors[u]) : functors'[u][i][2] = functors[u][j][2]
  <2>1. CASE u = t
    <3>1. functors'[u] = r /\ i \in 1 .. Len(r) BY <1>5, <1>9, <2>1
    <3>2. r[i][2] = c \/ \E j \in 1 .. Len(functors[t]) : r[i][2] = functors[t][j][2] BY <1>4, <3>1
    <3> QED BY <2>1, <3>1, <3>2, Zenon
  <2>2. CASE u # t
    <3>1. functors'[u] = functors[u] /\ i \in 1 .. Len(functors[u]) BY <1>5, <1>9, <2>2, Zenon
    <3> QED BY <3>1, Zenon
  <2> QED BY <2>1, <2>2
<1> QED BY <1>6, <1>7, <1>8, <1>9, Zenon DEF QueuedOne

\* new_conn: the new number is nobody's yet.
LEMMA NewFate == ASSUME FateInv, PoolInv, new_conn PROVE FateInv'
<1> DEFINE t == loops_[next_ + 1]
           n == Len(conns)
           c == n + 1
<1>1. t \in Thread BY NextIsThread DEF new_conn
<1>2. /\ conns \in Seq(Thread) /\ conn_map_ \subseteq Conn /\ Conn = 1 .. n /\ n \in Nat
      /\ DOMAIN destroyed = 1 .. n /\ destroyed \in Seq(Nat)
      /\ DOMAIN state_ = 1 .. n /\ state_ \in Seq({"kConnecting", "kConnected", "kDisconnected"})
      /\ removes' = removes
  <2>1. Conn = 1 .. n /\ n \in Nat BY FateTypes
  <2>2. removes' = removes BY DEF new_conn
  <2> HIDE DEF n
  <2> QED BY <2>1, <2>2 DEF FateInv
<1>3. /\ conns' = Append(conns, t) /\ conn_map_' = conn_map_ \cup {c}
      /\ state_' = Append(state_, "kConnecting") /\ destroyed' = Append(destroyed, 0)
      /\ functors' = Queue(functors, t, "conn_established", c)
  BY DEF new_conn
<1>4. c \in Nat /\ c \in 1 .. c /\ c \notin Conn /\ \A d \in Conn : d \in 1 .. c BY <1>2, SMT
<1> HIDE DEF t
<1>5. /\ conns' \in Seq(Thread) /\ conns'[c] = t /\ Conn' = 1 .. c
      /\ \A d \in Conn : conns'[d] = conns[d] /\ conns[d] \in Thread
  <2>1. Len(conns') = c /\ conns' \in Seq(Thread) BY <1>1, <1>2, <1>3, SMT
  <2>2. conns'[c] = t /\ \A d \in 1 .. n : conns'[d] = conns[d] /\ conns[d] \in Thread
    BY <1>1, <1>2, <1>3, SMT
  <2> QED BY <1>2, <2>1, <2>2 DEF Conn
<1>6. /\ destroyed' \in Seq(Nat) /\ DOMAIN destroyed' = 1 .. c /\ destroyed'[c] = 0
      /\ \A d \in Conn : destroyed'[d] = destroyed[d]
  <2>1. Len(destroyed) = n BY <1>2, SMT
  <2> QED BY <1>2, <1>3, <2>1, SMT
<1>7. /\ state_' \in Seq({"kConnecting", "kConnected", "kDisconnected"}) /\ DOMAIN state_' = 1 .. c
      /\ \A d \in Conn : state_'[d] = state_[d]
  <2>1. Len(state_) = n BY <1>2, SMT
  <2> QED BY <1>2, <1>3, <2>1, SMT
<1>8. \A u \in Thread : \A i \in 1 .. Len(functors[u]) :
         functors[u][i][2] \in Conn /\ conns[functors[u][i][2]] = u
  BY DEF FateInv
<1>9. \A u \in Thread : \A o : ~Queued(functors[u], o, c)
  BY <1>4, <1>8 DEF Queued
<1> HIDE DEF c, n
<1>10. /\ functors' \in [Thread -> Seq(Entries)]
       /\ \A u \in Thread : Ordered(functors'[u])
       /\ \A u \in Thread : \A o, d :
             Queued(functors'[u], o, d)
               <=> Queued(functors[u], o, d) \/ (u = t /\ o = "conn_established" /\ d = c)
       /\ \A u \in Thread : \A i \in 1 .. Len(functors'[u]) :
             \/ u = t /\ functors'[u][i][2] = c
             \/ \E j \in 1 .. Len(functors[u]) : functors'[u][i][2] = functors[u][j][2]
  <2>1. /\ functors' = Queue(functors, t, "conn_established", c)
        /\ ~Queued(functors[t], "conn_destroyed", c)
        /\ "conn_established" \in {"conn_established", "conn_destroyed"}
    BY <1>1, <1>3, <1>9, Zenon
  <2>2. QueuedOne(t, "conn_established", c) BY <1>1, <1>4, <2>1, QueueOne, Zenon
  <2> QED BY <2>2, Zenon DEF QueuedOne
<1>11. \A u \in Thread : \A i \in 1 .. Len(functors'[u]) :
         functors'[u][i][2] \in Conn' /\ conns'[functors'[u][i][2]] = u
  <2> TAKE u \in Thread
  <2> TAKE i \in 1 .. Len(functors'[u])
  <2>1. CASE u = t /\ functors'[u][i][2] = c BY <1>4, <1>5, <2>1
  <2>2. CASE \E j \in 1 .. Len(functors[u]) : functors'[u][i][2] = functors[u][j][2]
    <3>1. functors'[u][i][2] \in Conn /\ conns[functors'[u][i][2]] = u BY <1>8, <2>2
    <3> QED BY <1>4, <1>5, <3>1
  <2> QED BY <1>10, <2>1, <2>2
<1>12. ASSUME NEW d \in Conn PROVE Fate(d)'
  <2>1. Fate(d) /\ d # c BY <1>4 DEF FateInv
  <2>2. \A o : Queued(functors'[conns[d]], o, d) <=> Queued(functors[conns[d]], o, d)
    BY <1>5, <1>10, <2>1
  <2> QED BY <1>3, <1>5, <1>6, <1>7, <2>1, <2>2, SameFate, Zenon
<1>13. ASSUME NEW d, d = c PROVE Fate(d)'
  <2>1. \A o : Queued(functors'[t], o, d) <=> Queued(functors[t], o, d) \/ o = "conn_established"
    BY <1>1, <1>10, <1>13
  <2>2. ~Queued(functors'[t], "conn_destroyed", d) /\ Queued(functors'[t], "conn_established", d)
    BY <1>1, <1>9, <1>13, <2>1
  <2>3. d \in conn_map_' /\ destroyed'[d] = 0 /\ conns'[d] = t BY <1>3, <1>5, <1>6, <1>13, Zenon
  <2> QED BY <2>2, <2>3 DEF Fate
<1>14. \A d \in Conn' : Fate(d)'
  <2>1. \A d \in Conn' : d \in Conn \/ d = c BY <1>2, <1>4, <1>5, SMT DEF c
  <2> QED BY <1>12, <1>13, <2>1
<1>15. conn_map_' \subseteq Conn' /\ \A i \in 1 .. Len(removes') : removes'[i] \in Conn'
  <2>1. c \in Conn' /\ Conn \subseteq Conn' BY <1>4, <1>5
  <2>2. removes \in Seq(Nat) /\ \A i \in 1 .. Len(removes) : removes[i] \in Conn BY DEF FateInv
  <2> QED BY <1>2, <1>3, <2>1, <2>2, Zenon
<1>16. removes' \in Seq(Nat) BY <1>2 DEF FateInv
<1>17. DOMAIN destroyed' = Conn' /\ DOMAIN state_' = Conn' BY <1>5, <1>6, <1>7
<1> QED BY <1>5, <1>6, <1>7, <1>10, <1>11, <1>14, <1>15, <1>16, <1>17 DEF FateInv

States == {"kConnecting", "kConnected", "kDisconnected"}

\* state_ and removes change: a connection that is closed is not one that waits for its
\* conn_established.
LEMMA CloseFate ==
  ASSUME FateInv, NEW c \in Conn,
         \/ HandleClose(c)
         \/ state_' = [state_ EXCEPT ![c] = "kConnected"] /\ UNCHANGED removes
  PROVE  /\ DOMAIN state_' = Conn /\ state_' \in Seq(States)
         /\ state_'[c] # "kConnecting"
         /\ \A d \in Conn \ {c} : state_'[d] = state_[d]
         /\ removes' \in Seq(Nat) /\ \A i \in 1 .. Len(removes') : removes'[i] \in Conn
<1>1. /\ state_ \in Seq(States) /\ DOMAIN state_ = Conn /\ Conn = 1 .. Len(conns) /\ Len(conns) \in Nat
      /\ removes \in Seq(Nat) /\ \A i \in 1 .. Len(removes) : removes[i] \in Conn
  BY SMT DEF FateInv, Conn, States
<1>2. PICK x \in {"kConnected", "kDisconnected"} : state_' = [state_ EXCEPT ![c] = x]
  BY DEF HandleClose
<1>3. /\ DOMAIN state_' = Conn /\ state_'[c] = x
      /\ \A d \in Conn \ {c} : state_'[d] = state_[d]
  BY <1>1, <1>2
<1>4. state_' \in Seq(States)
  <2>1. Len(state_) \in Nat /\ DOMAIN state_ = 1 .. Len(state_) /\ \A d \in Conn : state_[d] \in States
    BY <1>1, SMT
  <2>2. state_' \in [1 .. Len(state_) -> States] BY <1>1, <1>2, <2>1 DEF States
  <2> QED BY <2>1, <2>2, SMT
<1>5. removes' \in Seq(Nat) /\ \A i \in 1 .. Len(removes') : removes'[i] \in Conn
  <2>1. CASE removes' = removes BY <1>1, <2>1
  <2>2. CASE removes' = Append(removes, c)
    <3>1. c \in Nat BY <1>1, SMT
    <3>2. /\ removes' \in Seq(Nat) /\ Len(removes') = Len(removes) + 1 /\ Len(removes) \in Nat
          /\ removes'[Len(removes) + 1] = c
          /\ \A i \in 1 .. Len(removes) : removes'[i] = removes[i]
      BY <1>1, <2>2, <3>1, SMT
    <3>3. \A i \in 1 .. Len(removes') : i \in 1 .. Len(removes) \/ i = Len(removes) + 1 BY <3>2, SMT
    <3> QED BY <1>1, <3>2, <3>3, Zenon
  <2> QED BY <2>1, <2>2 DEF HandleClose
<1> QED BY <1>3, <1>4, <1>5

\* Nothing else about a connection changes when its loop closes it.
LEMMA ClosedFate ==
  ASSUME FateInv, NEW c \in Conn, Close(c)
  PROVE  FateInv'
<1>1. /\ DOMAIN state_' = Conn /\ state_' \in Seq(States)
      /\ state_'[c] # "kConnecting"
      /\ \A d \in Conn \ {c} : state_'[d] = state_[d]
      /\ removes' \in Seq(Nat) /\ \A i \in 1 .. Len(removes') : removes'[i] \in Conn
  BY CloseFate DEF Close
<1>2. UNCHANGED <<conns, conn_map_, destroyed, functors>> /\ Conn' = Conn BY Zenon DEF Close, Conn
<1>3. ASSUME NEW d \in Conn PROVE Fate(d)'
  <2>1. Fate(d) BY DEF FateInv
  <2>2. state_'[d] = "kConnecting" => state_[d] = "kConnecting" BY <1>1
  <2> QED BY <1>2, <2>1, <2>2 DEF Fate
<1> QED BY <1>1, <1>2, <1>3, Zenon DEF FateInv, States

\* A loop takes its first functor off: the queue of the loop without its head.
LEMMA TakeFunctor ==
  ASSUME FateInv, NEW t \in Thread, functors[t] # <<>>, functors' = [functors EXCEPT ![t] = Tail(@)],
         Conn' = Conn, UNCHANGED conns
  PROVE  /\ Functor(t) \in Entries /\ Functor(t)[2] \in Conn /\ conns[Functor(t)[2]] = t
         /\ functors' \in [Thread -> Seq(Entries)]
         /\ \A u \in Thread :
               /\ Ordered(functors'[u])
               /\ \A i \in 1 .. Len(functors'[u]) :
                     functors'[u][i][2] \in Conn' /\ conns'[functors'[u][i][2]] = u
         /\ \A u \in Thread : \A o, d :
               Queued(functors[u], o, d)
                 <=> Queued(functors'[u], o, d) \/ (u = t /\ Functor(t) = <<o, d>>)
         /\ Functor(t)[1] = "conn_destroyed" => \A o : ~Queued(functors'[t], o, Functor(t)[2])
<1> DEFINE q == functors[t]
           r == Tail(q)
<1>1. /\ functors \in [Thread -> Seq(Entries)] /\ q \in Seq(Entries) /\ Ordered(q)
      /\ \A u \in Thread : Ordered(functors[u])
      /\ \A u \in Thread : \A i \in 1 .. Len(functors[u]) :
            functors[u][i][2] \in Conn /\ conns[functors[u][i][2]] = u
  BY DEF FateInv
<1>2. /\ r \in Seq(Entries) /\ Head(q) \in Entries /\ Head(q) = q[1] /\ 1 \in 1 .. Len(q)
      /\ \A o, d : Queued(q, o, d) <=> Queued(r, o, d) \/ Head(q) = <<o, d>>
      /\ Ordered(r)
      /\ Head(q)[1] = "conn_destroyed" => \A o : ~Queued(r, o, Head(q)[2])
      /\ \A i \in 1 .. Len(r) : \E j \in 1 .. Len(q) : r[i] = q[j]
  BY <1>1, TailQueue, Zenon
<1>3. functors'[t] = r /\ \A u \in Thread \ {t} : functors'[u] = functors[u] BY <1>1
<1>4. functors' \in [Thread -> Seq(Entries)] BY <1>1, <1>2
<1> HIDE DEF r
<1>5. Functor(t) \in Entries /\ Functor(t)[2] \in Conn /\ conns[Functor(t)[2]] = t
  BY <1>1, <1>2 DEF Functor
<1>6. ASSUME NEW u \in Thread
      PROVE  /\ Ordered(functors'[u])
             /\ \A i \in 1 .. Len(functors'[u]) :
                   functors'[u][i][2] \in Conn' /\ conns'[functors'[u][i][2]] = u
  <2>1. CASE u = t
    <3>1. functors'[u] = r BY <1>3, <2>1
    <3>2. \A i \in 1 .. Len(r) : r[i][2] \in Conn /\ conns[r[i][2]] = t BY <1>1, <1>2
    <3> QED BY <1>2, <2>1, <3>1, <3>2, Zenon
  <2>2. CASE u # t BY <1>1, <1>3, <2>2
  <2> QED BY <2>1, <2>2, Zenon
<1>7. ASSUME NEW u \in Thread, NEW o, NEW d
      PROVE  Queued(functors[u], o, d)
               <=> Queued(functors'[u], o, d) \/ (u = t /\ Functor(t) = <<o, d>>)
  BY <1>2, <1>3, Zenon DEF Functor
<1>8. Functor(t)[1] = "conn_destroyed" => \A o : ~Queued(functors'[t], o, Functor(t)[2])
  BY <1>2, <1>3, Zenon DEF Functor
<1> QED BY <1>4, <1>5, <1>6, <1>7, <1>8, Zenon

\* A loop runs conn_established or conn_destroyed.
LEMMA FunctorFate ==
  ASSUME FateInv, NEW t \in Thread, RunFunctor(t)
  PROVE  FateInv'
<1> DEFINE c == Functor(t)[2]
<1>1. /\ UNCHANGED <<conns, conn_map_>> /\ Conn' = Conn /\ functors[t] # <<>>
      /\ functors' = [functors EXCEPT ![t] = Tail(@)]
  BY DEF RunFunctor, Conn
<1>2. /\ Functor(t) \in Entries /\ c \in Conn /\ conns[c] = t
      /\ functors' \in [Thread -> Seq(Entries)]
      /\ \A u \in Thread :
            /\ Ordered(functors'[u])
            /\ \A i \in 1 .. Len(functors'[u]) :
                  functors'[u][i][2] \in Conn' /\ conns'[functors'[u][i][2]] = u
      /\ \A u \in Thread : \A o, d :
            Queued(functors[u], o, d)
              <=> Queued(functors'[u], o, d) \/ (u = t /\ Functor(t) = <<o, d>>)
      /\ Functor(t)[1] = "conn_destroyed" => \A o : ~Queued(functors'[t], o, c)
  BY <1>1, TakeFunctor, Zenon
<1>3. /\ state_ \in Seq(States) /\ DOMAIN state_ = Conn /\ destroyed \in Seq(Nat)
      /\ DOMAIN destroyed = Conn /\ \A d \in Conn : conns[d] \in Thread /\ Fate(d)
      /\ removes \in Seq(Nat) /\ \A i \in 1 .. Len(removes) : removes[i] \in Conn
      /\ conns \in Seq(Thread) /\ conn_map_ \subseteq Conn
  <2>1. \A d \in Conn : conns[d] \in Thread /\ Fate(d) BY FateTypes, Zenon
  <2> QED BY <2>1, Zenon DEF FateInv, States
<1>4. \A o, d : Functor(t) = <<o, d>> <=> Functor(t)[1] = o /\ c = d BY <1>2 DEF Entries
<1> HIDE DEF c
<1>10. \A u \in Thread : \A o, d :
          Queued(functors[u], o, d)
            <=> Queued(functors'[u], o, d) \/ (u = t /\ Functor(t) = <<o, d>>)
  BY <1>2
<1>5. ASSUME NEW d \in Conn, d # c
      PROVE  \A o : Queued(functors'[conns[d]], o, d) <=> Queued(functors[conns[d]], o, d)
  <2> TAKE o
  <2>1. conns[d] \in Thread /\ Functor(t) # <<o, d>> BY <1>3, <1>4, <1>5, Zenon
  <2> QED BY <1>10, <2>1
<1>9. ASSUME NEW d, d = c
      PROVE  \A o : Queued(functors[t], o, d) <=> Queued(functors'[t], o, d) \/ Functor(t)[1] = o
  <2> TAKE o
  <2>1. Functor(t) = <<o, d>> <=> Functor(t)[1] = o BY <1>4, <1>9
  <2> QED BY <1>10, <2>1
<1>6. ASSUME DOMAIN state_' = Conn, state_' \in Seq(States),
             DOMAIN destroyed' = Conn, destroyed' \in Seq(Nat),
             \A d \in Conn \ {c} : state_'[d] = state_[d] /\ destroyed'[d] = destroyed[d],
             removes' \in Seq(Nat), \A i \in 1 .. Len(removes') : removes'[i] \in Conn,
             \A d : d = c => Fate(d)'
      PROVE  FateInv'
  <2>1. ASSUME NEW d \in Conn PROVE Fate(d)'
    <3>1. CASE d = c BY <1>6, <3>1
    <3>2. CASE d # c BY <1>1, <1>3, <1>5, <1>6, <3>2, SameFate, Zenon
    <3> QED BY <3>1, <3>2
  <2> QED BY <1>1, <1>2, <1>3, <1>6, <2>1, Zenon DEF FateInv, States
<1>7. CASE Functor(t)[1] = "conn_established"
  <2>1. Established(c) /\ UNCHANGED destroyed BY <1>7, Zenon DEF RunFunctor, c
  <2>2. /\ DOMAIN state_' = Conn /\ state_' \in Seq(States)
        /\ state_'[c] # "kConnecting"
        /\ \A d \in Conn \ {c} : state_'[d] = state_[d]
        /\ removes' \in Seq(Nat) /\ \A i \in 1 .. Len(removes') : removes'[i] \in Conn
    <3>1. CASE state_[c] # "kConnecting" BY <1>3, <2>1, <3>1 DEF Established
    <3>2. CASE state_[c] = "kConnecting" BY <1>2, <2>1, <3>2, CloseFate, Zenon DEF Established
    <3> QED BY <3>1, <3>2, Zenon
  <2>3. ASSUME NEW d, d = c PROVE Fate(d)'
    <3>1. Fate(d) /\ conns[d] = t /\ state_'[d] # "kConnecting" BY <1>2, <1>3, <2>2, <2>3, Zenon
    <3>2. Queued(functors[t], "conn_destroyed", d) <=> Queued(functors'[t], "conn_destroyed", d)
      BY <1>7, <1>9, <2>3
    <3> QED BY <1>1, <2>1, <3>1, <3>2 DEF Fate
  <2> QED BY <1>3, <1>6, <2>1, <2>2, <2>3, Zenon
<1>8. CASE Functor(t)[1] = "conn_destroyed"
  <2>1. /\ state_' = [state_ EXCEPT ![c] = IF @ = "kConnected" THEN "kDisconnected" ELSE @]
        /\ destroyed' = [destroyed EXCEPT ![c] = @ + 1]
        /\ removes' = removes
    BY <1>8, Zenon DEF RunFunctor, c
  <2>2. Queued(functors[t], "conn_destroyed", c) /\ \A o : ~Queued(functors'[t], o, c)
    BY <1>2, <1>8, <1>9, Zenon
  <2>3. c \notin conn_map_ /\ destroyed[c] = 0
    <3>1. Fate(c) BY <1>2, <1>3
    <3> QED BY <1>2, <2>2, <3>1, Zenon DEF Fate
  <2>4. state_[c] # "kConnecting"
    <3>1. ASSUME state_[c] = "kConnecting" PROVE FALSE
      <4>1. Queued(functors[t], "conn_established", c) BY <1>2, <1>3, <3>1, Zenon DEF Fate
      <4> QED BY <1>8, <1>9, <2>2, <4>1
    <3> QED BY <3>1
  <2>5. /\ DOMAIN state_' = Conn /\ state_'[c] # "kConnecting"
        /\ \A d \in Conn \ {c} : state_'[d] = state_[d]
    BY <1>2, <1>3, <2>1, <2>4, Zenon
  <2>6. /\ DOMAIN destroyed' = Conn /\ destroyed'[c] = 1
        /\ \A d \in Conn \ {c} : destroyed'[d] = destroyed[d]
    <3>1. destroyed[c] + 1 = 1 BY <2>3, SMT
    <3> QED BY <1>2, <1>3, <2>1, <3>1
  <2>7. state_' \in Seq(States) /\ destroyed' \in Seq(Nat)
    <3>1. /\ Len(state_) \in Nat /\ Conn = 1 .. Len(state_) /\ \A d \in Conn : state_[d] \in States
          /\ Len(destroyed) \in Nat /\ Conn = 1 .. Len(destroyed) /\ \A d \in Conn : destroyed[d] \in Nat
      BY <1>3, SMT
    <3>2. state_' \in [1 .. Len(state_) -> States] BY <1>3, <2>1, <3>1, Zenon DEF States
    <3>3. destroyed' \in [1 .. Len(destroyed) -> Nat]
      <4>1. \A d \in Conn : destroyed'[d] \in Nat BY <2>6, <3>1
      <4>2. destroyed' = [d \in Conn |-> destroyed'[d]] BY <1>3, <2>1, Zenon
      <4> QED BY <3>1, <4>1, <4>2
    <3>4. state_' \in Seq(States) BY <3>1, <3>2, SMT
    <3>5. destroyed' \in Seq(Nat) BY <3>1, <3>3, SMT
    <3> QED BY <3>4, <3>5
  <2>8. ASSUME NEW d, d = c PROVE Fate(d)'
    BY <1>1, <1>2, <2>2, <2>3, <2>5, <2>6, <2>8 DEF Fate
  <2> QED BY <1>3, <1>6, <2>1, <2>5, <2>6, <2>7, <2>8, Zenon
<1> QED BY <1>7, <1>8 DEF RunFunctor

\* The base loop takes a connection out of the map and has its loop destroy it; one that
\* is not in the map any more was destroyed by another way.
LEMMA RemoveFate ==
  ASSUME FateInv, remove_conn_in_loop
  PROVE  FateInv'
<1> DEFINE c == Head(removes)
<1>1. /\ removes \in Seq(Nat) /\ removes # <<>> /\ removes' = Tail(removes)
      /\ \A i \in 1 .. Len(removes) : removes[i] \in Conn
      /\ UNCHANGED <<conns, state_, destroyed>> /\ Conn' = Conn
  BY Zenon DEF FateInv, remove_conn_in_loop, Conn
<1>2. /\ Tail(removes) \in Seq(Nat) /\ Len(removes) \in Nat \ {0} /\ c = removes[1]
      /\ Len(Tail(removes)) = Len(removes) - 1
      /\ \A i \in 1 .. Len(removes) - 1 : Tail(removes)[i] = removes[i + 1] /\ i + 1 \in 1 .. Len(removes)
      /\ 1 \in 1 .. Len(removes)
  BY <1>1, SMT
<1>3. removes' \in Seq(Nat) /\ \A i \in 1 .. Len(removes') : removes'[i] \in Conn
  BY <1>1, <1>2
<1>4. c \in Conn BY <1>1, <1>2, Zenon
<1>5. CASE c \notin conn_map_
  <2>1. UNCHANGED <<conn_map_, functors>> BY <1>5, Zenon DEF remove_conn_in_loop
  <2>2. ASSUME NEW d \in Conn PROVE Fate(d)'
    <3>1. Fate(d) BY DEF FateInv
    <3> QED BY <1>1, <2>1, <3>1, SameFate
  <2> QED BY <1>1, <1>3, <2>1, <2>2 DEF FateInv
<1>6. CASE c \in conn_map_
  <2> DEFINE t == conns[c]
  <2>1. /\ conn_map_' = conn_map_ \ {c}
        /\ functors' = Queue(functors, t, "conn_destroyed", c)
    BY <1>6 DEF remove_conn_in_loop, Erase, QueueDestroyed
  <2>2. c \in Nat /\ \A d \in Conn : conns[d] \in Thread BY <1>4, FateTypes
  <2>3. ~Queued(functors[t], "conn_destroyed", c) /\ destroyed[c] = 0
    BY <1>4, <1>6, Zenon DEF FateInv, Fate
  <2>4. t \in Thread /\ "conn_destroyed" \in {"conn_established", "conn_destroyed"} BY <1>4, <2>2
  <2> DEFINE op == "conn_destroyed"
  <2> HIDE DEF c, t
  <2>5. /\ functors' \in [Thread -> Seq(Entries)]
        /\ \A u \in Thread : Ordered(functors'[u])
        /\ \A u \in Thread : \A o, d :
              Queued(functors'[u], o, d)
                <=> Queued(functors[u], o, d) \/ (u = t /\ o = "conn_destroyed" /\ d = c)
        /\ \A u \in Thread : \A i \in 1 .. Len(functors'[u]) :
              \/ u = t /\ functors'[u][i][2] = c
              \/ \E j \in 1 .. Len(functors[u]) : functors'[u][i][2] = functors[u][j][2]
    <3>1. c \in Nat /\ t \in Thread BY <2>2, <2>4
    <3>2. /\ op \in {"conn_established", "conn_destroyed"} /\ functors' = Queue(functors, t, op, c)
          /\ ~Queued(functors[t], "conn_destroyed", c)
      BY <2>1, <2>3
    <3> HIDE DEF op
    <3>3. QueuedOne(t, op, c) BY <3>1, <3>2, QueueOne, Zenon
    <3> QED BY <3>3, Zenon DEF op, QueuedOne
  <2>6. \A u \in Thread : \A o, d :
           Queued(functors'[u], o, d)
             <=> Queued(functors[u], o, d) \/ (u = t /\ o = "conn_destroyed" /\ d = c)
    BY <2>5, Zenon
  <2>7. ASSUME NEW u \in Thread, NEW i \in 1 .. Len(functors'[u])
        PROVE  functors'[u][i][2] \in Conn' /\ conns'[functors'[u][i][2]] = u
    <3>1. CASE u = t /\ functors'[u][i][2] = c BY <1>1, <1>4, <3>1 DEF t
    <3>2. CASE \E j \in 1 .. Len(functors[u]) : functors'[u][i][2] = functors[u][j][2]
      <4>1. \A j \in 1 .. Len(functors[u]) :
               functors[u][j][2] \in Conn /\ conns[functors[u][j][2]] = u
        BY Zenon DEF FateInv
      <4> QED BY <1>1, <3>2, <4>1, Zenon
    <3> QED BY <2>5, <3>1, <3>2
  <2>8. ASSUME NEW d \in Conn, d # c PROVE Fate(d)'
    <3>1. Fate(d) BY DEF FateInv
    <3>2. ASSUME NEW o PROVE Queued(functors'[conns[d]], o, d) <=> Queued(functors[conns[d]], o, d)
      <4>1. conns[d] \in Thread BY <2>2, Zenon
      <4> QED BY <2>6, <2>8, <4>1
    <3> QED BY <1>1, <2>1, <2>8, <3>1, <3>2, SameFate, Zenon
  <2>9. ASSUME NEW d, d = c PROVE Fate(d)'
    <3>1. \A o : Queued(functors'[t], o, d) <=> Queued(functors[t], o, d) \/ o = "conn_destroyed"
      BY <2>4, <2>6, <2>9
    <3>2. Fate(d) /\ conns'[d] = t /\ conns[d] = t BY <1>1, <1>4, <2>9 DEF FateInv, t
    <3> QED BY <1>1, <2>1, <2>3, <2>9, <3>1, <3>2 DEF Fate
  <2>10. \A d \in Conn : Fate(d)' BY <2>8, <2>9
  <2> QED BY <1>1, <1>3, <2>1, <2>5, <2>7, <2>10, Zenon DEF FateInv
<1> QED BY <1>5, <1>6, Zenon

INSTANCE FiniteSetTheorems

\* stop() has the loops destroy all that are in the map.
LEMMA StopFate ==
  ASSUME FateInv, stop
  PROVE  FateInv'
<1>1. UNCHANGED <<conns, state_, destroyed, removes>> /\ Conn' = Conn /\ conn_map_' = {}
  BY DEF stop, Conn
<1>2. PICK ids : /\ \A t \in Thread : ids[t] \in Orders(OnLoop(t))
                 /\ functors' = [t \in Thread |->
                       functors[t] \o [i \in 1 .. Cardinality(OnLoop(t)) |->
                                         <<"conn_destroyed", ids[t][i]>>]]
  BY Zenon DEF stop
<1>3. /\ functors \in [Thread -> Seq(Entries)] /\ conn_map_ \subseteq Conn /\ conns \in Seq(Thread)
      /\ \A d \in Conn : Fate(d) /\ conns[d] \in Thread /\ d \in Nat
  <2>1. \A d \in Conn : Fate(d) /\ conns[d] \in Thread /\ d \in Nat BY FateTypes, Zenon
  <2> QED BY <2>1, Zenon DEF FateInv
<1>4. ASSUME NEW t \in Thread
      PROVE  /\ functors'[t] \in Seq(Entries) /\ Ordered(functors'[t])
             /\ \A o, d : Queued(functors'[t], o, d)
                   <=> Queued(functors[t], o, d) \/ (o = "conn_destroyed" /\ d \in OnLoop(t))
             /\ \A i \in 1 .. Len(functors'[t]) :
                   functors'[t][i][2] \in Conn /\ conns[functors'[t][i][2]] = t
  <2> DEFINE S == OnLoop(t)
             q == functors[t]
             order == ids[t]
             r == q \o [i \in 1 .. Cardinality(S) |-> <<"conn_destroyed", order[i]>>]
  <2>1. S \subseteq Conn /\ S \in SUBSET Nat BY <1>3 DEF OnLoop
  <2>2. Cardinality(S) \in Nat
    <3>1. IsFiniteSet(Conn)
      <4>1. Len(conns) \in Int BY <1>3, SMT
      <4> QED BY <4>1, FS_Interval DEF Conn
    <3>2. IsFiniteSet(S) BY <2>1, <3>1, FS_Subset, Zenon
    <3> QED BY <3>2, FS_CardinalityType
  <2>3. \A c \in S : ~Queued(q, "conn_destroyed", c) /\ conns[c] = t
    BY <1>3 DEF OnLoop, Fate
  <2>4. q \in Seq(Entries) /\ Ordered(q) /\ order \in Orders(S)
        /\ \A i \in 1 .. Len(q) : q[i][2] \in Conn /\ conns[q[i][2]] = t
    BY <1>2, <1>3, Zenon DEF FateInv
  <2>5. functors'[t] = r BY <1>2, Zenon
  <2> HIDE DEF S, q, order
  <2>6. /\ r \in Seq(Entries) /\ Ordered(r)
        /\ \A o, d : Queued(r, o, d) <=> Queued(q, o, d) \/ (o = "conn_destroyed" /\ d \in S)
        /\ \A i \in 1 .. Len(r) : r[i][2] \in S \/ \E j \in 1 .. Len(q) : r[i][2] = q[j][2]
    BY <2>1, <2>2, <2>3, <2>4, ConcatQueue, Zenon
  <2> HIDE DEF r
  <2>7. \A i \in 1 .. Len(functors'[t]) :
           functors'[t][i][2] \in Conn /\ conns[functors'[t][i][2]] = t
    <3> SUFFICES ASSUME NEW i \in 1 .. Len(r) PROVE r[i][2] \in Conn /\ conns[r[i][2]] = t
      BY <2>5, Zenon
    <3>1. CASE r[i][2] \in S BY <2>1, <2>3, <3>1, Zenon
    <3>2. CASE \E j \in 1 .. Len(q) : r[i][2] = q[j][2] BY <2>4, <3>2, Zenon
    <3> QED BY <2>6, <3>1, <3>2, Zenon
  <2> QED BY <2>5, <2>6, <2>7 DEF S, q
<1>5. functors' \in [Thread -> Seq(Entries)]
  <2>1. functors' = [t \in Thread |-> functors'[t]] BY <1>2, Zenon
  <2> QED BY <1>4, <2>1
<1>6. ASSUME NEW d \in Conn PROVE Fate(d)'
  <2> DEFINE t == conns[d]
  <2>1. t \in Thread /\ Fate(d) BY <1>3
  <2>2. d \in OnLoop(t) <=> d \in conn_map_ BY DEF OnLoop
  <2> HIDE DEF t
  <2>3. /\ Queued(functors'[t], "conn_destroyed", d)
             <=> Queued(functors[t], "conn_destroyed", d) \/ d \in conn_map_
        /\ Queued(functors'[t], "conn_established", d) <=> Queued(functors[t], "conn_established", d)
    <3>1. \A o, e : Queued(functors'[t], o, e)
             <=> Queued(functors[t], o, e) \/ (o = "conn_destroyed" /\ e \in OnLoop(t))
      BY <1>4, <2>1, Zenon
    <3> QED BY <2>2, <3>1
  <2> QED BY <1>1, <2>1, <2>3 DEF Fate, t
<1> QED BY <1>1, <1>3, <1>4, <1>5, <1>6, Zenon DEF FateInv

LEMMA FateInit == ServerInit => FateInv
<1> SUFFICES ASSUME ServerInit PROVE FateInv OBVIOUS
<1>1. /\ conns = <<>> /\ conn_map_ = {} /\ state_ = <<>> /\ destroyed = <<>> /\ removes = <<>>
      /\ functors = [t \in Thread |-> <<>>]
  BY DEF ServerInit
<1>2. Conn = {} /\ Conn = 1 .. 0 BY <1>1, SMT DEF Conn
<1>3. conns \in Seq(Thread) /\ removes \in Seq(Nat) /\ Len(removes) = 0 BY <1>1, SMT
<1>4. /\ destroyed \in Seq(Nat) /\ DOMAIN destroyed = 1 .. 0
      /\ state_ \in Seq(States) /\ DOMAIN state_ = 1 .. 0
  BY <1>1, SMT
<1>5. <<>> \in Seq(Entries) /\ 1 .. Len(<<>>) = {} BY SMT
<1>6. \A t \in Thread : functors[t] = <<>> /\ Ordered(functors[t]) BY <1>1, <1>5 DEF Ordered
<1>7. functors \in [Thread -> Seq(Entries)] BY <1>1, <1>5
<1>8. 1 .. Len(removes) = {} BY <1>3, SMT
<1> QED BY <1>1, <1>2, <1>3, <1>4, <1>5, <1>6, <1>7, <1>8 DEF FateInv, States

LEMMA FateStep == FateInv /\ PoolInv /\ [ServerNext]_allVars => FateInv'
<1> SUFFICES ASSUME FateInv, PoolInv, [ServerNext]_allVars PROVE FateInv' OBVIOUS
<1>1. CASE UNCHANGED allVars \/ PoolStep
  BY <1>1, SameConns DEF allVars, PoolStep, serverVars, connVars
<1>2. CASE Acceptor
  BY <1>2, SameConns, NewFate DEF Acceptor, Accept, CloseIdle, AcceptAndClose, OpenIdle
<1>3. CASE Connect \/ OtherFile BY <1>3, SameConns, Zenon DEF Connect, OtherFile
<1> QED BY <1>1, <1>2, <1>3, FunctorFate, ClosedFate, RemoveFate, StopFate DEF ServerNext

\* At most one place in the queue: the count of DestroyedOnce.
LEMMA FateCounts == FateInv => DestroyedOnce
<1> SUFFICES ASSUME FateInv, NEW c \in Conn
             PROVE  /\ destroyed[c] + Times(conns[c], "conn_destroyed", c)
                         = IF c \in conn_map_ THEN 0 ELSE 1
                    /\ \A t \in Thread \ {conns[c]} : \A i \in DOMAIN functors[t] : functors[t][i][2] # c
                    /\ state_[c] = "kConnecting" => destroyed[c] = 0
                    /\ \A i, j \in DOMAIN functors[conns[c]] :
                          functors[conns[c]][i] = <<"conn_established", c>>
                            /\ functors[conns[c]][j] = <<"conn_destroyed", c>> => i < j
  BY DEF DestroyedOnce
<1> DEFINE t == conns[c]
           q == functors[t]
           P == {i \in DOMAIN q : q[i] = <<"conn_destroyed", c>>}
<1>1. t \in Thread /\ Fate(c) BY FateTypes
<1>2. \A u \in Thread : /\ functors[u] \in Seq(Entries) /\ Ordered(functors[u])
                        /\ \A i \in 1 .. Len(functors[u]) : conns[functors[u][i][2]] = u
  BY Zenon DEF FateInv
<1>3. \A u \in Thread : DOMAIN functors[u] = 1 .. Len(functors[u]) BY <1>2, SMT
<1>4. \A u \in Thread \ {t} : \A i \in DOMAIN functors[u] : functors[u][i][2] # c BY <1>2, <1>3
<1>5. ASSUME NEW i \in 1 .. Len(q), NEW j \in 1 .. Len(q),
             q[i][2] = c, q[j] = <<"conn_destroyed", c>>
      PROVE  i <= j
  BY <1>1, <1>2, <1>5 DEF Ordered
<1>6. ASSUME NEW i \in 1 .. Len(q), NEW j \in 1 .. Len(q),
             q[i] = <<"conn_established", c>>, q[j] = <<"conn_destroyed", c>>
      PROVE  i < j
  <2>1. i <= j /\ i # j BY <1>5, <1>6
  <2>2. i \in Int /\ j \in Int BY SMT
  <2> HIDE DEF q
  <2> QED BY <2>1, <2>2, SMT
<1>7. Cardinality(P) = IF Queued(q, "conn_destroyed", c) THEN 1 ELSE 0
  <2>1. CASE Queued(q, "conn_destroyed", c)
    <3>1. PICK k \in 1 .. Len(q) : q[k] = <<"conn_destroyed", c>> BY <2>1 DEF Queued
    <3>2. \A i \in 1 .. Len(q) : q[i] = <<"conn_destroyed", c>> => i = k
      <4> SUFFICES ASSUME NEW i \in 1 .. Len(q), q[i] = <<"conn_destroyed", c>> PROVE i = k
        OBVIOUS
      <4>1. i <= k /\ k <= i BY <1>5, <3>1
      <4>2. i \in Int /\ k \in Int BY SMT
      <4> HIDE DEF q
      <4> QED BY <4>1, <4>2, SMT
    <3>3. P = {k} BY <1>1, <1>3, <3>1, <3>2, Zenon
    <3> QED BY <2>1, <3>3, FS_Singleton, Zenon
  <2>2. CASE ~Queued(q, "conn_destroyed", c)
    <3>1. P = {} BY <1>1, <1>3, <2>2, Zenon DEF Queued
    <3> QED BY <2>2, <3>1, FS_EmptySet, Zenon
  <2> QED BY <2>1, <2>2
<1>8. Times(t, "conn_destroyed", c) = Cardinality(P) BY Zenon DEF Times
<1> HIDE DEF P
<1>9. destroyed[c] + Times(t, "conn_destroyed", c) = IF c \in conn_map_ THEN 0 ELSE 1
  <2>1. CASE c \in conn_map_
    <3>1. destroyed[c] = 0 /\ Times(t, "conn_destroyed", c) = 0 BY <1>1, <1>7, <1>8, <2>1, Zenon DEF Fate
    <3> QED BY <2>1, <3>1
  <2>2. CASE c \notin conn_map_ /\ destroyed[c] = 1
    <3>1. Times(t, "conn_destroyed", c) = 0 BY <1>1, <1>7, <1>8, <2>2 DEF Fate
    <3> QED BY <2>2, <3>1
  <2>3. CASE c \notin conn_map_ /\ destroyed[c] = 0
    <3>1. Times(t, "conn_destroyed", c) = 1 BY <1>1, <1>7, <1>8, <2>3 DEF Fate
    <3> QED BY <2>3, <3>1
  <2> QED BY <1>1, <2>1, <2>2, <2>3 DEF Fate
<1>10. state_[c] = "kConnecting" => destroyed[c] = 0 BY <1>1 DEF Fate
<1> QED BY <1>1, <1>3, <1>4, <1>6, <1>9, <1>10

\* Every behaviour of the server is a behaviour of the pool: the server and its
\* acceptor touch the pool only by the calls that EventLoopThreadPool describes.
THEOREM ServerUsesPool == ServerSpec => Spec
<1>1. ServerInit => Init BY DEF ServerInit
<1>2. [ServerNext]_allVars => [Next]_vars
  <2>1. ASSUME PoolStep PROVE Next BY <2>1 DEF PoolStep, Next
  <2>2. ASSUME Acceptor PROVE Next \/ UNCHANGED vars
    BY <2>2 DEF Acceptor, Accept, new_conn, CloseIdle, AcceptAndClose, OpenIdle, Next
  <2>3. ASSUME Connect \/ OtherFile PROVE UNCHANGED vars BY <2>3, Zenon DEF Connect, OtherFile
  <2>4. ASSUME NEW t \in Thread, RunFunctor(t) PROVE UNCHANGED vars BY <2>4, Zenon DEF RunFunctor
  <2>5. ASSUME NEW c \in Conn, Close(c) PROVE UNCHANGED vars BY <2>5 DEF Close
  <2>6. ASSUME remove_conn_in_loop PROVE UNCHANGED vars BY <2>6 DEF remove_conn_in_loop
  <2>7. ASSUME stop PROVE Next BY <2>7 DEF stop, Next
  <2>8. ASSUME UNCHANGED allVars PROVE UNCHANGED vars BY <2>8 DEF allVars
  <2> QED BY <2>1, <2>2, <2>3, <2>4, <2>5, <2>6, <2>7, <2>8 DEF ServerNext
<1> QED BY <1>1, <1>2, PTL DEF ServerSpec, Spec

\* For every number of threads, the server gives no connection to a loop that is not
\* yet published or already gone: the handshake of start_loop over loop_.
THEOREM ServerLoopsLive == ServerSpec => []LoopsLive
<1>1. PoolInv => LoopsLive BY Zenon DEF PoolInv, Serving, LoopsLive, Running
<1> QED BY <1>1, PoolInductive, ServerUsesPool, PTL

\* For every number of threads, the connections given to two loops differ by at most
\* one, and next_ says which loops are ahead: the wrap-around of get_next_loop.
THEOREM ServerBalanced == ServerSpec => []Balanced
<1>1. PoolInv => Balanced BY DEF PoolInv, Serving, Balanced
<1> QED BY <1>1, PoolInductive, ServerUsesPool, PTL

\* For any numbers of threads and connections, conn_destroyed is called once for every
\* connection that leaves the map, on its own loop and after its conn_established,
\* whether it closes by itself, while stop() goes through the map, or both.
THEOREM ServerDestroyedOnce == ServerSpec => []DestroyedOnce
<1>1. ServerSpec => []PoolInv BY PoolInductive, ServerUsesPool, PTL
<1>2. ServerSpec => []FateInv BY <1>1, FateInit, FateStep, PTL DEF ServerSpec
<1> QED BY <1>2, FateCounts, PTL
=============================================================================
