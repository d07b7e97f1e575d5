--------------------------- MODULE Network_proofs ---------------------------
(***************************************************************************)
(* Proofs about the objects that belong to one loop of the network         *)
(* library: the loop itself (EventLoop), its poller (EpollPoller) and its  *)
(* timers (TimerQueue).  The modules share no variable; each part stands   *)
(* for itself.                                                             *)
(***************************************************************************)
EXTENDS EventLoop, EpollPoller, TimerQueue, TLAPS
-----------------------------------------------------------------------------
(***************************************************************************)
(* EventLoop, for any set of threads and any number of functors.           *)
(***************************************************************************)
\* A functor that must not wait for a poll is pending.
UrgentPending ==
    \E i \in 1 .. Len(pending_functors_) : pending_functors_[i] \in urgent

\* The eventfd is readable or will be written by a thread inside its call.
Awake == wakeup_fd_ > 0 \/ \E t \in Thread : call[t] = "wakeup"

\* The inductive invariant.  Between the read of the eventfd and the swap an
\* urgent functor may be pending with nothing left to wake the loop: the swap
\* takes it.  Everywhere else the wakeup is still to come.
LoopInv ==
    /\ TypeOK
    /\ QueueInv
    /\ urgent \subseteq 0 .. issued
    /\ functors # <<>> => pc = "tasks"
    /\ pc \in {"swap", "tasks"} => doing_other_tasks_
    /\ pc \notin {"events", "swap"} => (UrgentPending => Awake)

LEMMA LoopInit ==
    ASSUME Init
    PROVE  LoopInv
<1>1. TypeOK
  <2>1. quit_ \in BOOLEAN /\ doing_other_tasks_ \in BOOLEAN /\ active \in BOOLEAN
    BY Zenon DEF Init
  <2>2. call \in [Thread -> {"none", "wakeup"}]
    BY DEF Init
  <2>3. /\ pending_functors_ \in Seq(Nat) /\ functors \in Seq(Nat)
        /\ wakeup_fd_ \in Nat /\ issued \in Nat /\ ran \in Nat /\ urgent \subseteq Nat
        /\ pc = "start"
    BY DEF Init
  <2> QED BY <2>1, <2>2, <2>3 DEF TypeOK
<1>2. QueueInv /\ urgent \subseteq 0 .. issued
  BY DEF Init, QueueInv
<1>3. functors = <<>> /\ pc = "start" /\ ~UrgentPending
  BY DEF Init, UrgentPending
<1> QED BY <1>1, <1>2, <1>3 DEF LoopInv

\* The batch after a step that runs at most its first functor.
BatchOK ==
    /\ functors' \in Seq(Nat)
    /\ ran' \in Nat
    /\ ran' + Len(functors') = ran + Len(functors)
    /\ \A i \in 1 .. Len(functors') : functors'[i] = ran' + i

\* Counting: a batch of m functors of which the first m - k have been run.
LEMMA Counting ==
    \A m, k, n, i0, r0, r1 \in Nat :
        m + n = i0 - r0 /\ r1 + k = r0 + m =>
            /\ k + n = i0 - r1
            /\ k + (n + 1) = (i0 + 1) - r1
            /\ i0 + 1 = r1 + k + (n + 1)
OBVIOUS

\* A push keeps the order of the pending functors.
LEMMA PushOK ==
    ASSUME TypeOK, QueueInv, Push, BatchOK
    PROVE  /\ pending_functors_' \in Seq(Nat) /\ issued' \in Nat
           /\ QueueInv'
           /\ Len(pending_functors_') = Len(pending_functors_) + 1
           /\ pending_functors_'[Len(pending_functors_')] = issued + 1
           /\ \A i \in 1 .. Len(pending_functors_) :
                 pending_functors_'[i] = pending_functors_[i]
<1>1. /\ pending_functors_' = Append(pending_functors_, issued + 1) /\ issued' = issued + 1
      /\ functors' \in Seq(Nat) /\ ran' \in Nat
      /\ ran' + Len(functors') = ran + Len(functors)
  BY DEF Push, BatchOK
<1>2. /\ pending_functors_' \in Seq(Nat) /\ issued' \in Nat
      /\ Len(pending_functors_') = Len(pending_functors_) + 1
      /\ pending_functors_'[Len(pending_functors_')] = issued + 1
      /\ \A i \in 1 .. Len(pending_functors_) : pending_functors_'[i] = pending_functors_[i]
  BY <1>1 DEF TypeOK
<1>3. Len(functors') + Len(pending_functors_') = issued' - ran'
  <2> DEFINE m == Len(functors)  k == Len(functors')  n == Len(pending_functors_)  r1 == ran'
  <2>1. /\ m \in Nat /\ k \in Nat /\ n \in Nat /\ issued \in Nat /\ ran \in Nat /\ r1 \in Nat
        /\ m + n = issued - ran /\ r1 + k = ran + m
    BY <1>1 DEF TypeOK, QueueInv
  <2> HIDE DEF m, k, n, r1
  <2>2. k + (n + 1) = (issued + 1) - r1
    BY <2>1, Counting
  <2> QED BY <1>1, <1>2, <2>2 DEF k, n, r1
<1>4. ASSUME NEW i \in 1 .. Len(pending_functors_')
      PROVE  pending_functors_'[i] = ran' + Len(functors') + i
  <2> DEFINE n == Len(pending_functors_)  m == Len(functors)
             k == Len(functors')  r1 == ran'
  <2>1. /\ k \in Nat /\ r1 \in Nat /\ r1 + k = ran + m
        /\ n \in Nat /\ m \in Nat /\ issued \in Nat /\ ran \in Nat /\ m + n = issued - ran
        /\ i \in Nat /\ 1 <= i /\ i <= n + 1
    BY <1>1, <1>2 DEF TypeOK, QueueInv
  <2>2. CASE i <= n
    <3>1. i \in 1 .. Len(pending_functors_)
      BY <2>1, <2>2
    <3>2. pending_functors_'[i] = ran + m + i
      BY <1>2, <3>1 DEF QueueInv
    <3> HIDE DEF n, m, k, r1
    <3>3. ran + m + i = r1 + k + i
      BY <2>1
    <3> QED BY <3>2, <3>3 DEF k, r1
  <2>3. CASE i = n + 1
    <3>1. pending_functors_'[i] = issued + 1
      BY <1>2, <2>3
    <3> HIDE DEF n, m, k, r1
    <3>2. issued + 1 = r1 + k + i
      BY <2>1, <2>3, Counting
    <3> QED BY <3>1, <3>2 DEF k, r1
  <2> HIDE DEF n, m, k
  <2>4. i <= n \/ i = n + 1
    BY <2>1
  <2> QED BY <2>2, <2>3, <2>4
<1> QED BY <1>2, <1>3, <1>4 DEF QueueInv, BatchOK

\* A functor the loop thread queues itself keeps the invariant: only one
\* queued by a functor is urgent, and that one comes with a wakeup.
LEMMA SelfQueueOK ==
    ASSUME LoopInv, SelfQueue, BatchOK, UNCHANGED call
    PROVE  /\ pending_functors_' \in Seq(Nat) /\ issued' \in Nat /\ wakeup_fd_' \in Nat
           /\ urgent' \subseteq 0 .. issued'
           /\ QueueInv'
           /\ (UrgentPending => Awake) => (UrgentPending' => Awake')
<1>1. Push /\ TypeOK /\ QueueInv
  BY DEF SelfQueue, LoopInv
<1>2. /\ pending_functors_' \in Seq(Nat) /\ issued' \in Nat
      /\ QueueInv'
      /\ Len(pending_functors_') = Len(pending_functors_) + 1
      /\ pending_functors_'[Len(pending_functors_')] = issued + 1
      /\ \A i \in 1 .. Len(pending_functors_) : pending_functors_'[i] = pending_functors_[i]
  BY <1>1, PushOK
<1>3. /\ issued \in Nat /\ issued' = issued + 1 /\ wakeup_fd_ \in Nat
      /\ wakeup_fd_' = wakeup_fd_ \/ wakeup_fd_' = wakeup_fd_ + 1
  BY DEF SelfQueue, Push, wakeup, LoopInv, TypeOK
<1>4. urgent' \subseteq 0 .. issued' /\ wakeup_fd_' \in Nat
  BY <1>3 DEF SelfQueue, LoopInv
<1>5. ASSUME UrgentPending => Awake, UrgentPending'
      PROVE  Awake'
  <2>1. CASE pc = "tasks"
    BY <1>3, <2>1 DEF SelfQueue, LoopInv, Awake, wakeup
  <2>2. CASE pc # "tasks"
    <3>1. urgent' = urgent
      BY <2>2 DEF SelfQueue
    <3>2. PICK i \in 1 .. Len(pending_functors_') : pending_functors_'[i] \in urgent
      BY <1>5, <3>1 DEF UrgentPending
    <3>3. issued + 1 \notin urgent
      BY <1>3 DEF LoopInv
    <3>4. i \in 1 .. Len(pending_functors_)
      BY <1>2, <3>2, <3>3 DEF LoopInv, TypeOK
    <3>5. UrgentPending
      BY <1>2, <3>2, <3>4 DEF UrgentPending
    <3> QED BY <1>3, <1>5, <3>5 DEF Awake
  <2> QED BY <2>1, <2>2
<1> QED BY <1>2, <1>4, <1>5

\* The same for any user code of the loop thread.
LEMMA UserCodeOK ==
    ASSUME LoopInv, UserCode, BatchOK, UNCHANGED call
    PROVE  /\ pending_functors_' \in Seq(Nat) /\ issued' \in Nat /\ wakeup_fd_' \in Nat
           /\ urgent' \subseteq 0 .. issued'
           /\ QueueInv'
           /\ (UrgentPending => Awake) => (UrgentPending' => Awake')
<1>1. CASE SelfQueue
  BY <1>1, SelfQueueOK
<1>2. CASE UNCHANGED <<pending_functors_, issued, wakeup_fd_, urgent>>
  <2>1. QueueInv'
    <3>1. /\ Len(functors') + Len(pending_functors_') = issued' - ran'
          /\ ran' + Len(functors') = ran + Len(functors)
      <4> DEFINE m == Len(functors)  k == Len(functors')  n == Len(pending_functors_)  r1 == ran'
      <4>1. /\ m \in Nat /\ k \in Nat /\ n \in Nat /\ issued \in Nat /\ ran \in Nat /\ r1 \in Nat
            /\ m + n = issued - ran /\ r1 + k = ran + m
        BY DEF LoopInv, TypeOK, QueueInv, BatchOK
      <4> HIDE DEF m, k, n, r1
      <4>2. k + n = issued - r1 /\ r1 + k = ran + m
        BY <4>1, Counting
      <4> QED BY <1>2, <4>2 DEF k, n, m, r1
    <3> QED BY <1>2, <3>1 DEF LoopInv, QueueInv, BatchOK
  <2> QED BY <1>2, <2>1 DEF LoopInv, TypeOK, UrgentPending, Awake
<1> QED BY <1>1, <1>2 DEF UserCode

LEMMA BatchUnchanged ==
    ASSUME LoopInv, UNCHANGED <<functors, ran>>
    PROVE  BatchOK
BY DEF LoopInv, TypeOK, QueueInv, BatchOK

\* The step of the induction, one case per action.
LEMMA LoopInvStep ==
    ASSUME LoopInv, Next
    PROVE  LoopInv'
<1>1. ASSUME NEW t \in Thread, QueueInLoop(t) PROVE LoopInv'
  <2>1. Push /\ UNCHANGED <<pc, quit_, doing_other_tasks_, functors, active, ran, wakeup_fd_>>
        /\ TypeOK /\ QueueInv
    BY <1>1 DEF QueueInLoop, loopVars, LoopInv
  <2>2. BatchOK
    BY <2>1, BatchUnchanged
  <2>3. pending_functors_' \in Seq(Nat) /\ issued' \in Nat /\ QueueInv'
    BY <2>1, <2>2, PushOK
  <2>4. issued' = issued + 1 /\ issued \in Nat /\ urgent' = urgent \cup {issued + 1}
    BY <1>1 DEF QueueInLoop, Push, LoopInv, TypeOK
  <2>5. urgent' \subseteq 0 .. issued' /\ urgent' \subseteq Nat
    BY <2>4 DEF LoopInv
  <2>6. call' = [call EXCEPT ![t] = "wakeup"] /\ call'[t] = "wakeup"
        /\ call' \in [Thread -> {"none", "wakeup"}]
    BY <1>1 DEF QueueInLoop, LoopInv, TypeOK
  <2>7. TypeOK'
    BY <2>1, <2>3, <2>5, <2>6 DEF TypeOK
  <2>8. Awake'
    BY <2>6 DEF Awake
  <2> QED BY <2>1, <2>3, <2>5, <2>7, <2>8 DEF LoopInv
<1>2. ASSUME NEW t \in Thread, Quit(t) PROVE LoopInv'
  <2>1. TypeOK' /\ QueueInv'
    BY <1>2 DEF Quit, LoopInv, TypeOK, QueueInv
  <2>2. Awake'
    BY <1>2 DEF Quit, LoopInv, TypeOK, Awake
  <2> QED BY <1>2, <2>1, <2>2 DEF Quit, LoopInv
<1>3. ASSUME NEW t \in Thread, Wakeup(t) PROVE LoopInv'
  <2>1. TypeOK' /\ QueueInv'
    BY <1>3 DEF Wakeup, wakeup, loopVars, LoopInv, TypeOK, QueueInv
  <2>2. Awake'
    BY <1>3 DEF Wakeup, wakeup, LoopInv, TypeOK, Awake
  <2> QED BY <1>3, <2>1, <2>2 DEF Wakeup, loopVars, LoopInv
<1>4. ASSUME Start \/ While PROVE LoopInv'
  <2>1. TypeOK' /\ QueueInv'
    BY <1>4, Zenon DEF Start, While, Goto, LoopInv, TypeOK, QueueInv
  <2> QED BY <1>4, <2>1, Zenon DEF Start, While, Goto, LoopInv, UrgentPending, Awake
<1>5. ASSUME DoTimer \/ FrameFunctor \/ OtherEvent PROVE LoopInv'
  <2>1. UserCode /\ UNCHANGED <<quit_, doing_other_tasks_, functors, active, call, ran>>
        /\ \/ pc = "timers" /\ pc' = "poll"
           \/ pc = "frame" /\ pc' = "while"
           \/ pc = "events" /\ pc' = "events"
    BY <1>5 DEF DoTimer, FrameFunctor, OtherEvent, Goto, UserCode
  <2>2. BatchOK
    BY <2>1, BatchUnchanged
  <2>3. /\ pending_functors_' \in Seq(Nat) /\ issued' \in Nat /\ wakeup_fd_' \in Nat
        /\ urgent' \subseteq 0 .. issued'
        /\ QueueInv'
        /\ (UrgentPending => Awake) => (UrgentPending' => Awake')
    BY <2>1, <2>2, UserCodeOK
  <2>4. urgent' \subseteq Nat
    BY <2>3
  <2>5. TypeOK'
    BY <2>1, <2>3, <2>4 DEF LoopInv, TypeOK
  <2> QED BY <2>1, <2>3, <2>5 DEF LoopInv
<1>6. ASSUME Poll PROVE LoopInv'
  <2>1. TypeOK' /\ QueueInv'
    BY <1>6 DEF Poll, Goto, LoopInv, TypeOK, QueueInv
  <2> QED BY <1>6, <2>1 DEF Poll, Goto, LoopInv
<1>7. ASSUME handle_read PROVE LoopInv'
  <2>1. TypeOK' /\ QueueInv'
    BY <1>7, Zenon DEF handle_read, LoopInv, TypeOK, QueueInv
  <2> QED BY <1>7, <2>1 DEF handle_read, LoopInv
<1>8. ASSUME EventsDone PROVE LoopInv'
  <2>1. TypeOK' /\ QueueInv'
    BY <1>8 DEF EventsDone, Goto, LoopInv, TypeOK, QueueInv
  <2> QED BY <1>8, <2>1 DEF EventsDone, Goto, LoopInv
<1>9. ASSUME Swap PROVE LoopInv'
  <2>1. functors = <<>> /\ functors' = pending_functors_ /\ pending_functors_' = <<>>
        /\ ran' = ran /\ issued' = issued
    BY <1>9 DEF Swap, Goto, LoopInv
  <2>2. QueueInv'
    BY <2>1 DEF LoopInv, TypeOK, QueueInv
  <2>3. TypeOK'
    BY <1>9, <2>1 DEF Swap, Goto, LoopInv, TypeOK
  <2>4. ~UrgentPending'
    BY <2>1 DEF UrgentPending
  <2> QED BY <1>9, <2>2, <2>3, <2>4 DEF Swap, Goto, LoopInv
<1>10. ASSUME RunFunctor PROVE LoopInv'
  <2>1. BatchOK
    <3>1. /\ functors \in Seq(Nat) /\ functors # <<>> /\ functors' = Tail(functors)
          /\ ran \in Nat /\ ran' = ran + 1
          /\ \A i \in 1 .. Len(functors) : functors[i] = ran + i
      BY <1>10 DEF RunFunctor, LoopInv, TypeOK, QueueInv
    <3>2. /\ functors' \in Seq(Nat) /\ Len(functors') = Len(functors) - 1
          /\ \A i \in 1 .. Len(functors') : functors'[i] = functors[i + 1]
      BY <3>1
    <3> QED BY <3>1, <3>2 DEF BatchOK
  <2>2. /\ pending_functors_' \in Seq(Nat) /\ issued' \in Nat /\ wakeup_fd_' \in Nat
        /\ urgent' \subseteq 0 .. issued'
        /\ QueueInv'
        /\ (UrgentPending => Awake) => (UrgentPending' => Awake')
    BY <1>10, <2>1, UserCodeOK DEF RunFunctor
  <2>3. urgent' \subseteq Nat
    BY <2>2
  <2>4. quit_' \in BOOLEAN
    BY <1>10, Zenon DEF RunFunctor, LoopInv, TypeOK
  <2>5. TypeOK'
    BY <1>10, <2>1, <2>2, <2>3, <2>4 DEF RunFunctor, LoopInv, TypeOK, BatchOK
  <2> QED BY <1>10, <2>2, <2>5 DEF RunFunctor, LoopInv
<1>11. ASSUME TasksDone PROVE LoopInv'
  <2>1. TypeOK' /\ QueueInv'
    BY <1>11, Zenon DEF TasksDone, Goto, LoopInv, TypeOK, QueueInv
  <2> QED BY <1>11, <2>1 DEF TasksDone, Goto, LoopInv, UrgentPending, Awake
<1> QED BY <1>1, <1>2, <1>3, <1>4, <1>5, <1>6, <1>7, <1>8, <1>9, <1>10, <1>11
        DEF Next, LoopStep

LEMMA LoopInductive == Spec => []LoopInv
<1>1. Init => LoopInv
  BY LoopInit
<1>2. LoopInv /\ [Next]_vars => LoopInv'
  <2> SUFFICES ASSUME LoopInv, [Next]_vars PROVE LoopInv'
    OBVIOUS
  <2>1. CASE Next
    BY <2>1, LoopInvStep
  <2>2. CASE UNCHANGED vars
    BY <2>2 DEF vars, LoopInv, TypeOK, QueueInv, UrgentPending, Awake
  <2> QED BY <2>1, <2>2
<1> QED BY <1>1, <1>2, PTL DEF Spec

\* The state of the loop keeps its type.
THEOREM TypeCorrect == Spec => []TypeOK
<1>1. LoopInv => TypeOK
  BY DEF LoopInv
<1> QED BY <1>1, LoopInductive, PTL

\* Functors run exactly once and in the order queue_in_loop pushed them.
THEOREM QueueCorrect == Spec => []QueueInv
<1>1. LoopInv => QueueInv
  BY DEF LoopInv
<1> QED BY <1>1, LoopInductive, PTL

\* The loop never goes to sleep on an urgent functor: the test of
\* doing_other_tasks_ in queue_in_loop and the order of swap and read
\* leave no window for a lost wakeup.
THEOREM NoSleepCorrect == Spec => []NoSleep
<1>1. LoopInv => NoSleep
  BY DEF LoopInv, NoSleep, UrgentPending, Awake
<1> QED BY <1>1, LoopInductive, PTL
-----------------------------------------------------------------------------
(***************************************************************************)
(* EpollPoller, for any numbers of channels and descriptors and any        *)
(* initial size of the list of events.                                     *)
(***************************************************************************)
\* The fields of a poller record have their types.
Typed(q) ==
    /\ q.fd \in [Channel -> Fd]
    /\ q.index \in [Channel -> {new_, added_, deleted_}]
    /\ q.events \in [Channel -> SUBSET Event]
    /\ q.channels_ \in [Fd -> Channel \cup {None}]
    /\ q.epoll \in [Fd -> Channel \cup {None}]
    /\ q.interest \in [Fd -> SUBSET Event]

\* channels_ holds exactly the live channels whose index is not new_.
Mapped(q, L) ==
    /\ L \subseteq Channel
    /\ \A f \in Fd : q.channels_[f] # None =>
          q.channels_[f] \in L /\ q.fd[q.channels_[f]] = f /\ q.index[q.channels_[f]] # new_
    /\ \A c \in L : q.index[c] # new_ => q.channels_[q.fd[c]] = c
    /\ \A c, d \in L : q.fd[c] = q.fd[d] => c = d

\* A kernel registration is that of the mapped channel, which is added_.
Registered(q) ==
    \A f \in Fd : q.epoll[f] # None =>
        q.epoll[f] = q.channels_[f] /\ q.index[q.epoll[f]] = added_

\* The kernel waits for what the channels ask for, c perhaps excepted.
Agrees(q, E) ==
    \A f \in Fd : q.epoll[f] # None /\ q.epoll[f] \notin E =>
        q.interest[f] = q.events[q.epoll[f]]

Good(q, L, E) == Typed(q) /\ Mapped(q, L) /\ Registered(q) /\ Agrees(q, E)

\* A channel's new event mask leaves everything but its own agreement.
LEMMA SetEventsOK ==
    ASSUME NEW q, NEW L, Good(q, L, {}), NEW c \in L, NEW ev \in SUBSET Event
    PROVE  Good(SetEvents(q, c, ev), L, {c})
<1> DEFINE z == SetEvents(q, c, ev)
<1>1. /\ z.fd = q.fd /\ z.index = q.index /\ z.channels_ = q.channels_
      /\ z.epoll = q.epoll /\ z.interest = q.interest
      /\ z.events = [q.events EXCEPT ![c] = ev]
  BY DEF SetEvents, Poller
<1> HIDE DEF z
<1>2. c \in Channel
  BY DEF Good, Mapped
<1>3. Typed(z)
  BY <1>1, <1>2 DEF Good, Typed
<1>4. Mapped(z, L) /\ Registered(z)
  BY <1>1 DEF Good, Mapped, Registered
<1>5. Agrees(z, {c})
  BY <1>1, <1>2 DEF Good, Typed, Agrees
<1> QED BY <1>3, <1>4, <1>5 DEF Good, z

\* update_channel brings the kernel into agreement with the channel again, or
\* leaves it unregistered; the map and the index stay consistent.
LEMMA UpdateOK ==
    ASSUME NEW q, NEW L, NEW c \in L, Good(q, L, {c}), NEW ok \in BOOLEAN
    PROVE  Good(update_channel(q, c, ok), L, {})
<1> DEFINE z == update_channel(q, c, ok)
           f == q.fd[c]
<1> USE NoneAssumption DEF new_, added_, deleted_
<1>1. c \in Channel /\ f \in Fd /\ c # None
  BY DEF Good, Mapped, Typed
<1>2. q.index[c] = new_ => q.channels_[f] = None
  BY <1>1 DEF Good, Mapped
<1>3. q.index[c] # new_ => q.channels_[f] = c
  BY <1>1 DEF Good, Mapped
<1>4. q.index[c] \in {new_, added_, deleted_}
  BY <1>1 DEF Good, Typed
<1>5. q.index[c] # added_ => q.epoll[f] = None
  BY <1>1, <1>2, <1>3, <1>4 DEF Good, Registered
<1>6. CASE q.index[c] # added_ /\ ok
  <2>1. /\ z.fd = q.fd /\ z.events = q.events
        /\ z.index = [q.index EXCEPT ![c] = added_]
        /\ z.channels_ = [q.channels_ EXCEPT ![f] = c]
        /\ z.epoll = [q.epoll EXCEPT ![f] = c]
        /\ z.interest = [q.interest EXCEPT ![f] = q.events[c]]
    BY <1>2, <1>3, <1>4, <1>5, <1>6, Zenon
    DEF update_channel, UpdateOp, _update, CtlOk, SetIndex, SetEntry, Poller
  <2> HIDE DEF z, f
  <2>2. Typed(z)
    BY <1>1, <2>1 DEF Good, Typed
  <2>3. Mapped(z, L)
    BY <1>1, <2>1, f = q.fd[c] DEF Good, Typed, Mapped, f
  <2>4. Registered(z)
    BY <1>1, <1>6, <2>1, <1>2, <1>3 DEF Good, Typed, Mapped, Registered, f
  <2>5. Agrees(z, {})
    BY <1>1, <1>2, <1>3, <2>1 DEF Good, Typed, Mapped, Registered, Agrees, f
  <2> QED BY <2>2, <2>3, <2>4, <2>5 DEF Good, z
<1>7. CASE q.index[c] # added_ /\ ~ok
  <2>1. /\ z.fd = q.fd /\ z.events = q.events
        /\ z.index = [q.index EXCEPT ![c] = added_]
        /\ z.channels_ = [q.channels_ EXCEPT ![f] = c]
        /\ z.epoll = q.epoll
        /\ z.interest = q.interest
    BY <1>2, <1>3, <1>4, <1>5, <1>7, Zenon
    DEF update_channel, UpdateOp, _update, CtlOk, SetIndex, SetEntry, Poller
  <2> HIDE DEF z
  <2>2. Typed(z)
    BY <1>1, <1>2, <1>3, <1>5, <1>7, <2>1 DEF Good, Typed
  <2>3. Mapped(z, L)
    BY <1>1, <1>2, <1>3, <1>5, <1>7, <2>1 DEF Good, Typed, Mapped
  <2>4. Registered(z)
    BY <1>1, <1>2, <1>3, <1>5, <1>7, <2>1 DEF Good, Typed, Mapped, Registered
  <2>5. Agrees(z, {})
    BY <1>1, <1>2, <1>3, <1>5, <1>7, <2>1 DEF Good, Typed, Mapped, Registered, Agrees
  <2> QED BY <2>2, <2>3, <2>4, <2>5 DEF Good, z
<1>8. CASE q.index[c] = added_ /\ q.epoll[f] = None
  <2>1. z = q
    BY <1>3, <1>8, Zenon DEF update_channel, UpdateOp, _update, CtlOk, is_event_none
  <2>2. Agrees(q, {})
    BY <1>1, <1>8 DEF Good, Registered, Mapped, Agrees
  <2> QED BY <2>1, <2>2 DEF Good
<1>9. CASE q.index[c] = added_ /\ q.epoll[f] # None /\ q.events[c] = {}
  <2>1. /\ z.fd = q.fd /\ z.events = q.events /\ z.channels_ = q.channels_
        /\ z.index = [q.index EXCEPT ![c] = deleted_]
        /\ z.epoll = [q.epoll EXCEPT ![f] = None]
        /\ z.interest = [q.interest EXCEPT ![f] = {}]
    BY <1>3, <1>9, Zenon
    DEF update_channel, UpdateOp, _update, CtlOk, SetIndex, SetEntry, Poller, is_event_none
  <2> HIDE DEF z
  <2>2. Typed(z)
    BY <1>1, <1>3, <1>9, <2>1 DEF Good, Typed
  <2>3. Mapped(z, L)
    BY <1>1, <1>3, <1>9, <2>1 DEF Good, Typed, Mapped
  <2>4. Registered(z)
    BY <1>1, <1>3, <1>9, <2>1 DEF Good, Typed, Mapped, Registered
  <2>5. Agrees(z, {})
    BY <1>1, <1>3, <1>9, <2>1 DEF Good, Typed, Mapped, Registered, Agrees
  <2> QED BY <2>2, <2>3, <2>4, <2>5 DEF Good, z
<1>10. CASE q.index[c] = added_ /\ q.epoll[f] # None /\ q.events[c] # {}
  <2>1. /\ z.fd = q.fd /\ z.events = q.events /\ z.channels_ = q.channels_
        /\ z.index = q.index
        /\ z.epoll = [q.epoll EXCEPT ![f] = c]
        /\ z.interest = [q.interest EXCEPT ![f] = q.events[c]]
    BY <1>3, <1>10, Zenon
    DEF update_channel, UpdateOp, _update, CtlOk, SetIndex, SetEntry, Poller, is_event_none
  <2> HIDE DEF z
  <2>2. Typed(z)
    <3>1. Typed(q) BY DEF Good
    <3>2. q.events[c] \in SUBSET Event BY <1>1, <3>1 DEF Typed
    <3>3. z.epoll \in [Fd -> Channel \cup {None}] BY <1>1, <2>1, <3>1 DEF Typed
    <3>4. z.interest \in [Fd -> SUBSET Event] BY <2>1, <3>1, <3>2, Zenon DEF Typed
    <3> QED BY <2>1, <3>1, <3>3, <3>4, Zenon DEF Typed
  <2>3. Mapped(z, L)
    BY <1>1, <1>3, <1>10, <2>1 DEF Good, Typed, Mapped
  <2>4. Registered(z)
    BY <1>1, <1>3, <1>10, <2>1 DEF Good, Typed, Mapped, Registered
  <2>5. Agrees(z, {})
    BY <1>1, <1>3, <1>10, <2>1 DEF Good, Typed, Mapped, Registered, Agrees
  <2> QED BY <2>2, <2>3, <2>4, <2>5 DEF Good, z
<1> QED BY <1>6, <1>7, <1>8, <1>9, <1>10

\* remove_channel takes a channel out of the map and out of the kernel, or
\* leaves everything as it is.
LEMMA RemoveOK ==
    ASSUME NEW q, NEW L, NEW c \in L, Good(q, L, {})
    PROVE  Good(remove(q, c), L, {})
<1> DEFINE z == remove_channel(q, c)
           f == q.fd[c]
<1> USE NoneAssumption DEF new_, added_, deleted_
<1>1. c \in Channel /\ f \in Fd /\ c # None /\ q.index[c] \in {new_, added_, deleted_}
  BY DEF Good, Mapped, Typed
<1>2. q.index[c] # new_ => q.channels_[f] = c
  BY <1>1 DEF Good, Mapped
<1>3. CASE q.events[c] = {} /\ q.index[c] # new_
  <2>1. q.index[c] # added_ => q.epoll[f] = None
    BY <1>1, <1>2, <1>3 DEF Good, Registered
  <2>2. /\ z.fd = q.fd /\ z.events = q.events
        /\ z.index = [q.index EXCEPT ![c] = new_]
        /\ z.channels_ = [q.channels_ EXCEPT ![f] = None]
        /\ \/ z.epoll = [q.epoll EXCEPT ![f] = None] /\ z.interest = [q.interest EXCEPT ![f] = {}]
           \/ q.epoll[f] = None /\ z.epoll = q.epoll /\ z.interest = q.interest
    BY <1>1, <1>2, <1>3, <2>1, Zenon
    DEF remove_channel, has_channel, is_event_none, _update, CtlOk, SetIndex, SetEntry, Poller
  <2> HIDE DEF z
  <2>3. Typed(z)
    BY <1>1, <2>2 DEF Good, Typed
  <2>4. Mapped(z, L)
    <3>0. Typed(q) /\ Mapped(q, L) BY DEF Good
    <3>1. ASSUME NEW g \in Fd, z.channels_[g] # None
          PROVE  z.channels_[g] \in L /\ q.fd[z.channels_[g]] = g /\ z.index[z.channels_[g]] # new_
      <4>1. g # f /\ z.channels_[g] = q.channels_[g] BY <1>1, <2>2, <3>0, <3>1 DEF Typed
      <4>2. q.channels_[g] \in L /\ q.fd[q.channels_[g]] = g /\ q.index[q.channels_[g]] # new_
        BY <3>0, <3>1, <4>1, Zenon DEF Mapped
      <4>3. z.index[q.channels_[g]] = q.index[q.channels_[g]]
        BY <1>1, <2>2, <3>0, <4>1, <4>2 DEF Typed, Mapped
      <4> QED BY <4>1, <4>2, <4>3
    <3>2. ASSUME NEW d \in L, z.index[d] # new_ PROVE z.channels_[q.fd[d]] = d
      <4>1. d # c /\ d \in Channel /\ z.index[d] = q.index[d] BY <1>1, <2>2, <3>0, <3>2 DEF Typed, Mapped
      <4>2. q.channels_[q.fd[d]] = d /\ q.fd[d] # f BY <3>0, <3>2, <4>1 DEF Mapped
      <4>3. q.fd[d] \in Fd BY <3>0, <4>1 DEF Typed
      <4> QED BY <2>2, <3>0, <4>2, <4>3, Zenon DEF Typed
    <3>3. z.fd = q.fd BY <2>2
    <3>4. L \subseteq Channel /\ \A a, b \in L : q.fd[a] = q.fd[b] => a = b BY <3>0 DEF Mapped
    <3> QED BY <3>1, <3>2, <3>3, <3>4 DEF Mapped
  <2>5. Registered(z)
    BY <1>1, <1>2, <1>3, <2>2 DEF Good, Typed, Mapped, Registered
  <2>6. Agrees(z, {})
    BY <1>1, <2>2 DEF Good, Typed, Agrees
  <2>7. remove(q, c) = z
    BY <1>3 DEF remove, is_event_none, z
  <2> QED BY <2>3, <2>4, <2>5, <2>6, <2>7 DEF Good
<1>4. CASE ~(q.events[c] = {} /\ q.index[c] # new_)
  BY <1>4, Zenon DEF remove, remove_channel, is_event_none
<1> QED BY <1>3, <1>4

\* A new channel on a descriptor no live channel has starts unregistered.
LEMMA ConstructOK ==
    ASSUME NEW q, NEW L, Good(q, L, {}), NEW c \in Channel, c \notin L, NEW f \in Fd,
           \A d \in L : q.fd[d] # f
    PROVE  Good(NewChannel(q, c, f), L \cup {c}, {})
<1> DEFINE z == NewChannel(q, c, f)
<1> USE NoneAssumption DEF new_, added_, deleted_
<1>1. /\ z.fd = [q.fd EXCEPT ![c] = f] /\ z.index = [q.index EXCEPT ![c] = new_]
      /\ z.events = [q.events EXCEPT ![c] = {}] /\ z.channels_ = q.channels_
      /\ z.epoll = q.epoll /\ z.interest = q.interest
  BY DEF NewChannel, Poller
<1> HIDE DEF z
<1>2. \A g \in Fd : q.channels_[g] # c /\ q.epoll[g] # c
  BY DEF Good, Typed, Mapped, Registered
<1>3. Typed(z)
  BY <1>1 DEF Good, Typed
<1>4. Mapped(z, L \cup {c})
  BY <1>1, <1>2 DEF Good, Typed, Mapped
<1>5. Registered(z)
  BY <1>1, <1>2 DEF Good, Typed, Mapped, Registered
<1>6. Agrees(z, {})
  BY <1>1, <1>2 DEF Good, Typed, Agrees, Registered, Mapped
<1> QED BY <1>3, <1>4, <1>5, <1>6 DEF Good, z

\* Closing the descriptor of a removed channel disturbs nothing.
LEMMA DestroyOK ==
    ASSUME NEW q, NEW L, Good(q, L, {}), NEW c \in L, q.index[c] = new_
    PROVE  Good(CloseFd(q, q.fd[c]), L \ {c}, {})
<1> DEFINE z == CloseFd(q, q.fd[c])
           f == q.fd[c]
<1> USE NoneAssumption DEF new_, added_, deleted_
<1>1. /\ z.fd = q.fd /\ z.index = q.index /\ z.events = q.events /\ z.channels_ = q.channels_
      /\ z.epoll = [q.epoll EXCEPT ![f] = None]
      /\ z.interest = [q.interest EXCEPT ![f] = {}]
  BY Zenon DEF CloseFd, Poller
<1> HIDE DEF z
<1>2. c \in Channel /\ f \in Fd
  BY DEF Good, Typed, Mapped
<1>3. \A g \in Fd : q.channels_[g] # c
  BY <1>2 DEF Good, Typed, Mapped
<1>4. Typed(z)
  BY <1>1, <1>2 DEF Good, Typed
<1>5. Mapped(z, L \ {c})
  <2>1. Mapped(q, L) BY DEF Good
  <2>2. \A g \in Fd : q.channels_[g] # None =>
            q.channels_[g] \in L \ {c} /\ q.fd[q.channels_[g]] = g /\ q.index[q.channels_[g]] # new_
    BY <1>3, <2>1, Zenon DEF Mapped
  <2>3. z.fd = q.fd /\ z.index = q.index /\ z.channels_ = q.channels_ BY <1>1, Zenon
  <2> QED BY <2>1, <2>2, <2>3 DEF Mapped
<1>6. Registered(z)
  BY <1>1, <1>2 DEF Good, Typed, Registered
<1>7. Agrees(z, {})
  BY <1>1, <1>2 DEF Good, Typed, Agrees
<1> QED BY <1>4, <1>5, <1>6, <1>7, Zenon DEF Good, z

\* In a consistent poller every reported pointer is known.
LEMMA FillOK ==
    ASSUME Good(p, live, {}), NEW n \in Nat, NEW s \in Reports(n)
    PROVE  /\ _fill_active_channels(s) \in Seq(Channel)
           /\ Len(_fill_active_channels(s)) = Len(s)
<1>1. s \in [1 .. n -> ReadyFds] /\ Len(s) = n
  BY DEF Reports
<1>2. \A i \in 1 .. n : Known(s, i) /\ p.epoll[s[i]] \in Channel
  <2> TAKE i \in 1 .. n
  <2>1. s[i] \in Fd /\ p.epoll[s[i]] # None
    BY <1>1, Zenon DEF ReadyFds
  <2>2. p.epoll[s[i]] \in Channel /\ p.channels_[s[i]] = p.epoll[s[i]]
    BY <2>1 DEF Good, Typed, Registered
  <2>3. p.fd[p.epoll[s[i]]] = s[i]
    BY <2>1, <2>2, NoneAssumption DEF Good, Mapped
  <2> QED BY <2>2, <2>3 DEF Known
<1> DEFINE T(k) == (\A i \in 1 .. k : Known(s, i)) /\ (k = Len(s) \/ ~Known(s, k + 1))
           k0 == CHOOSE k \in 0 .. Len(s) : T(k)
<1>3. T(n)
  BY <1>1, <1>2
<1>4. \A k \in 0 .. n : T(k) => k = n
  <2> SUFFICES ASSUME NEW k \in 0 .. n, T(k), k # n PROVE FALSE
    BY Zenon
  <2>1. k + 1 \in 1 .. n /\ ~Known(s, k + 1)
    BY <1>1
  <2> QED BY <1>2, <2>1
<1> HIDE DEF T
<1>5. k0 \in 0 .. n /\ T(k0)
  BY <1>1, <1>3
<1>6. k0 = n
  BY <1>4, <1>5
<1>7. _fill_active_channels(s) = [i \in 1 .. n |-> p.epoll[s[i]]]
  BY <1>6, Zenon DEF _fill_active_channels, T
<1> QED BY <1>1, <1>2, <1>7
-----------------------------------------------------------------------------
\* The inductive invariant.
PollerInv ==
    /\ Good(p, live, {})
    /\ ready \subseteq Fd
    /\ events_size \in Nat \ {0}
    /\ active_channels_ \in Seq(Channel)

\* Any mask a channel can set and update_channel together keep the poller good.
LEMMA ChannelUpdateOK ==
    ASSUME NEW c \in live, NEW ok \in BOOLEAN, NEW ev \in SUBSET Event, Good(p, live, {})
    PROVE  Good(update_channel(SetEvents(p, c, ev), c, ok), live, {})
BY SetEventsOK, UpdateOK, Zenon

LEMMA PollerStarts ==
    ASSUME PollerInit
    PROVE  PollerInv
<1>1. PICK f \in Fd : p = Poller([c \in Channel |-> f], [c \in Channel |-> new_],
            [c \in Channel |-> {}], [g \in Fd |-> None], [g \in Fd |-> None], [g \in Fd |-> {}])
  BY Zenon DEF PollerInit
<1>2. /\ p.fd = [c \in Channel |-> f] /\ p.index = [c \in Channel |-> new_]
      /\ p.events = [c \in Channel |-> {}] /\ p.channels_ = [g \in Fd |-> None]
      /\ p.epoll = [g \in Fd |-> None] /\ p.interest = [g \in Fd |-> {}]
  BY <1>1 DEF Poller
<1>3. Good(p, live, {})
  BY <1>2, Zenon DEF PollerInit, Good, Typed, Mapped, Registered, Agrees
<1> QED BY <1>3, SizeAssumption DEF PollerInit, PollerInv

\* The step of the induction, one case per action.
LEMMA PollerStep ==
    ASSUME PollerInv, PollerNext
    PROVE  PollerInv'
<1> USE DEF PollerInv
<1>1. ASSUME NEW c \in Channel, NEW f \in Fd, Construct(c, f) PROVE PollerInv'
  <2>1. \A d \in live : p.fd[d] # f
    BY <1>1 DEF Construct, Open
  <2>2. Good(NewChannel(p, c, f), live \cup {c}, {})
    BY <1>1, <2>1, ConstructOK DEF Construct
  <2> QED BY <1>1, <2>2 DEF Construct
<1>2. ASSUME NEW c \in Channel, Update(c) PROVE PollerInv'
  <2>1. PICK ok \in BOOLEAN :
            \/ p' = enable_reading(p, c, ok)
            \/ p' = disable_reading(p, c, ok)
            \/ p' = enable_writing(p, c, ok)
            \/ p' = disable_writing(p, c, ok)
            \/ p' = disable_all(p, c, ok)
    BY <1>2, Zenon DEF Update
  <2>2. c \in live /\ p.events[c] \in SUBSET Event
    BY <1>2, Zenon DEF Update, Good, Typed
  <2>3. PICK ev \in SUBSET Event : p' = update_channel(SetEvents(p, c, ev), c, ok)
    BY <2>1, <2>2, Zenon DEF enable_reading, disable_reading, enable_writing, disable_writing,
        disable_all, Event, read_event_, write_event_
  <2>4. Good(p', live, {})
    BY <2>2, <2>3, ChannelUpdateOK
  <2> QED BY <1>2, <2>4 DEF Update
<1>3. ASSUME NEW c \in Channel, Remove(c) PROVE PollerInv'
  BY <1>3, RemoveOK DEF Remove
<1>4. ASSUME NEW c \in Channel, Destroy(c) PROVE PollerInv'
  <2>1. Good(CloseFd(p, p.fd[c]), live \ {c}, {})
    BY <1>4, DestroyOK, Zenon DEF Destroy
  <2> QED BY <1>4, <2>1 DEF Destroy
<1>5. ASSUME NEW f \in Fd, Arrive(f) PROVE PollerInv'
  BY <1>5 DEF Arrive
<1>6. ASSUME PollSome PROVE PollerInv'
  <2>1. PICK n \in 1 .. events_size : \E s \in Reports(n) : poll(s)
    BY <1>6 DEF PollSome
  <2>2. PICK s \in Reports(n) : poll(s)
    BY <2>1
  <2>3. n \in Nat
    BY <2>1
  <2>4. _fill_active_channels(s) \in Seq(Channel)
    BY <2>3, FillOK
  <2>5. active_channels_' \in Seq(Channel) /\ UNCHANGED <<p, live, ready>>
    BY <2>2, <2>4 DEF poll
  <2>6. events_size' \in Nat \ {0}
    BY <2>2 DEF poll
  <2> QED BY <2>5, <2>6
<1>7. ASSUME HandleEvent PROVE PollerInv'
  BY <1>7 DEF HandleEvent
<1> QED BY <1>1, <1>2, <1>3, <1>4, <1>5, <1>6, <1>7 DEF PollerNext

LEMMA PollerInductive == PollerSpec => []PollerInv
<1>1. PollerInit => PollerInv
  BY PollerStarts
<1>2. PollerInv /\ [PollerNext]_pollerVars => PollerInv'
  <2> SUFFICES ASSUME PollerInv, [PollerNext]_pollerVars PROVE PollerInv'
    OBVIOUS
  <2>1. CASE PollerNext
    BY <2>1, PollerStep
  <2>2. CASE UNCHANGED pollerVars
    BY <2>2, Zenon DEF pollerVars, PollerInv
  <2> QED BY <2>1, <2>2
<1> QED BY <1>1, <1>2, PTL DEF PollerSpec

\* The state of the poller keeps its type.
THEOREM PollerTypeCorrect == PollerSpec => []PollerTypeOK
<1>1. PollerInv => PollerTypeOK
  BY DEF PollerInv, Good, Typed, Mapped, PollerTypeOK
<1> QED BY <1>1, PollerInductive, PTL

\* The kernel never holds a pointer to a channel that is gone or that
\* channels_ does not know, whichever epoll_ctl calls of update_channel fail
\* and however descriptors and addresses are reused.
THEOREM RegistrationCorrect == PollerSpec => []RegistrationInv
<1>1. PollerInv => RegistrationInv
  <2> SUFFICES ASSUME PollerInv, NEW f \in Fd, p.epoll[f] # None
               PROVE  /\ p.epoll[f] \in live
                      /\ p.fd[p.epoll[f]] = f
                      /\ p.channels_[f] = p.epoll[f]
                      /\ p.interest[f] = p.events[p.epoll[f]]
    BY DEF RegistrationInv
  <2>1. p.channels_[f] = p.epoll[f]
    BY Zenon DEF PollerInv, Good, Registered
  <2> QED BY <2>1 DEF PollerInv, Good, Mapped, Agrees
<1> QED BY <1>1, PollerInductive, PTL

\* update_channel never refuses a new channel because of an entry that an
\* earlier channel with the same descriptor left in channels_.
THEOREM FdReuseCorrect == PollerSpec => []FdReusable
<1>1. PollerInv => FdReusable
  BY DEF PollerInv, Good, Typed, Mapped, FdReusable
<1> QED BY <1>1, PollerInductive, PTL

\* _fill_active_channels drops no event.
THEOREM ReportCorrect == PollerSpec => AllReported
<1>1. PollerInv /\ [PollerNext]_pollerVars =>
        [\A n \in 1 .. events_size : \A s \in Reports(n) :
            poll(s) => Len(active_channels_') = Len(s)]_pollerVars
  <2> SUFFICES ASSUME PollerInv, NEW n \in 1 .. events_size, NEW s \in Reports(n), poll(s)
               PROVE  Len(active_channels_') = Len(s)
    OBVIOUS
  <2>1. n \in Nat
    BY DEF PollerInv
  <2>2. Len(_fill_active_channels(s)) = Len(s)
    BY <2>1, FillOK DEF PollerInv
  <2> QED BY <2>2 DEF poll
<1> QED BY <1>1, PollerInductive, PTL DEF PollerSpec, AllReported
-----------------------------------------------------------------------------
(***************************************************************************)
(* TimerQueue.  An entry of timers_ belongs to a timer that was asked for  *)
(* (Entries), a repeating timer's expiration moved as often as its         *)
(* callback returned (Steady), and what lies before the walk's iterator    *)
(* was visited or was added in this walk (Walked).                         *)
(***************************************************************************)
QueueTypes ==
    /\ now \in 0 .. MaxTime /\ limit \in 0 .. MaxTime
    /\ timers_ \subseteq (0 .. MaxTime) \X Timer
    /\ iter = Idle \/ iter \in (0 .. MaxTime) \X Timer
    /\ expiration_ \in [Timer -> Nat] /\ interval_ \in [Timer -> Nat]
    /\ repeat_count_ \in [Timer -> Int] /\ runs \in [Timer -> Nat]
    /\ asked \in [Timer -> Int] /\ first \in [Timer -> Nat]

Entries ==
    /\ \A e \in timers_ : asked[e[2]] # 0
    /\ iter # Idle => asked[iter[2]] # 0
    /\ called => iter # Idle
    /\ iter # Idle /\ ~called => iter \in timers_
    /\ \A t \in Timer : asked[t] = 0 => runs[t] = 0

\* How often the expiration of t moved: the run that is still going on is not counted.
Moves(t) == IF called /\ iter[2] = t THEN runs[t] - 1 ELSE runs[t]

Steady ==
    \A t \in Timer : asked[t] = -1 =>
        repeat_count_[t] = -1 /\ expiration_[t] = first[t] + interval_[t] * Moves(t)

Walked == iter # Idle => \A e \in timers_ : Before(e, iter) => e[2] \in seen

TimersInv == QueueTypes /\ Entries /\ Steady /\ Walked
-----------------------------------------------------------------------------
(***************************************************************************)
(* Where an iterator moves on to.                                          *)
(***************************************************************************)
INSTANCE WellFoundedInduction

LEMMA LeastNat ==
  ASSUME NEW S \in SUBSET Nat, S # {}
  PROVE  \E n \in S : \A m \in S : n <= m
<1> DEFINE R == OpToRel(<, Nat)
<1>1. IsWellFoundedOn(R, Nat) BY NatLessThanWellFounded, Zenon
<1>2. \A m, n \in Nat : m < n => <<m, n>> \in R BY DEF OpToRel
<1> HIDE DEF R
<1>3. PICK n \in S : \A m \in S : ~ (<<m, n>> \in R) BY <1>1, WFMin, Zenon
<1>4. \A m \in S : ~(m < n) /\ m \in Nat /\ n \in Nat BY <1>2, <1>3, Zenon
<1> QED BY <1>3, <1>4

LEMMA EntryParts ==
  ASSUME NEW e \in (0 .. MaxTime) \X Timer
  PROVE  e[1] \in Nat /\ e[2] \in Nat /\ e[2] \in Timer /\ e # Idle
<1>1. e[1] \in 0 .. MaxTime /\ e[2] \in Timer OBVIOUS
<1>2. Timer \subseteq Nat /\ MaxTime \in Nat BY TimerAssumption
<1>3. e[1] # Idle[1] BY <1>1, <1>2 DEF Idle
<1>4. e[1] \in Nat /\ e[2] \in Nat
  <2>1. e[1] \in Nat BY <1>1, <1>2
  <2>2. e[2] \in Nat BY <1>1, <1>2, Zenon
  <2> QED BY <2>1, <2>2
<1>5. e # Idle BY <1>3
<1> QED BY <1>1, <1>4, <1>5

\* A set of entries has a first one, in the order of std::set.
LEMMA FirstEntry ==
  ASSUME NEW s \in SUBSET ((0 .. MaxTime) \X Timer), s # {}
  PROVE  \E d \in s : \A x \in s : ~Before(x, d)
<1>1. \A e \in s : e[1] \in Nat /\ e[2] \in Nat BY EntryParts
<1> DEFINE times == {e[1] : e \in s}
<1>2. PICK n \in times : \A m \in times : n <= m
  <2>1. times \in SUBSET Nat /\ times # {} BY <1>1
  <2> HIDE DEF times
  <2> QED BY <2>1, LeastNat
<1> DEFINE early == {e \in s : e[1] = n}
           ids   == {e[2] : e \in early}
<1>3. PICK k \in ids : \A m \in ids : k <= m
  <2>1. ids \in SUBSET Nat /\ ids # {} BY <1>1, <1>2
  <2> HIDE DEF ids
  <2> QED BY <2>1, LeastNat
<1>4. PICK d \in s : d[1] = n /\ d[2] = k BY <1>3
<1>5. ASSUME NEW x \in s PROVE ~Before(x, d)
  <2>1. n <= x[1] /\ (x[1] = n => k <= x[2]) BY <1>2, <1>3
  <2> QED BY <1>1, <1>4, <2>1 DEF Before
<1> QED BY <1>5

\* The iterator moves to the first entry behind e, or to the end.
Moved(s, e, d) ==
    \/ d = Idle /\ \A x \in s : ~Before(e, x)
    \/ d # Idle /\ d \in s /\ Before(e, d) /\ \A x \in s : Before(e, x) => ~Before(x, d)

LEMMA FollowingMoves ==
  ASSUME NEW s \in SUBSET ((0 .. MaxTime) \X Timer), NEW e
  PROVE  Moved(s, e, Following(s, e))
<1> DEFINE later == {d \in s : Before(e, d)}
           f == Following(s, e)
<1>1. CASE later = {}
  <2>1. f = Idle BY <1>1 DEF Following
  <2> QED BY <1>1, <2>1 DEF Moved
<1>2. CASE later # {}
  <2>1. \E d \in later : \A x \in later : ~Before(x, d)
    <3>1. later \in SUBSET ((0 .. MaxTime) \X Timer) OBVIOUS
    <3> HIDE DEF later
    <3> QED BY <1>2, <3>1, FirstEntry
  <2>2. f = CHOOSE d \in later : \A x \in later : ~Before(x, d) BY <1>2 DEF Following
  <2>3. f \in later /\ \A x \in later : ~Before(x, f)
    <3> HIDE DEF f, later
    <3> QED BY <2>1, <2>2
  <2>4. f # Idle BY <2>3, EntryParts
  <2> QED BY <2>3, <2>4 DEF Moved
<1> QED BY <1>1, <1>2

\* Two entries are the same or one is before the other.
LEMMA EntryOrder ==
  ASSUME NEW d \in (0 .. MaxTime) \X Timer, NEW e \in (0 .. MaxTime) \X Timer
  PROVE  d = e \/ Before(d, e) \/ Before(e, d)
<1>1. d[1] \in Nat /\ d[2] \in Nat /\ e[1] \in Nat /\ e[2] \in Nat BY EntryParts
<1>2. d = <<d[1], d[2]>> /\ e = <<e[1], e[2]>> OBVIOUS
<1>3. d[1] = e[1] /\ d[2] = e[2] => d = e BY <1>2
<1> QED BY <1>1, <1>3 DEF Before
-----------------------------------------------------------------------------
(***************************************************************************)
(* What user code does to the queue: timers that were asked for stay as    *)
(* they are, a new one starts at the time it was asked for, and no entry   *)
(* appears but that of a new timer.                                        *)
(***************************************************************************)
CallTypes ==
    /\ timers_ \subseteq (0 .. MaxTime) \X Timer
    /\ expiration_ \in [Timer -> Nat] /\ interval_ \in [Timer -> Nat]
    /\ repeat_count_ \in [Timer -> Int]
    /\ asked \in [Timer -> Int] /\ first \in [Timer -> Nat]

\* A timer that was asked for.
SameTimer(t) ==
    /\ asked'[t] = asked[t] /\ first'[t] = first[t] /\ interval_'[t] = interval_[t]
    /\ repeat_count_'[t] = repeat_count_[t] /\ expiration_'[t] = expiration_[t]

\* A new timer.
NewTimer(t) ==
    /\ asked[t] = 0 /\ asked'[t] # 0
    /\ expiration_'[t] = first'[t]
    /\ asked'[t] = -1 => repeat_count_'[t] = -1

Called ==
    /\ CallTypes'
    /\ \A t \in Timer : SameTimer(t) \/ NewTimer(t)
    /\ \A e \in timers_' : e \in timers_ \/ (e[2] \in seen' /\ asked'[e[2]] # 0)
    /\ seen \subseteq seen'

LEMMA AddCalled ==
  ASSUME CallTypes, NEW t \in Timer, NEW when \in 0 .. MaxTime, NEW interval \in Nat,
         NEW count \in {-1, 1}, add_timer(t, when, interval, count)
  PROVE  Called
<1>1. PICK o \in Overload : repeat_count_' = [repeat_count_ EXCEPT ![t] = RepeatCount(o, count)]
  BY Zenon DEF add_timer
<1>2. RepeatCount(o, count) \in Int /\ (count = -1 => RepeatCount(o, count) = -1) BY DEF RepeatCount
<1>3. /\ expiration_' = [expiration_ EXCEPT ![t] = when] /\ interval_' = [interval_ EXCEPT ![t] = interval]
      /\ asked[t] = 0 /\ asked' = [asked EXCEPT ![t] = count] /\ first' = [first EXCEPT ![t] = when]
      /\ timers_' = timers_ \cup {<<when, t>>} /\ seen' = seen \cup {t}
  BY DEF add_timer
<1>4. when \in Nat /\ <<when, t>> \in (0 .. MaxTime) \X Timer BY TimerAssumption
<1>5. CallTypes' BY <1>1, <1>2, <1>3, <1>4 DEF CallTypes
<1>6. ASSUME NEW u \in Timer PROVE SameTimer(u) \/ NewTimer(u)
  <2>1. CASE u = t BY <1>1, <1>2, <1>3, <2>1 DEF NewTimer, CallTypes
  <2>2. CASE u # t BY <1>1, <1>3, <2>2 DEF SameTimer, CallTypes
  <2> QED BY <2>1, <2>2
<1>7. asked'[t] # 0 BY <1>3 DEF CallTypes
<1>8. ASSUME NEW e \in timers_' PROVE e \in timers_ \/ (e[2] \in seen' /\ asked'[e[2]] # 0)
  BY <1>3, <1>7
<1> QED BY <1>3, <1>5, <1>6, <1>8 DEF Called

LEMMA CallsCalled ==
  ASSUME CallTypes, now \in 0 .. MaxTime, TimerCalls
  PROVE  Called
<1>1. ASSUME NEW t \in Timer, NEW time \in 0 .. MaxTime, run_at(t, time) PROVE Called
  BY <1>1, AddCalled DEF run_at
<1>2. ASSUME NEW t \in Timer, NEW i \in Interval, run_every(t, i) PROVE Called
  <2>1. i \in Nat /\ now \in Nat /\ MaxTime \in Nat BY TimerAssumption
  <2>2. now + i \in 0 .. MaxTime BY <1>2, <2>1 DEF run_every
  <2> QED BY <1>2, <2>1, <2>2, AddCalled DEF run_every
<1>3. ASSUME NEW t \in Timer, remove_timer_in_loop(t) PROVE Called
  BY <1>3 DEF remove_timer_in_loop, timerVars, asks, Called, CallTypes, SameTimer
<1>4. ASSUME NEW t \in Timer, NEW off \in BOOLEAN, cancel_timer_in_loop(t, off) PROVE Called
  BY <1>4 DEF cancel_timer_in_loop, asks, Called, CallTypes, SameTimer
<1>5. ASSUME UNCHANGED <<timers_, timerVars, asks, seen>> PROVE Called
  BY <1>5 DEF timerVars, asks, Called, CallTypes, SameTimer
<1> QED BY <1>1, <1>2, <1>3, <1>4, <1>5 DEF TimerCalls
-----------------------------------------------------------------------------
(***************************************************************************)
(* The steps.                                                              *)
(***************************************************************************)
LEMMA TimersInit == TimerInit => TimersInv
<1> SUFFICES ASSUME TimerInit PROVE TimersInv OBVIOUS
<1>1. QueueTypes
  <2>1. 0 \in 0 .. MaxTime BY TimerAssumption
  <2> QED BY <2>1 DEF TimerInit, QueueTypes
<1>2. Entries BY DEF TimerInit, Entries
<1>3. Steady BY DEF TimerInit, Steady
<1>4. Walked BY DEF TimerInit, Walked
<1> QED BY <1>1, <1>2, <1>3, <1>4 DEF TimersInv

LEMMA TimesZero == \A i \in Nat : i * 0 = 0 OBVIOUS

LEMMA TimesNext == \A i, m \in Nat : i * (m + 1) = (i * m) + i /\ i * m \in Nat OBVIOUS

LEMMA StillSteady ==
  ASSUME Steady, CallTypes',
         \A t \in Timer : \/ SameTimer(t) /\ Moves(t)' = Moves(t)
                          \/ NewTimer(t) /\ Moves(t)' = 0
  PROVE  Steady'
<1> SUFFICES ASSUME NEW t \in Timer, asked'[t] = -1
             PROVE  /\ repeat_count_'[t] = -1
                    /\ expiration_'[t] = first'[t] + interval_'[t] * Moves(t)'
  BY DEF Steady
<1>1. CASE SameTimer(t) /\ Moves(t)' = Moves(t) BY <1>1, Zenon DEF Steady, SameTimer
<1>2. CASE NewTimer(t) /\ Moves(t)' = 0
  <2>1. interval_'[t] \in Nat /\ first'[t] \in Nat BY DEF CallTypes
  <2>2. interval_'[t] * Moves(t)' = 0 BY <1>2, <2>1, TimesZero
  <2>3. first'[t] + 0 = first'[t] BY <2>1
  <2> QED BY <1>2, <2>2, <2>3 DEF NewTimer
<1> QED BY <1>1, <1>2, Zenon

\* What user code may do leaves the entries and the timers right.
LEMMA CalledEntries ==
  ASSUME QueueTypes, Entries, Called
  PROVE  /\ \A e \in timers_' : asked'[e[2]] # 0
         /\ iter # Idle => asked'[iter[2]] # 0
         /\ \A t \in Timer : asked'[t] = 0 => asked[t] = 0
<1>1. \A t \in Timer : asked[t] # 0 => asked'[t] # 0 BY DEF Called, SameTimer, NewTimer
<1>2. ASSUME NEW e \in timers_' PROVE asked'[e[2]] # 0
  <2>1. CASE e \in timers_
    <3>1. e[2] \in Timer /\ asked[e[2]] # 0 BY <2>1 DEF QueueTypes, Entries
    <3> QED BY <1>1, <3>1
  <2>2. CASE e \notin timers_ BY <2>2 DEF Called
  <2> QED BY <2>1, <2>2
<1>3. ASSUME iter # Idle PROVE asked'[iter[2]] # 0
  <2>1. iter[2] \in Timer /\ asked[iter[2]] # 0 BY <1>3 DEF QueueTypes, Entries
  <2> QED BY <1>1, <2>1
<1> QED BY <1>1, <1>2, <1>3

LEMMA FunctorStep ==
  ASSUME TimersInv, Functor
  PROVE  TimersInv'
<1>0. QueueTypes /\ Entries /\ Steady BY DEF TimersInv
<1>1. iter = Idle /\ UNCHANGED <<now, iter, called, limit, runs>> /\ TimerCalls BY DEF Functor
<1>2. Called BY <1>0, <1>1, CallsCalled DEF QueueTypes, CallTypes
<1>3. QueueTypes' BY <1>0, <1>1, <1>2 DEF QueueTypes, Called, CallTypes, Idle
<1>4. ~called BY <1>0, <1>1, Zenon DEF Entries
<1>5. \A t \in Timer : Moves(t) = runs[t] /\ Moves(t)' = runs[t] BY <1>1, <1>4 DEF Moves
<1>6. \A t \in Timer : asked[t] = 0 => runs[t] = 0 BY <1>0 DEF Entries
<1>7. Entries'
  <2>1. /\ \A e \in timers_' : asked'[e[2]] # 0
        /\ \A t \in Timer : asked'[t] = 0 => asked[t] = 0
    BY <1>0, <1>2, CalledEntries
  <2>2. iter' = Idle' BY <1>1 DEF Idle
  <2> QED BY <1>1, <1>4, <1>6, <2>1, <2>2, Zenon DEF Entries
<1>8. Steady'
  <2>1. \A t \in Timer : \/ SameTimer(t) /\ Moves(t)' = Moves(t)
                         \/ NewTimer(t) /\ Moves(t)' = 0
    BY <1>2, <1>5, <1>6, Zenon DEF Called, NewTimer
  <2> QED BY <1>0, <1>2, <2>1, StillSteady DEF Called
<1>9. Walked' BY <1>1 DEF Walked, Idle
<1> QED BY <1>3, <1>7, <1>8, <1>9 DEF TimersInv

LEMMA CallbackStep ==
  ASSUME TimersInv, Callback
  PROVE  TimersInv'
<1>0. QueueTypes /\ Entries /\ Steady /\ Walked BY DEF TimersInv
<1>1. /\ iter # Idle /\ ~called /\ called' /\ UNCHANGED <<now, iter, limit>> /\ TimerCalls
      /\ runs' = [runs EXCEPT ![iter[2]] = runs[iter[2]] + 1]
  BY DEF Callback
<1>2. Called BY <1>0, <1>1, CallsCalled DEF QueueTypes, CallTypes
<1>a. iter[2] \in Timer /\ asked[iter[2]] # 0 /\ runs \in [Timer -> Nat]
  BY <1>0, <1>1 DEF QueueTypes, Entries
<1>b. runs' \in [Timer -> Nat] BY <1>1, <1>a
<1>3. QueueTypes' BY <1>0, <1>1, <1>2, <1>b DEF QueueTypes, Called, CallTypes, Idle
<1>5. ASSUME NEW t \in Timer PROVE Moves(t) = runs[t] /\ Moves(t)' = runs[t]
  <2>1. CASE t = iter[2]
    <3>1. runs'[t] = runs[t] + 1 /\ runs[t] \in Nat BY <1>1, <1>a, <2>1
    <3>2. runs'[t] - 1 = runs[t] BY <3>1
    <3> QED BY <1>1, <2>1, <3>2 DEF Moves
  <2>2. CASE t # iter[2]
    <3>1. runs'[t] = runs[t] BY <1>1, <1>a, <2>2
    <3> QED BY <1>1, <2>2, <3>1 DEF Moves
  <2> QED BY <2>1, <2>2
<1>6. \A t \in Timer : asked[t] = 0 => runs[t] = 0 /\ t # iter[2] BY <1>0, <1>a DEF Entries
<1>7. Entries'
  <2>1. /\ \A e \in timers_' : asked'[e[2]] # 0
        /\ iter # Idle => asked'[iter[2]] # 0
        /\ \A t \in Timer : asked'[t] = 0 => asked[t] = 0
    BY <1>0, <1>2, CalledEntries
  <2>2. iter' # Idle' /\ iter' = iter BY <1>1, Zenon DEF Idle
  <2>3. \A t \in Timer : asked'[t] = 0 => runs'[t] = 0 BY <1>1, <1>6, <1>a, <2>1, Zenon
  <2> QED BY <1>1, <2>1, <2>2, <2>3 DEF Entries
<1>8. Steady'
  <2>1. \A t \in Timer : \/ SameTimer(t) /\ Moves(t)' = Moves(t)
                         \/ NewTimer(t) /\ Moves(t)' = 0
    BY <1>2, <1>5, <1>6, Zenon DEF Called, NewTimer
  <2> QED BY <1>0, <1>2, <2>1, StillSteady DEF Called
<1>9. Walked'
  <2>1. ASSUME NEW e \in timers_', Before(e, iter) PROVE e[2] \in seen'
    BY <1>0, <1>1, <1>2, <2>1, Zenon DEF Walked, Called
  <2> QED BY <1>1, <2>1 DEF Walked, Before
<1> QED BY <1>3, <1>7, <1>8, <1>9 DEF TimersInv

\* The steps that touch no timer, outside a callback.
LEMMA QuietSteady ==
  ASSUME Steady, ~called, ~called', UNCHANGED <<timerVars, asks, runs>>
  PROVE  Steady'
<1>1. \A t : Moves(t) = runs[t] /\ Moves(t)' = runs[t] BY DEF Moves
<1> QED BY <1>1 DEF Steady, timerVars, asks

LEMMA BeginStep ==
  ASSUME TimersInv, BeginWalk
  PROVE  TimersInv'
<1>0. QueueTypes /\ Entries /\ Steady BY DEF TimersInv
<1>1. /\ iter = Idle /\ limit' = now /\ iter' = Following(timers_, <<-1, 0>>)
      /\ UNCHANGED <<now, timers_, timerVars, called, asks, runs>>
  BY DEF BeginWalk
<1>2. Moved(timers_, <<-1, 0>>, iter') BY <1>0, <1>1, FollowingMoves DEF QueueTypes
<1>3. ~called BY <1>0, <1>1, Zenon DEF Entries
<1>4. iter' = Idle \/ iter' \in timers_ BY <1>2 DEF Moved
<1>5. QueueTypes' BY <1>0, <1>1, <1>4, Zenon DEF QueueTypes, timerVars, asks, Idle
<1>6. Entries' BY <1>0, <1>1, <1>3, <1>4 DEF Entries, asks, Idle
<1>7. Steady' BY <1>0, <1>1, <1>3, QuietSteady
<1>8. Walked'
  <2> SUFFICES ASSUME iter' # Idle, NEW e \in timers_, Before(e, iter') PROVE FALSE
    BY <1>1 DEF Walked, Before, Idle
  <2>1. e[1] \in Nat BY <1>0, EntryParts DEF QueueTypes
  <2>2. Before(<<-1, 0>>, e) BY <2>1 DEF Before
  <2> QED BY <1>2, <2>2 DEF Moved
<1> QED BY <1>5, <1>6, <1>7, <1>8 DEF TimersInv

LEMMA BreakStep ==
  ASSUME TimersInv, Break
  PROVE  TimersInv'
<1>0. QueueTypes /\ Entries /\ Steady BY DEF TimersInv
<1>1. /\ ~called /\ iter' = Idle /\ UNCHANGED <<now, timers_, timerVars, called, limit, asks, runs>>
  BY DEF Break
<1>2. QueueTypes' BY <1>0, <1>1 DEF QueueTypes, timerVars, asks, Idle
<1>3. Entries' BY <1>0, <1>1 DEF Entries, asks, Idle
<1>4. Steady' BY <1>0, <1>1, QuietSteady
<1>5. Walked' BY <1>1 DEF Walked, Idle
<1> QED BY <1>2, <1>3, <1>4, <1>5 DEF TimersInv

\* The walk moves on from the entry it visited: what lies before the new one was
\* visited before, or is the old one.
LEMMA WalkedOn ==
  ASSUME QueueTypes, Walked, iter # Idle, NEW s \in SUBSET timers_, Moved(s, iter, iter'),
         timers_' = s, seen' = seen \cup {iter[2]}
  PROVE  /\ Walked'
         /\ iter' = Idle => \A e \in s : e[2] \in seen'
<1>1. iter \in (0 .. MaxTime) \X Timer /\ s \subseteq (0 .. MaxTime) \X Timer BY DEF QueueTypes
<1>2. ASSUME NEW e \in s, ~Before(iter, e) PROVE e[2] \in seen'
  <2>1. e = iter \/ Before(e, iter) BY <1>1, <1>2, EntryOrder
  <2> QED BY <2>1 DEF Walked
<1>3. ASSUME iter' # Idle, NEW e \in s, Before(e, iter') PROVE e[2] \in seen'
  BY <1>2, <1>3 DEF Moved
<1>4. Walked' BY <1>3 DEF Walked, Before, Idle
<1>5. ASSUME iter' = Idle, NEW e \in s PROVE e[2] \in seen' BY <1>2, <1>5 DEF Moved
<1> QED BY <1>4, <1>5

LEMMA CanceledStep ==
  ASSUME TimersInv, RunCanceled
  PROVE  /\ TimersInv'
         /\ iter' = Idle => \A e \in timers_' : e[2] \in seen'
<1>0. QueueTypes /\ Entries /\ Steady /\ Walked BY DEF TimersInv
<1>1. /\ iter # Idle /\ ~called /\ iter' = Following(timers_, iter) /\ seen' = seen \cup {iter[2]}
      /\ UNCHANGED <<now, timers_, timerVars, called, limit, asks, runs>>
  BY DEF RunCanceled, Advance
<1>2. Moved(timers_, iter, iter') BY <1>0, <1>1, FollowingMoves DEF QueueTypes
<1>3. iter' = Idle \/ iter' \in timers_ BY <1>2 DEF Moved
<1>4. QueueTypes' BY <1>0, <1>1, <1>3 DEF QueueTypes, timerVars, asks, Idle
<1>5. Entries' BY <1>0, <1>1, <1>3 DEF Entries, asks, Idle
<1>6. Steady' BY <1>0, <1>1, QuietSteady, Zenon
<1>7. Walked' /\ (iter' = Idle => \A e \in timers_' : e[2] \in seen') BY <1>0, <1>1, <1>2, WalkedOn
<1> QED BY <1>4, <1>5, <1>6, <1>7, Zenon DEF TimersInv

LEMMA AfterTypes ==
  ASSUME QueueTypes, Entries, AfterCallback
  PROVE  /\ iter # Idle /\ iter \in (0 .. MaxTime) \X Timer /\ iter[2] \in Timer
         /\ timers_' \in SUBSET timers_ /\ seen' = seen \cup {iter[2]}
         /\ ~called' /\ UNCHANGED <<now, interval_, limit, asks, runs>>
         /\ wild' \/ Moved(timers_', iter, iter')
         /\ iter' = Idle \/ iter' \in timers_'
<1>1. iter # Idle /\ iter \in (0 .. MaxTime) \X Timer /\ iter[2] \in Timer
  <2>1. iter # Idle BY Zenon DEF AfterCallback, Entries
  <2>2. iter \in (0 .. MaxTime) \X Timer BY <2>1, Zenon DEF QueueTypes
  <2> QED BY <2>1, <2>2
<1>2. /\ timers_' \in SUBSET timers_ /\ seen' = seen \cup {iter[2]}
      /\ ~called' /\ UNCHANGED <<now, interval_, limit, asks, runs>>
  BY DEF AfterCallback
<1>3. CASE iter \in timers_
  <2>1. iter' = Following(timers_', iter) BY <1>3, Zenon DEF AfterCallback, Advance
  <2>2. timers_' \in SUBSET ((0 .. MaxTime) \X Timer) BY <1>2 DEF QueueTypes
  <2>3. Moved(timers_', iter, iter') BY <2>1, <2>2, FollowingMoves
  <2>4. iter' = Idle \/ iter' \in timers_' BY <2>3 DEF Moved
  <2> QED BY <1>1, <1>2, <2>3, <2>4
<1>4. CASE iter \notin timers_
  <2>1. wild' /\ iter' = Idle BY <1>4, Zenon DEF AfterCallback
  <2> QED BY <1>1, <1>2, <2>1
<1> QED BY <1>3, <1>4

\* Timer::run moves the expiration by one interval, once the callback has returned.
LEMMA AfterSteady ==
  ASSUME QueueTypes, Entries, Steady, AfterCallback
  PROVE  /\ expiration_' \in [Timer -> Nat] /\ repeat_count_' \in [Timer -> Int]
         /\ Steady'
<1> DEFINE t == iter[2]
           n == Count(repeat_count_[t])
<1>1. t \in Timer /\ ~called' /\ called /\ UNCHANGED <<interval_, asked, first, runs>>
  BY AfterTypes, Zenon DEF AfterCallback, asks
<1>2. /\ repeat_count_' = [repeat_count_ EXCEPT ![t] = n]
      /\ expiration_' = IF n = 0 THEN expiration_
                        ELSE [expiration_ EXCEPT ![t] = expiration_[t] + interval_[t]]
  BY Zenon DEF AfterCallback, NextTime
<1>3. /\ repeat_count_ \in [Timer -> Int] /\ expiration_ \in [Timer -> Nat]
      /\ interval_ \in [Timer -> Nat] /\ first \in [Timer -> Nat] /\ runs \in [Timer -> Nat]
  BY DEF QueueTypes
<1>4. n \in Int /\ (repeat_count_[t] = -1 => n = -1) BY <1>1, <1>3 DEF Count
<1> HIDE DEF n
<1>5. expiration_' \in [Timer -> Nat] /\ repeat_count_' \in [Timer -> Int]
  BY <1>1, <1>2, <1>3, <1>4
<1>6. ASSUME NEW u \in Timer, asked[u] = -1
      PROVE  repeat_count_'[u] = -1 /\ expiration_'[u] = first[u] + interval_[u] * runs[u]
  <2>1. repeat_count_[u] = -1 /\ expiration_[u] = first[u] + interval_[u] * Moves(u)
    BY <1>6 DEF Steady
  <2>2. CASE u = t
    <3>1. n = -1 BY <1>4, <2>1, <2>2
    <3>2. repeat_count_'[u] = -1 /\ expiration_'[u] = expiration_[u] + interval_[u]
      BY <1>1, <1>2, <1>3, <2>2, <3>1
    <3>3. Moves(u) = runs[u] - 1 BY <1>1, <2>2 DEF Moves
    <3>4. interval_[u] \in Nat /\ runs[u] \in Nat /\ first[u] \in Nat BY <1>3
    <3>5. interval_[u] * runs[u] = (interval_[u] * (runs[u] - 1)) + interval_[u]
      <4> DEFINE i == interval_[u]
                 r == runs[u]
      <4>1. i \in Int /\ r \in Int BY <3>4
      <4> HIDE DEF i, r
      <4>2. i * r = (i * (r - 1)) + i BY <4>1
      <4> QED BY <4>2 DEF i, r
    <3>6. interval_[u] * (runs[u] - 1) \in Int
      <4>1. runs[u] - 1 \in Int /\ interval_[u] \in Int BY <3>4
      <4> QED BY <4>1
    <3> QED BY <2>1, <3>2, <3>3, <3>4, <3>5, <3>6
  <2>3. CASE u # t
    <3>1. repeat_count_'[u] = repeat_count_[u] /\ expiration_'[u] = expiration_[u]
      BY <1>1, <1>2, <1>3, <2>3
    <3>2. Moves(u) = runs[u] BY <2>3 DEF Moves
    <3> QED BY <2>1, <3>1, <3>2
  <2> QED BY <2>2, <2>3, Zenon
<1>7. \A u : Moves(u)' = runs[u] BY <1>1, Zenon DEF Moves
<1>8. Steady' BY <1>1, <1>6, <1>7 DEF Steady
<1> QED BY <1>5, <1>8

LEMMA AfterStep ==
  ASSUME TimersInv, AfterCallback
  PROVE  /\ TimersInv'
         /\ iter' = Idle /\ ~wild' => \A e \in timers_' : e[2] \in seen'
<1>0. QueueTypes /\ Entries /\ Steady /\ Walked BY DEF TimersInv
<1>1. /\ iter # Idle /\ iter \in (0 .. MaxTime) \X Timer /\ timers_' \in SUBSET timers_
      /\ seen' = seen \cup {iter[2]}
      /\ ~called' /\ UNCHANGED <<now, interval_, limit, asked, first, runs>>
      /\ wild' \/ Moved(timers_', iter, iter')
      /\ iter' = Idle \/ iter' \in timers_'
  BY <1>0, AfterTypes DEF asks
<1>2. expiration_' \in [Timer -> Nat] /\ repeat_count_' \in [Timer -> Int] /\ Steady'
  BY <1>0, AfterSteady
<1>3. QueueTypes' BY <1>0, <1>1, <1>2 DEF QueueTypes, Idle
<1>4. Entries' BY <1>0, <1>1 DEF Entries, Idle
<1>5. CASE Moved(timers_', iter, iter')
  <2> DEFINE s == timers_'
  <2>1. s \in SUBSET timers_ /\ timers_' = s /\ Moved(s, iter, iter') BY <1>1, <1>5
  <2> HIDE DEF s
  <2>2. Walked' /\ (iter' = Idle => \A e \in s : e[2] \in seen')
    BY <1>0, <1>1, <2>1, WalkedOn
  <2> QED BY <1>2, <1>3, <1>4, <2>1, <2>2 DEF TimersInv
<1>6. CASE wild' /\ iter' = Idle
  <2>1. Walked' BY <1>6 DEF Walked, Idle
  <2> QED BY <1>2, <1>3, <1>4, <1>6, <2>1 DEF TimersInv
<1>7. wild' => iter' = Idle BY Zenon DEF AfterCallback
<1> QED BY <1>1, <1>5, <1>6, <1>7

LEMMA StillStep ==
  ASSUME TimersInv, now' \in 0 .. MaxTime,
         UNCHANGED <<timers_, timerVars, iter, called, limit, asks, runs, seen>>
  PROVE  TimersInv'
<1>1. \A t : Moves(t)' = Moves(t) BY DEF Moves
<1>2. QueueTypes' BY DEF TimersInv, QueueTypes, timerVars, asks, Idle
<1>3. Entries' BY Zenon DEF TimersInv, Entries, asks, Idle
<1>4. Steady' BY <1>1 DEF TimersInv, Steady, timerVars, asks
<1>5. Walked' BY Zenon DEF TimersInv, Walked, Before, Idle
<1> QED BY <1>2, <1>3, <1>4, <1>5, Zenon DEF TimersInv

\* What a walk that ends has passed over.
WalkEnds ==
    (iter # Idle /\ iter' = Idle /\ ~wild') =>
        \A e \in timers_' :
            \/ e[2] \in seen'
            \/ expiration_'[e[2]] > limit
            \/ \E d \in timers_' : Before(d, e) /\ expiration_'[d[2]] > limit

\* The walk broke off at an entry that is not due.
LEMMA BreakEnds ==
  ASSUME TimersInv, Break
  PROVE  WalkEnds
<1>0. QueueTypes /\ Entries /\ Walked BY DEF TimersInv
<1>1. iter # Idle /\ iter \in timers_ BY <1>0, Zenon DEF Break, Entries
<1>2. /\ expiration_[iter[2]] > limit
      /\ UNCHANGED <<timers_, seen>> /\ expiration_' = expiration_
  BY DEF Break, timerVars
<1> SUFFICES ASSUME NEW e \in timers_
             PROVE  \/ e[2] \in seen
                    \/ expiration_[e[2]] > limit
                    \/ \E d \in timers_ : Before(d, e) /\ expiration_[d[2]] > limit
  BY <1>2 DEF WalkEnds
<1>3. e = iter \/ Before(e, iter) \/ Before(iter, e) BY <1>0, <1>1, EntryOrder, Zenon DEF QueueTypes
<1>4. CASE Before(e, iter) BY <1>0, <1>1, <1>4 DEF Walked
<1> QED BY <1>1, <1>2, <1>3, <1>4

LEMMA TimersStep == TimersInv /\ [TimerNext]_queueVars => TimersInv' /\ [WalkEnds]_queueVars
<1> SUFFICES ASSUME TimersInv, [TimerNext]_queueVars PROVE TimersInv' /\ [WalkEnds]_queueVars OBVIOUS
<1>0. now \in 0 .. MaxTime BY DEF TimersInv, QueueTypes
<1>1. CASE Functor
  <2>1. iter = Idle BY <1>1 DEF Functor
  <2> QED BY <1>1, <2>1, FunctorStep DEF WalkEnds
<1>2. CASE BeginWalk
  <2>1. iter = Idle BY <1>2 DEF BeginWalk
  <2> QED BY <1>2, <2>1, BeginStep DEF WalkEnds
<1>3. CASE Break BY <1>3, BreakStep, BreakEnds, Zenon
<1>4. CASE RunCanceled BY <1>4, CanceledStep DEF WalkEnds
<1>5. CASE Callback
  <2>1. iter' = iter BY <1>5 DEF Callback
  <2> QED BY <1>5, <2>1, CallbackStep, Zenon DEF WalkEnds
<1>6. CASE AfterCallback BY <1>6, AfterStep, Zenon DEF WalkEnds
<1>7. CASE Tick
  <2>1. now' \in 0 .. MaxTime BY <1>0, <1>7, TimerAssumption DEF Tick
  <2>2. UNCHANGED <<timers_, timerVars, iter, called, limit, asks, runs, seen>> BY <1>7 DEF Tick
  <2>3. TimersInv' BY <2>1, <2>2, StillStep
  <2> QED BY <2>2, <2>3 DEF WalkEnds
<1>8. CASE UNCHANGED queueVars
  <2>1. /\ now' = now /\ UNCHANGED <<timers_, timerVars, iter, called, limit, asks, runs, seen>>
    BY <1>8 DEF queueVars
  <2>2. TimersInv' BY <1>0, <2>1, StillStep
  <2> QED BY <1>8, <2>2
<1> QED BY <1>1, <1>2, <1>3, <1>4, <1>5, <1>6, <1>7, <1>8 DEF TimerNext

LEMMA TimersCorrect == TimerSpec => []TimersInv
<1>1. TimersInv /\ [TimerNext]_queueVars => TimersInv' BY TimersStep, Zenon
<1> QED BY <1>1, TimersInit, PTL DEF TimerSpec

\* DriftFree for any timers, intervals and times: a repeating timer's expiration is
\* the time it was made for plus one interval per run of its callback, however
\* late do_timer comes and whatever callbacks add, remove or cancel.
THEOREM DriftFreeCorrect == TimerSpec => []DriftFree
<1>1. TimersInv => DriftFree
  <2> SUFFICES ASSUME TimersInv, NEW t \in Timer, asked[t] = -1, ~(called /\ iter[2] = t)
               PROVE  expiration_[t] = first[t] + interval_[t] * runs[t]
    BY Zenon DEF DriftFree
  <2>1. Moves(t) = runs[t] BY DEF Moves
  <2> QED BY <2>1, Zenon DEF TimersInv, Steady
<1> QED BY <1>1, TimersCorrect, PTL

\* NothingSkipped likewise: no walk of do_timer through the set passes over a due
\* entry, though it erases the current one and callbacks add and erase others.
THEOREM NothingSkippedCorrect == TimerSpec => NothingSkipped
<1>1. TimersInv /\ [TimerNext]_queueVars => [WalkEnds]_queueVars BY TimersStep
<1>2. TimerSpec => [][WalkEnds]_queueVars BY <1>1, TimersCorrect, PTL DEF TimerSpec
<1> QED BY <1>2 DEF NothingSkipped, WalkEnds
=============================================================================
