----------------------------- MODULE TimerQueue -----------------------------
(***************************************************************************)
(* network/timer.cpp, network/timer_queue.cpp and the timer calls of       *)
(* network/event_loop.cpp.  The queue is a set of (time, timer) entries in *)
(* the order of std::set; an entry keeps the time its timer was added with *)
(* while the timer's own expiration moves on.  do_timer walks through the  *)
(* set once per round of the loop and runs callbacks, which may themselves *)
(* add, remove and cancel timers.  Calls from other threads are functors   *)
(* that the loop runs between two walks.                                   *)
(***************************************************************************)
EXTENDS Integers

CONSTANTS
    Timer,      \* the Timer objects: addresses, which order equal times
    Interval,   \* the intervals given to run_every
    Overload,   \* "lvalue" and "rvalue": which add_timer is called
    MaxTime     \* bound: the last time

ASSUME TimerAssumption ==
    /\ Timer \subseteq Nat
    /\ Interval \subseteq Nat \ {0}
    /\ Overload \subseteq {"lvalue", "rvalue"}
    /\ MaxTime \in Nat

VARIABLES
    now,          \* external: Timestamp::now()
    timers_,
    expiration_, interval_, repeat_count_, canceled_,  \* of every Timer
    iter,         \* do_timer: the entry it is at, or Idle
    called,       \* do_timer: the callback of iter's timer has returned
    limit,        \* do_timer: its `now'
    asked,        \* history: the repeat count asked for, 0 for an unused Timer
    first,        \* history: the time asked for
    runs,         \* history: how often the callback ran
    seen,         \* history: timers this walk visited, or that were added in it
    wild          \* history: do_timer used the iterator of an erased entry

timerVars == <<expiration_, interval_, repeat_count_, canceled_>>
asks      == <<asked, first>>
queueVars      == <<now, timers_, timerVars, iter, called, limit, asks, runs, seen, wild>>

Idle == <<MaxTime + 1, 0>>

Before(d, e) == d[1] < e[1] \/ (d[1] = e[1] /\ d[2] < e[2])

\* The entry an iterator moves on to, in the set s, from e.
Following(s, e) ==
    LET later == {d \in s : Before(e, d)}
    IN  IF later = {} THEN Idle ELSE CHOOSE d \in later : \A x \in later : ~Before(x, d)

TimerInit ==
    /\ now = 0 /\ limit = 0
    /\ timers_ = {}
    /\ expiration_ = [t \in Timer |-> 0] /\ interval_ = [t \in Timer |-> 0]
    /\ repeat_count_ = [t \in Timer |-> 0] /\ canceled_ = [t \in Timer |-> FALSE]
    /\ iter = Idle /\ called = FALSE
    /\ asked = [t \in Timer |-> 0] /\ first = [t \in Timer |-> 0]
    /\ runs = [t \in Timer |-> 0]
    /\ seen = {} /\ wild = FALSE

-----------------------------------------------------------------------------
\* add_timer(const TimerCallback&) makes the Timer without the repeat count,
\* which is then -1; add_timer(TimerCallback&&) passes it on.
RepeatCount(overload, repeat_count) == IF overload = "lvalue" THEN -1 ELSE repeat_count

add_timer(t, when, interval, repeat_count) ==
    /\ asked[t] = 0
    /\ \E o \in Overload : repeat_count_' = [repeat_count_ EXCEPT ![t] = RepeatCount(o, repeat_count)]
    /\ expiration_' = [expiration_ EXCEPT ![t] = when]
    /\ interval_' = [interval_ EXCEPT ![t] = interval]
    /\ timers_' = timers_ \cup {<<when, t>>}
    /\ asked' = [asked EXCEPT ![t] = repeat_count]
    /\ first' = [first EXCEPT ![t] = when]
    /\ seen' = seen \cup {t}
    /\ UNCHANGED canceled_

run_at(t, time) == add_timer(t, time, 0, 1)

run_every(t, interval) == now + interval <= MaxTime /\ add_timer(t, now + interval, interval, -1)

\* The Timer itself is not deleted.
remove_timer_in_loop(t) ==
    /\ timers_' = {e \in timers_ : e[2] # t}
    /\ UNCHANGED <<timerVars, asks, seen>>

cancel_timer_in_loop(t, off) ==
    /\ \E e \in timers_ : e[2] = t
    /\ canceled_' = [canceled_ EXCEPT ![t] = off]
    /\ UNCHANGED <<timers_, expiration_, interval_, repeat_count_, asks, seen>>

\* What user code may do to the queue on the loop's thread.
TimerCalls ==
    \/ \E t \in Timer :
          \/ \E time \in 0 .. MaxTime : run_at(t, time)
          \/ \E i \in Interval : run_every(t, i)
          \/ remove_timer_in_loop(t)
          \/ \E off \in BOOLEAN : cancel_timer_in_loop(t, off)
    \/ UNCHANGED <<timers_, timerVars, asks, seen>>

\* A functor or another callback, outside do_timer.
Functor ==
    /\ iter = Idle
    /\ TimerCalls
    /\ UNCHANGED <<now, iter, called, limit, runs, wild>>

(***************************************************************************)
(* do_timer.                                                               *)
(***************************************************************************)
BeginWalk ==
    /\ iter = Idle /\ timers_ # {}
    /\ limit' = now
    /\ iter' = Following(timers_, <<-1, 0>>)
    /\ seen' = {}
    /\ UNCHANGED <<now, timers_, timerVars, called, asks, runs, wild>>

\* The first entry that is not due ends the walk.
Break ==
    /\ iter # Idle /\ ~called /\ expiration_[iter[2]] > limit
    /\ iter' = Idle
    /\ UNCHANGED <<now, timers_, timerVars, called, limit, asks, runs, seen, wild>>

\* The variant that advances once more after erase().
SkipOne(s, e) == LET d == Following(s, e) IN IF d = Idle \/ e \in s THEN d ELSE Following(s, d)

Advance(s, e) == Following(s, e)

\* Timer::run of a canceled timer does nothing.
RunCanceled ==
    /\ iter # Idle /\ ~called /\ expiration_[iter[2]] <= limit
    /\ canceled_[iter[2]]
    /\ seen' = seen \cup {iter[2]}
    /\ iter' = Advance(timers_, iter)
    /\ UNCHANGED <<now, timers_, timerVars, called, limit, asks, runs, wild>>

Count(n) == IF n = -1 THEN -1 ELSE n - 1

\* The variant of Timer::run that starts the interval when the callback ran.
FromNow(e, interval) == limit + interval

NextTime(e, interval) == e + interval

\* Timer::run calls back, ...
Callback ==
    /\ iter # Idle /\ ~called /\ expiration_[iter[2]] <= limit
    /\ ~canceled_[iter[2]]
    /\ called' = TRUE
    /\ runs' = [runs EXCEPT ![iter[2]] = @ + 1]
    /\ TimerCalls
    /\ UNCHANGED <<now, iter, limit, wild>>

\* ... then counts and moves the expiration; do_timer looks at the entry again
\* and erases it or goes on.
AfterCallback ==
    LET t    == iter[2]
        n    == Count(repeat_count_[t])
        rest == IF n = 0 THEN timers_ \ {iter} ELSE timers_
    IN  /\ called /\ called' = FALSE
        /\ repeat_count_' = [repeat_count_ EXCEPT ![t] = n]
        /\ expiration_' = IF n = 0 THEN expiration_
                          ELSE [expiration_ EXCEPT ![t] = NextTime(@, interval_[t])]
        /\ timers_' = rest
        /\ wild' = (iter \notin timers_)
        /\ iter' = IF iter \in timers_ THEN Advance(rest, iter) ELSE Idle
        /\ seen' = seen \cup {t}
        /\ UNCHANGED <<now, interval_, canceled_, limit, asks, runs>>

Tick ==
    /\ now < MaxTime /\ now' = now + 1
    /\ UNCHANGED <<timers_, timerVars, iter, called, limit, asks, runs, seen, wild>>

\* Nothing is said of a queue whose iterator was invalid.
TimerNext == ~wild /\ (Functor \/ BeginWalk \/ Break \/ RunCanceled \/ Callback \/ AfterCallback \/ Tick)

TimerSpec == TimerInit /\ [][TimerNext]_queueVars
-----------------------------------------------------------------------------
\* The type of the variables.
TimerTypeOK ==
    /\ {now, limit} \subseteq 0 .. MaxTime
    /\ timers_ \subseteq (0 .. MaxTime) \X Timer
    /\ expiration_ \in [Timer -> Nat] /\ interval_ \in [Timer -> Interval \cup {0}]
    /\ repeat_count_ \in [Timer -> {-1, 0, 1}] /\ canceled_ \in [Timer -> BOOLEAN]
    /\ iter = Idle \/ iter \in (0 .. MaxTime) \X Timer
    /\ asked \in [Timer -> {-1, 0, 1}] /\ runs \in [Timer -> Nat]
    /\ seen \subseteq Timer /\ {called, wild} \subseteq BOOLEAN

\* A repeating timer does not drift: however late the walks come and however
\* often it is canceled, its next time is a whole number of intervals, one per
\* run, after the time it was made for.
DriftFree ==
    \A t \in Timer : asked[t] = -1 /\ ~(called /\ iter[2] = t) =>
        expiration_[t] = first[t] + interval_[t] * runs[t]

\* A walk passes over a due timer only behind one that is not due yet: erasing
\* the current entry, and entries that callbacks add or erase, make it skip none.
NothingSkipped ==
    [][(iter # Idle /\ iter' = Idle /\ ~wild') =>
        \A e \in timers_' :
            \/ e[2] \in seen'
            \/ expiration_'[e[2]] > limit
            \/ \E d \in timers_' : Before(d, e) /\ expiration_'[d[2]] > limit]_queueVars
=============================================================================
