------------------------ MODULE EventLoopThreadPool ------------------------
(***************************************************************************)
(* network/event_loop_thread.cpp, network/event_loop_threadpool.cpp: the   *)
(* base thread starts the io threads one by one, each time waiting until   *)
(* the thread has published its loop, hands out the loops in turn, and     *)
(* stops the threads one by one.  An EventLoop is a local variable of its  *)
(* thread's function; of the loop itself (module EventLoop) only quit_ and *)
(* its life matter here.                                                   *)
(***************************************************************************)
EXTENDS Integers, Sequences

CONSTANTS
    num_threads_,
    MaxConns       \* bound: how often get_next_loop is called

ASSUME PoolAssumption == num_threads_ \in Nat /\ MaxConns \in Nat

Thread == 1 .. num_threads_

VARIABLES
    tpc,      \* _thread_func: "none" (not started), "begin", "publish", "enter",
              \* "loop", "leave", "ended"
    loop_,    \* the member of every EventLoopThread: not NULL
    quit_,    \* of every loop
    bpc,      \* the base thread: "start", "wait", "serve", "stop", "quit",
              \* "wakeup", "join", "stopped"
    cur,      \* the thread the base thread is starting or stopping
    loops_,   \* what start_loop returned; 0 is NULL
    next_,    \* counts from 0, as in the code
    given,    \* history: how often each loop was handed out
    lost      \* history: threads whose quit() came before loop() cleared quit_

vars == <<tpc, loop_, quit_, bpc, cur, loops_, next_, given, lost>>

Init ==
    /\ tpc = [t \in Thread |-> "none"]
    /\ loop_ = [t \in Thread |-> FALSE]
    /\ quit_ = [t \in Thread |-> FALSE]
    /\ bpc = "start" /\ cur = 1
    /\ loops_ = <<>> /\ next_ = 0
    /\ given = [t \in Thread |-> 0]
    /\ lost = {}

(***************************************************************************)
(* EventLoopThread::_thread_func.                                          *)
(***************************************************************************)
Goto(t, from, to) == tpc[t] = from /\ tpc' = [tpc EXCEPT ![t] = to]

\* The loop is constructed and callback_ has run.
Begin(t) ==
    /\ Goto(t, "begin", "publish")
    /\ UNCHANGED <<loop_, quit_, bpc, cur, loops_, next_, given, lost>>

Publish(t) ==
    /\ Goto(t, "publish", "enter")
    /\ loop_' = [loop_ EXCEPT ![t] = TRUE]
    /\ UNCHANGED <<quit_, bpc, cur, loops_, next_, given, lost>>

\* EventLoop::loop clears quit_ ...
Enter(t) ==
    /\ Goto(t, "enter", "loop")
    /\ quit_' = [quit_ EXCEPT ![t] = FALSE]
    /\ lost' = IF quit_[t] THEN lost \cup {t} ELSE lost
    /\ UNCHANGED <<loop_, bpc, cur, loops_, next_, given>>

\* ... and runs until it finds it set; that it does is QuitStops of EventLoop.
Loop(t) ==
    /\ quit_[t]
    /\ Goto(t, "loop", "leave")
    /\ UNCHANGED <<loop_, quit_, bpc, cur, loops_, next_, given, lost>>

\* loop_ = NULL, then the loop is destroyed.
Leave(t) ==
    /\ Goto(t, "leave", "ended")
    /\ loop_' = [loop_ EXCEPT ![t] = FALSE]
    /\ UNCHANGED <<quit_, bpc, cur, loops_, next_, given, lost>>

ThreadStep(t) == Begin(t) \/ Publish(t) \/ Enter(t) \/ Loop(t) \/ Leave(t)

(***************************************************************************)
(* The base thread.                                                        *)
(***************************************************************************)
\* EventLoopThreadPool::start: the next thread, until all are started.
StartThread ==
    /\ bpc = "start"
    /\ IF cur \in Thread
       THEN bpc' = "wait" /\ tpc' = [tpc EXCEPT ![cur] = "begin"] /\ UNCHANGED cur
       ELSE bpc' = "serve" /\ cur' = 1 /\ UNCHANGED tpc
    /\ UNCHANGED <<loop_, quit_, loops_, next_, given, lost>>

\* The variant that does not wait for the thread.
ReadyAtOnce(t) == TRUE

Ready(t) == loop_[t]

\* EventLoopThread::start_loop waits for loop_ and returns it.
WaitLoop ==
    /\ bpc = "wait" /\ Ready(cur)
    /\ loops_' = Append(loops_, IF loop_[cur] THEN cur ELSE 0)
    /\ bpc' = "start" /\ cur' = cur + 1
    /\ UNCHANGED <<tpc, loop_, quit_, next_, given, lost>>

Wrap(n) == IF n >= Len(loops_) THEN 0 ELSE n

get_next_loop ==
    /\ bpc = "serve" /\ loops_ # <<>>
    /\ given' = [given EXCEPT ![loops_[next_ + 1]] = @ + 1]
    /\ next_' = Wrap(next_ + 1)
    /\ \A t \in Thread : given[t] < MaxConns
    /\ UNCHANGED <<tpc, loop_, quit_, bpc, cur, loops_, lost>>

\* EventLoopThreadPool::stop.
BeginStop ==
    /\ bpc = "serve" /\ bpc' = "stop"
    /\ UNCHANGED <<tpc, loop_, quit_, cur, loops_, next_, given, lost>>

\* EventLoopThread::stop_loop: the test of loop_, ...
StopThread ==
    /\ bpc = "stop"
    /\ bpc' = IF cur \notin Thread THEN "stopped" ELSE IF loop_[cur] THEN "quit" ELSE "join"
    /\ UNCHANGED <<tpc, loop_, quit_, cur, loops_, next_, given, lost>>

\* The variant that wakes the loop and does not tell it to quit.
NoQuit(q, t) == q

SetQuit(q, t) == [q EXCEPT ![t] = TRUE]

\* ... EventLoop::quit in two steps (at the second the loop may be gone), ...
Quit ==
    /\ bpc = "quit" /\ bpc' = "wakeup"
    /\ quit_' = SetQuit(quit_, cur)
    /\ UNCHANGED <<tpc, loop_, cur, loops_, next_, given, lost>>

Wakeup ==
    /\ bpc = "wakeup" /\ bpc' = "join"
    /\ UNCHANGED <<tpc, loop_, quit_, cur, loops_, next_, given, lost>>

\* ... and the join.
Join ==
    /\ bpc = "join" /\ tpc[cur] = "ended"
    /\ bpc' = "stop" /\ cur' = cur + 1
    /\ UNCHANGED <<tpc, loop_, quit_, loops_, next_, given, lost>>

BaseStep == StartThread \/ WaitLoop \/ StopThread \/ Quit \/ Wakeup \/ Join

Next == (\E t \in Thread : ThreadStep(t)) \/ BaseStep \/ get_next_loop \/ BeginStop

Spec == Init /\ [][Next]_vars

\* Threads keep running; serving connections goes on as long as it likes.
FairSpec == Spec /\ WF_vars(BaseStep) /\ \A t \in Thread : WF_vars(ThreadStep(t))
-----------------------------------------------------------------------------
\* The type of the variables.
TypeOK ==
    /\ tpc \in [Thread -> {"none", "begin", "publish", "enter", "loop", "leave", "ended"}]
    /\ loop_ \in [Thread -> BOOLEAN] /\ quit_ \in [Thread -> BOOLEAN]
    /\ bpc \in {"start", "wait", "serve", "stop", "quit", "wakeup", "join", "stopped"}
    /\ cur \in 1 .. num_threads_ + 1
    /\ loops_ \in Seq(0 .. num_threads_)
    /\ next_ \in Nat /\ (next_ = 0 \/ next_ < num_threads_)
    /\ given \in [Thread -> 0 .. MaxConns]
    /\ lost \subseteq Thread

\* start() collects the loops of all threads in order, none of them NULL, and
\* while the pool serves no loop it hands out is gone: the handshake over loop_.
LoopsLive ==
    bpc = "serve" =>
        /\ loops_ = [t \in Thread |-> t]
        /\ \A t \in Thread : tpc[t] \in {"enter", "loop"}

\* Connections are spread evenly: two loops differ by at most one connection,
\* and the loops before next_ are those that are one ahead.
Balanced ==
    bpc = "serve" => \A s, t \in Thread :
        given[s] - given[t] = (IF s <= next_ THEN 1 ELSE 0) - (IF t <= next_ THEN 1 ELSE 0)

\* stop() returns, unless a quit() came before its loop had begun: the flag that
\* loop() clears ("what if someone calls quit() before loop() ?").
StopReturns == (bpc = "stop") ~> (bpc = "stopped" \/ lost # {})
=============================================================================
