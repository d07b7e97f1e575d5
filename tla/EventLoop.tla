------------------------------ MODULE EventLoop ------------------------------
(***************************************************************************)
(* network/event_loop.cpp: the loop thread, its queue of pending functors, *)
(* and the threads that put functors into it or ask it to quit.            *)
(*                                                                         *)
(* A functor is the number of its queue_in_loop call, counted in the order *)
(* of the push under mutex_.  A call is two steps, the push and the write  *)
(* to the eventfd, and the loop thread runs in between.                    *)
(***************************************************************************)
EXTENDS Integers, Sequences

CONSTANTS
    Thread,     \* the threads other than the loop's
    MaxFunctors \* bound: how many functors are ever queued

ASSUME BoundAssumption == MaxFunctors \in Nat

VARIABLES
    pc,                 \* where the loop thread is in loop()
    quit_,
    doing_other_tasks_,
    pending_functors_,  \* guarded by mutex_
    functors,           \* the batch do_other_tasks is running
    wakeup_fd_,         \* external: the counter of the eventfd
    active,             \* poll() reported the wakeup channel
    call,               \* what each thread has still to do in its current call
    issued,             \* history: the number of functors pushed
    ran,                \* history: the number of functors run
    urgent              \* history: the functors that must not wait for a poll

vars == <<pc, quit_, doing_other_tasks_, pending_functors_, functors, wakeup_fd_,
          active, call, issued, ran, urgent>>

loopVars == <<pc, quit_, doing_other_tasks_, functors, active, ran>>

Init ==
    /\ pc = "start"
    /\ quit_ = FALSE
    /\ doing_other_tasks_ = FALSE
    /\ pending_functors_ = <<>>
    /\ functors = <<>>
    /\ wakeup_fd_ = 0
    /\ active = FALSE
    /\ call = [t \in Thread |-> "none"]
    /\ issued = 0
    /\ ran = 0
    /\ urgent = {}

\* The push of queue_in_loop.
Push ==
    /\ issued < MaxFunctors
    /\ pending_functors_' = Append(pending_functors_, issued + 1)
    /\ issued' = issued + 1

wakeup == wakeup_fd_' = wakeup_fd_ + 1

(***************************************************************************)
(* The other threads.  run_in_loop queues as well, outside the loop thread.*)
(***************************************************************************)
QueueInLoop(t) ==
    /\ call[t] = "none"
    /\ Push
    /\ call' = [call EXCEPT ![t] = "wakeup"]
    /\ urgent' = urgent \cup {issued + 1}
    /\ UNCHANGED <<loopVars, wakeup_fd_>>

\* A quit() while quit_ is set would only count the eventfd up (bound).
Quit(t) ==
    /\ call[t] = "none"
    /\ ~quit_
    /\ quit_' = TRUE
    /\ call' = [call EXCEPT ![t] = "wakeup"]
    /\ UNCHANGED <<pc, doing_other_tasks_, pending_functors_, functors, wakeup_fd_, active,
                   issued, ran, urgent>>

Wakeup(t) ==
    /\ call[t] = "wakeup"
    /\ wakeup
    /\ call' = [call EXCEPT ![t] = "none"]
    /\ UNCHANGED <<loopVars, pending_functors_, issued, urgent>>

(***************************************************************************)
(* The loop thread.                                                        *)
(***************************************************************************)
Goto(from, to) == pc = from /\ pc' = to

\* The variant whose condition is only !is_in_loop_thread().
SelfQueueNoWakeup ==
    /\ Push
    /\ UNCHANGED wakeup_fd_
    /\ urgent' = IF pc = "tasks" THEN urgent \cup {issued + 1} ELSE urgent

\* queue_in_loop called by the loop thread itself: it wakes the loop only
\* while doing_other_tasks_.  A functor queued by a functor must not wait
\* for the next poll to time out.
SelfQueue ==
    /\ Push
    /\ IF doing_other_tasks_ THEN wakeup ELSE UNCHANGED wakeup_fd_
    /\ urgent' = IF pc = "tasks" THEN urgent \cup {issued + 1} ELSE urgent

\* What user code run by the loop thread does to the queue.
UserCode ==
    \/ SelfQueue
    \/ UNCHANGED <<pending_functors_, issued, wakeup_fd_, urgent>>

\* loop() up to its while; quit_ is cleared here.
Start ==
    /\ Goto("start", "while")
    /\ quit_' = FALSE
    /\ UNCHANGED <<doing_other_tasks_, pending_functors_, functors, wakeup_fd_, active, call,
                   issued, ran, urgent>>

\* The variant that clears quit_ in every round of the loop, before the test.
WhileClearsQuit ==
    /\ pc = "while"
    /\ pc' = "timers"
    /\ quit_' = FALSE
    /\ UNCHANGED <<doing_other_tasks_, pending_functors_, functors, wakeup_fd_, active, call,
                   issued, ran, urgent>>

While ==
    /\ pc = "while"
    /\ pc' = IF quit_ THEN "exited" ELSE "timers"
    /\ UNCHANGED <<quit_, doing_other_tasks_, pending_functors_, functors, wakeup_fd_, active,
                   call, issued, ran, urgent>>

DoTimer ==
    /\ Goto("timers", "poll")
    /\ UserCode
    /\ UNCHANGED <<quit_, doing_other_tasks_, functors, active, call, ran>>

\* poll() returns at once when the eventfd is readable, and otherwise after
\* poll_time_ms or an event of another channel.
Poll ==
    /\ Goto("poll", "events")
    /\ active' = (wakeup_fd_ > 0)
    /\ UNCHANGED <<quit_, doing_other_tasks_, pending_functors_, functors, wakeup_fd_, call,
                   issued, ran, urgent>>

\* The callback of the wakeup channel; a read resets the counter.
handle_read ==
    /\ pc = "events"
    /\ active
    /\ active' = FALSE
    /\ wakeup_fd_' = 0
    /\ UNCHANGED <<pc, quit_, doing_other_tasks_, pending_functors_, functors, call,
                   issued, ran, urgent>>

\* The callback of another active channel.
OtherEvent ==
    /\ pc = "events"
    /\ SelfQueue
    /\ UNCHANGED <<pc, quit_, doing_other_tasks_, functors, active, call, ran>>

EventsDone ==
    /\ Goto("events", "swap")
    /\ ~active
    /\ doing_other_tasks_' = TRUE
    /\ UNCHANGED <<quit_, pending_functors_, functors, wakeup_fd_, active, call, issued, ran,
                   urgent>>

\* The variant that copies the pending functors instead of swapping them out.
SwapKeeps ==
    /\ Goto("swap", "tasks")
    /\ functors' = pending_functors_
    /\ UNCHANGED <<quit_, doing_other_tasks_, pending_functors_, wakeup_fd_, active, call, issued,
                   ran, urgent>>

\* The variant that loses a batch of more than one functor.
SwapDrops ==
    /\ Goto("swap", "tasks")
    /\ functors' = IF Len(pending_functors_) > 1 THEN <<>> ELSE pending_functors_
    /\ pending_functors_' = <<>>
    /\ UNCHANGED <<quit_, doing_other_tasks_, wakeup_fd_, active, call, issued, ran, urgent>>

Swap ==
    /\ Goto("swap", "tasks")
    /\ functors' = pending_functors_
    /\ pending_functors_' = <<>>
    /\ UNCHANGED <<quit_, doing_other_tasks_, wakeup_fd_, active, call, issued, ran, urgent>>

\* The next functor of the batch; it may queue another one or call quit().
RunFunctor ==
    /\ pc = "tasks"
    /\ functors # <<>>
    /\ ran' = ran + 1
    /\ functors' = Tail(functors)
    /\ UserCode
    /\ quit_' \in {quit_, TRUE}
    /\ UNCHANGED <<pc, doing_other_tasks_, active, call>>

TasksDone ==
    /\ Goto("tasks", "frame")
    /\ functors = <<>>
    /\ doing_other_tasks_' = FALSE
    /\ UNCHANGED <<quit_, pending_functors_, functors, wakeup_fd_, active, call, issued, ran,
                   urgent>>

FrameFunctor ==
    /\ Goto("frame", "while")
    /\ UserCode
    /\ UNCHANGED <<quit_, doing_other_tasks_, functors, active, call, ran>>

LoopStep ==
    \/ Start \/ While \/ DoTimer \/ Poll \/ handle_read \/ EventsDone
    \/ Swap \/ RunFunctor \/ TasksDone \/ FrameFunctor

Next ==
    \/ LoopStep
    \/ OtherEvent
    \/ \E t \in Thread : QueueInLoop(t) \/ Quit(t) \/ Wakeup(t)

Spec == Init /\ [][Next]_vars

\* The loop thread and the threads inside a call are scheduled; poll() always
\* returns because poll_time_ms is a millisecond.
FairSpec == Spec /\ WF_vars(LoopStep) /\ \A t \in Thread : WF_vars(Wakeup(t))
-----------------------------------------------------------------------------
(***************************************************************************)
(* Properties.                                                             *)
(***************************************************************************)
TypeOK ==
    /\ pc \in {"start", "while", "timers", "poll", "events", "swap", "tasks", "frame", "exited"}
    /\ quit_ \in BOOLEAN
    /\ doing_other_tasks_ \in BOOLEAN
    /\ pending_functors_ \in Seq(Nat)
    /\ functors \in Seq(Nat)
    /\ wakeup_fd_ \in Nat
    /\ active \in BOOLEAN
    /\ call \in [Thread -> {"none", "wakeup"}]
    /\ issued \in Nat
    /\ ran \in Nat
    /\ urgent \subseteq Nat

\* Every functor runs once and in the order of the pushes: the batch and the
\* pending functors are together exactly those pushed and not yet run, in
\* order, whatever threads push while do_other_tasks swaps and runs.
QueueInv ==
    /\ Len(functors) + Len(pending_functors_) = issued - ran
    /\ \A i \in 1 .. Len(functors) : functors[i] = ran + i
    /\ \A i \in 1 .. Len(pending_functors_) : pending_functors_[i] = ran + Len(functors) + i

\* No lost wakeup: the loop does not enter poll() with a functor of another
\* thread, or one queued by a functor, pending, unless the eventfd is
\* readable or the thread is still to write it.  (Functors that a timer or
\* the frame functor queues do wait for the poll to time out.)
NoSleep ==
    pc = "poll" /\ (\E i \in 1 .. Len(pending_functors_) : pending_functors_[i] \in urgent) =>
        wakeup_fd_ > 0 \/ \E t \in Thread : call[t] = "wakeup"

\* Every functor is run, unless the loop is told to quit.
EventuallyRun ==
    \A i \in 1 .. MaxFunctors : issued >= i ~> (ran >= i \/ quit_)

\* A quit() that comes after loop() has begun ends the loop.
QuitStops ==
    (quit_ /\ pc # "start") ~> pc = "exited"
=============================================================================
