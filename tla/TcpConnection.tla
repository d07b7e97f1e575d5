---------------------------- MODULE TcpConnection ----------------------------
(***************************************************************************)
(* One connection of a TcpServer, from TcpServer::new_conn to the last     *)
(* reference: network/tcp_connect.cpp and the parts of tcp_server.cpp,     *)
(* channel.cpp and event_loop.cpp that drive it.                           *)
(*                                                                         *)
(* Three threads.  The io thread runs the connection's loop: it polls,     *)
(* dispatches the channel's callbacks, then runs the queued functors.  The *)
(* base thread runs the server's loop; with BaseIsIo both are one thread.  *)
(* A worker thread calls send, shutdown and force_close on a shared_ptr it *)
(* gets from a weak_ptr, as TcpSession does; each such call is a read of   *)
(* state_, for two of them a write, and a push, with steps of the others   *)
(* in between.                                                             *)
(*                                                                         *)
(* The i-th byte that _send_in_loop accepts is the number i.               *)
(***************************************************************************)
EXTENDS Integers, Sequences

INSTANCE Epoll WITH Channel <- {"channel_"}, Fd <- {"sockfd"}, None <- "none"

CONSTANTS
    BaseIsIo,   \* the server runs without io threads
    Reactions,  \* what user callbacks may call: a subset of Calls
    WorkerOps,  \* what the worker may call: a subset of Calls
    MayStop,    \* TcpServer::stop may be called, from the base thread
    write_complete_callback_,  \* the server has one
    MaxBytes,   \* bound: how many bytes are ever given to send
    MsgLen,     \* the lengths of the messages sent
    MaxIn,      \* bound: the input the kernel holds for the connection
    MaxOps      \* bound: how many calls the worker makes

Calls == {"send", "shutdown", "force"}

ASSUME ConnAssumption ==
    /\ {BaseIsIo, MayStop, write_complete_callback_} \subseteq BOOLEAN
    /\ MayStop => ~BaseIsIo
    /\ Reactions \cup WorkerOps \subseteq Calls
    /\ {MaxBytes, MaxIn, MaxOps} \subseteq Nat
    /\ MsgLen \subseteq Nat \ {0}

VARIABLES
    state_,     \* StateE
    p,          \* channel_ and the io loop's poller (module Epoll)
    out,        \* the content of output_buffer_ (module ByteBuffer)
    wire,       \* external: the bytes the kernel took
    sent,       \* history: the number of bytes _send_in_loop accepted
    wr_shut,    \* external: socket_ is shut down for writing
    told,       \* history: what conn_callback_ was called with
    conn_map_,  \* the server's map entry: "conn", "null" or "absent"
    pending,    \* the io loop's pending_functors_
    base,       \* remove_conn_in_loop functors in the base loop's queue
    pc,         \* where the io thread is in EventLoop::loop
    work,       \* callbacks or functors the io thread has still to run
    batchRef,   \* the batch being run holds a shared_ptr
    inbox,      \* external: the input the kernel holds
    peer,       \* external: "open", "fin" (it closed) or "rst" (it reset)
    stop,       \* TcpServer::stop: "no", "conns" (functors queued), "quit"
    wcall,      \* the worker's current call: what it does next
    wops,       \* the number of calls the worker made
    wild        \* history: the functors and callbacks run on a destroyed connection,
                \* and "loop" if a loop was called after its end

connVars == <<state_, p, out, wire, sent, wr_shut, told>>
ctlVars  == <<pc, batchRef, stop>>
envVars  == <<inbox, peer>>
workVars == <<wcall, wops, wild>>
vars     == <<connVars, conn_map_, pending, base, work, ctlVars, envVars, workVars>>

ch == "channel_"

Item(f, n) == [f |-> f, n |-> n]

\* The variant in which remove_conn_in_loop binds a plain pointer.
SharedButDestroyed(f) == f \in {"established", "forceClose", "writeComplete"}

\* Functors bound to a shared_ptr; the others are bound to this.
Shared(f) == f \in {"established", "destroyed", "forceClose", "writeComplete"}

\* The functor queued when everything is written.
WriteComplete == IF write_complete_callback_ THEN <<Item("writeComplete", 0)>> ELSE <<>>

HoldsRef(s) == \E i \in 1 .. Len(s) : Shared(s[i].f)

\* Somebody holds a shared_ptr to the connection.
Alive == conn_map_ = "conn" \/ base > 0 \/ HoldsRef(pending) \/ batchRef \/ wcall # "none"

\* The destructor has run and the descriptor is closed.
released == ~Alive

(***************************************************************************)
(* TcpServer::new_conn has just made the connection; the base thread either*)
(* queued conn_established or, being the io thread, is about to run it.    *)
(***************************************************************************)
Init ==
    /\ state_ = "kConnecting"
    /\ p = Poller([c \in {ch} |-> "sockfd"], [c \in {ch} |-> new_], [c \in {ch} |-> {}],
                  [f \in {"sockfd"} |-> "none"], [f \in {"sockfd"} |-> "none"],
                  [f \in {"sockfd"} |-> {}])
    /\ out = <<>> /\ wire = <<>> /\ sent = 0
    /\ wr_shut = FALSE
    /\ told = <<>>
    /\ conn_map_ = "conn"
    /\ IF BaseIsIo
       THEN pending = <<>> /\ work = <<Item("established", 0)>> /\ pc = "events"
       ELSE pending = <<Item("established", 0)>> /\ work = <<>> /\ pc = "poll"
    /\ base = 0
    /\ batchRef = FALSE
    /\ inbox = 0 /\ peer = "open"
    /\ stop = "no"
    /\ wcall = "none" /\ wops = 0 /\ wild = {}

(***************************************************************************)
(* TcpConnection::send and _send_in_loop on the io thread.  s, q and pend  *)
(* are the state_, the poller and the pending functors the code finds.     *)
(***************************************************************************)
Bytes(n) == [i \in 1 .. n |-> sent + i]

\* The variant that buffers the whole message.
RestAll(n, k) == Bytes(n)

Rest(n, k) == SubSeq(Bytes(n), k + 1, n)

\* Put the rest of the message into output_buffer_ and wait to write.
Buffer(q, n, k) ==
    /\ out' = out \o Rest(n, k)
    /\ p' = IF is_writing(q, ch) THEN q ELSE enable_writing(q, ch, TRUE)

_send_in_loop(s, q, pend, n) ==
    \/ /\ s = "kDisconnected"
       /\ UNCHANGED <<out, wire, sent>>
       /\ p' = q /\ pending' = pend
    \/ \* a direct write that fails with EPIPE or ECONNRESET drops the message
       /\ s # "kDisconnected"
       /\ ~is_writing(q, ch) /\ out = <<>>
       /\ wr_shut \/ peer = "rst"
       /\ UNCHANGED <<out, wire, sent>>
       /\ p' = q /\ pending' = pend
    \/ \* a direct write that takes k bytes (0: EWOULDBLOCK)
       /\ s # "kDisconnected"
       /\ ~is_writing(q, ch) /\ out = <<>>
       /\ ~wr_shut /\ peer # "rst"
       /\ sent' = sent + n
       /\ \E k \in 0 .. n :
             /\ wire' = wire \o SubSeq(Bytes(n), 1, k)
             /\ IF k = n
                THEN p' = q /\ UNCHANGED out /\ pending' = pend \o WriteComplete
                ELSE Buffer(q, n, k) /\ pending' = pend
    \/ /\ s # "kDisconnected"
       /\ is_writing(q, ch) \/ out # <<>>
       /\ sent' = sent + n
       /\ Buffer(q, n, 0)
       /\ UNCHANGED wire
       /\ pending' = pend

\* The variant that shuts down although output is still buffered.
ShutdownAtOnce(q) == wr_shut' = TRUE

_shutdown_in_loop(q) == wr_shut' = (wr_shut \/ ~is_writing(q, ch))

\* The public calls as a user callback makes them, on the io thread.
send(s, q, pend) ==
    /\ s = "kConnected"
    /\ \E n \in MsgLen : sent + n <= MaxBytes /\ _send_in_loop(s, q, pend, n)
    /\ state_' = s
    /\ UNCHANGED wr_shut

shutdown(s, q, pend) ==
    /\ s = "kConnected"
    /\ state_' = "kDisconnecting"
    /\ _shutdown_in_loop(q)
    /\ p' = q /\ pending' = pend
    /\ UNCHANGED <<out, wire, sent>>

force_close(s, q, pend) ==
    /\ s \in {"kConnected", "kDisconnecting"}
    /\ state_' = "kDisconnecting"
    /\ pending' = Append(pend, Item("forceClose", 0))
    /\ p' = q
    /\ UNCHANGED <<out, wire, sent, wr_shut>>

\* What a user callback does before it returns.
React(s, q, pend) ==
    \/ /\ state_' = s /\ p' = q /\ pending' = pend
       /\ UNCHANGED <<out, wire, sent, wr_shut>>
    \/ "send" \in Reactions /\ send(s, q, pend)
    \/ "shutdown" \in Reactions /\ shutdown(s, q, pend)
    \/ "force" \in Reactions /\ force_close(s, q, pend)

(***************************************************************************)
(* TcpConnection::_handle_close.  Its close_callback_ is                   *)
(* TcpServer::remove_conn, which runs remove_conn_in_loop at once on the   *)
(* base thread and queues it there from any other.                         *)
(***************************************************************************)
remove_conn_in_loop ==
    /\ conn_map_' = "absent"
    /\ pending' = IF conn_map_ = "absent" THEN pending
                  ELSE Append(pending, Item("destroyed", 0))

\* The variant of a _handle_close that forgets close_callback_.
RemoveConnNever == UNCHANGED <<conn_map_, pending, base>>

remove_conn ==
    IF BaseIsIo
    THEN remove_conn_in_loop /\ UNCHANGED base
    ELSE base' = base + 1 /\ UNCHANGED <<conn_map_, pending>>

\* The variant without the test for a connection that is closed already.
NeverClosed(s) == FALSE

IsClosed(s) == s = "kDisconnected"

CloseChannel(q) == disable_all(q, ch, TRUE)

_handle_close(s, q) ==
    IF IsClosed(s)
    THEN p' = q /\ UNCHANGED <<state_, told, conn_map_, pending, base>>
    ELSE /\ state_' = "kDisconnected"
         /\ p' = CloseChannel(q)
         /\ told' = Append(told, "down")
         /\ remove_conn

(***************************************************************************)
(* The io thread's loop.  Poll asks the kernel, and Channel::handle_event  *)
(* turns the events it reports into callbacks, in this order.  A hang-up   *)
(* and an error are reported whatever the interest; a socket whose peer    *)
(* reset it, or that is shut down for writing, is readable resp. writable. *)
(***************************************************************************)
handle_event(in, outp, hup, err) ==
    (IF hup /\ ~in THEN <<Item("close", 0)>> ELSE <<>>)
    \o (IF err THEN <<Item("error", 0)>> ELSE <<>>)
    \o (IF in THEN <<Item("read", 0)>> ELSE <<>>)
    \o (IF outp THEN <<Item("write", 0)>> ELSE <<>>)

Registered == Alive /\ p.epoll["sockfd"] # "none"

Poll(writable) ==
    /\ pc = "poll" /\ stop # "quit"
    /\ pc' = "events"
    /\ LET mask == p.interest["sockfd"]
           in   == "R" \in mask /\ (inbox > 0 \/ peer # "open")
           outp == "W" \in mask /\ (writable \/ wr_shut \/ peer = "rst")
           hup  == peer = "rst" \/ (peer = "fin" /\ wr_shut)
       IN  work' = IF Registered THEN handle_event(in, outp, hup, peer = "rst") ELSE <<>>
    /\ UNCHANGED <<connVars, conn_map_, pending, base, batchRef, stop, envVars, workVars>>

\* The loop leaves loop(); its destructor drops the pending functors.
LoopExit ==
    /\ pc = "poll" /\ stop = "quit"
    /\ pc' = "exited"
    /\ pending' = <<>>
    /\ UNCHANGED <<connVars, conn_map_, base, work, batchRef, stop, envVars, workVars>>

Swap ==
    /\ pc = "events" /\ work = <<>>
    /\ pc' = "tasks"
    /\ work' = pending /\ pending' = <<>>
    /\ batchRef' = HoldsRef(pending)
    /\ UNCHANGED <<connVars, conn_map_, base, stop, envVars, workVars>>

TasksDone ==
    /\ pc = "tasks" /\ work = <<>>
    /\ pc' = "poll"
    /\ batchRef' = FALSE
    /\ UNCHANGED <<connVars, conn_map_, pending, base, work, stop, envVars, workVars>>

\* The io thread runs the callback or functor f next, then what is in rest.
Run(f, rest) ==
    /\ work # <<>> /\ Head(work).f = f
    /\ Alive
    /\ work' = rest \o Tail(work)
    /\ UNCHANGED <<ctlVars, peer, workVars>>

\* It runs on a connection that is gone: anything may happen, nothing good.
RunWild ==
    /\ work # <<>> /\ ~Alive
    /\ work' = Tail(work)
    /\ wild' = wild \cup {Head(work).f}
    /\ UNCHANGED <<connVars, conn_map_, pending, base, ctlVars, envVars, wcall, wops>>

(***************************************************************************)
(* The callbacks and functors of the connection, on the io thread.         *)
(***************************************************************************)
conn_established ==
    /\ Run("established", <<>>)
    /\ \E ok \in BOOLEAN :
          LET q == SetEvents(p, ch, p.events[ch] \cup read_event_)
              r == enable_reading(p, ch, ok)
          IN  \/ /\ state_ # "kConnecting"   \* "this branch must not be taken"
                 /\ UNCHANGED <<connVars, conn_map_, pending, base>>
              \/ /\ state_ = "kConnecting" /\ ~UpdateReturns(q, ch, ok)
                 /\ _handle_close("kConnected", r)
                 /\ UNCHANGED <<out, wire, sent, wr_shut>>
              \/ /\ state_ = "kConnecting" /\ UpdateReturns(q, ch, ok)
                 /\ told' = Append(told, "up")
                 /\ React("kConnected", r, pending)
                 /\ UNCHANGED <<conn_map_, base>>
    /\ UNCHANGED inbox

\* The read takes all input, or reports the peer's close or reset.
_handle_read ==
    /\ Run("read", <<>>)
    /\ inbox' = 0
    /\ \/ /\ inbox > 0
          /\ React(state_, p, pending)
          /\ UNCHANGED <<told, conn_map_, base>>
       \/ /\ inbox = 0
          /\ _handle_close(state_, p)
          /\ UNCHANGED <<out, wire, sent, wr_shut>>

\* The variant that keeps waiting for the socket to become writable.
KeepWriting(q) == q

StopWriting(q) == disable_writing(q, ch, TRUE)

\* The variant that forgets a shutdown that waits for the output.
NoLateShutdown(q) == UNCHANGED wr_shut

LateShutdown(q) == IF state_ = "kDisconnecting" THEN _shutdown_in_loop(q) ELSE UNCHANGED wr_shut

\* The buffer is empty now.
WriteDone ==
    /\ p' = StopWriting(p)
    /\ pending' = pending \o WriteComplete
    /\ LateShutdown(StopWriting(p))

_handle_write ==
    /\ Run("write", <<>>)
    /\ \/ /\ ~is_writing(p, ch)
          /\ UNCHANGED <<connVars, conn_map_, pending, base>>
       \/ /\ is_writing(p, ch)
          /\ wr_shut \/ peer = "rst" \/ out = <<>>
          /\ _handle_close(state_, p)
          /\ UNCHANGED <<out, wire, sent, wr_shut>>
       \/ /\ is_writing(p, ch)
          /\ ~wr_shut /\ peer # "rst"
          /\ \E n \in 1 .. Len(out) :
                /\ wire' = wire \o SubSeq(out, 1, n)
                /\ out' = SubSeq(out, n + 1, Len(out))
                /\ IF n = Len(out) THEN WriteDone ELSE UNCHANGED <<p, pending, wr_shut>>
          /\ UNCHANGED <<state_, sent, told, conn_map_, base>>
    /\ UNCHANGED inbox

\* A hang-up; _handle_error asks for SO_ERROR and closes, too.
HangUp ==
    /\ Run("close", <<>>) \/ Run("error", <<>>)
    /\ _handle_close(state_, p)
    /\ UNCHANGED <<out, wire, sent, wr_shut, inbox>>

SendFunctor ==
    /\ Run("send", <<>>)
    /\ _send_in_loop(state_, p, pending, Head(work).n)
    /\ UNCHANGED <<state_, wr_shut, told, conn_map_, base, inbox>>

ShutdownFunctor ==
    /\ Run("shutdown", <<>>)
    /\ _shutdown_in_loop(p)
    /\ UNCHANGED <<state_, p, out, wire, sent, told, conn_map_, pending, base, inbox>>

_force_close_in_loop ==
    /\ Run("forceClose", <<>>)
    /\ IF state_ \in {"kConnected", "kDisconnecting"}
       THEN _handle_close(state_, p)
       ELSE UNCHANGED <<state_, p, told, conn_map_, pending, base>>
    /\ UNCHANGED <<out, wire, sent, wr_shut, inbox>>

WriteCompleteCallback ==
    /\ Run("writeComplete", <<>>)
    /\ React(state_, p, pending)
    /\ UNCHANGED <<told, conn_map_, base, inbox>>

(***************************************************************************)
(* TcpConnection::conn_destroyed in two steps: the test of state_, and the *)
(* rest, which a worker's write of state_ may come between.                *)
(***************************************************************************)
conn_destroyed ==
    /\ Run("destroyed", <<Item(IF state_ = "kConnected" THEN "closeAndRemove" ELSE "remove", 0)>>)
    /\ UNCHANGED <<connVars, conn_map_, pending, base, inbox>>

\* The variant that does not take the channel out of the poller.
LeaveInPoller(q) == q

TakeOut(q) == remove(q, ch)

CloseAndRemove ==
    /\ Run("closeAndRemove", <<>>)
    /\ state_' = "kDisconnected"
    /\ p' = TakeOut(CloseChannel(p))
    /\ told' = Append(told, "down")
    /\ UNCHANGED <<out, wire, sent, wr_shut, conn_map_, pending, base, inbox>>

Remove ==
    /\ Run("remove", <<>>)
    /\ p' = TakeOut(p)
    /\ UNCHANGED <<state_, out, wire, sent, wr_shut, told, conn_map_, pending, base, inbox>>

Io ==
    \/ \E w \in BOOLEAN : Poll(w)
    \/ LoopExit \/ Swap \/ TasksDone \/ RunWild
    \/ conn_established \/ _handle_read \/ _handle_write \/ HangUp
    \/ SendFunctor \/ ShutdownFunctor \/ _force_close_in_loop \/ WriteCompleteCallback
    \/ conn_destroyed \/ CloseAndRemove \/ Remove

(***************************************************************************)
(* The base thread.  While stop() waits for the io thread to end it runs   *)
(* nothing else; a connection removed after that reaches for a loop that   *)
(* is gone.                                                                *)
(***************************************************************************)
RemoveConnInLoop ==
    /\ base > 0
    /\ stop = "no" \/ pc = "exited"
    /\ base' = base - 1
    /\ IF pc = "exited" /\ conn_map_ # "absent"
       THEN conn_map_' = "absent" /\ wild' = wild \cup {"loop"} /\ UNCHANGED pending
       ELSE remove_conn_in_loop /\ UNCHANGED wild
    /\ UNCHANGED <<connVars, work, ctlVars, envVars, wcall, wops>>

\* TcpServer::stop queues conn_destroyed, ...
StopConns ==
    /\ MayStop /\ stop = "no"
    /\ stop' = "conns"
    /\ conn_map_' = IF conn_map_ = "conn" THEN "null" ELSE conn_map_
    /\ pending' = IF conn_map_ = "conn" THEN Append(pending, Item("destroyed", 0)) ELSE pending
    /\ UNCHANGED <<connVars, base, work, pc, batchRef, envVars, workVars>>

\* ... then makes the io loop quit.
StopLoops ==
    /\ stop = "conns"
    /\ stop' = "quit"
    /\ UNCHANGED <<connVars, conn_map_, pending, base, work, pc, batchRef, envVars, workVars>>

Base == RemoveConnInLoop \/ StopLoops

(***************************************************************************)
(* The worker.  It learns of the connection from the connection callback.  *)
(* A call is entered only if the first test of state_ lets it do something.*)
(***************************************************************************)
MayCall(op) ==
    \/ op \in {"send", "shutdown"} /\ state_ = "kConnected"
    \/ op = "force" /\ state_ \in {"kConnected", "kDisconnecting"}

WorkerCall(op) ==
    /\ op \in WorkerOps /\ wcall = "none"
    /\ wops < MaxOps
    /\ told # <<>> /\ Alive
    /\ MayCall(op)
    /\ wcall' = op
    /\ wops' = wops + 1
    /\ UNCHANGED <<connVars, conn_map_, pending, base, work, ctlVars, envVars, wild>>

\* shutdown and force_close: _set_state(kDisconnecting).
WorkerSet ==
    /\ wcall \in {"shutdown", "force"}
    /\ state_' = "kDisconnecting"
    /\ wcall' = IF wcall = "shutdown" THEN "pushShutdown" ELSE "pushForce"
    /\ UNCHANGED <<p, out, wire, sent, wr_shut, told, conn_map_, pending, base, work,
                   ctlVars, envVars, wops, wild>>

\* run_in_loop or queue_in_loop, after which the worker drops its shared_ptr.
WorkerPush(f) ==
    /\ wcall' = "none"
    /\ IF pc = "exited" THEN wild' = wild \cup {"loop"} /\ UNCHANGED pending
       ELSE pending' = Append(pending, f) /\ UNCHANGED wild
    /\ UNCHANGED <<connVars, conn_map_, base, work, ctlVars, envVars, wops>>

WorkerReturn ==
    \/ wcall = "send" /\ \E n \in MsgLen : WorkerPush(Item("send", n))
    \/ wcall = "pushShutdown" /\ WorkerPush(Item("shutdown", 0))
    \/ wcall = "pushForce" /\ WorkerPush(Item("forceClose", 0))

Worker == WorkerSet \/ WorkerReturn

(***************************************************************************)
(* External: the peer.                                                     *)
(***************************************************************************)
PeerSend ==
    /\ peer = "open" /\ inbox < MaxIn
    /\ inbox' = inbox + 1
    /\ UNCHANGED peer

PeerFin == peer = "open" /\ peer' = "fin" /\ UNCHANGED inbox

PeerReset == peer # "rst" /\ peer' = "rst" /\ UNCHANGED inbox

Peer ==
    /\ Alive
    /\ PeerSend \/ PeerFin \/ PeerReset
    /\ UNCHANGED <<connVars, conn_map_, pending, base, work, ctlVars, workVars>>

Next == Io \/ Base \/ StopConns \/ (\E op \in Calls : WorkerCall(op)) \/ Worker \/ Peer

Spec == Init /\ [][Next]_vars

(***************************************************************************)
(* The threads keep running: the io loop never waits longer than its poll  *)
(* timeout (module EventLoop), and a call that a thread has entered ends.  *)
(***************************************************************************)
FairSpec == Spec /\ WF_vars(Io) /\ WF_vars(Base) /\ WF_vars(Worker)

(***************************************************************************)
(* External: the peer keeps reading, or resets the connection, so that the *)
(* socket becomes writable again and again.                                *)
(***************************************************************************)
DrainSpec == FairSpec /\ SF_vars(Poll(TRUE))

-----------------------------------------------------------------------------
Down == \E i \in 1 .. Len(told) : told[i] = "down"

Functor == [f : {"established", "destroyed", "forceClose", "writeComplete", "send", "shutdown"},
            n : MsgLen \cup {0}]

Callback == [f : {"close", "error", "read", "write", "closeAndRemove", "remove"}, n : {0}]

\* The type of the variables.
TypeOK ==
    /\ state_ \in {"kConnecting", "kConnected", "kDisconnecting", "kDisconnected"}
    /\ p.index[ch] \in {new_, added_, deleted_} /\ p.events[ch] \in SUBSET Event
    /\ out \in Seq(1 .. sent) /\ wire \in Seq(1 .. sent) /\ sent \in Nat
    /\ {wr_shut, batchRef} \subseteq BOOLEAN
    /\ told \in Seq({"up", "down"})
    /\ conn_map_ \in {"conn", "null", "absent"} /\ base \in Nat
    /\ pending \in Seq(Functor) /\ work \in Seq(Functor \cup Callback)
    /\ pc \in {"poll", "events", "tasks", "exited"}
    /\ inbox \in 0 .. MaxIn /\ peer \in {"open", "fin", "rst"}
    /\ stop \in {"no", "conns", "quit"}
    /\ wild \subseteq {i.f : i \in Functor \cup Callback} \cup {"loop"}
    /\ wcall \in Calls \cup {"none", "pushShutdown", "pushForce"} /\ wops \in 0 .. MaxOps

\* The bytes the kernel was given and those still in output_buffer_ are, in
\* order, exactly the bytes _send_in_loop accepted, whatever mixture of direct,
\* partial and buffered writes they went through.
StreamInv == wire \o out = [i \in 1 .. sent |-> i]

\* While the connection is up, the channel waits for writability exactly when
\* output is buffered: no busy loop, and no output that nobody will write.
WritingInv == told = <<"up">> => (is_writing(p, ch) <=> out # <<>>)

\* shutdown() closes the sending side only behind the output: a connection that
\* is up and shut down for writing has nothing left in output_buffer_.
FinAfterFlush == wr_shut /\ ~Down => out = <<>>

\* A destroyed connection has left the poller's channels_, so that the next
\* connection on its descriptor can register; only stop() may leave an entry.
NoStaleEntry == released /\ p.channels_["sockfd"] # "none" => stop # "no"

Lifecycle == INSTANCE ConnLifecycle

\* The connection callback is told up and down in that order and at most once
\* each, and the connection is destroyed only after down: the lifecycle that
\* conn_established, _handle_close and conn_destroyed keep together.
LifecycleSpec == Lifecycle!Spec

\* _handle_close closes a connection once, however many events say it is broken
\* ("to avoid closing the connection twice, test the state here").
DownOnce == \A i, j \in 1 .. Len(told) : told[i] = "down" /\ told[j] = "down" => i = j

\* No callback or functor runs on a destroyed connection, except the functors
\* that send and shutdown bind to this ("FIXME: shared_from_this()?"): the
\* reference handed from loop to loop outlives the channel's registration.
NoWildRun == wild \subseteq {"send", "shutdown"}

\* A connection whose peer closed or reset is closed and destroyed in the end.
Released == (peer # "open") ~> released

\* A shutdown that was asked for takes place, behind the output, unless the
\* connection is closed first.
ShutdownDelivers == (state_ = "kDisconnecting") ~> (wr_shut \/ state_ = "kDisconnected")
=============================================================================
