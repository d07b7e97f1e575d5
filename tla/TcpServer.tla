----------------------------- MODULE TcpServer -----------------------------
(***************************************************************************)
(* network/tcp_server.cpp and network/acceptor.cpp on the threads of       *)
(* network/event_loop_threadpool.cpp: the base thread accepts connections, *)
(* gives each to a loop and keeps it in conn_map_ until the loop reports   *)
(* that it is closed; when the process is out of descriptors it refuses    *)
(* connections with the help of a spare one.  Of a connection only what    *)
(* the server and its loop tell each other matters here: what it does in   *)
(* between is module TcpConnection.                                        *)
(*                                                                         *)
(* The base loop runs until stop() is called, the model ends when it has   *)
(* returned.  A loop that is told to quit may leave functors behind.       *)
(***************************************************************************)
EXTENDS EventLoopThreadPool, FiniteSets, Functions

CONSTANTS
    MaxPeers,   \* bound: how many peers connect
    MaxFds,     \* the limit on descriptors, of those this module counts
    MaxOthers   \* bound: how often another thread opens a file

ASSUME ServerAssumption ==
    num_threads_ > 0 /\ MaxPeers \in Nat /\ MaxFds \in Nat \ {0} /\ MaxOthers \in Nat

VARIABLES
    arrived,    \* external: how many peers have connected
    handled,    \* how many of them were accepted or refused
    acc,        \* Acceptor::_handle_read: "poll", "accept" and "open" when out of descriptors
    idle_fd_,   \* whether it is open
    others,     \* external: descriptors that other threads have open
    opened,     \* external: how often they opened one
    conns,      \* the connections made, with their loops; numbered by next_conn_id_
    conn_map_,
    state_,     \* of every connection
    destroyed,  \* how often conn_destroyed ran
    functors,   \* the pending functors of every io loop
    removes     \* those of the base loop: remove_conn_in_loop

serverVars ==
    <<arrived, handled, acc, idle_fd_, others, opened, conns, conn_map_, state_,
      destroyed, functors, removes>>

connVars == <<conns, conn_map_, state_, destroyed, functors, removes>>

allVars == <<vars, serverVars>>

Conn == 1 .. Len(conns)

ServerInit ==
    /\ Init
    /\ arrived = 0 /\ handled = 0
    /\ acc = "poll" /\ idle_fd_ = TRUE /\ others = 0 /\ opened = 0
    /\ conns = <<>> /\ conn_map_ = {}
    /\ state_ = <<>> /\ destroyed = <<>>
    /\ functors = [t \in Thread |-> <<>>] /\ removes = <<>>

Queue(f, t, op, c) == [f EXCEPT ![t] = Append(@, <<op, c>>)]

\* A connection's descriptor is closed with its last pointer: the map's, the loop's
\* functor's or the base loop's functor's.
Held(c) == destroyed[c] = 0 \/ c \in Range(removes)

Used == Cardinality({c \in Conn : Held(c)}) + others + (IF idle_fd_ THEN 1 ELSE 0)
-----------------------------------------------------------------------------
(***************************************************************************)
(* Acceptor::_handle_read, one accept for each time the socket is ready.   *)
(***************************************************************************)
Pending == handled < arrived

\* TcpServer::new_conn
new_conn ==
    LET t == loops_[next_ + 1]
        c == Len(conns) + 1
    IN /\ get_next_loop
       /\ conns' = Append(conns, t)
       /\ conn_map_' = conn_map_ \cup {c}
       /\ state_' = Append(state_, "kConnecting")
       /\ destroyed' = Append(destroyed, 0)
       /\ functors' = Queue(functors, t, "conn_established", c)
       /\ UNCHANGED removes

Accept ==
    /\ bpc = "serve" /\ acc = "poll" /\ Pending /\ Used < MaxFds
    /\ handled' = handled + 1
    /\ new_conn
    /\ UNCHANGED <<arrived, acc, idle_fd_, others, opened>>

\* EMFILE: the spare descriptor is closed, ...
CloseIdle ==
    /\ bpc = "serve" /\ acc = "poll" /\ Pending /\ Used >= MaxFds
    /\ acc' = "accept" /\ idle_fd_' = FALSE
    /\ UNCHANGED <<vars, arrived, handled, others, opened, connVars>>

\* The variant that does not take the connection off the queue.
NoAccept == UNCHANGED handled

RefuseOne == handled' = IF Used < MaxFds THEN handled + 1 ELSE handled

\* ... the connection is accepted with it, if no other thread was faster, and closed, ...
AcceptAndClose ==
    /\ acc = "accept" /\ acc' = "open"
    /\ RefuseOne
    /\ UNCHANGED <<vars, arrived, idle_fd_, others, opened, connVars>>

\* ... and the spare one is opened again, if it can be.
OpenIdle ==
    /\ acc = "open" /\ acc' = "poll"
    /\ idle_fd_' = (Used < MaxFds)
    /\ UNCHANGED <<vars, arrived, handled, others, opened, connVars>>

\* External: a peer connects; another thread opens and closes a file.
Connect ==
    /\ arrived < MaxPeers /\ arrived' = arrived + 1
    /\ UNCHANGED <<vars, handled, acc, idle_fd_, others, opened, connVars>>

OtherFile ==
    /\ \/ opened < MaxOthers /\ Used < MaxFds /\ others' = others + 1 /\ opened' = opened + 1
       \/ others > 0 /\ others' = others - 1 /\ UNCHANGED opened
    /\ UNCHANGED <<vars, arrived, handled, acc, idle_fd_, connVars>>
-----------------------------------------------------------------------------
(***************************************************************************)
(* The io loops.                                                           *)
(***************************************************************************)
Functor(t) == Head(functors[t])

\* _handle_close: close_callback_ is remove_conn, which queues to the base loop.
HandleClose(c) ==
    /\ state_' = [state_ EXCEPT ![c] = "kDisconnected"]
    /\ removes' = Append(removes, c)

\* conn_established; when the channel cannot be enabled, the connection is closed.
Established(c) ==
    IF state_[c] # "kConnecting" THEN UNCHANGED <<state_, removes>>
    ELSE \/ state_' = [state_ EXCEPT ![c] = "kConnected"] /\ UNCHANGED removes
         \/ HandleClose(c)

RunFunctor(t) ==
    /\ tpc[t] = "loop" /\ functors[t] # <<>>
    /\ functors' = [functors EXCEPT ![t] = Tail(@)]
    /\ LET c == Functor(t)[2]
       IN \/ /\ Functor(t)[1] = "conn_established"
             /\ Established(c) /\ UNCHANGED destroyed
          \/ /\ Functor(t)[1] = "conn_destroyed"
             /\ state_' = [state_ EXCEPT ![c] = IF @ = "kConnected" THEN "kDisconnected" ELSE @]
             /\ destroyed' = [destroyed EXCEPT ![c] = @ + 1]
             /\ UNCHANGED removes
    /\ UNCHANGED <<vars, arrived, handled, acc, idle_fd_, others, opened, conns, conn_map_>>

\* The peer closes, an error, or forceClose: the loop closes the connection.
Close(c) ==
    /\ tpc[conns[c]] = "loop" /\ state_[c] = "kConnected"
    /\ HandleClose(c)
    /\ UNCHANGED <<vars, arrived, handled, acc, idle_fd_, others, opened, conns, conn_map_, destroyed, functors>>
-----------------------------------------------------------------------------
(***************************************************************************)
(* The base loop and stop.                                                 *)
(***************************************************************************)

Erase(c) == conn_map_' = conn_map_ \ {c}

\* Two variants: one that queues to the loop whose turn it is, one that forgets to.
QueueToNext(c) == functors' = Queue(functors, loops_[next_ + 1], "conn_destroyed", c)

NotDestroyed(c) == UNCHANGED functors

QueueDestroyed(c) == functors' = Queue(functors, conns[c], "conn_destroyed", c)

remove_conn_in_loop ==
    LET c == Head(removes)
    IN /\ bpc = "serve" /\ acc = "poll" /\ removes # <<>>
       /\ removes' = Tail(removes)
       /\ IF c \in conn_map_ THEN Erase(c) /\ QueueDestroyed(c)
          ELSE UNCHANGED <<conn_map_, functors>>
       /\ UNCHANGED <<vars, arrived, handled, acc, idle_fd_, others, opened, conns, state_, destroyed>>

\* The orders in which a set of connections can be visited, each of them once.
Orders(S) ==
    {ids \in [1 .. Cardinality(S) -> S] : \A c \in S : \E i \in 1 .. Cardinality(S) :
        ids[i] = c /\ \A j \in 1 .. Cardinality(S) : ids[j] = c => j = i}

OnLoop(t) == {c \in conn_map_ : conns[c] = t}

\* TcpServer::stop: conn_destroyed is queued for every connection in the map, in the
\* order of their names, which need not be that of their numbers, and the pointers of
\* the map are reset; then the threads are stopped.
stop ==
    /\ acc = "poll"
    /\ BeginStop
    /\ \E ids \in [Thread -> UNION {Orders(OnLoop(t)) : t \in Thread}] :
          /\ \A t \in Thread : ids[t] \in Orders(OnLoop(t))
          /\ functors' = [t \in Thread |->
                functors[t] \o [i \in 1 .. Cardinality(OnLoop(t)) |-> <<"conn_destroyed", ids[t][i]>>]]
    /\ conn_map_' = {}
    /\ UNCHANGED <<arrived, handled, acc, idle_fd_, others, opened, conns, state_, destroyed, removes>>

PoolStep == (BaseStep \/ \E t \in Thread : ThreadStep(t)) /\ UNCHANGED serverVars

Acceptor == Accept \/ CloseIdle \/ AcceptAndClose \/ OpenIdle

ServerNext ==
    \/ PoolStep
    \/ Acceptor \/ Connect \/ OtherFile
    \/ \E t \in Thread : RunFunctor(t)
    \/ \E c \in Conn : Close(c)
    \/ remove_conn_in_loop
    \/ stop

ServerSpec == ServerInit /\ [][ServerNext]_allVars

\* Threads run, poll reports a socket that stays ready, and the base loop runs its
\* functors in every round, also when each round has a peer to refuse.  Peers, other
\* threads and whoever stops the server do as they like.
FairServerSpec ==
    /\ ServerSpec
    /\ WF_allVars(BaseStep /\ UNCHANGED serverVars)
    /\ \A t \in Thread : WF_allVars(ThreadStep(t) /\ UNCHANGED serverVars)
    /\ \A t \in Thread : WF_allVars(RunFunctor(t))
    /\ WF_allVars(Acceptor)
    /\ SF_allVars(remove_conn_in_loop)
-----------------------------------------------------------------------------
\* The type of the variables: no connection is destroyed twice or left in the map
\* with its pointer gone, and the process never has more descriptors than it may.
ServerTypeOK ==
    /\ TypeOK
    /\ arrived \in 0 .. MaxPeers /\ handled \in 0 .. arrived
    /\ acc \in {"poll", "accept", "open"} /\ idle_fd_ \in BOOLEAN /\ others \in 0 .. opened /\ opened \in 0 .. MaxOthers
    /\ conns \in Seq(Thread) /\ conn_map_ \subseteq Conn
    /\ state_ \in [Conn -> {"kConnecting", "kConnected", "kDisconnected"}]
    /\ destroyed \in [Conn -> 0 .. 1]
    /\ functors \in [Thread -> Seq({"conn_established", "conn_destroyed"} \X Conn)]
    /\ removes \in Seq(Conn)
    /\ Used <= MaxFds

Times(t, op, c) == Cardinality({i \in DOMAIN functors[t] : functors[t][i] = <<op, c>>})

\* No connection is forgotten and none is destroyed twice: a connection is in the
\* map, or conn_destroyed has run or is queued, once, on its own loop and after its
\* conn_established; also when it closes while the server is being stopped.
DestroyedOnce ==
    \A c \in Conn :
        /\ destroyed[c] + Times(conns[c], "conn_destroyed", c) = IF c \in conn_map_ THEN 0 ELSE 1
        /\ \A t \in Thread \ {conns[c]} : \A i \in DOMAIN functors[t] : functors[t][i][2] # c
        /\ state_[c] = "kConnecting" => destroyed[c] = 0
        /\ \A i, j \in DOMAIN functors[conns[c]] :
              functors[conns[c]][i] = <<"conn_established", c>>
                /\ functors[conns[c]][j] = <<"conn_destroyed", c>> => i < j

\* The server gives back the descriptors of the connections that are closed, as long
\* as it serves.
Reclaimed ==
    \A c \in 1 .. MaxPeers :
        (c \in Conn /\ c \in Range(removes) /\ bpc = "serve")
            ~> (bpc # "serve" \/ (c \in Conn /\ ~Held(c)))

\* Out of descriptors or not, a peer that waits is accepted or refused, unless another
\* thread took the spare descriptor while it was closed and it could not be opened
\* again: the busy loop that the comment in _handle_read describes.
PeerAnswered ==
    \A n \in 1 .. MaxPeers :
        (arrived >= n /\ bpc = "serve") ~> (handled >= n \/ bpc # "serve" \/ (acc = "poll" /\ ~idle_fd_))
=============================================================================
