------------------------ MODULE MySQLConnectionPool ------------------------
(***************************************************************************)
(* The two connection pools, database/db_mysqlconn_pool.h (kind            *)
(* "MySQLConnectionPool") and database/whisp_mysqlconn_pool.cpp (kind      *)
(* "MysqlConnPool").  They are one queue under one mutex with one          *)
(* condition variable, and differ in what they do with a session that      *)
(* cannot be made and with a null pointer that is given back.              *)
(*                                                                         *)
(* A region under the mutex is one step.  A client in wait_for is blocked  *)
(* or has been woken; notify_one wakes one that is blocked.                *)
(***************************************************************************)
EXTENDS Integers, Sequences, FiniteSets

CONSTANTS
    Clients,     \* the threads that use connections
    pool_size,
    MaxNulls     \* bound: how often a null pointer is given back

ASSUME PoolAssumption == pool_size \in Nat /\ MaxNulls \in Nat

VARIABLES
    kind,
    conn_pool_,  \* connections are numbers from 1 in the order they were made, 0 is null
    made,        \* how many were made
    client,      \* what each client does
    held,        \* the connection of each client, 0 for none
    nulls

connVars == <<kind, conn_pool_, made, client, held, nulls>>

Null == 0

Free == "free"     \* not using the pool
Getting == "get"   \* about to lock the mutex of the pool
Blocked == "wait"  \* in wait_for
Woken == "woken"
Using == "use"
GaveUp == "timeout"  \* get_conn returned null, GetConnection threw

(***************************************************************************)
(* MysqlConnPool's constructor leaves out the connections it could not     *)
(* make, MySQLConnectionPool::Init tries again until the pool is full.     *)
(***************************************************************************)
ConnInit ==
    /\ kind \in {"MySQLConnectionPool", "MysqlConnPool"}
    /\ made \in (IF kind = "MysqlConnPool" THEN 0 .. pool_size ELSE {pool_size})
    /\ conn_pool_ = [i \in 1 .. made |-> i]
    /\ client = [c \in Clients |-> Free]
    /\ held = [c \in Clients |-> Null]
    /\ nulls = 0

Go(c, where) == client' = [client EXCEPT ![c] = where]

\* The variant that takes the front and leaves it in the queue.
Copy(c) ==
    /\ conn_pool_ # <<>>
    /\ held' = [held EXCEPT ![c] = Head(conn_pool_)]
    /\ Go(c, Using)
    /\ UNCHANGED <<kind, conn_pool_, made, nulls>>

\* The front of the queue is the client's; the pool of shared pointers may hand out
\* a null pointer that was given back, which a client takes for a timeout.
Take(c) ==
    /\ conn_pool_ # <<>>
    /\ conn_pool_' = Tail(conn_pool_)
    /\ held' = [held EXCEPT ![c] = Head(conn_pool_)]
    /\ Go(c, IF Head(conn_pool_) = Null THEN GaveUp ELSE Using)
    /\ UNCHANGED <<kind, made, nulls>>

Wait(c) ==
    /\ conn_pool_ = <<>>
    /\ Go(c, Blocked)
    /\ UNCHANGED <<kind, conn_pool_, made, held, nulls>>

\* wait_for looks at the queue before it waits and whenever it is woken, by a
\* notification or by nothing at all.
GetConnection(c) ==
    /\ client[c] \in {Getting, Woken}
    /\ Take(c) \/ Wait(c)

Spurious(c) ==
    /\ client[c] = Blocked
    /\ Go(c, Woken)
    /\ UNCHANGED <<kind, conn_pool_, made, held, nulls>>

\* ... and a last time when the time is over.
Timeout(c) ==
    /\ client[c] \in {Blocked, Woken}
    /\ \/ Take(c)
       \/ /\ conn_pool_ = <<>>
          /\ Go(c, GaveUp)
          /\ UNCHANGED <<kind, conn_pool_, made, held, nulls>>

\* The variant without cond_.notify_one().
PushOnly(conn, clients) == conn_pool_' = Append(conn_pool_, conn) /\ client' = clients

\* Under the mutex, the connection is pushed and one of the blocked clients is woken.
Push(conn, clients) ==
    /\ conn_pool_' = Append(conn_pool_, conn)
    /\ LET blocked == {c \in Clients : clients[c] = Blocked}
       IN IF blocked = {} THEN client' = clients
          ELSE \E c \in blocked : client' = [clients EXCEPT ![c] = Woken]

ReleaseConnection(c) ==
    /\ client[c] = Using
    /\ Push(held[c], [client EXCEPT ![c] = Free])
    /\ held' = [held EXCEPT ![c] = Null]
    /\ UNCHANGED <<kind, made, nulls>>

\* A client without a connection goes on: it does not release what it did not get.
NoConnection(c) ==
    /\ client[c] = GaveUp
    /\ Go(c, Free)
    /\ UNCHANGED <<kind, conn_pool_, made, held, nulls>>

\* A client may give back a null pointer.  One pool makes a connection for it, if it
\* can, the other queues it.
ReleaseNull(c) ==
    /\ client[c] = GaveUp /\ nulls < MaxNulls
    /\ nulls' = nulls + 1
    /\ LET clients == [client EXCEPT ![c] = Free]
       IN \/ /\ kind = "MySQLConnectionPool"
             /\ \/ made' = made + 1 /\ Push(made + 1, clients)
                \/ UNCHANGED <<made, conn_pool_>> /\ client' = clients
          \/ /\ kind = "MysqlConnPool"
             /\ UNCHANGED made /\ Push(Null, clients)
    /\ UNCHANGED <<kind, held>>

ConnStep(c) ==
    \/ GetConnection(c) \/ Timeout(c)
    \/ ReleaseConnection(c)
    \/ NoConnection(c) \/ ReleaseNull(c)
-----------------------------------------------------------------------------
\* The types of the pools' variables.
ConnTypeOK ==
    /\ kind \in {"MySQLConnectionPool", "MysqlConnPool"}
    /\ made \in Nat /\ nulls \in 0 .. MaxNulls
    /\ conn_pool_ \in Seq(0 .. made)
    /\ client \in [Clients -> {Free, Getting, Blocked, Woken, Using, GaveUp}]
    /\ held \in [Clients -> 0 .. made]

\* A connection is one client's or in the queue, and none is lost: get_conn and
\* release_conn move it from the one to the other.
OneOwner ==
    LET queued == {i \in DOMAIN conn_pool_ : conn_pool_[i] # Null}
        users  == {c \in Clients : held[c] # Null}
    IN /\ \A n \in 1 .. made :
            Cardinality({i \in queued : conn_pool_[i] = n}) + Cardinality({c \in users : held[c] = n}) = 1
       /\ \A c \in Clients : client[c] = Using <=> held[c] # Null

\* A client sleeps in wait_for only as long as the queue has nothing that is not
\* promised to a client that has been woken: no notification is lost between the
\* look at the queue and the wait, or spent on a client that did not need it.
NoConnectionOverlooked ==
    {c \in Clients : client[c] = Blocked} # {} =>
        Len(conn_pool_) <= Cardinality({c \in Clients : client[c] = Woken})
=============================================================================
