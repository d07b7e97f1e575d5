----------------------- MODULE WhispThreadPool_proofs -----------------------
(***************************************************************************)
(* For any numbers of workers, producers, tasks, connections and resizes:  *)
(* a connection has one owner, a task is run once and in its turn, and     *)
(* nobody sleeps while there is a connection or a task for it.             *)
(*                                                                         *)
(* The first two properties count; the inductive invariant says instead    *)
(* that no two places have the same connection or task, from which the     *)
(* counts follow.                                                          *)
(***************************************************************************)
EXTENDS WhispThreadPool, FiniteSetTheorems, TLAPS

(***************************************************************************)
(* Connections.                                                            *)
(***************************************************************************)
ClientState == {Free, Getting, Blocked, Woken, Using, GaveUp}

Places(q) == 1 .. Len(q)

\* No connection is at two places of the queue q, with two clients, or at a place and
\* with a client, and each of the m that were made is somewhere.
Owned(q, h, m) ==
    /\ \A i, j \in Places(q) : q[i] = q[j] /\ q[i] # Null => i = j
    /\ \A c, d \in Clients : h[c] = h[d] /\ h[c] # Null => c = d
    /\ \A i \in Places(q), c \in Clients : q[i] = h[c] => h[c] = Null
    /\ \A n \in 1 .. m : (\E i \in Places(q) : q[i] = n) \/ (\E c \in Clients : h[c] = n)

OwnerInv ==
    /\ made \in Nat
    /\ conn_pool_ \in Seq(Nat) /\ \A i \in Places(conn_pool_) : conn_pool_[i] <= made
    /\ client \in [Clients -> ClientState]
    /\ held \in [Clients -> Nat] /\ \A c \in Clients : held[c] <= made
    /\ \A c \in Clients : client[c] = Using <=> held[c] # Null
    /\ Owned(conn_pool_, held, made)

LEMMA OwnerInit == ConnInit => OwnerInv
<1> SUFFICES ASSUME ConnInit PROVE OwnerInv OBVIOUS
<1>1. made \in Nat BY PoolAssumption, SMT DEF ConnInit
<1>2. conn_pool_ \in Seq(Nat) /\ Len(conn_pool_) = made /\ \A i \in 1 .. made : conn_pool_[i] = i
  BY <1>1, SMT DEF ConnInit
<1>3. client \in [Clients -> ClientState] /\ \A c \in Clients : client[c] = Free
  BY DEF ConnInit, ClientState
<1>4. held \in [Clients -> Nat] /\ \A c \in Clients : held[c] = 0 BY DEF ConnInit, Null
<1>5. Owned(conn_pool_, held, made) BY <1>1, <1>2, <1>4, SMT DEF Owned, Places, Null
<1>6. \A c \in Clients : client[c] = Using <=> held[c] # Null
  BY <1>3, <1>4 DEF Free, Using, Null
<1> QED BY <1>1, <1>2, <1>3, <1>4, <1>5, <1>6, SMT DEF OwnerInv, Places

\* Taking the front of the queue.
LEMMA TakeOwner ==
  ASSUME OwnerInv, NEW c \in Clients, client[c] # Using, Take(c)
  PROVE  OwnerInv'
<1> DEFINE q == conn_pool_
           f == Head(conn_pool_)
<1>1. /\ q \in Seq(Nat) /\ q # <<>> /\ held \in [Clients -> Nat] /\ made \in Nat
      /\ \A i \in Places(q) : q[i] <= made
      /\ \A d \in Clients : held[d] <= made
      /\ Owned(q, held, made) /\ held[c] = Null
  BY DEF OwnerInv, Take
<1>2. conn_pool_' = Tail(q) /\ held' = [held EXCEPT ![c] = f] /\ made' = made
  BY DEF Take
<1>3. /\ Tail(q) \in Seq(Nat) /\ Len(q) \in Nat \ {0} /\ Len(Tail(q)) = Len(q) - 1
      /\ f = q[1] /\ f \in Nat
      /\ \A i \in 1 .. Len(q) - 1 : Tail(q)[i] = q[i + 1]
  BY <1>1, SMT
<1>4. /\ held'[c] = f
      /\ \A d \in Clients \ {c} : held'[d] = held[d]
      /\ held' \in [Clients -> Nat]
  BY <1>1, <1>2, <1>3
<1>5. f <= made BY <1>1, <1>3, SMT DEF Places
<1>6. Owned(Tail(q), held', made)
  <2> DEFINE r == Tail(q)
             h == held'
             L == Len(q)
  <2>1. /\ L \in Nat \ {0} /\ Len(r) = L - 1 /\ f = q[1]
        /\ \A i \in 1 .. L - 1 : r[i] = q[i + 1]
    BY <1>3
  <2>2. /\ \A i, j \in 1 .. L : q[i] = q[j] /\ q[i] # 0 => i = j
        /\ \A a, b \in Clients : held[a] = held[b] /\ held[a] # 0 => a = b
        /\ \A i \in 1 .. L, a \in Clients : q[i] = held[a] => held[a] = 0
        /\ \A n \in 1 .. made : (\E i \in 1 .. L : q[i] = n) \/ (\E a \in Clients : held[a] = n)
    BY <1>1, Zenon DEF Owned, Places, Null
  <2>3. h[c] = f /\ \A d \in Clients \ {c} : h[d] = held[d] BY <1>4
  <2>4. held[c] = 0 BY <1>1 DEF Null
  <2> HIDE DEF r, h, q, f, L
  <2>5. \A i, j \in 1 .. (L - 1) : r[i] = r[j] /\ r[i] # 0 => i = j
    BY <2>1, <2>2, SMT
  <2>6. \A a, b \in Clients : h[a] = h[b] /\ h[a] # 0 => a = b
    <3>1. 1 \in 1 .. L BY <2>1, SMT
    <3> QED BY <2>1, <2>2, <2>3, <3>1
  <2>7. \A i \in 1 .. (L - 1), a \in Clients : r[i] = h[a] => h[a] = 0
    <3> SUFFICES ASSUME NEW i \in 1 .. (L - 1), NEW a \in Clients, r[i] = h[a], h[a] # 0 PROVE FALSE
      OBVIOUS
    <3> DEFINE k == i + 1
    <3>1. r[i] = q[k] /\ k \in 1 .. L /\ k # 1 /\ 1 \in 1 .. L BY <2>1, SMT
    <3> HIDE DEF k
    <3>2. q[k] = held[a] => held[a] = 0 BY <2>2, <3>1, Zenon
    <3>3. q[k] = q[1] /\ q[k] # 0 => k = 1 BY <2>2, <3>1, Zenon
    <3>4. h[a] = IF a = c THEN q[1] ELSE held[a] BY <2>1, <2>3
    <3> QED BY <3>1, <3>2, <3>3, <3>4, Zenon
  <2>8. \A n \in 1 .. made : (\E i \in 1 .. (L - 1) : r[i] = n) \/ (\E a \in Clients : h[a] = n)
    <3> SUFFICES ASSUME NEW n \in 1 .. made
                 PROVE  (\E i \in 1 .. (L - 1) : r[i] = n) \/ (\E a \in Clients : h[a] = n)
      OBVIOUS
    <3>1. CASE \E a \in Clients : held[a] = n
      <4>1. PICK a \in Clients : held[a] = n BY <3>1
      <4>2. n # 0 BY <1>1, SMT
      <4> QED BY <2>3, <2>4, <4>1, <4>2
    <3>2. CASE \E i \in 1 .. L : q[i] = n
      <4>1. PICK i \in 1 .. L : q[i] = n BY <3>2
      <4>2. CASE i = 1 BY <2>1, <2>3, <4>1, <4>2
      <4>3. CASE i # 1
        <5>1. i - 1 \in 1 .. (L - 1) /\ (i - 1) + 1 = i BY <2>1, <4>1, <4>3, SMT
        <5>2. r[i - 1] = n BY <2>1, <4>1, <5>1
        <5> QED BY <5>1, <5>2
      <4> QED BY <4>2, <4>3
    <3> QED BY <2>2, <3>1, <3>2
  <2> QED BY <2>1, <2>5, <2>6, <2>7, <2>8, Zenon DEF Owned, Places, Null, r, h
<1>7. \A i \in Places(conn_pool_') : conn_pool_'[i] <= made'
  BY <1>1, <1>2, <1>3, SMT DEF Places
<1>8. /\ client' \in [Clients -> ClientState]
      /\ client'[c] = IF f = Null THEN GaveUp ELSE Using
      /\ \A d \in Clients \ {c} : client'[d] = client[d]
  BY DEF OwnerInv, Take, Go, ClientState
<1>9. \A d \in Clients : client'[d] = Using <=> held'[d] # Null
  BY <1>4, <1>8 DEF OwnerInv, GaveUp, Using
<1>10. \A d \in Clients : held'[d] <= made' BY <1>1, <1>2, <1>4, <1>5
<1> QED BY <1>1, <1>2, <1>3, <1>4, <1>6, <1>7, <1>8, <1>9, <1>10, Zenon DEF OwnerInv

\* Pushing a connection that is nowhere else.
LEMMA AppendOwned ==
  ASSUME NEW q \in Seq(Nat), NEW x \in Nat, NEW h, NEW m \in Nat,
         \A i, j \in Places(q) : q[i] = q[j] /\ q[i] # Null => i = j,
         \A c, d \in Clients : h[c] = h[d] /\ h[c] # Null => c = d,
         \A i \in Places(q), c \in Clients : q[i] = h[c] => h[c] = Null,
         \A i \in Places(q) : q[i] = x => x = Null,
         \A c \in Clients : h[c] = x => x = Null,
         \A n \in 1 .. m : \/ \E i \in Places(q) : q[i] = n
                           \/ \E c \in Clients : h[c] = n
                           \/ n = x
  PROVE  Owned(Append(q, x), h, m)
<1> DEFINE r == Append(q, x)
           L == Len(q)
<1>1. /\ L \in Nat /\ Len(r) = L + 1 /\ r[L + 1] = x
      /\ \A i \in 1 .. L : r[i] = q[i]
  BY SMT
<1>2. Places(q) = 1 .. L /\ Places(r) = 1 .. (L + 1) BY <1>1 DEF Places
<1>3. \A i \in Places(r) : i \in Places(q) \/ i = L + 1 BY <1>1, <1>2, SMT
<1>4. Places(q) \subseteq Places(r) /\ L + 1 \in Places(r) BY <1>1, <1>2, SMT
<1> DEFINE k == L + 1
<1>5. /\ r[k] = x /\ k \in Places(r)
      /\ \A i \in Places(q) : r[i] = q[i] /\ i \in Places(r)
      /\ \A i \in Places(r) : i \in Places(q) \/ i = k
  BY <1>1, <1>2, <1>3, <1>4
<1> HIDE DEF r, L, k
<1>6. \A i, j \in Places(r) : r[i] = r[j] /\ r[i] # Null => i = j BY <1>5
<1>7. \A i \in Places(r), c \in Clients : r[i] = h[c] => h[c] = Null BY <1>5
<1>8. \A n \in 1 .. m : (\E i \in Places(r) : r[i] = n) \/ (\E c \in Clients : h[c] = n)
  BY <1>5
<1> QED BY <1>6, <1>7, <1>8, Zenon DEF Owned, r

\* A push leaves every client but the one that is woken where clients has it.
LEMMA PushClients ==
  ASSUME NEW conn, NEW clients \in [Clients -> ClientState], Push(conn, clients)
  PROVE  /\ conn_pool_' = Append(conn_pool_, conn)
         /\ client' \in [Clients -> ClientState]
         /\ \A d \in Clients : client'[d] = clients[d] \/ (clients[d] = Blocked /\ client'[d] = Woken)
<1>1. CASE client' = clients BY <1>1 DEF Push
<1>2. CASE \E d \in Clients : clients[d] = Blocked /\ client' = [clients EXCEPT ![d] = Woken]
  <2>1. PICK d \in Clients : clients[d] = Blocked /\ client' = [clients EXCEPT ![d] = Woken] BY <1>2, Zenon
  <2> QED BY <2>1 DEF Push, ClientState
<1> QED BY <1>1, <1>2 DEF Push

LEMMA ReleaseOwner ==
  ASSUME OwnerInv, NEW c \in Clients, ReleaseConnection(c)
  PROVE  OwnerInv'
<1> DEFINE x == held[c]
           clients == [client EXCEPT ![c] = Free]
<1>1. /\ conn_pool_ \in Seq(Nat) /\ held \in [Clients -> Nat] /\ made \in Nat
      /\ \A i \in Places(conn_pool_) : conn_pool_[i] <= made
      /\ \A d \in Clients : held[d] <= made
      /\ Owned(conn_pool_, held, made) /\ x # Null /\ x \in Nat
      /\ clients \in [Clients -> ClientState]
  BY DEF OwnerInv, ReleaseConnection, ClientState
<1>2. Push(x, clients) /\ held' = [held EXCEPT ![c] = Null] /\ made' = made
  BY DEF ReleaseConnection
<1>3. /\ conn_pool_' = Append(conn_pool_, x)
      /\ client' \in [Clients -> ClientState]
      /\ \A d \in Clients : client'[d] = clients[d] \/ (clients[d] = Blocked /\ client'[d] = Woken)
  <2> HIDE DEF x, clients
  <2> QED BY <1>1, <1>2, PushClients
<1>4. /\ held' \in [Clients -> Nat] /\ held'[c] = Null
      /\ \A d \in Clients \ {c} : held'[d] = held[d]
  BY <1>1, <1>2 DEF Null
<1>5. Owned(conn_pool_', held', made)
  <2> DEFINE h == held'
  <2>1. /\ \A i, j \in Places(conn_pool_) : conn_pool_[i] = conn_pool_[j] /\ conn_pool_[i] # Null => i = j
        /\ \A i \in Places(conn_pool_) : conn_pool_[i] = x => x = Null
    BY <1>1 DEF Owned
  <2>2. \A a, b \in Clients : h[a] = h[b] /\ h[a] # Null => a = b
    <3>1. \A a, b \in Clients : held[a] = held[b] /\ held[a] # Null => a = b BY <1>1 DEF Owned
    <3>2. \A a \in Clients : h[a] = IF a = c THEN Null ELSE held[a] BY <1>4
    <3> HIDE DEF h
    <3> QED BY <3>1, <3>2
  <2>3. \A i \in Places(conn_pool_), a \in Clients : conn_pool_[i] = h[a] => h[a] = Null
    BY <1>1, <1>4 DEF Owned
  <2>4. \A a \in Clients : h[a] = x => x = Null
    <3>1. \A a \in Clients : held[a] = held[c] /\ held[a] # Null => a = c BY <1>1 DEF Owned
    <3>2. h[c] = Null /\ \A a \in Clients \ {c} : h[a] = held[a] BY <1>4
    <3> HIDE DEF h
    <3> QED BY <3>1, <3>2
  <2>5. \A n \in 1 .. made : \/ \E i \in Places(conn_pool_) : conn_pool_[i] = n
                             \/ \E a \in Clients : h[a] = n
                             \/ n = x
    <3>1. \A n \in 1 .. made : \/ \E i \in Places(conn_pool_) : conn_pool_[i] = n
                               \/ \E a \in Clients : held[a] = n
      BY <1>1 DEF Owned
    <3>2. \A a \in Clients : held[a] = h[a] \/ held[a] = x BY <1>4
    <3> HIDE DEF h, x
    <3> QED BY <3>1, <3>2, Zenon
  <2> HIDE DEF h, x
  <2>6. Owned(Append(conn_pool_, x), h, made)
    BY <1>1, <2>1, <2>2, <2>3, <2>4, <2>5, AppendOwned, Zenon
  <2> QED BY <1>3, <2>6 DEF h
<1>6. conn_pool_' \in Seq(Nat) /\ \A i \in Places(conn_pool_') : conn_pool_'[i] <= made
  <2>1. x <= made BY <1>1
  <2> HIDE DEF x
  <2> QED BY <1>1, <1>3, <2>1, SMT DEF Places
<1>7. \A d \in Clients : client'[d] = Using <=> held'[d] # Null
  BY <1>3, <1>4, Zenon DEF OwnerInv, Using, Free, Blocked, Woken
<1>8. \A d \in Clients : held'[d] <= made BY <1>1, <1>4, SMT DEF Null
<1> QED BY <1>1, <1>2, <1>3, <1>4, <1>5, <1>6, <1>7, <1>8, Zenon DEF OwnerInv

\* A client that does not have or get a connection only moves.
LEMMA MoveOwner ==
  ASSUME OwnerInv, UNCHANGED <<conn_pool_, made, held>>, client' \in [Clients -> ClientState],
         \A d \in Clients : client'[d] = Using <=> client[d] = Using
  PROVE  OwnerInv'
BY DEF OwnerInv, Places

LEMMA NullOwner ==
  ASSUME OwnerInv, NEW c \in Clients, ReleaseNull(c)
  PROVE  OwnerInv'
<1> DEFINE clients == [client EXCEPT ![c] = Free]
<1>1. /\ conn_pool_ \in Seq(Nat) /\ held \in [Clients -> Nat] /\ made \in Nat
      /\ \A i \in Places(conn_pool_) : conn_pool_[i] <= made
      /\ \A d \in Clients : held[d] <= made
      /\ Owned(conn_pool_, held, made)
  BY DEF OwnerInv
<1>2. /\ client[c] = GaveUp /\ client \in [Clients -> ClientState]
      /\ clients \in [Clients -> ClientState] /\ held' = held
      /\ \A d \in Clients : client[d] = Using <=> held[d] # Null
  BY DEF OwnerInv, ReleaseNull, ClientState
<1>3. \A d \in Clients : clients[d] = Using <=> client[d] = Using
  BY <1>2 DEF GaveUp, Using, Free
<1>4. CASE UNCHANGED <<made, conn_pool_>> /\ client' = clients
  BY <1>2, <1>3, <1>4, MoveOwner
<1>5. ASSUME NEW x \in Nat, made' \in Nat, made <= made', x <= made', Push(x, clients),
             \A i \in Places(conn_pool_) : conn_pool_[i] = x => x = Null,
             \A d \in Clients : held[d] = x => x = Null,
             \A n \in 1 .. made' : n \in 1 .. made \/ n = x
      PROVE  OwnerInv'
  <2>1. /\ conn_pool_' = Append(conn_pool_, x)
        /\ client' \in [Clients -> ClientState]
        /\ \A d \in Clients : client'[d] = clients[d] \/ (clients[d] = Blocked /\ client'[d] = Woken)
    BY <1>2, <1>5, PushClients, Zenon
  <2>2. \A d \in Clients : client'[d] = Using <=> held'[d] # Null
    BY <1>2, <1>3, <2>1 DEF Using, Blocked, Woken
  <2>3. conn_pool_' \in Seq(Nat) /\ \A i \in Places(conn_pool_') : conn_pool_'[i] <= made'
    BY <1>1, <1>5, <2>1, SMT DEF Places
  <2>4. \A d \in Clients : held'[d] <= made' BY <1>1, <1>2, <1>5, SMT
  <2>5. Owned(Append(conn_pool_, x), held, made')
    <3>1. /\ \A i, j \in Places(conn_pool_) :
               conn_pool_[i] = conn_pool_[j] /\ conn_pool_[i] # Null => i = j
          /\ \A a, b \in Clients : held[a] = held[b] /\ held[a] # Null => a = b
          /\ \A i \in Places(conn_pool_), a \in Clients : conn_pool_[i] = held[a] => held[a] = Null
      BY <1>1 DEF Owned
    <3>2. \A n \in 1 .. made' : \/ \E i \in Places(conn_pool_) : conn_pool_[i] = n
                                \/ \E a \in Clients : held[a] = n
                                \/ n = x
      BY <1>1, <1>5, Zenon DEF Owned
    <3> QED BY <1>1, <1>5, <3>1, <3>2, AppendOwned, Zenon
  <2> QED BY <1>1, <1>2, <1>5, <2>1, <2>2, <2>3, <2>4, <2>5, Zenon DEF OwnerInv
<1>6. CASE made' = made + 1 /\ Push(made + 1, clients)
  <2> DEFINE x == made + 1
  <2>1. /\ x \in Nat /\ made' = x /\ made <= x /\ x <= x
        /\ \A n \in 1 .. x : n \in 1 .. made \/ n = x
        /\ \A n \in Nat : n <= made => n # x
    BY <1>1, <1>6, SMT
  <2>2. \A i \in Places(conn_pool_) : conn_pool_[i] \in Nat /\ conn_pool_[i] <= made
    BY <1>1, SMT DEF Places
  <2>3. \A d \in Clients : held[d] \in Nat /\ held[d] <= made BY <1>1
  <2>4. Push(x, clients) BY <1>6
  <2> HIDE DEF x, clients
  <2> QED BY <1>5, <2>1, <2>2, <2>3, <2>4
<1>7. CASE made' = made /\ Push(Null, clients)
  <2>1. Null \in Nat /\ made <= made /\ Null <= made BY <1>1, SMT DEF Null
  <2> HIDE DEF clients
  <2> QED BY <1>1, <1>5, <1>7, <2>1
<1> QED BY <1>4, <1>6, <1>7 DEF ReleaseNull

LEMMA StepOwner ==
  ASSUME OwnerInv, NEW c \in Clients, ConnStep(c) \/ Spurious(c)
  PROVE  OwnerInv'
<1> USE DEF Free, Getting, Blocked, Woken, Using, GaveUp
<1>1. ASSUME NEW where \in ClientState \ {Using}, client[c] # Using, Go(c, where),
             UNCHANGED <<conn_pool_, made, held>>
      PROVE  OwnerInv'
  <2>1. /\ client' \in [Clients -> ClientState]
        /\ \A d \in Clients : client'[d] = Using <=> client[d] = Using
    BY <1>1 DEF OwnerInv, Go
  <2> QED BY <1>1, <2>1, MoveOwner
<1>2. CASE GetConnection(c)
  BY <1>1, <1>2, TakeOwner DEF GetConnection, Wait, ClientState
<1>3. CASE Timeout(c)
  BY <1>1, <1>3, TakeOwner DEF Timeout, ClientState
<1>4. CASE NoConnection(c) BY <1>1, <1>4 DEF NoConnection, ClientState
<1>5. CASE Spurious(c) BY <1>1, <1>5 DEF Spurious, ClientState
<1> QED BY <1>2, <1>3, <1>4, <1>5, ReleaseOwner, NullOwner DEF ConnStep

\* At most one place and one client: the counts of OneOwner.
LEMMA OwnerCounts == OwnerInv => OneOwner
<1> SUFFICES ASSUME OwnerInv PROVE OneOwner OBVIOUS
<1> DEFINE queued == {i \in DOMAIN conn_pool_ : conn_pool_[i] # Null}
           users  == {c \in Clients : held[c] # Null}
<1>1. DOMAIN conn_pool_ = Places(conn_pool_) BY SMT DEF OwnerInv, Places
<1>2. ASSUME NEW n \in 1 .. made
      PROVE  Cardinality({i \in queued : conn_pool_[i] = n})
               + Cardinality({c \in users : held[c] = n}) = 1
  <2> DEFINE I == {i \in queued : conn_pool_[i] = n}
             C == {c \in users : held[c] = n}
  <2>1. n # Null BY <1>2, SMT DEF OwnerInv, Null
  <2>2. Owned(conn_pool_, held, made) BY DEF OwnerInv
  <2>3. CASE \E i \in Places(conn_pool_) : conn_pool_[i] = n
    <3>1. PICK i \in Places(conn_pool_) : conn_pool_[i] = n BY <2>3
    <3>2. I = {i} BY <1>1, <2>1, <2>2, <3>1 DEF Owned
    <3>3. C = {} BY <2>1, <2>2, <3>1 DEF Owned
    <3>4. Cardinality(I) = 1 /\ Cardinality(C) = 0 BY <3>2, <3>3, FS_Singleton, FS_EmptySet, Zenon
    <3> QED BY <3>4, SMT
  <2>4. CASE \A i \in Places(conn_pool_) : conn_pool_[i] # n
    <3>1. PICK c \in Clients : held[c] = n BY <1>2, <2>2, <2>4 DEF Owned
    <3>2. C = {c} BY <2>1, <2>2, <3>1 DEF Owned
    <3>3. I = {} BY <1>1, <2>4
    <3>4. Cardinality(I) = 0 /\ Cardinality(C) = 1 BY <3>2, <3>3, FS_Singleton, FS_EmptySet, Zenon
    <3> QED BY <3>4, SMT
  <2> QED BY <2>3, <2>4
<1> QED BY <1>2, Zenon DEF OneOwner, OwnerInv

(***************************************************************************)
(* Workers.                                                                *)
(***************************************************************************)
WorkerState == {"none", "lock", "wait", "run", "ended"}

OwnerState == {"idle", "notify_all", "join", "gone", "terminated"}

\* A worker uses the connections only within its task, and the vector holds every
\* thread there is: resize makes no second thread in a place.
WorkInv ==
    /\ size \in Nat
    /\ worker \in [Clients -> WorkerState]
    /\ running \in [Clients -> Nat]
    /\ owner \in [at : OwnerState, to : Int]
    /\ owner.at \in {"notify_all", "join"} => owner.to = Destroy \/ owner.to \in 0 .. size
    /\ \A w \in Clients : worker[w] # "run" => client[w] = Free
    /\ \A w \in Clients : worker[w] = "run" <=> running[w] # 0
    /\ \A w \in Clients : w > size => worker[w] = "none"

LEMMA PlacesFromOne == \A w \in Clients : w \in Int /\ 1 <= w
<1> DEFINE k == Cardinality(Clients)
<1>1. Clients = 1 .. k BY ThreadPoolAssumption
<1> HIDE DEF k
<1> QED BY <1>1, SMT

LEMMA WorkInit == Init => WorkInv
<1> SUFFICES ASSUME Init PROVE WorkInv OBVIOUS
<1>1. owner \in [at : OwnerState, to : Int] /\ owner.at = "idle" BY DEF Init, Idle, OwnerState
<1>2. size \in Nat /\ \A w \in Clients : w \in Int BY ThreadPoolAssumption, PlacesFromOne DEF Init
<1>3. \A w \in Clients : /\ worker[w] = IF w <= size THEN "lock" ELSE "none"
                         /\ running[w] = 0 /\ client[w] = Free
  BY DEF Init, ConnInit
<1>4. worker \in [Clients -> WorkerState] /\ running \in [Clients -> Nat]
  BY DEF Init, WorkerState
<1>5. \A w \in Clients : w > size => worker[w] = "none" BY <1>2, <1>3, SMT
<1> QED BY <1>1, <1>2, <1>3, <1>4, <1>5 DEF WorkInv

\* What a client does at the connection pool leaves those that do not use it alone.
LEMMA OthersFree ==
  ASSUME OwnerInv, NEW c \in Clients, ConnStep(c) \/ Spurious(c)
  PROVE  /\ client[c] # Free
         /\ \A d \in Clients : client[d] = Free => client'[d] = Free
<1> USE DEF Free, Getting, Blocked, Woken, Using, GaveUp
<1>1. client[c] # Free
  BY DEF ConnStep, Spurious, GetConnection, Timeout, ReleaseConnection, NoConnection, ReleaseNull
<1>2. client \in [Clients -> ClientState] BY DEF OwnerInv
<1>3. ASSUME NEW where, Go(c, where)
      PROVE  \A d \in Clients : client[d] = Free => client'[d] = Free
  BY <1>1, <1>2, <1>3 DEF Go
<1>4. ASSUME NEW conn, Push(conn, [client EXCEPT ![c] = Free])
      PROVE  \A d \in Clients : client[d] = Free => client'[d] = Free
  <2> DEFINE clients == [client EXCEPT ![c] = Free]
  <2>1. clients \in [Clients -> ClientState] BY <1>2 DEF ClientState
  <2>2. \A d \in Clients : client[d] = Free => clients[d] = Free BY <1>2
  <2>3. \A d \in Clients : client'[d] = clients[d] \/ (clients[d] = Blocked /\ client'[d] = Woken)
    BY <1>4, <2>1, PushClients, Zenon
  <2> QED BY <2>2, <2>3
<1>5. CASE ReleaseConnection(c) BY <1>4, <1>5 DEF ReleaseConnection
<1>6. CASE ReleaseNull(c)
  <2>1. CASE client' = [client EXCEPT ![c] = Free] BY <1>1, <1>2, <2>1
  <2> QED BY <1>1, <1>4, <1>6, <2>1 DEF ReleaseNull
<1>7. CASE GetConnection(c) \/ Timeout(c) \/ NoConnection(c) \/ Spurious(c)
  BY <1>3, <1>7 DEF GetConnection, Take, Wait, Timeout, NoConnection, Spurious
<1> QED BY <1>1, <1>5, <1>6, <1>7 DEF ConnStep

\* Waking or leaving: no worker begins or ends a task.
LEMMA MoveWork ==
  ASSUME WorkInv, UNCHANGED <<size, running, owner, client>>,
         worker' \in [Clients -> WorkerState],
         \A w \in Clients : /\ worker'[w] = "run" <=> worker[w] = "run"
                            /\ worker[w] = "none" => worker'[w] = "none"
  PROVE  WorkInv'
BY DEF WorkInv

LEMMA WakeWork ==
  ASSUME WorkInv, UNCHANGED <<size, running, owner, client>>,
         NEW v \in Clients, worker[v] \in {"lock", "wait"},
         NEW state \in WorkerState \ {"run"}, Become(v, state)
  PROVE  WorkInv'
<1>1. /\ worker' \in [Clients -> WorkerState]
      /\ \A w \in Clients : /\ worker'[w] = "run" <=> worker[w] = "run"
                            /\ worker[w] = "none" => worker'[w] = "none"
  BY DEF WorkInv, Become
<1> QED BY <1>1, MoveWork

\* How many places join cuts.
LEMMA CutSize ==
  ASSUME WorkInv, owner.at = "join"
  PROVE  /\ size - Cardinality(Cut) \in Nat
         /\ \A w \in Clients : w > size - Cardinality(Cut) => w > size \/ w \in Cut
<1>1. \A w \in Clients : w \in Int BY PlacesFromOne
<1>2. size \in Nat BY DEF WorkInv
<1>3. CASE owner.to = Destroy
  <2>1. Cut = 1 .. size BY <1>3 DEF Cut
  <2>2. Cardinality(1 .. size) = size
    <3>1. 1 \in Int /\ size \in Int BY <1>2, SMT
    <3>2. Cardinality(1 .. size) = IF 1 > size THEN 0 ELSE size - 1 + 1 BY <3>1, FS_Interval, Zenon
    <3> QED BY <1>2, <3>2, SMT
  <2>3. \A w \in Clients : 1 <= w BY PlacesFromOne
  <2> QED BY <1>1, <1>2, <2>1, <2>2, <2>3, SMT
<1>4. CASE owner.to # Destroy /\ owner.to \in 0 .. size
  <2> DEFINE n == owner.to
  <2>1. Cut = n + 1 .. size BY <1>4 DEF Cut
  <2>2. n \in Nat /\ n <= size BY <1>2, <1>4, SMT
  <2> HIDE DEF n
  <2>3. Cardinality(n + 1 .. size) = size - n
    <3> DEFINE a == n + 1
    <3>1. a \in Int /\ size \in Int BY <1>2, <2>2, SMT
    <3>2. Cardinality(a .. size) = IF a > size THEN 0 ELSE size - a + 1 BY <3>1, FS_Interval, Zenon
    <3> QED BY <1>2, <2>2, <3>2, SMT
  <2> QED BY <1>1, <1>2, <2>1, <2>2, <2>3, SMT
<1> QED BY <1>3, <1>4 DEF WorkInv

(***************************************************************************)
(* Tasks.                                                                  *)
(***************************************************************************)
\* How many tasks the workers have taken.
Taken == accepted - Len(tasks)

\* The queue is what was accepted and not taken, in order; of the tasks that were
\* taken each is done or with a worker, and no worker has one that is done or that
\* another has.
TaskInv ==
    /\ accepted \in Nat /\ calls \in Nat /\ accepted <= calls /\ calls <= MaxTasks
    /\ tasks \in Seq(Nat) /\ Len(tasks) <= accepted
    /\ \A i \in Places(tasks) : tasks[i] = Taken + i
    /\ ran \in [1 .. MaxTasks -> {0, 1}]
    /\ \A w \in Clients : running[w] <= Taken
    /\ \A v, w \in Clients : running[v] = running[w] /\ running[v] # 0 => v = w
    /\ \A t \in 1 .. MaxTasks : ran[t] = 1 => t <= Taken /\ \A w \in Clients : running[w] # t
    /\ \A t \in 1 .. MaxTasks : t <= Taken => ran[t] = 1 \/ \E w \in Clients : running[w] = t

LEMMA TaskInit == Init => TaskInv
<1> SUFFICES ASSUME Init PROVE TaskInv OBVIOUS
<1>1. /\ accepted = 0 /\ calls = 0 /\ tasks = <<>> /\ MaxTasks \in Nat
      /\ ran = [t \in 1 .. MaxTasks |-> 0] /\ running = [w \in Clients |-> 0]
  BY ThreadPoolAssumption DEF Init
<1>2. /\ tasks \in Seq(Nat) /\ Len(tasks) = 0 /\ Taken = 0 /\ Places(tasks) = {}
  <2>1. tasks \in Seq(Nat) /\ Len(tasks) = 0 BY <1>1, SMT
  <2>2. Taken = 0
    <3>1. accepted = 0 BY <1>1
    <3> QED BY <2>1, <3>1, SMT DEF Taken
  <2>3. 1 .. 0 = {} BY SMT
  <2>4. Places(tasks) = {} BY <2>1, <2>3, Zenon DEF Places
  <2> QED BY <2>1, <2>2, <2>4
<1>3. \A w \in Clients : running[w] = 0 BY <1>1
<1>4. ran \in [1 .. MaxTasks -> {0, 1}] /\ \A t \in 1 .. MaxTasks : ran[t] = 0 BY <1>1
<1>5. \A t \in 1 .. MaxTasks : ~(t <= 0) BY <1>1, SMT
<1> QED BY <1>1, <1>2, <1>3, <1>4, <1>5, SMT DEF TaskInv

LEMMA FrontTask ==
  ASSUME TaskInv, tasks # <<>>
  PROVE  /\ Head(tasks) = Taken + 1 /\ Taken \in Nat /\ Taken + 1 <= MaxTasks
         /\ Tail(tasks) \in Seq(Nat) /\ Len(Tail(tasks)) = Len(tasks) - 1 /\ Len(tasks) \in Nat \ {0}
         /\ \A i \in 1 .. Len(tasks) - 1 : Tail(tasks)[i] = tasks[i + 1]
<1>1. /\ accepted \in Nat /\ calls \in Nat /\ accepted <= calls /\ calls <= MaxTasks
      /\ MaxTasks \in Nat /\ tasks \in Seq(Nat) /\ Len(tasks) <= accepted
  BY ThreadPoolAssumption DEF TaskInv
<1>2. /\ Len(tasks) \in Nat \ {0} /\ Head(tasks) = tasks[1] /\ 1 \in Places(tasks)
      /\ Tail(tasks) \in Seq(Nat) /\ Len(Tail(tasks)) = Len(tasks) - 1
      /\ \A i \in 1 .. Len(tasks) - 1 : Tail(tasks)[i] = tasks[i + 1]
  BY <1>1, SMT DEF Places
<1>3. tasks[1] = Taken + 1 BY <1>2 DEF TaskInv
<1>4. Taken \in Nat /\ Taken + 1 <= MaxTasks BY <1>1, <1>2, SMT DEF Taken
<1> QED BY <1>2, <1>3, <1>4

LEMMA WorkStep == OwnerInv /\ WorkInv /\ TaskInv /\ [Next]_vars => WorkInv'
<1> SUFFICES ASSUME OwnerInv, WorkInv, TaskInv, [Next]_vars PROVE WorkInv' OBVIOUS
<1> USE DEF connVars
<1>1. CASE UNCHANGED vars BY <1>1 DEF vars, poolVars, WorkInv
<1>2. ASSUME NEW p \in Producers, ProducerStep(p) PROVE WorkInv'
  <2>1. CASE UNCHANGED worker
    BY <1>2, <2>1 DEF ProducerStep, enqueue, notify_one, WorkInv
  <2>2. CASE notify_one(p) /\ \E w \in WaitingWorkers : Become(w, "lock")
    BY <2>2, WakeWork DEF notify_one, WaitingWorkers, WorkerState
  <2> QED BY <1>2, <2>1, <2>2 DEF ProducerStep, enqueue, notify_one, WakeOne
<1>3. ASSUME NEW w \in Clients, WorkerLock(w) PROVE WorkInv'
  <2>1. CASE Become(w, "ended") /\ UNCHANGED <<running, connVars>>
    BY <1>3, <2>1, WakeWork DEF WorkerLock, WorkerState
  <2>2. CASE Become(w, "wait") /\ UNCHANGED <<running, connVars>>
    BY <1>3, <2>2, WakeWork DEF WorkerLock, WorkerState
  <2>3. CASE /\ tasks # <<>> /\ running' = [running EXCEPT ![w] = Head(tasks)]
             /\ Become(w, "run") /\ Go(w, Getting)
    <3> DEFINE t == Head(tasks)
    <3>1. t \in Nat /\ t # 0 BY <2>3, FrontTask, SMT
    <3> HIDE DEF t
    <3>2. /\ worker' \in [Clients -> WorkerState] /\ worker'[w] = "run"
          /\ \A v \in Clients \ {w} : worker'[v] = worker[v]
      BY <2>3 DEF WorkInv, Become, WorkerState
    <3>3. /\ running' \in [Clients -> Nat] /\ running'[w] # 0
          /\ \A v \in Clients \ {w} : running'[v] = running[v]
      BY <2>3, <3>1 DEF WorkInv, t
    <3>4. \A v \in Clients \ {w} : client'[v] = client[v] BY <2>3 DEF Go, OwnerInv
    <3>5. worker[w] = "lock" /\ UNCHANGED <<size, owner>> BY <1>3 DEF WorkerLock
    <3> QED BY <3>2, <3>3, <3>4, <3>5 DEF WorkInv
  <2> QED BY <1>3, <2>1, <2>2, <2>3 DEF WorkerLock
<1>4. ASSUME NEW w \in Clients, ConnStep(w) \/ Spurious(w), UNCHANGED poolVars PROVE WorkInv'
  <2>1. \A d \in Clients : client[d] = Free => client'[d] = Free BY <1>4, OthersFree
  <2> QED BY <1>4, <2>1 DEF poolVars, WorkInv
<1>5. ASSUME NEW w \in Clients, TaskDone(w) PROVE WorkInv'
  BY <1>5 DEF TaskDone, Become, WorkInv, WorkerState
<1>6. ASSUME NEW w \in Clients, SpuriousWake(w) PROVE WorkInv'
  BY <1>6, WakeWork DEF SpuriousWake, WorkerState
<1>7. ASSUME NEW n \in Sizes, resize(n) PROVE WorkInv'
  <2>1. n \in Nat /\ size \in Nat BY ThreadPoolAssumption DEF WorkInv
  <2>2. CASE n < size /\ StopPool(n) /\ UNCHANGED <<worker, size>>
    <3>1. n \in 0 .. size BY <2>1, <2>2, SMT
    <3>2. owner' \in [at : OwnerState, to : Int] /\ owner'.to = n
      BY <2>1, <2>2 DEF StopPool, OwnerState
    <3> QED BY <1>7, <2>2, <3>1, <3>2 DEF resize, WorkInv
  <2>3. CASE /\ n > size /\ size' = n /\ UNCHANGED <<stop, owner>>
             /\ worker' = [w \in Clients |-> IF w \in size + 1 .. n THEN "lock" ELSE worker[w]]
    <3>1. \A w \in size + 1 .. n : w > size BY <2>1, SMT
    <3>2. \A w \in Clients : w > n => w > size /\ w \notin size + 1 .. n
      BY <2>1, <2>3, PlacesFromOne, SMT
    <3>3. \A w \in Clients : w \in size + 1 .. n => worker[w] = "none" /\ worker'[w] = "lock"
      BY <2>3, <3>1 DEF WorkInv
    <3>4. \A w \in Clients : w \notin size + 1 .. n => worker'[w] = worker[w] BY <2>3
    <3>5. worker' \in [Clients -> WorkerState] BY <2>3 DEF WorkInv, WorkerState
    <3>6. owner.at = "idle" /\ UNCHANGED <<running, client>> BY <1>7 DEF resize
    <3> QED BY <2>1, <2>3, <3>2, <3>3, <3>4, <3>5, <3>6 DEF WorkInv
  <2> QED BY <1>7, <2>2, <2>3 DEF resize
<1>8. CASE Destructor
  <2>1. owner' \in [at : OwnerState, to : Int] /\ owner'.to = Destroy
    BY <1>8 DEF Destructor, StopPool, OwnerState, Destroy
  <2> QED BY <1>8, <2>1 DEF Destructor, WorkInv
<1>9. CASE notify_all
  <2>1. /\ worker' \in [Clients -> WorkerState]
        /\ \A w \in Clients : /\ worker'[w] = "run" <=> worker[w] = "run"
                              /\ worker[w] = "none" => worker'[w] = "none"
    BY <1>9 DEF notify_all, WakeAll, WorkInv, WorkerState
  <2>2. owner' \in [at : OwnerState, to : Int] /\ owner'.to = owner.to /\ owner.at = "notify_all"
    BY <1>9 DEF notify_all, OwnerState, WorkInv
  <2> QED BY <1>9, <2>1, <2>2 DEF notify_all, WorkInv
<1>10. CASE join
  <2>1. CASE ~(Cut \subseteq Joined)
    <3>1. owner' \in [at : OwnerState, to : Int] /\ owner'.at = "terminated"
      BY <1>10, <2>1 DEF join, OwnerState, WorkInv
    <3> QED BY <1>10, <2>1, <3>1 DEF join, WorkInv
  <2>2. CASE Cut \subseteq Joined
    <3>1. owner' \in [at : OwnerState, to : Int] /\ owner'.at \in {"gone", "idle"}
      BY <1>10, <2>2 DEF join, OwnerState, WorkInv, Idle
    <3>2. /\ worker' = [w \in Clients |-> IF w \in Cut THEN "none" ELSE worker[w]]
          /\ size' = size - Cardinality(Cut) /\ UNCHANGED <<running, client>>
          /\ \A w \in Cut : worker[w] \in {"ended", "none"}
      BY <1>10, <2>2 DEF join
    <3>3. /\ size' \in Nat
          /\ \A w \in Clients : w > size' => w > size \/ w \in Cut
      BY <1>10, <3>2, CutSize DEF join
    <3>4. worker' \in [Clients -> WorkerState] BY <3>2 DEF WorkInv, WorkerState
    <3> QED BY <3>1, <3>2, <3>3, <3>4 DEF WorkInv
  <2> QED BY <2>1, <2>2
<1> QED BY <1>1, <1>2, <1>3, <1>4, <1>5, <1>6, <1>7, <1>8, <1>9, <1>10
      DEF Next, WorkerStep, RunTask, Wake, OwnerStep

LEMMA SameTasks ==
  ASSUME TaskInv, UNCHANGED <<tasks, accepted, calls, running, ran>>
  PROVE  TaskInv'
BY DEF TaskInv, Taken, Places

LEMMA EnqueueTask ==
  ASSUME TaskInv, NEW p \in Producers, enqueue(p)
  PROVE  TaskInv'
<1>1. /\ accepted \in Nat /\ calls \in Nat /\ accepted <= calls /\ calls < MaxTasks
      /\ calls' = calls + 1 /\ MaxTasks \in Nat
      /\ tasks \in Seq(Nat) /\ Len(tasks) <= accepted
      /\ \A i \in Places(tasks) : tasks[i] = Taken + i
      /\ UNCHANGED <<running, ran>>
  BY ThreadPoolAssumption DEF TaskInv, enqueue
<1>2. CASE UNCHANGED <<tasks, accepted>>
  <2>1. calls' \in Nat /\ accepted <= calls' /\ calls' <= MaxTasks BY <1>1, SMT
  <2> QED BY <1>1, <1>2, <2>1 DEF TaskInv, Taken, Places
<1>3. CASE accepted' = accepted + 1 /\ tasks' = Append(tasks, accepted + 1)
  <2>1. /\ tasks' \in Seq(Nat) /\ Len(tasks) \in Nat /\ Len(tasks') = Len(tasks) + 1
        /\ tasks'[Len(tasks) + 1] = accepted + 1
        /\ \A i \in 1 .. Len(tasks) : tasks'[i] = tasks[i]
    BY <1>1, <1>3, SMT
  <2>2. Taken' = Taken /\ Taken \in Nat BY <1>1, <1>3, <2>1, SMT DEF Taken
  <2>3. \A i \in Places(tasks') : tasks'[i] = Taken' + i
    <3> SUFFICES ASSUME NEW i \in 1 .. Len(tasks) + 1 PROVE tasks'[i] = Taken + i
      BY <2>1, <2>2 DEF Places
    <3>1. CASE i \in 1 .. Len(tasks) BY <1>1, <2>1, <3>1 DEF Places
    <3>2. CASE i = Len(tasks) + 1 BY <1>1, <2>1, <3>2, SMT DEF Taken
    <3> QED BY <2>1, <3>1, <3>2, SMT
  <2>4. /\ accepted' \in Nat /\ calls' \in Nat /\ accepted' <= calls' /\ calls' <= MaxTasks
        /\ Len(tasks') <= accepted'
    BY <1>1, <1>3, <2>1, SMT
  <2> QED BY <1>1, <2>1, <2>2, <2>3, <2>4 DEF TaskInv
<1> QED BY <1>2, <1>3 DEF enqueue

\* The front task is nobody's and was not run; the worker that takes it had none.
LEMMA TakeTask ==
  ASSUME TaskInv, WorkInv, NEW w \in Clients, running[w] = 0, tasks # <<>>,
         tasks' = Tail(tasks), running' = [running EXCEPT ![w] = Head(tasks)],
         UNCHANGED <<accepted, calls, ran>>
  PROVE  TaskInv'
<1> DEFINE t == Head(tasks)
           r == running'
<1>1. /\ t = Taken + 1 /\ Taken \in Nat /\ t \in 1 .. MaxTasks /\ t # 0
      /\ tasks' \in Seq(Nat) /\ Len(tasks') = Len(tasks) - 1 /\ Len(tasks) \in Nat \ {0}
      /\ \A i \in 1 .. Len(tasks) - 1 : tasks'[i] = tasks[i + 1]
  BY FrontTask, ThreadPoolAssumption, SMT
<1>2. /\ accepted \in Nat /\ Len(tasks) <= accepted BY DEF TaskInv
<1>3. Taken' = Taken + 1 /\ Len(tasks') <= accepted' BY <1>1, <1>2, SMT DEF Taken
<1>4. \A i \in Places(tasks') : tasks'[i] = Taken' + i
  <2> SUFFICES ASSUME NEW i \in 1 .. Len(tasks) - 1 PROVE tasks'[i] = (Taken + 1) + i
    BY <1>1, <1>3 DEF Places
  <2>1. i + 1 \in Places(tasks) BY <1>1, SMT DEF Places
  <2>2. tasks[i + 1] = Taken + (i + 1) BY <2>1 DEF TaskInv
  <2> QED BY <1>1, <2>2, SMT
<1>5. /\ r[w] = t /\ \A v \in Clients \ {w} : r[v] = running[v]
      /\ running \in [Clients -> Nat]
  BY DEF WorkInv
<1>6. \A v \in Clients : running[v] <= Taken /\ running[v] # t
  <2>1. \A v \in Clients : running[v] <= Taken BY DEF TaskInv
  <2> QED BY <1>1, <1>5, <2>1, SMT
<1> HIDE DEF t, r
<1>7. \A v \in Clients : r[v] <= Taken' BY <1>1, <1>3, <1>5, <1>6, SMT
<1>8. \A u, v \in Clients : r[u] = r[v] /\ r[u] # 0 => u = v
  <2>1. \A u, v \in Clients : running[u] = running[v] /\ running[u] # 0 => u = v BY DEF TaskInv
  <2> QED BY <1>5, <1>6, <2>1
<1>9. ASSUME NEW n \in 1 .. MaxTasks, ran[n] = 1
      PROVE  n <= Taken' /\ \A v \in Clients : r[v] # n
  <2>1. n <= Taken /\ \A v \in Clients : running[v] # n BY <1>9 DEF TaskInv
  <2>2. n # t /\ n <= Taken' BY <1>1, <1>3, <2>1, SMT
  <2> QED BY <1>5, <2>1, <2>2
<1>10. ASSUME NEW n \in 1 .. MaxTasks, n <= Taken'
       PROVE  ran[n] = 1 \/ \E v \in Clients : r[v] = n
  <2>1. CASE n = t BY <1>5, <2>1
  <2>2. CASE n <= Taken
    <3>1. ran[n] = 1 \/ \E v \in Clients : running[v] = n BY <2>2 DEF TaskInv
    <3>2. n # 0 BY SMT
    <3> QED BY <1>5, <3>1, <3>2
  <2> QED BY <1>1, <1>3, <1>10, <2>1, <2>2, SMT
<1> QED BY <1>1, <1>3, <1>4, <1>7, <1>8, <1>9, <1>10, Zenon DEF TaskInv, r

LEMMA FinishTask ==
  ASSUME TaskInv, WorkInv, NEW w \in Clients, TaskDone(w)
  PROVE  TaskInv'
<1> DEFINE t == running[w]
           r == running'
           d == ran'
<1>1. /\ t \in Nat /\ t # 0 /\ running \in [Clients -> Nat] BY DEF WorkInv, TaskDone
<1>2. /\ accepted \in Nat /\ calls \in Nat /\ accepted <= calls /\ calls <= MaxTasks
      /\ MaxTasks \in Nat /\ tasks \in Seq(Nat) /\ t <= Taken
      /\ ran \in [1 .. MaxTasks -> {0, 1}]
  BY ThreadPoolAssumption DEF TaskInv
<1>3. t \in 1 .. MaxTasks
  <2>1. Len(tasks) \in Nat BY <1>2, SMT
  <2> QED BY <1>1, <1>2, <2>1, SMT DEF Taken
<1>4. ran[t] # 1 BY <1>3 DEF TaskInv
<1>5. r = [running EXCEPT ![w] = 0] /\ d = [ran EXCEPT ![t] = ran[t] + 1]
      /\ UNCHANGED <<tasks, accepted, calls>>
  BY DEF TaskDone
<1>6. Taken' = Taken BY <1>5 DEF Taken
<1>7. d \in [1 .. MaxTasks -> {0, 1}] /\ d[t] = 1
      /\ \A n \in 1 .. MaxTasks : n # t => d[n] = ran[n]
  <2>1. ran[t] = 0 BY <1>2, <1>3, <1>4
  <2>2. ran[t] + 1 = 1 BY <2>1, SMT
  <2>3. d = [ran EXCEPT ![t] = 1] BY <1>5, <2>2, Zenon
  <2> HIDE DEF t, d
  <2> QED BY <1>2, <1>3, <2>3
<1>8. r[w] = 0 /\ \A v \in Clients \ {w} : r[v] = running[v] /\ running[v] # t
  BY <1>1, <1>5 DEF TaskInv
<1> HIDE DEF r, d
<1>9. \A v \in Clients : r[v] <= Taken'
  <2>1. \A v \in Clients : running[v] <= Taken BY DEF TaskInv
  <2>2. 0 <= Taken
    <3>1. Len(tasks) \in Nat /\ Taken \in Int BY <1>2, SMT DEF Taken
    <3> HIDE DEF t
    <3> QED BY <1>1, <1>2, <3>1, SMT
  <2> QED BY <1>6, <1>8, <2>1, <2>2
<1>10. \A u, v \in Clients : r[u] = r[v] /\ r[u] # 0 => u = v
  <2>1. \A u, v \in Clients : running[u] = running[v] /\ running[u] # 0 => u = v BY DEF TaskInv
  <2> QED BY <1>8, <2>1
<1>11. ASSUME NEW n \in 1 .. MaxTasks, d[n] = 1
       PROVE  n <= Taken' /\ \A v \in Clients : r[v] # n
  <2>1. n # 0 BY SMT
  <2>2. CASE n = t BY <1>2, <1>6, <1>8, <2>1, <2>2
  <2>3. CASE n # t
    <3>1. n <= Taken /\ \A v \in Clients : running[v] # n BY <1>7, <1>11, <2>3 DEF TaskInv
    <3> QED BY <1>6, <1>8, <2>1, <3>1
  <2> QED BY <2>2, <2>3
<1>12. ASSUME NEW n \in 1 .. MaxTasks, n <= Taken'
       PROVE  d[n] = 1 \/ \E v \in Clients : r[v] = n
  <2>1. CASE n = t BY <1>7, <2>1
  <2>2. CASE n # t
    <3>1. ran[n] = 1 \/ \E v \in Clients : running[v] = n BY <1>6, <1>12 DEF TaskInv
    <3> QED BY <1>7, <1>8, <2>2, <3>1
  <2> QED BY <2>1, <2>2
<1>13. \A i \in Places(tasks') : tasks'[i] = Taken' + i BY <1>5, <1>6 DEF TaskInv, Places
<1>14. Len(tasks') <= accepted' BY <1>5 DEF TaskInv
<1> QED BY <1>2, <1>5, <1>7, <1>9, <1>10, <1>11, <1>12, <1>13, <1>14 DEF TaskInv, r, d

LEMMA TaskStep == WorkInv /\ TaskInv /\ [Next]_vars => TaskInv'
<1> SUFFICES ASSUME WorkInv, TaskInv, [Next]_vars PROVE TaskInv' OBVIOUS
<1>1. CASE UNCHANGED vars BY <1>1, SameTasks DEF vars, poolVars
<1>2. ASSUME NEW p \in Producers, ProducerStep(p) PROVE TaskInv'
  BY <1>2, EnqueueTask, SameTasks DEF ProducerStep, notify_one
<1>3. ASSUME NEW w \in Clients, WorkerLock(w) PROVE TaskInv'
  <2>1. CASE UNCHANGED <<tasks, running>> BY <1>3, <2>1, SameTasks DEF WorkerLock
  <2>2. CASE tasks # <<>> /\ Pop /\ running' = [running EXCEPT ![w] = Head(tasks)]
    <3>1. running[w] = 0 BY <1>3 DEF WorkerLock, WorkInv
    <3> QED BY <1>3, <2>2, <3>1, TakeTask, Zenon DEF WorkerLock, Pop
  <2> QED BY <1>3, <2>1, <2>2 DEF WorkerLock
<1>4. ASSUME NEW w \in Clients, RunTask(w) \/ Wake(w) PROVE TaskInv'
  BY <1>4, SameTasks DEF RunTask, Wake, SpuriousWake, poolVars
<1>5. ASSUME NEW n \in Sizes, resize(n) PROVE TaskInv' BY <1>5, SameTasks DEF resize
<1>6. CASE Destructor \/ OwnerStep
  BY <1>6, SameTasks DEF Destructor, OwnerStep, notify_all, join
<1> QED BY <1>1, <1>2, <1>3, <1>4, <1>5, <1>6, FinishTask DEF Next, WorkerStep

\* A worker that takes a task has no connection, so that the pool's clients have the
\* connections that the pool gave them.
LEMMA PoolOwner == OwnerInv /\ WorkInv /\ [Next]_vars => OwnerInv'
<1> SUFFICES ASSUME OwnerInv, WorkInv, [Next]_vars PROVE OwnerInv' OBVIOUS
<1>1. CASE UNCHANGED connVars BY <1>1, MoveOwner DEF connVars, OwnerInv
<1>2. ASSUME NEW w \in Clients, ConnStep(w) \/ Spurious(w) PROVE OwnerInv'
  BY <1>2, StepOwner
<1>3. ASSUME NEW w \in Clients, worker[w] = "lock", Go(w, Getting),
             UNCHANGED <<conn_pool_, made, held>>
      PROVE  OwnerInv'
  <2>1. client[w] = Free BY <1>3 DEF WorkInv
  <2>2. /\ client' \in [Clients -> ClientState]
        /\ \A d \in Clients : client'[d] = Using <=> client[d] = Using
    BY <1>3, <2>1 DEF OwnerInv, Go, ClientState, Free, Getting, Using
  <2> QED BY <1>3, <2>2, MoveOwner
<1>4. ASSUME NEW w \in Clients, WorkerStep(w) \/ Wake(w) PROVE OwnerInv'
  BY <1>1, <1>2, <1>3, <1>4, Zenon DEF WorkerStep, WorkerLock, RunTask, TaskDone, Wake, SpuriousWake
<1>5. CASE UNCHANGED vars BY <1>1, <1>5 DEF vars
<1>6. ASSUME NEW p \in Producers, ProducerStep(p) PROVE OwnerInv'
  BY <1>1, <1>6 DEF ProducerStep, enqueue, notify_one
<1>7. ASSUME NEW n \in Sizes, resize(n) PROVE OwnerInv' BY <1>1, <1>7 DEF resize
<1>8. CASE Destructor \/ OwnerStep
  BY <1>1, <1>8 DEF Destructor, OwnerStep, notify_all, join
<1> QED BY <1>4, <1>5, <1>6, <1>7, <1>8 DEF Next

\* A task that was taken is done or with one worker: the counts of RunOnce.
LEMMA TaskCounts == TaskInv => RunOnce
<1> SUFFICES ASSUME TaskInv PROVE RunOnce OBVIOUS
<1>1. \A i \in DOMAIN tasks : tasks[i] = accepted - Len(tasks) + i
  <2>1. DOMAIN tasks = Places(tasks) BY SMT DEF TaskInv, Places
  <2> QED BY <2>1 DEF TaskInv, Taken
<1>2. ASSUME NEW t \in 1 .. MaxTasks
      PROVE  ran[t] + Cardinality({w \in Clients : running[w] = t})
               = IF t <= Taken THEN 1 ELSE 0
  <2> DEFINE W == {w \in Clients : running[w] = t}
  <2>1. t # 0 /\ ran[t] \in {0, 1} BY SMT DEF TaskInv
  <2>2. CASE ran[t] = 1
    <3>1. W = {} /\ t <= Taken BY <2>2 DEF TaskInv
    <3>2. Cardinality(W) = 0 BY <3>1, FS_EmptySet
    <3> QED BY <2>2, <3>1, <3>2, SMT
  <2>3. CASE ran[t] = 0 /\ \E w \in Clients : running[w] = t
    <3>1. PICK w \in Clients : running[w] = t BY <2>3
    <3>2. W = {w} BY <2>1, <3>1 DEF TaskInv
    <3>3. Cardinality(W) = 1 BY <3>2, FS_Singleton
    <3>4. t <= Taken BY <3>1 DEF TaskInv
    <3> QED BY <2>3, <3>3, <3>4, SMT
  <2>4. CASE ran[t] = 0 /\ \A w \in Clients : running[w] # t
    <3>1. W = {} /\ ~(t <= Taken) BY <2>4 DEF TaskInv
    <3>2. Cardinality(W) = 0 BY <3>1, FS_EmptySet
    <3> QED BY <2>4, <3>1, <3>2, SMT
  <2> QED BY <2>1, <2>2, <2>3, <2>4
<1> QED BY <1>1, <1>2 DEF RunOnce, Taken

(***************************************************************************)
(* Nobody sleeps while there is something to do.  The two properties count *)
(* those in a state, and a step changes the state of one or only adds.     *)
(***************************************************************************)
Count(f, S, v) == Cardinality({x \in S : f[x] = v})

LEMMA CountNat ==
  ASSUME NEW S, IsFiniteSet(S), NEW f, NEW v
  PROVE  IsFiniteSet({x \in S : f[x] = v}) /\ Count(f, S, v) \in Nat
<1>1. IsFiniteSet({x \in S : f[x] = v}) BY FS_Subset, {x \in S : f[x] = v} \subseteq S
<1> QED BY <1>1, FS_CardinalityType DEF Count

LEMMA CountMore ==
  ASSUME NEW S, IsFiniteSet(S), NEW f, NEW g, NEW v,
         \A x \in S : f[x] = v => g[x] = v
  PROVE  Count(f, S, v) <= Count(g, S, v)
<1> DEFINE F == {x \in S : f[x] = v}
           G == {x \in S : g[x] = v}
<1>1. IsFiniteSet(G) BY FS_Subset, G \subseteq S
<1>2. F \subseteq G OBVIOUS
<1> QED BY <1>1, <1>2, FS_Subset DEF Count

LEMMA CountOneMore ==
  ASSUME NEW S, IsFiniteSet(S), NEW f, NEW g, NEW v, NEW c \in S,
         f[c] # v, g[c] = v, \A x \in S \ {c} : f[x] = v => g[x] = v
  PROVE  Count(f, S, v) + 1 <= Count(g, S, v)
<1> DEFINE F == {x \in S : f[x] = v}
           G == {x \in S : g[x] = v}
<1>1. IsFiniteSet(F) /\ IsFiniteSet(G) BY FS_Subset, F \subseteq S, G \subseteq S
<1>2. F \cup {c} \subseteq G /\ c \notin F OBVIOUS
<1>3. Cardinality(F \cup {c}) = Cardinality(F) + 1 BY <1>1, <1>2, FS_AddElement, Zenon
<1>4. Cardinality(F \cup {c}) <= Cardinality(G) BY <1>1, <1>2, FS_Subset
<1> QED BY <1>3, <1>4 DEF Count

LEMMA CountOneLess ==
  ASSUME NEW S, IsFiniteSet(S), NEW f, NEW g, NEW v, NEW c \in S,
         \A x \in S \ {c} : f[x] = v => g[x] = v
  PROVE  Count(f, S, v) <= Count(g, S, v) + 1
<1> DEFINE F == {x \in S : f[x] = v}
           G == {x \in S : g[x] = v}
<1>1. IsFiniteSet(F) /\ IsFiniteSet(G) BY FS_Subset, F \subseteq S, G \subseteq S
<1>2. F \subseteq G \cup {c} OBVIOUS
<1>3. /\ IsFiniteSet(G \cup {c})
      /\ Cardinality(G \cup {c}) = IF c \in G THEN Cardinality(G) ELSE Cardinality(G) + 1
  BY <1>1, FS_AddElement, Zenon
<1>4. Cardinality(F) <= Cardinality(G \cup {c}) BY <1>2, <1>3, FS_Subset, Zenon
<1>5. Cardinality(F) \in Nat /\ Cardinality(G) \in Nat BY <1>1, FS_CardinalityType
<1> HIDE DEF F, G
<1>6. Cardinality(F) <= Cardinality(G) + 1 BY <1>3, <1>4, <1>5, SMT
<1> QED BY <1>6 DEF Count, F, G

SomeBlocked == \E c \in Clients : client[c] = Blocked

Promised == Count(client, Clients, Woken)

LEMMA Overlooked ==
  NoConnectionOverlooked <=> (SomeBlocked => Len(conn_pool_) <= Promised)
BY DEF NoConnectionOverlooked, SomeBlocked, Promised, Count

\* A client that takes a connection needs no promise any more, or never had one.
LEMMA TakeSeen ==
  ASSUME OwnerInv, NoConnectionOverlooked, NEW c \in Clients, Take(c)
  PROVE  NoConnectionOverlooked'
<1> USE DEF Free, Getting, Blocked, Woken, Using, GaveUp
<1>1. IsFiniteSet(Clients) BY ThreadPoolAssumption
<1>2. conn_pool_ \in Seq(Nat) /\ conn_pool_ # <<>> /\ conn_pool_' = Tail(conn_pool_)
  BY DEF OwnerInv, Take
<1>3. Len(conn_pool_) \in Nat /\ Len(conn_pool_') = Len(conn_pool_) - 1 BY <1>2, SMT
<1>4. \A d \in Clients \ {c} : client'[d] = client[d] BY DEF OwnerInv, Take, Go
<1>5. client'[c] # Blocked BY DEF OwnerInv, Take, Go
<1>6. SomeBlocked' => SomeBlocked BY <1>4, <1>5 DEF SomeBlocked
<1>7. Promised <= Promised' + 1 BY <1>1, <1>4, CountOneLess DEF Promised
<1>8. Promised \in Nat /\ Promised' \in Nat BY <1>1, CountNat, Zenon DEF Promised
<1>9. SomeBlocked => Len(conn_pool_) <= Promised BY Overlooked
<1>10. ASSUME SomeBlocked' PROVE Len(conn_pool_') <= Promised'
  <2>1. Len(conn_pool_) <= Promised BY <1>6, <1>9, <1>10
  <2> DEFINE l == Len(conn_pool_)
             a == Promised
             b == Promised'
  <2>2. l \in Nat /\ a \in Nat /\ b \in Nat /\ l <= a /\ a <= b + 1 BY <1>3, <1>7, <1>8, <2>1, Zenon
  <2> HIDE DEF l, a, b
  <2>3. l - 1 <= b BY <2>2, SMT
  <2> QED BY <1>3, <2>3 DEF l, b
<1> QED BY <1>10 DEF NoConnectionOverlooked, SomeBlocked, Promised, Count

\* notify_one promises the connection that was pushed to a client that is blocked.
LEMMA PushSeen ==
  ASSUME OwnerInv, NoConnectionOverlooked, NEW c \in Clients, client[c] \in {Using, GaveUp},
         NEW x \in Nat, Push(x, [client EXCEPT ![c] = Free])
  PROVE  NoConnectionOverlooked'
<1> USE DEF Free, Getting, Blocked, Woken, Using, GaveUp
<1> DEFINE clients == [client EXCEPT ![c] = Free]
<1>1. IsFiniteSet(Clients) BY ThreadPoolAssumption
<1>2. conn_pool_ \in Seq(Nat) /\ conn_pool_' = Append(conn_pool_, x) BY DEF OwnerInv, Push
<1>3. Len(conn_pool_) \in Nat /\ Len(conn_pool_') = Len(conn_pool_) + 1 BY <1>2, SMT
<1>4. \A d \in Clients : \/ clients[d] = client[d]
                         \/ client[d] \in {Using, GaveUp} /\ clients[d] = Free
  BY DEF OwnerInv
<1>5. CASE ~\E d \in Clients : clients[d] = Blocked
  <2>1. client' = clients BY <1>5 DEF Push
  <2> QED BY <1>5, <2>1 DEF NoConnectionOverlooked
<1>6. CASE \E d \in Clients : clients[d] = Blocked
  <2>1. PICK d \in Clients : clients[d] = Blocked /\ client' = [clients EXCEPT ![d] = Woken]
    BY <1>6 DEF Push
  <2>2. client[d] = Blocked /\ SomeBlocked BY <1>4, <2>1 DEF SomeBlocked
  <2>3. client'[d] = Woken /\ \A e \in Clients \ {d} : client[e] = Woken => client'[e] = Woken
    BY <1>4, <2>1 DEF OwnerInv
  <2>4. Promised + 1 <= Promised' BY <1>1, <2>2, <2>3, CountOneMore DEF Promised
  <2>5. Promised \in Nat /\ Promised' \in Nat BY <1>1, CountNat, Zenon DEF Promised
  <2>6. Len(conn_pool_) <= Promised BY <2>2, Overlooked
  <2>7. Len(conn_pool_') <= Promised' BY <1>3, <2>4, <2>5, <2>6, SMT
  <2> QED BY <2>7 DEF NoConnectionOverlooked, Promised, Count
<1> QED BY <1>5, <1>6

\* A client that did not wait to be woken, and does not block, or only when the queue
\* is empty.
LEMMA MoveSeen ==
  ASSUME OwnerInv, NoConnectionOverlooked, NEW c \in Clients, NEW where, Go(c, where),
         UNCHANGED conn_pool_,
         \/ conn_pool_ = <<>>
         \/ client[c] # Woken /\ where # Blocked
  PROVE  NoConnectionOverlooked'
<1>1. IsFiniteSet(Clients) BY ThreadPoolAssumption
<1>2. Promised \in Nat /\ Promised' \in Nat BY <1>1, CountNat, Zenon DEF Promised
<1>3. client' = [client EXCEPT ![c] = where] /\ client \in [Clients -> ClientState]
  BY DEF Go, OwnerInv
<1>4. CASE conn_pool_ = <<>>
  <2>1. Len(conn_pool_') = 0 BY <1>4, SMT
  <2>2. Len(conn_pool_') <= Promised' BY <1>2, <2>1, SMT
  <2> QED BY <2>2 DEF NoConnectionOverlooked, Promised, Count
<1>5. CASE client[c] # Woken /\ where # Blocked
  <2>1. SomeBlocked' => SomeBlocked BY <1>3, <1>5 DEF SomeBlocked
  <2>2. \A d \in Clients : client[d] = Woken => client'[d] = Woken BY <1>3, <1>5
  <2>3. Promised <= Promised' BY <1>1, <2>2, CountMore DEF Promised
  <2>4. SomeBlocked => Len(conn_pool_) <= Promised BY Overlooked
  <2>5. Len(conn_pool_) \in Nat BY SMT DEF OwnerInv
  <2>6. SomeBlocked' => Len(conn_pool_') <= Promised' BY <1>2, <2>1, <2>3, <2>4, <2>5, SMT
  <2> QED BY <2>6 DEF NoConnectionOverlooked, SomeBlocked, Promised, Count
<1> QED BY <1>4, <1>5

LEMMA StepSeen ==
  ASSUME OwnerInv, NoConnectionOverlooked, NEW c \in Clients, ConnStep(c) \/ Spurious(c)
  PROVE  NoConnectionOverlooked'
<1> USE DEF Free, Getting, Blocked, Woken, Using, GaveUp
<1>1. CASE GetConnection(c) BY <1>1, TakeSeen, MoveSeen DEF GetConnection, Wait
<1>2. CASE Timeout(c) BY <1>2, TakeSeen, MoveSeen DEF Timeout
<1>3. CASE ReleaseConnection(c)
  <2>1. held[c] \in Nat BY DEF OwnerInv
  <2> QED BY <1>3, <2>1, PushSeen DEF ReleaseConnection
<1>4. CASE NoConnection(c) BY <1>4, MoveSeen DEF NoConnection
<1>5. CASE ReleaseNull(c)
  <2>1. Null \in Nat /\ made + 1 \in Nat BY SMT DEF Null, OwnerInv
  <2>2. CASE UNCHANGED conn_pool_ /\ client' = [client EXCEPT ![c] = Free]
    BY <1>5, <2>2, MoveSeen, Zenon DEF ReleaseNull, Go
  <2>3. CASE Push(made + 1, [client EXCEPT ![c] = Free]) BY <1>5, <2>1, <2>3, PushSeen DEF ReleaseNull
  <2>4. CASE Push(Null, [client EXCEPT ![c] = Free]) BY <1>5, <2>1, <2>4, PushSeen DEF ReleaseNull
  <2> QED BY <1>5, <2>2, <2>3, <2>4 DEF ReleaseNull
<1>6. CASE Spurious(c) BY <1>6, MoveSeen DEF Spurious
<1> QED BY <1>1, <1>2, <1>3, <1>4, <1>5, <1>6 DEF ConnStep

\* Every thread uses the connections only from within its task.
LEMMA PoolSeen ==
  OwnerInv /\ WorkInv /\ NoConnectionOverlooked /\ [Next]_vars => NoConnectionOverlooked'
<1> SUFFICES ASSUME OwnerInv, WorkInv, NoConnectionOverlooked, [Next]_vars
             PROVE  NoConnectionOverlooked'
  OBVIOUS
<1>1. CASE UNCHANGED connVars BY <1>1 DEF connVars, NoConnectionOverlooked
<1>2. ASSUME NEW w \in Clients, worker[w] = "lock", Go(w, Getting), UNCHANGED conn_pool_
      PROVE  NoConnectionOverlooked'
  <2>1. client[w] = Free BY <1>2 DEF WorkInv
  <2> QED BY <1>2, <2>1, MoveSeen DEF Free, Getting, Woken, Blocked
<1>3. ASSUME NEW w \in Clients, WorkerStep(w) \/ Wake(w) PROVE NoConnectionOverlooked'
  BY <1>1, <1>2, <1>3, StepSeen, Zenon DEF WorkerStep, WorkerLock, RunTask, TaskDone, Wake, SpuriousWake
<1>4. CASE UNCHANGED vars BY <1>1, <1>4 DEF vars
<1>5. ASSUME NEW p \in Producers, ProducerStep(p) PROVE NoConnectionOverlooked'
  BY <1>1, <1>5 DEF ProducerStep, enqueue, notify_one
<1>6. ASSUME NEW n \in Sizes, resize(n) PROVE NoConnectionOverlooked' BY <1>1, <1>6 DEF resize
<1>7. CASE Destructor \/ OwnerStep
  BY <1>1, <1>7 DEF Destructor, OwnerStep, notify_all, join
<1> QED BY <1>3, <1>4, <1>5, <1>6, <1>7 DEF Next

SomeWaits == \E w \in Clients : worker[w] = "wait"

Awake == Count(worker, Clients, "lock")

Notifying == Count(producer, Producers, "notify")

\* What makes NoTaskOverlooked inductive: the owner is past the unlock only in a pool
\* that is stopped, so that it joins when nobody waits any more.
SleepInv ==
    /\ producer \in [Producers -> {"idle", "notify"}] /\ stop \in BOOLEAN
    /\ owner.at \in {"notify_all", "join"} => stop
    /\ SomeWaits => Len(tasks) <= Awake + Notifying /\ (stop => owner.at = "notify_all")

LEMMA SleepOverlooked == SleepInv => NoTaskOverlooked
BY DEF SleepInv, NoTaskOverlooked, WaitingWorkers, SomeWaits, Awake, Notifying, Count

LEMMA SleepInit == Init => SleepInv
<1> SUFFICES ASSUME Init PROVE SleepInv OBVIOUS
<1>1. owner.at = "idle" /\ stop = FALSE BY DEF Init, Idle
<1>2. producer \in [Producers -> {"idle", "notify"}] BY DEF Init
<1>3. \A w \in Clients : worker[w] # "wait" BY DEF Init
<1> QED BY <1>1, <1>2, <1>3, Zenon DEF SleepInv, SomeWaits

LEMMA CountsNat == Awake \in Nat /\ Awake' \in Nat /\ Notifying \in Nat /\ Notifying' \in Nat
BY ThreadPoolAssumption, CountNat, Zenon DEF Awake, Notifying

\* Nobody starts to wait, and whoever is on its way to the lock stays so.
LEMMA AwakeSleep ==
  ASSUME SleepInv, TaskInv, UNCHANGED <<tasks, producer, stop, owner>>,
         \A w \in Clients : /\ worker[w] = "lock" => worker'[w] = "lock"
                            /\ worker'[w] = "wait" => worker[w] = "wait"
  PROVE  SleepInv'
<1>1. Awake <= Awake' BY ThreadPoolAssumption, CountMore DEF Awake
<1>2. Notifying' = Notifying /\ Len(tasks') = Len(tasks) BY DEF Notifying
<1>3. SomeWaits' => SomeWaits BY DEF SomeWaits
<1>4. Len(tasks) \in Nat BY SMT DEF TaskInv
<1>5. ASSUME SomeWaits' PROVE Len(tasks') <= Awake' + Notifying'
  <2>1. Len(tasks) <= Awake + Notifying BY <1>3, <1>5 DEF SleepInv
  <2> QED BY <1>1, <1>2, <1>4, <2>1, CountsNat, SMT
<1> QED BY <1>3, <1>5 DEF SleepInv

\* enqueue adds a task and a producer that is going to notify.
LEMMA EnqueueSleep ==
  ASSUME SleepInv, TaskInv, NEW p \in Producers, enqueue(p)
  PROVE  SleepInv'
<1>1. CASE stop BY <1>1, AwakeSleep DEF enqueue
<1>2. CASE ~stop
  <2>1. /\ tasks' = Append(tasks, accepted + 1) /\ UNCHANGED <<worker, stop, owner>>
        /\ producer[p] = "idle" /\ producer' = [producer EXCEPT ![p] = "notify"]
        /\ producer \in [Producers -> {"idle", "notify"}]
    BY <1>2 DEF enqueue, SleepInv
  <2>2. Len(tasks) \in Nat /\ Len(tasks') = Len(tasks) + 1 BY <2>1, SMT DEF TaskInv
  <2>3. producer'[p] = "notify" /\ \A q \in Producers \ {p} : producer'[q] = producer[q] BY <2>1
  <2>4. Notifying + 1 <= Notifying' BY <2>1, <2>3, ThreadPoolAssumption, CountOneMore, Zenon DEF Notifying
  <2>5. Awake' = Awake /\ SomeWaits' = SomeWaits BY <2>1 DEF Awake, SomeWaits
  <2>6. ASSUME SomeWaits' PROVE Len(tasks') <= Awake' + Notifying'
    <3>1. Len(tasks) <= Awake + Notifying BY <2>5, <2>6 DEF SleepInv
    <3> QED BY <2>2, <2>4, <2>5, <3>1, CountsNat, SMT
  <2>7. producer' \in [Producers -> {"idle", "notify"}] BY <2>1
  <2> QED BY <1>2, <2>1, <2>6, <2>7 DEF SleepInv
<1> QED BY <1>1, <1>2 DEF SleepInv

\* notify_one finds nobody who waits, or wakes one of them.
LEMMA NotifySleep ==
  ASSUME SleepInv, TaskInv, WorkInv, NEW p \in Producers, notify_one(p)
  PROVE  SleepInv'
<1>1. /\ producer' = [producer EXCEPT ![p] = "idle"] /\ UNCHANGED <<tasks, stop, owner>> /\ WakeOne
      /\ producer \in [Producers -> {"idle", "notify"}]
  BY DEF notify_one, SleepInv
<1>2. producer' \in [Producers -> {"idle", "notify"}] BY <1>1
<1>3. CASE WaitingWorkers = {}
  <2>1. ~SomeWaits' BY <1>1, <1>3 DEF WakeOne, WaitingWorkers, SomeWaits
  <2> QED BY <1>1, <1>2, <2>1 DEF SleepInv
<1>4. CASE WaitingWorkers # {}
  <2>1. PICK w \in WaitingWorkers : Become(w, "lock") BY <1>1, <1>4 DEF WakeOne
  <2>2. /\ w \in Clients /\ worker[w] = "wait" /\ worker'[w] = "lock"
        /\ \A v \in Clients \ {w} : worker'[v] = worker[v]
    BY <2>1 DEF WaitingWorkers, Become, WorkInv
  <2>3. SomeWaits BY <2>2 DEF SomeWaits
  <2>4. Awake + 1 <= Awake' BY <2>2, ThreadPoolAssumption, CountOneMore DEF Awake
  <2>5. \A q \in Producers \ {p} : producer'[q] = producer[q] BY <1>1
  <2>6. Notifying <= Notifying' + 1 BY <2>5, ThreadPoolAssumption, CountOneLess DEF Notifying
  <2>7. Len(tasks') <= Awake' + Notifying'
    <3>1. Len(tasks) <= Awake + Notifying BY <2>3 DEF SleepInv
    <3>2. Len(tasks) \in Nat BY SMT DEF TaskInv
    <3>3. Len(tasks') = Len(tasks) BY <1>1
    <3> DEFINE l == Len(tasks)
               a == Awake
               b == Notifying
               c == Awake'
               d == Notifying'
    <3>4. /\ l \in Nat /\ a \in Nat /\ b \in Nat /\ c \in Nat /\ d \in Nat
          /\ l <= a + b /\ a + 1 <= c /\ b <= d + 1
      BY <2>4, <2>6, <3>1, <3>2, CountsNat, Zenon
    <3> HIDE DEF l, a, b, c, d
    <3>5. l <= c + d BY <3>4, SMT
    <3> QED BY <3>3, <3>5 DEF l, c, d
  <2> QED BY <1>1, <1>2, <2>3, <2>7 DEF SleepInv
<1> QED BY <1>3, <1>4

\* A worker under the lock takes a task, or there is none.
LEMMA LockSleep ==
  ASSUME SleepInv, TaskInv, WorkInv, NEW w \in Clients, WorkerLock(w)
  PROVE  SleepInv'
<1>1. /\ UNCHANGED <<producer, stop, owner>> /\ worker[w] = "lock"
      /\ worker \in [Clients -> WorkerState] /\ Notifying' = Notifying
  BY DEF WorkerLock, WorkInv, Notifying
<1>2. CASE tasks = <<>> /\ UNCHANGED tasks
  <2>1. Len(tasks') = 0 BY <1>2, SMT
  <2>2. Len(tasks') <= Awake' + Notifying'
    <3> DEFINE a == Awake'
               b == Notifying'
    <3>1. a \in Nat /\ b \in Nat BY CountsNat
    <3> HIDE DEF a, b
    <3>2. 0 <= a + b BY <3>1, SMT
    <3> QED BY <2>1, <3>2 DEF a, b
  <2>3. CASE Become(w, "wait") /\ ~stop BY <1>1, <2>2, <2>3 DEF SleepInv
  <2>4. CASE Become(w, "ended")
    <3>1. SomeWaits' => SomeWaits BY <1>1, <2>4 DEF Become, SomeWaits
    <3> QED BY <1>1, <2>2, <3>1 DEF SleepInv
  <2> QED BY <1>2, <2>3, <2>4 DEF WorkerLock
<1>3. CASE tasks # <<>> /\ tasks' = Tail(tasks) /\ Become(w, "run")
  <2>1. Len(tasks) \in Nat /\ Len(tasks') = Len(tasks) - 1 BY <1>3, FrontTask
  <2>2. worker'[w] = "run" /\ \A v \in Clients \ {w} : worker'[v] = worker[v]
    BY <1>1, <1>3 DEF Become
  <2>3. Awake <= Awake' + 1 BY <2>2, ThreadPoolAssumption, CountOneLess DEF Awake
  <2>4. SomeWaits' => SomeWaits BY <2>2 DEF SomeWaits
  <2>5. ASSUME SomeWaits' PROVE Len(tasks') <= Awake' + Notifying'
    <3>1. Len(tasks) <= Awake + Notifying BY <2>4, <2>5 DEF SleepInv
    <3> DEFINE l == Len(tasks)
               a == Awake
               b == Notifying
               c == Awake'
    <3>2. /\ l \in Nat /\ a \in Nat /\ b \in Nat /\ c \in Nat
          /\ l <= a + b /\ a <= c + 1
      BY <2>1, <2>3, <3>1, CountsNat, Zenon
    <3> HIDE DEF l, a, b, c
    <3>3. l - 1 <= c + b BY <3>2, SMT
    <3> QED BY <1>1, <2>1, <3>3 DEF l, b, c
  <2> QED BY <1>1, <2>4, <2>5 DEF SleepInv
<1> QED BY <1>2, <1>3, Zenon DEF WorkerLock, Leave, Pop

\* The owner stops the pool: it is going to call notify_all, and what is in the queue
\* is as it was.
LEMMA StopSleep ==
  ASSUME SleepInv, UNCHANGED <<tasks, worker, producer>>, NEW to, StopPool(to)
  PROVE  SleepInv'
<1>1. stop' = TRUE /\ owner'.at = "notify_all" BY DEF StopPool
<1>2. SomeWaits' = SomeWaits /\ Awake' = Awake /\ Notifying' = Notifying
  BY DEF SomeWaits, Awake, Notifying
<1> QED BY <1>1, <1>2 DEF SleepInv

\* notify_all wakes everybody, and join finds nobody waiting.
LEMMA OwnerSleep ==
  ASSUME SleepInv, WorkInv, OwnerStep
  PROVE  SleepInv'
<1>1. CASE notify_all
  <2>1. stop' /\ owner'.at = "join" BY <1>1 DEF notify_all, SleepInv, WorkInv
  <2>2. ~SomeWaits' BY <1>1 DEF notify_all, WakeAll, SomeWaits
  <2> QED BY <1>1, <2>1, <2>2 DEF notify_all, SleepInv
<1>2. CASE join
  <2>1. owner.at = "join" /\ stop /\ ~SomeWaits BY <1>2 DEF join, SleepInv
  <2>2. CASE Cut \subseteq Joined
    <3>1. owner'.at \in {"gone", "idle"} BY <1>2, <2>2 DEF join, WorkInv, Idle
    <3>2. ~SomeWaits' BY <1>2, <2>1, <2>2 DEF join, SomeWaits
    <3>3. stop' \in BOOLEAN /\ producer' = producer BY <1>2, <2>2 DEF join
    <3> QED BY <3>1, <3>2, <3>3 DEF SleepInv
  <2>3. CASE ~(Cut \subseteq Joined)
    <3>1. owner'.at = "terminated" /\ UNCHANGED <<worker, stop, producer>>
      BY <1>2, <2>3 DEF join, WorkInv
    <3>2. ~SomeWaits' BY <2>1, <3>1 DEF SomeWaits
    <3> QED BY <3>1, <3>2 DEF SleepInv
  <2> QED BY <2>2, <2>3
<1> QED BY <1>1, <1>2 DEF OwnerStep

LEMMA SleepStep == SleepInv /\ TaskInv /\ WorkInv /\ [Next]_vars => SleepInv'
<1> SUFFICES ASSUME SleepInv, TaskInv, WorkInv, [Next]_vars PROVE SleepInv' OBVIOUS
<1>1. CASE UNCHANGED poolVars BY <1>1, AwakeSleep, Zenon DEF poolVars
<1>2. ASSUME NEW w \in Clients, TaskDone(w) \/ SpuriousWake(w) PROVE SleepInv'
  BY <1>2, AwakeSleep DEF TaskDone, SpuriousWake, Become, WorkInv
<1>3. ASSUME NEW w \in Clients, WorkerStep(w) \/ Wake(w) PROVE SleepInv'
  BY <1>1, <1>2, <1>3, LockSleep DEF WorkerStep, Wake, RunTask
<1>4. ASSUME NEW n \in Sizes, resize(n) PROVE SleepInv'
  <2>1. CASE StopPool(n) /\ UNCHANGED worker BY <1>4, <2>1, StopSleep DEF resize
  <2>2. CASE /\ UNCHANGED <<stop, owner>>
             /\ worker' = [w \in Clients |-> IF w \in size + 1 .. n THEN "lock" ELSE worker[w]]
    BY <1>4, <2>2, AwakeSleep DEF resize
  <2> QED BY <1>4, <2>1, <2>2 DEF resize
<1>5. CASE Destructor BY <1>5, StopSleep DEF Destructor
<1>6. CASE UNCHANGED vars BY <1>1, <1>6 DEF vars
<1> QED BY <1>3, <1>4, <1>5, <1>6, EnqueueSleep, NotifySleep, OwnerSleep DEF Next, ProducerStep

LEMMA PoolInductive ==
  Spec => [](OwnerInv /\ WorkInv /\ TaskInv /\ NoConnectionOverlooked /\ SleepInv)
<1> DEFINE Inv == OwnerInv /\ WorkInv /\ TaskInv /\ NoConnectionOverlooked /\ SleepInv
<1>1. Init => Inv
  <2>1. Init => NoConnectionOverlooked
    BY DEF Init, ConnInit, NoConnectionOverlooked, Free, Blocked
  <2> QED BY <2>1, OwnerInit, WorkInit, TaskInit, SleepInit DEF Init
<1>2. Inv /\ [Next]_vars => Inv'
  BY PoolOwner, WorkStep, TaskStep, PoolSeen, SleepStep
<1> QED BY <1>1, <1>2, PTL DEF Spec

\* Whatever the workers and the owner of the thread pool do, get_conn and release_conn
\* neither lose a connection nor give it to two.
THEOREM OwnersCorrect == Spec => []OneOwner
BY PoolInductive, OwnerCounts, PTL

\* A client is blocked in wait_for only as long as every connection in the queue is
\* promised to a client that notify_one has woken, however many clients and
\* connections there are and whichever of them time out, wake by themselves or give
\* back null pointers.
THEOREM NoConnectionOverlookedCorrect == Spec => []NoConnectionOverlooked
BY PoolInductive, PTL

\* A task that enqueue accepted is taken in its turn, by one worker, and is run once,
\* also across resize and the destructor.
THEOREM TasksCorrect == Spec => []RunOnce
BY PoolInductive, TaskCounts, PTL

\* As long as a worker waits, there is for every task in the queue a worker on its way
\* to the lock or a producer on its way to notify_one, and a stopped pool has no worker
\* that waits once notify_all was called: enqueue may notify after it has unlocked.
THEOREM NoTaskOverlookedCorrect == Spec => []NoTaskOverlooked
BY PoolInductive, SleepOverlooked, PTL
=============================================================================
