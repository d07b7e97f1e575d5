------------------------ MODULE TcpConnection_proofs ------------------------
(***************************************************************************)
(* Proofs about TcpConnection: for any message lengths, any bounds on      *)
(* bytes, input and calls, and every interleaving of the io, the base and  *)
(* the worker thread.                                                      *)
(***************************************************************************)
EXTENDS TcpConnection, TLAPS

\* What the functors and callbacks in s are.
Names(s) == {s[i].f : i \in 1 .. Len(s)}

\* The fields of a poller record have their types.
Typed(q) ==
    /\ q.fd = [c \in {ch} |-> "sockfd"]
    /\ q.index \in [{ch} -> {new_, added_, deleted_}]
    /\ q.events \in [{ch} -> SUBSET Event]
    /\ q.channels_ \in [{"sockfd"} -> {ch, "none"}]
    /\ q.epoll \in [{"sockfd"} -> {ch, "none"}]

Types ==
    /\ state_ \in {"kConnecting", "kConnected", "kDisconnecting", "kDisconnected"}
    /\ Typed(p)
    /\ {wr_shut, batchRef} \subseteq BOOLEAN
    /\ told \in Seq({"up", "down"})
    /\ conn_map_ \in {"conn", "null", "absent"} /\ base \in Nat
    /\ pending \in Seq(Functor) /\ work \in Seq(Functor \cup Callback)
    /\ wcall \in Calls \cup {"none", "pushShutdown", "pushForce"}
    /\ stop \in {"no", "conns", "quit"}

\* StreamInv byte by byte.
InOrder(w, o, n) ==
    /\ n \in Nat /\ w \in Seq(Nat) /\ o \in Seq(Nat)
    /\ Len(w) + Len(o) = n
    /\ \A i \in 1 .. Len(w) : w[i] = i
    /\ \A i \in 1 .. Len(o) : o[i] = Len(w) + i

Stream == InOrder(wire, out, sent)

\* Before conn_established: nothing is sent and nobody knows the connection.
Fresh ==
    /\ state_ = "kConnecting"
    /\ out = <<>> /\ ~wr_shut /\ wcall = "none"
    /\ p.index[ch] = new_ /\ p.events[ch] = {}
    /\ p.channels_["sockfd"] = "none" /\ p.epoll["sockfd"] = "none"
    /\ Names(pending) \subseteq {"established", "destroyed"}
    /\ Names(work) \subseteq {"established", "destroyed", "remove"}

\* Between up and down.
Writes(q) == is_writing(q, ch) <=> out # <<>>

Open ==
    /\ state_ \in {"kConnected", "kDisconnecting"}
    /\ Writes(p)
    /\ wr_shut => out = <<>>

Phases ==
    \/ told = <<>> /\ Fresh
    \/ told = <<"up">> /\ Open
    \/ Down /\ state_ # "kConnecting"

OutputInv == Types /\ Stream /\ Phases

(***************************************************************************)
(* Until stop is called, with a worker that only sends.                    *)
(***************************************************************************)
Functors == {"established", "destroyed", "forceClose", "writeComplete", "send", "shutdown"}
Held     == {"established", "destroyed", "forceClose", "writeComplete", "remove"}

\* Where the io thread is, and that what it is about to run is kept alive.
Loop ==
    /\ pc \in {"poll", "events", "tasks"}
    /\ pc = "poll" => work = <<>>
    /\ pc = "events" =>
          /\ Names(work) \subseteq {"established", "close", "error", "read", "write"}
          /\ work # <<>> => conn_map_ = "conn" \/ "destroyed" \in Names(pending)
    /\ pc = "tasks" =>
          /\ Names(work) \subseteq Functors \cup {"remove"}
          /\ Names(work) \cap Held # {} => batchRef

\* Something still to run will take the channel out of the poller.
ToBeRemoved ==
    \/ conn_map_ = "conn" /\ base > 0
    \/ "destroyed" \in Names(pending)
    \/ Names(work) \cap {"destroyed", "remove"} # {}

\* Before down, the server holds the connection and nothing removes it.
Kept ==
    /\ conn_map_ = "conn" /\ base = 0
    /\ "destroyed" \notin Names(pending)
    /\ Names(work) \cap {"destroyed", "remove"} = {}

Closed ==
    /\ told \in {<<"down">>, <<"up", "down">>}
    /\ state_ = "kDisconnected"
    /\ p.events[ch] = {} /\ p.epoll["sockfd"] = "none"
    /\ p.channels_["sockfd"] = "none" \/ (ToBeRemoved /\ p.index[ch] # new_)

\* The channel is in the poller and was not taken out again.
Added(q) == q.index[ch] = added_ /\ q.channels_["sockfd"] = ch

Stage ==
    \/ told = <<>> /\ Kept
    \/ told = <<"up">> /\ Kept /\ Added(p) /\ "R" \in p.events[ch]
    \/ Closed

LifeInv ==
    /\ wcall \in {"none", "send"}
    /\ conn_map_ \in {"conn", "absent"}
    /\ Loop
    /\ Stage

ConnInv == stop = "no" => LifeInv

-----------------------------------------------------------------------------
\* Names and the operators that build the queues.
LEMMA NamesEmpty == Names(<<>>) = {}
BY DEF Names

LEMMA NamesAppend ==
    ASSUME NEW S, NEW s \in Seq(S), NEW x \in S
    PROVE  Append(s, x) \in Seq(S) /\ Names(Append(s, x)) = Names(s) \cup {x.f}
<1>1. /\ Append(s, x) \in Seq(S) /\ Len(Append(s, x)) = Len(s) + 1 /\ Len(s) \in Nat
      /\ \A i \in 1 .. Len(s) : Append(s, x)[i] = s[i]
      /\ Append(s, x)[Len(s) + 1] = x
  OBVIOUS
<1>2. ASSUME NEW y \in Names(Append(s, x)) PROVE y \in Names(s) \cup {x.f}
  <2>1. PICK i \in 1 .. Len(s) + 1 : y = Append(s, x)[i].f BY <1>1, <1>2 DEF Names
  <2>2. i \in 1 .. Len(s) \/ i = Len(s) + 1 BY <1>1
  <2> QED BY <1>1, <2>1, <2>2 DEF Names
<1>3. ASSUME NEW y \in Names(s) PROVE y \in Names(Append(s, x))
  <2>1. PICK i \in 1 .. Len(s) : y = s[i].f BY <1>3 DEF Names
  <2>2. i \in 1 .. Len(Append(s, x)) /\ y = Append(s, x)[i].f BY <1>1, <2>1
  <2> QED BY <2>2 DEF Names
<1>4. x.f \in Names(Append(s, x))
  <2>1. Len(s) + 1 \in 1 .. Len(Append(s, x)) BY <1>1
  <2> QED BY <1>1, <2>1 DEF Names
<1> QED BY <1>1, <1>2, <1>3, <1>4

LEMMA NamesHeadTail ==
    ASSUME NEW S, NEW s \in Seq(S), s # <<>>
    PROVE  /\ Tail(s) \in Seq(S) /\ Head(s) \in S /\ Head(s).f \in Names(s)
           /\ Names(s) = Names(Tail(s)) \cup {Head(s).f}
<1>1. /\ Tail(s) \in Seq(S) /\ Head(s) \in S /\ Head(s) = s[1]
      /\ Len(s) \in Nat \ {0} /\ Len(Tail(s)) = Len(s) - 1
      /\ \A i \in 1 .. Len(Tail(s)) : Tail(s)[i] = s[i + 1]
  OBVIOUS
<1>2. Head(s).f \in Names(s)
  <2>1. 1 \in 1 .. Len(s) BY <1>1
  <2> QED BY <1>1, <2>1 DEF Names
<1>3. ASSUME NEW y \in Names(s) PROVE y \in Names(Tail(s)) \cup {Head(s).f}
  <2>1. PICK i \in 1 .. Len(s) : y = s[i].f BY <1>3 DEF Names
  <2>2. CASE i = 1 BY <2>1, <2>2, <1>1
  <2>3. CASE i # 1
    <3>1. i - 1 \in 1 .. Len(Tail(s)) /\ y = Tail(s)[i - 1].f BY <2>1, <2>3, <1>1
    <3> QED BY <3>1, Zenon DEF Names
  <2> QED BY <2>2, <2>3
<1>4. ASSUME NEW y \in Names(Tail(s)) PROVE y \in Names(s)
  <2>1. PICK i \in 1 .. Len(Tail(s)) : y = Tail(s)[i].f BY <1>4 DEF Names
  <2>2. i + 1 \in 1 .. Len(s) /\ y = s[i + 1].f BY <2>1, <1>1
  <2> QED BY <2>2 DEF Names
<1> QED BY <1>1, <1>2, <1>3, <1>4

LEMMA NamesConcat ==
    ASSUME NEW S, NEW s \in Seq(S), NEW t \in Seq(S)
    PROVE  s \o t \in Seq(S) /\ Names(s \o t) = Names(s) \cup Names(t)
<1>1. /\ s \o t \in Seq(S) /\ Len(s \o t) = Len(s) + Len(t)
      /\ \A i \in 1 .. Len(s) + Len(t) :
            (s \o t)[i] = IF i <= Len(s) THEN s[i] ELSE t[i - Len(s)]
      /\ Len(s) \in Nat /\ Len(t) \in Nat
  OBVIOUS
<1>2. ASSUME NEW y \in Names(s \o t) PROVE y \in Names(s) \cup Names(t)
  <2>1. PICK i \in 1 .. Len(s) + Len(t) : y = (s \o t)[i].f BY <1>1, <1>2 DEF Names
  <2>2. CASE i <= Len(s)
    <3>1. i \in 1 .. Len(s) /\ y = s[i].f BY <1>1, <2>1, <2>2
    <3> QED BY <3>1 DEF Names
  <2>3. CASE ~(i <= Len(s))
    <3>1. i - Len(s) \in 1 .. Len(t) /\ y = t[i - Len(s)].f BY <1>1, <2>1, <2>3
    <3> QED BY <3>1 DEF Names
  <2> QED BY <2>2, <2>3
<1>3. ASSUME NEW y \in Names(s) PROVE y \in Names(s \o t)
  <2>1. PICK i \in 1 .. Len(s) : y = s[i].f BY <1>3 DEF Names
  <2>2. i \in 1 .. Len(s \o t) /\ y = (s \o t)[i].f BY <1>1, <2>1
  <2> QED BY <2>2 DEF Names
<1>4. ASSUME NEW y \in Names(t) PROVE y \in Names(s \o t)
  <2>1. PICK i \in 1 .. Len(t) : y = t[i].f BY <1>4 DEF Names
  <2>2. Len(s) + i \in 1 .. Len(s \o t) /\ y = (s \o t)[Len(s) + i].f BY <1>1, <2>1
  <2> QED BY <2>2 DEF Names
<1> QED BY <1>1, <1>2, <1>3, <1>4

LEMMA NamesOne ==
    ASSUME NEW S, NEW x \in S
    PROVE  <<x>> \in Seq(S) /\ Names(<<x>>) = {x.f}
BY DEF Names

LEMMA NamesPush ==
    ASSUME NEW S, NEW x \in S, NEW s \in Seq(S)
    PROVE  <<x>> \o s \in Seq(S) /\ Names(<<x>> \o s) = {x.f} \cup Names(s)
<1> DEFINE one == <<x>>
<1>1. one \in Seq(S) /\ Names(one) = {x.f} BY NamesOne
<1> HIDE DEF one
<1>2. one \o s \in Seq(S) /\ Names(one \o s) = Names(one) \cup Names(s) BY <1>1, NamesConcat
<1> QED BY <1>1, <1>2 DEF one

\* A queue holds a reference exactly when a functor with a shared_ptr is in it.
LEMMA HoldsRefNames ==
    ASSUME NEW s
    PROVE  HoldsRef(s) <=> Names(s) \cap {"established", "destroyed", "forceClose", "writeComplete"} # {}
BY Zenon DEF HoldsRef, Names, Shared

-----------------------------------------------------------------------------
\* What the poller's operations do to a record of the right type.
LEMMA SetEventsFields ==
    ASSUME NEW q, Typed(q), NEW ev \in SUBSET Event
    PROVE  LET z == SetEvents(q, ch, ev)
           IN  /\ Typed(z)
               /\ z.index = q.index /\ z.channels_ = q.channels_ /\ z.epoll = q.epoll
               /\ z.events[ch] = ev
BY DEF SetEvents, Poller, Typed

LEMMA UpdateFields ==
    ASSUME NEW q, Typed(q), NEW ok \in BOOLEAN
    PROVE  LET z == update_channel(q, ch, ok)
           IN  /\ Typed(z)
               /\ z.events = q.events
               /\ q.index[ch] = added_ /\ q.channels_["sockfd"] = ch =>
                     /\ z.channels_ = q.channels_
                     /\ q.events[ch] # {} => z.index = q.index
                     /\ q.events[ch] = {} => z.epoll["sockfd"] = "none" /\ z.index[ch] # new_
               /\ q.index[ch] = new_ /\ q.channels_["sockfd"] = "none" =>
                     /\ z.index[ch] = added_ /\ z.channels_["sockfd"] = ch
<1> DEFINE f == "sockfd"
<1>1. q.fd[ch] = f BY DEF Typed
<1>2. CASE UpdateOp(q, ch) = "ADD"
  BY <1>1, <1>2, Zenon DEF update_channel, _update, SetIndex, SetEntry, Poller, CtlOk, UpdateOp, Typed,
                    new_, added_, deleted_, ch, is_event_none
<1>3. CASE UpdateOp(q, ch) = "DEL"
  BY <1>1, <1>3, Zenon DEF update_channel, _update, SetIndex, SetEntry, Poller, CtlOk, UpdateOp, Typed,
                    new_, added_, deleted_, ch, is_event_none
<1>4. CASE UpdateOp(q, ch) \in {"MOD", "none"}
  BY <1>1, <1>4, Zenon DEF update_channel, _update, SetIndex, SetEntry, Poller, CtlOk, UpdateOp, Typed,
                    new_, added_, deleted_, ch, is_event_none
<1> QED BY <1>2, <1>3, <1>4 DEF UpdateOp

LEMMA EnableWritingFields ==
    ASSUME NEW q, Typed(q)
    PROVE  LET z == enable_writing(q, ch, TRUE)
           IN  /\ Typed(z)
               /\ z.events[ch] = q.events[ch] \cup {"W"} /\ is_writing(z, ch)
               /\ Added(q) => Added(z)
<1>1. q.events[ch] \cup write_event_ \in SUBSET Event
  BY DEF Typed, Event
<1> DEFINE r == SetEvents(q, ch, q.events[ch] \cup write_event_)
<1>2. /\ Typed(r) /\ r.index = q.index /\ r.channels_ = q.channels_
      /\ r.events[ch] = q.events[ch] \cup {"W"} /\ r.events[ch] # {}
  BY <1>1, SetEventsFields DEF write_event_
<1> HIDE DEF r
<1> DEFINE z == update_channel(r, ch, TRUE)
<1>3. /\ Typed(z) /\ z.events = r.events /\ (Added(r) => Added(z))
  BY <1>2, UpdateFields, Zenon DEF Added
<1> HIDE DEF z
<1>4. z = enable_writing(q, ch, TRUE) BY DEF enable_writing, z, r
<1> QED BY <1>2, <1>3, <1>4, Zenon DEF is_writing, write_event_, Added

LEMMA StopWritingFields ==
    ASSUME NEW q, Typed(q)
    PROVE  LET z == StopWriting(q)
           IN  /\ Typed(z)
               /\ z.events[ch] = q.events[ch] \ {"W"} /\ ~is_writing(z, ch)
               /\ Added(q) /\ "R" \in q.events[ch] => Added(z)
<1>1. q.events[ch] \ write_event_ \in SUBSET Event
  BY DEF Typed, Event
<1> DEFINE r == SetEvents(q, ch, q.events[ch] \ write_event_)
<1>2. /\ Typed(r) /\ r.index = q.index /\ r.channels_ = q.channels_
      /\ r.events[ch] = q.events[ch] \ {"W"}
      /\ "R" \in q.events[ch] => r.events[ch] # {}
  BY <1>1, SetEventsFields DEF write_event_
<1> HIDE DEF r
<1> DEFINE z == update_channel(r, ch, TRUE)
<1>3. /\ Typed(z) /\ z.events = r.events /\ (Added(r) /\ r.events[ch] # {} => Added(z))
  BY <1>2, UpdateFields, Zenon DEF Added
<1> HIDE DEF z
<1>4. z = StopWriting(q) BY DEF StopWriting, disable_writing, z, r
<1> QED BY <1>2, <1>3, <1>4 DEF is_writing, write_event_, Added

LEMMA EnableReadingFields ==
    ASSUME NEW q, Typed(q), NEW ok \in BOOLEAN
    PROVE  LET z == enable_reading(q, ch, ok)
           IN  /\ Typed(z)
               /\ z.events[ch] = q.events[ch] \cup {"R"}
               /\ q.index[ch] = new_ /\ q.channels_["sockfd"] = "none" => Added(z)
<1>1. q.events[ch] \cup read_event_ \in SUBSET Event
  BY DEF Typed, Event
<1> DEFINE r == SetEvents(q, ch, q.events[ch] \cup read_event_)
<1>2. /\ Typed(r) /\ r.index = q.index /\ r.channels_ = q.channels_
      /\ r.events[ch] = q.events[ch] \cup {"R"}
  BY <1>1, SetEventsFields DEF read_event_
<1> HIDE DEF r
<1> DEFINE z == update_channel(r, ch, ok)
<1>3. /\ Typed(z) /\ z.events = r.events
      /\ r.index[ch] = new_ /\ r.channels_["sockfd"] = "none" => Added(z)
  BY <1>2, UpdateFields DEF Added
<1> HIDE DEF z
<1>4. z = enable_reading(q, ch, ok) BY DEF enable_reading, z, r
<1> QED BY <1>2, <1>3, <1>4

LEMMA CloseChannelFields ==
    ASSUME NEW q, Typed(q)
    PROVE  LET z == CloseChannel(q)
           IN  /\ Typed(z)
               /\ z.events[ch] = {}
               /\ Added(q) => z.epoll["sockfd"] = "none" /\ z.index[ch] # new_
<1> DEFINE r == SetEvents(q, ch, {})
<1>2. /\ Typed(r) /\ r.index = q.index /\ r.channels_ = q.channels_ /\ r.events[ch] = {}
  BY SetEventsFields
<1> HIDE DEF r
<1> DEFINE z == update_channel(r, ch, TRUE)
<1>3. /\ Typed(z) /\ z.events = r.events
      /\ Added(r) => z.epoll["sockfd"] = "none" /\ z.index[ch] # new_
  BY <1>2, UpdateFields, Zenon DEF Added
<1> HIDE DEF z
<1>4. z = CloseChannel(q) BY DEF CloseChannel, disable_all, z, r
<1> QED BY <1>2, <1>3, <1>4 DEF Added

LEMMA TakeOutFields ==
    ASSUME NEW q, Typed(q)
    PROVE  LET z == TakeOut(q)
           IN  /\ Typed(z)
               /\ z.events = q.events
               /\ q.events[ch] = {} /\ q.index[ch] # new_ => z.channels_["sockfd"] = "none"
               /\ q.channels_["sockfd"] = "none" => z = q
               /\ q.epoll["sockfd"] = "none" => z.epoll["sockfd"] = "none"
<1>1. q.fd[ch] = "sockfd" BY DEF Typed
<1>2. CASE has_channel(q, ch) /\ is_event_none(q, ch) /\ q.index[ch] # new_
  BY <1>1, <1>2, Zenon DEF TakeOut, remove, remove_channel, _update, SetIndex, SetEntry, Poller, CtlOk,
                    Typed, has_channel, is_event_none, new_, added_, deleted_, ch
<1>3. CASE ~(has_channel(q, ch) /\ is_event_none(q, ch) /\ q.index[ch] # new_)
  BY <1>1, <1>3, Zenon DEF TakeOut, remove, remove_channel, Typed, has_channel, is_event_none, ch
<1> QED BY <1>2, <1>3

-----------------------------------------------------------------------------
\* The pieces of a message.
LEMMA Pieces ==
    ASSUME sent \in Nat, NEW n \in Nat, NEW k \in 0 .. n
    PROVE  /\ SubSeq(Bytes(n), 1, k) \in Seq(Nat) /\ Len(SubSeq(Bytes(n), 1, k)) = k
           /\ \A i \in 1 .. k : SubSeq(Bytes(n), 1, k)[i] = sent + i
           /\ Rest(n, k) \in Seq(Nat) /\ Len(Rest(n, k)) = n - k
           /\ \A i \in 1 .. n - k : Rest(n, k)[i] = sent + k + i
<1>1. /\ Bytes(n) \in Seq(Nat) /\ Len(Bytes(n)) = n
      /\ \A i \in 1 .. n : Bytes(n)[i] = sent + i
  <2>1. Bytes(n) \in [1 .. n -> Nat] BY DEF Bytes
  <2> QED BY <2>1 DEF Bytes
<1> DEFINE b == Bytes(n)
<1> HIDE DEF b
<1>3. /\ b \in Seq(Nat) /\ Len(b) = n /\ \A i \in 1 .. n : b[i] = sent + i
  BY <1>1 DEF b
<1>4. /\ SubSeq(b, 1, k) \in Seq(Nat) /\ Len(SubSeq(b, 1, k)) = k
      /\ \A i \in 1 .. k : SubSeq(b, 1, k)[i] = sent + i
  BY <1>3
<1>5. /\ SubSeq(b, k + 1, n) \in Seq(Nat) /\ Len(SubSeq(b, k + 1, n)) = n - k
      /\ \A i \in 1 .. n - k : SubSeq(b, k + 1, n)[i] = sent + k + i
  BY <1>3
<1> QED BY <1>4, <1>5 DEF b, Rest

\* One sequence of bytes behind another.
Joined(s, t) ==
    /\ s \o t \in Seq(Nat) /\ Len(s \o t) = Len(s) + Len(t)
    /\ \A i \in 1 .. Len(s) + Len(t) : (s \o t)[i] = IF i <= Len(s) THEN s[i] ELSE t[i - Len(s)]

LEMMA Joining == ASSUME NEW s \in Seq(Nat), NEW t \in Seq(Nat) PROVE Joined(s, t)
BY DEF Joined

\* A direct write that takes k of the n bytes and buffers the rest.
LEMMA DirectInOrder ==
    ASSUME InOrder(wire, out, sent), out = <<>>, NEW n \in Nat, NEW k \in 0 .. n
    PROVE  /\ InOrder(wire \o SubSeq(Bytes(n), 1, k), out \o Rest(n, k), sent + n)
           /\ k = n => InOrder(wire \o SubSeq(Bytes(n), 1, k), out, sent + n)
           /\ k # n => out \o Rest(n, k) # <<>>
<1> DEFINE a == SubSeq(Bytes(n), 1, k)
           r == Rest(n, k)
<1>1. /\ a \in Seq(Nat) /\ Len(a) = k /\ \A i \in 1 .. k : a[i] = sent + i
      /\ r \in Seq(Nat) /\ Len(r) = n - k /\ \A i \in 1 .. n - k : r[i] = sent + k + i
  <2>1. sent \in Nat BY DEF InOrder
  <2> QED BY <2>1, Pieces, Zenon
<1> HIDE DEF a, r
<1>2. Len(wire) = sent /\ sent \in Nat /\ wire \in Seq(Nat) BY DEF InOrder
<1>3. /\ wire \o a \in Seq(Nat) /\ Len(wire \o a) = sent + k
      /\ \A i \in 1 .. sent + k : (wire \o a)[i] = i
  <2>1. /\ wire \o a \in Seq(Nat) /\ Len(wire \o a) = Len(wire) + Len(a)
        /\ \A i \in 1 .. Len(wire) + Len(a) :
              (wire \o a)[i] = IF i <= Len(wire) THEN wire[i] ELSE a[i - Len(wire)]
    <3>1. wire \in Seq(Nat) /\ a \in Seq(Nat) BY <1>1, <1>2
    <3>2. Joined(wire, a) BY <3>1, Joining
    <3> QED BY <3>2 DEF Joined
  <2>2. \A i \in 1 .. sent : wire[i] = i BY <1>2 DEF InOrder
  <2> QED BY <1>1, <1>2, <2>1, <2>2
<1>4. out \o r = r BY <1>1
<1>5. InOrder(wire \o a, r, sent + n) BY <1>1, <1>2, <1>3 DEF InOrder
<1>6. k = n => InOrder(wire \o a, out, sent + n) BY <1>2, <1>3 DEF InOrder
<1>7. k # n => r # <<>> BY <1>1
<1> QED BY <1>4, <1>5, <1>6, <1>7 DEF a, r

\* A message behind output that is waiting.
LEMMA BufferedInOrder ==
    ASSUME InOrder(wire, out, sent), NEW n \in Nat
    PROVE  InOrder(wire, out \o Rest(n, 0), sent + n)
<1> DEFINE r == Rest(n, 0)
<1>1. /\ r \in Seq(Nat) /\ Len(r) = n /\ \A i \in 1 .. n : r[i] = sent + i
  <2>1. sent \in Nat /\ 0 \in 0 .. n BY DEF InOrder
  <2>2. /\ r \in Seq(Nat) /\ Len(r) = n - 0 /\ \A i \in 1 .. n - 0 : r[i] = sent + 0 + i
    BY <2>1, Pieces, Zenon
  <2> QED BY <2>1, <2>2
<1> HIDE DEF r
<1>2. /\ out \o r \in Seq(Nat) /\ Len(out \o r) = Len(out) + n
      /\ \A i \in 1 .. Len(out) + n :
            (out \o r)[i] = IF i <= Len(out) THEN out[i] ELSE r[i - Len(out)]
  <2>1. out \in Seq(Nat) /\ r \in Seq(Nat) /\ Len(r) = n BY <1>1 DEF InOrder
  <2>2. Joined(out, r) BY <2>1, Joining
  <2> QED BY <2>1, <2>2, Zenon DEF Joined
<1>3. Len(wire) \in Nat /\ Len(out) \in Nat /\ sent = Len(wire) + Len(out)
  BY DEF InOrder
<1>4. \A i \in 1 .. Len(out) + n : (out \o r)[i] = Len(wire) + i
  <2>1. \A i \in 1 .. Len(out) : out[i] = Len(wire) + i BY DEF InOrder
  <2> QED BY <1>1, <1>2, <1>3, <2>1
<1>5. \A i \in 1 .. Len(out \o r) : (out \o r)[i] = Len(wire) + i BY <1>2, <1>4
<1>6. sent + n \in Nat /\ Len(wire) + Len(out \o r) = sent + n BY <1>2, <1>3
<1>7. InOrder(wire, out \o r, sent + n) BY <1>2, <1>5, <1>6 DEF InOrder
<1> QED BY <1>7 DEF r

\* A write that takes the first k bytes of the buffer.
LEMMA WrittenInOrder ==
    ASSUME InOrder(wire, out, sent), NEW k \in 1 .. Len(out)
    PROVE  /\ InOrder(wire \o SubSeq(out, 1, k), SubSeq(out, k + 1, Len(out)), sent)
           /\ SubSeq(out, k + 1, Len(out)) = <<>> <=> k = Len(out)
<1> DEFINE a == SubSeq(out, 1, k)
           r == SubSeq(out, k + 1, Len(out))
<1>1. Len(wire) \in Nat /\ Len(out) \in Nat /\ sent = Len(wire) + Len(out) /\ k \in Nat
  BY DEF InOrder
<1> DEFINE m == Len(out)
<1>a. \A i \in 1 .. m : out[i] \in Nat BY <1>1 DEF InOrder
<1>2. /\ a \in Seq(Nat) /\ Len(a) = k /\ \A i \in 1 .. k : a[i] = out[i]
  <2>1. \A i \in 1 .. k : out[i] \in Nat BY <1>1, <1>a
  <2>2. /\ a \in Seq(Nat) /\ Len(a) = IF 1 <= k THEN k - 1 + 1 ELSE 0
        /\ \A i \in 1 .. k - 1 + 1 : a[i] = out[1 + i - 1]
    BY <1>1, <2>1
  <2> QED BY <1>1, <2>2
<1>3. /\ r \in Seq(Nat) /\ Len(r) = Len(out) - k
      /\ \A i \in 1 .. Len(out) - k : r[i] = out[k + i]
  <2>1. \A i \in k + 1 .. m : out[i] \in Nat BY <1>1, <1>a
  <2>2. k + 1 \in Int /\ m \in Int BY <1>1
  <2>3. /\ r \in Seq(Nat) /\ Len(r) = IF k + 1 <= m THEN m - (k + 1) + 1 ELSE 0
        /\ \A i \in 1 .. m - (k + 1) + 1 : r[i] = out[k + 1 + i - 1]
    BY <2>1, <2>2
  <2> QED BY <1>1, <2>3
<1> HIDE DEF a, r
<1>4. /\ wire \o a \in Seq(Nat) /\ Len(wire \o a) = Len(wire) + k
      /\ \A i \in 1 .. Len(wire) + k : (wire \o a)[i] = i
  <2>1. /\ wire \o a \in Seq(Nat) /\ Len(wire \o a) = Len(wire) + Len(a)
        /\ \A i \in 1 .. Len(wire) + Len(a) :
              (wire \o a)[i] = IF i <= Len(wire) THEN wire[i] ELSE a[i - Len(wire)]
    <3>1. wire \in Seq(Nat) /\ a \in Seq(Nat) BY <1>2 DEF InOrder
    <3>2. Joined(wire, a) BY <3>1, Joining
    <3> QED BY <3>2 DEF Joined
  <2>2. /\ \A i \in 1 .. Len(wire) : wire[i] = i
        /\ \A i \in 1 .. Len(out) : out[i] = Len(wire) + i
    BY DEF InOrder
  <2>3. ASSUME NEW i \in 1 .. Len(wire) + k PROVE (wire \o a)[i] = i
    <3>1. CASE i <= Len(wire) BY <1>1, <1>2, <2>1, <2>2, <3>1
    <3>2. CASE i > Len(wire)
      <4>1. i - Len(wire) \in 1 .. k /\ i - Len(wire) \in 1 .. Len(out) BY <1>1, <3>2
      <4>2. (wire \o a)[i] = out[i - Len(wire)] BY <1>1, <1>2, <2>1, <3>2, <4>1
      <4>3. out[i - Len(wire)] = Len(wire) + (i - Len(wire)) BY <2>2, <4>1
      <4> QED BY <1>1, <4>2, <4>3
    <3>3. i <= Len(wire) \/ i > Len(wire) BY <1>1
    <3> QED BY <3>1, <3>2, <3>3, Zenon
  <2> QED BY <1>2, <2>1, <2>3
<1>5. InOrder(wire \o a, r, sent)
  <2>1. \A i \in 1 .. Len(out) : out[i] = Len(wire) + i BY DEF InOrder
  <2>2. \A i \in 1 .. Len(r) : r[i] = Len(wire \o a) + i BY <1>1, <1>3, <1>4, <2>1
  <2>3. sent \in Nat /\ Len(wire \o a) + Len(r) = sent BY <1>1, <1>3, <1>4
  <2> QED BY <1>3, <1>4, <2>2, <2>3, Zenon DEF InOrder
<1>6. r = <<>> <=> k = Len(out) BY <1>1, <1>3
<1> QED BY <1>5, <1>6 DEF a, r

\* A sequence is the function of its elements.
LEMMA SeqIsFunction ==
    ASSUME NEW s \in Seq(Nat) PROVE s = [i \in 1 .. Len(s) |-> s[i]]
OBVIOUS

\* StreamInv is what InOrder says.
LEMMA InOrderStream ==
    ASSUME Stream PROVE StreamInv
<1>1. Len(wire) \in Nat /\ Len(out) \in Nat /\ sent = Len(wire) + Len(out)
  BY DEF Stream, InOrder
<1>2. /\ wire \o out \in Seq(Nat) /\ Len(wire \o out) = sent
      /\ \A i \in 1 .. sent : (wire \o out)[i] = i
  <2>1. wire \in Seq(Nat) /\ out \in Seq(Nat) BY DEF Stream, InOrder
  <2>2. Joined(wire, out) BY <2>1, Joining
  <2>3. /\ \A i \in 1 .. Len(wire) : wire[i] = i
        /\ \A i \in 1 .. Len(out) : out[i] = Len(wire) + i
    BY DEF Stream, InOrder
  <2> QED BY <1>1, <2>2, <2>3 DEF Joined
<1>3. wire \o out = [i \in 1 .. sent |-> (wire \o out)[i]] BY <1>2, SeqIsFunction, Zenon
<1> QED BY <1>2, <1>3, Zenon DEF StreamInv

-----------------------------------------------------------------------------
LEMMA WriteCompletePending ==
    ASSUME NEW pend \in Seq(Functor)
    PROVE  /\ pend \o WriteComplete \in Seq(Functor)
           /\ Names(pend) \subseteq Names(pend \o WriteComplete)
           /\ Names(pend \o WriteComplete) \subseteq Names(pend) \cup {"writeComplete"}
<1>1. CASE WriteComplete = <<>> BY <1>1
<1>2. CASE WriteComplete = <<Item("writeComplete", 0)>>
  <2>1. Item("writeComplete", 0) \in Functor /\ Item("writeComplete", 0).f = "writeComplete"
    BY DEF Item, Functor
  <2>2. pend \o WriteComplete = Append(pend, Item("writeComplete", 0))
    BY <1>2, <2>1
  <2> QED BY <2>1, <2>2, NamesAppend
<1> QED BY <1>1, <1>2, Zenon DEF WriteComplete

\* What a send does, whatever it finds: the bytes stay in order, the channel
\* waits to write exactly if output is buffered, and after a shutdown for
\* writing nothing is buffered any more.
Effect(q, pend, more) ==
    /\ Stream' /\ Typed(p') /\ wr_shut' \in BOOLEAN
    /\ pending' \in Seq(Functor)
    /\ Names(pend) \subseteq Names(pending') /\ Names(pending') \subseteq Names(pend) \cup more
    /\ q.events[ch] \subseteq p'.events[ch]
    /\ Added(q) => Added(p')
    /\ Writes(q) => Writes(p)' /\ ((wr_shut => out = <<>>) => (wr_shut' => out' = <<>>))

LEMMA SendEffect ==
    ASSUME NEW s, NEW q, Typed(q), NEW pend \in Seq(Functor), NEW n \in Nat,
           Stream, wr_shut \in BOOLEAN, _send_in_loop(s, q, pend, n), UNCHANGED wr_shut
    PROVE  /\ Effect(q, pend, {"writeComplete"})
           /\ s = "kDisconnected" => p' = q /\ pending' = pend
<1>1. CASE /\ UNCHANGED <<out, wire, sent>>
           /\ p' = q /\ pending' = pend
  BY <1>1 DEF Effect, Stream, Writes
<1> DEFINE z == IF is_writing(q, ch) THEN q ELSE enable_writing(q, ch, TRUE)
<1>z. /\ Typed(z) /\ is_writing(z, ch) /\ q.events[ch] \subseteq z.events[ch]
      /\ Added(q) => Added(z)
  BY EnableWritingFields, Zenon
<1> HIDE DEF z
<1>2. CASE /\ s # "kDisconnected"
           /\ ~is_writing(q, ch) /\ out = <<>>
           /\ ~wr_shut
           /\ sent' = sent + n
           /\ \E k \in 0 .. n :
                 /\ wire' = wire \o SubSeq(Bytes(n), 1, k)
                 /\ IF k = n
                    THEN p' = q /\ UNCHANGED out /\ pending' = pend \o WriteComplete
                    ELSE Buffer(q, n, k) /\ pending' = pend
  <2>1. PICK k \in 0 .. n :
                 /\ wire' = wire \o SubSeq(Bytes(n), 1, k)
                 /\ IF k = n
                    THEN p' = q /\ UNCHANGED out /\ pending' = pend \o WriteComplete
                    ELSE Buffer(q, n, k) /\ pending' = pend
    BY <1>2, Zenon
  <2>2. CASE k = n
    <3>1. Stream' BY <1>2, <2>1, <2>2, DirectInOrder DEF Stream
    <3> QED BY <1>2, <2>1, <2>2, <3>1, WriteCompletePending, Zenon DEF Effect, Writes
  <2>3. CASE k # n
    <3>1. Stream' /\ out' # <<>> BY <1>2, <2>1, <2>3, DirectInOrder DEF Stream, Buffer
    <3>2. p' = z BY <2>1, <2>3, Zenon DEF Buffer, z
    <3> QED BY <1>2, <1>z, <2>1, <2>3, <3>1, <3>2 DEF Effect, Writes
  <2> QED BY <2>2, <2>3
<1>3. CASE /\ s # "kDisconnected"
           /\ is_writing(q, ch) \/ out # <<>>
           /\ sent' = sent + n
           /\ Buffer(q, n, 0)
           /\ UNCHANGED wire
           /\ pending' = pend
  <2>1. Stream' BY <1>3, BufferedInOrder DEF Stream, Buffer
  <2>2. p' = z BY <1>3 DEF Buffer, z
  <2>3. out # <<>> => out' # <<>>
    <3>1. out \in Seq(Nat) /\ Rest(n, 0) \in Seq(Nat)
      <4>1. sent \in Nat /\ 0 \in 0 .. n BY DEF Stream, InOrder
      <4> QED BY <4>1, Pieces DEF Stream, InOrder
    <3> QED BY <1>3, <3>1 DEF Buffer
  <2> QED BY <1>3, <1>z, <2>1, <2>2, <2>3 DEF Effect, Writes
<1> QED BY <1>1, <1>2, <1>3, Zenon DEF _send_in_loop

\* A user callback: it leaves a closed connection alone and never closes one.
LEMMA ReactEffect ==
    ASSUME NEW s, NEW q, Typed(q), NEW pend \in Seq(Functor),
           Stream, wr_shut \in BOOLEAN, React(s, q, pend)
    PROVE  /\ Effect(q, pend, {"writeComplete", "forceClose"})
           /\ s \in {"kConnected", "kDisconnecting"} => state_' \in {"kConnected", "kDisconnecting"}
           /\ s \notin {"kConnected", "kDisconnecting"} => state_' = s /\ p' = q /\ pending' = pend
<1>1. CASE /\ state_' = s /\ p' = q /\ pending' = pend
           /\ UNCHANGED <<out, wire, sent, wr_shut>>
  BY <1>1 DEF Effect, Stream, Writes
<1>2. CASE send(s, q, pend)
  <2>1. PICK n \in MsgLen : _send_in_loop(s, q, pend, n) BY <1>2 DEF send
  <2>2. n \in Nat BY ConnAssumption
  <2>3. UNCHANGED wr_shut /\ state_' = s /\ s = "kConnected" BY <1>2 DEF send
  <2>4. Effect(q, pend, {"writeComplete"}) BY <2>1, <2>2, <2>3, SendEffect
  <2> QED BY <2>3, <2>4 DEF Effect
<1>3. CASE shutdown(s, q, pend)
  BY <1>3 DEF shutdown, _shutdown_in_loop, Effect, Stream, Writes
<1>4. CASE force_close(s, q, pend)
  <2>1. Item("forceClose", 0) \in Functor /\ Item("forceClose", 0).f = "forceClose"
    BY DEF Item, Functor
  <2>2. /\ pending' \in Seq(Functor) /\ Names(pending') = Names(pend) \cup {"forceClose"}
    BY <1>4, <2>1, NamesAppend DEF force_close
  <2> QED BY <1>4, <2>2 DEF force_close, Effect, Stream, Writes
<1> QED BY <1>1, <1>2, <1>3, <1>4 DEF React

LEMMA ToldDown ==
    ASSUME told \in Seq({"up", "down"}), told' = Append(told, "down")
    PROVE  told' \in Seq({"up", "down"}) /\ Down'
<1>1. "down" \in {"up", "down"} /\ Len(told) \in Nat OBVIOUS
<1>2. /\ told' \in Seq({"up", "down"}) /\ Len(told') = Len(told) + 1
      /\ told'[Len(told) + 1] = "down"
  BY <1>1
<1>3. Len(told) + 1 \in 1 .. Len(told') BY <1>1, <1>2
<1> QED BY <1>2, <1>3 DEF Down

\* _handle_close: a connection that is not closed yet is told down.
LEMMA CloseEffect ==
    ASSUME Types, NEW s, NEW q, Typed(q), _handle_close(s, q)
    PROVE  /\ Typed(p') /\ pending' \in Seq(Functor)
           /\ conn_map_' \in {"conn", "null", "absent"} /\ base' \in Nat
           /\ told' \in Seq({"up", "down"})
           /\ Names(pending) \subseteq Names(pending')
           /\ Names(pending') \subseteq Names(pending) \cup {"destroyed"}
           /\ s = "kDisconnected" =>
                 /\ p' = q /\ told' = told /\ state_' = state_
                 /\ UNCHANGED <<conn_map_, pending, base>>
           /\ s # "kDisconnected" =>
                 /\ Down' /\ told' = Append(told, "down") /\ state_' = "kDisconnected"
                 /\ p' = CloseChannel(q) /\ remove_conn
<1>1. Item("destroyed", 0) \in Functor /\ Item("destroyed", 0).f = "destroyed"
  BY DEF Item, Functor
<1>2. /\ Append(pending, Item("destroyed", 0)) \in Seq(Functor)
      /\ Names(Append(pending, Item("destroyed", 0))) = Names(pending) \cup {"destroyed"}
  BY <1>1, NamesAppend DEF Types
<1>3. CASE s = "kDisconnected"
  BY <1>3 DEF _handle_close, IsClosed, Types
<1>4. CASE s # "kDisconnected"
  <2>1. /\ state_' = "kDisconnected" /\ p' = CloseChannel(q)
        /\ told' = Append(told, "down") /\ remove_conn
    BY <1>4 DEF _handle_close, IsClosed
  <2>2. Typed(p') BY <2>1, CloseChannelFields
  <2>3. told' \in Seq({"up", "down"}) /\ Down' BY <2>1, ToldDown DEF Types
  <2>4. /\ pending' \in Seq(Functor)
        /\ conn_map_' \in {"conn", "null", "absent"} /\ base' \in Nat
        /\ Names(pending) \subseteq Names(pending')
        /\ Names(pending') \subseteq Names(pending) \cup {"destroyed"}
    <3>1. /\ conn_map_' \in {"conn", "null", "absent"} /\ base' \in Nat
          /\ pending' \in {pending, Append(pending, Item("destroyed", 0))}
      BY <2>1 DEF remove_conn, remove_conn_in_loop, Types
    <3>2. pending \in Seq(Functor) BY DEF Types
    <3>3. CASE pending' = pending BY <3>1, <3>2, <3>3
    <3>4. CASE pending' = Append(pending, Item("destroyed", 0)) BY <1>2, <3>1, <3>4
    <3> QED BY <3>1, <3>3, <3>4
  <2> QED BY <1>4, <2>1, <2>2, <2>3, <2>4
<1> QED BY <1>3, <1>4

\* The io thread takes the first callback or functor.
LEMMA RunWork ==
    ASSUME Types, NEW f, Run(f, <<>>)
    PROVE  /\ work' \in Seq(Functor \cup Callback)
           /\ f \in Names(work) /\ Names(work') \subseteq Names(work)
           /\ Names(work) = Names(work') \cup {f}
<1>1. work \in Seq(Functor \cup Callback) /\ work # <<>> /\ Head(work).f = f
  BY DEF Run, Types
<1>2. Tail(work) \in Seq(Functor \cup Callback) /\ Names(work) = Names(Tail(work)) \cup {f}
  BY <1>1, NamesHeadTail
<1>3. work' = Tail(work) BY <1>2 DEF Run
<1> QED BY <1>2, <1>3

\* The callbacks of Channel::handle_event.
LEMMA EventItems ==
    ASSUME NEW in, NEW outp, NEW hup, NEW err
    PROVE  /\ handle_event(in, outp, hup, err) \in Seq(Functor \cup Callback)
           /\ Names(handle_event(in, outp, hup, err)) \subseteq {"close", "error", "read", "write"}
<1> DEFINE S == Functor \cup Callback
           a == IF hup /\ ~in THEN <<Item("close", 0)>> ELSE <<>>
           b == IF err THEN <<Item("error", 0)>> ELSE <<>>
           c == IF in THEN <<Item("read", 0)>> ELSE <<>>
           d == IF outp THEN <<Item("write", 0)>> ELSE <<>>
<1>1. \A f \in {"close", "error", "read", "write"} : Item(f, 0) \in S /\ Item(f, 0).f = f
  BY DEF Item, Functor, Callback
<1> HIDE DEF S
<1>2. <<>> \in Seq(S) /\ Names(<<>>) = {} BY NamesEmpty
<1>3. a \in Seq(S) /\ Names(a) \subseteq {"close"} BY <1>1, <1>2, NamesOne
<1>4. b \in Seq(S) /\ Names(b) \subseteq {"error"} BY <1>1, <1>2, NamesOne
<1>5. c \in Seq(S) /\ Names(c) \subseteq {"read"} BY <1>1, <1>2, NamesOne
<1>6. d \in Seq(S) /\ Names(d) \subseteq {"write"} BY <1>1, <1>2, NamesOne
<1>7. handle_event(in, outp, hup, err) = a \o b \o c \o d BY DEF handle_event
<1> HIDE DEF a, b, c, d
<1> DEFINE ab == a \o b
           abc == ab \o c
<1>8. ab \in Seq(S) /\ Names(ab) = Names(a) \cup Names(b) BY <1>3, <1>4, NamesConcat
<1> HIDE DEF ab
<1>9. abc \in Seq(S) /\ Names(abc) = Names(ab) \cup Names(c) BY <1>5, <1>8, NamesConcat
<1> HIDE DEF abc
<1>10. abc \o d \in Seq(S) /\ Names(abc \o d) = Names(abc) \cup Names(d)
  BY <1>6, <1>9, NamesConcat
<1>11. handle_event(in, outp, hup, err) = abc \o d BY <1>7 DEF abc, ab
<1> QED BY <1>3, <1>4, <1>5, <1>6, <1>8, <1>9, <1>10, <1>11, Zenon DEF S

-----------------------------------------------------------------------------
(***************************************************************************)
(* OutputInv, whatever the worker calls and whether or not the server      *)
(* stops.                                                                  *)
(***************************************************************************)
LEMMA OutputInit == ASSUME Init PROVE OutputInv
<1> DEFINE x == Item("established", 0)
<1>1. x \in Functor /\ x.f = "established" BY DEF Item, Functor
<1> HIDE DEF x
<1>2. /\ <<>> \in Seq(Functor) /\ <<>> \in Seq(Functor \cup Callback) /\ Names(<<>>) = {}
      /\ <<x>> \in Seq(Functor) /\ <<x>> \in Seq(Functor \cup Callback)
      /\ Names(<<x>>) = {"established"}
  BY <1>1, NamesOne, NamesEmpty
<1>3. Typed(p) BY DEF Init, Typed, Poller, Event
<1>4. /\ pending \in Seq(Functor) /\ work \in Seq(Functor \cup Callback)
      /\ Names(pending) \subseteq {"established"} /\ Names(work) \subseteq {"established"}
  BY <1>2, Zenon DEF Init, x
<1>5. Types
  <2>1. told \in Seq({"up", "down"}) BY DEF Init
  <2> QED BY <1>3, <1>4, <2>1, Zenon DEF Init, Types
<1>6. Stream BY DEF Init, Stream, InOrder
<1>7. Fresh BY <1>4 DEF Init, Fresh, Poller
<1> QED BY <1>5, <1>6, <1>7 DEF OutputInv, Phases, Init

\* A step that leaves the connection's own state alone.
LEMMA OutputQuiet ==
    ASSUME OutputInv, UNCHANGED connVars, Types',
           told = <<>> => /\ wcall' = "none"
                          /\ Names(pending') \subseteq {"established", "destroyed"}
                          /\ Names(work') \subseteq {"established", "destroyed", "remove"}
    PROVE  OutputInv'
<1>1. Stream' BY DEF OutputInv, Stream, connVars
<1>2. ASSUME told = <<>>, Fresh PROVE Phases'
  BY <1>2 DEF Phases, Fresh, connVars
<1>3. ASSUME told = <<"up">>, Open PROVE Phases'
  BY <1>3 DEF Phases, Open, Writes, connVars
<1>4. ASSUME Down, state_ # "kConnecting" PROVE Phases'
  BY <1>4 DEF Phases, Down, connVars
<1> QED BY <1>1, <1>2, <1>3, <1>4 DEF OutputInv, Phases

\* The steps of the loop itself.
LEMMA OutputLoop ==
    ASSUME OutputInv,
           (\E w \in BOOLEAN : Poll(w)) \/ LoopExit \/ Swap \/ TasksDone \/ RunWild
    PROVE  OutputInv'
<1> USE DEF connVars, ctlVars, envVars, workVars
<1>0. Types BY DEF OutputInv
<1>1. ASSUME NEW w \in BOOLEAN, Poll(w) PROVE OutputInv'
  <2>1. \/ work' = <<>>
        \/ \E in, outp, hup, err \in BOOLEAN : Registered /\ work' = handle_event(in, outp, hup, err)
    BY <1>1, Zenon DEF Poll
  <2>2. work' \in Seq(Functor \cup Callback)
    <3>1. ASSUME NEW in \in BOOLEAN, NEW outp \in BOOLEAN, NEW hup \in BOOLEAN, NEW err \in BOOLEAN
          PROVE  handle_event(in, outp, hup, err) \in Seq(Functor \cup Callback)
      BY EventItems
    <3>2. <<>> \in Seq(Functor \cup Callback) OBVIOUS
    <3> QED BY <2>1, <3>1, <3>2, Zenon
  <2>3. told = <<>> => work' = <<>>
    <3>1. told = <<>> => Fresh BY DEF OutputInv, Phases, Down
    <3> QED BY <1>1, <3>1 DEF Fresh, Poll, Registered
  <2>4. Types' BY <1>0, <1>1, <2>2 DEF Types, Poll
  <2>5. told = <<>> => Fresh BY DEF OutputInv, Phases, Down
  <2> QED BY <1>1, <2>3, <2>4, <2>5, OutputQuiet, NamesEmpty DEF Poll, Fresh
<1>2. CASE LoopExit
  <2>1. Types' BY <1>0, <1>2 DEF Types, LoopExit
  <2>2. told = <<>> => Fresh BY DEF OutputInv, Phases, Down
  <2> QED BY <1>2, <2>1, <2>2, OutputQuiet, NamesEmpty DEF LoopExit, Fresh
<1>3. CASE Swap
  <2>1. Types'
    <3>1. work' \in Seq(Functor \cup Callback) BY <1>0, <1>3 DEF Types, Swap
    <3> QED BY <1>0, <1>3, <3>1 DEF Types, Swap, HoldsRef
  <2>2. told = <<>> => Fresh BY DEF OutputInv, Phases, Down
  <2> QED BY <1>3, <2>1, <2>2, OutputQuiet, NamesEmpty DEF Swap, Fresh
<1>4. CASE TasksDone
  <2>1. Types' BY <1>0, <1>4, Zenon DEF Types, TasksDone
  <2>2. told = <<>> => Fresh BY DEF OutputInv, Phases, Down
  <2> QED BY <1>4, <2>1, <2>2, OutputQuiet DEF TasksDone, Fresh
<1>5. CASE RunWild
  <2>1. /\ work' \in Seq(Functor \cup Callback) /\ Names(work') \subseteq Names(work)
    BY <1>0, <1>5, NamesHeadTail DEF RunWild, Types
  <2>2. Types' BY <1>0, <1>5, <2>1 DEF Types, RunWild
  <2>3. told = <<>> => Fresh BY DEF OutputInv, Phases, Down
  <2> QED BY <1>5, <2>1, <2>2, <2>3, OutputQuiet DEF RunWild, Fresh
<1> QED BY <1>1, <1>2, <1>3, <1>4, <1>5

\* Only three functors can run before the connection is up.
LEMMA NotFresh ==
    ASSUME OutputInv, NEW f \in Names(work), f \notin {"established", "destroyed", "remove"}
    PROVE  (told = <<"up">> /\ Open) \/ (Down /\ state_ # "kConnecting")
BY DEF OutputInv, Phases, Fresh

\* A handler that may close the connection and does not touch the output.
LEMMA OutputClose ==
    ASSUME OutputInv, Types', Stream',
           NEW s, s = state_ \/ s # "kDisconnected", NEW q, Typed(q), _handle_close(s, q),
           s = "kDisconnected" => q = p,
           UNCHANGED <<out, wr_shut>>,
           told # <<>> \/ s # "kDisconnected"
    PROVE  OutputInv'
<1>0. Types BY DEF OutputInv
<1>1. CASE s = "kDisconnected"
  <2>1. p' = p /\ told' = told /\ state_' = state_ /\ state_ = "kDisconnected"
    BY <1>0, <1>1, CloseEffect
  <2>2. Down BY <1>1, <2>1 DEF OutputInv, Phases, Open
  <2> QED BY <2>1, <2>2 DEF OutputInv, Phases, Down
<1>2. CASE s # "kDisconnected"
  BY <1>0, <1>2, CloseEffect DEF OutputInv, Phases
<1> QED BY <1>1, <1>2

\* A user callback after up.
LEMMA OutputReact ==
    ASSUME OutputInv, Types', React(state_, p, pending), UNCHANGED told, told # <<>>
    PROVE  OutputInv'
<1>0. Types /\ Stream /\ wr_shut \in BOOLEAN /\ Typed(p) /\ pending \in Seq(Functor)
  BY DEF OutputInv, Types
<1>1. /\ Effect(p, pending, {"writeComplete", "forceClose"})
      /\ state_ \in {"kConnected", "kDisconnecting"} => state_' \in {"kConnected", "kDisconnecting"}
      /\ state_ \notin {"kConnected", "kDisconnecting"} => state_' = state_
  BY <1>0, ReactEffect
<1>2. ASSUME told = <<"up">>, Open PROVE Phases'
  BY <1>1, <1>2 DEF Open, Effect, Phases
<1>3. ASSUME Down, state_ # "kConnecting" PROVE Phases'
  BY <1>1, <1>3, Zenon DEF Phases, Down
<1> QED BY <1>1, <1>2, <1>3 DEF OutputInv, Phases, Effect

LEMMA OutputEstablished == ASSUME OutputInv, conn_established PROVE OutputInv'
<1> USE DEF ctlVars, workVars
<1>0. Types /\ Stream /\ wr_shut \in BOOLEAN /\ Typed(p) /\ pending \in Seq(Functor)
  BY DEF OutputInv, Types
<1>1. Run("established", <<>>) BY DEF conn_established
<1>2. /\ work' \in Seq(Functor \cup Callback) /\ Names(work') \subseteq Names(work)
      /\ UNCHANGED <<pc, batchRef, stop, wcall>>
  BY <1>0, <1>1, RunWork, Zenon DEF Run
<1>3. PICK ok \in BOOLEAN :
          LET q == SetEvents(p, ch, p.events[ch] \cup read_event_)
              r == enable_reading(p, ch, ok)
          IN  \/ /\ state_ # "kConnecting"
                 /\ UNCHANGED <<connVars, conn_map_, pending, base>>
              \/ /\ state_ = "kConnecting" /\ ~UpdateReturns(q, ch, ok)
                 /\ _handle_close("kConnected", r)
                 /\ UNCHANGED <<out, wire, sent, wr_shut>>
              \/ /\ state_ = "kConnecting" /\ UpdateReturns(q, ch, ok)
                 /\ told' = Append(told, "up")
                 /\ React("kConnected", r, pending)
                 /\ UNCHANGED <<conn_map_, base>>
  BY DEF conn_established
<1> DEFINE r == enable_reading(p, ch, ok)
<1>4. Typed(r) /\ r.events[ch] = p.events[ch] \cup {"R"} BY <1>0, EnableReadingFields
<1> HIDE DEF r
<1>5. ASSUME state_ # "kConnecting", UNCHANGED <<connVars, conn_map_, pending, base>> PROVE OutputInv'
  <2>1. Types' BY <1>0, <1>2, <1>5 DEF Types, connVars
  <2>2. told # <<>> BY <1>5 DEF OutputInv, Phases, Fresh, Down
  <2> QED BY <1>5, <2>1, <2>2, OutputQuiet
<1>6. ASSUME _handle_close("kConnected", r), UNCHANGED <<out, wire, sent, wr_shut>> PROVE OutputInv'
  <2>1. Types' BY <1>0, <1>2, <1>4, <1>6, CloseEffect DEF Types
  <2>2. Stream' BY <1>0, <1>6, Zenon DEF Stream
  <2> QED BY <1>4, <1>6, <2>1, <2>2, OutputClose, Zenon
<1>7. ASSUME state_ = "kConnecting", told' = Append(told, "up"), React("kConnected", r, pending),
             UNCHANGED <<conn_map_, base>>
      PROVE  OutputInv'
  <2>1. told = <<>> /\ Fresh BY <1>7 DEF OutputInv, Phases, Open
  <2>2. told' = <<"up">> BY <1>7, <2>1
  <2>3. /\ Effect(r, pending, {"writeComplete", "forceClose"})
        /\ state_' \in {"kConnected", "kDisconnecting"}
    BY <1>0, <1>4, <1>7, ReactEffect
  <2>4. Writes(r) /\ out = <<>> BY <1>4, <2>1 DEF Writes, Fresh, is_writing, write_event_
  <2>5. Open' BY <2>3, <2>4 DEF Open, Effect
  <2>6. told' \in Seq({"up", "down"}) BY <2>2
  <2>7. Types' BY <1>0, <1>2, <1>7, <2>3, <2>6, Zenon DEF Types, Effect
  <2> QED BY <2>2, <2>3, <2>5, <2>7 DEF OutputInv, Phases, Effect
<1> QED BY <1>3, <1>5, <1>6, <1>7 DEF r

\* The callbacks of the channel, and the functors that end in one of them.
LEMMA OutputCallbacks ==
    ASSUME OutputInv,
           _handle_read \/ HangUp \/ _force_close_in_loop \/ WriteCompleteCallback
    PROVE  OutputInv'
<1> USE DEF ctlVars, workVars
<1>0. Types /\ Stream /\ wr_shut \in BOOLEAN /\ Typed(p) /\ pending \in Seq(Functor)
  BY DEF OutputInv, Types
<1>1. PICK f \in {"read", "close", "error", "forceClose", "writeComplete"} : Run(f, <<>>)
  BY DEF _handle_read, HangUp, _force_close_in_loop, WriteCompleteCallback
<1>2. /\ work' \in Seq(Functor \cup Callback) /\ f \in Names(work)
      /\ UNCHANGED <<pc, batchRef, stop, wcall>>
  BY <1>0, <1>1, RunWork DEF Run
<1>3. told # <<>>
  <2>1. (told = <<"up">> /\ Open) \/ (Down /\ state_ # "kConnecting") BY <1>2, NotFresh
  <2> QED BY <2>1 DEF Down
<1>4. ASSUME _handle_close(state_, p), UNCHANGED <<out, wire, sent, wr_shut>> PROVE OutputInv'
  <2>1. Types' BY <1>0, <1>2, <1>4, CloseEffect DEF Types
  <2>2. Stream' BY <1>0, <1>4 DEF Stream
  <2> QED BY <1>0, <1>3, <1>4, <2>1, <2>2, OutputClose, Zenon
<1>5. ASSUME React(state_, p, pending), UNCHANGED <<told, conn_map_, base>> PROVE OutputInv'
  <2>1. /\ Effect(p, pending, {"writeComplete", "forceClose"})
        /\ state_' \in {state_, "kConnected", "kDisconnecting"}
    BY <1>0, <1>5, ReactEffect, Zenon
  <2>2. Types' BY <1>0, <1>2, <1>5, <2>1 DEF Types, Effect
  <2> QED BY <1>3, <1>5, <2>2, OutputReact
<1>6. ASSUME UNCHANGED <<state_, p, told, conn_map_, pending, base, out, wire, sent, wr_shut>>
      PROVE  OutputInv'
  <2>1. Types' BY <1>0, <1>2, <1>6 DEF Types
  <2> QED BY <1>3, <1>6, <2>1, OutputQuiet DEF connVars
<1> QED BY <1>4, <1>5, <1>6 DEF _handle_read, HangUp, _force_close_in_loop, WriteCompleteCallback

LEMMA OutputWrite == ASSUME OutputInv, _handle_write PROVE OutputInv'
<1> USE DEF ctlVars, workVars
<1>0. Types /\ Stream /\ wr_shut \in BOOLEAN /\ Typed(p) /\ pending \in Seq(Functor)
  BY DEF OutputInv, Types
<1>1. Run("write", <<>>) BY DEF _handle_write
<1>2. /\ work' \in Seq(Functor \cup Callback) /\ "write" \in Names(work)
      /\ UNCHANGED <<pc, batchRef, stop, wcall>>
  BY <1>0, <1>1, RunWork DEF Run
<1>3. (told = <<"up">> /\ Open) \/ (Down /\ state_ # "kConnecting")
  BY <1>2, NotFresh
<1>3a. told # <<>> BY <1>3 DEF Down
<1>4. CASE UNCHANGED <<connVars, conn_map_, pending, base>>
  <2>1. Types' BY <1>0, <1>2, <1>4 DEF Types, connVars
  <2> QED BY <1>3a, <1>4, <2>1, OutputQuiet
<1>5. CASE _handle_close(state_, p) /\ UNCHANGED <<out, wire, sent, wr_shut>>
  <2>1. Types' BY <1>0, <1>2, <1>5, CloseEffect DEF Types
  <2>2. Stream' BY <1>0, <1>5 DEF Stream
  <2> QED BY <1>0, <1>3a, <1>5, <2>1, <2>2, OutputClose, Zenon
<1>6. ASSUME is_writing(p, ch), ~wr_shut, NEW n \in 1 .. Len(out),
             wire' = wire \o SubSeq(out, 1, n),
             out' = SubSeq(out, n + 1, Len(out)),
             IF n = Len(out) THEN WriteDone ELSE UNCHANGED <<p, pending, wr_shut>>,
             UNCHANGED <<state_, sent, told, conn_map_, base>>
      PROVE  OutputInv'
  <2>1. Stream' /\ (out' = <<>> <=> n = Len(out))
    BY <1>0, <1>6, WrittenInOrder DEF Stream
  <2>2. CASE n # Len(out)
    <3>1. UNCHANGED <<p, pending, wr_shut>> BY <1>6, <2>2
    <3>2. Types' BY <1>0, <1>2, <1>6, <3>1 DEF Types
    <3>3. Phases' BY <1>3, <1>6, <2>1, <2>2, <3>1 DEF Phases, Open, Writes, Down
    <3> QED BY <2>1, <3>2, <3>3 DEF OutputInv
  <2>3. CASE n = Len(out)
    <3>1. /\ p' = StopWriting(p) /\ pending' = pending \o WriteComplete
          /\ wr_shut' \in BOOLEAN
      BY <1>0, <1>6, <2>3, Zenon DEF WriteDone, LateShutdown, _shutdown_in_loop
    <3>2. Typed(p') /\ ~is_writing(p', ch) BY <1>0, <3>1, StopWritingFields
    <3>3. pending' \in Seq(Functor) BY <1>0, <3>1, WriteCompletePending
    <3>4. Types' BY <1>0, <1>2, <1>6, <3>1, <3>2, <3>3 DEF Types
    <3>5. Phases' BY <1>3, <1>6, <2>1, <2>3, <3>2 DEF Phases, Open, Writes, Down
    <3> QED BY <2>1, <3>4, <3>5 DEF OutputInv
  <2> QED BY <2>2, <2>3
<1> QED BY <1>4, <1>5, <1>6, Zenon DEF _handle_write

\* The functors that send and shutdown queue.
LEMMA OutputFunctors == ASSUME OutputInv, SendFunctor \/ ShutdownFunctor PROVE OutputInv'
<1> USE DEF ctlVars, workVars
<1>0. Types /\ Stream /\ wr_shut \in BOOLEAN /\ Typed(p) /\ pending \in Seq(Functor)
  BY DEF OutputInv, Types
<1>1. PICK f \in {"send", "shutdown"} : Run(f, <<>>)
  BY DEF SendFunctor, ShutdownFunctor
<1>2. /\ work' \in Seq(Functor \cup Callback) /\ f \in Names(work)
      /\ UNCHANGED <<pc, batchRef, stop, wcall>>
  BY <1>0, <1>1, RunWork DEF Run
<1>3. (told = <<"up">> /\ Open) \/ (Down /\ state_ # "kConnecting")
  BY <1>2, NotFresh
<1>4. CASE SendFunctor
  <2>1. Head(work).n \in Nat
    <3>1. Head(work) \in Functor \cup Callback
      BY <1>0, <1>1, NamesHeadTail DEF Run, Types
    <3>2. MsgLen \cup {0} \subseteq Nat BY ConnAssumption
    <3> QED BY <3>1, <3>2 DEF Functor, Callback
  <2>2. /\ _send_in_loop(state_, p, pending, Head(work).n)
        /\ UNCHANGED <<state_, wr_shut, told, conn_map_, base>>
    BY <1>4 DEF SendFunctor
  <2>3. Effect(p, pending, {"writeComplete"}) BY <1>0, <2>1, <2>2, SendEffect, Zenon
  <2>4. Types' BY <1>0, <1>2, <2>2, <2>3, Zenon DEF Types, Effect
  <2>5. Phases' BY <1>3, <2>2, <2>3 DEF Phases, Open, Effect, Down
  <2> QED BY <2>3, <2>4, <2>5 DEF OutputInv, Effect
<1>5. CASE ShutdownFunctor
  <2>1. /\ wr_shut' = (wr_shut \/ ~is_writing(p, ch))
        /\ UNCHANGED <<state_, p, out, wire, sent, told, conn_map_, pending, base>>
    BY <1>5 DEF ShutdownFunctor, _shutdown_in_loop
  <2>2. Types' BY <1>0, <1>2, <2>1 DEF Types
  <2>3. Phases' BY <1>3, <2>1, Zenon DEF Phases, Open, Writes, Down
  <2> QED BY <1>0, <2>1, <2>2, <2>3 DEF OutputInv, Stream
<1> QED BY <1>4, <1>5

\* conn_destroyed and what it becomes.
LEMMA OutputDestroyed ==
    ASSUME OutputInv, conn_destroyed \/ CloseAndRemove \/ Remove PROVE OutputInv'
<1> USE DEF ctlVars, workVars
<1>0. Types /\ Stream /\ Typed(p) /\ work \in Seq(Functor \cup Callback) /\ told \in Seq({"up", "down"})
  BY DEF OutputInv, Types
<1>1. CASE conn_destroyed
  <2> DEFINE x == Item(IF state_ = "kConnected" THEN "closeAndRemove" ELSE "remove", 0)
  <2>1. /\ x \in Functor \cup Callback
        /\ x.f = IF state_ = "kConnected" THEN "closeAndRemove" ELSE "remove"
    BY DEF Item, Callback
  <2>2. /\ work # <<>> /\ work' = <<x>> \o Tail(work)
        /\ UNCHANGED <<connVars, conn_map_, pending, base, batchRef, stop, wcall>>
    BY <1>1 DEF conn_destroyed, Run
  <2> HIDE DEF x
  <2>3. /\ Tail(work) \in Seq(Functor \cup Callback) /\ Names(Tail(work)) \subseteq Names(work)
    BY <1>0, <2>2, NamesHeadTail
  <2>7. /\ <<x>> \o Tail(work) \in Seq(Functor \cup Callback)
        /\ Names(<<x>> \o Tail(work)) = {x.f} \cup Names(Tail(work))
    <3> DEFINE S == Functor \cup Callback
               rest == Tail(work)
    <3>1. x \in S /\ rest \in Seq(S) BY <2>1, <2>3
    <3> HIDE DEF S, rest
    <3>2. <<x>> \o rest \in Seq(S) /\ Names(<<x>> \o rest) = {x.f} \cup Names(rest)
      BY <3>1, NamesPush
    <3> QED BY <3>2 DEF S, rest
  <2>4. /\ work' \in Seq(Functor \cup Callback) /\ Names(work') = {x.f} \cup Names(Tail(work))
    BY <2>2, <2>7, Zenon
  <2>5. Types' BY <1>0, <2>2, <2>4 DEF Types, connVars
  <2>6. told = <<>> => Fresh BY DEF OutputInv, Phases, Down
  <2> QED BY <2>1, <2>2, <2>3, <2>4, <2>5, <2>6, OutputQuiet DEF Fresh
<1>2. CASE CloseAndRemove
  <2>1. /\ work' \in Seq(Functor \cup Callback)
        /\ UNCHANGED <<out, wire, sent, wr_shut, conn_map_, pending, base, batchRef, stop, wcall>>
        /\ state_' = "kDisconnected" /\ told' = Append(told, "down")
        /\ p' = TakeOut(CloseChannel(p))
    BY <1>0, <1>2, RunWork DEF CloseAndRemove, Run
  <2>2. Typed(p') BY <1>0, <2>1, CloseChannelFields, TakeOutFields, Zenon
  <2>3. told' \in Seq({"up", "down"}) /\ Down' BY <1>0, <2>1, ToldDown
  <2>4. Types' BY <1>0, <2>1, <2>2, <2>3 DEF Types
  <2> QED BY <1>0, <2>1, <2>3, <2>4, Zenon DEF OutputInv, Phases, Stream
<1>3. CASE Remove
  <2>1. /\ work' \in Seq(Functor \cup Callback) /\ Names(work') \subseteq Names(work)
        /\ UNCHANGED <<state_, out, wire, sent, wr_shut, told, conn_map_, pending, base,
                       batchRef, stop, wcall>>
        /\ p' = TakeOut(p)
    BY <1>0, <1>3, RunWork DEF Remove, Run
  <2>2. /\ Typed(p') /\ p'.events = p.events
        /\ p.channels_["sockfd"] = "none" => p' = p
    BY <1>0, <2>1, TakeOutFields, Zenon
  <2>3. Types' BY <1>0, <2>1, <2>2, Zenon DEF Types
  <2>4. Phases'
    <3>1. ASSUME told = <<>>, Fresh PROVE Phases' BY <2>1, <2>2, <3>1, Zenon DEF Phases, Fresh
    <3>2. ASSUME told = <<"up">>, Open PROVE Phases'
      BY <2>1, <2>2, <3>2, Zenon DEF Phases, Open, Writes, is_writing
    <3>3. ASSUME Down, state_ # "kConnecting" PROVE Phases' BY <2>1, <3>3 DEF Phases, Down
    <3> QED BY <3>1, <3>2, <3>3, Zenon DEF OutputInv, Phases
  <2> QED BY <1>0, <2>1, <2>3, <2>4, Zenon DEF OutputInv, Stream
<1> QED BY <1>1, <1>2, <1>3

\* The base thread, the worker and the peer.
LEMMA OutputOthers ==
    ASSUME OutputInv,
           \/ RemoveConnInLoop \/ StopLoops \/ StopConns \/ Peer \/ UNCHANGED vars
           \/ (\E op \in Calls : WorkerCall(op)) \/ WorkerSet \/ WorkerReturn
    PROVE  OutputInv'
<1> USE DEF ctlVars, workVars, envVars
<1>0. Types /\ pending \in Seq(Functor) BY DEF OutputInv, Types
<1>f. told = <<>> => Fresh BY DEF OutputInv, Phases, Down
<1>d. LET x == Item("destroyed", 0)
      IN  Append(pending, x) \in Seq(Functor) /\ Names(Append(pending, x)) = Names(pending) \cup {"destroyed"}
  <2>1. Item("destroyed", 0) \in Functor /\ Item("destroyed", 0).f = "destroyed" BY DEF Item, Functor
  <2> QED BY <1>0, <2>1, NamesAppend
<1>1. CASE RemoveConnInLoop
  <2>1. /\ pending' \in {pending, Append(pending, Item("destroyed", 0))}
        /\ conn_map_' \in {"conn", "null", "absent"} /\ base' \in Nat
        /\ UNCHANGED <<connVars, work, batchRef, stop, wcall>>
    BY <1>0, <1>1 DEF RemoveConnInLoop, remove_conn_in_loop, Types
  <2>2. pending' \in Seq(Functor) /\ Names(pending') \subseteq Names(pending) \cup {"destroyed"}
    BY <1>0, <1>d, <2>1, Zenon
  <2>3. Types' BY <1>0, <2>1, <2>2, Zenon DEF Types, connVars
  <2> QED BY <1>f, <2>1, <2>2, <2>3, OutputQuiet, Zenon DEF Fresh
<1>2. CASE StopConns
  <2>1. /\ pending' \in {pending, Append(pending, Item("destroyed", 0))}
        /\ conn_map_' \in {"conn", "null", "absent"} /\ stop' = "conns"
        /\ UNCHANGED <<connVars, base, work, batchRef, wcall>>
    BY <1>0, <1>2 DEF StopConns, Types
  <2>2. pending' \in Seq(Functor) /\ Names(pending') \subseteq Names(pending) \cup {"destroyed"}
    BY <1>0, <1>d, <2>1, Zenon
  <2>3. Types' BY <1>0, <2>1, <2>2, Zenon DEF Types, connVars
  <2> QED BY <1>f, <2>1, <2>2, <2>3, OutputQuiet, Zenon DEF Fresh
<1>3. CASE StopLoops
  <2>1. Types' BY <1>0, <1>3, Zenon DEF StopLoops, Types, connVars
  <2> QED BY <1>3, <1>f, <2>1, OutputQuiet DEF StopLoops, Fresh
<1>4. CASE Peer \/ UNCHANGED vars
  <2>1. UNCHANGED <<connVars, conn_map_, pending, base, work, batchRef, stop, wcall>>
    BY <1>4 DEF Peer, vars
  <2>2. Types' BY <1>0, <2>1 DEF Types, connVars
  <2> QED BY <1>f, <2>1, <2>2, OutputQuiet DEF Fresh
<1>5. ASSUME NEW op \in Calls, WorkerCall(op) PROVE OutputInv'
  <2>1. /\ told # <<>> /\ wcall' \in Calls
        /\ UNCHANGED <<connVars, conn_map_, pending, base, work, batchRef, stop>>
    BY <1>5 DEF WorkerCall
  <2>2. Types' BY <1>0, <2>1 DEF Types, connVars
  <2> QED BY <2>1, <2>2, OutputQuiet
<1>6. CASE WorkerSet
  <2>1. /\ state_' = "kDisconnecting" /\ wcall # "none" /\ wcall' \in {"pushShutdown", "pushForce"}
        /\ UNCHANGED <<p, out, wire, sent, wr_shut, told, conn_map_, pending, base, work, batchRef, stop>>
    BY <1>6 DEF WorkerSet
  <2>2. Types' BY <1>0, <2>1 DEF Types
  <2>3. Phases'
    <3>1. (told = <<"up">> /\ Open) \/ (Down /\ state_ # "kConnecting")
      BY <2>1 DEF OutputInv, Phases, Fresh
    <3> QED BY <2>1, <3>1, Zenon DEF Phases, Open, Writes, Down
  <2> QED BY <2>1, <2>2, <2>3 DEF OutputInv, Stream
<1>7. CASE WorkerReturn
  <2>1. PICK x \in Functor : wcall # "none" /\ WorkerPush(x)
    <3>1. \A n \in MsgLen : Item("send", n) \in Functor BY DEF Item, Functor
    <3>2. Item("shutdown", 0) \in Functor /\ Item("forceClose", 0) \in Functor BY DEF Item, Functor
    <3> QED BY <1>7, <3>1, <3>2 DEF WorkerReturn
  <2>2. /\ wcall' = "none" /\ pending' \in {pending, Append(pending, x)}
        /\ UNCHANGED <<connVars, conn_map_, base, work, batchRef, stop>>
    BY <2>1 DEF WorkerPush
  <2>3. pending' \in Seq(Functor) BY <1>0, <2>1, <2>2, NamesAppend
  <2>4. Types' BY <1>0, <2>2, <2>3 DEF Types, connVars
  <2>5. told # <<>> BY <1>f, <2>1 DEF Fresh
  <2> QED BY <2>2, <2>4, <2>5, OutputQuiet
<1> QED BY <1>1, <1>2, <1>3, <1>4, <1>5, <1>6, <1>7

LEMMA OutputInductive == Spec => []OutputInv
<1>1. OutputInv /\ [Next]_vars => OutputInv'
  BY OutputLoop, OutputEstablished, OutputCallbacks, OutputWrite, OutputFunctors,
     OutputDestroyed, OutputOthers DEF Next, Io, Base, Worker
<1> QED BY <1>1, OutputInit, PTL DEF Spec

\* StreamInv: however direct, partial and buffered writes mix, the bytes given
\* to the kernel and those in output_buffer_ are the bytes accepted, in order.
THEOREM StreamCorrect == Spec => []StreamInv
<1>1. OutputInv => StreamInv BY InOrderStream DEF OutputInv
<1> QED BY <1>1, OutputInductive, PTL

\* WritingInv: an open connection waits for writability exactly when
\* _send_in_loop or _handle_write left output in the buffer.
THEOREM WritingCorrect == Spec => []WritingInv
<1>1. OutputInv => WritingInv BY DEF OutputInv, Phases, Open, Writes, WritingInv, Down
<1> QED BY <1>1, OutputInductive, PTL

\* FinAfterFlush: _shutdown_in_loop ends the sending side behind all output.
THEOREM FinAfterFlushCorrect == Spec => []FinAfterFlush
<1>1. OutputInv => FinAfterFlush BY DEF OutputInv, Phases, Open, Fresh, FinAfterFlush
<1> QED BY <1>1, OutputInductive, PTL

-----------------------------------------------------------------------------
(***************************************************************************)
(* LifeInv, until stop is called, for a worker that only sends.            *)
(***************************************************************************)
LEMMA FunctorNames ==
    ASSUME NEW s \in Seq(Functor) PROVE Names(s) \subseteq Functors
<1>1. ASSUME NEW i \in 1 .. Len(s) PROVE s[i] \in Functor OBVIOUS
<1>2. \A x \in Functor : x.f \in Functors BY Zenon DEF Functor, Functors
<1> QED BY <1>1, <1>2 DEF Names

\* A step that neither closes the connection nor moves what will remove it.
LEMMA StageKept ==
    ASSUME Stage, UNCHANGED <<told, conn_map_, base>>,
           "destroyed" \in Names(pending') <=> "destroyed" \in Names(pending),
           Names(work') \cap {"destroyed", "remove"} = {} <=> Names(work) \cap {"destroyed", "remove"} = {},
           \/ UNCHANGED <<state_, p>>
           \/ told = <<"up">> /\ (Added(p) /\ "R" \in p.events[ch] => Added(p') /\ "R" \in p'.events[ch])
    PROVE  Stage'
<1>1. ASSUME told = <<>>, Kept PROVE Stage' BY <1>1, Zenon DEF Stage, Kept
<1>2. ASSUME told = <<"up">>, Kept, Added(p), "R" \in p.events[ch] PROVE Stage'
  BY <1>2, Zenon DEF Stage, Kept, Added
<1>3. ASSUME Closed PROVE Stage'
  <2>1. UNCHANGED <<state_, p>> BY <1>3 DEF Closed
  <2> QED BY <1>3, <2>1, Zenon DEF Stage, Closed, ToBeRemoved
<1> QED BY <1>1, <1>2, <1>3, Zenon DEF Stage

\* Closing a connection that is in the poller leaves somebody to remove it.
LEMMA StageClose ==
    ASSUME Types, NEW q, Typed(q), Added(q), _handle_close(state_, q) \/ _handle_close("kConnected", q),
           conn_map_ = "conn", told \in {<<>>, <<"up">>}, state_ # "kDisconnected"
    PROVE  /\ Stage' /\ conn_map_' \in {"conn", "absent"}
           /\ (conn_map_' = "conn" /\ base' > 0) \/ "destroyed" \in Names(pending')
<1>1. /\ told' = Append(told, "down") /\ state_' = "kDisconnected"
      /\ p' = CloseChannel(q) /\ remove_conn
  BY CloseEffect
<1>2. /\ p'.events[ch] = {} /\ p'.epoll["sockfd"] = "none" /\ p'.index[ch] # new_
  BY <1>1, CloseChannelFields, Zenon
<1>3. told' \in {<<"down">>, <<"up", "down">>}
  <2>1. CASE told = <<>> BY <1>1, <2>1
  <2>2. CASE told = <<"up">>
    <3> DEFINE t == <<"up", "down">>
    <3>1. told \in Seq({"up", "down"}) /\ Len(told) = 1 /\ told[1] = "up" BY <2>2
    <3>2. /\ told' \in Seq({"up", "down"}) /\ Len(told') = 2
          /\ told'[1] = "up" /\ told'[2] = "down"
      <4>1. /\ told' \in Seq({"up", "down"}) /\ Len(told') = Len(told) + 1
            /\ \A i \in 1 .. Len(told) : told'[i] = told[i]
            /\ told'[Len(told) + 1] = "down"
        <5>1. "down" \in {"up", "down"} /\ told \in Seq({"up", "down"}) BY <3>1, Zenon
        <5>2. /\ Append(told, "down") \in Seq({"up", "down"})
              /\ Len(Append(told, "down")) = Len(told) + 1
              /\ \A i \in 1 .. Len(told) : Append(told, "down")[i] = told[i]
              /\ Append(told, "down")[Len(told) + 1] = "down"
          BY <5>1
        <5> QED BY <1>1, <5>2, Zenon
      <4> QED BY <3>1, <4>1
    <3>3. t \in Seq({"up", "down"}) /\ Len(t) = 2 /\ t[1] = "up" /\ t[2] = "down" OBVIOUS
    <3> HIDE DEF t
    <3>4. \A i \in 1 .. 2 : told'[i] = t[i] BY <3>2, <3>3
    <3>5. told' = t BY <3>2, <3>3, <3>4
    <3> QED BY <3>5 DEF t
  <2> QED BY <2>1, <2>2
<1>4. /\ conn_map_' \in {"conn", "absent"}
      /\ (conn_map_' = "conn" /\ base' > 0) \/ "destroyed" \in Names(pending')
  <2>1. Item("destroyed", 0) \in Functor /\ Item("destroyed", 0).f = "destroyed"
    BY DEF Item, Functor
  <2>2. "destroyed" \in Names(Append(pending, Item("destroyed", 0)))
    BY <2>1, NamesAppend DEF Types
  <2>3. CASE BaseIsIo BY <1>1, <2>2, <2>3, Zenon DEF remove_conn, remove_conn_in_loop
  <2>4. CASE ~BaseIsIo
    <3>1. conn_map_' = "conn" /\ base' = base + 1 BY <1>1, <2>4 DEF remove_conn
    <3>2. base \in Nat BY DEF Types
    <3> QED BY <3>1, <3>2
  <2> QED BY <2>3, <2>4
<1> QED BY <1>1, <1>2, <1>3, <1>4 DEF Stage, Closed, ToBeRemoved

\* After a callback or functor the rest of the batch is still kept alive.
LEMMA LoopRun ==
    ASSUME Types, Loop, NEW f, Run(f, <<>>),
           conn_map_ = "conn" \/ "destroyed" \in Names(pending) =>
               conn_map_' = "conn" \/ "destroyed" \in Names(pending')
    PROVE  Loop'
<1>1. Names(work') \subseteq Names(work) /\ work # <<>> /\ UNCHANGED <<pc, batchRef>>
  BY RunWork DEF Run, ctlVars
<1> QED BY <1>1 DEF Loop

\* Whatever is to be removed keeps the connection alive until it is removed.
LEMMA RemovalAlive ==
    ASSUME Loop, ToBeRemoved PROVE Alive
<1>1. CASE conn_map_ = "conn" BY <1>1 DEF Alive
<1>2. CASE "destroyed" \in Names(pending) BY <1>2, HoldsRefNames DEF Alive
<1>3. CASE Names(work) \cap {"destroyed", "remove"} # {}
  <2>1. Names(work) # {} BY <1>3
  <2>2. pc = "tasks" BY <1>3, <2>1, NamesEmpty DEF Loop
  <2>3. batchRef BY <1>3, <2>2 DEF Loop, Held
  <2> QED BY <2>3 DEF Alive
<1> QED BY <1>1, <1>2, <1>3 DEF ToBeRemoved

LEMMA LifeInit == ASSUME Init PROVE LifeInv
<1> DEFINE x == Item("established", 0)
<1>1. x \in Functor /\ x.f = "established" BY DEF Item, Functor
<1> HIDE DEF x
<1>2. Names(<<>>) = {} /\ Names(<<x>>) = {"established"} BY <1>1, NamesOne, NamesEmpty, Zenon
<1>3. Names(pending) \subseteq {"established"} /\ Names(work) \subseteq {"established"}
  BY <1>2 DEF Init, x
<1>4. Loop BY <1>3, Zenon DEF Init, Loop
<1>5. Stage BY <1>3 DEF Init, Stage, Kept
<1> QED BY <1>4, <1>5 DEF Init, LifeInv

LEMMA LifeLoop ==
    ASSUME OutputInv, LifeInv, stop = "no",
           (\E w \in BOOLEAN : Poll(w)) \/ LoopExit \/ Swap \/ TasksDone \/ RunWild
    PROVE  LifeInv'
<1> USE DEF connVars, ctlVars, envVars, workVars
<1>0. Types BY DEF OutputInv
<1>1. ASSUME NEW w \in BOOLEAN, Poll(w) PROVE LifeInv'
  <2>1. \/ work' = <<>>
        \/ \E in, outp, hup, err \in BOOLEAN : Registered /\ work' = handle_event(in, outp, hup, err)
    BY <1>1, Zenon DEF Poll
  <2>2. /\ Names(work') \subseteq {"close", "error", "read", "write"}
        /\ work' # <<>> => Registered
    <3>1. ASSUME NEW in \in BOOLEAN, NEW outp \in BOOLEAN, NEW hup \in BOOLEAN, NEW err \in BOOLEAN
          PROVE  Names(handle_event(in, outp, hup, err)) \subseteq {"close", "error", "read", "write"}
      BY EventItems
    <3> QED BY <2>1, <3>1, NamesEmpty
  <2>3. Registered => conn_map_ = "conn" BY DEF Registered, LifeInv, Stage, Closed, Kept
  <2>4. work = <<>> /\ Names(work) = {} BY <1>1, NamesEmpty, Zenon DEF Poll, LifeInv, Loop
  <2>5. Stage' BY <1>1, <2>2, <2>4, StageKept, Zenon DEF Poll, LifeInv
  <2>6. Loop' BY <1>1, <2>2, <2>3, Zenon DEF Poll, Loop
  <2> QED BY <1>1, <2>5, <2>6, Zenon DEF Poll, LifeInv
<1>2. CASE LoopExit BY <1>2 DEF LoopExit
<1>3. CASE Swap
  <2>1. /\ work = <<>> /\ pc' = "tasks" /\ work' = pending /\ pending' = <<>>
        /\ batchRef' = HoldsRef(pending)
        /\ UNCHANGED <<connVars, conn_map_, base, stop, wcall>>
    BY <1>3 DEF Swap
  <2>2. Names(work) = {} /\ Names(pending') = {} BY <2>1, NamesEmpty
  <2>3. Names(work') = Names(pending) /\ Names(pending) \subseteq Functors
    BY <1>0, <2>1, FunctorNames DEF Types
  <2>4. Loop' BY <2>1, <2>3, HoldsRefNames, Zenon DEF Loop, Held, Functors
  <2>5. Stage'
    <3>1. ASSUME told = <<>>, Kept PROVE Stage' BY <2>1, <2>2, <2>3, <3>1, Zenon DEF Stage, Kept, Functors
    <3>2. ASSUME told = <<"up">>, Kept, Added(p), "R" \in p.events[ch] PROVE Stage'
      BY <2>1, <2>2, <2>3, <3>2, Zenon DEF Stage, Kept, Added, Functors
    <3>3. ASSUME Closed PROVE Stage'
      BY <2>1, <2>2, <2>3, <3>3, Zenon DEF Stage, Closed, ToBeRemoved
    <3> QED BY <3>1, <3>2, <3>3, Zenon DEF LifeInv, Stage
  <2> QED BY <2>1, <2>4, <2>5, Zenon DEF LifeInv
<1>4. CASE TasksDone
  <2>1. Stage' BY <1>4, StageKept, Zenon DEF TasksDone, LifeInv
  <2>2. Loop' BY <1>4 DEF TasksDone, Loop
  <2> QED BY <1>4, <2>1, <2>2, Zenon DEF TasksDone, LifeInv
<1>5. CASE RunWild
  <2>1. /\ Names(work') \subseteq Names(work) /\ work # <<>> /\ ~Alive
        /\ UNCHANGED <<connVars, conn_map_, pending, base, pc, batchRef, wcall>>
    BY <1>0, <1>5, NamesHeadTail, Zenon DEF RunWild, Types
  <2>2. Closed BY <2>1, Zenon DEF LifeInv, Stage, Kept, Alive
  <2>3. p.channels_["sockfd"] = "none" BY <2>1, <2>2, RemovalAlive, Zenon DEF Closed, LifeInv
  <2>4. Stage' BY <2>1, <2>2, <2>3, Zenon DEF Stage, Closed
  <2>5. Loop' BY <2>1, Zenon DEF LifeInv, Loop
  <2> QED BY <2>1, <2>4, <2>5, Zenon DEF LifeInv
<1> QED BY <1>1, <1>2, <1>3, <1>4, <1>5

\* What LifeInv says of a connection for which a callback or functor f runs
\* that can only be there once the connection is up.
LEMMA LifeRun ==
    ASSUME OutputInv, LifeInv, NEW f, Run(f, <<>>), f \notin {"established", "destroyed", "remove"}
    PROVE  /\ Names(work') \cap {"destroyed", "remove"} = Names(work) \cap {"destroyed", "remove"}
           /\ \/ /\ told = <<"up">> /\ state_ \in {"kConnected", "kDisconnecting"}
                 /\ conn_map_ = "conn" /\ Added(p) /\ "R" \in p.events[ch]
              \/ Closed /\ state_ = "kDisconnected" /\ ~is_writing(p, ch)
<1>0. Types BY DEF OutputInv
<1>1. f \in Names(work) /\ Names(work) = Names(work') \cup {f} BY <1>0, RunWork
<1>2. (told = <<"up">> /\ Open) \/ (Down /\ state_ # "kConnecting") BY <1>1, NotFresh
<1>3. told # <<>> BY <1>2 DEF Down
<1>4. Closed => told # <<"up">> /\ state_ = "kDisconnected" /\ ~is_writing(p, ch)
  <2>1. Closed => (Len(told) = 1 /\ told[1] = "down") \/ Len(told) = 2 BY DEF Closed
  <2>2. told = <<"up">> => Len(told) = 1 /\ told[1] = "up" OBVIOUS
  <2>3. Closed => told # <<"up">> BY <2>1, <2>2
  <2> QED BY <2>3 DEF Closed, is_writing, write_event_
<1>5. ASSUME told = <<"up">>, Down PROVE FALSE BY <1>5 DEF Down
<1> QED BY <1>1, <1>2, <1>3, <1>4, <1>5 DEF LifeInv, Stage, Kept, Open

LEMMA LifeCallbacks ==
    ASSUME OutputInv, LifeInv, stop = "no",
           _handle_read \/ HangUp \/ _force_close_in_loop \/ WriteCompleteCallback
    PROVE  LifeInv'
<1> USE DEF ctlVars, workVars
<1>0. /\ Types /\ Stream /\ wr_shut \in BOOLEAN /\ Typed(p) /\ pending \in Seq(Functor)
      /\ Loop /\ Stage /\ conn_map_ \in {"conn", "absent"}
  BY DEF OutputInv, Types, LifeInv
<1>1. PICK f \in {"read", "close", "error", "forceClose", "writeComplete"} : Run(f, <<>>)
  BY Zenon DEF _handle_read, HangUp, _force_close_in_loop, WriteCompleteCallback
<1>2. /\ Names(work') \cap {"destroyed", "remove"} = Names(work) \cap {"destroyed", "remove"}
      /\ \/ /\ told = <<"up">> /\ state_ \in {"kConnected", "kDisconnecting"}
            /\ conn_map_ = "conn" /\ Added(p) /\ "R" \in p.events[ch]
         \/ Closed /\ state_ = "kDisconnected"
  BY <1>1, LifeRun
<1>3. wcall' \in {"none", "send"} BY <1>1 DEF Run, LifeInv
<1>4. ASSUME UNCHANGED <<state_, p, told, conn_map_, pending, base>> PROVE LifeInv'
  <2>1. Stage' BY <1>0, <1>2, <1>4, StageKept
  <2>2. Loop' BY <1>0, <1>1, <1>4, LoopRun
  <2> QED BY <1>0, <1>3, <1>4, <2>1, <2>2, Zenon DEF LifeInv
<1>5. ASSUME _handle_close(state_, p) PROVE LifeInv'
  <2>1. CASE state_ = "kDisconnected"
    BY <1>0, <1>4, <1>5, <2>1, CloseEffect
  <2>2. CASE state_ # "kDisconnected"
    <3>1. told \in {<<>>, <<"up">>} /\ conn_map_ = "conn" /\ Added(p) BY <1>2, <2>2
    <3>2. /\ Stage' /\ conn_map_' \in {"conn", "absent"}
          /\ (conn_map_' = "conn" /\ base' > 0) \/ "destroyed" \in Names(pending')
      BY <1>0, <1>5, <2>2, <3>1, StageClose
    <3>3. Loop' BY <1>0, <1>1, <3>2, LoopRun
    <3> QED BY <1>3, <3>2, <3>3 DEF LifeInv
  <2> QED BY <2>1, <2>2, Zenon
<1>6. ASSUME React(state_, p, pending), UNCHANGED <<told, conn_map_, base>> PROVE LifeInv'
  <2>1. /\ Effect(p, pending, {"writeComplete", "forceClose"})
        /\ state_ \notin {"kConnected", "kDisconnecting"} => state_' = state_ /\ p' = p
    BY <1>0, <1>6, ReactEffect, Zenon
  <2>2. /\ "destroyed" \in Names(pending') <=> "destroyed" \in Names(pending)
        /\ Added(p) => Added(p')
        /\ "R" \in p.events[ch] => "R" \in p'.events[ch]
    BY <2>1 DEF Effect
  <2>3. Stage' BY <1>0, <1>2, <1>6, <2>1, <2>2, StageKept, Zenon
  <2>4. Loop' BY <1>0, <1>1, <1>6, <2>2, LoopRun, Zenon
  <2> QED BY <1>0, <1>3, <1>6, <2>3, <2>4, Zenon DEF LifeInv
<1> QED BY <1>4, <1>5, <1>6 DEF _handle_read, HangUp, _force_close_in_loop, WriteCompleteCallback

LEMMA LifeFunctors ==
    ASSUME OutputInv, LifeInv, stop = "no", _handle_write \/ SendFunctor \/ ShutdownFunctor
    PROVE  LifeInv'
<1> USE DEF ctlVars, workVars
<1>0. /\ Types /\ Stream /\ wr_shut \in BOOLEAN /\ Typed(p) /\ pending \in Seq(Functor)
      /\ Loop /\ Stage /\ conn_map_ \in {"conn", "absent"}
  BY Zenon DEF OutputInv, Types, LifeInv
<1>1. PICK f \in {"write", "send", "shutdown"} : Run(f, <<>>)
  BY Zenon DEF _handle_write, SendFunctor, ShutdownFunctor
<1>2. /\ Names(work') \cap {"destroyed", "remove"} = Names(work) \cap {"destroyed", "remove"}
      /\ \/ /\ told = <<"up">> /\ state_ \in {"kConnected", "kDisconnecting"}
            /\ conn_map_ = "conn" /\ Added(p) /\ "R" \in p.events[ch]
         \/ Closed /\ state_ = "kDisconnected" /\ ~is_writing(p, ch)
  BY <1>1, LifeRun
<1>3. wcall' \in {"none", "send"} BY <1>1, Zenon DEF Run, LifeInv
<1>4. ASSUME UNCHANGED <<state_, told, conn_map_, base>>,
             "destroyed" \in Names(pending') <=> "destroyed" \in Names(pending),
             \/ UNCHANGED p
             \/ told = <<"up">> /\ Added(p') /\ "R" \in p'.events[ch]
      PROVE  LifeInv'
  <2>1. Stage' BY <1>0, <1>2, <1>4, StageKept, Zenon
  <2>2. Loop' BY <1>0, <1>1, <1>4, LoopRun, Zenon
  <2> QED BY <1>0, <1>3, <1>4, <2>1, <2>2, Zenon DEF LifeInv
<1>5. CASE _handle_write
  <2>1. ASSUME UNCHANGED <<connVars, conn_map_, pending, base>> PROVE LifeInv'
    BY <1>4, <2>1 DEF connVars
  <2>2. ASSUME is_writing(p, ch), _handle_close(state_, p) PROVE LifeInv'
    <3>1. /\ told \in {<<>>, <<"up">>} /\ conn_map_ = "conn" /\ Added(p)
          /\ state_ # "kDisconnected"
      BY <1>2, <2>2
    <3>2. /\ Stage' /\ conn_map_' \in {"conn", "absent"}
          /\ (conn_map_' = "conn" /\ base' > 0) \/ "destroyed" \in Names(pending')
      BY <1>0, <2>2, <3>1, StageClose
    <3>3. Loop' BY <1>0, <1>1, <3>2, LoopRun
    <3> QED BY <1>3, <3>2, <3>3, Zenon DEF LifeInv
  <2>3. ASSUME is_writing(p, ch), UNCHANGED <<state_, told, conn_map_, base>>,
               WriteDone \/ UNCHANGED <<p, pending>>
        PROVE  LifeInv'
    <3>1. CASE UNCHANGED <<p, pending>> BY <1>4, <2>3, <3>1, Zenon
    <3>2. CASE WriteDone
      <4>1. p' = StopWriting(p) /\ pending' = pending \o WriteComplete BY <3>2, Zenon DEF WriteDone
      <4>2. told = <<"up">> /\ Added(p) /\ "R" \in p.events[ch] BY <1>2, <2>3, Zenon
      <4>3. Added(p') /\ "R" \in p'.events[ch] BY <1>0, <4>1, <4>2, StopWritingFields
      <4>4. "destroyed" \in Names(pending') <=> "destroyed" \in Names(pending)
        BY <1>0, <4>1, WriteCompletePending
      <4> QED BY <1>4, <2>3, <4>2, <4>3, <4>4
    <3> QED BY <2>3, <3>1, <3>2, Zenon
  <2> QED BY <1>5, <2>1, <2>2, <2>3, Zenon DEF _handle_write
<1>6. CASE SendFunctor
  <2>1. Head(work).n \in Nat
    <3>1. Head(work) \in Functor \cup Callback
      BY <1>0, <1>1, NamesHeadTail, Zenon DEF Run, Types
    <3>2. MsgLen \cup {0} \subseteq Nat BY ConnAssumption
    <3> QED BY <3>1, <3>2 DEF Functor, Callback
  <2>2. /\ _send_in_loop(state_, p, pending, Head(work).n)
        /\ UNCHANGED <<state_, wr_shut, told, conn_map_, base>>
    BY <1>6, Zenon DEF SendFunctor
  <2>3. Effect(p, pending, {"writeComplete"}) /\ (state_ = "kDisconnected" => p' = p)
    BY <1>0, <2>1, <2>2, SendEffect, Zenon
  <2>4. /\ "destroyed" \in Names(pending') <=> "destroyed" \in Names(pending)
        /\ Added(p) => Added(p')
        /\ "R" \in p.events[ch] => "R" \in p'.events[ch]
    BY <2>3, Zenon DEF Effect
  <2> QED BY <1>2, <1>4, <2>2, <2>3, <2>4, Zenon
<1>7. CASE ShutdownFunctor BY <1>4, <1>7 DEF ShutdownFunctor
<1> QED BY <1>5, <1>6, <1>7

LEMMA LifeEstablished ==
    ASSUME OutputInv, LifeInv, stop = "no", conn_established PROVE LifeInv'
<1> USE DEF ctlVars, workVars
<1>0. /\ Types /\ Stream /\ wr_shut \in BOOLEAN /\ Typed(p) /\ pending \in Seq(Functor)
      /\ Loop /\ Stage /\ conn_map_ \in {"conn", "absent"}
  BY DEF OutputInv, Types, LifeInv
<1>1. Run("established", <<>>) BY Zenon DEF conn_established
<1>2. Names(work') \cap {"destroyed", "remove"} = Names(work) \cap {"destroyed", "remove"}
  <2>1. Names(work) = Names(work') \cup {"established"} BY <1>0, <1>1, RunWork
  <2> QED BY <2>1
<1>3. wcall' \in {"none", "send"} BY <1>1 DEF Run, LifeInv
<1>4. PICK ok \in BOOLEAN :
          LET q == SetEvents(p, ch, p.events[ch] \cup read_event_)
              r == enable_reading(p, ch, ok)
          IN  \/ /\ state_ # "kConnecting"
                 /\ UNCHANGED <<connVars, conn_map_, pending, base>>
              \/ /\ state_ = "kConnecting" /\ ~UpdateReturns(q, ch, ok)
                 /\ _handle_close("kConnected", r)
                 /\ UNCHANGED <<out, wire, sent, wr_shut>>
              \/ /\ state_ = "kConnecting" /\ UpdateReturns(q, ch, ok)
                 /\ told' = Append(told, "up")
                 /\ React("kConnected", r, pending)
                 /\ UNCHANGED <<conn_map_, base>>
  BY Zenon DEF conn_established
<1> DEFINE r == enable_reading(p, ch, ok)
<1>5. /\ Typed(r) /\ "R" \in r.events[ch]
      /\ p.index[ch] = new_ /\ p.channels_["sockfd"] = "none" => Added(r)
  BY <1>0, EnableReadingFields, Zenon
<1> HIDE DEF r
<1>6. ASSUME UNCHANGED <<connVars, conn_map_, pending, base>> PROVE LifeInv'
  <2>1. Stage' BY <1>0, <1>2, <1>6, StageKept DEF connVars
  <2>2. Loop' BY <1>0, <1>1, <1>6, LoopRun, Zenon
  <2> QED BY <1>0, <1>3, <1>6, <2>1, <2>2, Zenon DEF LifeInv
<1>7. state_ = "kConnecting" => told = <<>> /\ Kept /\ Added(r)
  <2>1. state_ = "kConnecting" => told = <<>> /\ Fresh BY DEF OutputInv, Phases, Open
  <2>2. state_ = "kConnecting" => ~Closed BY DEF Closed
  <2>3. told = <<>> => told # <<"up">> OBVIOUS
  <2> QED BY <1>0, <1>5, <2>1, <2>2, <2>3 DEF Stage, Fresh
<1>8. ASSUME state_ = "kConnecting", _handle_close("kConnected", r) PROVE LifeInv'
  <2>1. /\ Stage' /\ conn_map_' \in {"conn", "absent"}
        /\ (conn_map_' = "conn" /\ base' > 0) \/ "destroyed" \in Names(pending')
    BY <1>0, <1>5, <1>7, <1>8, StageClose, Zenon DEF Kept
  <2>2. Loop' BY <1>0, <1>1, <2>1, LoopRun
  <2> QED BY <1>3, <2>1, <2>2, Zenon DEF LifeInv
<1>9. ASSUME state_ = "kConnecting", told' = Append(told, "up"), React("kConnected", r, pending),
             UNCHANGED <<conn_map_, base>>
      PROVE  LifeInv'
  <2>1. told' = <<"up">> BY <1>7, <1>9
  <2>2. Effect(r, pending, {"writeComplete", "forceClose"}) BY <1>0, <1>5, <1>9, ReactEffect, Zenon
  <2>3. /\ "destroyed" \in Names(pending') <=> "destroyed" \in Names(pending)
        /\ Added(p') /\ "R" \in p'.events[ch]
    BY <1>5, <1>7, <1>9, <2>2, Zenon DEF Effect
  <2>4. Stage' BY <1>2, <1>7, <1>9, <2>1, <2>3, Zenon DEF Stage, Kept
  <2>5. Loop' BY <1>0, <1>1, <1>9, <2>3, LoopRun
  <2> QED BY <1>0, <1>3, <1>9, <2>4, <2>5 DEF LifeInv
<1> QED BY <1>4, <1>6, <1>8, <1>9, Zenon DEF r

LEMMA LifeDestroyed ==
    ASSUME OutputInv, LifeInv, stop = "no", conn_destroyed \/ CloseAndRemove \/ Remove
    PROVE  LifeInv'
<1> USE DEF ctlVars, workVars
<1>0. /\ Types /\ Typed(p) /\ work \in Seq(Functor \cup Callback) /\ Loop /\ Stage
      /\ conn_map_ \in {"conn", "absent"} /\ wcall \in {"none", "send"}
  BY DEF OutputInv, Types, LifeInv
<1>1. CASE conn_destroyed
  <2> DEFINE x == Item(IF state_ = "kConnected" THEN "closeAndRemove" ELSE "remove", 0)
  <2>1. /\ work # <<>> /\ Head(work).f = "destroyed" /\ work' = <<x>> \o Tail(work)
        /\ UNCHANGED <<connVars, conn_map_, pending, base, pc, batchRef, wcall>>
    BY <1>1 DEF conn_destroyed, Run
  <2>2. /\ Tail(work) \in Seq(Functor \cup Callback) /\ "destroyed" \in Names(work)
        /\ Names(Tail(work)) \subseteq Names(work)
    BY <1>0, <2>1, NamesHeadTail, Zenon
  <2>3. Closed BY <1>0, <2>2, Zenon DEF Stage, Kept
  <2>4. x \in Functor \cup Callback /\ x.f = "remove"
    BY <2>3 DEF Closed, Item, Callback
  <2> HIDE DEF x
  <2>5. Names(work') = {"remove"} \cup Names(Tail(work))
    <3> DEFINE S == Functor \cup Callback
               t == Tail(work)
    <3>1. x \in S /\ t \in Seq(S) BY <2>2, <2>4
    <3> HIDE DEF S, t
    <3>2. <<x>> \o t \in Seq(S) /\ Names(<<x>> \o t) = {x.f} \cup Names(t) BY <3>1, NamesPush
    <3> QED BY <2>1, <2>4, <3>2 DEF t
  <2>6. pc = "tasks" /\ batchRef
    <3>1. pc = "tasks" BY <1>0, <2>1, <2>2, Zenon DEF Loop
    <3> QED BY <1>0, <2>2, <3>1 DEF Loop, Held
  <2>7. Stage' BY <2>1, <2>3, <2>5, Zenon DEF Stage, Closed, ToBeRemoved, connVars
  <2>8. Loop' BY <1>0, <2>1, <2>2, <2>5, <2>6 DEF Loop
  <2> QED BY <1>0, <2>1, <2>7, <2>8 DEF LifeInv
<1>2. CASE CloseAndRemove
  <2>1. "closeAndRemove" \in Names(work) /\ work # <<>>
    BY <1>0, <1>2, RunWork DEF CloseAndRemove, Run
  <2> QED BY <1>0, <2>1, Zenon DEF Loop, Functors
<1>3. CASE Remove
  <2>1. /\ Run("remove", <<>>) /\ "remove" \in Names(work) /\ p' = TakeOut(p)
        /\ UNCHANGED <<state_, told, conn_map_, pending, base, wcall>>
    BY <1>0, <1>3, RunWork DEF Remove, Run
  <2>2. Closed BY <1>0, <2>1, Zenon DEF Stage, Kept
  <2>3. /\ p'.events = p.events /\ p'.epoll["sockfd"] = "none"
        /\ p'.channels_["sockfd"] = "none"
    BY <1>0, <2>1, <2>2, TakeOutFields, Zenon DEF Closed
  <2>4. Stage' BY <2>1, <2>2, <2>3, Zenon DEF Stage, Closed
  <2>5. Loop' BY <1>0, <2>1, LoopRun
  <2> QED BY <1>0, <2>1, <2>4, <2>5, Zenon DEF LifeInv
<1> QED BY <1>1, <1>2, <1>3

LEMMA LifeOthers ==
    ASSUME WorkerOps \subseteq {"send"}, OutputInv, LifeInv, stop = "no",
           \/ RemoveConnInLoop \/ Peer \/ UNCHANGED vars
           \/ (\E op \in Calls : WorkerCall(op)) \/ WorkerSet \/ WorkerReturn
    PROVE  LifeInv'
<1> USE DEF ctlVars, workVars, envVars, connVars
<1>0. /\ Types /\ pending \in Seq(Functor) /\ Loop /\ Stage
      /\ conn_map_ \in {"conn", "absent"} /\ wcall \in {"none", "send"}
  BY DEF OutputInv, Types, LifeInv
<1>1. CASE RemoveConnInLoop
  <2>1. /\ base > 0 /\ remove_conn_in_loop
        /\ UNCHANGED <<connVars, work, pc, batchRef, wcall>>
    BY <1>0, <1>1 DEF RemoveConnInLoop, Loop
  <2>2. Closed
    <3>1. base = 0 => ~(base > 0) OBVIOUS
    <3> QED BY <1>0, <2>1, <3>1, Zenon DEF Stage, Kept
  <2>3. /\ conn_map_' = "absent"
        /\ conn_map_ = "conn" => "destroyed" \in Names(pending')
        /\ "destroyed" \in Names(pending) => "destroyed" \in Names(pending')
    <3>1. Item("destroyed", 0) \in Functor /\ Item("destroyed", 0).f = "destroyed"
      BY DEF Item, Functor
    <3>2. Names(Append(pending, Item("destroyed", 0))) = Names(pending) \cup {"destroyed"}
      BY <1>0, <3>1, NamesAppend
    <3> QED BY <2>1, <3>2 DEF remove_conn_in_loop
  <2>4. Stage' BY <2>1, <2>2, <2>3, Zenon DEF Stage, Closed, ToBeRemoved
  <2>5. Loop' BY <1>0, <2>1, <2>3 DEF Loop
  <2> QED BY <1>0, <2>1, <2>3, <2>4, <2>5, Zenon DEF LifeInv
<1>2. CASE Peer \/ UNCHANGED vars
  <2>1. UNCHANGED <<state_, p, told, conn_map_, pending, base, work, pc, batchRef, wcall>>
    BY <1>2 DEF Peer, vars
  <2>2. Stage' BY <1>0, <2>1, StageKept, Zenon
  <2>3. Loop' BY <1>0, <2>1 DEF Loop
  <2> QED BY <1>0, <2>1, <2>2, <2>3, Zenon DEF LifeInv
<1>3. ASSUME NEW op \in Calls, WorkerCall(op) PROVE LifeInv'
  <2>1. /\ wcall' = "send"
        /\ UNCHANGED <<state_, p, told, conn_map_, pending, base, work, pc, batchRef>>
    BY <1>3 DEF WorkerCall
  <2>2. Stage' BY <1>0, <2>1, StageKept, Zenon
  <2>3. Loop' BY <1>0, <2>1, Zenon DEF Loop
  <2> QED BY <1>0, <2>1, <2>2, <2>3, Zenon DEF LifeInv
<1>4. CASE WorkerSet BY <1>0, <1>4 DEF WorkerSet
<1>5. CASE WorkerReturn
  <2>1. PICK n \in MsgLen : WorkerPush(Item("send", n)) BY <1>0, <1>5 DEF WorkerReturn
  <2>2. Item("send", n) \in Functor /\ Item("send", n).f = "send" BY DEF Item, Functor
  <2>3. /\ wcall' = "none" /\ pending' = Append(pending, Item("send", n))
        /\ UNCHANGED <<state_, p, told, conn_map_, base, work, pc, batchRef>>
    BY <1>0, <2>1 DEF WorkerPush, Loop
  <2>4. Names(pending') = Names(pending) \cup {"send"} BY <1>0, <2>2, <2>3, NamesAppend
  <2>5. Stage' BY <1>0, <2>3, <2>4, StageKept, Zenon
  <2>6. Loop' BY <1>0, <2>3, <2>4 DEF Loop
  <2> QED BY <1>0, <2>3, <2>5, <2>6, Zenon DEF LifeInv
<1> QED BY <1>1, <1>2, <1>3, <1>4, <1>5

LEMMA LifeInductive == ASSUME WorkerOps \subseteq {"send"} PROVE Spec => []ConnInv
<1>1. ASSUME OutputInv, ConnInv, [Next]_vars PROVE ConnInv'
  <2>1. stop' = "no" => stop = "no"
    <3>1. CASE Io
      BY <3>1, Zenon DEF Io, Poll, LoopExit, Swap, TasksDone, RunWild, conn_established, _handle_read,
         _handle_write, HangUp, SendFunctor, ShutdownFunctor, _force_close_in_loop,
         WriteCompleteCallback, conn_destroyed, CloseAndRemove, Remove, Run, ctlVars
    <3>2. CASE ~Io
      BY <1>1, <3>2, Zenon DEF Next, Base, RemoveConnInLoop, StopLoops, StopConns, WorkerCall, Worker,
         WorkerSet, WorkerReturn, WorkerPush, Peer, vars, ctlVars
    <3> QED BY <3>1, <3>2
  <2>2. CASE stop' = "no"
    <3>1. LifeInv /\ stop = "no" BY <1>1, <2>1, <2>2 DEF ConnInv
    <3>2. ~StopConns /\ ~StopLoops BY <2>2 DEF StopConns, StopLoops
    <3>3. LifeInv'
      BY <1>1, <3>1, <3>2, LifeLoop, LifeEstablished, LifeCallbacks, LifeFunctors, LifeDestroyed,
         LifeOthers DEF Next, Io, Base, Worker
    <3> QED BY <3>3 DEF ConnInv
  <2>3. CASE stop' # "no" BY <2>3 DEF ConnInv
  <2> QED BY <2>2, <2>3
<1>2. Init => ConnInv BY LifeInit DEF ConnInv
<1> QED BY <1>1, <1>2, OutputInductive, PTL DEF Spec

\* NoStaleEntry: until stop is called, conn_destroyed has taken the channel of
\* a destroyed connection out of the poller.
THEOREM NoStaleEntryCorrect == ASSUME WorkerOps \subseteq {"send"} PROVE Spec => []NoStaleEntry
<1>1. OutputInv /\ ConnInv => NoStaleEntry
  <2> SUFFICES ASSUME OutputInv, LifeInv, ~Alive PROVE p.channels_["sockfd"] = "none"
    BY DEF ConnInv, NoStaleEntry, released, OutputInv, Types
  <2>1. Closed BY DEF LifeInv, Stage, Kept, Alive
  <2> QED BY <2>1, RemovalAlive, Zenon DEF Closed, LifeInv
<1> QED BY <1>1, OutputInductive, LifeInductive, PTL

-----------------------------------------------------------------------------
(***************************************************************************)
(* A server that is never stopped.                                         *)
(***************************************************************************)
NotStopped == stop = "no"

Running == NotStopped /\ OutputInv /\ LifeInv

LEMMA RunningInductive ==
    ASSUME WorkerOps \subseteq {"send"}, ~MayStop PROVE Spec => []Running
<1>1. ASSUME NotStopped, [Next]_vars PROVE NotStopped'
  <2>1. CASE Io
    BY <1>1, <2>1, Zenon DEF NotStopped, Io, Poll, LoopExit, Swap, TasksDone, RunWild, conn_established, _handle_read,
       _handle_write, HangUp, SendFunctor, ShutdownFunctor, _force_close_in_loop,
       WriteCompleteCallback, conn_destroyed, CloseAndRemove, Remove, Run, ctlVars
  <2>2. CASE ~Io
    BY <1>1, <2>2, Zenon DEF NotStopped, Next, Base, RemoveConnInLoop, StopLoops, StopConns, WorkerCall,
       Worker, WorkerSet, WorkerReturn, WorkerPush, Peer, vars, ctlVars
  <2> QED BY <2>1, <2>2
<1>2. Init => NotStopped BY DEF Init, NotStopped
<1>3. NotStopped /\ OutputInv /\ ConnInv => Running BY DEF Running, ConnInv, NotStopped
<1> QED BY <1>1, <1>2, <1>3, OutputInductive, LifeInductive, PTL DEF Spec

\* Nothing runs on a destroyed connection but what send and shutdown queued.
LEMMA WildStep ==
    ASSUME Running, NoWildRun, [Next]_vars PROVE NoWildRun'
<1> USE DEF ctlVars, workVars, NoWildRun
<1>0. /\ Types /\ Loop /\ Stage /\ work \in Seq(Functor \cup Callback) /\ pc # "exited"
  BY DEF Running, OutputInv, Types, LifeInv, Loop
<1>1. CASE RunWild
  <2>1. work # <<>> /\ ~Alive /\ wild' = wild \cup {Head(work).f} BY <1>1, Zenon DEF RunWild
  <2>2. Head(work).f \in Names(work) BY <1>0, <2>1, NamesHeadTail, Zenon
  <2>3. pc = "tasks"
    <3>1. "destroyed" \in Names(pending) => Alive BY HoldsRefNames DEF Alive
    <3> QED BY <1>0, <2>1, <3>1 DEF Loop, Alive
  <2>4. Head(work).f \in {"send", "shutdown"}
    BY <1>0, <2>1, <2>2, <2>3 DEF Loop, Alive, Held, Functors
  <2> QED BY <2>1, <2>4, Zenon
<1>2. CASE Io /\ ~RunWild
  BY <1>2, Zenon DEF Io, Poll, LoopExit, Swap, TasksDone, conn_established, _handle_read,
     _handle_write, HangUp, SendFunctor, ShutdownFunctor, _force_close_in_loop,
     WriteCompleteCallback, conn_destroyed, CloseAndRemove, Remove, Run
<1>3. CASE ~Io
  BY <1>0, <1>3, Zenon DEF Next, Base, RemoveConnInLoop, StopLoops, StopConns, WorkerCall, Worker,
     WorkerSet, WorkerReturn, WorkerPush, Peer, vars
<1> QED BY <1>1, <1>2, <1>3, Zenon

\* NoWildRun: the shared_ptr that _handle_close, remove_conn_in_loop and
\* conn_destroyed hand on outlives every callback and every other functor.
THEOREM NoWildRunCorrect ==
    ASSUME WorkerOps \subseteq {"send"}, ~MayStop PROVE Spec => []NoWildRun
<1>1. Init => NoWildRun BY Zenon DEF Init, NoWildRun
<1> QED BY <1>1, WildStep, RunningInductive, PTL DEF Spec

-----------------------------------------------------------------------------
(***************************************************************************)
(* The connection implements ConnLifecycle.                                *)
(***************************************************************************)
\* What a step adds to what the user was told.
LEMMA ToldStep ==
    ASSUME Running, Running', [Next]_vars
    PROVE  \/ told' = told
           \/ Alive /\ told = <<>> /\ told' = <<"up">>
           \/ Alive /\ Alive' /\ told \in {<<>>, <<"up">>} /\ told' = Append(told, "down")
<1> USE DEF ctlVars, workVars, connVars
<1>0. /\ Types /\ Typed(p) /\ Loop /\ Stage /\ Loop' /\ LifeInv /\ OutputInv
  BY DEF Running, OutputInv, Types, LifeInv
<1>1. ASSUME NEW s, NEW q, Typed(q), _handle_close(s, q), Alive, told \in {<<>>, <<"up">>} \/ s = "kDisconnected",
             conn_map_ = "conn" \/ s = "kDisconnected"
      PROVE  \/ told' = told
             \/ Alive /\ Alive' /\ told \in {<<>>, <<"up">>} /\ told' = Append(told, "down")
  <2>1. CASE s = "kDisconnected" BY <1>0, <1>1, <2>1, CloseEffect
  <2>2. CASE s # "kDisconnected"
    <3>1. told' = Append(told, "down") /\ remove_conn BY <1>0, <1>1, <2>2, CloseEffect
    <3>2. Alive'
      <4>1. Item("destroyed", 0) \in Functor /\ Item("destroyed", 0).f = "destroyed"
        BY DEF Item, Functor
      <4>2. "destroyed" \in Names(Append(pending, Item("destroyed", 0)))
        BY <1>0, <4>1, NamesAppend DEF Types
      <4>3. CASE BaseIsIo
        <5>1. "destroyed" \in Names(pending')
          BY <1>1, <2>2, <3>1, <4>2, <4>3, Zenon DEF remove_conn, remove_conn_in_loop
        <5> QED BY <5>1, HoldsRefNames DEF Alive
      <4>4. CASE ~BaseIsIo BY <1>1, <2>2, <3>1, <4>4 DEF remove_conn, Alive
      <4> QED BY <4>3, <4>4
    <3> QED BY <1>1, <2>2, <3>1, <3>2, Zenon
  <2> QED BY <2>1, <2>2, Zenon
<1>2. CASE conn_established
  <2>1. PICK ok \in BOOLEAN :
            LET r == enable_reading(p, ch, ok)
            IN  \/ UNCHANGED told
                \/ state_ = "kConnecting" /\ _handle_close("kConnected", r)
                \/ state_ = "kConnecting" /\ told' = Append(told, "up")
    BY <1>2, Zenon DEF conn_established
  <2> DEFINE r == enable_reading(p, ch, ok)
  <2>2. Typed(r) BY <1>0, EnableReadingFields, Zenon
  <2> HIDE DEF r
  <2>3. state_ = "kConnecting" => told = <<>> /\ conn_map_ = "conn"
    <3>1. state_ = "kConnecting" => told = <<>> BY <1>0, Zenon DEF OutputInv, Phases, Open
    <3>2. state_ = "kConnecting" => ~Closed BY DEF Closed
    <3> QED BY <1>0, <3>1, <3>2 DEF Stage, Kept
  <2>4. Alive BY <1>2, Zenon DEF conn_established, Run
  <2>5. ASSUME state_ = "kConnecting", told' = Append(told, "up") PROVE told = <<>> /\ told' = <<"up">>
    BY <2>3, <2>5
  <2>6. ASSUME state_ = "kConnecting", _handle_close("kConnected", r)
        PROVE  \/ told' = told
               \/ Alive /\ Alive' /\ told \in {<<>>, <<"up">>} /\ told' = Append(told, "down")
    BY <1>1, <2>2, <2>3, <2>4, <2>6
  <2> QED BY <2>1, <2>4, <2>5, <2>6 DEF r
<1>3. CASE _handle_read \/ _handle_write \/ HangUp \/ _force_close_in_loop \/ WriteCompleteCallback
           \/ SendFunctor \/ ShutdownFunctor
  <2>1. PICK f \in {"read", "write", "close", "error", "forceClose", "writeComplete", "send", "shutdown"} :
            Run(f, <<>>)
    BY <1>3, Zenon DEF _handle_read, _handle_write, HangUp, _force_close_in_loop, WriteCompleteCallback,
                SendFunctor, ShutdownFunctor
  <2>2. \/ told = <<"up">> /\ conn_map_ = "conn"
        \/ state_ = "kDisconnected"
    BY <1>0, <2>1, LifeRun, Zenon
  <2>3. told' = told \/ _handle_close(state_, p)
    BY <1>3, Zenon DEF _handle_read, _handle_write, HangUp, _force_close_in_loop, WriteCompleteCallback,
                SendFunctor, ShutdownFunctor
  <2>4. Alive BY <2>1, Zenon DEF Run
  <2> QED BY <1>0, <1>1, <2>2, <2>3, <2>4
<1>4. CASE CloseAndRemove
  <2>1. "closeAndRemove" \in Names(work) /\ work # <<>>
    BY <1>0, <1>4, RunWork DEF CloseAndRemove, Run
  <2> QED BY <1>0, <2>1, Zenon DEF Loop, Functors
<1>5. CASE (\E w \in BOOLEAN : Poll(w)) \/ LoopExit \/ Swap \/ TasksDone \/ RunWild \/ conn_destroyed \/ Remove
  BY <1>5, Zenon DEF Poll, LoopExit, Swap, TasksDone, RunWild, conn_destroyed, Remove
<1>6. CASE ~Io
  BY <1>6, Zenon DEF Next, Base, RemoveConnInLoop, StopLoops, StopConns, WorkerCall, Worker,
     WorkerSet, WorkerReturn, WorkerPush, Peer, vars
<1> QED BY <1>2, <1>3, <1>4, <1>5, <1>6 DEF Io

\* A destroyed connection stays destroyed.
LEMMA ReleasedStep ==
    ASSUME Running, ~Alive, [Next]_vars PROVE ~Alive'
<1> USE DEF ctlVars, workVars, connVars, envVars
<1>0. /\ Types /\ base \in Nat /\ ~(base > 0) /\ wcall = "none" /\ ~HoldsRef(pending) /\ ~batchRef
      /\ conn_map_ # "conn"
  BY DEF Running, OutputInv, Types, Alive
<1>1. CASE (\E w \in BOOLEAN : Poll(w)) \/ TasksDone \/ RunWild \/ UNCHANGED vars
  BY <1>0, <1>1, Zenon DEF Poll, TasksDone, RunWild, vars, Alive
<1>2. CASE LoopExit BY <1>2 DEF LoopExit, Running, NotStopped
<1>3. CASE Swap
  <2>1. ~HoldsRef(pending') BY <1>3 DEF Swap, HoldsRef
  <2> QED BY <1>0, <1>3, <2>1, Zenon DEF Swap, Alive
<1>4. CASE StopConns \/ StopLoops
  BY <1>0, <1>4 DEF StopConns, StopLoops, Alive
<1>5. CASE \E f, rest : Run(f, rest) BY <1>5 DEF Run
<1>6. CASE RemoveConnInLoop \/ Peer \/ (\E op \in Calls : WorkerCall(op)) \/ Worker
  BY <1>0, <1>6, Zenon DEF RemoveConnInLoop, Peer, WorkerCall, Worker, WorkerSet, WorkerReturn
<1> QED BY <1>1, <1>2, <1>3, <1>4, <1>5, <1>6, Zenon DEF Next, Io, Base, conn_established, _handle_read,
     _handle_write, HangUp, SendFunctor, ShutdownFunctor, _force_close_in_loop,
     WriteCompleteCallback, conn_destroyed, CloseAndRemove, Remove

\* LifecycleSpec: conn_established, _handle_close and conn_destroyed together
\* tell the user up and down in order and once each, and release the
\* connection only after down.
THEOREM LifecycleCorrect ==
    ASSUME WorkerOps \subseteq {"send"}, ~MayStop PROVE Spec => LifecycleSpec
<1>1. Init => Lifecycle!Init
  BY DEF Init, Lifecycle!Init, released, Alive
<1>2. ASSUME Running, Running', [Next]_vars PROVE [Lifecycle!Next]_(Lifecycle!vars)
  <2>1. released' = released \/ (released = FALSE /\ released' = TRUE)
    BY <1>2, ReleasedStep DEF released
  <2>2. CASE told' = told
    <3>1. CASE released' = released BY <2>2, <3>1 DEF Lifecycle!vars
    <3>2. CASE released = FALSE /\ released' = TRUE
      <4>1. told' \in {<<"down">>, <<"up", "down">>}
        BY <1>2, <3>2, Zenon DEF Running, LifeInv, Stage, Kept, Closed, released, Alive
      <4> QED BY <2>2, <3>2, <4>1 DEF Lifecycle!Next, Lifecycle!Release
    <3> QED BY <2>1, <3>1, <3>2, Zenon
  <2>3. CASE Alive /\ told = <<>> /\ told' = <<"up">>
    <3>1. conn_map_' = "conn"
      <4>1. told' # <<"down">> /\ told' # <<"up", "down">>
        <5>1. Len(told') = 1 /\ told'[1] = "up" BY <2>3
        <5> QED BY <5>1
      <4> QED BY <1>2, <4>1, Zenon DEF Running, LifeInv, Stage, Kept, Closed
    <3>2. released = FALSE /\ released' = FALSE BY <2>3, <3>1 DEF released, Alive
    <3> QED BY <2>3, <3>2, Zenon DEF Lifecycle!Next, Lifecycle!Up
  <2>4. CASE Alive /\ Alive' /\ told \in {<<>>, <<"up">>} /\ told' = Append(told, "down")
    <3>1. released = FALSE /\ released' = FALSE BY <2>4 DEF released
    <3> QED BY <2>4, <3>1, Zenon DEF Lifecycle!Next, Lifecycle!Down
  <2> QED BY <1>2, <2>2, <2>3, <2>4, ToldStep
<1> QED BY <1>1, <1>2, RunningInductive, PTL DEF Spec, LifecycleSpec, Lifecycle!Spec
=============================================================================
