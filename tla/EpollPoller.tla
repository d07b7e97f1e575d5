----------------------------- MODULE EpollPoller -----------------------------
(***************************************************************************)
(* One loop's EpollPoller and the Channel objects its owners (EventLoop,   *)
(* Acceptor, TcpConnection) create, use and destroy.  Addresses and file   *)
(* descriptors are both reused: after a channel is destroyed a new one may *)
(* get its address, its descriptor, or both.                               *)
(*                                                                         *)
(* The rule of the owners: a channel that was ever registered is removed   *)
(* before it is destroyed, and none is destroyed while the loop dispatches *)
(* events (TcpConnection::conn_destroyed calls remove() from a queued      *)
(* functor; the destructors of EventLoop and Acceptor call it too).        *)
(***************************************************************************)
EXTENDS Epoll, Naturals, FiniteSets, Sequences

CONSTANT init_event_list_size_   \* 16 in the code

ASSUME SizeAssumption == init_event_list_size_ \in Nat \ {0}

VARIABLES
    p,                \* the poller record of module Epoll
    live,             \* the channels that exist
    ready,            \* external: the descriptors with input to read
    events_size,      \* events_.size(), the room epoll_wait is given
    active_channels_  \* the channels the loop has still to dispatch

pollerVars == <<p, live, ready, events_size, active_channels_>>

PollerInit ==
    /\ p \in {Poller([c \in Channel |-> f], [c \in Channel |-> new_], [c \in Channel |-> {}],
                     [g \in Fd |-> None], [g \in Fd |-> None], [g \in Fd |-> {}]) : f \in Fd}
    /\ live = {}
    /\ ready = {}
    /\ events_size = init_event_list_size_
    /\ active_channels_ = <<>>

\* A descriptor the process has open: each is owned together with its channel.
Open == {p.fd[c] : c \in live}

Construct(c, f) ==
    /\ c \notin live
    /\ f \notin Open
    /\ p' = NewChannel(p, c, f)
    /\ live' = live \cup {c}
    /\ UNCHANGED <<ready, events_size, active_channels_>>

\* An owner changes what its channel waits for.
Update(c) ==
    /\ c \in live
    /\ \E ok \in BOOLEAN :
          \/ p' = enable_reading(p, c, ok)
          \/ p' = disable_reading(p, c, ok)
          \/ p' = enable_writing(p, c, ok)
          \/ p' = disable_writing(p, c, ok)
          \/ p' = disable_all(p, c, ok)
    /\ UNCHANGED <<live, ready, events_size, active_channels_>>

Remove(c) ==
    /\ c \in live
    /\ p' = remove(p, c)
    /\ UNCHANGED <<live, ready, events_size, active_channels_>>

\* The owner is destroyed: the Socket closes the descriptor.
Destroy(c) ==
    /\ c \in live
    /\ p.index[c] = new_
    /\ active_channels_ = <<>>
    /\ p' = CloseFd(p, p.fd[c])
    /\ live' = live \ {c}
    /\ ready' = ready \ {p.fd[c]}
    /\ UNCHANGED <<events_size, active_channels_>>

Arrive(f) ==
    /\ f \in Open
    /\ ready' = ready \cup {f}
    /\ UNCHANGED <<p, live, events_size, active_channels_>>

(***************************************************************************)
(* EpollPoller::poll.  The kernel puts as many ready registrations into    *)
(* events_ as fit, in an order of its own.                                 *)
(***************************************************************************)
ReadyFds == {f \in Fd : p.epoll[f] # None /\ "R" \in p.interest[f] /\ f \in ready}

\* The orders in which n of the ready descriptors can be reported.
Reports(n) == {s \in [1 .. n -> ReadyFds] : \A i, j \in 1 .. n : s[i] = s[j] => i = j}

\* The pointer reported for s[i] is the channel that channels_ has.
Known(s, i) == LET ptr == p.epoll[s[i]] IN p.channels_[p.fd[ptr]] = ptr

\* The loop leaves at the first pointer the map does not know.
_fill_active_channels(s) ==
    LET n == CHOOSE k \in 0 .. Len(s) :
                /\ \A i \in 1 .. k : Known(s, i)
                /\ k = Len(s) \/ ~Known(s, k + 1)
    IN  [i \in 1 .. n |-> p.epoll[s[i]]]

\* The variant in which a full list of events is not enlarged.
PollFixedSize(s) ==
    /\ active_channels_ = <<>>
    /\ s # <<>>
    /\ active_channels_' = _fill_active_channels(s)
    /\ UNCHANGED <<p, live, ready, events_size>>

poll(s) ==
    /\ active_channels_ = <<>>
    /\ s # <<>>
    /\ active_channels_' = _fill_active_channels(s)
    /\ events_size' = IF Len(s) = events_size THEN events_size * 2 ELSE events_size
    /\ UNCHANGED <<p, live, ready>>

PollSome ==
    \E n \in 1 .. events_size :
        /\ n = Cardinality(ReadyFds) \/ (n = events_size /\ n < Cardinality(ReadyFds))
        /\ \E s \in Reports(n) : poll(s)

\* The loop dispatches the next active channel, whose owner reads its input.
HandleEvent ==
    /\ active_channels_ # <<>>
    /\ ready' = ready \ {p.fd[Head(active_channels_)]}
    /\ active_channels_' = Tail(active_channels_)
    /\ UNCHANGED <<p, live, events_size>>

PollerNext ==
    \/ \E c \in Channel :
          \/ \E f \in Fd : Construct(c, f)
          \/ Update(c)
          \/ Remove(c)
          \/ Destroy(c)
    \/ \E f \in Fd : Arrive(f)
    \/ PollSome
    \/ HandleEvent

PollerSpec == PollerInit /\ [][PollerNext]_pollerVars

\* The loop thread keeps polling and dispatching.
PollerFairSpec == PollerSpec /\ WF_pollerVars(PollSome) /\ WF_pollerVars(HandleEvent)
-----------------------------------------------------------------------------
(***************************************************************************)
(* Properties.                                                             *)
(***************************************************************************)
PollerTypeOK ==
    /\ p.fd \in [Channel -> Fd]
    /\ p.index \in [Channel -> {new_, added_, deleted_}]
    /\ p.events \in [Channel -> SUBSET Event]
    /\ p.channels_ \in [Fd -> Channel \cup {None}]
    /\ p.epoll \in [Fd -> Channel \cup {None}]
    /\ p.interest \in [Fd -> SUBSET Event]
    /\ live \subseteq Channel
    /\ ready \subseteq Fd
    /\ events_size \in Nat \ {0}
    /\ active_channels_ \in Seq(Channel)

\* The kernel holds no pointer to a destroyed or removed channel: whatever it
\* returns from epoll_wait is a live channel in the map, waiting for exactly
\* the events it asked for.  The failures of epoll_ctl in update_channel and
\* remove_channel, and the reuse of descriptors and addresses, are the ways
\* it could go wrong.
RegistrationInv ==
    \A f \in Fd : p.epoll[f] # None =>
        /\ p.epoll[f] \in live
        /\ p.fd[p.epoll[f]] = f
        /\ p.channels_[f] = p.epoll[f]
        /\ p.interest[f] = p.events[p.epoll[f]]

\* A new channel can always be registered: update_channel never meets the
\* entry of an earlier channel with the same descriptor in channels_ ("must
\* not exist in channels_"), which would close the new connection at once.
FdReusable ==
    \A c \in live : p.index[c] = new_ => p.channels_[p.fd[c]] = None

\* Every event that epoll_wait returned reaches the loop: the early return
\* of _fill_active_channels, which would drop the events behind an unknown
\* pointer, is never taken.
AllReported ==
    [][\A n \in 1 .. events_size : \A s \in Reports(n) :
          poll(s) => Len(active_channels_') = Len(s)]_pollerVars

\* A channel with input is dispatched even when more descriptors are ready
\* than events_ has room for, because a full list is enlarged; unless its
\* owner stops waiting for input.
Served ==
    \A f \in Fd : f \in ReadyFds ~> f \notin ReadyFds
=============================================================================
