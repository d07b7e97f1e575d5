-------------------------------- MODULE Epoll --------------------------------
(***************************************************************************)
(* network/channel.cpp, network/epoll_poller.cpp: what a Channel and the   *)
(* EpollPoller of its loop do to each other, as operators on one record:   *)
(*                                                                         *)
(*   fd, events, index   of every Channel object (fd_, events_, index_)    *)
(*   channels_           the poller's map from descriptors to channels     *)
(*   epoll, interest     the kernel's registrations: the pointer and the   *)
(*                       event mask last given to epoll_ctl (external)     *)
(***************************************************************************)
CONSTANTS
    Channel,   \* the Channel objects (addresses)
    Fd,        \* the file descriptors
    None       \* the null pointer; also "this descriptor is not registered"

ASSUME NoneAssumption == None \notin Channel

new_     == "new"       \* -1 in the code
added_   == "added"     \*  1
deleted_ == "deleted"   \*  2

\* The event masks; none_event_ is the empty set.
read_event_  == {"R"}
write_event_ == {"W"}
Event        == read_event_ \cup write_event_

Poller(fd, index, events, channels_, epoll, interest) ==
    [fd |-> fd, index |-> index, events |-> events,
     channels_ |-> channels_, epoll |-> epoll, interest |-> interest]

is_event_none(p, c) == p.events[c] = {}

is_writing(p, c) == write_event_ \subseteq p.events[c]

has_channel(p, c) == p.channels_[p.fd[c]] = c

(***************************************************************************)
(* The kernel.  An ADD may fail for want of resources (ok is FALSE then)   *)
(* and fails on a registered descriptor; MOD and DEL need a registered one.*)
(***************************************************************************)
CtlOk(p, op, f, ok) ==
    \/ op = "ADD" /\ ok /\ p.epoll[f] = None
    \/ op \in {"MOD", "DEL"} /\ p.epoll[f] # None

_update(p, op, c, ok) ==
    LET f == p.fd[c]
    IN  IF ~CtlOk(p, op, f, ok) THEN p
        ELSE IF op = "DEL"
        THEN Poller(p.fd, p.index, p.events, p.channels_,
                    [p.epoll EXCEPT ![f] = None], [p.interest EXCEPT ![f] = {}])
        ELSE Poller(p.fd, p.index, p.events, p.channels_,
                    [p.epoll EXCEPT ![f] = c], [p.interest EXCEPT ![f] = p.events[c]])

\* close(fd): the kernel forgets the registration of the last descriptor.
CloseFd(p, f) ==
    Poller(p.fd, p.index, p.events, p.channels_,
           [p.epoll EXCEPT ![f] = None], [p.interest EXCEPT ![f] = {}])

(***************************************************************************)
(* EpollPoller::update_channel.  UpdateOp is the epoll_ctl operation it    *)
(* reaches, "none" on its early returns.  The index becomes added_ before  *)
(* the ADD and stays so when the ADD fails; it becomes deleted_ only after *)
(* a DEL that succeeded.                                                   *)
(***************************************************************************)
UpdateOp(p, c) ==
    LET f == p.fd[c]
    IN  IF p.index[c] = new_ THEN IF p.channels_[f] = None THEN "ADD" ELSE "none"
        ELSE IF p.channels_[f] # c THEN "none"
        ELSE IF p.index[c] = deleted_ THEN "ADD"
        ELSE IF is_event_none(p, c) THEN "DEL"
        ELSE "MOD"

SetIndex(p, c, i) ==
    Poller(p.fd, [p.index EXCEPT ![c] = i], p.events, p.channels_, p.epoll, p.interest)

SetEntry(p, f, c) ==
    Poller(p.fd, p.index, p.events, [p.channels_ EXCEPT ![f] = c], p.epoll, p.interest)

update_channel(p, c, ok) ==
    LET op == UpdateOp(p, c)
    IN  IF op = "ADD"
        THEN _update(SetIndex(SetEntry(p, p.fd[c], c), c, added_), op, c, ok)
        ELSE IF op = "DEL" /\ CtlOk(p, op, p.fd[c], ok)
        THEN SetIndex(_update(p, op, c, ok), c, deleted_)
        ELSE _update(p, op, c, ok)

\* What update_channel returns.
UpdateReturns(p, c, ok) ==
    UpdateOp(p, c) # "none" /\ CtlOk(p, UpdateOp(p, c), p.fd[c], ok)

\* The variant that leaves the kernel registration of an added channel behind.
RemoveNoDel(p, c) ==
    IF has_channel(p, c) /\ is_event_none(p, c) /\ p.index[c] # new_
    THEN SetIndex(SetEntry(p, p.fd[c], None), c, new_)
    ELSE p

remove_channel(p, c) ==
    IF has_channel(p, c) /\ is_event_none(p, c) /\ p.index[c] # new_
    THEN LET q == SetEntry(p, p.fd[c], None)
         IN  SetIndex(IF p.index[c] = added_ THEN _update(q, "DEL", c, TRUE) ELSE q, c, new_)
    ELSE p

(***************************************************************************)
(* The Channel's own operations; each ends in EpollPoller::update_channel. *)
(***************************************************************************)
SetEvents(p, c, ev) ==
    Poller(p.fd, p.index, [p.events EXCEPT ![c] = ev], p.channels_, p.epoll, p.interest)

\* A new Channel object for descriptor f at address c.
NewChannel(p, c, f) ==
    Poller([p.fd EXCEPT ![c] = f], [p.index EXCEPT ![c] = new_], [p.events EXCEPT ![c] = {}],
           p.channels_, p.epoll, p.interest)

enable_reading(p, c, ok) == update_channel(SetEvents(p, c, p.events[c] \cup read_event_), c, ok)

disable_reading(p, c, ok) == update_channel(SetEvents(p, c, p.events[c] \ read_event_), c, ok)

enable_writing(p, c, ok) == update_channel(SetEvents(p, c, p.events[c] \cup write_event_), c, ok)

disable_writing(p, c, ok) == update_channel(SetEvents(p, c, p.events[c] \ write_event_), c, ok)

disable_all(p, c, ok) == update_channel(SetEvents(p, c, {}), c, ok)

remove(p, c) == IF is_event_none(p, c) THEN remove_channel(p, c) ELSE p
=============================================================================
