---------------------------- MODULE ConnLifecycle ----------------------------
(***************************************************************************)
(* What the user of a TcpServer is promised about one connection: its      *)
(* connection callback is told "up" at most once and before "down", it is  *)
(* told "down" at most once, and the connection object is released only    *)
(* after that.  ("down" alone is what the user sees of a connection that   *)
(* could not be registered with the poller.)                               *)
(***************************************************************************)
EXTENDS Sequences

VARIABLES
    told,     \* what conn_callback_ was called with so far
    released  \* the TcpConnection object is destroyed

vars == <<told, released>>

Init == told = <<>> /\ released = FALSE

Up ==
    /\ told = <<>>
    /\ ~released
    /\ told' = <<"up">>
    /\ UNCHANGED released

Down ==
    /\ told \in {<<>>, <<"up">>}
    /\ ~released
    /\ told' = Append(told, "down")
    /\ UNCHANGED released

Release ==
    /\ told \in {<<"down">>, <<"up", "down">>}
    /\ ~released
    /\ released' = TRUE
    /\ UNCHANGED told

Next == Up \/ Down \/ Release

Spec == Init /\ [][Next]_vars
=============================================================================
