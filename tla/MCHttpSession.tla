--------------------------- MODULE MCHttpSession ---------------------------
(***************************************************************************)
(* A small instance of HttpSession: two users who are friends.             *)
(***************************************************************************)
EXTENDS HttpSession, TLC

\* Names that are not the number of a group.
MCNames == {-11, -12}

MCUsers == (1 :> 101) @@ (2 :> 102)

Perms == Permutations(Sessions) \cup Permutations(Threads \ Sessions)

MCFriends == <<1, 2>> :> <<"work", DEFAULT_TEAMNAME>>
=============================================================================
