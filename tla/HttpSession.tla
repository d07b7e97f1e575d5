---------------------------- MODULE HttpSession ----------------------------
(***************************************************************************)
(* service/chat/http_session.cpp on top of UserManager: registration over  *)
(* http.  A session reads a request that arrives in pieces, registers the  *)
(* user on the io thread of its connection, answers and closes.  Other     *)
(* threads are chat sessions, which call the UserManager directly.         *)
(*                                                                         *)
(* Of a request are kept its length, whether the last bytes are the empty  *)
(* line that ends it, and what it asks for.  The limit of 4 bytes and      *)
(* MAX_URL_LENGTH are scaled down.                                         *)
(***************************************************************************)
EXTENDS UserManager

CONSTANTS
    Sessions,        \* the threads of Threads that serve http
    MinLength,       \* the 4 bytes of an empty line
    MAX_URL_LENGTH

ASSUME SessionAssumption ==
    /\ Sessions \subseteq Threads /\ IsFiniteSet(Sessions)
    /\ MinLength \in Nat /\ MAX_URL_LENGTH \in Nat

VARIABLE http    \* for each session: its connection, the name asked for, the answer

httpVars == <<vars, http>>

HttpInit ==
    /\ Init
    /\ http = [s \in Sessions |-> [conn |-> "open", name |-> 0, reply |-> ""]]

force_close(s) == http' = [http EXCEPT ![s].conn = "closed"]

\* A complete request: register.do with a well-formed body is a call of
\* register_user; whatever else the first line and the body are, nothing is
\* called and nothing sent, and the connection is closed.  (A parameter shorter than
\* the "u=" or "p=" it should begin with makes substr throw, which nobody catches:
\* the process ends, as in Crash.)
_process(s) ==
    \/ \E c \in RegisterRequests :
           Call(s, c) /\ http' = [http EXCEPT ![s].conn = "busy", ![s].name = c.f]
    \/ force_close(s) /\ UNCHANGED vars

\* More bytes arrive; now len are in the buffer, the last of them an empty line or
\* not.  Until the request is complete they stay there.
on_read(s, len, ends) ==
    /\ up /\ http[s].conn = "open"
    /\ \/ (len <= MinLength \/ ~ends) /\ UNCHANGED httpVars
       \/ len > MinLength /\ ends /\ len >= MAX_URL_LENGTH /\ force_close(s) /\ UNCHANGED vars
       \/ len > MinLength /\ ends /\ len < MAX_URL_LENGTH /\ _process(s)

\* The variant that takes every return for a success.
AlwaysOk(s) == "ok"

Answer(s) == call[s].ret

\* register_user returned: the answer is sent and the connection closed.
_on_register_response(s) ==
    /\ http[s].conn = "busy" /\ call[s].ret # ""
    /\ http' = [http EXCEPT ![s].conn = "closed", ![s].reply = Answer(s)]
    /\ call' = [call EXCEPT ![s] = Idle("")]
    /\ UNCHANGED <<dbVars, memVars, up, history>>

\* The process ends, and with it the sessions in a call.
HttpCrash ==
    /\ Crash
    /\ http' = [s \in Sessions |->
                   IF http[s].conn = "busy" THEN [http[s] EXCEPT !.conn = "closed"] ELSE http[s]]

HttpNext ==
    \/ init /\ UNCHANGED http
    \/ HttpCrash
    \/ \E t \in Threads : Step(t) /\ UNCHANGED http
    \/ \E t \in Threads \ Sessions, c \in ChatRequests : Call(t, c) /\ UNCHANGED http
    \/ \E s \in Sessions, len \in 1 .. MAX_URL_LENGTH, ends \in BOOLEAN : on_read(s, len, ends)
    \/ \E s \in Sessions : _on_register_response(s)

HttpSpec == HttpInit /\ [][HttpNext]_httpVars
-----------------------------------------------------------------------------
\* For every name there are at least as many accounts as clients that were told
\* "ok", and at least one if a client was told "registered already": whatever
\* fails, races or is restarted, an answer rests on a row of t_user.
Registered ==
    \A n \in Names :
        LET told(r) == {s \in Sessions : http[s].name = n /\ http[s].reply = r}
            rows    == {id \in DOMAIN t_user : t_user[id].username = n}
        IN /\ Cardinality(told("ok")) <= Cardinality(rows)
           /\ told("already") # {} => rows # {}
=============================================================================
