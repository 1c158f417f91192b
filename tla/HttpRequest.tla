---------------------------- MODULE HttpRequest ----------------------------
(***************************************************************************)
(* What a Swoole\Http\Client promises to the script that issues requests,  *)
(* whatever connections, timers and callbacks it uses underneath:          *)
(*                                                                         *)
(*  - the callback of a request runs at most once;                         *)
(*  - at most one request waits for its answer;                            *)
(*  - once a request ended with the connection (an error, or a body that   *)
(*    the end of the stream completes) the object is dead: it accepts no   *)
(*    other request and runs no response callback again.                   *)
(***************************************************************************)
EXTENDS Naturals

CONSTANT MaxGet      \* bound: how many requests the script issues

VARIABLES issued,    \* number of requests the object accepted
          pending,   \* the request that waits for its answer, or 0
          answers,   \* how often the callback of each request ran
          dead       \* the object refuses every further request

vars == <<issued, pending, answers, dead>>

Requests == 1..MaxGet

Init ==
    /\ issued = 0
    /\ pending = 0
    /\ answers = [r \in Requests |-> 0]
    /\ dead = FALSE

(* A request is accepted.  One that was still waiting is forgotten.        *)
Issue ==
    /\ ~dead
    /\ issued < MaxGet
    /\ issued' = issued + 1
    /\ pending' = issued + 1
    /\ UNCHANGED <<answers, dead>>

(* A request is accepted and answered with an error by the same call.      *)
IssueAndFail ==
    /\ ~dead
    /\ issued < MaxGet
    /\ issued' = issued + 1
    /\ pending' = 0
    /\ answers' = [answers EXCEPT ![issued + 1] = 1]
    /\ dead' = TRUE

(* The response arrived; the object stays usable.                          *)
Respond ==
    /\ pending # 0
    /\ answers[pending] = 0
    /\ answers' = [answers EXCEPT ![pending] = 1]
    /\ pending' = 0
    /\ UNCHANGED <<issued, dead>>

(* The request ends together with the connection.                          *)
Finish ==
    /\ pending # 0
    /\ answers[pending] = 0
    /\ answers' = [answers EXCEPT ![pending] = 1]
    /\ pending' = 0
    /\ dead' = TRUE
    /\ UNCHANGED issued

(* The script gives the object up.                                         *)
Drop ==
    /\ pending' = 0
    /\ dead' = TRUE
    /\ UNCHANGED <<issued, answers>>

Next == Issue \/ IssueAndFail \/ Respond \/ Finish \/ Drop

Spec == Init /\ [][Next]_vars
=============================================================================
