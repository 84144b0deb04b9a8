----------------------------- MODULE AtMostOnce -----------------------------
(***************************************************************************)
(* What the API client promises the user interface about a request that    *)
(* changes something on the server: whatever happens to the connection,    *)
(* the session and the process, the server carries it out at most once,    *)
(* and has carried it out when success is reported.  A failure promises    *)
(* nothing more: the request may have been carried out, or may still be.   *)
(***************************************************************************)
EXTENDS Naturals

CONSTANT Requests

VARIABLES
    status,    \* what the user knows of each request
    executed   \* how often the server carried it out

avars == <<status, executed>>

AInit ==
    /\ status = [r \in Requests |-> "unsent"]
    /\ executed = [r \in Requests |-> 0]

\* The user asks for it.
Submit(r) ==
    /\ status[r] = "unsent"
    /\ status' = [status EXCEPT ![r] = "open"]
    /\ UNCHANGED executed

\* It is carried out, and the user is told so.
Confirm(r) ==
    /\ status[r] = "open"
    /\ status' = [status EXCEPT ![r] = "ok"]
    /\ executed' = [executed EXCEPT ![r] = @ + 1]

\* The user is told of a failure; it has been carried out or not.
GiveUp(r) ==
    /\ status[r] = "open"
    /\ status' = [status EXCEPT ![r] = "failed"]
    /\ \/ executed' = [executed EXCEPT ![r] = @ + 1]
       \/ UNCHANGED executed

\* A request that was reported as failed takes effect after all.
Late(r) ==
    /\ status[r] = "failed"
    /\ executed[r] = 0
    /\ executed' = [executed EXCEPT ![r] = @ + 1]
    /\ UNCHANGED status

ANext == \E r \in Requests : Submit(r) \/ Confirm(r) \/ GiveUp(r) \/ Late(r)

\* Every request is answered, one way or the other.
AFairness == \A r \in Requests : WF_avars(Confirm(r) \/ GiveUp(r))

ASafety == AInit /\ [][ANext]_avars

ASpec == ASafety /\ AFairness
=============================================================================
