------------------------------ MODULE Session ------------------------------
(***************************************************************************)
(* The life of a session: main() in src/main.c, the session cache in       *)
(* src/api/session.c, and the calls of src/api/api.c that keep the session *)
(* alive (api_call, api_call_once, api_login, api_set_credentials).        *)
(*                                                                         *)
(* A process starts, reuses the cached session id or logs in, then issues  *)
(* one call after the other.  A call is up to three HTTP exchanges: the    *)
(* request, and when the server answers NOT_LOGGED_IN a login and the      *)
(* request again.  Between and during exchanges the server may drop a      *)
(* session, an answer may be lost, a request may time out and still be     *)
(* carried out later, and the process may be killed.                       *)
(***************************************************************************)
EXTENDS Naturals

CONSTANTS
    Requests,    \* the toggles (updateArticle, mode 2) the user asks for
    Sids,        \* the session ids the server will ever hand out
    NoSid,       \* no session id: NULL in the client, no usable cache file
    DiskFails,   \* whether writing the cache file may fail
    Hangs        \* whether a killed or timed-out request may still arrive

ASSUME NoSidAssumption == NoSid \notin Sids
ASSUME DiskFailsAssumption == DiskFails \in BOOLEAN
ASSUME HangsAssumption == Hangs \in BOOLEAN

VARIABLES
    pc,        \* where main() is
    op,        \* the API operation of the call in progress, or "none"
    phase,     \* the exchange of that call: "first", "renew" or "replay"
    sid,       \* ApiClient.session_id
    creds,     \* ApiClient.username and password are set
    env,       \* TTUIRSS_PASSWORD is set for this process
    answer,    \* how the last finished call ended
    dropped,   \* history: the sessions the server dropped during the call
    file,      \* the session id in the cache file
    valid,     \* server: the sessions it still honours
    issued,    \* server: the session ids it has handed out
    status,    \* history: what the user knows of each toggle
    executed,  \* server: how often it carried out each toggle
    late       \* toggles given up by the client that may still arrive

vars == <<pc, op, phase, sid, creds, env, answer, dropped, file, valid, issued,
          status, executed, late>>

process == <<sid, creds, env>>
calling == <<op, phase, answer, dropped>>
server == <<valid, issued, executed, late>>

-----------------------------------------------------------------------------
(* A call in progress.                                                     *)

\* An exchange of the call is a login: the call itself or its renewal.
LoggingIn == op = "login" \/ phase = "renew"

\* The toggle that a call is carrying, if any.
Current == {r \in Requests : op = "toggle" /\ status[r] = "open"}

\* Begin an API call.
StartCall(o) ==
    /\ op' = o
    /\ phase' = "first"
    /\ answer' = "none"
    /\ dropped' = {}

\* The call is over, and this is how it ended.
EndCall(result) ==
    /\ op' = "none"
    /\ phase' = "first"
    /\ answer' = result
    /\ dropped' = {}

\* A call of the user interface ends, and its caller is told how.
ReturnToUi(result) ==
    /\ pc' = "ui"
    /\ EndCall(result)
    /\ status' = [r \in Requests |->
                     IF r \in Current
                     THEN IF result = "ok" THEN "ok" ELSE "failed"
                     ELSE status[r]]

\* isLoggedIn decides whether main() goes on with the cached session; any
\* failure counts as not logged in.
ReturnToCheck(result) ==
    /\ op = "isLoggedIn"
    /\ IF result = "ok"
       THEN StartCall("getVersion") /\ UNCHANGED pc
       ELSE EndCall(result) /\ pc' = "password"
    /\ UNCHANGED status

\* Mutant: the call in progress survives the process.
ExitInCall ==
    /\ pc' = "down"
    /\ sid' = NoSid
    /\ creds' = FALSE
    /\ env' = FALSE
    /\ UNCHANGED calling

\* The process exits: the client's memory is gone.
Exit ==
    /\ pc' = "down"
    /\ EndCall("none")
    /\ sid' = NoSid
    /\ creds' = FALSE
    /\ env' = FALSE

\* main() after the exchange that ends a call, for each call it makes.
Return(result) ==
    \/ /\ op \in {"query", "toggle", "getVersion"}
       /\ ReturnToUi(result)
    \/ ReturnToCheck(result)
    \/ /\ op = "login"
       /\ result = "ok"
       /\ pc' = "save"
       /\ EndCall(result)
       /\ UNCHANGED status

\* api_login fails at startup: main() exits.
LoginFails ==
    /\ op = "login"
    /\ Exit
    /\ UNCHANGED status

-----------------------------------------------------------------------------
(* The exchanges of api_call.                                              *)

\* The server carries out the operation; only a toggle is visible here.
Execute == executed' = [r \in Requests |->
                           IF r \in Current THEN executed[r] + 1 ELSE executed[r]]

\* The server honours the session and answers.
AnswerOk ==
    /\ op # "none"
    /\ ~LoggingIn
    /\ sid \in valid
    /\ Execute
    /\ Return("ok")
    /\ UNCHANGED <<process, file, valid, issued, late>>

\* Mutant: the password at hand is never used.
MayNotRenew == FALSE

\* api_call renews the session once, if it has a password to do it with.
MayRenew == op # "login" /\ creds /\ phase = "first"

\* The server does not honour the session, and carries out nothing.
AnswerNotLoggedIn ==
    /\ op # "none"
    /\ ~LoggingIn
    /\ sid \notin valid
    /\ \/ /\ MayRenew
          /\ phase' = "renew"
          /\ UNCHANGED <<pc, op, answer, dropped, status>>
       \/ /\ ~MayRenew
          /\ Return("notLoggedIn")
    /\ UNCHANGED <<process, file, server>>

\* Mutant: the renewed session id is not kept.
KeepSidLost(s) == UNCHANGED sid

\* api_login stores the session id of the answer.
KeepSid(s) == sid' = s

\* A login is accepted: the call ends (startup) or is replayed (renewal).
AnswerLogin(s) ==
    /\ op # "none"
    /\ LoggingIn
    /\ s \in Sids \ issued
    /\ issued' = issued \cup {s}
    /\ valid' = valid \cup {s}
    /\ KeepSid(s)
    /\ \/ /\ op = "login"
          /\ Return("ok")
       \/ /\ op # "login"
          /\ phase' = "replay"
          /\ UNCHANGED <<pc, op, answer, dropped, status>>
    /\ UNCHANGED <<creds, env, file, executed, late>>

\* Mutant: an exchange that failed is tried again until it succeeds.
CallGoesOnForever ==
    \/ /\ op # "login"
       /\ phase' = IF phase = "first" THEN "replay" ELSE "first"
       /\ UNCHANGED <<pc, op, answer, dropped, status>>
       /\ UNCHANGED process
    \/ LoginFails

\* What the client does with an exchange that failed: give up the call.
\* Only NOT_LOGGED_IN is followed by another exchange.
CallFails ==
    \/ /\ op \in {"query", "toggle", "getVersion", "isLoggedIn"}
       /\ Return("failed")
       /\ UNCHANGED process
    \/ LoginFails

\* Mutant: a request whose answer is lost is sent again, like an expired one.
CallIsRetried ==
    \/ /\ op \in {"query", "toggle", "getVersion", "isLoggedIn"}
       /\ phase = "first"
       /\ phase' = "replay"
       /\ UNCHANGED <<pc, op, answer, dropped, status>>
       /\ UNCHANGED process
    \/ LoginFails

\* The request does not reach the server, or is answered by an error of the
\* transport or of the API (a refused login among them): nothing is done.
RequestFails ==
    /\ op # "none"
    /\ CallFails
    /\ UNCHANGED <<file, server>>

\* What the client makes of a lost answer: the same as of a lost request.
AnswerMissing == CallFails

\* The server does what is asked, but the answer is lost or unreadable.
AnswerLost ==
    /\ op # "none"
    /\ \/ /\ LoggingIn
          /\ \E s \in Sids \ issued :
                /\ issued' = issued \cup {s}
                /\ valid' = valid \cup {s}
          /\ UNCHANGED executed
       \/ /\ ~LoggingIn
          /\ sid \in valid
          /\ Execute
          /\ UNCHANGED <<valid, issued>>
    /\ AnswerMissing
    /\ UNCHANGED <<file, late>>

\* CURLOPT_TIMEOUT expires while the request is on its way.
TimesOut ==
    /\ Hangs
    /\ op = "toggle"
    /\ ~LoggingIn
    /\ sid \in valid
    /\ late' = late \cup Current
    /\ AnswerMissing
    /\ UNCHANGED <<file, valid, issued, executed>>

\* A request the client gave up arrives after all.
ArrivesLate(r) ==
    /\ r \in late
    /\ late' = late \ {r}
    /\ executed' = [executed EXCEPT ![r] = @ + 1]
    /\ UNCHANGED <<pc, process, calling, file, valid, issued, status>>

\* The server drops a session, for its age or at another client's logout.
Expire(s) ==
    /\ s \in valid
    /\ valid' = valid \ {s}
    /\ dropped' = IF op = "none" THEN dropped ELSE dropped \cup {s}
    /\ UNCHANGED <<pc, process, op, phase, answer, file, issued, status,
                   executed, late>>

-----------------------------------------------------------------------------
(* main().                                                                 *)

\* session_load, api_set_session, and the call of api_is_logged_in.
Start ==
    /\ pc = "down"
    /\ pc' = "calling"
    /\ StartCall("isLoggedIn")
    /\ sid' = file
    /\ creds' = FALSE
    /\ env' \in BOOLEAN
    /\ UNCHANGED <<file, status, server>>

\* The password comes from the environment or from the prompt.
Password ==
    /\ pc = "password"
    /\ creds' = TRUE
    /\ pc' = "calling"
    /\ StartCall("login")
    /\ UNCHANGED <<sid, env, file, status, server>>

\* No password is supplied at the prompt.
NoPassword ==
    /\ pc = "password"
    /\ ~env
    /\ Exit
    /\ UNCHANGED <<file, status, server>>

\* session_save begins: open() truncates the file, unless it fails.
Truncate ==
    /\ pc = "save"
    /\ \/ /\ file' = NoSid
          /\ pc' = "write"
          /\ UNCHANGED calling
       \/ /\ DiskFails
          /\ pc' = "calling"
          /\ StartCall("getVersion")
          /\ UNCHANGED file
    /\ UNCHANGED <<process, status, server>>

\* session_save ends: json_dumpf and fflush write the session id, or fail.
Write ==
    /\ pc = "write"
    /\ pc' = "calling"
    /\ \/ file' = sid
       \/ DiskFails /\ UNCHANGED file
    /\ StartCall("getVersion")
    /\ UNCHANGED <<process, status, server>>

\* The user interface asks for something: a list, a counter, an article.
Query ==
    /\ pc = "ui"
    /\ pc' = "calling"
    /\ StartCall("query")
    /\ UNCHANGED <<process, file, status, server>>

\* The user toggles a flag; a retry after a failure is another request.
Toggle(r) ==
    /\ pc = "ui"
    /\ status[r] = "unsent"
    /\ pc' = "calling"
    /\ StartCall("toggle")
    /\ status' = [status EXCEPT ![r] = "open"]
    /\ UNCHANGED <<process, file, server>>

\* q in the sidebar.  Nothing is saved and nobody is logged out.
Quit ==
    /\ pc = "ui"
    /\ Exit
    /\ UNCHANGED <<file, status, server>>

\* A signal kills the process at any moment; a request on its way stays so.
Kill ==
    /\ pc # "down"
    /\ Exit
    /\ status' = [r \in Requests |-> IF r \in Current THEN "failed" ELSE status[r]]
    /\ \/ UNCHANGED late
       \/ /\ Hangs
          /\ ~LoggingIn
          /\ sid \in valid
          /\ late' = late \cup Current
    /\ UNCHANGED <<file, valid, issued, executed>>

-----------------------------------------------------------------------------

Init ==
    /\ pc = "down"
    /\ op = "none"
    /\ phase = "first"
    /\ sid = NoSid
    /\ creds = FALSE
    /\ env = FALSE
    /\ answer = "none"
    /\ dropped = {}
    /\ file = NoSid
    /\ valid = {}
    /\ issued = {}
    /\ status = [r \in Requests |-> "unsent"]
    /\ executed = [r \in Requests |-> 0]
    /\ late = {}

Exchange ==
    \/ AnswerOk
    \/ AnswerNotLoggedIn
    \/ \E s \in Sids : AnswerLogin(s)
    \/ RequestFails
    \/ AnswerLost
    \/ TimesOut

Next ==
    \/ Exchange
    \/ \E r \in Requests : ArrivesLate(r)
    \/ \E s \in Sids : Expire(s)
    \/ Start
    \/ Password
    \/ NoPassword
    \/ Truncate
    \/ Write
    \/ Query
    \/ \E r \in Requests : Toggle(r)
    \/ Quit
    \/ Kill

\* An exchange ends, at the latest when it times out, and main() runs on.
\* Neither the user, nor the server's answers, nor the prompt are certain.
Fairness == WF_vars(Exchange) /\ WF_vars(Truncate \/ Write)

Spec == Init /\ [][Next]_vars /\ Fairness

-----------------------------------------------------------------------------
(* Properties.                                                             *)

Results == {"none", "ok", "failed", "notLoggedIn"}

Types ==
    /\ pc \in {"down", "calling", "password", "save", "write", "ui"}
    /\ op \in {"none", "isLoggedIn", "login", "getVersion", "query", "toggle"}
    /\ phase \in {"first", "renew", "replay"}
    /\ sid \in Sids \cup {NoSid}
    /\ creds \in BOOLEAN
    /\ env \in BOOLEAN
    /\ answer \in Results
    /\ dropped \in SUBSET Sids
    /\ file \in Sids \cup {NoSid}
    /\ valid \in SUBSET Sids
    /\ issued \in SUBSET Sids
    /\ status \in [Requests -> {"unsent", "open", "ok", "failed"}]
    /\ executed \in [Requests -> Nat]
    /\ late \in SUBSET Requests

\* A call is in progress only while main() waits for it, and only a call that
\* is not a login itself is renewed and replayed.
CallInv ==
    /\ pc # "calling" => op = "none"
    /\ op = "none" => phase = "first"
    /\ phase # "first" => op # "login"

\* Every variable has its type, and no call outlives the process or the code
\* that waits for it.
TypeOK == Types /\ CallInv

\* A toggle takes effect at most once, through any number of lost answers,
\* renewals, replays, late arrivals and restarts, and exactly once when the
\* user was told that it did.  Twice would undo it.
ToggledAtMostOnce ==
    \A r \in Requests :
        /\ executed[r] <= 1
        /\ status[r] = "ok" => executed[r] = 1

\* A request is replayed under a session that the server honoured at some
\* moment of this very call, so never under the one that was just refused;
\* and the user interface always holds a session id the server handed out.
ReplayHasNewSession ==
    /\ phase = "replay" => sid \in valid \cup dropped
    /\ pc = "ui" => sid \in issued

\* With a password at hand an expired session is not the user's problem: a
\* call ends with NOT_LOGGED_IN only if the server dropped, during the call,
\* the very session it was last made with.
RenewalHidesExpiry ==
    [][(creds /\ op # "none" /\ op' = "none" /\ answer' = "notLoggedIn")
          => sid \in dropped]_vars

\* A call returns to its caller after at most three exchanges, however often
\* the server drops the session meanwhile.
CallReturns == (op # "none") ~> (op = "none")

-----------------------------------------------------------------------------
(* What the client promises, see AtMostOnce.                               *)

\* The abstract requests are the toggles; sessions, exchanges and processes
\* are hidden.
Promise == INSTANCE AtMostOnce WITH
    Requests <- Requests, status <- status, executed <- executed

KeepsPromise == Promise!ASpec

-----------------------------------------------------------------------------
(* What the documents say and the code does not do.                        *)

\* PLAN.md, Session handling: the session is cached across runs so that a
\* restart doesn't require the password.  So when a process that has a
\* session the server honours quits, the cache holds a session the server
\* honours.
RestartFindsSession ==
    [][(Quit /\ sid \in valid) => file' \in valid]_vars
=============================================================================
