--------------------------- MODULE SessionProofs ---------------------------
(***************************************************************************)
(* Theorems of Session: a toggle takes effect at most once and is reported *)
(* truthfully, a replay runs under the session its renewal obtained, and   *)
(* every step is one that AtMostOnce allows.                               *)
(***************************************************************************)
EXTENDS Session, TLAPS

-----------------------------------------------------------------------------
(* The invariant.                                                          *)

\* What is known of a toggle fits what has become of it.  A toggle whose call
\* is in progress has not been carried out yet: every exchange that carries
\* it out ends the call.
ToggleInv ==
    \A r \in Requests :
        /\ status[r] = "unsent" => executed[r] = 0
        /\ status[r] = "open" => op = "toggle" /\ executed[r] = 0
        /\ status[r] = "ok" => executed[r] = 1
        /\ status[r] = "failed" => executed[r] \in {0, 1}
        /\ r \in late => status[r] = "failed" /\ executed[r] = 0
        /\ status[r] = "open" => \A q \in Requests : status[q] = "open" => q = r

\* Every session id in the program was handed out by the server, and the one
\* under which a request is replayed was honoured during the call.
SessionInv ==
    /\ valid \subseteq issued
    /\ file # NoSid => file \in issued
    /\ sid # NoSid => sid \in issued
    /\ pc \in {"save", "write", "ui"} => sid \in issued
    /\ op \in {"getVersion", "query", "toggle"} => sid \in issued
    /\ phase = "replay" => sid \in valid \cup dropped

IInv == Types /\ CallInv /\ ToggleInv /\ SessionInv

-----------------------------------------------------------------------------

LEMMA InitIInv == Init => IInv
<1> SUFFICES ASSUME Init PROVE IInv
    OBVIOUS
<1>1. Types
    BY DEF Init, Types, Results
<1>2. CallInv /\ ToggleInv /\ SessionInv
    BY NoSidAssumption DEF Init, CallInv, ToggleInv, SessionInv
<1> QED BY <1>1, <1>2 DEF IInv

\* A call returns to its caller.  The toggle it carried, if any, is reported
\* as the result says; it must have been carried out if that is a success.
LEMMA ReturnKeepsIInv ==
    ASSUME IInv, op # "none", NEW result \in {"ok", "failed", "notLoggedIn"},
           Return(result),
           executed' \in [Requests -> Nat], late' = late,
           \A r \in Requests : status[r] # "open" => executed'[r] = executed[r],
           \A r \in Requests : status[r] = "open" =>
              executed'[r] \in (IF result = "ok" THEN {1} ELSE {0, 1}),
           sid' \in Sids \cup {NoSid}, sid' # NoSid => sid' \in issued',
           result = "ok" \/ op # "isLoggedIn" => sid' \in issued',
           creds' \in BOOLEAN, env' \in BOOLEAN, file' = file,
           issued \subseteq issued', issued' \in SUBSET Sids, valid' \subseteq issued'
    PROVE  IInv'
<1>1. /\ pc' \in {"down", "calling", "password", "save", "write", "ui"}
      /\ op' \in {"none", "getVersion"} /\ phase' = "first"
      /\ answer' \in Results /\ dropped' = {}
      /\ pc' # "calling" => op' = "none"
      /\ op' = "getVersion" => result = "ok"
      /\ pc' \in {"save", "write", "ui"} => result = "ok" \/ op # "isLoggedIn"
    BY DEF Return, ReturnToUi, ReturnToCheck, StartCall, EndCall, IInv, Types,
           CallInv, Results
<1>2. \A r \in Requests :
         status'[r] = IF status[r] = "open"
                      THEN IF result = "ok" THEN "ok" ELSE "failed"
                      ELSE status[r]
    BY DEF Return, ReturnToUi, ReturnToCheck, Current, IInv, ToggleInv, Types
<1>3. status' \in [Requests -> {"unsent", "open", "ok", "failed"}]
    BY DEF Return, ReturnToUi, ReturnToCheck, IInv, Types
<1>4. Types'
    BY <1>1, <1>3 DEF IInv, Types
<1>5. CallInv'
    BY <1>1 DEF CallInv
<1>6. ToggleInv'
    BY <1>1, <1>2 DEF ToggleInv, IInv
<1>7. SessionInv'
    BY <1>1 DEF SessionInv, IInv
<1> QED BY <1>4, <1>5, <1>6, <1>7 DEF IInv

\* The process exits; a toggle in progress is one that failed, and may have
\* been carried out or still be on its way.
LEMMA ExitKeepsIInv ==
    ASSUME IInv, Exit, file' = file,
           valid' \subseteq issued', issued \subseteq issued', issued' \in SUBSET Sids,
           executed' \in [Requests -> Nat], late' \in SUBSET Requests,
           status' = [r \in Requests |-> IF r \in Current THEN "failed" ELSE status[r]],
           \A r \in Requests : status[r] # "open" => executed'[r] = executed[r],
           \A r \in Requests : status[r] = "open" => executed'[r] \in {0, 1},
           \A r \in late' : \/ r \in late
                            \/ status[r] = "open" /\ executed'[r] = 0
    PROVE  IInv'
<1>1. /\ pc' = "down" /\ op' = "none" /\ phase' = "first" /\ answer' = "none"
      /\ dropped' = {} /\ sid' = NoSid /\ creds' = FALSE /\ env' = FALSE
    BY DEF Exit, EndCall
<1>2. \A r \in Requests :
         status'[r] = IF status[r] = "open" THEN "failed" ELSE status[r]
    BY DEF Current, IInv, ToggleInv
<1>3. status' \in [Requests -> {"unsent", "open", "ok", "failed"}]
    BY DEF IInv, Types
<1>4. Types'
    BY <1>1, <1>3 DEF IInv, Types, Results
<1>5. ToggleInv'
    BY <1>1, <1>2 DEF ToggleInv, IInv
<1>6. CallInv' /\ SessionInv'
    BY <1>1 DEF CallInv, SessionInv, IInv
<1> QED BY <1>4, <1>5, <1>6 DEF IInv

\* What Execute does to the toggles.
LEMMA ExecuteCounts ==
    ASSUME IInv, Execute
    PROVE  /\ executed' \in [Requests -> Nat]
           /\ \A r \in Requests : status[r] # "open" => executed'[r] = executed[r]
           /\ \A r \in Requests : status[r] = "open" => executed'[r] = 1
<1>1. \A r \in Requests :
         executed'[r] = IF status[r] = "open" THEN executed[r] + 1 ELSE executed[r]
    BY DEF Execute, Current, IInv, ToggleInv
<1>2. \A r \in Requests : executed[r] \in Nat
    BY DEF IInv, Types
<1>3. executed' = [r \in Requests |->
                      IF r \in Current THEN executed[r] + 1 ELSE executed[r]]
    BY DEF Execute
<1>4. executed' \in [Requests -> Nat]
    BY <1>2, <1>3
<1>5. \A r \in Requests : status[r] = "open" => executed[r] = 0
    BY DEF IInv, ToggleInv
<1> QED BY <1>1, <1>2, <1>4, <1>5

\* The three ways an exchange ends in failure.
LEMMA FailureKeepsIInv ==
    ASSUME IInv, op # "none", CallFails, file' = file,
           valid' \subseteq issued', issued \subseteq issued', issued' \in SUBSET Sids,
           executed' \in [Requests -> Nat], late' \in SUBSET Requests,
           \A r \in Requests : status[r] # "open" => executed'[r] = executed[r],
           \A r \in Requests : status[r] = "open" => executed'[r] \in {0, 1},
           \A r \in late' : \/ r \in late
                            \/ status[r] = "open" /\ executed'[r] = 0
    PROVE  IInv'
<1>1. CASE op # "login"
  <2>1. Return("failed") /\ sid' = sid /\ creds' = creds /\ env' = env
    BY <1>1 DEF CallFails, LoginFails, process
  <2>2. /\ pc' \in {"down", "calling", "password", "save", "write", "ui"}
        /\ op' = "none" /\ phase' = "first"
        /\ answer' \in Results /\ dropped' = {}
        /\ pc' \in {"ui", "password"}
        /\ pc' = "ui" => op \in {"query", "toggle", "getVersion"}
    BY <1>1, <2>1 DEF Return, ReturnToUi, ReturnToCheck, EndCall, Results
  <2>3. \A r \in Requests :
           status'[r] = IF status[r] = "open" THEN "failed" ELSE status[r]
    BY <2>1, <1>1 DEF Return, ReturnToUi, ReturnToCheck, Current, IInv, ToggleInv, Types
  <2>4. status' \in [Requests -> {"unsent", "open", "ok", "failed"}]
    BY <2>1, <1>1 DEF Return, ReturnToUi, ReturnToCheck, IInv, Types
  <2>5. Types'
    BY <2>1, <2>2, <2>4 DEF IInv, Types
  <2>6. ToggleInv'
    BY <2>2, <2>3 DEF ToggleInv, IInv
  <2>7. CallInv' /\ SessionInv'
    BY <2>1, <2>2 DEF CallInv, SessionInv, IInv
  <2> QED BY <2>5, <2>6, <2>7 DEF IInv
<1>2. CASE op = "login"
  <2>1. Exit /\ status' = status
    BY <1>2 DEF CallFails, LoginFails
  <2>2. \A r \in Requests : status[r] # "open"
    BY <1>2 DEF IInv, ToggleInv
  <2>3. Current = {} /\ status \in [Requests -> {"unsent", "open", "ok", "failed"}]
    BY <2>2 DEF Current, IInv, Types
  <2>4. status' = [r \in Requests |-> IF r \in Current THEN "failed" ELSE status[r]]
    BY <2>1, <2>3
  <2> QED BY <2>1, <2>4, ExitKeepsIInv
<1> QED BY <1>1, <1>2

\* The exchanges of a call.
LEMMA ExchangeKeepsIInv ==
    ASSUME IInv, Exchange
    PROVE  IInv'
<1>0. /\ executed \in [Requests -> Nat] /\ late \in SUBSET Requests
      /\ valid \subseteq issued /\ issued \in SUBSET Sids
      /\ \A r \in Requests : status[r] = "open" => executed[r] = 0
      /\ sid \in Sids \cup {NoSid} /\ creds \in BOOLEAN /\ env \in BOOLEAN
      /\ sid # NoSid => sid \in issued
    BY DEF IInv, Types, ToggleInv, SessionInv
<1>1. CASE AnswerOk
  <2>1. /\ op # "none" /\ sid \in valid /\ Execute /\ Return("ok")
        /\ late' = late /\ sid' = sid /\ creds' = creds /\ env' = env
        /\ file' = file /\ valid' = valid /\ issued' = issued
    BY <1>1 DEF AnswerOk, process
  <2> QED BY <1>0, <2>1, ExecuteCounts, ReturnKeepsIInv
<1>2. CASE AnswerNotLoggedIn
  <2>1. /\ op # "none" /\ sid \notin valid /\ ~LoggingIn
        /\ late' = late /\ sid' = sid /\ creds' = creds /\ env' = env
        /\ file' = file /\ valid' = valid /\ issued' = issued /\ executed' = executed
    BY <1>2 DEF AnswerNotLoggedIn, process, server
  <2>2. CASE /\ MayRenew
             /\ phase' = "renew"
             /\ UNCHANGED <<pc, op, answer, dropped, status>>
    <3>1. op # "login"
      BY <2>2 DEF MayRenew
    <3> QED
      BY <2>1, <2>2, <3>1 DEF IInv, Types, CallInv, ToggleInv, SessionInv
  <2>3. CASE Return("notLoggedIn")
    <3>1. op # "isLoggedIn" => sid \in issued
      BY <2>1 DEF LoggingIn, IInv, SessionInv, Types
    <3> QED BY <1>0, <2>1, <2>3, <3>1, ReturnKeepsIInv
  <2> QED BY <1>2, <2>2, <2>3 DEF AnswerNotLoggedIn
<1>3. ASSUME NEW s \in Sids, AnswerLogin(s)
      PROVE  IInv'
  <2>1. /\ op # "none" /\ issued' = issued \cup {s} /\ valid' = valid \cup {s}
        /\ sid' = s /\ creds' = creds /\ env' = env /\ file' = file
        /\ executed' = executed /\ late' = late
    BY <1>3 DEF AnswerLogin, KeepSid
  <2>2. CASE Return("ok") /\ op = "login"
    <3>1. \A r \in Requests : status[r] # "open"
      BY <2>2 DEF IInv, ToggleInv
    <3> QED BY <1>0, <2>1, <2>2, <3>1, ReturnKeepsIInv
  <2>3. CASE /\ op # "login"
             /\ phase' = "replay"
             /\ UNCHANGED <<pc, op, answer, dropped, status>>
    BY <2>1, <2>3 DEF IInv, Types, CallInv, ToggleInv, SessionInv
  <2> QED BY <1>3, <2>2, <2>3 DEF AnswerLogin
<1>4. CASE RequestFails
  <2>1. /\ op # "none" /\ CallFails /\ file' = file /\ valid' = valid
        /\ issued' = issued /\ executed' = executed /\ late' = late
    BY <1>4 DEF RequestFails, server
  <2> QED BY <1>0, <2>1, FailureKeepsIInv
<1>5. CASE AnswerLost
  <2>1. /\ op # "none" /\ CallFails /\ file' = file /\ late' = late
    BY <1>5 DEF AnswerLost, AnswerMissing
  <2>2. CASE \E s \in Sids \ issued : /\ issued' = issued \cup {s}
                                     /\ valid' = valid \cup {s}
                                     /\ executed' = executed
    BY <1>0, <2>1, <2>2, FailureKeepsIInv
  <2>3. CASE Execute /\ valid' = valid /\ issued' = issued
    BY <1>0, <2>1, <2>3, ExecuteCounts, FailureKeepsIInv
  <2> QED BY <1>5, <2>2, <2>3 DEF AnswerLost
<1>6. CASE TimesOut
  <2>1. /\ op # "none" /\ CallFails /\ file' = file /\ valid' = valid
        /\ issued' = issued /\ executed' = executed /\ late' = late \cup Current
    BY <1>6 DEF TimesOut, AnswerMissing
  <2>2. \A r \in Current : r \in Requests /\ status[r] = "open"
    BY DEF Current
  <2> QED BY <1>0, <2>1, <2>2, FailureKeepsIInv
<1> QED BY <1>1, <1>2, <1>3, <1>4, <1>5, <1>6 DEF Exchange

\* Everything else: the server, main() and the user.
LEMMA NextIInv == IInv /\ [Next]_vars => IInv'
<1> SUFFICES ASSUME IInv, [Next]_vars PROVE IInv'
    OBVIOUS
<1>1. CASE Exchange
    BY <1>1, ExchangeKeepsIInv
<1>2. ASSUME NEW r \in Requests, ArrivesLate(r)
      PROVE  IInv'
  <2>1. /\ r \in late /\ late' = late \ {r}
        /\ executed' = [executed EXCEPT ![r] = @ + 1]
        /\ UNCHANGED <<pc, sid, creds, env, op, phase, answer, dropped, file, valid,
                       issued, status>>
    BY <1>2 DEF ArrivesLate, process, calling
  <2>2. executed[r] = 0 /\ status[r] = "failed"
    BY <2>1 DEF IInv, ToggleInv
  <2>3. Types'
    BY <2>1 DEF IInv, Types
  <2>4. ToggleInv'
    BY <2>1, <2>2 DEF IInv, Types, ToggleInv
  <2>5. CallInv' /\ SessionInv'
    BY <2>1 DEF IInv, CallInv, SessionInv
  <2> QED BY <2>3, <2>4, <2>5 DEF IInv
<1>3. ASSUME NEW s \in Sids, Expire(s)
      PROVE  IInv'
  <2>1. /\ valid' = valid \ {s}
        /\ dropped' = IF op = "none" THEN dropped ELSE dropped \cup {s}
        /\ UNCHANGED <<pc, sid, creds, env, op, phase, answer, file, issued, status,
                       executed, late>>
    BY <1>3 DEF Expire, process
  <2>2. Types' /\ CallInv' /\ ToggleInv'
    BY <2>1 DEF IInv, Types, CallInv, ToggleInv
  <2>3. SessionInv'
    BY <2>1 DEF IInv, CallInv, SessionInv
  <2> QED BY <2>2, <2>3 DEF IInv
<1>4. CASE Start
    BY <1>4 DEF Start, StartCall, server, IInv, Types, Results, CallInv, ToggleInv,
                SessionInv
<1>5. CASE Password
    BY <1>5 DEF Password, StartCall, server, IInv, Types, Results, CallInv, ToggleInv,
                SessionInv
<1>6. CASE NoPassword \/ Quit
  <2>1. /\ Exit /\ op = "none"
        /\ UNCHANGED <<file, status, valid, issued, executed, late>>
    BY <1>6 DEF NoPassword, Quit, server, IInv, CallInv
  <2>2. status' = [r \in Requests |-> IF r \in Current THEN "failed" ELSE status[r]]
    BY <2>1 DEF Current, IInv, Types
  <2>3. /\ valid \subseteq issued /\ issued \in SUBSET Sids
        /\ executed \in [Requests -> Nat] /\ late \in SUBSET Requests
        /\ \A r \in Requests : status[r] = "open" => executed[r] = 0
    BY DEF IInv, Types, ToggleInv, SessionInv
  <2> QED BY <2>1, <2>2, <2>3, ExitKeepsIInv
<1>7. CASE Truncate
    BY <1>7 DEF Truncate, StartCall, process, calling, server, IInv, Types, Results,
                CallInv, ToggleInv, SessionInv
<1>8. CASE Write
    BY <1>8 DEF Write, StartCall, process, server, IInv, Types, Results,
                CallInv, ToggleInv, SessionInv
<1>9. CASE Query
    BY <1>9 DEF Query, StartCall, process, server, IInv, Types, Results,
                CallInv, ToggleInv, SessionInv
<1>10. ASSUME NEW r \in Requests, Toggle(r)
       PROVE  IInv'
    BY <1>10 DEF Toggle, StartCall, process, server, IInv, Types, Results,
                 CallInv, ToggleInv, SessionInv
<1>11. CASE Kill
  <2>1. /\ Exit /\ UNCHANGED <<file, valid, issued, executed>>
        /\ status' = [r \in Requests |-> IF r \in Current THEN "failed" ELSE status[r]]
        /\ late' = late \/ late' = late \cup Current
    BY <1>11 DEF Kill
  <2>2. /\ valid \subseteq issued /\ issued \in SUBSET Sids
        /\ executed \in [Requests -> Nat] /\ late \in SUBSET Requests
        /\ \A r \in Requests : status[r] = "open" => executed[r] = 0
        /\ \A r \in Current : r \in Requests /\ status[r] = "open"
    BY DEF IInv, Types, ToggleInv, SessionInv, Current
  <2> QED BY <2>1, <2>2, ExitKeepsIInv
<1>12. CASE UNCHANGED vars
    BY <1>12 DEF vars, IInv, Types, CallInv, ToggleInv, SessionInv
<1> QED
    BY <1>1, <1>2, <1>3, <1>4, <1>5, <1>6, <1>7, <1>8, <1>9, <1>10, <1>11, <1>12
    DEF Next

-----------------------------------------------------------------------------
(* The theorems.                                                           *)

\* The invariant holds of every behaviour.
THEOREM Invariance == Spec => []IInv
<1> QED BY InitIInv, NextIInv, PTL DEF Spec

\* The state of the program and of the server keeps its types.
THEOREM TypeCorrect == Spec => []TypeOK
<1>1. IInv => TypeOK
    BY DEF IInv, TypeOK
<1> QED BY <1>1, Invariance, PTL

\* api_call carries out a toggle at most once, and exactly once when it
\* reports success, for any number of requests, sessions and restarts.
THEOREM NeverToggledTwice == Spec => []ToggledAtMostOnce
<1>1. IInv => ToggledAtMostOnce
  <2> SUFFICES ASSUME IInv, NEW r \in Requests
               PROVE  /\ executed[r] <= 1
                      /\ status[r] = "ok" => executed[r] = 1
    BY DEF ToggledAtMostOnce
  <2>1. status[r] \in {"unsent", "open", "ok", "failed"}
    BY DEF IInv, Types
  <2> QED BY <2>1 DEF IInv, ToggleInv
<1> QED BY <1>1, Invariance, PTL

\* A replay never runs under the session that was refused.
THEOREM ReplayIsRenewed == Spec => []ReplayHasNewSession
<1>1. IInv => ReplayHasNewSession
    BY DEF IInv, SessionInv, ReplayHasNewSession
<1> QED BY <1>1, Invariance, PTL

\* A call made with a password at hand only ends with NOT_LOGGED_IN when the
\* server dropped its session during the call.
THEOREM ExpiryIsHidden == Spec => RenewalHidesExpiry
<1>1. ASSUME IInv, Next, creds, op # "none", op' = "none", answer' = "notLoggedIn"
      PROVE  sid \in dropped
  <2>1. AnswerNotLoggedIn /\ ~MayRenew
    <3>1. CASE Exchange
      BY <3>1, <1>1
      DEF Exchange, AnswerOk, AnswerNotLoggedIn, AnswerLogin, RequestFails, AnswerLost,
          AnswerMissing, TimesOut, CallFails, LoginFails, Exit, Return, ReturnToUi,
          ReturnToCheck, StartCall, EndCall
    <3>2. CASE ~Exchange
      BY <3>2, <1>1
      DEF Next, ArrivesLate, Expire, Start, Password, NoPassword, Truncate, Write, Query,
          Toggle, Quit, Kill, StartCall, EndCall, Exit, calling, process
    <3> QED BY <3>1, <3>2
  <2>2. /\ op # "login" /\ phase = "replay" /\ sid \notin valid
    BY <1>1, <2>1 DEF AnswerNotLoggedIn, LoggingIn, MayRenew, IInv, Types
  <2> QED BY <1>1, <2>2 DEF IInv, SessionInv
<1>2. IInv /\ [Next]_vars =>
         [(creds /\ op # "none" /\ op' = "none" /\ answer' = "notLoggedIn")
             => sid \in dropped]_vars
    BY <1>1
<1> QED BY <1>2, Invariance, PTL DEF Spec, RenewalHidesExpiry

-----------------------------------------------------------------------------
(* Session implements the safety part of AtMostOnce.                       *)

\* The end of a call is a Confirm or a GiveUp of the toggle it carried, and
\* no step at all for the toggles when it carried none.
LEMMA EndOfCallIsAllowed ==
    ASSUME IInv, NEW result \in {"ok", "failed"},
           status' = [r \in Requests |-> IF r \in Current THEN result ELSE status[r]],
           \/ executed' = [r \in Requests |->
                              IF r \in Current THEN executed[r] + 1 ELSE executed[r]]
           \/ result = "failed" /\ executed' = executed
    PROVE  [Promise!ANext]_(Promise!avars)
<1>0. /\ status \in [Requests -> {"unsent", "open", "ok", "failed"}]
      /\ executed \in [Requests -> Nat]
    BY DEF IInv, Types
<1>1. CASE Current = {}
  <2>1. status' = status /\ executed' = executed
    BY <1>0, <1>1
  <2> QED BY <2>1 DEF Promise!avars
<1>2. CASE Current # {}
  <2>1. PICK r \in Requests : status[r] = "open" /\ Current = {r}
    BY <1>2 DEF Current, IInv, ToggleInv
  <2>2. status' = [status EXCEPT ![r] = result]
    BY <1>0, <2>1
  <2>3. \/ executed' = [executed EXCEPT ![r] = @ + 1]
        \/ result = "failed" /\ executed' = executed
    BY <1>0, <2>1
  <2>4. Promise!Confirm(r) \/ Promise!GiveUp(r)
    BY <2>1, <2>2, <2>3 DEF Promise!Confirm, Promise!GiveUp
  <2> QED BY <2>4 DEF Promise!ANext
<1> QED BY <1>1, <1>2

LEMMA StepIsAllowed == IInv /\ [Next]_vars => [Promise!ANext]_(Promise!avars)
<1> SUFFICES ASSUME IInv, [Next]_vars PROVE [Promise!ANext]_(Promise!avars)
    OBVIOUS
<1>0. status \in [Requests -> {"unsent", "open", "ok", "failed"}]
    BY DEF IInv, Types
<1>1. op # "toggle" => Current = {}
    BY DEF Current
<1>2. Current = {} /\ Execute => executed' = executed
    BY DEF Execute, IInv, Types
<1>3. ASSUME Return("ok"), op # "none", Execute \/ (op = "login" /\ executed' = executed)
      PROVE  [Promise!ANext]_(Promise!avars)
  <2>1. CASE op \in {"query", "toggle", "getVersion"}
    <3>1. /\ Execute
          /\ status' = [r \in Requests |-> IF r \in Current THEN "ok" ELSE status[r]]
      BY <1>3, <2>1 DEF Return, ReturnToUi, ReturnToCheck
    <3> QED BY <3>1, EndOfCallIsAllowed DEF Execute
  <2>2. CASE op \in {"isLoggedIn", "login"}
    <3>1. status' = status /\ executed' = executed
      BY <1>1, <1>2, <1>3, <2>2 DEF Return, ReturnToUi, ReturnToCheck
    <3> QED BY <3>1 DEF Promise!avars
  <2> QED BY <1>3, <2>1, <2>2 DEF IInv, Types
<1>4. ASSUME CallFails, op # "none",
             Execute \/ executed' = executed
      PROVE  [Promise!ANext]_(Promise!avars)
  <2>1. CASE op \in {"query", "toggle", "getVersion"}
    <3>1. status' = [r \in Requests |-> IF r \in Current THEN "failed" ELSE status[r]]
      BY <1>4, <2>1 DEF CallFails, LoginFails, Return, ReturnToUi, ReturnToCheck
    <3> QED BY <1>4, <3>1, EndOfCallIsAllowed DEF Execute
  <2>2. CASE op \in {"isLoggedIn", "login"}
    <3>1. status' = status /\ executed' = executed
      BY <1>1, <1>2, <1>4, <2>2
      DEF CallFails, LoginFails, Return, ReturnToUi, ReturnToCheck
    <3> QED BY <3>1 DEF Promise!avars
  <2> QED BY <1>4, <2>1, <2>2 DEF IInv, Types
<1>5. CASE AnswerOk
    BY <1>3, <1>5 DEF AnswerOk
<1>6. CASE AnswerNotLoggedIn
  <2>1. op # "none" /\ op # "login" /\ executed' = executed
    BY <1>6 DEF AnswerNotLoggedIn, LoggingIn, server
  <2>2. \/ status' = status
        \/ status' = [r \in Requests |-> IF r \in Current THEN "failed" ELSE status[r]]
    BY <1>6, <2>1
    DEF AnswerNotLoggedIn, Return, ReturnToUi, ReturnToCheck
  <2>3. CASE status' = status
    BY <2>1, <2>3 DEF Promise!avars
  <2> QED BY <2>1, <2>2, <2>3, EndOfCallIsAllowed
<1>7. ASSUME NEW s \in Sids, AnswerLogin(s)
      PROVE  [Promise!ANext]_(Promise!avars)
  <2>1. executed' = executed
    BY <1>7 DEF AnswerLogin
  <2>2. CASE status' = status
    BY <2>1, <2>2 DEF Promise!avars
  <2>3. status' = status
    BY <1>7 DEF AnswerLogin, Return, ReturnToUi, ReturnToCheck
  <2> QED BY <2>2, <2>3
<1>8. CASE RequestFails
    BY <1>4, <1>8 DEF RequestFails, server
<1>9. CASE AnswerLost
    BY <1>4, <1>9 DEF AnswerLost, AnswerMissing
<1>10. CASE TimesOut
    BY <1>4, <1>10 DEF TimesOut, AnswerMissing
<1>11. ASSUME NEW r \in Requests, ArrivesLate(r)
       PROVE  [Promise!ANext]_(Promise!avars)
  <2>1. Promise!Late(r)
    BY <1>11 DEF ArrivesLate, Promise!Late, IInv, ToggleInv
  <2> QED BY <2>1 DEF Promise!ANext
<1>12. ASSUME NEW r \in Requests, Toggle(r)
       PROVE  [Promise!ANext]_(Promise!avars)
  <2>1. Promise!Submit(r)
    BY <1>12 DEF Toggle, server, Promise!Submit
  <2> QED BY <2>1 DEF Promise!ANext
<1>13. CASE Kill
  <2>1. /\ executed' = executed
        /\ status' = [r \in Requests |-> IF r \in Current THEN "failed" ELSE status[r]]
    BY <1>13 DEF Kill
  <2> QED BY <2>1, EndOfCallIsAllowed
<1>14. CASE \/ \E s \in Sids : Expire(s)
            \/ Start \/ Password \/ NoPassword \/ Truncate \/ Write \/ Query \/ Quit
            \/ UNCHANGED vars
    BY <1>14 DEF Expire, Start, Password, NoPassword, Truncate, Write, Query, Quit,
                 server, vars, Promise!avars
<1> QED
    BY <1>5, <1>6, <1>7, <1>8, <1>9, <1>10, <1>11, <1>12, <1>13, <1>14
    DEF Next, Exchange

\* Every behaviour of Session is one that AtMostOnce allows, as far as
\* safety goes; that calls return is checked by TLC.
THEOREM KeepsSafetyPromise == Spec => Promise!ASafety
<1>1. Init => Promise!AInit
    BY DEF Init, Promise!AInit
<1> QED BY <1>1, StepIsAllowed, Invariance, PTL DEF Spec, Promise!ASafety
=============================================================================
