---------------------------- MODULE ConsoleProofs ----------------------------
(***************************************************************************)
(* Proofs about Console.tla, for any handlers, users, tokens and proxies,  *)
(* and about DeviceSignIn.tla, for any number of calls under way.          *)
(*                                                                         *)
(* The administrator's part and the proxy's part have an invariant each:   *)
(* only Restart and the ends of updates change both at once.               *)
(***************************************************************************)
EXTENDS Console, DeviceSignIn, TLAPS

(* Whoever has a session or was admitted by one got its token at a login.  *)
SessionsAreIssued ==
    /\ \A t \in Tokens : sessions[t] = "live" => issuedTo[t] \in Users
    /\ \A h \in Handlers :
          pc[h] = "admitted" => tok[h] \in Tokens /\ issuedTo[tok[h]] \in Users

(* A setup that is the only one and could read the file finds nobody set up*)
(* still when it writes.                                                   *)
SetupIsFirst ==
    ~rivals /\ ~misread =>
        /\ \A g, h \in Handlers : g # h => pc[g] # "checked" \/ pc[h] # "checked"
        /\ \A h \in Handlers : pc[h] = "checked" => adminFile \notin Users

(* A handler knows its user and its token as long as it needs them.        *)
HandlersKnow ==
    \A h \in Handlers :
        /\ pc[h] \in {"checked", "written"} => cred[h] \in Users
        /\ pc[h] = "deleting" => tok[h] \in Tokens

AdminInv ==
    /\ Admin!TypeOK
    /\ HandlersKnow
    /\ SessionsAreIssued
    /\ SetupIsFirst
    /\ SessionsAreTheAdmins

(* An update that has shared its time with no other is the only one.       *)
OneUpdate ==
    ~overlapped => \A g, h \in Handlers : g # h => at[g] = "none" \/ at[h] = "none"

(* How far such an update has come, unless a write has failed.             *)
UpdateIsAt(h) ==
    /\ at[h] = "truncated" => proxyFile = Blank
    /\ at[h] \in {"written", "set", "built"} => proxyFile = url[h]
    /\ at[h] \in {"set", "built"} => proxyURL = url[h]
    /\ at[h] = "built" => built[h] = url[h]

OutboundInv ==
    /\ Outbound!TypeOK
    /\ OneUpdate
    /\ ~overlapped /\ ~mishap => \A h \in Handlers : UpdateIsAt(h)
    /\ ProxyInForce

-----------------------------------------------------------------------------
LEMMA InitInv == Init => AdminInv /\ OutboundInv
<1> SUFFICES ASSUME Init PROVE AdminInv /\ OutboundInv OBVIOUS
<1> USE ConsoleAssumption
<1>1. AdminInv
  BY DEF Init, Admin!Init, AdminInv, Admin!TypeOK, HandlersKnow, SessionsAreIssued, SetupIsFirst,
         SessionsAreTheAdmins, Admin!SessionsAreTheAdmins, Admin!NoSessions, Admin!AllIdle,
         Admin!NoCreds, Admin!NoToks
<1>2. OutboundInv
  BY DEF Init, Outbound!Init, OutboundInv, Outbound!TypeOK, OneUpdate, UpdateIsAt, ProxyInForce,
         Outbound!ProxyInForce, Outbound!FileSays, Outbound!Settings,
         Outbound!NoUpdates, Outbound!NoURLs
<1> QED BY <1>1, <1>2

-----------------------------------------------------------------------------
(* The administrator and the sessions *)

LEMMA AdminUnchanged == AdminInv /\ UNCHANGED adminVars => AdminInv'
BY DEF AdminInv, Admin!TypeOK, HandlersKnow, SessionsAreIssued, SetupIsFirst,
       SessionsAreTheAdmins, Admin!SessionsAreTheAdmins, adminVars

(* A setup up to its writing of the file.                                  *)
LEMMA SetupInv ==
    ASSUME AdminInv, NEW h \in Handlers,
           \/ \E u \in Users : Admin!SetupCheck(h, u)
           \/ Admin!SetupAdmin(h) \/ Admin!SetupFails(h)
    PROVE  AdminInv'
<1> USE ConsoleAssumption DEF Admin!IsSetupRequired, Admin!Return
<1>1. ASSUME NEW u \in Users, Admin!SetupCheck(h, u)
      PROVE  AdminInv'
  <2>1. Admin!TypeOK' /\ HandlersKnow' /\ SessionsAreIssued'
    BY <1>1 DEF AdminInv, Admin!TypeOK, HandlersKnow, SessionsAreIssued, Admin!SetupCheck
  <2>2. SetupIsFirst' /\ SessionsAreTheAdmins'
    BY <1>1 DEF AdminInv, Admin!TypeOK, SetupIsFirst, SessionsAreTheAdmins,
                Admin!SessionsAreTheAdmins, Admin!SetupCheck
  <2> QED BY <2>1, <2>2 DEF AdminInv
<1>2. CASE Admin!SetupAdmin(h)
  <2>1. Admin!TypeOK' /\ HandlersKnow' /\ SessionsAreIssued'
    BY <1>2 DEF AdminInv, Admin!TypeOK, HandlersKnow, SessionsAreIssued, Admin!SetupAdmin
  <2>2. SetupIsFirst'
    BY <1>2 DEF AdminInv, Admin!TypeOK, SetupIsFirst, Admin!SetupAdmin
  <2>3. SessionsAreTheAdmins'
    BY <1>2 DEF AdminInv, Admin!TypeOK, SessionsAreIssued, SetupIsFirst, SessionsAreTheAdmins,
                Admin!SessionsAreTheAdmins, Admin!SetupAdmin
  <2> QED BY <2>1, <2>2, <2>3 DEF AdminInv
<1>3. CASE Admin!SetupFails(h)
  <2>1. Admin!TypeOK' /\ HandlersKnow' /\ SessionsAreIssued'
    BY <1>3 DEF AdminInv, Admin!TypeOK, HandlersKnow, SessionsAreIssued, Admin!SetupFails
  <2>2. SetupIsFirst'
    BY <1>3 DEF AdminInv, Admin!TypeOK, SetupIsFirst, Admin!SetupFails
  <2>3. SessionsAreTheAdmins'
    BY <1>3 DEF AdminInv, Admin!TypeOK, SessionsAreIssued, SetupIsFirst, SessionsAreTheAdmins,
                Admin!SessionsAreTheAdmins, Admin!SetupFails
  <2> QED BY <2>1, <2>2, <2>3 DEF AdminInv
<1> QED BY <1>1, <1>2, <1>3

(* Logins: a session is made for the user of admin.json.                   *)
LEMMA LoginInv ==
    ASSUME AdminInv, NEW h \in Handlers, NEW t \in Tokens,
           Admin!SetupLogin(h, t) \/ \E u \in Users : Admin!Login(h, u, t)
    PROVE  AdminInv'
<1> USE ConsoleAssumption
<1>1. /\ adminFile \in Users /\ issuedTo[t] = NoUser
      /\ sessions' = [sessions EXCEPT ![t] = "live"]
      /\ issuedTo' = [issuedTo EXCEPT ![t] = adminFile]
      /\ UNCHANGED <<adminFile, alive, rivals, misread>>
  BY DEF Admin!SetupLogin, Admin!Login, Admin!Insert, AdminInv, HandlersKnow
<1>2. \/ UNCHANGED <<pc, cred, tok>>
      \/ /\ pc' = [pc EXCEPT ![h] = "idle"]
         /\ cred' = [cred EXCEPT ![h] = NoUser] /\ tok' = [tok EXCEPT ![h] = NoToken]
  BY DEF Admin!SetupLogin, Admin!Login, Admin!Return, Admin!handlerVars
<1>3. Admin!TypeOK' /\ HandlersKnow'
  BY <1>1, <1>2 DEF AdminInv, Admin!TypeOK, HandlersKnow
<1>4. SessionsAreIssued'
  BY <1>1, <1>2 DEF AdminInv, Admin!TypeOK, SessionsAreIssued
<1>5. SetupIsFirst'
  BY <1>1, <1>2 DEF AdminInv, Admin!TypeOK, SetupIsFirst
<1>6. SessionsAreTheAdmins'
  BY <1>1, <1>2 DEF AdminInv, Admin!TypeOK, SessionsAreIssued, SessionsAreTheAdmins,
                    Admin!SessionsAreTheAdmins
<1> QED BY <1>3, <1>4, <1>5, <1>6 DEF AdminInv

(* The middleware, the end of a request, and the expiry of a session: the  *)
(* administrator stays and nobody gets a session.                          *)
LEMMA MiddlewareInv ==
    ASSUME AdminInv,
           \/ \E h \in Handlers : Admin!Middleware(h) \/ Admin!SetupLoginFails(h) \/ Admin!Finish(h)
           \/ \E t \in Tokens : Admin!Expire(t)
    PROVE  AdminInv'
<1> USE ConsoleAssumption DEF Admin!Return, Admin!handlerVars
<1>1. ASSUME NEW h \in Handlers, NEW t \in Tokens, Admin!ValidateSession(h, t)
      PROVE  AdminInv'
  <2>1. Admin!Outcome(t) \in {"admitted", "deleting", "idle"}
        /\ (Admin!Outcome(t) = "admitted" => sessions[t] = "live")
    BY DEF AdminInv, Admin!TypeOK, Admin!Outcome
  <2>2. Admin!TypeOK' /\ HandlersKnow' /\ SessionsAreIssued'
    BY <1>1, <2>1 DEF AdminInv, Admin!TypeOK, HandlersKnow, SessionsAreIssued, Admin!ValidateSession
  <2>3. SetupIsFirst' /\ SessionsAreTheAdmins'
    BY <1>1, <2>1 DEF AdminInv, Admin!TypeOK, SetupIsFirst, SessionsAreTheAdmins,
                      Admin!SessionsAreTheAdmins, Admin!ValidateSession
  <2> QED BY <2>2, <2>3 DEF AdminInv
<1>2. ASSUME NEW h \in Handlers, NEW t \in Tokens, Admin!FatalError(h, t)
      PROVE  AdminInv'
  BY <1>2 DEF AdminInv, Admin!TypeOK, HandlersKnow, SessionsAreIssued, SetupIsFirst,
              SessionsAreTheAdmins, Admin!SessionsAreTheAdmins, Admin!FatalError
<1>3. ASSUME NEW h \in Handlers, Admin!SessionRemoved(h)
      PROVE  AdminInv'
  BY <1>3 DEF AdminInv, Admin!TypeOK, HandlersKnow, SessionsAreIssued, SetupIsFirst,
              SessionsAreTheAdmins, Admin!SessionsAreTheAdmins, Admin!SessionRemoved
<1>4. ASSUME NEW h \in Handlers, Admin!SetupLoginFails(h) \/ Admin!Finish(h)
      PROVE  AdminInv'
  BY <1>4 DEF AdminInv, Admin!TypeOK, HandlersKnow, SessionsAreIssued, SetupIsFirst,
              SessionsAreTheAdmins, Admin!SessionsAreTheAdmins, Admin!SetupLoginFails, Admin!Finish
<1>5. ASSUME NEW t \in Tokens, Admin!Expire(t)
      PROVE  AdminInv'
  BY <1>5 DEF AdminInv, Admin!TypeOK, HandlersKnow, SessionsAreIssued, SetupIsFirst,
              SessionsAreTheAdmins, Admin!SessionsAreTheAdmins, Admin!Expire
<1> QED BY <1>1, <1>2, <1>3, <1>4, <1>5 DEF Admin!Middleware

LEMMA AdminRestartInv == ASSUME AdminInv, Admin!Restart PROVE AdminInv'
BY ConsoleAssumption
   DEF AdminInv, Admin!TypeOK, HandlersKnow, SessionsAreIssued, SetupIsFirst, SessionsAreTheAdmins,
       Admin!SessionsAreTheAdmins, Admin!Restart, Admin!NoSessions, Admin!AllIdle, Admin!NoCreds,
       Admin!NoToks

-----------------------------------------------------------------------------
(* The outbound proxy *)

LEMMA OutboundUnchanged == OutboundInv /\ UNCHANGED outboundVars => OutboundInv'
BY DEF OutboundInv, Outbound!TypeOK, OneUpdate, UpdateIsAt, ProxyInForce, Outbound!ProxyInForce,
       Outbound!NoUpdateUnderWay, Outbound!FileSays, outboundVars

LEMMA UpdateInv ==
    ASSUME OutboundInv, NEW h \in Handlers,
           \/ \E u \in URLs \cup {NoProxy} : Outbound!Truncate(h, u)
           \/ Outbound!WriteConfig(h) \/ Outbound!SetProxyURL(h) \/ Outbound!BuildClients(h)
    PROVE  OutboundInv'
<1> USE ConsoleAssumption DEF Outbound!Settings
<1>1. at'[h] # "none"
  BY DEF OutboundInv, Outbound!TypeOK, Outbound!Truncate, Outbound!WriteConfig,
         Outbound!SetProxyURL, Outbound!BuildClients
<1>2. ProxyInForce'
  BY <1>1 DEF ProxyInForce, Outbound!ProxyInForce, Outbound!NoUpdateUnderWay
<1>3. ASSUME NEW u \in URLs \cup {NoProxy}, Outbound!Truncate(h, u)
      PROVE  OutboundInv'
  <2>1. Outbound!TypeOK'
    BY <1>3 DEF OutboundInv, Outbound!TypeOK, Outbound!Truncate
  <2>2. OneUpdate' /\ (~overlapped' /\ ~mishap' => \A g \in Handlers : UpdateIsAt(g)')
    BY <1>3 DEF OutboundInv, Outbound!TypeOK, OneUpdate, UpdateIsAt, Outbound!Truncate
  <2> QED BY <1>2, <2>1, <2>2 DEF OutboundInv
<1>4. CASE Outbound!WriteConfig(h)
  <2>1. Outbound!TypeOK'
    BY <1>4 DEF OutboundInv, Outbound!TypeOK, Outbound!WriteConfig
  <2>2. OneUpdate' /\ (~overlapped' /\ ~mishap' => \A g \in Handlers : UpdateIsAt(g)')
    BY <1>4 DEF OutboundInv, Outbound!TypeOK, OneUpdate, UpdateIsAt, Outbound!WriteConfig
  <2> QED BY <1>2, <2>1, <2>2 DEF OutboundInv
<1>5. CASE Outbound!SetProxyURL(h)
  <2>1. Outbound!TypeOK'
    BY <1>5 DEF OutboundInv, Outbound!TypeOK, Outbound!SetProxyURL
  <2>2. OneUpdate' /\ (~overlapped' /\ ~mishap' => \A g \in Handlers : UpdateIsAt(g)')
    BY <1>5 DEF OutboundInv, Outbound!TypeOK, OneUpdate, UpdateIsAt, Outbound!SetProxyURL
  <2> QED BY <1>2, <2>1, <2>2 DEF OutboundInv
<1>6. CASE Outbound!BuildClients(h)
  <2>1. Outbound!TypeOK'
    BY <1>6 DEF OutboundInv, Outbound!TypeOK, Outbound!BuildClients
  <2>2. OneUpdate' /\ (~overlapped' /\ ~mishap' => \A g \in Handlers : UpdateIsAt(g)')
    BY <1>6 DEF OutboundInv, Outbound!TypeOK, OneUpdate, UpdateIsAt, Outbound!BuildClients
  <2> QED BY <1>2, <2>1, <2>2 DEF OutboundInv
<1> QED BY <1>3, <1>4, <1>5, <1>6

(* The end of an update that was alone: all three name its proxy.          *)
LEMMA UpdateEndInv ==
    ASSUME OutboundInv, NEW h \in Handlers, Outbound!SwapClients(h) \/ Outbound!WriteFails(h)
    PROVE  OutboundInv'
<1> USE ConsoleAssumption DEF Outbound!Settings, Outbound!Return
<1>1. Outbound!TypeOK' /\ OneUpdate'
  BY DEF OutboundInv, Outbound!TypeOK, OneUpdate, Outbound!SwapClients, Outbound!WriteFails
<1>2. ~overlapped' /\ ~mishap' => \A g \in Handlers : UpdateIsAt(g)'
  BY DEF OutboundInv, Outbound!TypeOK, UpdateIsAt, Outbound!SwapClients, Outbound!WriteFails
<1>3. ProxyInForce'
  <2> SUFFICES ASSUME ~overlapped', ~mishap' PROVE clients' = proxyURL' /\ proxyURL' = Outbound!FileSays'
    BY DEF ProxyInForce, Outbound!ProxyInForce
  <2>1. Outbound!SwapClients(h) /\ ~overlapped /\ ~mishap
    BY DEF Outbound!SwapClients, Outbound!WriteFails
  <2>2. proxyFile = url[h] /\ proxyURL = url[h] /\ built[h] = url[h] /\ url[h] \in URLs \cup {NoProxy}
    BY <2>1 DEF OutboundInv, Outbound!TypeOK, UpdateIsAt, Outbound!SwapClients
  <2> QED BY <2>1, <2>2 DEF Outbound!SwapClients, Outbound!FileSays
<1> QED BY <1>1, <1>2, <1>3 DEF OutboundInv

LEMMA StartupInv == ASSUME OutboundInv, Outbound!Startup PROVE OutboundInv'
BY ConsoleAssumption
   DEF OutboundInv, Outbound!TypeOK, OneUpdate, UpdateIsAt, ProxyInForce, Outbound!ProxyInForce,
       Outbound!FileSays, Outbound!GetProxyConfig, Outbound!Settings, Outbound!Startup,
       Outbound!NoUpdates, Outbound!NoURLs

-----------------------------------------------------------------------------
LEMMA NextInv == AdminInv /\ OutboundInv /\ [Next]_vars => AdminInv' /\ OutboundInv'
<1> SUFFICES ASSUME AdminInv, OutboundInv, [Next]_vars PROVE AdminInv' /\ OutboundInv' OBVIOUS
<1>1. CASE UNCHANGED vars
  BY <1>1, AdminUnchanged, OutboundUnchanged DEF vars
<1>2. ASSUME NEW h \in Handlers, Authenticate(h)
      PROVE  AdminInv' /\ OutboundInv'
  <2>1. AdminInv'
    BY <1>2, SetupInv, LoginInv, MiddlewareInv DEF Authenticate, Admin!Unprotected
  <2> QED BY <1>2, <2>1, OutboundUnchanged DEF Authenticate
<1>3. ASSUME NEW h \in Handlers, UpdateBegins(h) \/ UpdateGoesOn(h)
      PROVE  AdminInv' /\ OutboundInv'
  BY <1>3, AdminUnchanged, UpdateInv DEF UpdateBegins, UpdateGoesOn
<1>4. ASSUME NEW h \in Handlers, UpdateEnds(h)
      PROVE  AdminInv' /\ OutboundInv'
  BY <1>4, MiddlewareInv, UpdateEndInv DEF UpdateEnds
<1>5. ASSUME NEW h \in Handlers, OtherRoute(h)
      PROVE  AdminInv' /\ OutboundInv'
  BY <1>5, MiddlewareInv, OutboundUnchanged DEF OtherRoute
<1>6. CASE SessionExpires
  BY <1>6, MiddlewareInv, OutboundUnchanged DEF SessionExpires
<1>7. CASE Restart
  BY <1>7, AdminRestartInv, StartupInv DEF Restart
<1> QED BY <1>1, <1>2, <1>3, <1>4, <1>5, <1>6, <1>7 DEF Next

LEMMA InvHolds == Spec => [](AdminInv /\ OutboundInv)
BY InitInv, NextInv, PTL DEF Spec

(* The variables of both parts keep their types.                           *)
THEOREM TypeCorrect == Spec => []TypeOK
<1>1. AdminInv /\ OutboundInv => TypeOK BY DEF AdminInv, OutboundInv, TypeOK
<1> QED BY <1>1, InvHolds, PTL

(* Nobody but the administrator is let in, whatever setups fail, whenever  *)
(* the process dies and however requests interleave with the removal of    *)
(* sessions.                                                               *)
THEOREM OnlyTheAdminGetsIn == Spec => []SessionsAreTheAdmins
<1>1. AdminInv => SessionsAreTheAdmins BY DEF AdminInv
<1> QED BY <1>1, InvHolds, PTL

(* After an update that was alone, and after every start, the clients and  *)
(* the setting name one proxy, and it is the file's if the start could read*)
(* that.                                                                   *)
THEOREM OneProxyInForce == Spec => []ProxyInForce
<1>1. OutboundInv => ProxyInForce BY DEF OutboundInv
<1> QED BY <1>1, InvHolds, PTL

-----------------------------------------------------------------------------
(* GitHub's device sign-in. *)

(* A call that has gone on to complete the sign-in.                        *)
Completing(c) == call[c] \in {"complete", "add", "cleanup", "created"}

(* A session that can be looked up, or is polled for, has a status.        *)
SessionHasStatus == listed \/ poller # "none" => status # "none"

(* handleCompleteAuth has seen the token before it adds an account.        *)
TokenBeforeAccount == accounts > 0 \/ (\E c \in Calls : call[c] = "add") => hasToken

(* The timer starts once, with the session, and stops for good when a call *)
(* goes on to complete it.                                                 *)
TimerRunsOnce ==
    /\ starting # "over" => ~interval /\ accounts = 0 /\ \A c \in Calls : call[c] = "free"
    /\ interval => accounts = 0 /\ \A c \in Calls : ~Completing(c)

(* Polls that do not overlap: one call at a time, and none that could add  *)
(* an account once there is one.                                           *)
OneCall ==
    ~pollsOverlapped =>
        /\ \A c, d \in Calls : c # d => call[c] = "free" \/ call[d] = "free"
        /\ accounts # 0 =>
               accounts = 1 /\ \A c \in Calls : call[c] \in {"free", "cleanup", "created"}

(* Without the timer, it is a call that completes the sign-in that the form*)
(* is waiting for.                                                         *)
SomeoneCompletes ==
    form = "authorize" => interval \/ gaveUp \/ unexplained \/ \E c \in Calls : Completing(c)

(* The inductive invariant. *)
SignInInv ==
    /\ SignInTypeOK
    /\ SessionHasStatus
    /\ TokenBeforeAccount
    /\ TimerRunsOnce
    /\ OneCall
    /\ SomeoneCompletes

-----------------------------------------------------------------------------
LEMMA SignInInvInit == SignInInit => SignInInv
<1> SUFFICES ASSUME SignInInit PROVE SignInInv OBVIOUS
<1>1. SignInTypeOK
  BY DEF SignInInit, SignInTypeOK, FormTypeOK, SessionTypeOK, HistoryTypeOK, Stages
<1>2. SessionHasStatus /\ TokenBeforeAccount /\ TimerRunsOnce /\ OneCall /\ SomeoneCompletes
  BY DEF SignInInit, SessionHasStatus, TokenBeforeAccount, TimerRunsOnce, OneCall,
         SomeoneCompletes, Completing
<1> QED BY <1>1, <1>2 DEF SignInInv

(* The form's own steps.                                                   *)
LEMMA FormInv ==
    ASSUME SignInInv,
           StartAuth \/ StartDeviceFlow \/
           GotSession \/ LostSession \/ Close
    PROVE  SignInInv'
<1> USE DEF sessionVars, historyVars
<1> USE DEF StartAuth, StartDeviceFlow, GotSession, LostSession,
            Close
<1>1. SignInTypeOK'
  <2>1. FormTypeOK'
    BY DEF SignInInv, SignInTypeOK, FormTypeOK
  <2>2. SessionTypeOK'
    BY DEF SignInInv, SignInTypeOK, SessionTypeOK
  <2>3. accounts' \in Nat /\ HistoryTypeOK'
    BY DEF SignInInv, SignInTypeOK, HistoryTypeOK
  <2> QED BY <2>1, <2>2, <2>3 DEF SignInTypeOK
<1>2. SessionHasStatus' /\ TokenBeforeAccount'
  BY DEF SignInInv, SignInTypeOK, FormTypeOK, SessionTypeOK, SessionHasStatus, TokenBeforeAccount
<1>3. TimerRunsOnce' /\ OneCall'
  BY DEF SignInInv, SignInTypeOK, FormTypeOK, SessionTypeOK, TimerRunsOnce, OneCall, Completing
<1>4. SomeoneCompletes'
  BY DEF SignInInv, SignInTypeOK, FormTypeOK, SessionTypeOK, SomeoneCompletes, Completing
<1> QED BY <1>1, <1>2, <1>3, <1>4 DEF SignInInv

(* pollForToken and the clock touch neither the form nor its calls.        *)
LEMMA PollerInv ==
    ASSUME SignInInv, pollForToken \/ CodeExpires
    PROVE  SignInInv'
<1>1. UNCHANGED <<formVars, accounts, historyVars>> /\ (hasToken => hasToken')
  BY DEF SignInInv, SignInTypeOK, pollForToken, Tick, requestToken, WriteToken, WriteExpiry,
         StoreSession, CodeExpires, PollerUnchanged
<1>2. /\ status' \in {status, "completed", "expired"} /\ (status' # status => poller # "none")
      /\ poller' \in {"waiting", "asking", "granted", "expiring", "storing", "ended"}
         \/ poller' = poller
      /\ hasToken' \in {hasToken, TRUE} /\ hasError' \in {hasError, TRUE}
      /\ listed' \in {listed, TRUE} /\ expired' \in {expired, TRUE}
      /\ (listed' # listed \/ poller' # poller => poller # "none")
  <2> USE DEF PollerUnchanged
  <2>1. CASE Tick \/ requestToken
    BY <2>1 DEF Tick, requestToken
  <2>2. CASE WriteToken
    BY <2>2 DEF WriteToken
  <2>3. CASE WriteExpiry
    BY <2>3 DEF WriteExpiry
  <2>4. CASE StoreSession \/ CodeExpires
    BY <2>4 DEF StoreSession, CodeExpires
  <2> QED BY <2>1, <2>2, <2>3, <2>4 DEF pollForToken
<1>3. SignInTypeOK'
  <2>1. UNCHANGED <<form, starting, interval, call, accounts>>
    BY <1>1 DEF formVars
  <2>4. FormTypeOK' /\ accounts' \in Nat
    BY <2>1 DEF SignInInv, SignInTypeOK, FormTypeOK
  <2>2. SessionTypeOK'
    BY <1>2 DEF SignInInv, SignInTypeOK, SessionTypeOK
  <2>3. HistoryTypeOK'
    BY <1>1 DEF SignInInv, SignInTypeOK, HistoryTypeOK, historyVars
  <2> QED BY <2>2, <2>3, <2>4 DEF SignInTypeOK
<1>5. SessionHasStatus'
  BY <1>1, <1>2 DEF SignInInv, SessionHasStatus
<1>4. TokenBeforeAccount' /\ TimerRunsOnce' /\ OneCall' /\ SomeoneCompletes'
  BY <1>1 DEF SignInInv, TokenBeforeAccount, TimerRunsOnce, OneCall, SomeoneCompletes, Completing,
              formVars, historyVars
<1> QED BY <1>3, <1>4, <1>5 DEF SignInInv

(* A step of one call keeps the types if it keeps those of the rest.       *)
LEMMA CallType ==
    ASSUME SignInTypeOK, NEW c \in Calls, NEW to \in Stages, call' = [call EXCEPT ![c] = to],
           form' \in {"config", "authorize", "done", "failed", "closed"},
           interval' \in BOOLEAN, listed' \in BOOLEAN, accounts' \in Nat,
           pollsOverlapped' \in BOOLEAN, gaveUp' \in BOOLEAN, unexplained' \in BOOLEAN,
           UNCHANGED <<starting, status, hasToken, hasError, poller, expired>>
    PROVE  SignInTypeOK'
<1>1. FormTypeOK'
  BY DEF SignInTypeOK, FormTypeOK
<1>2. SessionTypeOK'
  BY DEF SignInTypeOK, SessionTypeOK
<1>3. HistoryTypeOK'
  BY DEF HistoryTypeOK
<1> QED BY <1>1, <1>2, <1>3 DEF SignInTypeOK

LEMMA IntervalInv ==
    ASSUME SignInInv, NEW c \in Calls, IntervalFires(c)
    PROVE  SignInInv'
<1> USE DEF IntervalFires, CallGoes, sessionVars
<1>1. SignInTypeOK'
  <2>1. "poll" \in Stages /\ call' = [call EXCEPT ![c] = "poll"]
    BY DEF Stages
  <2>2. pollsOverlapped' \in BOOLEAN
    OBVIOUS
  <2> QED BY <2>1, <2>2, CallType DEF SignInInv, SignInTypeOK, FormTypeOK, SessionTypeOK, HistoryTypeOK
<1>2. SessionHasStatus' /\ TokenBeforeAccount'
  BY DEF SignInInv, SignInTypeOK, FormTypeOK, SessionTypeOK, SessionHasStatus, TokenBeforeAccount
<1>3. TimerRunsOnce' /\ SomeoneCompletes'
  BY DEF SignInInv, SignInTypeOK, FormTypeOK, SessionTypeOK, TimerRunsOnce, SomeoneCompletes, Completing
<1>4. OneCall'
  <2> SUFFICES ASSUME ~pollsOverlapped' PROVE OneCall'
    BY DEF OneCall
  <2>1. \A d \in Calls : call[d] = "free"
    BY DEF SignInInv, SignInTypeOK, FormTypeOK, Stages, TimerRunsOnce, Completing, Unsettled
  <2> QED BY <2>1 DEF SignInInv, SignInTypeOK, FormTypeOK, SessionTypeOK, TimerRunsOnce, OneCall
<1> QED BY <1>1, <1>2, <1>3, <1>4 DEF SignInInv

(* A call that polls, up to what the form makes of it.                     *)
LEMMA PollInv ==
    ASSUME SignInInv, NEW c \in Calls,
           PollSession(c) \/ SawExpired(c) \/ SawCompleted(c)
    PROVE  SignInInv'
<1> USE DEF PollSession, SawExpired, SawCompleted, CallGoes,
            CallUnchanged, historyVars
<1>1. SignInTypeOK'
  <2>1. SignInTypeOK /\ (listed => status \in {"pending", "completed", "expired"})
    BY DEF SignInInv, SignInTypeOK, FormTypeOK, SessionTypeOK, SessionHasStatus
  <2>2. \E to \in Stages : call' = [call EXCEPT ![c] = to]
    BY <2>1 DEF Stages
  <2>3. /\ form' \in {"config", "authorize", "done", "failed", "closed"}
        /\ interval' \in BOOLEAN /\ unexplained' \in BOOLEAN
    BY <2>1 DEF SignInTypeOK, FormTypeOK, SessionTypeOK, HistoryTypeOK
  <2>4. UNCHANGED <<listed, accounts, starting, status, hasToken, hasError, poller, expired,
                   pollsOverlapped, gaveUp>>
    OBVIOUS
  <2>5. /\ listed' \in BOOLEAN /\ accounts' \in Nat
        /\ pollsOverlapped' \in BOOLEAN /\ gaveUp' \in BOOLEAN
    BY <2>1, <2>4 DEF SignInTypeOK, SessionTypeOK, HistoryTypeOK
  <2> QED BY <2>1, <2>2, <2>3, <2>4, <2>5, CallType
<1>2. SessionHasStatus' /\ TokenBeforeAccount'
  BY DEF SignInInv, SignInTypeOK, FormTypeOK, SessionTypeOK, SessionHasStatus, TokenBeforeAccount
<1>3. TimerRunsOnce'
  BY DEF SignInInv, SignInTypeOK, FormTypeOK, SessionTypeOK, TimerRunsOnce, Completing
<1>4. OneCall'
  BY DEF SignInInv, SignInTypeOK, FormTypeOK, SessionTypeOK, OneCall
<1>5. SomeoneCompletes'
  BY DEF SignInInv, SignInTypeOK, FormTypeOK, SessionTypeOK, SomeoneCompletes, Completing
<1> QED BY <1>1, <1>2, <1>3, <1>4, <1>5 DEF SignInInv

(* A call that completes the sign-in, or ends.                             *)
LEMMA CompleteInv ==
    ASSUME SignInInv, NEW c \in Calls,
           CallEnds(c) \/ CompleteCheck(c) \/ AddAccount(c) \/
           CleanupSession(c) \/ Created(c)
    PROVE  SignInInv'
<1> USE DEF CallEnds, CompleteCheck, AddAccount, CleanupSession,
            Created, CallGoes, FailsIf,
            CallUnchanged, historyVars
<1>1. SignInTypeOK'
  <2>1. SignInTypeOK
    BY DEF SignInInv
  <2>2. \E to \in Stages : call' = [call EXCEPT ![c] = to]
    BY DEF Stages
  <2>3. /\ form' \in {"config", "authorize", "done", "failed", "closed"}
        /\ accounts' \in Nat
    BY <2>1 DEF SignInTypeOK, FormTypeOK, SessionTypeOK, HistoryTypeOK
  <2>4. listed' \in BOOLEAN /\ gaveUp' \in BOOLEAN
    BY <2>1 DEF SignInTypeOK, FormTypeOK, SessionTypeOK, HistoryTypeOK
  <2>5. UNCHANGED <<interval, starting, status, hasToken, hasError, poller, expired,
                   pollsOverlapped, unexplained>>
    OBVIOUS
  <2> QED BY <2>1, <2>2, <2>3, <2>4, <2>5, CallType DEF SignInTypeOK, FormTypeOK, HistoryTypeOK
<1>2. SessionHasStatus' /\ TokenBeforeAccount'
  BY DEF SignInInv, SignInTypeOK, FormTypeOK, SessionTypeOK, SessionHasStatus, TokenBeforeAccount
<1>3. TimerRunsOnce'
  BY DEF SignInInv, SignInTypeOK, FormTypeOK, SessionTypeOK, TimerRunsOnce, Completing
<1>4. OneCall'
  BY DEF SignInInv, SignInTypeOK, FormTypeOK, SessionTypeOK, OneCall
<1>5. SomeoneCompletes'
  BY DEF SignInInv, SignInTypeOK, FormTypeOK, SessionTypeOK, SomeoneCompletes, Completing
<1> QED BY <1>1, <1>2, <1>3, <1>4, <1>5 DEF SignInInv

LEMMA SignInRestartInv == ASSUME SignInInv, SignInRestart PROVE SignInInv'
<1> DEFINE cut == {c \in Calls : call[c] \in {"poll", "complete", "add", "cleanup"}}
<1>1. /\ listed' = FALSE
      /\ poller' = IF poller = "none" THEN "none" ELSE "ended"
      /\ starting' = IF starting = "sent" THEN "no" ELSE starting
      /\ call' = [c \in Calls |-> IF c \in cut THEN "free" ELSE call[c]]
      /\ gaveUp' = (gaveUp \/ \E c \in cut : call[c] # "poll")
      /\ UNCHANGED <<form, interval, status, hasToken, hasError, expired, accounts,
                     pollsOverlapped, unexplained>>
  BY DEF SignInRestart
<1>2. SignInTypeOK'
  <2>1. SignInTypeOK
    BY DEF SignInInv
  <2>2. FormTypeOK'
    BY <1>1, <2>1 DEF SignInTypeOK, FormTypeOK, Stages
  <2>3. SessionTypeOK'
    BY <1>1, <2>1 DEF SignInTypeOK, SessionTypeOK
  <2>4. accounts' \in Nat /\ HistoryTypeOK'
    BY <1>1, <2>1 DEF SignInTypeOK, HistoryTypeOK
  <2> QED BY <2>2, <2>3, <2>4 DEF SignInTypeOK
<1>3. SessionHasStatus' /\ TokenBeforeAccount' /\ TimerRunsOnce'
  BY <1>1 DEF SignInInv, SignInTypeOK, FormTypeOK, SessionTypeOK, SessionHasStatus, TokenBeforeAccount, TimerRunsOnce,
              Completing
<1>4. OneCall'
  BY <1>1 DEF SignInInv, SignInTypeOK, FormTypeOK, SessionTypeOK, OneCall
<1>5. SomeoneCompletes'
  BY <1>1 DEF SignInInv, SignInTypeOK, FormTypeOK, SessionTypeOK, SomeoneCompletes, Completing
<1> QED BY <1>2, <1>3, <1>4, <1>5 DEF SignInInv

LEMMA SignInInvNext == SignInInv /\ [SignInNext]_signInVars => SignInInv'
<1> SUFFICES ASSUME SignInInv, [SignInNext]_signInVars PROVE SignInInv' OBVIOUS
<1>1. CASE UNCHANGED signInVars
  BY <1>1 DEF SignInInv, SignInTypeOK, FormTypeOK, SessionTypeOK, HistoryTypeOK,
              SessionHasStatus, TokenBeforeAccount, TimerRunsOnce, OneCall,
              SomeoneCompletes, Completing, signInVars, formVars, sessionVars,
              historyVars
<1>2. CASE StartAuth \/ StartDeviceFlow \/
          GotSession \/ LostSession \/ Close
  BY <1>2, FormInv
<1>3. CASE pollForToken \/ CodeExpires
  BY <1>3, PollerInv
<1>4. ASSUME NEW c \in Calls, IntervalFires(c)
      PROVE  SignInInv'
  BY <1>4, IntervalInv
<1>5. ASSUME NEW c \in Calls, Call(c)
      PROVE  SignInInv'
  BY <1>5, PollInv, CompleteInv DEF Call
<1>6. CASE SignInRestart
  BY <1>6, SignInRestartInv
<1> QED BY <1>1, <1>2, <1>3, <1>4, <1>5, <1>6 DEF SignInNext

LEMMA SignInInvHolds == SignInSpec => []SignInInv
BY SignInInvInit, SignInInvNext, PTL DEF SignInSpec

-----------------------------------------------------------------------------
(* The variables keep their types: no poll is answered with a status that  *)
(* is none.                                                                *)
THEOREM SignInTypeCorrect == SignInSpec => []SignInTypeOK
<1>1. SignInInv => SignInTypeOK BY DEF SignInInv
<1> QED BY <1>1, SignInInvHolds, PTL

(* No account is made without GitHub's token, in whatever order the fields *)
(* of the session become visible.                                          *)
THEOREM NoAccountWithoutToken == SignInSpec => []AccountsHaveTokens
<1>1. SignInInv => AccountsHaveTokens
  BY DEF SignInInv, TokenBeforeAccount, AccountsHaveTokens
<1> QED BY <1>1, SignInInvHolds, PTL

(* If polls do not overlap, a sign-in makes at most one account, whatever  *)
(* calls fail or come late.                                                *)
THEOREM OneAccount == SignInSpec => []OneSignInOneAccount
<1>1. SignInInv => OneSignInOneAccount
  BY DEF SignInInv, SignInTypeOK, FormTypeOK, SessionTypeOK, OneCall, OneSignInOneAccount
<1> QED BY <1>1, SignInInvHolds, PTL

(* The form never waits for nothing, unless completing has failed or it was*)
(* told of an expiry without its error.                                    *)
THEOREM FormNeverWaitsForNothing == SignInSpec => []KeepsTrying
<1>1. SignInInv => KeepsTrying
  BY DEF SignInInv, SignInTypeOK, FormTypeOK, SessionTypeOK, SomeoneCompletes, Completing, KeepsTrying
<1> QED BY <1>1, SignInInvHolds, PTL
=============================================================================
