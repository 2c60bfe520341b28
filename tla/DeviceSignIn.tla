----------------------------- MODULE DeviceSignIn -----------------------------
(***************************************************************************)
(* Adding an account with GitHub's device flow: src/auth/device_flow.go,   *)
(* its handlers in src/handler/console_api.go, and the form of the console *)
(* (src/web/src/components/AddAccountForm.tsx) that drives them.           *)
(*                                                                         *)
(* One sign-in: the form asks for a session; pollForToken asks GitHub until*)
(* the user has agreed or the code expires; meanwhile an interval timer of *)
(* the form starts a call every 3 seconds, which polls the session and,    *)
(* when that is completed, sends completeAuth.  Calls are asynchronous: one*)
(* may start while others are still on their way.                          *)
(*                                                                         *)
(* The session's fields are shared without a lock: pollForToken writes     *)
(* Status, and AccessToken or Error, while handlers read them, in an order *)
(* that only the build decides.  (A string that is read half written equals*)
(* no other, or panics in the handler, which is one more way for a call to *)
(* fail.)                                                                  *)
(***************************************************************************)
EXTENDS Naturals

CONSTANT
    Calls           \* asynchronous calls of the form that are under way at once

VARIABLES
    form,              \* the form's step; "failed" if it shows an error and
                       \* "authorize" if none, "closed" if gone
    starting,          \* where startAuth's call of handleDeviceCode is
    interval,          \* whether the interval timer runs
    call,              \* where each call of the timer is
    status,            \* session.Status, "none" before there is a session
    hasToken,          \* whether session.AccessToken is set
    hasError,          \* whether session.Error is
    listed,            \* whether authSessions has the session
    poller,            \* where pollForToken is
    expired,           \* whether ExpiresAt has passed
    accounts,          \* the number of accounts made from this session
    pollsOverlapped,   \* whether a poll was sent before the last was settled (history)
    gaveUp,            \* whether completing the sign-in has failed (history)
    unexplained        \* whether the form was told of an expiry without its
                       \* error (history)

formVars == <<form, starting, interval, call>>
sessionVars == <<status, hasToken, hasError, listed, poller, expired>>
historyVars == <<pollsOverlapped, gaveUp, unexplained>>
signInVars == <<formVars, sessionVars, accounts, historyVars>>

Stages == {"free", "poll", "pending", "completed", "expired", "blank",
           "complete", "add", "cleanup", "created"}

FormTypeOK ==
    /\ form \in {"config", "authorize", "done", "failed", "closed"}
    /\ starting \in {"no", "sent", "answered", "over"}
    /\ interval \in BOOLEAN
    /\ call \in [Calls -> Stages]

SessionTypeOK ==
    /\ status \in {"none", "pending", "completed", "expired"}
    /\ hasToken \in BOOLEAN /\ hasError \in BOOLEAN
    /\ listed \in BOOLEAN
    /\ poller \in {"none", "waiting", "asking", "granted", "expiring", "storing", "ended"}
    /\ expired \in BOOLEAN

HistoryTypeOK == pollsOverlapped \in BOOLEAN /\ gaveUp \in BOOLEAN /\ unexplained \in BOOLEAN

SignInTypeOK == FormTypeOK /\ SessionTypeOK /\ accounts \in Nat /\ HistoryTypeOK

SignInInit ==
    /\ form = "config" /\ starting = "no" /\ interval = FALSE
    /\ call = [c \in Calls |-> "free"]
    /\ status = "none" /\ hasToken = FALSE /\ hasError = FALSE /\ listed = FALSE
    /\ poller = "none" /\ expired = FALSE
    /\ accounts = 0
    /\ pollsOverlapped = FALSE /\ gaveUp = FALSE /\ unexplained = FALSE

-----------------------------------------------------------------------------
(* Starting and closing *)

(* startAuth *)
StartAuth ==
    /\ form = "config" /\ starting = "no"
    /\ starting' = "sent"
    /\ UNCHANGED <<form, interval, call, sessionVars, accounts, historyVars>>

(* handleDeviceCode: StartDeviceFlow gets a code from GitHub, lists the    *)
(* session and starts pollForToken; or something fails.                    *)
StartDeviceFlow ==
    /\ starting = "sent"
    /\ \/ /\ starting' = "answered"
          /\ status' = "pending" /\ listed' = TRUE /\ poller' = "waiting"
       \/ starting' = "no" /\ UNCHANGED <<status, listed, poller>>
    /\ UNCHANGED <<form, interval, call, hasToken, hasError, expired, accounts, historyVars>>

(* The form has the session.  The timer is started even if the form was    *)
(* closed, and its cleanup run, in the meantime.                           *)
GotSession ==
    /\ starting = "answered"
    /\ starting' = "over"
    /\ interval' = TRUE
    /\ form' = IF form = "config" THEN "authorize" ELSE form
    /\ UNCHANGED <<call, sessionVars, accounts, historyVars>>

(* The answer does not arrive: the form offers to start again, which would *)
(* be another sign-in.  Nobody tells pollForToken.                         *)
LostSession ==
    /\ starting = "answered"
    /\ starting' = "over"
    /\ UNCHANGED <<form, interval, call, sessionVars, accounts, historyVars>>

(* The user cancels, or leaves the page of the form: cleanup().            *)
Close ==
    /\ form \in {"config", "authorize", "failed"}
    /\ form' = "closed"
    /\ interval' = FALSE
    /\ UNCHANGED <<starting, call, sessionVars, accounts, historyVars>>

-----------------------------------------------------------------------------
(* pollForToken *)

PollerUnchanged == UNCHANGED <<formVars, expired, accounts, historyVars>>

(* Mutant: whether the code has expired is left to GitHub.                 *)
Tick_NoExpiry ==
    /\ poller = "waiting"
    /\ poller' = "asking"
    /\ UNCHANGED <<status, hasToken, hasError, listed>>
    /\ PollerUnchanged

(* The ticker fires.                                                       *)
Tick ==
    /\ poller = "waiting"
    /\ poller' = IF expired THEN "expiring" ELSE "asking"
    /\ UNCHANGED <<status, hasToken, hasError, listed>>
    /\ PollerUnchanged

(* requestToken: not yet, slow down, denied or failed, on to the next tick;*)
(* or the token.                                                           *)
requestToken ==
    /\ poller = "asking"
    /\ poller' \in {"waiting", "granted"}
    /\ UNCHANGED <<status, hasToken, hasError, listed>>
    /\ PollerUnchanged

(* The two writes, in either order as others see them, ...                 *)
WriteToken ==
    /\ poller = "granted"
    /\ \/ status # "completed" /\ status' = "completed" /\ UNCHANGED hasToken
       \/ ~hasToken /\ hasToken' = TRUE /\ UNCHANGED status
    /\ poller' = IF status' = "completed" /\ hasToken' THEN "storing" ELSE poller
    /\ UNCHANGED <<hasError, listed>>
    /\ PollerUnchanged

WriteExpiry ==
    /\ poller = "expiring"
    /\ \/ status # "expired" /\ status' = "expired" /\ UNCHANGED hasError
       \/ ~hasError /\ hasError' = TRUE /\ UNCHANGED status
    /\ poller' = IF status' = "expired" /\ hasError' THEN "storing" ELSE poller
    /\ UNCHANGED <<hasToken, listed>>
    /\ PollerUnchanged

(* ... and the session is listed, perhaps not for the first time.          *)
StoreSession ==
    /\ poller = "storing"
    /\ listed' = TRUE
    /\ poller' = "ended"
    /\ UNCHANGED <<status, hasToken, hasError>>
    /\ PollerUnchanged

-----------------------------------------------------------------------------
(* The timer's calls *)

CallGoes(c, from, to) == call[c] = from /\ call' = [call EXCEPT ![c] = to]

CallUnchanged == UNCHANGED <<starting, status, hasToken, hasError, poller, expired, historyVars>>

\* The call was to complete the sign-in; `interval` is off by then.
FailsIf(failed) ==
    /\ gaveUp' = (gaveUp \/ failed)
    /\ UNCHANGED <<starting, status, hasToken, hasError, poller, expired, pollsOverlapped, unexplained>>

\* A call whose poll the form has not yet acted on.
Unsettled(c) == call[c] \in {"poll", "pending", "completed", "expired", "blank"}

IntervalFires(c) ==
    /\ interval
    /\ CallGoes(c, "free", "poll")
    /\ pollsOverlapped' = (pollsOverlapped \/ \E d \in Calls : Unsettled(d))
    /\ UNCHANGED <<form, interval, sessionVars, accounts, starting, gaveUp, unexplained>>

(* handlePollSession: the session's status, and its error; 404 if it is not*)
(* listed.                                                                 *)
PollSession(c) ==
    /\ CallGoes(c, "poll", CASE ~listed -> "free"
                             [] listed /\ status = "expired" /\ ~hasError -> "blank"
                             [] OTHER -> status)
    /\ UNCHANGED <<form, interval, listed, accounts>> /\ CallUnchanged

(* Nothing was read of interest, or the call failed somewhere, or its      *)
(* answer was lost: "poll error, keep trying".                             *)
CallEnds(c) ==
    /\ \E from \in {"poll", "pending", "completed", "expired", "blank", "complete", "created"} :
          CallGoes(c, from, "free") /\ FailsIf(from \in {"complete", "created"})
    /\ UNCHANGED <<form, interval, listed, accounts>>

(* Mutant: the timer is stopped without a word.                            *)
SawExpired_Silent(c) ==
    /\ CallGoes(c, "expired", "free")
    /\ interval' = FALSE
    /\ UNCHANGED <<form, listed, accounts>> /\ CallUnchanged

(* cleanup(), and the form shows the session's error: with `??` an empty   *)
(* one is shown too, and replaces one that is there.                       *)
SawExpired(c) ==
    /\ interval' = FALSE
    /\ \/ /\ CallGoes(c, "expired", "free")
          /\ form' = IF form = "authorize" THEN "failed" ELSE form
          /\ UNCHANGED unexplained
       \/ /\ CallGoes(c, "blank", "free")
          /\ form' = IF form = "failed" THEN "authorize" ELSE form
          /\ unexplained' = TRUE
    /\ UNCHANGED <<starting, status, hasToken, hasError, listed, poller, expired, accounts,
                   pollsOverlapped, gaveUp>>

(* Mutant: the timer is left running.                                      *)
SawCompleted_KeepsTimer(c) ==
    /\ CallGoes(c, "completed", "complete")
    /\ UNCHANGED <<form, interval, listed, accounts>> /\ CallUnchanged

(* cleanup(), then completeAuth is sent.                                   *)
SawCompleted(c) ==
    /\ CallGoes(c, "completed", "complete")
    /\ interval' = FALSE
    /\ UNCHANGED <<form, listed, accounts>> /\ CallUnchanged

(* Mutant: a completed session is taken to have its token.                 *)
CompleteCheck_StatusOnly(c) ==
    /\ CallGoes(c, "complete", IF listed /\ status = "completed" THEN "add" ELSE "free")
    /\ FailsIf(~listed)
    /\ UNCHANGED <<form, interval, listed, accounts>>

(* handleCompleteAuth: GetSession, and the look at its fields; 404 or 400. *)
CompleteCheck(c) ==
    /\ LET ready == listed /\ status = "completed" /\ hasToken
       IN  CallGoes(c, "complete", IF ready THEN "add" ELSE "free") /\ FailsIf(~ready)
    /\ UNCHANGED <<form, interval, listed, accounts>>

(* store.AddAccount; 500 if it fails.                                      *)
AddAccount(c) ==
    /\ \/ CallGoes(c, "add", "cleanup") /\ accounts' = accounts + 1 /\ FailsIf(FALSE)
       \/ CallGoes(c, "add", "free") /\ UNCHANGED accounts /\ FailsIf(TRUE)
    /\ UNCHANGED <<form, interval, listed>>

CleanupSession(c) ==
    /\ CallGoes(c, "cleanup", "created")
    /\ listed' = FALSE
    /\ UNCHANGED <<form, interval, accounts>> /\ CallUnchanged

Created(c) ==
    /\ CallGoes(c, "created", "free")
    /\ form' = IF form \in {"authorize", "failed"} THEN "done" ELSE form
    /\ UNCHANGED <<interval, listed, accounts>> /\ CallUnchanged

-----------------------------------------------------------------------------
CodeExpires ==
    /\ status # "none" /\ ~expired
    /\ expired' = TRUE
    /\ UNCHANGED <<formVars, status, hasToken, hasError, listed, poller, accounts, historyVars>>

(* The program ends and starts again without sessions; the form, which does*)
(* not know, polls on, and whatever it had asked is not answered.          *)
SignInRestart ==
    /\ listed' = FALSE
    /\ poller' = IF poller = "none" THEN "none" ELSE "ended"
    /\ starting' = IF starting = "sent" THEN "no" ELSE starting
    /\ LET cut == {c \in Calls : call[c] \in {"poll", "complete", "add", "cleanup"}}
       IN  /\ call' = [c \in Calls |-> IF c \in cut THEN "free" ELSE call[c]]
           /\ gaveUp' = (gaveUp \/ \E c \in cut : call[c] # "poll")
    /\ UNCHANGED <<form, interval, status, hasToken, hasError, expired, accounts,
                   pollsOverlapped, unexplained>>

pollForToken == Tick \/ requestToken \/ WriteToken \/ WriteExpiry \/ StoreSession

Call(c) ==
    \/ PollSession(c) \/ CallEnds(c) \/ SawExpired(c) \/ SawCompleted(c)
    \/ CompleteCheck(c) \/ AddAccount(c) \/ CleanupSession(c) \/ Created(c)

SignInNext ==
    \/ StartAuth \/ StartDeviceFlow \/ GotSession \/ LostSession \/ Close
    \/ pollForToken
    \/ \E c \in Calls : IntervalFires(c) \/ Call(c)
    \/ CodeExpires \/ SignInRestart

SignInSpec == SignInInit /\ [][SignInNext]_signInVars

(***************************************************************************)
(* The ticker ticks, calls to GitHub end (a client timeout of 10 seconds), *)
(* calls of the console end one way or another, and codes expire.          *)
(***************************************************************************)
SignInFairSpec ==
    /\ SignInSpec
    /\ WF_signInVars(pollForToken) /\ WF_signInVars(CodeExpires)
    /\ \A c \in Calls : WF_signInVars(Call(c))

-----------------------------------------------------------------------------
(* Properties *)

(* An account is only made with GitHub's token, though pollForToken marks  *)
(* the session completed before it has put the token there.                *)
AccountsHaveTokens == accounts > 0 => hasToken

(* pollForToken comes to its end whatever the user and GitHub do.          *)
PollerEnds == poller = "waiting" ~> poller = "ended"

(* A sign-in makes one account, if every poll is settled before the next  *)
(* is due: calls that fail or come late never complete a session twice.    *)
OneSignInOneAccount == ~pollsOverlapped => accounts <= 1

(* "poll error, keep trying" (AddAccountForm.tsx:256): as long as it shows *)
(* no error the form is still polling, or has a call on its way, whatever  *)
(* answers were lost and wherever the program was restarted - unless       *)
(* completing the sign-in has failed, or the form was told of an expiry    *)
(* between pollForToken's writes.                                          *)
KeepsTrying ==
    form = "authorize" =>
        interval \/ gaveUp \/ unexplained \/ \E c \in Calls : call[c] # "free"

-----------------------------------------------------------------------------
(* What is said of the form, and does not hold (the README has the         *)
(* counterexamples).                                                       *)

(* "Add a GitHub Copilot account via OAuth device flow" (README.md:85): a  *)
(* sign-in makes one account, however long the polls take.                 *)
NeverTwoAccounts == accounts <= 1

(* "poll error, keep trying" (AddAccountForm.tsx:256): a form that shows no*)
(* error is still polling, or has a call on its way; not if completing has *)
(* failed.                                                                 *)
AlwaysTries ==
    form = "authorize" => interval \/ unexplained \/ \E c \in Calls : call[c] # "free"

(* setError(poll.error ?? t("authFailed")) (AddAccountForm.tsx:253): a form*)
(* that stops polling at an expiry says so; not if it read the status      *)
(* before the error was there.                                             *)
ExpiryIsShown ==
    form = "authorize" => interval \/ gaveUp \/ \E c \in Calls : call[c] # "free"
=============================================================================
