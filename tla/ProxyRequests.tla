---------------------------- MODULE ProxyRequests ----------------------------
(***************************************************************************)
(* The proxy server's request handlers: src/handler/proxy.go, with         *)
(* SelectAccount (src/instance/load_balancer.go) and RecordRequest         *)
(* (src/instance/usage.go).                                                *)
(*                                                                         *)
(* One goroutine per request: authenticate, then up to MaxAttempts times   *)
(* pick an account, get its state, pass the rate limiter, count the        *)
(* request, ask upstream; a failure in pool mode goes on to an account not *)
(* tried yet.  The instance map and the enabled accounts may change between*)
(* any two of these steps; the map changes as AccountStatus allows, which  *)
(* Instances.tla implements.                                               *)
(*                                                                         *)
(* The four proxying handlers have one and the same loop.  proxyModels and *)
(* proxyCountTokens resolve an account and answer locally: kind "local".   *)
(***************************************************************************)
EXTENDS Naturals, FiniteSets

CONSTANTS
    Accounts,
    Requests,     \* each is one HTTP request; in TLC, the bound on them
    MaxAttempts,  \* the literal 3 of the pool mode
    NoAccount

ASSUME ProxyAssumption ==
    /\ MaxAttempts \in Nat \ {0}
    /\ NoAccount \notin Accounts
    /\ IsFiniteSet(Requests)
    /\ IsFiniteSet(Accounts)

VARIABLES
    view,         \* the instance map, as in AccountStatus
    pc,           \* where the goroutine of a request is
    kind,         \* "proxy" or "local"
    mode,         \* "pool" or "account"
    attempt,      \* the loop variable
    exclude,      \* accounts that failed this request
    snapshot,     \* the accounts SelectAccount read from the store
    acct,         \* the account of the current attempt
    answer,       \* what the client got
    records,      \* the usage of each account
    aged,         \* history: what has become older than the window
    saw429        \* whether last429 is set

Map == INSTANCE AccountStatus

requestVars == <<pc, kind, mode, attempt, exclude, snapshot, acct, answer>>
usageVars == <<records, aged, saw429>>
vars == <<view, requestVars, usageVars>>

\* A response of upstream that was passed on; "throttled" is a 429.
Forwarded == {"forwarded", "throttled"}
Refused == {"rejected", "noAvailable", "noInstance", "rateLimited", "badGateway"}

(***************************************************************************)
(* A usageRecord.  Its request is history: it tells records apart, no      *)
(* request making two of a kind for one account (AttemptsAreDistinct).     *)
(***************************************************************************)
UsageRecord == [req : Requests, failed : BOOLEAN]

TypeOK ==
    /\ Map!ViewOK
    /\ pc \in [Requests -> {"idle", "resolve", "select", "state", "admit", "upstream", "done"}]
    /\ kind \in [Requests -> {"proxy", "local"}]
    /\ mode \in [Requests -> {"pool", "account"}]
    /\ attempt \in [Requests -> 0 .. MaxAttempts - 1]
    /\ exclude \in [Requests -> SUBSET Accounts]
    /\ snapshot \in [Requests -> SUBSET Accounts]
    /\ acct \in [Requests -> Accounts \cup {NoAccount}]
    /\ answer \in [Requests -> {"none", "local"} \cup Forwarded \cup Refused]
    /\ records \in [Accounts -> SUBSET UsageRecord]
    /\ aged \in [Accounts -> SUBSET UsageRecord]
    /\ saw429 \in [Accounts -> BOOLEAN]

Init ==
    /\ Map!Init
    /\ pc = [r \in Requests |-> "idle"]
    /\ kind = [r \in Requests |-> "proxy"]
    /\ mode = [r \in Requests |-> "account"]
    /\ attempt = [r \in Requests |-> 0]
    /\ exclude = [r \in Requests |-> {}]
    /\ snapshot = [r \in Requests |-> {}]
    /\ acct = [r \in Requests |-> NoAccount]
    /\ answer = [r \in Requests |-> "none"]
    /\ records = [a \in Accounts |-> {}]
    /\ aged = [a \in Accounts |-> {}]
    /\ saw429 = [a \in Accounts |-> FALSE]

-----------------------------------------------------------------------------
Goto(r, l) == pc' = [pc EXCEPT ![r] = l]

Respond(r, response) == Goto(r, "done") /\ answer' = [answer EXCEPT ![r] = response]

\* maxAttempts of the handlers.
Budget(r) == IF mode[r] = "pool" THEN MaxAttempts ELSE 1

(* Mutant: the trim's cutoff is now, so that every earlier record goes.    *)
RecordRequest_TrimsAll(a, r, isFailure, is429) ==
    /\ records' = [records EXCEPT ![a] = {[req |-> r, failed |-> isFailure]}]
    /\ saw429' = [saw429 EXCEPT ![a] = @ \/ is429]
    /\ UNCHANGED aged

(***************************************************************************)
(* RecordRequest appends and trims, in one critical section of the         *)
(* account's usage.  The clock it has read before is taken for current     *)
(* (UsageWindow.tla has what follows if it is not).                        *)
(***************************************************************************)
RecordRequest(a, r, isFailure, is429) ==
    /\ records' = [records EXCEPT ![a] = (@ \ aged[a]) \cup {[req |-> r, failed |-> isFailure]}]
    /\ saw429' = [saw429 EXCEPT ![a] = @ \/ is429]
    /\ UNCHANGED aged

-----------------------------------------------------------------------------
(* A request with a key nobody has, or a body that cannot be read.         *)
Reject(r) ==
    /\ pc[r] = "idle"
    /\ Respond(r, "rejected")
    /\ UNCHANGED <<view, kind, mode, attempt, exclude, snapshot, acct, usageVars>>

(* proxyAuth: the pool's key, or the key of an account, enabled or not.    *)
Accept(r) ==
    /\ pc[r] = "idle"
    /\ Goto(r, "resolve")
    /\ \E k \in {"proxy", "local"} : kind' = [kind EXCEPT ![r] = k]
    /\ \/ mode' = [mode EXCEPT ![r] = "pool"] /\ UNCHANGED acct
       \/ /\ mode' = [mode EXCEPT ![r] = "account"]
          /\ \E a \in Accounts : acct' = [acct EXCEPT ![r] = a]
    /\ UNCHANGED <<view, attempt, exclude, snapshot, answer, usageVars>>

(* The loop condition, and the start of resolveState.  The console may add,*)
(* enable, disable and delete accounts at any time, so any of them may be  *)
(* the enabled ones when they are read.  Past the last attempt the handler *)
(* would return without an answer.                                         *)
Resolve(r) ==
    /\ pc[r] = "resolve"
    /\ IF attempt[r] < Budget(r)
         THEN IF mode[r] = "pool"
                THEN /\ Goto(r, "select")
                     /\ \E enabled \in SUBSET Accounts : snapshot' = [snapshot EXCEPT ![r] = enabled]
                ELSE Goto(r, "state") /\ UNCHANGED snapshot
         ELSE Goto(r, "done") /\ UNCHANGED snapshot
    /\ UNCHANGED <<view, kind, mode, attempt, exclude, acct, answer, usageVars>>

Available(r) == {a \in snapshot[r] \ exclude[r] : view[a] = "running"}

(* Mutant: the request waits until an account runs.                        *)
Select_Waits(r) ==
    /\ pc[r] = "select"
    /\ \E a \in Available(r) : acct' = [acct EXCEPT ![r] = a]
    /\ Goto(r, "state")
    /\ snapshot' = [snapshot EXCEPT ![r] = {}]
    /\ UNCHANGED <<view, kind, mode, attempt, exclude, answer, usageVars>>

(* SelectAccount, under mu, over the accounts read before.  Any strategy   *)
(* picks one of the available accounts.                                    *)
Select(r) ==
    /\ pc[r] = "select"
    /\ IF Available(r) = {}
         THEN Respond(r, "noAvailable") /\ UNCHANGED acct
         ELSE /\ \E a \in Available(r) : acct' = [acct EXCEPT ![r] = a]
              /\ Goto(r, "state")
              /\ UNCHANGED answer
    /\ snapshot' = [snapshot EXCEPT ![r] = {}]
    /\ UNCHANGED <<view, kind, mode, attempt, exclude, usageVars>>

(* GetInstanceState, under mu again; proxyModels and proxyCountTokens then *)
(* answer without asking upstream.  The Status is not looked at.           *)
GetState(r) ==
    /\ pc[r] = "state"
    /\ IF view[acct[r]] = "absent" THEN Respond(r, "noInstance")
       ELSE IF kind[r] = "local" THEN Respond(r, "local")
       ELSE Goto(r, "admit") /\ UNCHANGED answer
    /\ UNCHANGED <<view, kind, mode, attempt, exclude, snapshot, acct, usageVars>>

(* checkRateLimit says no, or the request is counted and goes upstream.    *)
Admit(r) ==
    /\ pc[r] = "admit"
    /\ \/ Respond(r, "rateLimited") /\ UNCHANGED usageVars
       \/ Goto(r, "upstream") /\ UNCHANGED answer /\ RecordRequest(acct[r], r, FALSE, FALSE)
    /\ UNCHANGED <<view, kind, mode, attempt, exclude, snapshot, acct>>

(* exclude[...] = true; continue *)
NextAttempt(r) ==
    /\ Goto(r, "resolve")
    /\ attempt' = [attempt EXCEPT ![r] = @ + 1]
    /\ exclude' = [exclude EXCEPT ![r] = @ \cup {acct[r]}]
    /\ UNCHANGED answer

LastAttempt(r) == attempt[r] >= Budget(r) - 1

(* Mutant: the account that failed is not excluded.                        *)
ProxyError_SameAccount(r) ==
    /\ pc[r] = "upstream"
    /\ RecordRequest(acct[r], r, TRUE, FALSE)
    /\ IF LastAttempt(r)
         THEN Respond(r, "badGateway") /\ UNCHANGED attempt
         ELSE /\ Goto(r, "resolve")
              /\ attempt' = [attempt EXCEPT ![r] = @ + 1]
              /\ UNCHANGED answer
    /\ UNCHANGED <<view, kind, mode, exclude, snapshot, acct>>

(* Mutant: the last attempt, too, leaves the answer to the next one.       *)
ProxyError_NeverLast(r) ==
    /\ pc[r] = "upstream"
    /\ RecordRequest(acct[r], r, TRUE, FALSE)
    /\ NextAttempt(r)
    /\ UNCHANGED <<view, kind, mode, snapshot, acct>>

(* No response: transport error, or a payload that cannot be translated.   *)
ProxyError(r) ==
    /\ pc[r] = "upstream"
    /\ RecordRequest(acct[r], r, TRUE, FALSE)
    /\ IF LastAttempt(r)
         THEN Respond(r, "badGateway") /\ UNCHANGED <<attempt, exclude>>
         ELSE NextAttempt(r)
    /\ UNCHANGED <<view, kind, mode, snapshot, acct>>

(* A 429 or a 5xx with attempts left.                                      *)
RetryableStatus(r) ==
    /\ pc[r] = "upstream"
    /\ ~LastAttempt(r)
    /\ \E is429 \in BOOLEAN : RecordRequest(acct[r], r, TRUE, is429)
    /\ NextAttempt(r)
    /\ UNCHANGED <<view, kind, mode, snapshot, acct>>

(* Any other response, and on the last attempt any response, is forwarded. *)
Forward(r) ==
    /\ pc[r] = "upstream"
    /\ \E response \in IF LastAttempt(r) THEN Forwarded ELSE {"forwarded"} : Respond(r, response)
    /\ UNCHANGED <<view, kind, mode, attempt, exclude, snapshot, acct, usageVars>>

-----------------------------------------------------------------------------
(* The console, main and the refresh loops change the instance map.        *)
MapChanges == Map!Next /\ UNCHANGED <<requestVars, usageVars>>

(* All that was recorded so far becomes older than the window ...          *)
TimePasses ==
    /\ aged' = [a \in Accounts |-> aged[a] \cup records[a]]
    /\ UNCHANGED <<view, requestVars, records, saw429>>

(* ... and whoever reads the usage, a strategy or the console, trims it.   *)
ReadUsage ==
    /\ \E a \in Accounts : records' = [records EXCEPT ![a] = @ \ aged[a]]
    /\ UNCHANGED <<view, requestVars, aged, saw429>>

Handler(r) ==
    \/ Resolve(r) \/ Select(r) \/ GetState(r) \/ Admit(r)
    \/ ProxyError(r) \/ RetryableStatus(r) \/ Forward(r)

Next ==
    \/ \E r \in Requests : Reject(r) \/ Accept(r) \/ Handler(r)
    \/ MapChanges
    \/ TimePasses
    \/ ReadUsage

Spec == Init /\ [][Next]_vars

(***************************************************************************)
(* A handler's goroutine runs when it can, and an upstream call comes back *)
(* with headers or an error (dial, TLS and ResponseHeaderTimeout limits).  *)
(***************************************************************************)
FairSpec == Spec /\ \A r \in Requests : WF_vars(Handler(r))

-----------------------------------------------------------------------------
(* Properties *)

(* Every way out of a handler has written an answer, and no handler goes on*)
(* after writing one: the loop never runs out without a response.          *)
AnsweredOnReturn == \A r \in Requests : pc[r] = "done" <=> answer[r] # "none"

(* Each attempt of a request goes to an account that it was not sent to    *)
(* before, whatever happens to the accounts in between.                    *)
AttemptsAreDistinct ==
    \A r \in Requests :
        /\ Cardinality(exclude[r]) = attempt[r]
        /\ pc[r] \in {"state", "admit", "upstream"} => acct[r] \notin exclude[r]

(* A pool request never ends with "selected account instance not running": *)
(* between SelectAccount and GetInstanceState mu is free, but entries stay.*)
PoolFindsInstance ==
    \A r \in Requests : mode[r] = "pool" => answer[r] # "noInstance"

(* What a request has done so far: the accounts it was sent to, and those  *)
(* that failed it in the eyes of the handler.                              *)
SentTo(r) ==
    exclude[r] \cup
    {a \in {acct[r]} : pc[r] = "upstream" \/ answer[r] \in Forwarded \cup {"badGateway"}}

FailedAt(r) == exclude[r] \cup {a \in {acct[r]} : answer[r] = "badGateway"}

(* The usage tells what happened: an account's records are of requests that*)
(* were sent to it, its failures of requests it has failed, and of the     *)
(* attempts of the last hour, under way or over, none is missing, whatever *)
(* was retried, trimmed or read in between.                                *)
UsageTellsAttempts ==
    \A a \in Accounts, r \in Requests :
        LET of(set) == {u \in set[a] : u.req = r}
            failures(set) == {u \in of(set) : u.failed}
        IN  /\ of(records) # {} => a \in SentTo(r)
            /\ failures(records) # {} => a \in FailedAt(r)
            /\ a \in SentTo(r) => of(records) \cup of(aged) # {}
            /\ a \in FailedAt(r) => failures(records) \cup failures(aged) # {}

(* Every request that was let in is answered.                              *)
RequestsAreAnswered == \A r \in Requests : pc[r] = "resolve" ~> answer[r] # "none"

(* "GetWindowRequestCount returns the number of requests in the current    *)
(* window" (usage.go:136): no account counts more requests than there are, *)
(* a request going to an account at most once.                             *)
CountsRequests == \A a \in Accounts : Cardinality(records[a]) <= Cardinality(Requests)

(* "Score = requestCount + penalty if recently 429'd" (load_balancer.go:84)*)
(* needs an account whose 429 reached the client to be known as 429'd.     *)
ThrottlingIsRemembered ==
    \A r \in Requests : answer[r] = "throttled" => saw429[acct[r]]

(* "account instance not running" (proxy.go:119) is the answer when the    *)
(* account's instance does not run.                                        *)
OnlyRunningServes ==
    [][\A r \in Requests :
          pc[r] = "state" /\ mode[r] = "account" /\ view[acct[r]] # "running"
              => pc'[r] # "admit"]_vars
=============================================================================
