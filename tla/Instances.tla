------------------------------ MODULE Instances ------------------------------
(***************************************************************************)
(* The life cycle of account instances: src/instance/manager.go, with the  *)
(* callers in src/handler/console_api.go and src/main.go.                  *)
(*                                                                         *)
(* StartInstance runs in its caller's goroutine.  It looks at the map under*)
(* mu, releases mu for two calls to GitHub, and takes mu again to publish  *)
(* what came out.  StopInstance and the end of a failed refresh are one    *)
(* critical section each.  Every instance published as "running" has a     *)
(* goroutine of its own, tokenRefreshLoop, told to stop by closing the     *)
(* instance's stopChan.                                                    *)
(*                                                                         *)
(* Instances are heap objects: an object that is no longer in the map lives*)
(* on as long as its loop does, so Insts is the set of object identities   *)
(* and `instances` only points into it.                                    *)
(***************************************************************************)
EXTENDS Naturals

CONSTANTS
    Accounts,     \* account IDs (UUIDs, never reused)
    Insts,        \* identities of ProxyInstance objects; in TLC, the bound
                  \* on the number of instances ever published
    Starters,     \* goroutines that may be inside StartInstance
    MaxRetries,   \* the literal 3 of tokenRefreshLoop
    NoAccount, NoInst

ASSUME InstancesAssumption ==
    /\ MaxRetries \in Nat
    /\ NoInst \notin Insts
    /\ NoAccount \notin Accounts

VARIABLES
    stored,       \* accounts.json: the accounts that exist
    deleting,     \* accounts between the two calls of handleDeleteAccount
    instances,    \* the map: account -> instance object or NoInst
    owner,        \* inst.Account
    status,       \* inst.Status, "free" before the object is allocated
    stopChan,     \* inst.stopChan: nil, open or closed
    expired,      \* inst.State.TokenExpiresAt lies in the past; when it is zero
                  \* or ahead the loop sleeps, for a time the model leaves out
    loop,         \* where tokenRefreshLoop(inst) is
    attempt,      \* the loop variable of refreshCopilotTokenWithRetry, 0 outside
    startPc,      \* where a starter is
    startFor,     \* the account it starts
    raced,        \* accounts of which two starts have shared their time (history)
    panicked      \* close() of a nil or closed channel; mu is held for good

instVars == <<owner, status, stopChan, expired, loop, attempt>>
startVars == <<startPc, startFor, raced>>
vars == <<stored, deleting, instances, instVars, startVars, panicked>>

LiveLoop == {"compute", "sleep", "recheck", "refresh"}

TypeOK ==
    /\ stored \in SUBSET Accounts
    /\ deleting \in SUBSET Accounts
    /\ instances \in [Accounts -> Insts \cup {NoInst}]
    /\ owner \in [Insts -> Accounts \cup {NoAccount}]
    /\ status \in [Insts -> {"free", "running", "stopped", "error"}]
    /\ stopChan \in [Insts -> {"nil", "open", "closed"}]
    /\ expired \in [Insts -> BOOLEAN]
    /\ loop \in [Insts -> LiveLoop \cup {"none", "exited"}]
    /\ attempt \in [Insts -> 0 .. MaxRetries]
    /\ startPc \in [Starters -> {"idle", "check", "token", "publish", "publishError"}]
    /\ startFor \in [Starters -> Accounts \cup {NoAccount}]
    /\ raced \in SUBSET Accounts
    /\ panicked \in BOOLEAN

(***************************************************************************)
(* main() reads the enabled accounts and spawns one StartInstance goroutine*)
(* for each (none with -auto-start=false), before the servers listen.      *)
(***************************************************************************)
Init ==
    /\ stored \in SUBSET Accounts
    /\ deleting = {}
    /\ instances = [a \in Accounts |-> NoInst]
    /\ owner = [i \in Insts |-> NoAccount]
    /\ status = [i \in Insts |-> "free"]
    /\ stopChan = [i \in Insts |-> "nil"]
    /\ expired = [i \in Insts |-> FALSE]
    /\ loop = [i \in Insts |-> "none"]
    /\ attempt = [i \in Insts |-> 0]
    /\ startFor \in [Starters -> stored \cup {NoAccount}]
    /\ \A s, t \in Starters : startFor[s] = startFor[t] /\ s # t => startFor[s] = NoAccount
    /\ startPc = [s \in Starters |-> IF startFor[s] = NoAccount THEN "idle" ELSE "check"]
    /\ raced = {}
    /\ panicked = FALSE

(* A critical section of mu can be entered: no goroutine died inside one.  *)
MuFree == ~panicked

GetInstanceStatus(a) ==
    IF instances[a] = NoInst THEN "stopped" ELSE status[instances[a]]

-----------------------------------------------------------------------------
(* StartInstance *)

\* A start of account a is under way.
Starting(a) == \E t \in Starters : startPc[t] # "idle" /\ startFor[t] = a

(* handleStartAccount finds the account in the store and calls             *)
(* StartInstance with the copy it got.                                     *)
HandleStart(s, a) ==
    /\ startPc[s] = "idle"
    /\ a \in stored
    /\ startPc' = [startPc EXCEPT ![s] = "check"]
    /\ startFor' = [startFor EXCEPT ![s] = a]
    /\ raced' = IF Starting(a) THEN raced \cup {a} ELSE raced
    /\ UNCHANGED <<stored, deleting, instances, instVars, panicked>>

Return(s) ==
    /\ startPc' = [startPc EXCEPT ![s] = "idle"]
    /\ startFor' = [startFor EXCEPT ![s] = NoAccount]

(* Mutant: the map is not looked at.                                       *)
StartCheck_Skipped(s) ==
    /\ startPc[s] = "check"
    /\ MuFree
    /\ startPc' = [startPc EXCEPT ![s] = "token"]
    /\ UNCHANGED <<stored, deleting, instances, instVars, startFor, raced, panicked>>

(* First critical section: nothing to do if the account already runs.      *)
StartCheck(s) ==
    /\ startPc[s] = "check"
    /\ MuFree
    /\ IF GetInstanceStatus(startFor[s]) = "running"
         THEN Return(s)
         ELSE startPc' = [startPc EXCEPT ![s] = "token"] /\ UNCHANGED startFor
    /\ UNCHANGED <<stored, deleting, instances, instVars, raced, panicked>>

(* refreshCopilotToken(state) comes back; mu is not held while it runs.  A *)
(* failure of fetchModels is logged and changes nothing here.              *)
StartTokenFetched(s) ==
    /\ startPc[s] = "token"
    /\ \E outcome \in {"publish", "publishError"} :
          startPc' = [startPc EXCEPT ![s] = outcome]
    /\ UNCHANGED <<stored, deleting, instances, instVars, startFor, raced, panicked>>

\* The next object allocated; which one it is does not matter.
Fresh == CHOOSE i \in Insts : status[i] = "free"

Publish(s, i) ==
    /\ MuFree
    /\ status[i] = "free" /\ i = Fresh
    /\ owner' = [owner EXCEPT ![i] = startFor[s]]
    /\ instances' = [instances EXCEPT ![startFor[s]] = i]
    /\ Return(s)
    /\ UNCHANGED <<stored, deleting, attempt, raced, panicked>>

(* Second critical section, the token could not be had: an instance in     *)
(* error, without stopChan and without loop.                               *)
StartPublishError(s, i) ==
    /\ startPc[s] = "publishError"
    /\ Publish(s, i)
    /\ status' = [status EXCEPT ![i] = "error"]
    /\ UNCHANGED <<stopChan, expired, loop>>

(* Mutant: the entry the account already has is put back to work.          *)
StartPublish_Reuses(s, i) ==
    /\ startPc[s] = "publish"
    /\ MuFree
    /\ \/ instances[startFor[s]] = i
       \/ instances[startFor[s]] = NoInst /\ status[i] = "free"
    /\ owner' = [owner EXCEPT ![i] = startFor[s]]
    /\ instances' = [instances EXCEPT ![startFor[s]] = i]
    /\ Return(s)
    /\ status' = [status EXCEPT ![i] = "running"]
    /\ stopChan' = [stopChan EXCEPT ![i] = "open"]
    /\ loop' = [loop EXCEPT ![i] = "compute"]
    /\ UNCHANGED <<stored, deleting, attempt, expired, raced, panicked>>

(* Second critical section, then go tokenRefreshLoop(inst).  The token was *)
(* fetched some time ago, so its expiry may be anything by now.            *)
StartPublish(s, i) ==
    /\ startPc[s] = "publish"
    /\ Publish(s, i)
    /\ status' = [status EXCEPT ![i] = "running"]
    /\ stopChan' = [stopChan EXCEPT ![i] = "open"]
    /\ \E e \in BOOLEAN : expired' = [expired EXCEPT ![i] = e]
    /\ loop' = [loop EXCEPT ![i] = "compute"]

-----------------------------------------------------------------------------
(* StopInstance and its callers *)

(* Mutant: the status is left as it was.                                   *)
StopInstance_Unmarked(a) ==
    /\ MuFree
    /\ LET i == instances[a] IN
         IF i = NoInst \/ status[i] # "running" THEN UNCHANGED <<stopChan, panicked>>
         ELSE IF stopChan[i] # "open" THEN panicked' = TRUE /\ UNCHANGED stopChan
         ELSE stopChan' = [stopChan EXCEPT ![i] = "closed"] /\ UNCHANGED panicked
    /\ UNCHANGED <<stored, instances, owner, status, expired, loop, attempt, startVars>>

(* Mutant: the stopped instance is taken out of the map.                   *)
StopInstance_Forgets(a) ==
    /\ MuFree
    /\ instances' = [instances EXCEPT ![a] = NoInst]
    /\ IF instances[a] = NoInst
         THEN UNCHANGED <<stopChan, status>>
         ELSE /\ stopChan' = [stopChan EXCEPT ![instances[a]] = "closed"]
              /\ status' = [status EXCEPT ![instances[a]] = "stopped"]
    /\ UNCHANGED <<stored, owner, expired, loop, attempt, startVars, panicked>>

(* One critical section.  close() of a nil or of a closed channel panics   *)
(* before mu.Unlock is reached.                                            *)
StopInstance(a) ==
    /\ MuFree
    /\ LET i == instances[a] IN
         IF i = NoInst THEN UNCHANGED <<status, stopChan, panicked>>
         ELSE IF status[i] = "running" /\ stopChan[i] # "open"
                THEN panicked' = TRUE /\ UNCHANGED <<status, stopChan>>
         ELSE /\ stopChan' = [stopChan EXCEPT
                     ![i] = IF status[i] = "running" THEN "closed" ELSE @]
              /\ status' = [status EXCEPT ![i] = "stopped"]
              /\ UNCHANGED panicked
    /\ UNCHANGED <<stored, instances, owner, expired, loop, attempt, startVars>>

(* handleStopAccount: any ID, stored or not. *)
HandleStop(a) == StopInstance(a) /\ UNCHANGED deleting

(* handleDeleteAccount: StopInstance, then store.DeleteAccount, which may  *)
(* fail to write the file.                                                 *)
HandleDelete(a) ==
    /\ StopInstance(a)
    /\ deleting' = IF panicked' THEN deleting ELSE deleting \cup {a}

DeleteStored(a) ==
    /\ a \in deleting
    /\ deleting' = deleting \ {a}
    /\ stored' \in {stored, stored \ {a}}
    /\ UNCHANGED <<instances, instVars, startVars, panicked>>

-----------------------------------------------------------------------------
(* tokenRefreshLoop(inst) *)

LoopStep(i, from, to) ==
    /\ loop[i] = from
    /\ loop' = [loop EXCEPT ![i] = to]

RestUnchangedByLoop ==
    UNCHANGED <<stored, deleting, instances, owner, stopChan, startVars, panicked>>

(* Mutant: the loop gives up on an expired token.                          *)
ComputeSleep_Quits(i) ==
    /\ LoopStep(i, "compute", IF expired[i] THEN "exited" ELSE "sleep")
    /\ UNCHANGED <<status, expired, attempt>>
    /\ RestUnchangedByLoop

(* The time to sleep comes from the expiry; an expired token is refreshed   *)
(* at once.                                                                *)
ComputeSleep(i) ==
    /\ LoopStep(i, "compute", IF expired[i] THEN "recheck" ELSE "sleep")
    /\ UNCHANGED <<status, expired, attempt>>
    /\ RestUnchangedByLoop

(* select: the stop case, possible once the channel is closed ...          *)
StopWhileAsleep(i) ==
    /\ stopChan[i] = "closed"
    /\ LoopStep(i, "sleep", "exited")
    /\ UNCHANGED <<status, expired, attempt>>
    /\ RestUnchangedByLoop

(* ... and the timer case, which select may also take when both are ready. *)
TimerFires(i) ==
    /\ LoopStep(i, "sleep", "recheck")
    /\ UNCHANGED <<status, expired, attempt>>
    /\ RestUnchangedByLoop

(* Mutant: no second look at stopChan.                                     *)
Recheck_Skipped(i) ==
    /\ LoopStep(i, "recheck", "refresh")
    /\ UNCHANGED <<status, expired, attempt>>
    /\ RestUnchangedByLoop

(* "Check stop again before doing work." *)
Recheck(i) ==
    /\ LoopStep(i, "recheck", IF stopChan[i] = "closed" THEN "exited" ELSE "refresh")
    /\ UNCHANGED <<status, expired, attempt>>
    /\ RestUnchangedByLoop

(* refreshCopilotToken succeeds with a new expiry.  Status  is not touched. *)
RefreshOk(i) ==
    /\ LoopStep(i, "refresh", "compute")
    /\ \E e \in BOOLEAN : expired' = [expired EXCEPT ![i] = e]
    /\ attempt' = [attempt EXCEPT ![i] = 0]
    /\ UNCHANGED status
    /\ RestUnchangedByLoop

(* It fails and is tried again after a backoff; stopChan is not looked at. *)
RefreshRetry(i) ==
    /\ attempt[i] < MaxRetries
    /\ LoopStep(i, "refresh", "refresh")
    /\ attempt' = [attempt EXCEPT ![i] = @ + 1]
    /\ UNCHANGED <<status, expired>>
    /\ RestUnchangedByLoop

(* Mutant: the loop ends without a word.                                   *)
RefreshGivesUp_Silently(i) ==
    /\ attempt[i] = MaxRetries
    /\ MuFree
    /\ LoopStep(i, "refresh", "exited")
    /\ attempt' = [attempt EXCEPT ![i] = 0]
    /\ UNCHANGED <<status, expired>>
    /\ RestUnchangedByLoop

(* It fails for the last time: error, under mu, whatever the status is by  *)
(* now, and on with the loop.                                              *)
RefreshGivesUp(i) ==
    /\ attempt[i] = MaxRetries
    /\ MuFree
    /\ LoopStep(i, "refresh", "compute")
    /\ status' = [status EXCEPT ![i] = "error"]
    /\ attempt' = [attempt EXCEPT ![i] = 0]
    /\ UNCHANGED expired
    /\ RestUnchangedByLoop

(* Time passes and the token expires.  Only the loop looks at the expiry.  *)
TokenExpires(i) ==
    /\ loop[i] \in LiveLoop
    /\ ~expired[i]
    /\ expired' = [expired EXCEPT ![i] = TRUE]
    /\ UNCHANGED <<status, loop, attempt>>
    /\ RestUnchangedByLoop

-----------------------------------------------------------------------------
StartInstance(s) ==
    \/ StartCheck(s) \/ StartTokenFetched(s)
    \/ \E i \in Insts : StartPublish(s, i) \/ StartPublishError(s, i)

tokenRefreshLoop(i) ==
    \/ ComputeSleep(i) \/ StopWhileAsleep(i) \/ TimerFires(i) \/ Recheck(i)
    \/ RefreshOk(i) \/ RefreshRetry(i) \/ RefreshGivesUp(i)

Next ==
    \/ \E s \in Starters : StartInstance(s) \/ \E a \in Accounts : HandleStart(s, a)
    \/ \E a \in Accounts : HandleStop(a) \/ HandleDelete(a) \/ DeleteStored(a)
    \/ \E i \in Insts : tokenRefreshLoop(i) \/ TokenExpires(i)

Spec == Init /\ [][Next]_vars

(***************************************************************************)
(* The Go scheduler runs every goroutine that can run; timers fire; every  *)
(* call to GitHub ends, the default client having a timeout of 15 seconds. *)
(* Nothing is assumed of users, nor of which way a call ends.              *)
(***************************************************************************)
Fairness ==
    /\ \A i \in Insts : WF_vars(tokenRefreshLoop(i))
    /\ \A s \in Starters : WF_vars(StartInstance(s))

FairSpec == Spec /\ Fairness

-----------------------------------------------------------------------------
(* Properties *)

(* close(inst.stopChan) never panics: an instance whose Status is "running"*)
(* has a channel, and no earlier stop has closed it.  A panic in a handler *)
(* would leave mu locked, and the whole program with it.                   *)
NoPanic == ~panicked

(* An instance shown as running has a refresh loop that has not ended.     *)
RunningIsRefreshed ==
    \A i \in Insts : status[i] = "running" => loop[i] \in LiveLoop

(* A running instance is the entry of its account, so that StopInstance,   *)
(* which looks only at the map, reaches it, unless two starts of the       *)
(* account have overlapped.                                                *)
RunningIsRegistered ==
    \A i \in Insts :
        status[i] = "running" /\ owner[i] \notin raced => instances[owner[i]] = i

(* An instance that was stopped or failed never runs again: starting the   *)
(* account again publishes another instance.                               *)
NeverRevived ==
    [][\A i \in Insts : status[i] \in {"stopped", "error"} => status'[i] # "running"]_vars

(* The goroutine of an instance that was running when it was stopped ends. *)
StoppedLoopEnds ==
    \A i \in Insts : stopChan[i] = "closed" ~> loop[i] = "exited"

(* A running instance whose token has expired gets to ask for a new one.   *)
ExpiredTokenIsRefreshed ==
    \A i \in Insts :
        status[i] = "running" /\ expired[i] ~> loop[i] = "refresh" \/ status[i] # "running"

(* What the rest of the program sees of the map is AccountStatus.          *)
View == [a \in Accounts |-> IF instances[a] = NoInst THEN "absent" ELSE status[instances[a]]]

Abs == INSTANCE AccountStatus WITH view <- View

ImplementsAccountStatus == Abs!Spec

-----------------------------------------------------------------------------
(* What is said of instances, and does not hold (the README has the        *)
(* counterexamples).                                                       *)

(* "start, and stop multiple GitHub Copilot accounts" (README.md:19): a    *)
(* running instance can be stopped, however its account was started.       *)
AnyRunningIsRegistered ==
    \A i \in Insts : status[i] = "running" => instances[owner[i]] = i

(* "Check stop again before doing work" (manager.go:224): the loop of a    *)
(* stopped instance does not go on to ask GitHub for a token.              *)
StoppedDoesNoWork ==
    [][\A i \in Insts : status[i] = "stopped" /\ loop[i] = "recheck" => loop'[i] # "refresh"]_vars
=============================================================================
