--------------------------- MODULE InstancesProofs ---------------------------
(***************************************************************************)
(* Proofs about Instances.tla, for any sets of accounts, instances and     *)
(* starters and any number of retries.                                     *)
(***************************************************************************)
EXTENDS Instances, TLAPS

(* Instances that are not allocated have no loop and are in no entry.      *)
FreeIsIdle == \A i \in Insts : status[i] = "free" => loop[i] = "none"

(* An entry is an allocated instance of that very account.                 *)
EntryIsOwn ==
    \A a \in Accounts : instances[a] # NoInst =>
        owner[instances[a]] = a /\ status[instances[a]] # "free"

(* Only a running instance has not been stopped through its channel, and a *)
(* running one can be: this is what close() and the loop rest on.          *)
RunningIsOpen == \A i \in Insts : status[i] = "running" => stopChan[i] = "open"

(* A goroutine inside StartInstance knows which account it starts.         *)
StarterHasAccount == \A s \in Starters : startPc[s] # "idle" => startFor[s] \in Accounts

(* The inductive invariant. *)
IInv ==
    /\ TypeOK
    /\ NoPanic
    /\ RunningIsRefreshed
    /\ RunningIsOpen
    /\ FreeIsIdle
    /\ EntryIsOwn
    /\ StarterHasAccount

-----------------------------------------------------------------------------
LEMMA InitIInv == Init => IInv
<1> SUFFICES ASSUME Init PROVE IInv OBVIOUS
<1> USE InstancesAssumption DEF Init
<1>1. StarterHasAccount
  BY DEF StarterHasAccount
<1>2. TypeOK
  <2>1. startFor \in [Starters -> Accounts \cup {NoAccount}]
    OBVIOUS
  <2>2. startPc \in [Starters -> {"idle", "check", "token", "publish", "publishError"}]
    OBVIOUS
  <2>3. attempt \in [Insts -> 0 .. MaxRetries]
    OBVIOUS
  <2> QED BY <2>1, <2>2, <2>3 DEF TypeOK
<1>3. NoPanic /\ RunningIsRefreshed /\ RunningIsOpen /\ FreeIsIdle /\ EntryIsOwn
  BY DEF NoPanic, RunningIsRefreshed, RunningIsOpen, FreeIsIdle, EntryIsOwn
<1> QED BY <1>1, <1>2, <1>3 DEF IInv

(* What the steps of a refresh loop leave alone or change, in one place.   *)
LEMMA LoopStepIInv ==
    ASSUME IInv, NEW i \in Insts, tokenRefreshLoop(i) \/ TokenExpires(i)
    PROVE  IInv'
<1> USE InstancesAssumption DEF LoopStep, RestUnchangedByLoop, LiveLoop, MuFree
<1>1. TypeOK'
  <2> USE DEF IInv, TypeOK, startVars
  <2>1. CASE ComputeSleep(i) \/ StopWhileAsleep(i) \/ TimerFires(i) \/ Recheck(i)
    BY <2>1 DEF ComputeSleep, StopWhileAsleep, TimerFires, Recheck
  <2>2. CASE RefreshOk(i)
    BY <2>2 DEF RefreshOk
  <2>3. CASE RefreshRetry(i)
    BY <2>3 DEF RefreshRetry
  <2>4. CASE RefreshGivesUp(i)
    BY <2>4 DEF RefreshGivesUp
  <2>5. CASE TokenExpires(i)
    BY <2>5 DEF TokenExpires
  <2> QED BY <2>1, <2>2, <2>3, <2>4, <2>5 DEF tokenRefreshLoop
<1>2. NoPanic' /\ RunningIsOpen' /\ FreeIsIdle' /\ StarterHasAccount'
  BY DEF IInv, TypeOK, NoPanic, RunningIsOpen, FreeIsIdle, StarterHasAccount,
         tokenRefreshLoop, ComputeSleep, StopWhileAsleep, TimerFires,
         Recheck, RefreshOk, RefreshRetry, RefreshGivesUp, TokenExpires, startVars
<1>3. RunningIsRefreshed'
  BY DEF IInv, TypeOK, RunningIsRefreshed, RunningIsOpen,
         tokenRefreshLoop, ComputeSleep, StopWhileAsleep, TimerFires,
         Recheck, RefreshOk, RefreshRetry, RefreshGivesUp, TokenExpires
<1>4. EntryIsOwn'
  BY DEF IInv, TypeOK, EntryIsOwn,
         tokenRefreshLoop, ComputeSleep, StopWhileAsleep, TimerFires,
         Recheck, RefreshOk, RefreshRetry, RefreshGivesUp, TokenExpires
<1> QED BY <1>1, <1>2, <1>3, <1>4 DEF IInv

LEMMA StopIInv ==
    ASSUME IInv, NEW a \in Accounts, HandleStop(a) \/ HandleDelete(a)
    PROVE  IInv'
<1> USE InstancesAssumption DEF HandleStop, HandleDelete, StopInstance, MuFree, startVars
<1>1. panicked' = FALSE /\ TypeOK'
  BY DEF IInv, TypeOK, NoPanic, RunningIsOpen
<1>2. RunningIsRefreshed' /\ RunningIsOpen' /\ FreeIsIdle' /\ StarterHasAccount'
  BY <1>1 DEF IInv, TypeOK, RunningIsRefreshed, RunningIsOpen, FreeIsIdle, EntryIsOwn,
         StarterHasAccount
<1>3. EntryIsOwn'
  BY <1>1 DEF IInv, TypeOK, EntryIsOwn
<1> QED BY <1>1, <1>2, <1>3 DEF IInv, NoPanic

LEMMA PublishIInv ==
    ASSUME IInv, NEW s \in Starters, NEW i \in Insts,
           StartPublish(s, i) \/ StartPublishError(s, i)
    PROVE  IInv'
<1> USE InstancesAssumption DEF StartPublish, StartPublishError, Publish, Return
<1>1. TypeOK' /\ NoPanic'
  BY DEF IInv, TypeOK, NoPanic, LiveLoop
<1>2. RunningIsRefreshed' /\ RunningIsOpen' /\ FreeIsIdle'
  BY DEF IInv, TypeOK, RunningIsRefreshed, RunningIsOpen, FreeIsIdle, LiveLoop
<1>3. EntryIsOwn' /\ StarterHasAccount'
  BY DEF IInv, TypeOK, EntryIsOwn, StarterHasAccount
<1> QED BY <1>1, <1>2, <1>3 DEF IInv

(* Steps that touch neither the map nor an instance.                       *)
LEMMA OtherIInv ==
    ASSUME IInv,
           \/ \E s \in Starters : StartCheck(s) \/ StartTokenFetched(s)
           \/ \E s \in Starters, a \in Accounts : HandleStart(s, a)
           \/ \E a \in Accounts : DeleteStored(a)
    PROVE  IInv'
<1> USE InstancesAssumption DEF instVars, startVars
<1>1. UNCHANGED <<instances, instVars, panicked>>
  BY DEF StartCheck, StartTokenFetched, HandleStart, DeleteStored, Return
<1>2. NoPanic' /\ RunningIsRefreshed' /\ RunningIsOpen' /\ FreeIsIdle' /\ EntryIsOwn'
  BY <1>1 DEF IInv, NoPanic, RunningIsRefreshed, RunningIsOpen, FreeIsIdle, EntryIsOwn
<1>3. TypeOK' /\ StarterHasAccount'
  BY <1>1 DEF IInv, TypeOK, StarterHasAccount, StartCheck, StartTokenFetched, HandleStart,
              DeleteStored, Return
<1> QED BY <1>2, <1>3 DEF IInv

LEMMA NextIInv == IInv /\ [Next]_vars => IInv'
<1> SUFFICES ASSUME IInv, [Next]_vars PROVE IInv' OBVIOUS
<1>1. CASE UNCHANGED vars
  BY <1>1 DEF IInv, TypeOK, NoPanic, RunningIsRefreshed, RunningIsOpen, FreeIsIdle,
              EntryIsOwn, StarterHasAccount, vars, instVars, startVars
<1>2. CASE \E i \in Insts : tokenRefreshLoop(i) \/ TokenExpires(i)
  BY <1>2, LoopStepIInv
<1>3. CASE \E a \in Accounts : HandleStop(a) \/ HandleDelete(a)
  BY <1>3, StopIInv
<1>4. CASE \E s \in Starters, i \in Insts : StartPublish(s, i) \/ StartPublishError(s, i)
  BY <1>4, PublishIInv
<1>5. CASE \/ \E s \in Starters : StartCheck(s) \/ StartTokenFetched(s)
           \/ \E s \in Starters, a \in Accounts : HandleStart(s, a)
           \/ \E a \in Accounts : DeleteStored(a)
  BY <1>5, OtherIInv
<1> QED BY <1>1, <1>2, <1>3, <1>4, <1>5 DEF Next, StartInstance

LEMMA IInvHolds == Spec => []IInv
BY InitIInv, NextIInv, PTL DEF Spec

(* The variables keep their types.                                         *)
THEOREM TypeCorrect == Spec => []TypeOK
<1>1. IInv => TypeOK BY DEF IInv
<1> QED BY <1>1, IInvHolds, PTL

(* No interleaving of starts, stops, deletes and refreshes makes           *)
(* StopInstance close a nil or a closed channel.                           *)
THEOREM NeverPanics == Spec => []NoPanic
<1>1. IInv => NoPanic BY DEF IInv
<1> QED BY <1>1, IInvHolds, PTL

(* An instance shown as running has a refresh loop that has not ended.     *)
THEOREM RunningKeepsItsLoop == Spec => []RunningIsRefreshed
<1>1. IInv => RunningIsRefreshed BY DEF IInv
<1> QED BY <1>1, IInvHolds, PTL

(* A stopped or failed instance never runs again: only StartPublish makes  *)
(* an instance running, and it takes one that was never used.              *)
THEOREM NothingIsRevived == Spec => NeverRevived
<1> DEFINE Step == \A i \in Insts : status[i] \in {"stopped", "error"} => status'[i] # "running"
<1>1. IInv /\ [Next]_vars => [Step]_vars
  <2> SUFFICES ASSUME IInv, Next, NEW i \in Insts, status[i] \in {"stopped", "error"}
               PROVE  status'[i] # "running"
    OBVIOUS
  <2> USE DEF IInv, TypeOK
  <2>1. CASE \E j \in Insts : tokenRefreshLoop(j) \/ TokenExpires(j)
    BY <2>1 DEF tokenRefreshLoop, ComputeSleep, StopWhileAsleep, TimerFires, Recheck,
               RefreshOk, RefreshRetry, RefreshGivesUp, TokenExpires
  <2>2. CASE \E a \in Accounts : HandleStop(a) \/ HandleDelete(a)
    BY <2>2 DEF HandleStop, HandleDelete, StopInstance
  <2>3. CASE \E s \in Starters, j \in Insts : StartPublish(s, j) \/ StartPublishError(s, j)
    BY <2>3 DEF StartPublish, StartPublishError, Publish
  <2>4. CASE \/ \E s \in Starters : StartCheck(s) \/ StartTokenFetched(s)
             \/ \E s \in Starters, a \in Accounts : HandleStart(s, a)
             \/ \E a \in Accounts : DeleteStored(a)
    BY <2>4 DEF StartCheck, StartTokenFetched, HandleStart, DeleteStored, instVars
  <2> QED BY <2>1, <2>2, <2>3, <2>4 DEF Next, StartInstance
<1>2. Spec => [][Step]_vars
  BY <1>1, IInvHolds, PTL DEF Spec
<1> QED BY <1>2 DEF NeverRevived

-----------------------------------------------------------------------------
(* Refinement: AccountStatus is what other packages see of the map.        *)

(* A step that changes the map at one account changes View there only.     *)
LEMMA ViewOfPublish ==
    ASSUME IInv, NEW s \in Starters, NEW i \in Insts, Publish(s, i), startPc[s] # "idle",
           NEW st, status' = [status EXCEPT ![i] = st]
    PROVE  startFor[s] \in Accounts /\ View' = [View EXCEPT ![startFor[s]] = st]
<1>1. startFor[s] \in Accounts
  BY DEF IInv, StarterHasAccount
<1>2. \A a \in Accounts : a # startFor[s] => instances'[a] = instances[a] /\ instances[a] # i
  BY InstancesAssumption DEF IInv, TypeOK, EntryIsOwn, Publish
<1>3. instances'[startFor[s]] = i /\ i # NoInst /\ status'[i] = st
  BY <1>1, InstancesAssumption DEF IInv, TypeOK, Publish
<1>4. \A a \in Accounts : a # startFor[s] => View'[a] = View[a]
  BY <1>2 DEF IInv, TypeOK, View
<1>5. View'[startFor[s]] = st
  BY <1>1, <1>3 DEF View
<1>6. View' = [a \in Accounts |-> View'[a]] /\ View = [a \in Accounts |-> View[a]]
  BY DEF View
<1> QED BY <1>1, <1>4, <1>5, <1>6

(* A step that changes the Status of one object shows on the account it is *)
(* the entry of, and on no account when it is nobody's entry.              *)
LEMMA ViewOfStatus ==
    ASSUME IInv, UNCHANGED instances, NEW i \in Insts,
           NEW st, status' = [status EXCEPT ![i] = st]
    PROVE  \/ UNCHANGED View
           \/ \E a \in Accounts : instances[a] = i /\ View' = [View EXCEPT ![a] = st]
<1>1. CASE \A a \in Accounts : instances[a] # i
  <2>1. \A a \in Accounts : View'[a] = View[a]
    BY <1>1 DEF IInv, TypeOK, View
  <2> QED BY <2>1 DEF View
<1>2. ASSUME NEW a \in Accounts, instances[a] = i
      PROVE  View' = [View EXCEPT ![a] = st]
  <2>1. i # NoInst /\ status'[i] = st
    BY InstancesAssumption DEF IInv, TypeOK
  <2>2. \A b \in Accounts : b # a => instances[b] # i
    BY <1>2, <2>1 DEF IInv, EntryIsOwn
  <2>3. \A b \in Accounts : b # a => View'[b] = View[b]
    BY <2>2 DEF IInv, TypeOK, View
  <2> QED BY <1>2, <2>1, <2>3 DEF View
<1> QED BY <1>1, <1>2

LEMMA NextImplements == IInv /\ [Next]_vars => [Abs!Next]_View
<1> SUFFICES ASSUME IInv, [Next]_vars PROVE Abs!Next \/ UNCHANGED View OBVIOUS
<1> USE DEF Abs!Next, Abs!Launch, Abs!Fail, Abs!Halt
<1>1. CASE UNCHANGED <<instances, status>>
  BY <1>1 DEF View
<1>2. ASSUME NEW s \in Starters, NEW i \in Insts, StartPublish(s, i)
      PROVE  Abs!Next
  BY <1>2, ViewOfPublish DEF StartPublish
<1>3. ASSUME NEW s \in Starters, NEW i \in Insts, StartPublishError(s, i)
      PROVE  Abs!Next
  BY <1>3, ViewOfPublish DEF StartPublishError
<1>4. ASSUME NEW i \in Insts, RefreshGivesUp(i)
      PROVE  Abs!Next \/ UNCHANGED View
  BY <1>4, ViewOfStatus DEF RefreshGivesUp, RestUnchangedByLoop
<1>5. ASSUME NEW a \in Accounts, HandleStop(a) \/ HandleDelete(a)
      PROVE  Abs!Next \/ UNCHANGED View
  <2>1. CASE UNCHANGED status
    BY <1>5, <2>1, <1>1 DEF HandleStop, HandleDelete, StopInstance
  <2>2. CASE ~UNCHANGED status
    <3> DEFINE i == instances[a]
    <3>1. /\ i # NoInst
          /\ status' = [status EXCEPT ![i] = "stopped"]
          /\ UNCHANGED instances
      BY <1>5, <2>2 DEF HandleStop, HandleDelete, StopInstance
    <3>2. i \in Insts
      BY <3>1 DEF IInv, TypeOK
    <3>3. CASE UNCHANGED View
      BY <3>3
    <3>4. ASSUME NEW b \in Accounts, instances[b] = i, View' = [View EXCEPT ![b] = "stopped"]
          PROVE  Abs!Next
      <4>1. View[b] = status[i] /\ status[i] # "free"
        BY <3>1, <3>4 DEF View, IInv, EntryIsOwn
      <4>2. View[b] # "absent"
        BY <4>1, <3>2 DEF IInv, TypeOK
      <4> QED BY <3>4, <4>2
    <3>5. \/ UNCHANGED View
          \/ \E b \in Accounts : instances[b] = i /\ View' = [View EXCEPT ![b] = "stopped"]
      <4> HIDE DEF i
      <4> QED BY <3>1, <3>2, ViewOfStatus
    <3> QED BY <3>3, <3>4, <3>5
  <2> QED BY <2>1, <2>2
<1>6. CASE \E i \in Insts : \/ ComputeSleep(i) \/ StopWhileAsleep(i) \/ TimerFires(i)
                            \/ Recheck(i) \/ RefreshOk(i) \/ RefreshRetry(i) \/ TokenExpires(i)
  BY <1>6, <1>1 DEF ComputeSleep, StopWhileAsleep, TimerFires, Recheck, RefreshOk,
                    RefreshRetry, TokenExpires, RestUnchangedByLoop
<1>7. CASE \/ \E s \in Starters : StartCheck(s) \/ StartTokenFetched(s)
           \/ \E s \in Starters, a \in Accounts : HandleStart(s, a)
           \/ \E a \in Accounts : DeleteStored(a)
           \/ UNCHANGED vars
  BY <1>7, <1>1 DEF StartCheck, StartTokenFetched, HandleStart, DeleteStored, vars, instVars
<1> QED BY <1>2, <1>3, <1>4, <1>5, <1>6, <1>7 DEF Next, StartInstance, tokenRefreshLoop

(* The instance map keeps the promise of AccountStatus.                    *)
THEOREM KeepsThePromise == Spec => ImplementsAccountStatus
<1>1. Init => Abs!Init
  BY DEF Init, Abs!Init, View
<1>2. Spec => Abs!Init /\ [][Abs!Next]_View
  BY <1>1, NextImplements, IInvHolds, PTL DEF Spec
<1> QED BY <1>2 DEF ImplementsAccountStatus, Abs!Spec

-----------------------------------------------------------------------------
(* Starts that do not overlap: nobody else publishes between the check of a*)
(* start and its own publication.                                          *)

OneStarter ==
    \A s, t \in Starters :
        s # t /\ startPc[s] # "idle" /\ startPc[t] # "idle" /\ startFor[s] = startFor[t]
            => startFor[s] \in raced

NothingToReplace ==
    \A s \in Starters :
        startPc[s] \in {"token", "publish", "publishError"} /\ startFor[s] \notin raced =>
            \A i \in Insts : owner[i] = startFor[s] => status[i] # "running"

NoOverlap == OneStarter /\ NothingToReplace /\ RunningIsRegistered

LEMMA NextNoOverlap == IInv /\ NoOverlap /\ [Next]_vars => NoOverlap'
<1> SUFFICES ASSUME IInv, NoOverlap, [Next]_vars PROVE NoOverlap' OBVIOUS
<1> USE DEF NoOverlap, OneStarter, RunningIsRegistered, NothingToReplace, IInv, TypeOK
<1>1. CASE \E i \in Insts : tokenRefreshLoop(i) \/ TokenExpires(i)
  BY <1>1 DEF tokenRefreshLoop, ComputeSleep, StopWhileAsleep, TimerFires, Recheck,
              RefreshOk, RefreshRetry, RefreshGivesUp, TokenExpires, RestUnchangedByLoop,
              startVars
<1>2. CASE \E a \in Accounts : HandleStop(a) \/ HandleDelete(a)
  BY <1>2 DEF HandleStop, HandleDelete, StopInstance, startVars
<1>3. ASSUME NEW s \in Starters, NEW i \in Insts, StartPublish(s, i) \/ StartPublishError(s, i)
      PROVE  NoOverlap'
  <2>1. startFor[s] \in Accounts
    BY <1>3 DEF StartPublish, StartPublishError, StarterHasAccount
  <2>2. OneStarter' /\ NothingToReplace'
    BY <1>3 DEF StartPublish, StartPublishError, Publish, Return
  <2>3. RunningIsRegistered'
    <3> SUFFICES ASSUME NEW j \in Insts, status'[j] = "running", owner'[j] \notin raced'
                 PROVE  instances'[owner'[j]] = j
      OBVIOUS
    <3>1. /\ instances' = [instances EXCEPT ![startFor[s]] = i]
          /\ owner' = [owner EXCEPT ![i] = startFor[s]]
          /\ raced' = raced
      BY <1>3 DEF StartPublish, StartPublishError, Publish
    <3>2. CASE j = i
      BY <2>1, <3>1, <3>2
    <3>3. CASE j # i
      <4>1. status[j] = "running" /\ owner'[j] = owner[j]
        BY <1>3, <3>1, <3>3 DEF StartPublish, StartPublishError
      <4>2. owner[j] # startFor[s]
        BY <1>3, <3>1, <4>1 DEF StartPublish, StartPublishError
      <4> QED BY <3>1, <4>1, <4>2
    <3> QED BY <3>2, <3>3
  <2> QED BY <2>2, <2>3
<1>4. ASSUME NEW s \in Starters, StartCheck(s)
      PROVE  NoOverlap'
  BY <1>4, InstancesAssumption DEF StartCheck, GetInstanceStatus, Return, instVars, StarterHasAccount
<1>5. ASSUME NEW s \in Starters, NEW a \in Accounts, HandleStart(s, a)
      PROVE  NoOverlap'
  BY <1>5 DEF HandleStart, Starting, instVars
<1>6. CASE \/ \E s \in Starters : StartTokenFetched(s)
           \/ \E a \in Accounts : DeleteStored(a)
           \/ UNCHANGED vars
  BY <1>6 DEF StartTokenFetched, DeleteStored, vars, instVars, startVars
<1> QED BY <1>1, <1>2, <1>3, <1>4, <1>5, <1>6 DEF Next, StartInstance

(* StopInstance reaches every running instance of an account whose starts  *)
(* have not overlapped.                                                    *)
THEOREM SerialStartsLoseNothing == Spec => []RunningIsRegistered
<1>1. Init => NoOverlap
  BY InstancesAssumption DEF Init, NoOverlap, OneStarter, RunningIsRegistered, NothingToReplace
<1>2. NoOverlap => RunningIsRegistered
  BY DEF NoOverlap
<1> QED BY <1>1, <1>2, NextNoOverlap, IInvHolds, PTL DEF Spec
=============================================================================
