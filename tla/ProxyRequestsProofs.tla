------------------------- MODULE ProxyRequestsProofs -------------------------
(***************************************************************************)
(* Proofs about ProxyRequests.tla, for any finite sets of accounts and     *)
(* requests and any number of attempts.                                    *)
(***************************************************************************)
EXTENDS ProxyRequests, FiniteSetTheorems, TLAPS

(* The loop variable stays within the loop.                                *)
WithinBudget == \A r \in Requests : attempt[r] < Budget(r)

(* A request that was not accepted yet has tried nothing.                  *)
FreshRequest == \A r \in Requests : pc[r] = "idle" => attempt[r] = 0

(* From resolveState on there is an account, and what SelectAccount picked *)
(* has an entry in the instance map for good.                              *)
HasAccount ==
    \A r \in Requests :
        /\ pc[r] \in {"state", "admit", "upstream"} => acct[r] \in Accounts
        /\ pc[r] = "resolve" /\ mode[r] = "account" => acct[r] \in Accounts
        /\ pc[r] = "state" /\ mode[r] = "pool" => view[acct[r]] # "absent"

(* The inductive invariant. *)
IInv ==
    /\ TypeOK
    /\ WithinBudget
    /\ FreshRequest
    /\ HasAccount
    /\ AnsweredOnReturn
    /\ AttemptsAreDistinct
    /\ PoolFindsInstance

-----------------------------------------------------------------------------
LEMMA InitIInv == Init => IInv
<1> SUFFICES ASSUME Init PROVE IInv OBVIOUS
<1> USE ProxyAssumption DEF Init
<1>1. TypeOK
  BY DEF TypeOK, Map!ViewOK, Map!Views, Map!Init, UsageRecord
<1>2. WithinBudget /\ FreshRequest /\ HasAccount /\ AnsweredOnReturn /\ PoolFindsInstance
  BY DEF WithinBudget, FreshRequest, HasAccount, AnsweredOnReturn, PoolFindsInstance, Budget
<1>3. AttemptsAreDistinct
  BY FS_EmptySet DEF AttemptsAreDistinct
<1> QED BY <1>1, <1>2, <1>3 DEF IInv

LEMMA RecordRequestType ==
    ASSUME TypeOK, NEW a \in Accounts, NEW r \in Requests, NEW failed \in BOOLEAN,
           NEW is429 \in BOOLEAN, RecordRequest(a, r, failed, is429)
    PROVE  /\ records' \in [Accounts -> SUBSET UsageRecord]
           /\ aged' \in [Accounts -> SUBSET UsageRecord]
           /\ saw429' \in [Accounts -> BOOLEAN]
<1>1. [req |-> r, failed |-> failed] \in UsageRecord
  BY DEF UsageRecord
<1> QED BY <1>1 DEF RecordRequest, TypeOK

(* A failed attempt adds its account to exclude, where it was not before.  *)
LEMMA NextAttemptCounts ==
    ASSUME IInv, NEW r \in Requests, pc[r] = "upstream"
    PROVE  Cardinality(exclude[r] \cup {acct[r]}) = attempt[r] + 1
<1>1. IsFiniteSet(exclude[r])
  BY FS_Subset, ProxyAssumption DEF IInv, TypeOK
<1>2. acct[r] \notin exclude[r] /\ Cardinality(exclude[r]) = attempt[r]
  BY DEF IInv, AttemptsAreDistinct
<1> QED BY <1>1, <1>2, FS_AddElement

LEMMA FailureIInv ==
    ASSUME IInv, NEW r \in Requests, ProxyError(r) \/ RetryableStatus(r)
    PROVE  IInv'
<1>1. pc[r] = "upstream" /\ acct[r] \in Accounts /\ answer[r] = "none"
  BY DEF IInv, TypeOK, HasAccount, AnsweredOnReturn, ProxyError, RetryableStatus
<1>2. /\ UNCHANGED <<view, kind, mode, snapshot, acct>>
      /\ records' \in [Accounts -> SUBSET UsageRecord]
      /\ aged' \in [Accounts -> SUBSET UsageRecord]
      /\ saw429' \in [Accounts -> BOOLEAN]
  <2>1. \E is429 \in BOOLEAN : RecordRequest(acct[r], r, TRUE, is429)
    BY DEF ProxyError, RetryableStatus
  <2>2. TypeOK
    BY DEF IInv
  <2> QED BY <1>1, <2>1, <2>2, RecordRequestType DEF ProxyError, RetryableStatus
<1>3. CASE Respond(r, "badGateway") /\ UNCHANGED <<attempt, exclude>>
  <2> USE <1>1, <1>2, <1>3 DEF Respond, Goto
  <2>1. TypeOK'
    BY DEF IInv, TypeOK, Map!ViewOK, Refused
  <2>2. WithinBudget' /\ FreshRequest' /\ AttemptsAreDistinct'
    BY DEF IInv, TypeOK, WithinBudget, Budget, FreshRequest, AttemptsAreDistinct
  <2>3. HasAccount' /\ PoolFindsInstance'
    BY DEF IInv, TypeOK, HasAccount, PoolFindsInstance
  <2>4. AnsweredOnReturn'
    BY DEF IInv, TypeOK, AnsweredOnReturn
  <2> QED BY <2>1, <2>2, <2>3, <2>4 DEF IInv
<1>4. CASE NextAttempt(r) /\ ~LastAttempt(r)
  <2> USE <1>1, <1>2, <1>4 DEF NextAttempt, Goto
  <2>1. attempt[r] + 1 < Budget(r) /\ Budget(r) <= MaxAttempts
    BY ProxyAssumption DEF IInv, TypeOK, LastAttempt, Budget
  <2>2. attempt' \in [Requests -> 0 .. MaxAttempts - 1]
    <3>1. attempt[r] + 1 \in 0 .. MaxAttempts - 1
      BY <2>1, ProxyAssumption DEF IInv, TypeOK, Budget
    <3> QED BY <3>1 DEF IInv, TypeOK
  <2>3. TypeOK'
    BY <2>2 DEF IInv, TypeOK, Map!ViewOK
  <2>4. WithinBudget'
    BY <2>1 DEF IInv, TypeOK, WithinBudget, Budget
  <2>5. FreshRequest' /\ AnsweredOnReturn'
    BY DEF IInv, TypeOK, FreshRequest, AnsweredOnReturn
  <2>6. HasAccount' /\ PoolFindsInstance'
    BY DEF IInv, TypeOK, HasAccount, PoolFindsInstance
  <2>7. AttemptsAreDistinct'
    <3> SUFFICES ASSUME NEW q \in Requests
                 PROVE  /\ Cardinality(exclude'[q]) = attempt'[q]
                        /\ pc'[q] \in {"state", "admit", "upstream"} => acct'[q] \notin exclude'[q]
      BY DEF AttemptsAreDistinct
    <3>1. CASE q = r
      BY <3>1, NextAttemptCounts DEF IInv, TypeOK
    <3>2. CASE q # r
      BY <3>2 DEF IInv, TypeOK, AttemptsAreDistinct
    <3> QED BY <3>1, <3>2
  <2> QED BY <2>3, <2>4, <2>5, <2>6, <2>7 DEF IInv
<1> QED BY <1>3, <1>4 DEF ProxyError, RetryableStatus

LEMMA HandlerIInv ==
    ASSUME IInv, NEW r \in Requests,
           Reject(r) \/ Accept(r) \/ Resolve(r) \/ Select(r) \/ GetState(r) \/ Admit(r) \/ Forward(r)
    PROVE  IInv'
<1> USE ProxyAssumption DEF Respond, Goto
<1>1. TypeOK'
  <2> USE DEF IInv, TypeOK, Map!ViewOK, Forwarded, Refused, usageVars
  <2>1. CASE Reject(r) \/ Resolve(r) \/ GetState(r) \/ Forward(r)
    BY <2>1 DEF Reject, Resolve, GetState, Forward
  <2>2. CASE Accept(r)
    BY <2>2 DEF Accept
  <2>3. CASE Select(r)
    BY <2>3 DEF Select, Available
  <2>4. CASE Admit(r)
    <3>1. /\ records' \in [Accounts -> SUBSET UsageRecord]
          /\ aged' \in [Accounts -> SUBSET UsageRecord]
          /\ saw429' \in [Accounts -> BOOLEAN]
      <4>1. acct[r] \in Accounts
        BY <2>4 DEF Admit, HasAccount
      <4> QED BY <2>4, <4>1, RecordRequestType DEF Admit
    <3> QED BY <2>4, <3>1 DEF Admit
  <2> QED BY <2>1, <2>2, <2>3, <2>4
<1>2. UNCHANGED <<attempt, exclude>>
  BY DEF Reject, Accept, Resolve, Select, GetState, Admit, Forward
<1>3. WithinBudget'
  <2>1. CASE Accept(r)
    BY <1>2, <2>1 DEF IInv, TypeOK, WithinBudget, FreshRequest, Budget, Accept
  <2>2. CASE UNCHANGED mode
    BY <1>2, <2>2 DEF IInv, WithinBudget, Budget
  <2> QED BY <2>1, <2>2 DEF Reject, Resolve, Select, GetState, Admit, Forward
<1>4. FreshRequest' /\ AnsweredOnReturn'
  <2> USE DEF IInv, TypeOK, FreshRequest, AnsweredOnReturn
  <2>1. CASE Reject(r)  BY <2>1 DEF Reject
  <2>2. CASE Accept(r)  BY <2>2 DEF Accept
  <2>3. CASE Resolve(r)  BY <2>3 DEF Resolve, WithinBudget
  <2>4. CASE Select(r)  BY <2>4 DEF Select
  <2>5. CASE GetState(r)  BY <2>5 DEF GetState
  <2>6. CASE Admit(r)  BY <2>6 DEF Admit
  <2>7. CASE Forward(r)  BY <2>7 DEF Forward, Forwarded
  <2> QED BY <2>1, <2>2, <2>3, <2>4, <2>5, <2>6, <2>7
<1>5. HasAccount'
  <2> USE DEF IInv, TypeOK, HasAccount
  <2>1. CASE Reject(r)  BY <2>1 DEF Reject
  <2>2. CASE Accept(r)  BY <2>2 DEF Accept
  <2>3. CASE Resolve(r)  BY <2>3 DEF Resolve
  <2>4. CASE Select(r)
    <3>1. CASE Available(r) = {}  BY <2>4, <3>1 DEF Select
    <3>2. CASE Available(r) # {}
      <4>1. PICK a \in Available(r) : acct' = [acct EXCEPT ![r] = a]
        BY <2>4, <3>2 DEF Select
      <4>2. a \in Accounts /\ view[a] # "absent"
        BY DEF Available
      <4> QED BY <2>4, <3>2, <4>1, <4>2 DEF Select
    <3> QED BY <3>1, <3>2
  <2>5. CASE GetState(r)  BY <2>5 DEF GetState
  <2>6. CASE Admit(r)  BY <2>6 DEF Admit
  <2>7. CASE Forward(r)  BY <2>7 DEF Forward
  <2> QED BY <2>1, <2>2, <2>3, <2>4, <2>5, <2>6, <2>7
<1>6. AttemptsAreDistinct'
  <2> USE DEF IInv, TypeOK, AttemptsAreDistinct
  <2>1. CASE Reject(r)  BY <2>1 DEF Reject
  <2>2. CASE Accept(r)  BY <2>2 DEF Accept, FreshRequest
  <2>3. CASE Resolve(r)
    <3>1. mode[r] = "account" => exclude[r] = {}
      <4>1. mode[r] = "account" => Cardinality(exclude[r]) = 0
        BY DEF WithinBudget, Budget
      <4>2. IsFiniteSet(exclude[r])
        BY FS_Subset, ProxyAssumption
      <4> QED BY <4>1, <4>2, FS_EmptySet
    <3> QED BY <1>2, <2>3, <3>1 DEF Resolve
  <2>4. CASE Select(r)
    <3>1. CASE Available(r) = {}  BY <2>4, <3>1 DEF Select
    <3>2. CASE Available(r) # {}
      <4>1. PICK a \in Available(r) : acct' = [acct EXCEPT ![r] = a]
        BY <2>4, <3>2 DEF Select
      <4>2. a \notin exclude[r]
        BY DEF Available
      <4> QED BY <1>2, <2>4, <3>2, <4>1, <4>2 DEF Select
    <3> QED BY <3>1, <3>2
  <2>5. CASE GetState(r)  BY <2>5 DEF GetState
  <2>6. CASE Admit(r)  BY <2>6 DEF Admit
  <2>7. CASE Forward(r)  BY <2>7 DEF Forward
  <2> QED BY <2>1, <2>2, <2>3, <2>4, <2>5, <2>6, <2>7
<1>7. PoolFindsInstance'
  <2> USE DEF IInv, TypeOK, PoolFindsInstance, AnsweredOnReturn
  <2>1. CASE Reject(r)  BY <2>1 DEF Reject
  <2>2. CASE Accept(r)  BY <2>2 DEF Accept
  <2>3. CASE Resolve(r)  BY <2>3 DEF Resolve
  <2>4. CASE Select(r)  BY <2>4 DEF Select
  <2>5. CASE GetState(r)  BY <2>5 DEF GetState, HasAccount
  <2>6. CASE Admit(r)  BY <2>6 DEF Admit
  <2>7. CASE Forward(r)  BY <2>7 DEF Forward, Forwarded
  <2> QED BY <2>1, <2>2, <2>3, <2>4, <2>5, <2>6, <2>7
<1> QED BY <1>1, <1>3, <1>4, <1>5, <1>6, <1>7 DEF IInv

LEMMA EnvironmentIInv ==
    ASSUME IInv, MapChanges \/ TimePasses \/ ReadUsage \/ UNCHANGED vars
    PROVE  IInv'
<1>1. UNCHANGED requestVars /\ UNCHANGED saw429
  BY DEF MapChanges, TimePasses, ReadUsage, vars, usageVars
<1>2. view' \in [Accounts -> Map!Views] /\ \A a \in Accounts : view[a] # "absent" => view'[a] # "absent"
  BY DEF IInv, TypeOK, MapChanges, TimePasses, ReadUsage, vars,
     Map!ViewOK, Map!Views, Map!Next, Map!Launch, Map!Fail, Map!Halt
<1>3. records' \in [Accounts -> SUBSET UsageRecord] /\ aged' \in [Accounts -> SUBSET UsageRecord]
  BY DEF IInv, TypeOK, MapChanges, TimePasses, ReadUsage, vars, usageVars
<1>4. TypeOK'
  BY <1>1, <1>2, <1>3 DEF IInv, TypeOK, requestVars, Map!ViewOK, Map!Views
<1>5. HasAccount'
  BY <1>1, <1>2 DEF IInv, TypeOK, HasAccount, requestVars
<1>6. WithinBudget' /\ FreshRequest' /\ AnsweredOnReturn' /\ AttemptsAreDistinct' /\ PoolFindsInstance'
  BY <1>1 DEF IInv, WithinBudget, Budget, FreshRequest, AnsweredOnReturn, AttemptsAreDistinct,
     PoolFindsInstance, requestVars
<1> QED BY <1>4, <1>5, <1>6 DEF IInv

LEMMA NextIInv == IInv /\ [Next]_vars => IInv'
BY HandlerIInv, FailureIInv, EnvironmentIInv DEF Next, Handler

LEMMA IInvHolds == Spec => []IInv
BY InitIInv, NextIInv, PTL DEF Spec

(* The variables keep their types; in particular no request starts an      *)
(* attempt beyond the last.                                                *)
THEOREM TypeCorrect == Spec => []TypeOK
<1>1. IInv => TypeOK BY DEF IInv
<1> QED BY <1>1, IInvHolds, PTL

(* No handler returns without an answer.                                   *)
THEOREM NoSilentReturn == Spec => []AnsweredOnReturn
<1>1. IInv => AnsweredOnReturn BY DEF IInv
<1> QED BY <1>1, IInvHolds, PTL

(* A request is never sent twice to an account.                            *)
THEOREM RetriesElsewhere == Spec => []AttemptsAreDistinct
<1>1. IInv => AttemptsAreDistinct BY DEF IInv
<1> QED BY <1>1, IInvHolds, PTL

(* What SelectAccount returns has an instance when GetInstanceState looks. *)
THEOREM SelectedHasInstance == Spec => []PoolFindsInstance
<1>1. IInv => PoolFindsInstance BY DEF IInv
<1> QED BY <1>1, IInvHolds, PTL

-----------------------------------------------------------------------------
(* The usage *)

Of(set, r) == {u \in set : u.req = r}
Failures(set, r) == {u \in Of(set, r) : u.failed}

LEMMA UsageTellsAttemptsIs ==
    UsageTellsAttempts <=>
      \A a \in Accounts, r \in Requests :
         /\ Of(records[a], r) # {} => a \in SentTo(r)
         /\ Failures(records[a], r) # {} => a \in FailedAt(r)
         /\ a \in SentTo(r) => Of(records[a], r) \cup Of(aged[a], r) # {}
         /\ a \in FailedAt(r) => Failures(records[a], r) \cup Failures(aged[a], r) # {}
BY DEF UsageTellsAttempts, Of, Failures

(* A step that records nothing and leaves requests where they are, seen    *)
(* from the accounts they were sent to.                                    *)
LEMMA QuietStep ==
    ASSUME UsageTellsAttempts, UNCHANGED <<records, aged>>,
           \A r \in Requests : SentTo(r)' = SentTo(r) /\ FailedAt(r)' = FailedAt(r)
    PROVE  UsageTellsAttempts'
BY DEF UsageTellsAttempts

(* A request's record, of an attempt that begins or that failed.           *)
LEMMA RecordStep ==
    ASSUME IInv, UsageTellsAttempts, NEW r \in Requests, NEW failed \in BOOLEAN, NEW is429 \in BOOLEAN,
           acct[r] \in Accounts, RecordRequest(acct[r], r, failed, is429),
           \A q \in Requests \ {r} : SentTo(q)' = SentTo(q) /\ FailedAt(q)' = FailedAt(q),
           SentTo(r)' = SentTo(r) \cup {acct[r]},
           FailedAt(r)' = IF failed THEN FailedAt(r) \cup {acct[r]} ELSE FailedAt(r)
    PROVE  UsageTellsAttempts'
<1> DEFINE new == [req |-> r, failed |-> failed]
<1>1. /\ aged' = aged
      /\ \A a \in Accounts : records'[a] = IF a = acct[r] THEN (records[a] \ aged[a]) \cup {new} ELSE records[a]
  BY DEF RecordRequest, IInv, TypeOK
<1> SUFFICES ASSUME NEW a \in Accounts, NEW q \in Requests
             PROVE  /\ Of(records'[a], q) # {} => a \in SentTo(q)'
                    /\ Failures(records'[a], q) # {} => a \in FailedAt(q)'
                    /\ a \in SentTo(q)' => Of(records'[a], q) \cup Of(aged'[a], q) # {}
                    /\ a \in FailedAt(q)' => Failures(records'[a], q) \cup Failures(aged'[a], q) # {}
  BY DEF UsageTellsAttempts, Of, Failures
<1> QED
  <2>1. /\ Of(records[a], q) # {} => a \in SentTo(q)
        /\ Failures(records[a], q) # {} => a \in FailedAt(q)
        /\ a \in SentTo(q) => Of(records[a], q) \cup Of(aged[a], q) # {}
        /\ a \in FailedAt(q) => Failures(records[a], q) \cup Failures(aged[a], q) # {}
    BY UsageTellsAttemptsIs
  <2>2. CASE a = acct[r] /\ q = r
    <3>1. records'[a] = (records[a] \ aged[a]) \cup {new}
      BY <1>1, <2>2
    <3>2. new \in Of(records'[a], q) /\ (failed => new \in Failures(records'[a], q))
      BY <3>1, <2>2 DEF Of, Failures
    <3>3. a \in SentTo(q)'
      BY <2>2
    <3>4. Failures(records'[a], q) # {} => a \in FailedAt(q)'
      BY <2>1, <2>2, <3>1 DEF Of, Failures
    <3>5. a \in FailedAt(q)' => Failures(records'[a], q) \cup Failures(aged'[a], q) # {}
      <4>1. CASE failed
        BY <3>2, <4>1
      <4>2. CASE ~failed
        <5>1. Failures(records[a], q) \cup Failures(aged[a], q) \subseteq
              Failures(records'[a], q) \cup Failures(aged'[a], q)
          BY <1>1, <3>1 DEF Of, Failures
        <5> QED BY <2>1, <2>2, <4>2, <5>1
      <4> QED BY <4>1, <4>2
    <3> QED BY <3>2, <3>3, <3>4, <3>5
  <2>3. CASE ~(a = acct[r] /\ q = r)
    <3>1. a \in SentTo(q)' <=> a \in SentTo(q)
      BY <2>3
    <3>2. a \in FailedAt(q)' <=> a \in FailedAt(q)
      BY <2>3
    <3>3. Of(records'[a], q) \subseteq Of(records[a], q)
      <4>1. CASE a # acct[r]
        <5>1. records'[a] = records[a]
          BY <1>1, <4>1
        <5> QED BY <5>1
      <4>2. CASE a = acct[r]
        <5>1. records'[a] = (records[a] \ aged[a]) \cup {new} /\ new.req # q
          BY <1>1, <2>3, <4>2
        <5> QED BY <5>1 DEF Of
      <4> QED BY <4>1, <4>2
    <3>4. Of(records[a], q) \subseteq Of(records'[a], q) \cup Of(aged'[a], q)
      BY <1>1 DEF Of
    <3>5. Failures(records'[a], q) \subseteq Failures(records[a], q)
      BY <3>3 DEF Failures
    <3>7. Failures(records[a], q) \subseteq Failures(records'[a], q) \cup Failures(aged'[a], q)
      BY <3>4 DEF Failures
    <3>6. aged'[a] = aged[a]
      BY <1>1
    <3> QED BY <2>1, <3>1, <3>2, <3>3, <3>4, <3>5, <3>6, <3>7
  <2> QED BY <2>2, <2>3

(* Time and readers: a record is trimmed only when it has aged.            *)
LEMMA TrimStep ==
    ASSUME IInv, UsageTellsAttempts, TimePasses \/ ReadUsage
    PROVE  UsageTellsAttempts'
<1>1. \A r \in Requests : SentTo(r)' = SentTo(r) /\ FailedAt(r)' = FailedAt(r)
  BY DEF TimePasses, ReadUsage, requestVars, SentTo, FailedAt
<1>2. \A a \in Accounts : records'[a] \subseteq records[a] /\ records[a] \cup aged[a] \subseteq records'[a] \cup aged'[a]
  BY DEF TimePasses, ReadUsage, IInv, TypeOK
<1> SUFFICES ASSUME NEW a \in Accounts, NEW r \in Requests
             PROVE  /\ Of(records'[a], r) # {} => a \in SentTo(r)'
                    /\ Failures(records'[a], r) # {} => a \in FailedAt(r)'
                    /\ a \in SentTo(r)' => Of(records'[a], r) \cup Of(aged'[a], r) # {}
                    /\ a \in FailedAt(r)' => Failures(records'[a], r) \cup Failures(aged'[a], r) # {}
  BY DEF UsageTellsAttempts, Of, Failures
<1>3. /\ Of(records[a], r) # {} => a \in SentTo(r)
      /\ Failures(records[a], r) # {} => a \in FailedAt(r)
      /\ a \in SentTo(r) => Of(records[a], r) \cup Of(aged[a], r) # {}
      /\ a \in FailedAt(r) => Failures(records[a], r) \cup Failures(aged[a], r) # {}
  BY UsageTellsAttemptsIs
<1>4. /\ Of(records'[a], r) \subseteq Of(records[a], r)
      /\ Failures(records'[a], r) \subseteq Failures(records[a], r)
      /\ Of(records[a], r) \cup Of(aged[a], r) \subseteq Of(records'[a], r) \cup Of(aged'[a], r)
      /\ Failures(records[a], r) \cup Failures(aged[a], r)
           \subseteq Failures(records'[a], r) \cup Failures(aged'[a], r)
  BY <1>2 DEF Of, Failures
<1> QED BY <1>1, <1>3, <1>4

LEMMA NextUsage == IInv /\ UsageTellsAttempts /\ [Next]_vars => UsageTellsAttempts'
<1> SUFFICES ASSUME IInv, UsageTellsAttempts, [Next]_vars PROVE UsageTellsAttempts' OBVIOUS
<1>1. CASE MapChanges \/ UNCHANGED vars
  BY <1>1, QuietStep DEF MapChanges, vars, requestVars, usageVars, SentTo, FailedAt
<1>2. CASE TimePasses \/ ReadUsage
  BY <1>2, TrimStep
<1>3. ASSUME NEW r \in Requests, ProxyError(r) \/ RetryableStatus(r)
      PROVE  UsageTellsAttempts'
  <2>1. pc[r] = "upstream" /\ acct[r] \in Accounts /\ answer[r] = "none" /\ UNCHANGED acct
    BY <1>3 DEF IInv, TypeOK, HasAccount, AnsweredOnReturn, ProxyError, RetryableStatus
  <2>2. \E is429 \in BOOLEAN : RecordRequest(acct[r], r, TRUE, is429)
    BY <1>3 DEF ProxyError, RetryableStatus
  <2>3. \/ Respond(r, "badGateway") /\ UNCHANGED exclude
        \/ NextAttempt(r)
    BY <1>3 DEF ProxyError, RetryableStatus
  <2>4. \A q \in Requests \ {r} : SentTo(q)' = SentTo(q) /\ FailedAt(q)' = FailedAt(q)
    BY <2>1, <2>3 DEF Respond, NextAttempt, Goto, SentTo, FailedAt, IInv, TypeOK
  <2>5. SentTo(r)' = SentTo(r) \cup {acct[r]} /\ FailedAt(r)' = FailedAt(r) \cup {acct[r]}
    BY <2>1, <2>3 DEF Respond, NextAttempt, Goto, SentTo, FailedAt, IInv, TypeOK, Forwarded
  <2> QED BY <2>1, <2>2, <2>4, <2>5, RecordStep
<1>4. ASSUME NEW r \in Requests, Admit(r)
      PROVE  UsageTellsAttempts'
  <2>1. pc[r] = "admit" /\ acct[r] \in Accounts /\ answer[r] = "none" /\ UNCHANGED <<acct, exclude>>
    BY <1>4 DEF IInv, TypeOK, HasAccount, AnsweredOnReturn, Admit
  <2>2. \A q \in Requests \ {r} : SentTo(q)' = SentTo(q) /\ FailedAt(q)' = FailedAt(q)
    BY <1>4, <2>1 DEF Admit, Respond, Goto, SentTo, FailedAt, IInv, TypeOK
  <2>3. FailedAt(r)' = FailedAt(r)
    BY <1>4, <2>1 DEF Admit, Respond, Goto, FailedAt, IInv, TypeOK
  <2>4. CASE Respond(r, "rateLimited") /\ UNCHANGED usageVars
    <3>1. SentTo(r)' = SentTo(r)
      BY <2>1, <2>4 DEF Respond, Goto, SentTo, IInv, TypeOK, Forwarded
    <3> QED BY <2>2, <2>3, <2>4, <3>1, QuietStep DEF usageVars
  <2>5. CASE Goto(r, "upstream") /\ UNCHANGED answer /\ RecordRequest(acct[r], r, FALSE, FALSE)
    <3>1. SentTo(r)' = SentTo(r) \cup {acct[r]}
      BY <2>1, <2>5 DEF Goto, SentTo, IInv, TypeOK
    <3> QED BY <2>1, <2>2, <2>3, <2>5, <3>1, RecordStep
  <2> QED BY <1>4, <2>4, <2>5 DEF Admit
<1>5. ASSUME NEW r \in Requests, Reject(r) \/ Accept(r) \/ Resolve(r) \/ Select(r) \/ GetState(r) \/ Forward(r)
      PROVE  UsageTellsAttempts'
  <2>1. \A q \in Requests : SentTo(q)' = SentTo(q) /\ FailedAt(q)' = FailedAt(q)
    BY <1>5 DEF SentTo, FailedAt, IInv, TypeOK, AnsweredOnReturn, Forwarded, Respond, Goto,
       Reject, Accept, Resolve, Select, GetState, Forward
  <2> QED BY <1>5, <2>1, QuietStep DEF Reject, Accept, Resolve, Select, GetState, Forward, usageVars
<1> QED BY <1>1, <1>2, <1>3, <1>4, <1>5 DEF Next, Handler

(* What the usage page shows and the balancer compares is what was sent in *)
(* the last hour, and what failed, through every retry.                    *)
THEOREM UsageIsTrue == Spec => []UsageTellsAttempts
<1>1. Init => UsageTellsAttempts
  BY DEF Init, UsageTellsAttempts, SentTo, FailedAt, Forwarded
<1> QED BY <1>1, NextUsage, IInvHolds, PTL DEF Spec
=============================================================================
