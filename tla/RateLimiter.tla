----------------------------- MODULE RateLimiter -----------------------------
(***************************************************************************)
(* src/instance/rate_limiter.go: token buckets, one for the whole proxy and*)
(* one per account, the latter thrown away when the console changes the    *)
(* rate.                                                                   *)
(*                                                                         *)
(* CheckRateLimit runs in the request's goroutine and takes four locks one *)
(* after the other: the manager's to read the configuration, the global    *)
(* bucket's, the manager's to find or create the account's bucket, and that*)
(* bucket's.  Anything may happen in between.                              *)
(*                                                                         *)
(* Tokens are counted in units of 1/TicksPerMinute of a token, so that a   *)
(* bucket of rpm tokens per minute gains rpm units per tick; the code has  *)
(* ticks of one second for rounding up, and floating point in place of     *)
(* exact units.                                                            *)
(***************************************************************************)
EXTENDS Naturals

CONSTANTS
    Accounts,
    Callers,          \* goroutines that may be inside CheckRateLimit
    Buckets,          \* identities of TokenBucket objects; a bound in TLC
    GlobalBucket,     \* the one InitRateLimiter makes
    NoBucket,
    GlobalRPM,        \* RATE_LIMIT_RPM, 0 if unset
    RPMs,             \* the rates the console may set, 0 for no limit
    TicksPerMinute,   \* 60 in the code
    MaxNow            \* bound on time

ASSUME RateLimiterAssumption ==
    /\ GlobalBucket \in Buckets
    /\ NoBucket \notin Buckets
    /\ GlobalRPM \in Nat
    /\ RPMs \subseteq Nat
    /\ TicksPerMinute \in Nat \ {0}
    /\ MaxNow \in Nat

VARIABLES
    now,
    perAccountRPM,
    accountLimiters,  \* account -> bucket or NoBucket
    bucket,           \* the bucket objects; rpm = 0 before NewTokenBucket
    pc, acct,         \* where a caller is, for which account
    rpmSeen,          \* its local perRPM
    lim,              \* its local lim
    retryAfter,       \* what it was told, when it was denied ...
    deniedAt,         \* ... and at what time (history)
    late,             \* callers that have read a rate that has changed since (history)
    outdated          \* the buckets they have made since (history)

callerVars == <<pc, acct, rpmSeen, lim, retryAfter, deniedAt>>
lateVars == <<late, outdated>>
vars == <<now, perAccountRPM, accountLimiters, bucket, callerVars, lateVars>>

(* A bucket; made and taken are history: when it was made and how many     *)
(* tokens it has given.                                                    *)
Bucket == [rpm : Nat, tokens : Nat, last : Nat, made : Nat, taken : Nat]

TypeOK ==
    /\ now \in 0 .. MaxNow
    /\ perAccountRPM \in RPMs \cup {0}
    /\ accountLimiters \in [Accounts -> (Buckets \ {GlobalBucket}) \cup {NoBucket}]
    /\ bucket \in [Buckets -> Bucket]
    /\ \A b \in Buckets :
          /\ bucket[b].tokens <= TicksPerMinute * bucket[b].rpm
          /\ bucket[b].made <= bucket[b].last /\ bucket[b].last <= now
    /\ pc \in [Callers -> {"idle", "global", "lookup", "create", "account", "allowed", "denied"}]
    /\ acct \in [Callers -> Accounts]
    /\ rpmSeen \in [Callers -> Nat]
    /\ lim \in [Callers -> Buckets]
    /\ retryAfter \in [Callers -> Nat]
    /\ deniedAt \in [Callers -> 0 .. MaxNow]
    /\ late \subseteq Callers /\ outdated \subseteq Buckets

NewTokenBucket(rpm, t) ==
    [rpm |-> rpm, tokens |-> TicksPerMinute * rpm, last |-> t, made |-> t, taken |-> 0]

(* InitRateLimiter ran, and RegisterProxy loaded the rate of the pool.     *)
Init ==
    /\ now = 0
    /\ perAccountRPM \in RPMs
    /\ accountLimiters = [a \in Accounts |-> NoBucket]
    /\ bucket = [b \in Buckets |-> NewTokenBucket(IF b = GlobalBucket THEN GlobalRPM ELSE 0, 0)]
    /\ pc = [c \in Callers |-> "idle"]
    /\ acct \in [Callers -> Accounts]
    /\ rpmSeen = [c \in Callers |-> 0]
    /\ lim = [c \in Callers |-> GlobalBucket]
    /\ retryAfter = [c \in Callers |-> 0]
    /\ deniedAt = [c \in Callers |-> 0]
    /\ late = {} /\ outdated = {}

-----------------------------------------------------------------------------
(* TokenBucket.Allow *)

Refilled(b) ==
    LET t == b.tokens + (now - b.last) * b.rpm
    IN  IF t <= TicksPerMinute * b.rpm THEN t ELSE TicksPerMinute * b.rpm

HasToken(b) == Refilled(b) >= TicksPerMinute

\* Mutant: rounded down.
Wait_RoundedDown(b) == (TicksPerMinute - Refilled(b)) \div b.rpm

\* math.Ceil(waitSeconds)
Wait(b) == (TicksPerMinute - Refilled(b) + b.rpm - 1) \div b.rpm

(* Mutant: lastRefill is only moved when a token is given.                 *)
AfterAllow_Forgets(b) ==
    IF HasToken(b)
      THEN [b EXCEPT !.tokens = Refilled(b) - TicksPerMinute, !.last = now, !.taken = @ + 1]
      ELSE [b EXCEPT !.tokens = Refilled(b)]

AfterAllow(b) ==
    IF HasToken(b)
      THEN [b EXCEPT !.tokens = Refilled(b) - TicksPerMinute, !.last = now, !.taken = @ + 1]
      ELSE [b EXCEPT !.tokens = Refilled(b), !.last = now]

(* One critical section: a caller that may go on goes to `next`.           *)
Allow(c, id, next) ==
    /\ bucket' = [bucket EXCEPT ![id] = AfterAllow(@)]
    /\ IF HasToken(bucket[id])
         THEN pc' = [pc EXCEPT ![c] = next] /\ UNCHANGED <<lim, retryAfter, deniedAt>>
         ELSE /\ pc' = [pc EXCEPT ![c] = "denied"]
              /\ lim' = [lim EXCEPT ![c] = id]
              /\ retryAfter' = [retryAfter EXCEPT ![c] = Wait(bucket[id])]
              /\ deniedAt' = [deniedAt EXCEPT ![c] = now]

-----------------------------------------------------------------------------
(* CheckRateLimit *)

\* What follows the global limit.
Afterwards(rpm) == IF rpm > 0 THEN "lookup" ELSE "allowed"

(* The configuration is read under the manager's lock.                     *)
CheckRateLimit(c, a) ==
    /\ pc[c] = "idle"
    /\ acct' = [acct EXCEPT ![c] = a]
    /\ rpmSeen' = [rpmSeen EXCEPT ![c] = perAccountRPM]
    /\ pc' = [pc EXCEPT ![c] = IF GlobalRPM > 0 THEN "global" ELSE Afterwards(perAccountRPM)]
    /\ late' = late \ {c}
    /\ UNCHANGED <<now, perAccountRPM, accountLimiters, bucket, lim, retryAfter, deniedAt, outdated>>

AllowGlobal(c) ==
    /\ pc[c] = "global"
    /\ Allow(c, GlobalBucket, Afterwards(rpmSeen[c]))
    /\ UNCHANGED <<now, perAccountRPM, accountLimiters, acct, rpmSeen, lateVars>>

(* getOrCreateAccountLimiter, first with the read lock ...                 *)
Lookup(c) ==
    /\ pc[c] = "lookup"
    /\ IF accountLimiters[acct[c]] # NoBucket
         THEN /\ lim' = [lim EXCEPT ![c] = accountLimiters[acct[c]]]
              /\ pc' = [pc EXCEPT ![c] = "account"]
         ELSE pc' = [pc EXCEPT ![c] = "create"] /\ UNCHANGED lim
    /\ UNCHANGED <<now, perAccountRPM, accountLimiters, bucket, acct, rpmSeen, retryAfter, deniedAt, lateVars>>

(* Mutant: the account is not looked up a second time.                     *)
Create_Unchecked(c, b) ==
    /\ pc[c] = "create"
    /\ bucket[b].rpm = 0 /\ b # GlobalBucket
    /\ bucket' = [bucket EXCEPT ![b] = NewTokenBucket(rpmSeen[c], now)]
    /\ accountLimiters' = [accountLimiters EXCEPT ![acct[c]] = b]
    /\ lim' = [lim EXCEPT ![c] = b]
    /\ pc' = [pc EXCEPT ![c] = "account"]
    /\ UNCHANGED <<now, perAccountRPM, acct, rpmSeen, retryAfter, deniedAt, lateVars>>

(* ... then with the write lock, for somebody may have created it.         *)
Create(c, b) ==
    /\ pc[c] = "create"
    /\ IF accountLimiters[acct[c]] # NoBucket
         THEN b = accountLimiters[acct[c]] /\ UNCHANGED <<bucket, accountLimiters, outdated>>
         ELSE /\ bucket[b].rpm = 0 /\ b # GlobalBucket
              /\ bucket' = [bucket EXCEPT ![b] = NewTokenBucket(rpmSeen[c], now)]
              /\ accountLimiters' = [accountLimiters EXCEPT ![acct[c]] = b]
              /\ outdated' = IF c \in late THEN outdated \cup {b} ELSE outdated
    /\ lim' = [lim EXCEPT ![c] = b]
    /\ pc' = [pc EXCEPT ![c] = "account"]
    /\ UNCHANGED <<now, perAccountRPM, acct, rpmSeen, retryAfter, deniedAt, late>>

AllowAccount(c) ==
    /\ pc[c] = "account"
    /\ Allow(c, lim[c], "allowed")
    /\ UNCHANGED <<now, perAccountRPM, accountLimiters, acct, rpmSeen, lateVars>>

(* The caller takes its answer; another request may come in.               *)
Return(c) ==
    /\ pc[c] \in {"allowed", "denied"}
    /\ pc' = [pc EXCEPT ![c] = "idle"]
    /\ rpmSeen' = [rpmSeen EXCEPT ![c] = 0]
    /\ lim' = [lim EXCEPT ![c] = GlobalBucket]
    /\ retryAfter' = [retryAfter EXCEPT ![c] = 0]
    /\ deniedAt' = [deniedAt EXCEPT ![c] = 0]
    /\ UNCHANGED <<now, perAccountRPM, accountLimiters, bucket, acct, lateVars>>

-----------------------------------------------------------------------------
(* Mutant: limiters are kept when the limit is lifted.                     *)
SetPerAccountRPM_KeepsLimiters(rpm) ==
    /\ perAccountRPM' = rpm
    /\ accountLimiters' = IF rpm = 0 THEN accountLimiters ELSE [a \in Accounts |-> NoBucket]
    /\ late' = {c \in Callers : pc[c] # "idle"} /\ outdated' = {}
    /\ UNCHANGED <<now, bucket, callerVars>>

(* handleUpdatePool sets the rate; callers keep the buckets they hold, and *)
(* the rate they have read.                                                *)
SetPerAccountRPM(rpm) ==
    /\ perAccountRPM' = rpm
    /\ accountLimiters' = [a \in Accounts |-> NoBucket]
    /\ late' = {c \in Callers : pc[c] # "idle"} /\ outdated' = {}
    /\ UNCHANGED <<now, bucket, callerVars>>

Tick ==
    /\ now < MaxNow
    /\ now' = now + 1
    /\ UNCHANGED <<perAccountRPM, accountLimiters, bucket, callerVars, lateVars>>

Next ==
    \/ \E c \in Callers :
          \/ \E a \in Accounts : CheckRateLimit(c, a)
          \/ AllowGlobal(c) \/ Lookup(c) \/ AllowAccount(c) \/ Return(c)
          \/ \E b \in Buckets : Create(c, b)
    \/ \E rpm \in RPMs : SetPerAccountRPM(rpm)
    \/ Tick

Spec == Init /\ [][Next]_vars

-----------------------------------------------------------------------------
(* Properties *)

(* However callers interleave, a bucket never gives more than it started   *)
(* with and what its rate allows for the time since.                       *)
GrantsWithinRate ==
    \A b \in Buckets :
        TicksPerMinute * bucket[b].taken
            <= bucket[b].rpm * (TicksPerMinute + now - bucket[b].made)

(* Retry-After is honest: it is between a tick and a minute, and a client  *)
(* that waits so long finds a token if nobody was at the bucket meanwhile. *)
RetryAfterIsSound ==
    \A c \in Callers : pc[c] = "denied" =>
        /\ retryAfter[c] \in 1 .. TicksPerMinute
        /\ (bucket[lim[c]].last = deniedAt[c] /\ now >= deniedAt[c] + retryAfter[c])
               => HasToken(bucket[lim[c]])

(* The bucket of an account is only ever dropped by SetPerAccountRPM: two  *)
(* first requests at the same time do not get a bucket, and a burst, each. *)
LimiterIsNotReplaced ==
    [][\A a \in Accounts :
          accountLimiters[a] # NoBucket => accountLimiters'[a] \in {accountLimiters[a], NoBucket}]_vars

(* A change of the rate reaches every limiter (rate_limiter.go:83), however*)
(* many requests are being checked: a limiter in use has the rate that is  *)
(* configured, unless it was made by a request that had read another before*)
(* the change.                                                             *)
LimitersPickUpTheRate ==
    \A a \in Accounts :
        accountLimiters[a] \in Buckets \ outdated =>
            bucket[accountLimiters[a]].rpm = perAccountRPM

-----------------------------------------------------------------------------
(* What is said of every limiter, and does not hold (the README has the    *)
(* counterexample).                                                        *)

(* "Reset existing per-account limiters so they pick up the new rate"      *)
(* (rate_limiter.go:83): a limiter in use has the rate that is configured. *)
AllLimitersPickUpTheRate ==
    \A a \in Accounts :
        accountLimiters[a] # NoBucket => bucket[accountLimiters[a]].rpm = perAccountRPM
=============================================================================
