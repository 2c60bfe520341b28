-------------------------- MODULE RateLimiterProofs --------------------------
(***************************************************************************)
(* Proofs about RateLimiter.tla, for any rates, any number of callers and  *)
(* any interleaving of checks and changes of the rate.                     *)
(***************************************************************************)
EXTENDS RateLimiter, Integers, TLAPS

(* What a bucket holds and has given together is what it was made with and *)
(* has gained: the inductive form of GrantsWithinRate.                     *)
Sound(b) ==
    /\ b \in Bucket
    /\ b.tokens <= TicksPerMinute * b.rpm
    /\ b.made <= b.last /\ b.last <= now
    /\ b.tokens + TicksPerMinute * b.taken <= b.rpm * (TicksPerMinute + b.last - b.made)

SoundBuckets == \A b \in Buckets : Sound(bucket[b])

(* A caller only asks a bucket that has a rate, so the time to wait is     *)
(* never divided by zero; a bucket in use is never made anew.              *)
RatesArePositive ==
    /\ \A a \in Accounts : accountLimiters[a] # NoBucket => bucket[accountLimiters[a]].rpm > 0
    /\ \A c \in Callers :
          /\ pc[c] \in {"lookup", "create"} => rpmSeen[c] > 0
          /\ pc[c] = "account" => bucket[lim[c]].rpm > 0
          /\ pc[c] = "global" => bucket[GlobalBucket].rpm > 0
    /\ bucket[GlobalBucket].rpm = GlobalRPM

IInv == TypeOK /\ SoundBuckets /\ RatesArePositive

-----------------------------------------------------------------------------
LEMMA Distributes == \A x, y, z \in Int : x * (y + z) = x * y + x * z
OBVIOUS

LEMMA ProductNat == \A x, y \in Nat : x * y \in Nat
OBVIOUS

(* A new bucket is full and has given nothing.                             *)
LEMMA NewBucketSound ==
    ASSUME NEW rpm \in Nat, now \in Nat
    PROVE  Sound(NewTokenBucket(rpm, now)) /\ NewTokenBucket(rpm, now).rpm = rpm
<1>1. TicksPerMinute * rpm \in Nat
  BY ProductNat, RateLimiterAssumption
<1>2. TicksPerMinute * 0 = 0 /\ TicksPerMinute * rpm = rpm * (TicksPerMinute + now - now)
  BY RateLimiterAssumption
<1> QED BY <1>1, <1>2 DEF Sound, NewTokenBucket, Bucket

(* Refilling a bucket adds at most its rate per tick and stays below the   *)
(* brim.                                                                   *)
LEMMA RefilledBounds ==
    ASSUME NEW b, Sound(b), now \in Nat
    PROVE  /\ Refilled(b) \in Nat
           /\ Refilled(b) <= TicksPerMinute * b.rpm
           /\ Refilled(b) + TicksPerMinute * b.taken <= b.rpm * (TicksPerMinute + now - b.made)
<1> USE RateLimiterAssumption
<1> DEFINE gain == (now - b.last) * b.rpm
           brim == TicksPerMinute * b.rpm
           given == TicksPerMinute * b.taken
           before == b.rpm * (TicksPerMinute + b.last - b.made)
           after == b.rpm * (TicksPerMinute + now - b.made)
<1>1. b.rpm \in Nat /\ b.tokens \in Nat /\ b.taken \in Nat /\ b.last \in Nat /\ b.made \in Nat
  BY DEF Sound, Bucket
<1>2. now - b.last \in Nat
  BY <1>1 DEF Sound
<1>3. gain \in Nat /\ brim \in Nat /\ given \in Nat
  BY <1>1, <1>2, ProductNat
<1>4. after = before + gain
  <2>1. TicksPerMinute + now - b.made = (TicksPerMinute + b.last - b.made) + (now - b.last)
    BY <1>1
  <2>2. after = before + b.rpm * (now - b.last)
    BY <2>1, <1>1, Distributes
  <2>3. b.rpm * (now - b.last) = gain
    BY <1>1, <1>2
  <2> QED BY <2>2, <2>3
<1>5. before \in Int
  BY <1>1
<1>6. b.tokens + given <= before /\ b.tokens <= brim
  BY DEF Sound
<1>7. Refilled(b) = IF b.tokens + gain <= brim THEN b.tokens + gain ELSE brim
  BY DEF Refilled
<1>8. Refilled(b) \in Nat /\ Refilled(b) <= brim /\ Refilled(b) <= b.tokens + gain
  <2> HIDE DEF gain, brim
  <2> QED BY <1>1, <1>3, <1>7
<1>9. Refilled(b) + given <= after
  <2> HIDE DEF gain, brim, given, before, after
  <2> QED BY <1>1, <1>3, <1>4, <1>5, <1>6, <1>8
<1> QED BY <1>8, <1>9

(* Allow keeps a bucket sound and leaves its rate alone.                   *)
LEMMA AllowSound ==
    ASSUME NEW b, Sound(b), now \in Nat
    PROVE  Sound(AfterAllow(b)) /\ AfterAllow(b).rpm = b.rpm
<1> USE RateLimiterAssumption
<1> DEFINE R == Refilled(b)
<1>1. /\ b \in Bucket /\ b.made <= b.last /\ b.last <= now
      /\ b.rpm \in Nat /\ b.taken \in Nat /\ b.made \in Nat
  BY DEF Sound, Bucket
<1>2. /\ R \in Nat /\ R <= TicksPerMinute * b.rpm
      /\ R + TicksPerMinute * b.taken <= b.rpm * (TicksPerMinute + now - b.made)
  BY RefilledBounds
<1>3. CASE HasToken(b)
  <2>1. AfterAllow(b) = [b EXCEPT !.tokens = R - TicksPerMinute, !.last = now, !.taken = @ + 1]
    BY <1>3 DEF AfterAllow
  <2>2. R - TicksPerMinute \in Nat
    BY <1>2, <1>3 DEF HasToken
  <2>3. TicksPerMinute * (b.taken + 1) = TicksPerMinute * b.taken + TicksPerMinute
    BY <1>1, Distributes
  <2>4. AfterAllow(b) = [rpm |-> b.rpm, tokens |-> R - TicksPerMinute, last |-> now,
                         made |-> b.made, taken |-> b.taken + 1]
    BY <2>1, <1>1 DEF Bucket
  <2>5. /\ R - TicksPerMinute <= TicksPerMinute * b.rpm
        /\ (R - TicksPerMinute) + TicksPerMinute * (b.taken + 1)
              <= b.rpm * (TicksPerMinute + now - b.made)
    <3> DEFINE x == TicksPerMinute * b.taken
               y == TicksPerMinute * b.rpm
               z == b.rpm * (TicksPerMinute + now - b.made)
    <3>1. x \in Int /\ y \in Int /\ z \in Int
      BY <1>1
    <3>2. (R - TicksPerMinute) + (x + TicksPerMinute) = R + x
      <4> HIDE DEF x, R
      <4> QED BY <1>2, <3>1
    <3>3. R \in Nat /\ R <= y
      BY <1>2
    <3>4. R - TicksPerMinute <= y
      <4> HIDE DEF y, R
      <4> QED BY <3>1, <3>3
    <3> QED BY <1>2, <2>3, <3>2, <3>4
  <2> HIDE DEF R
  <2> QED BY <1>1, <2>2, <2>4, <2>5 DEF Sound, Bucket
<1>4. CASE ~HasToken(b)
  <2>1. AfterAllow(b) = [rpm |-> b.rpm, tokens |-> R, last |-> now, made |-> b.made, taken |-> b.taken]
    BY <1>4, <1>1 DEF AfterAllow, Bucket
  <2> HIDE DEF R
  <2> QED BY <1>1, <1>2, <2>1 DEF Sound, Bucket
<1> QED BY <1>3, <1>4

(* Time to wait at a bucket with a rate.                                   *)
LEMMA WaitNat ==
    ASSUME NEW b, Sound(b), now \in Nat, b.rpm > 0, ~HasToken(b)
    PROVE  Wait(b) \in Nat
<1>1. b.rpm \in Nat
  BY DEF Sound, Bucket
<1>2. Refilled(b) \in Nat
  BY RefilledBounds
<1>3. TicksPerMinute - Refilled(b) + b.rpm - 1 \in Nat
  BY <1>1, <1>2, RateLimiterAssumption DEF HasToken
<1>4. \A x, y \in Nat : y > 0 => x \div y \in Nat
  OBVIOUS
<1> QED BY <1>1, <1>3, <1>4 DEF Wait

-----------------------------------------------------------------------------
LEMMA InitIInv == Init => IInv
<1> SUFFICES ASSUME Init PROVE IInv OBVIOUS
<1> USE RateLimiterAssumption DEF Init
<1>1. \A b \in Buckets :
         LET rpm == IF b = GlobalBucket THEN GlobalRPM ELSE 0
         IN  rpm \in Nat /\ bucket[b] = NewTokenBucket(rpm, now)
  OBVIOUS
<1>2. SoundBuckets
  BY <1>1, NewBucketSound DEF SoundBuckets
<1>3. TypeOK
  <2>1. bucket \in [Buckets -> Bucket]
    BY <1>2 DEF SoundBuckets, Sound
  <2>2. \A b \in Buckets :
          /\ bucket[b].tokens <= TicksPerMinute * bucket[b].rpm
          /\ bucket[b].made <= bucket[b].last /\ bucket[b].last <= now
    BY <1>2 DEF SoundBuckets, Sound
  <2>3. deniedAt \in [Callers -> 0 .. MaxNow] /\ now \in 0 .. MaxNow
    OBVIOUS
  <2>4. perAccountRPM \in RPMs \cup {0}
    OBVIOUS
  <2> QED BY <2>1, <2>2, <2>3, <2>4 DEF TypeOK
<1>4. RatesArePositive
  BY <1>1, NewBucketSound DEF RatesArePositive
<1> QED BY <1>2, <1>3, <1>4 DEF IInv

(* A step of Allow, at a bucket with a rate.                               *)
LEMMA AllowIInv ==
    ASSUME IInv, NEW c \in Callers, NEW id \in Buckets, bucket[id].rpm > 0,
           NEW next \in {"lookup", "allowed"}, next = "lookup" => rpmSeen[c] > 0,
           Allow(c, id, next),
           UNCHANGED <<now, perAccountRPM, accountLimiters, acct, rpmSeen, lateVars>>
    PROVE  IInv'
<1> USE RateLimiterAssumption
<1>1. now \in Nat /\ now' = now
  BY DEF IInv, TypeOK
<1>2. bucket' = [bucket EXCEPT ![id] = AfterAllow(bucket[id])] /\ Sound(bucket[id])
  BY DEF Allow, IInv, SoundBuckets
<1>3. \A b \in Buckets : Sound(bucket'[b]) /\ bucket'[b].rpm = bucket[b].rpm
  BY <1>1, <1>2, AllowSound DEF IInv, TypeOK, SoundBuckets
<1>4. SoundBuckets'
  BY <1>1, <1>3 DEF SoundBuckets, Sound
<1>5. TypeOK'
  <2>1. bucket' \in [Buckets -> Bucket]
    BY <1>2, <1>3 DEF IInv, TypeOK, Sound
  <2>2. \A b \in Buckets :
          /\ bucket'[b].tokens <= TicksPerMinute * bucket'[b].rpm
          /\ bucket'[b].made <= bucket'[b].last /\ bucket'[b].last <= now'
    BY <1>1, <1>3 DEF Sound
  <2>3. ~HasToken(bucket[id]) => Wait(bucket[id]) \in Nat
    BY <1>1, <1>2, WaitNat
  <2>4. /\ pc' \in [Callers -> {"idle", "global", "lookup", "create", "account", "allowed", "denied"}]
        /\ lim' \in [Callers -> Buckets]
        /\ retryAfter' \in [Callers -> Nat]
        /\ deniedAt' \in [Callers -> 0 .. MaxNow]
    BY <2>3 DEF Allow, IInv, TypeOK
  <2> QED BY <2>1, <2>2, <2>4 DEF IInv, TypeOK, lateVars
<1>6. RatesArePositive'
  <2>1. \A d \in Callers : d # c => pc'[d] = pc[d] /\ lim'[d] = lim[d]
    BY DEF Allow, IInv, TypeOK
  <2>2. pc'[c] \in {next, "denied"}
    BY DEF Allow, IInv, TypeOK
  <2> QED BY <1>3, <2>1, <2>2 DEF IInv, TypeOK, RatesArePositive
<1> QED BY <1>4, <1>5, <1>6 DEF IInv

(* Steps that leave every bucket as it is.                                 *)
LEMMA OtherIInv ==
    ASSUME IInv, UNCHANGED bucket,
           \/ \E c \in Callers : Lookup(c) \/ Return(c) \/ \E a \in Accounts : CheckRateLimit(c, a)
           \/ \E c \in Callers, b \in Buckets : Create(c, b)
           \/ \E rpm \in RPMs : SetPerAccountRPM(rpm)
           \/ Tick
           \/ UNCHANGED vars
    PROVE  IInv'
<1> USE RateLimiterAssumption
<1>1. now \in Nat /\ now' \in 0 .. MaxNow /\ now <= now'
  BY DEF IInv, TypeOK, Lookup, Return, CheckRateLimit, Create, SetPerAccountRPM, Tick, vars
<1>2. SoundBuckets'
  <2> SUFFICES ASSUME NEW b \in Buckets PROVE Sound(bucket[b])'
    BY DEF SoundBuckets
  <2>1. Sound(bucket[b]) /\ bucket[b].last \in Nat
    BY DEF IInv, SoundBuckets, Sound, Bucket
  <2> QED BY <1>1, <2>1 DEF Sound
<1>3. /\ bucket' \in [Buckets -> Bucket]
      /\ \A b \in Buckets :
          /\ bucket'[b].tokens <= TicksPerMinute * bucket'[b].rpm
          /\ bucket'[b].made <= bucket'[b].last /\ bucket'[b].last <= now'
  BY <1>2 DEF IInv, TypeOK, SoundBuckets, Sound
<1>4. ASSUME NEW c \in Callers, Lookup(c) \/ Return(c)
      PROVE  TypeOK' /\ RatesArePositive'
  BY <1>1, <1>3, <1>4 DEF IInv, TypeOK, RatesArePositive, Lookup, Return, lateVars
<1>5. ASSUME NEW c \in Callers, NEW a \in Accounts, CheckRateLimit(c, a)
      PROVE  TypeOK' /\ RatesArePositive'
  <2>1. perAccountRPM \in Nat
    BY DEF IInv, TypeOK
  <2> QED BY <1>1, <1>3, <1>5, <2>1 DEF IInv, TypeOK, RatesArePositive, CheckRateLimit, Afterwards
<1>6. ASSUME NEW c \in Callers, NEW b \in Buckets, Create(c, b)
      PROVE  TypeOK' /\ RatesArePositive'
  <2>1. CASE accountLimiters[acct[c]] # NoBucket
    BY <1>1, <1>3, <1>6, <2>1 DEF IInv, TypeOK, RatesArePositive, Create
  <2>2. CASE accountLimiters[acct[c]] = NoBucket
    <3>1. bucket'[b].rpm = rpmSeen[c] /\ bucket[b].rpm = 0 /\ rpmSeen[c] > 0
      BY <1>6, <2>2 DEF IInv, TypeOK, RatesArePositive, Create, NewTokenBucket
    <3> QED BY <3>1
  <2> QED BY <2>1, <2>2
<1>7. ASSUME NEW rpm \in RPMs, SetPerAccountRPM(rpm)
      PROVE  TypeOK' /\ RatesArePositive'
  BY <1>1, <1>3, <1>7 DEF IInv, TypeOK, RatesArePositive, SetPerAccountRPM, callerVars
<1>8. CASE Tick \/ UNCHANGED vars
  <2>1. UNCHANGED <<perAccountRPM, accountLimiters, callerVars, lateVars>>
    BY <1>8 DEF Tick, vars, callerVars, lateVars
  <2>2. TypeOK'
    BY <1>1, <1>3, <2>1 DEF IInv, TypeOK, callerVars, lateVars
  <2>3. RatesArePositive'
    BY <2>1 DEF IInv, RatesArePositive, callerVars
  <2> QED BY <1>2, <2>2, <2>3 DEF IInv
<1> QED BY <1>2, <1>4, <1>5, <1>6, <1>7, <1>8 DEF IInv

LEMMA CreateIInv ==
    ASSUME IInv, NEW c \in Callers, NEW b \in Buckets, Create(c, b),
           accountLimiters[acct[c]] = NoBucket
    PROVE  IInv'
<1> USE RateLimiterAssumption
<1>1. now \in Nat /\ now' = now /\ rpmSeen[c] \in Nat /\ rpmSeen[c] > 0
  BY DEF IInv, TypeOK, RatesArePositive, Create
<1>2. /\ bucket' = [bucket EXCEPT ![b] = NewTokenBucket(rpmSeen[c], now)]
      /\ bucket[b].rpm = 0 /\ b # GlobalBucket
  BY DEF Create
<1>3. Sound(bucket'[b]) /\ bucket'[b].rpm = rpmSeen[c]
  BY <1>1, <1>2, NewBucketSound DEF IInv, TypeOK
<1>4. \A d \in Buckets : d # b => bucket'[d] = bucket[d]
  BY <1>2 DEF IInv, TypeOK
<1>5. SoundBuckets'
  BY <1>1, <1>3, <1>4 DEF IInv, SoundBuckets, Sound
<1>6. TypeOK'
  <2>1. /\ bucket' \in [Buckets -> Bucket]
        /\ \A d \in Buckets :
              /\ bucket'[d].tokens <= TicksPerMinute * bucket'[d].rpm
              /\ bucket'[d].made <= bucket'[d].last /\ bucket'[d].last <= now'
    BY <1>2, <1>5 DEF IInv, TypeOK, SoundBuckets, Sound
  <2> QED BY <1>2, <2>1 DEF IInv, TypeOK, Create
<1>7. RatesArePositive'
  <2>1. \A a \in Accounts : accountLimiters'[a] # NoBucket => bucket'[accountLimiters'[a]].rpm > 0
    BY <1>1, <1>3, <1>4 DEF IInv, TypeOK, RatesArePositive, Create
  <2>2. \A d \in Callers :
          /\ pc'[d] \in {"lookup", "create"} => rpmSeen'[d] > 0
          /\ pc'[d] = "account" => bucket'[lim'[d]].rpm > 0
          /\ pc'[d] = "global" => bucket'[GlobalBucket].rpm > 0
    <3> SUFFICES ASSUME NEW d \in Callers
                 PROVE  /\ pc'[d] \in {"lookup", "create"} => rpmSeen'[d] > 0
                        /\ pc'[d] = "account" => bucket'[lim'[d]].rpm > 0
                        /\ pc'[d] = "global" => bucket'[GlobalBucket].rpm > 0
      OBVIOUS
    <3>1. CASE d = c
      BY <1>1, <1>3, <3>1 DEF IInv, TypeOK, Create
    <3>2. CASE d # c
      <4>1. pc'[d] = pc[d] /\ lim'[d] = lim[d] /\ rpmSeen'[d] = rpmSeen[d]
        BY <3>2 DEF IInv, TypeOK, Create
      <4>2. pc[d] = "account" => lim[d] # b
        BY <1>2 DEF IInv, TypeOK, RatesArePositive
      <4> QED BY <1>2, <1>4, <4>1, <4>2 DEF IInv, TypeOK, RatesArePositive
    <3> QED BY <3>1, <3>2
  <2>3. bucket'[GlobalBucket].rpm = GlobalRPM
    BY <1>2, <1>4 DEF IInv, RatesArePositive
  <2> QED BY <2>1, <2>2, <2>3 DEF RatesArePositive
<1> QED BY <1>5, <1>6, <1>7 DEF IInv

LEMMA NextIInv == IInv /\ [Next]_vars => IInv'
<1> SUFFICES ASSUME IInv, [Next]_vars PROVE IInv' OBVIOUS
<1>1. ASSUME NEW c \in Callers, AllowGlobal(c)
      PROVE  IInv'
  <2>1. bucket[GlobalBucket].rpm > 0
    BY <1>1 DEF AllowGlobal, IInv, RatesArePositive
  <2>2. Afterwards(rpmSeen[c]) \in {"lookup", "allowed"}
        /\ (Afterwards(rpmSeen[c]) = "lookup" => rpmSeen[c] > 0)
    BY DEF Afterwards
  <2> QED BY <1>1, <2>1, <2>2, AllowIInv, RateLimiterAssumption DEF AllowGlobal
<1>2. ASSUME NEW c \in Callers, AllowAccount(c)
      PROVE  IInv'
  <2>1. lim[c] \in Buckets /\ bucket[lim[c]].rpm > 0
    BY <1>2 DEF AllowAccount, IInv, TypeOK, RatesArePositive
  <2> QED BY <1>2, <2>1, AllowIInv DEF AllowAccount
<1>3. ASSUME NEW c \in Callers, NEW b \in Buckets, Create(c, b)
      PROVE  IInv'
  <2>1. CASE accountLimiters[acct[c]] = NoBucket
    BY <1>3, <2>1, CreateIInv
  <2>2. CASE accountLimiters[acct[c]] # NoBucket
    BY <1>3, <2>2, OtherIInv DEF Create
  <2> QED BY <2>1, <2>2
<1>4. CASE \/ \E c \in Callers : Lookup(c) \/ Return(c) \/ \E a \in Accounts : CheckRateLimit(c, a)
           \/ \E rpm \in RPMs : SetPerAccountRPM(rpm)
           \/ Tick
           \/ UNCHANGED vars
  BY <1>4, OtherIInv DEF Lookup, Return, CheckRateLimit, SetPerAccountRPM, Tick, vars
<1> QED BY <1>1, <1>2, <1>3, <1>4 DEF Next

LEMMA IInvHolds == Spec => []IInv
BY InitIInv, NextIInv, PTL DEF Spec

(* The variables keep their types, and no bucket runs over its brim.       *)
THEOREM TypeCorrect == Spec => []TypeOK
<1>1. IInv => TypeOK BY DEF IInv
<1> QED BY <1>1, IInvHolds, PTL

(* No bucket gives more than its initial burst and its rate.               *)
THEOREM RateIsKept == Spec => []GrantsWithinRate
<1>1. IInv => GrantsWithinRate
  <2> SUFFICES ASSUME IInv, NEW b \in Buckets
               PROVE  TicksPerMinute * bucket[b].taken
                         <= bucket[b].rpm * (TicksPerMinute + now - bucket[b].made)
    BY DEF GrantsWithinRate
  <2>1. Sound(bucket[b]) /\ now \in Nat
    BY RateLimiterAssumption DEF IInv, SoundBuckets, TypeOK
  <2>2. /\ Refilled(bucket[b]) + TicksPerMinute * bucket[b].taken
              <= bucket[b].rpm * (TicksPerMinute + now - bucket[b].made)
        /\ Refilled(bucket[b]) \in Nat
    BY <2>1, RefilledBounds
  <2>3. TicksPerMinute * bucket[b].taken \in Int
        /\ bucket[b].rpm * (TicksPerMinute + now - bucket[b].made) \in Int
    BY <2>1, RateLimiterAssumption DEF Sound, Bucket
  <2> QED BY <2>2, <2>3
<1> QED BY <1>1, IInvHolds, PTL

(* Only a change of the rate drops the bucket of an account.               *)
THEOREM OneBucketPerAccount == Spec => LimiterIsNotReplaced
<1> DEFINE Step == \A a \in Accounts :
              accountLimiters[a] # NoBucket => accountLimiters'[a] \in {accountLimiters[a], NoBucket}
<1>1. IInv /\ [Next]_vars => [Step]_vars
  BY DEF IInv, TypeOK, Next, CheckRateLimit, AllowGlobal, AllowAccount, Lookup, Create, Return,
         SetPerAccountRPM, Tick
<1>2. Spec => [][Step]_vars
  BY <1>1, IInvHolds, PTL DEF Spec
<1> QED BY <1>2 DEF LimiterIsNotReplaced

-----------------------------------------------------------------------------
(* The argument for the rate: whoever is not late has read the rate that is*)
(* configured now, so only the late make buckets with another.             *)

ReadsAreCurrent ==
    \A c \in Callers : pc[c] # "idle" /\ c \notin late => rpmSeen[c] = perAccountRPM

RateInv == ReadsAreCurrent /\ LimitersPickUpTheRate

LEMMA RateNext == IInv /\ RateInv /\ [Next]_vars => RateInv'
<1> SUFFICES ASSUME IInv, RateInv, [Next]_vars PROVE RateInv' OBVIOUS
<1> USE DEF RateInv, ReadsAreCurrent, LimitersPickUpTheRate
<1>1. ASSUME NEW c \in Callers, NEW a \in Accounts, CheckRateLimit(c, a)
      PROVE  RateInv'
  BY <1>1 DEF CheckRateLimit, IInv, TypeOK
<1>2. ASSUME NEW c \in Callers, AllowGlobal(c) \/ AllowAccount(c)
      PROVE  RateInv'
  <2>1. PICK id \in Buckets, next \in {"lookup", "allowed"} :
           /\ Allow(c, id, next)
           /\ UNCHANGED <<perAccountRPM, accountLimiters, rpmSeen, lateVars>>
           /\ pc[c] # "idle"
    BY <1>2, RateLimiterAssumption DEF AllowGlobal, AllowAccount, Afterwards, IInv, TypeOK
  <2>2. \A d \in Callers : pc'[d] # "idle" => pc[d] # "idle"
    BY <2>1 DEF Allow, IInv, TypeOK
  <2>3. \A b \in Buckets : bucket'[b].rpm = bucket[b].rpm
    <3>1. now \in Nat /\ Sound(bucket[id])
      BY RateLimiterAssumption DEF IInv, TypeOK, SoundBuckets
    <3> QED BY <2>1, <3>1, AllowSound DEF Allow, IInv, TypeOK
  <2> QED BY <2>1, <2>2, <2>3 DEF lateVars
<1>3. ASSUME NEW c \in Callers, Lookup(c) \/ Return(c)
      PROVE  RateInv'
  BY <1>3 DEF Lookup, Return, lateVars, IInv, TypeOK
<1>4. ASSUME NEW c \in Callers, NEW b \in Buckets, Create(c, b)
      PROVE  RateInv'
  <2>1. ReadsAreCurrent'
    BY <1>4 DEF Create, IInv, TypeOK
  <2>2. CASE accountLimiters[acct[c]] # NoBucket
    BY <1>4, <2>1, <2>2 DEF Create
  <2>3. CASE accountLimiters[acct[c]] = NoBucket
    <3>1. /\ bucket' = [bucket EXCEPT ![b] = NewTokenBucket(rpmSeen[c], now)]
          /\ accountLimiters' = [accountLimiters EXCEPT ![acct[c]] = b]
          /\ outdated' = (IF c \in late THEN outdated \cup {b} ELSE outdated)
          /\ bucket[b].rpm = 0 /\ pc[c] = "create" /\ perAccountRPM' = perAccountRPM
      BY <1>4, <2>3 DEF Create
    <3>2. bucket'[b].rpm = rpmSeen[c] /\ (\A d \in Buckets : d # b => bucket'[d] = bucket[d])
      BY <3>1 DEF NewTokenBucket, IInv, TypeOK
    <3>3. \A a \in Accounts : accountLimiters[a] # NoBucket => accountLimiters[a] # b
      BY <3>1 DEF IInv, RatesArePositive
    <3>4. LimitersPickUpTheRate'
      BY <3>1, <3>2, <3>3, RateLimiterAssumption DEF IInv, TypeOK
    <3> QED BY <2>1, <3>4
  <2> QED BY <2>2, <2>3
<1>5. ASSUME NEW rpm \in RPMs, SetPerAccountRPM(rpm)
      PROVE  RateInv'
  BY <1>5, RateLimiterAssumption DEF SetPerAccountRPM, callerVars
<1>6. CASE Tick \/ UNCHANGED vars
  BY <1>6 DEF Tick, vars, callerVars, lateVars
<1> QED BY <1>1, <1>2, <1>3, <1>4, <1>5, <1>6 DEF Next

(* Only requests that have read the old rate leave a limiter with it.      *)
THEOREM ChangesReachLimiters == Spec => []LimitersPickUpTheRate
<1>1. Init => RateInv
  BY RateLimiterAssumption DEF Init, RateInv, ReadsAreCurrent, LimitersPickUpTheRate
<1>2. RateInv => LimitersPickUpTheRate
  BY DEF RateInv
<1> QED BY <1>1, <1>2, RateNext, IInvHolds, PTL DEF Spec

-----------------------------------------------------------------------------
(* The argument for Retry-After: as long as nobody has been at the bucket  *)
(* since the denial, it lacks no more than it gains while the client waits.*)

Owed(b, c) ==
    /\ b.rpm > 0
    /\ retryAfter[c] \in 1 .. TicksPerMinute
    /\ deniedAt[c] <= b.last
    /\ b.last = deniedAt[c] =>
          b.tokens < TicksPerMinute /\ TicksPerMinute <= b.tokens + retryAfter[c] * b.rpm

RetryInv == \A c \in Callers : pc[c] = "denied" => Owed(bucket[lim[c]], c)

(* Rounding up, to at least one and at most as many ticks as are missing.  *)
LEMMA CeilBounds ==
    ASSUME NEW x \in Nat \ {0}, NEW y \in Nat \ {0}
    PROVE  /\ (x + y - 1) \div y \in 1 .. x
           /\ x <= ((x + y - 1) \div y) * y
<1> DEFINE n == x + y - 1
           q == n \div y
           r == n % y
<1>1. n \in Nat /\ q \in Int /\ r \in 0 .. (y - 1) /\ n = y * q + r
  OBVIOUS
<1> HIDE DEF q, r
<1>2. x <= y * q
  BY <1>1
<1>3. q > 0
  <2> SUFFICES ASSUME q <= 0 PROVE FALSE
    BY <1>1
  <2>1. y * q <= 0
    BY <1>1
  <2> QED BY <1>1, <1>2, <2>1
<1>4. q <= x
  <2> SUFFICES ASSUME q >= x + 1 PROVE FALSE
    BY <1>1
  <2>1. y * (x + 1) <= y * q
    BY <1>1
  <2>2. y * (x + 1) = y * x + y
    BY Distributes
  <2>3. y * x >= x
    OBVIOUS
  <2> QED BY <1>1, <2>1, <2>2, <2>3
<1>5. q * y = y * q
  BY <1>1
<1> QED BY <1>1, <1>2, <1>3, <1>4, <1>5 DEF q

(* A denial owes what it says.                                             *)
LEMMA WaitBounds ==
    ASSUME NEW b, Sound(b), now \in Nat, b.rpm > 0, ~HasToken(b)
    PROVE  /\ Wait(b) \in 1 .. TicksPerMinute
           /\ TicksPerMinute <= Refilled(b) + Wait(b) * b.rpm
<1> DEFINE x == TicksPerMinute - Refilled(b)
<1>1. b.rpm \in Nat \ {0} /\ Refilled(b) \in Nat
  BY RefilledBounds DEF Sound, Bucket
<1>2. x \in Nat \ {0} /\ x <= TicksPerMinute
  BY <1>1, RateLimiterAssumption DEF HasToken
<1>3. Wait(b) = (x + b.rpm - 1) \div b.rpm
  BY DEF Wait
<1>4. Wait(b) \in 1 .. x /\ x <= Wait(b) * b.rpm
  <2> HIDE DEF x
  <2> QED BY <1>1, <1>2, <1>3, CeilBounds
<1>5. Wait(b) * b.rpm \in Int
  BY <1>1, <1>4
<1> QED BY <1>1, <1>2, <1>4, <1>5, RateLimiterAssumption

(* Whoever calls Allow, a denial is owed no less afterwards.               *)
LEMMA AllowOwes ==
    ASSUME NEW b, Sound(b), now \in Nat, NEW c \in Callers, Owed(b, c),
           retryAfter[c] \in Nat, deniedAt[c] \in Nat
    PROVE  Owed(AfterAllow(b), c)
<1> USE RateLimiterAssumption
<1>1. /\ b \in Bucket /\ b.rpm \in Nat /\ b.tokens \in Nat /\ b.last \in Nat
      /\ b.last <= now /\ b.tokens <= TicksPerMinute * b.rpm
  BY DEF Sound, Bucket
<1>2. AfterAllow(b).rpm = b.rpm /\ AfterAllow(b).last = now
  BY <1>1, AllowSound DEF AfterAllow, Bucket
<1>3. ASSUME now = deniedAt[c]
      PROVE  AfterAllow(b).tokens = b.tokens /\ b.last = deniedAt[c]
  <2>1. b.last = now
    BY <1>1, <1>3 DEF Owed
  <2>2. Refilled(b) = b.tokens
    BY <1>1, <2>1 DEF Refilled
  <2>3. ~HasToken(b)
    BY <1>1, <1>3, <2>1, <2>2 DEF HasToken, Owed
  <2> QED BY <1>1, <1>3, <2>1, <2>2, <2>3 DEF AfterAllow, Bucket
<1>4. deniedAt[c] <= now
  BY <1>1 DEF Owed
<1> QED BY <1>2, <1>3, <1>4 DEF Owed

LEMMA RetryAllow ==
    ASSUME IInv, RetryInv, NEW c \in Callers, NEW id \in Buckets, bucket[id].rpm > 0,
           NEW next \in {"lookup", "allowed"}, pc[c] # "denied", Allow(c, id, next), now' = now
    PROVE  RetryInv'
<1>1. now \in Nat /\ Sound(bucket[id]) /\ now \in 0 .. MaxNow
  BY RateLimiterAssumption DEF IInv, TypeOK, SoundBuckets
<1>2. bucket' = [bucket EXCEPT ![id] = AfterAllow(bucket[id])]
  BY DEF Allow
<1> SUFFICES ASSUME NEW d \in Callers, pc'[d] = "denied"
             PROVE  Owed(bucket[lim[d]], d)'
  BY DEF RetryInv
<1>3. CASE d # c
  <2>1. /\ pc[d] = "denied" /\ lim'[d] = lim[d] /\ lim[d] \in Buckets
        /\ retryAfter'[d] = retryAfter[d] /\ deniedAt'[d] = deniedAt[d]
        /\ retryAfter[d] \in Nat /\ deniedAt[d] \in Nat
    BY <1>3, RateLimiterAssumption DEF Allow, IInv, TypeOK
  <2>2. Owed(bucket[lim[d]], d)
    BY <2>1 DEF RetryInv
  <2>3. Owed(bucket'[lim[d]], d)
    <3>1. CASE lim[d] = id
      <4>1. Owed(AfterAllow(bucket[id]), d)
        BY <1>1, <2>1, <2>2, <3>1, AllowOwes
      <4> QED BY <1>2, <3>1, <4>1 DEF IInv, TypeOK
    <3>2. CASE lim[d] # id
      BY <1>2, <2>1, <2>2, <3>2 DEF IInv, TypeOK
    <3> QED BY <3>1, <3>2
  <2> QED BY <2>1, <2>3 DEF Owed
<1>4. CASE d = c
  <2>1. /\ ~HasToken(bucket[id]) /\ lim'[c] = id
        /\ retryAfter'[c] = Wait(bucket[id]) /\ deniedAt'[c] = now
    BY <1>4 DEF Allow, IInv, TypeOK
  <2>2. bucket'[id] = [bucket[id] EXCEPT !.tokens = Refilled(bucket[id]), !.last = now]
    BY <1>2, <2>1 DEF AfterAllow, IInv, TypeOK
  <2>3. /\ bucket'[id].rpm = bucket[id].rpm /\ bucket'[id].last = now
        /\ bucket'[id].tokens = Refilled(bucket[id])
    BY <2>2 DEF IInv, TypeOK, Bucket
  <2>4. Refilled(bucket[id]) < TicksPerMinute
    BY <1>1, <2>1, RefilledBounds, RateLimiterAssumption DEF HasToken
  <2>5. /\ Wait(bucket[id]) \in 1 .. TicksPerMinute
        /\ TicksPerMinute <= Refilled(bucket[id]) + Wait(bucket[id]) * bucket[id].rpm
    BY <1>1, <2>1, WaitBounds
  <2> QED BY <1>1, <1>4, <2>1, <2>3, <2>4, <2>5 DEF Owed
<1> QED BY <1>3, <1>4

LEMMA RetryNext == IInv /\ RetryInv /\ [Next]_vars => RetryInv'
<1> SUFFICES ASSUME IInv, RetryInv, [Next]_vars PROVE RetryInv' OBVIOUS
<1>1. ASSUME NEW c \in Callers, AllowGlobal(c)
      PROVE  RetryInv'
  <2>1. Afterwards(rpmSeen[c]) \in {"lookup", "allowed"}
    BY DEF Afterwards
  <2>2. bucket[GlobalBucket].rpm > 0 /\ pc[c] # "denied"
    BY <1>1 DEF AllowGlobal, IInv, RatesArePositive
  <2> QED BY <1>1, <2>1, <2>2, RetryAllow, RateLimiterAssumption DEF AllowGlobal
<1>2. ASSUME NEW c \in Callers, AllowAccount(c)
      PROVE  RetryInv'
  <2>1. lim[c] \in Buckets /\ bucket[lim[c]].rpm > 0 /\ pc[c] # "denied"
    BY <1>2 DEF AllowAccount, IInv, TypeOK, RatesArePositive
  <2> QED BY <1>2, <2>1, RetryAllow DEF AllowAccount
<1>3. ASSUME NEW c \in Callers, Lookup(c) \/ Return(c) \/ (\E a \in Accounts : CheckRateLimit(c, a))
      PROVE  RetryInv'
  BY <1>3 DEF Lookup, Return, CheckRateLimit, Afterwards, RetryInv, Owed, IInv, TypeOK
<1>4. ASSUME NEW c \in Callers, NEW b \in Buckets, Create(c, b)
      PROVE  RetryInv'
  <2> SUFFICES ASSUME NEW d \in Callers, pc'[d] = "denied"
               PROVE  Owed(bucket[lim[d]], d)'
    BY DEF RetryInv
  <2>1. /\ d # c /\ pc[d] = "denied" /\ lim'[d] = lim[d] /\ lim[d] \in Buckets
        /\ retryAfter'[d] = retryAfter[d] /\ deniedAt'[d] = deniedAt[d]
    BY <1>4 DEF Create, IInv, TypeOK
  <2>2. Owed(bucket[lim[d]], d)
    BY <2>1 DEF RetryInv
  <2>3. bucket'[lim[d]] = bucket[lim[d]]
    <3>1. CASE accountLimiters[acct[c]] # NoBucket
      BY <1>4, <3>1 DEF Create
    <3>2. CASE accountLimiters[acct[c]] = NoBucket
      <4>1. bucket[b].rpm = 0 /\ bucket[lim[d]].rpm > 0
        BY <1>4, <2>2, <3>2 DEF Create, Owed
      <4>2. lim[d] # b
        BY <4>1
      <4> QED BY <1>4, <2>1, <3>2, <4>2 DEF Create, IInv, TypeOK
    <3> QED BY <3>1, <3>2
  <2> QED BY <2>1, <2>2, <2>3 DEF Owed
<1>5. CASE (\E rpm \in RPMs : SetPerAccountRPM(rpm)) \/ Tick \/ UNCHANGED vars
  BY <1>5 DEF SetPerAccountRPM, Tick, vars, callerVars, RetryInv, Owed
<1> QED BY <1>1, <1>2, <1>3, <1>4, <1>5 DEF Next

(* For every rate, a client that waits as long as it was told finds a      *)
(* token, unless somebody else has been at the bucket.                     *)
THEOREM RetryAfterIsHonest == Spec => []RetryAfterIsSound
<1>1. Init => RetryInv
  BY DEF Init, RetryInv
<1>2. IInv /\ RetryInv => RetryAfterIsSound
  <2> SUFFICES ASSUME IInv, RetryInv, NEW c \in Callers, pc[c] = "denied"
               PROVE  /\ retryAfter[c] \in 1 .. TicksPerMinute
                      /\ (bucket[lim[c]].last = deniedAt[c] /\ now >= deniedAt[c] + retryAfter[c])
                             => HasToken(bucket[lim[c]])
    BY DEF RetryAfterIsSound
  <2> DEFINE b == bucket[lim[c]]
  <2>1. Owed(b, c)
    BY DEF RetryInv
  <2> SUFFICES ASSUME b.last = deniedAt[c], now >= deniedAt[c] + retryAfter[c]
               PROVE  HasToken(b)
    BY <2>1 DEF Owed
  <2>2. /\ b.rpm \in Nat \ {0} /\ b.tokens \in Nat /\ b.last \in Nat /\ now \in Nat
        /\ retryAfter[c] \in Nat
    BY <2>1, RateLimiterAssumption DEF IInv, TypeOK, Bucket, Owed
  <2>3. retryAfter[c] * b.rpm <= (now - b.last) * b.rpm
    <3>1. \A x, y, z \in Nat : x <= y => x * z <= y * z
      OBVIOUS
    <3>2. now - b.last \in Nat /\ retryAfter[c] <= now - b.last
      BY <2>2
    <3> HIDE DEF b
    <3> QED BY <2>2, <3>1, <3>2
  <2>4. TicksPerMinute <= b.tokens + retryAfter[c] * b.rpm
    BY <2>1 DEF Owed
  <2>5. TicksPerMinute <= TicksPerMinute * b.rpm
    <3> HIDE DEF b
    <3> QED BY <2>2, RateLimiterAssumption
  <2>6. /\ (now - b.last) * b.rpm \in Int /\ retryAfter[c] * b.rpm \in Int
        /\ TicksPerMinute * b.rpm \in Int
    <3> HIDE DEF b
    <3> QED BY <2>2, RateLimiterAssumption
  <2> HIDE DEF b
  <2>7. Refilled(b) >= TicksPerMinute
    BY <2>2, <2>3, <2>4, <2>5, <2>6, RateLimiterAssumption DEF Refilled
  <2> QED BY <2>7 DEF HasToken
<1> QED BY <1>1, <1>2, RetryNext, IInvHolds, PTL DEF Spec
=============================================================================
