------------------------- MODULE LoadBalancerProofs -------------------------
(***************************************************************************)
(* Proofs about LoadBalancer.tla.                                          *)
(***************************************************************************)
EXTENDS LoadBalancer, FiniteSetTheorems, WellFoundedInduction, TLAPS

(* Only two of the strategies go through the accounts, and only one of them*)
(* asks for penalties; a scan is over some of the list, and begins afresh. *)
ScansAre ==
    \A c \in Callers :
        /\ Scanning(c) => Scans /\ rest[c] # {} /\ rest[c] \subseteq list[c]
        /\ pc[c] = "penalty" => strategy = "smart"
        /\ pc[c] = "choose" => list[c] # {}
        /\ ~Scanning(c) => bestScore[c] = NoScore

\* The accounts a caller has looked at.
Seen(c) == list[c] \ rest[c]

(* No 429 is of a time to come.                                            *)
PastThrottles == \A a \in Accounts : last429[a] = Never \/ last429[a] <= now

(* The score a caller that is choosing would find account a to have.       *)
ScoreOf(c, a) ==
    IF strategy = "least-used" THEN count[a]
    ELSE PenaltyTime * count[a] + Penalty(last429[a], start[c])

(* As long as nothing is recorded, the best account so far has the score it*)
(* was found to have, and none that was seen has a lower one: the inductive*)
(* form of PicksBest.                                                      *)
BestSoFar(c) ==
    /\ pc[c] = "penalty" => score[c] = PenaltyTime * count[Current(c)]
    /\ bestScore[c] # NoScore => best[c] \in Seen(c) /\ bestScore[c] = ScoreOf(c, best[c])
    /\ \A a \in Seen(c) : bestScore[c] # NoScore /\ bestScore[c] <= ScoreOf(c, a)
    /\ strategy = "smart" => \A a \in Accounts : last429[a] = Never \/ last429[a] <= start[c]

SettledScans == \A c \in Callers : Scanning(c) /\ settled[c] => BestSoFar(c)

(* Whatever is recorded and forgotten, the best count so far is not above  *)
(* what the accounts that were seen have, or are to catch up with.         *)
PassedCounts ==
    strategy = "least-used" =>
        \A c \in Callers : Scanning(c) =>
            \A b \in Seen(c) :
                bestScore[c] # NoScore /\ (bestScore[c] <= count[b] \/ bestScore[c] <= level[b])

(* The callers that may still record twice at account a, for all that b can*)
(* do: those that have picked it, those that have it for the best so far,  *)
(* with a count up to v, and those that do not choose b.  The callers that *)
(* may record once more are these and those that wait for a's answer.      *)
Twice(a, b, v) ==
    {c \in Callers :
        \/ pc[c] = "picked" /\ best[c] = a
        \/ Scanning(c) /\ best[c] = a /\ bestScore[c] # NoScore /\ bestScore[c] <= v
        \/ (pc[c] = "choose" \/ Scanning(c)) /\ b \notin list[c]}
Once(a, b, v) == Twice(a, b, v) \cup {c \in Callers : pc[c] = "upstream" /\ best[c] = a}

Bounded(a, b, v) ==
    count[a] + Cardinality(Once(a, b, v)) + Cardinality(Twice(a, b, v)) <= v + MaxSpread

(* What has been and may be recorded at a is within the spread of any v    *)
(* that some account has not passed: the inductive form of LoadsStayClose. *)
SpreadBounded ==
    strategy = "least-used" =>
        \A a, b \in Accounts, v \in Nat :
            count[b] <= v /\ level[b] <= v => Bounded(a, b, v)

(* Account a of the list S was dealt to after account b, when p is the next*)
(* index: the accounts with a lower one came later, and then in order.     *)
After(S, p, a, b) ==
    \/ Index(a, S) < p /\ p <= Index(b, S)
    \/ Index(b, S) < Index(a, S) /\ (Index(a, S) < p <=> Index(b, S) < p)

(* Of two accounts the one that was dealt to later has as many as the      *)
(* other, or one more.                                                     *)
InOrder(S, p, f) ==
    \A a, b \in S : After(S, p, a, b) => f[b] <= f[a] /\ f[a] <= f[b] + 1

DealtInOrder ==
    strategy = "round-robin" /\ over # {} => InOrder(over, rrIndex % Cardinality(over), dealt)

(* The inductive invariant. *)
IInv ==
    /\ TypeOK
    /\ ScansAre
    /\ PastThrottles
    /\ SettledScans
    /\ PassedCounts
    /\ SpreadBounded
    /\ DealtInOrder

-----------------------------------------------------------------------------
LEMMA ProductNat == \A x, y \in Nat : x * y \in Nat
OBVIOUS

(* A set that is finite and not empty has a greatest and a least member.   *)
LEMMA FiniteExtremes ==
    ASSUME NEW S \in SUBSET Nat, IsFiniteSet(S), S # {}
    PROVE  /\ Max(S) \in S /\ \A y \in S : y <= Max(S)
           /\ Min(S) \in S /\ \A y \in S : Min(S) <= y
<1>1. \E x \in S : \A y \in S : x >= y
  <2> DEFINE U == {{y \in S : y > x} : x \in S}
  <2>1. U \subseteq FiniteSubsetsOf(S) /\ U # {}
    <3>1. ASSUME NEW x \in S PROVE {y \in S : y > x} \in FiniteSubsetsOf(S)
      <4>1. {y \in S : y > x} \in SUBSET S
        OBVIOUS
      <4>2. IsFiniteSet({y \in S : y > x})
        BY <4>1, FS_Subset
      <4> QED BY <4>1, <4>2 DEF FiniteSubsetsOf
    <3> QED BY <3>1
  <2>2. PICK X \in U : \A Y \in U : ~(<<Y, X>> \in StrictSubsetOrdering(S))
    BY <2>1, FS_StrictSubsetOrderingWellFounded, WFMin
  <2>3. PICK x \in S : X = {y \in S : y > x}
    OBVIOUS
  <2>4. ASSUME NEW z \in S PROVE x >= z
    <3>1. ~(<<{y \in S : y > z}, {y \in S : y > x}>> \in StrictSubsetOrdering(S))
      BY <2>2, <2>3
    <3>2. ASSUME z > x PROVE FALSE
      <4>1. {y \in S : y > z} \subseteq {y \in S : y > x}
        <5>1. x \in Nat /\ z \in Nat
          OBVIOUS
        <5>2. ASSUME NEW y \in S, y > z PROVE y > x
          <6>1. y \in Nat
            OBVIOUS
          <6> QED BY <3>2, <5>1, <5>2, <6>1
        <5> QED BY <5>2
      <4>2. z \in {y \in S : y > x} /\ z \notin {y \in S : y > z}
        BY <3>2
      <4> QED BY <3>1, <4>1, <4>2 DEF StrictSubsetOrdering
    <3> QED BY <3>2
  <2> QED BY <2>4
<1>2. \E x \in S : \A y \in S : x =< y
  <2> DEFINE U == {{y \in S : y < x} : x \in S}
  <2>1. U \subseteq FiniteSubsetsOf(S) /\ U # {}
    <3>1. ASSUME NEW x \in S PROVE {y \in S : y < x} \in FiniteSubsetsOf(S)
      <4>1. {y \in S : y < x} \in SUBSET S
        OBVIOUS
      <4>2. IsFiniteSet({y \in S : y < x})
        BY <4>1, FS_Subset
      <4> QED BY <4>1, <4>2 DEF FiniteSubsetsOf
    <3> QED BY <3>1
  <2>2. PICK X \in U : \A Y \in U : ~(<<Y, X>> \in StrictSubsetOrdering(S))
    BY <2>1, FS_StrictSubsetOrderingWellFounded, WFMin
  <2>3. PICK x \in S : X = {y \in S : y < x}
    OBVIOUS
  <2>4. ASSUME NEW z \in S PROVE x =< z
    <3>1. ~(<<{y \in S : y < z}, {y \in S : y < x}>> \in StrictSubsetOrdering(S))
      BY <2>2, <2>3
    <3>2. ASSUME z < x PROVE FALSE
      <4>1. {y \in S : y < z} \subseteq {y \in S : y < x}
        <5>1. x \in Nat /\ z \in Nat
          OBVIOUS
        <5>2. ASSUME NEW y \in S, y < z PROVE y < x
          <6>1. y \in Nat
            OBVIOUS
          <6> QED BY <3>2, <5>1, <5>2, <6>1
        <5> QED BY <5>2
      <4>2. z \in {y \in S : y < x} /\ z \notin {y \in S : y < z}
        BY <3>2
      <4> QED BY <3>1, <4>1, <4>2 DEF StrictSubsetOrdering
    <3> QED BY <3>2
  <2> QED BY <2>4
<1>3. Max(S) \in S /\ \A y \in S : Max(S) >= y
  BY <1>1 DEF Max
<1>4. Min(S) \in S /\ \A y \in S : Min(S) =< y
  BY <1>2 DEF Min
<1> QED BY <1>3, <1>4

LEMMA AccountSets ==
    /\ Accounts \subseteq Nat /\ IsFiniteSet(Accounts) /\ 1 \in Accounts
    /\ \A S \in SUBSET Accounts : IsFiniteSet(S) /\ Cardinality(S) \in Nat
<1>1. Accounts \subseteq Nat /\ IsFiniteSet(Accounts) /\ 1 \in Accounts
  BY LoadBalancerAssumption, FS_Interval DEF Accounts
<1> QED BY <1>1, FS_Subset, FS_CardinalityType

(* The account that is looked at is one of those that are left.            *)
LEMMA CurrentIs ==
    ASSUME TypeOK, NEW c \in Callers, rest[c] # {}
    PROVE  Current(c) \in rest[c] /\ Current(c) \in Accounts
<1>1. rest[c] \in SUBSET Accounts
  BY DEF TypeOK
<1>2. rest[c] \in SUBSET Nat /\ IsFiniteSet(rest[c])
  BY <1>1, AccountSets
<1> QED BY <1>1, <1>2, FiniteExtremes DEF Current

(* No count is above the highest, and no count that some caller remembers. *)
LEMMA HighestIs ==
    ASSUME TypeOK
    PROVE  /\ Highest \in Nat
           /\ \A a \in Accounts : count[a] <= Highest
           /\ \A c \in Callers : Scanning(c) /\ bestScore[c] # NoScore => bestScore[c] <= Highest
<1> USE LoadBalancerAssumption
<1> DEFINE D == {c \in Callers : Scanning(c) /\ bestScore[c] # NoScore}
           A == {count[a] : a \in Accounts}
           B == {bestScore[c] : c \in D}
<1>1. IsFiniteSet(A)
  <2>1. [a \in Accounts |-> count[a]] \in Surjection(Accounts, A)
    BY DEF Surjection
  <2> QED BY <2>1, AccountSets, FS_Surjection
<1>2. IsFiniteSet(B)
  <2>1. IsFiniteSet(D)
    BY FS_Subset
  <2>2. [c \in D |-> bestScore[c]] \in Surjection(D, B)
    BY DEF Surjection
  <2> HIDE DEF D, B
  <2> QED BY <2>1, <2>2, FS_Surjection
<1>3. A \cup B \in SUBSET Nat
  <2>1. A \subseteq Nat
    BY DEF TypeOK
  <2>2. ASSUME NEW c \in D PROVE bestScore[c] \in Nat
    BY DEF TypeOK
  <2> QED BY <2>1, <2>2
<1>4. A \cup B # {}
  BY AccountSets
<1>5. Highest = Max(A \cup B)
  BY DEF Highest
<1>6. IsFiniteSet(A \cup B)
  BY <1>1, <1>2, FS_Union
<1>7. Highest \in A \cup B /\ \A y \in A \cup B : y <= Highest
  <2> HIDE DEF A, B
  <2> QED BY <1>3, <1>4, <1>5, <1>6, FiniteExtremes
<1> QED BY <1>3, <1>7

(* The terms of a score.                                                   *)
LEMMA PenaltyType ==
    \A l \in 0 .. MaxNow \cup {Never}, t \in 0 .. MaxNow : Penalty(l, t) \in Nat
<1> USE LoadBalancerAssumption
<1> SUFFICES ASSUME NEW l \in 0 .. MaxNow \cup {Never}, NEW t \in 0 .. MaxNow PROVE Penalty(l, t) \in Nat
  OBVIOUS
<1>1. CASE l # Never /\ t < l + PenaltyTime
  <2> DEFINE d == PenaltyTime + l - t
  <2>1. d \in Nat /\ Penalty(l, t) = MaxPenalty * d
    BY <1>1 DEF Never, Penalty
  <2> HIDE DEF d
  <2> QED BY <2>1, ProductNat
<1>2. CASE ~(l # Never /\ t < l + PenaltyTime)
  BY <1>2 DEF Penalty
<1> QED BY <1>1, <1>2

LEMMA ScoreTypes ==
    ASSUME TypeOK, NEW c \in Callers, NEW a \in Accounts
    PROVE  /\ count[a] \in Nat /\ PenaltyTime * count[a] \in Nat
           /\ score[c] + Penalty(last429[a], start[c]) \in Nat
           /\ ScoreOf(c, a) \in Nat
<1> USE LoadBalancerAssumption
<1>1. count[a] \in Nat /\ PenaltyTime * count[a] \in Nat
  <2>1. count[a] \in Nat
    BY DEF TypeOK
  <2> QED BY <2>1, ProductNat
<1>2. Penalty(last429[a], start[c]) \in Nat /\ score[c] \in Nat
  BY PenaltyType DEF TypeOK
<1> QED BY <1>1, <1>2 DEF ScoreOf

-----------------------------------------------------------------------------
(* An iteration that is not the last goes on with the better of two        *)
(* accounts ...                                                            *)
LEMMA ComparesOn ==
    ASSUME TypeOK, NEW c \in Callers, NEW x \in Nat, Compare(c, x), rest[c] # {},
           rest[c] # {Current(c)}
    PROVE  /\ pc' = [pc EXCEPT ![c] = "count"]
           /\ rest' = [rest EXCEPT ![c] = rest[c] \ {Current(c)}]
           /\ rest[c] \ {Current(c)} # {}
           /\ Better(c, x) => /\ best' = [best EXCEPT ![c] = Current(c)]
                              /\ bestScore' = [bestScore EXCEPT ![c] = x]
           /\ ~Better(c, x) => best' = best /\ bestScore' = bestScore
           /\ score' = [score EXCEPT ![c] = 0]
           /\ UNCHANGED <<exclude, list, start, settled>>
<1>1. rest[c] \ {Current(c)} # {}
  OBVIOUS
<1>2. CASE Better(c, x)
  BY <1>1, <1>2 DEF TypeOK, Compare
<1>3. CASE ~Better(c, x)
  BY <1>1, <1>3 DEF TypeOK, Compare
<1> QED BY <1>2, <1>3

(* ... and the last picks it.                                              *)
LEMMA ComparesLast ==
    ASSUME TypeOK, NEW c \in Callers, NEW x \in Nat, Compare(c, x), rest[c] = {Current(c)}
    PROVE  Pick(c, IF Better(c, x) THEN Current(c) ELSE best[c])
BY DEF Compare

\* Nothing of what caller d does has changed.
Untouched(d) ==
    /\ pc'[d] = pc[d] /\ list'[d] = list[d] /\ rest'[d] = rest[d] /\ start'[d] = start[d]
    /\ score'[d] = score[d] /\ best'[d] = best[d] /\ bestScore'[d] = bestScore[d]
    /\ settled'[d] = settled[d]

(* A step of one caller leaves what the others have found alone.           *)
LEMMA OthersGoOn ==
    ASSUME TypeOK, NEW c \in Callers, NEW d \in Callers \ {c},
           (\E a : Pick(c, a)) \/ (\E x : Compare(c, x))
    PROVE  Untouched(d)
<1>1. ASSUME NEW a, Pick(c, a) PROVE Untouched(d)
  BY <1>1 DEF TypeOK, Pick, Untouched
<1>2. ASSUME NEW x, Compare(c, x), rest[c] # {Current(c)} PROVE Untouched(d)
  BY <1>2 DEF TypeOK, Compare, Untouched
<1>3. ASSUME NEW x, Compare(c, x), rest[c] = {Current(c)} PROVE \E a : Pick(c, a)
  BY <1>3 DEF Compare
<1> QED BY <1>1, <1>2, <1>3

(* The two kinds of steps that read a score, and what they compare.        *)
LEMMA ReadsAre ==
    ASSUME TypeOK, ScansAre, NEW c \in Callers, ReadCount(c) \/ ReadLast429(c)
    PROVE  /\ Scanning(c) /\ rest[c] # {} /\ rest[c] \subseteq list[c]
           /\ Current(c) \in rest[c] /\ Current(c) \in Accounts
           /\ UNCHANGED <<strategy, priority, now, rrIndex, count, last429, over, dealt, level>>
           /\ \/ /\ strategy = "least-used" /\ pc[c] = "count"
                 /\ count[Current(c)] \in Nat /\ Compare(c, count[Current(c)])
              \/ /\ strategy = "smart" /\ pc[c] = "penalty"
                 /\ score[c] + Penalty(last429[Current(c)], start[c]) \in Nat
                 /\ Compare(c, score[c] + Penalty(last429[Current(c)], start[c]))
              \/ /\ strategy = "smart" /\ pc[c] = "count"
                 /\ pc' = [pc EXCEPT ![c] = "penalty"]
                 /\ score' = [score EXCEPT ![c] = PenaltyTime * count[Current(c)]]
                 /\ UNCHANGED <<exclude, list, rest, start, best, bestScore, settled>>
<1>1. /\ Scanning(c)
      /\ UNCHANGED <<strategy, priority, now, rrIndex, count, last429, over, dealt, level>>
  BY DEF ReadCount, ReadLast429, Scanning, usageVars, history
<1>2. rest[c] # {} /\ rest[c] \subseteq list[c] /\ strategy \in {"least-used", "smart"}
  BY <1>1 DEF ScansAre, Scans
<1>3. Current(c) \in rest[c] /\ Current(c) \in Accounts
  BY <1>2, CurrentIs
<1>4. /\ count[Current(c)] \in Nat
      /\ score[c] + Penalty(last429[Current(c)], start[c]) \in Nat
  BY <1>3, ScoreTypes
<1>5. CASE ReadLast429(c)
  BY <1>1, <1>2, <1>3, <1>4, <1>5 DEF ReadLast429, ScansAre
<1>6. CASE ReadCount(c)
  BY <1>1, <1>2, <1>3, <1>4, <1>6 DEF ReadCount
<1> QED BY <1>5, <1>6

(* What the requests that were chosen for do, and their ends.              *)
LEMMA RequestsAre ==
    ASSUME TypeOK, NEW c \in Callers, Unsent(c) \/ Send(c) \/ Fail(c) \/ Forward(c)
    PROVE  /\ pc[c] \in {"picked", "upstream"}
           /\ pc' = [pc EXCEPT ![c] = "upstream"] \/ pc' = [pc EXCEPT ![c] = "select"]
           /\ UNCHANGED <<strategy, priority, now, rrIndex, over, dealt, level>>
           /\ UNCHANGED <<list, rest, start, score, bestScore>>
           /\ \A d \in Callers \ {c} : best'[d] = best[d]
           /\ settled' = settled \/ Disturbed
           /\ \A a \in Accounts : count'[a] = count[a] \/ (a = best[c] /\ count'[a] = count[a] + 1)
BY DEF TypeOK, Unsent, Send, Fail, Forward, End, RecordRequest, scanVars, history, usageVars
-----------------------------------------------------------------------------
(* Choosing an account keeps the variables' types.                         *)
LEMMA PickType ==
    ASSUME TypeOK, NEW c \in Callers, NEW a \in Accounts, Pick(c, a),
           rrIndex' \in Nat, over' \in SUBSET Accounts, dealt' \in [Accounts -> Nat],
           UNCHANGED <<strategy, priority, now, usageVars, level>>
    PROVE  TypeOK'
<1> USE LoadBalancerAssumption
<1>1. /\ list' \in [Callers -> SUBSET Accounts] /\ rest' \in [Callers -> SUBSET Accounts]
      /\ start' \in [Callers -> 0 .. MaxNow] /\ score' \in [Callers -> Nat]
      /\ best' \in [Callers -> Accounts] /\ settled' \in [Callers -> BOOLEAN]
      /\ exclude' \in [Callers -> SUBSET Accounts]
  BY DEF TypeOK, Pick
<1>2. bestScore' \in [Callers -> Nat \cup {NoScore}]
  BY DEF TypeOK, Pick
<1>3. pc' \in [Callers -> {"select", "choose", "count", "penalty", "picked", "upstream"}]
  BY DEF TypeOK, Pick
<1> QED BY <1>1, <1>2, <1>3 DEF TypeOK, usageVars

(* So does the end of an iteration.                                        *)
LEMMA CompareType ==
    ASSUME TypeOK, NEW c \in Callers, NEW x \in Nat, Compare(c, x), rest[c] # {},
           UNCHANGED <<strategy, priority, now, rrIndex, count, last429, over, dealt, level>>
    PROVE  TypeOK'
<1>0. Current(c) \in Accounts
  BY CurrentIs
<1>1. CASE rest[c] = {Current(c)}
  <2> DEFINE b == IF Better(c, x) THEN Current(c) ELSE best[c]
  <2>1. b \in Accounts
    BY <1>0 DEF TypeOK
  <2>2. Pick(c, b)
    BY <1>1, ComparesLast
  <2> HIDE DEF b
  <2>3. rrIndex' \in Nat /\ over' \in SUBSET Accounts /\ dealt' \in [Accounts -> Nat]
    BY DEF TypeOK
  <2> QED BY <2>1, <2>2, <2>3, PickType DEF usageVars
<1>2. CASE rest[c] # {Current(c)}
  <2>1. /\ pc' = [pc EXCEPT ![c] = "count"]
        /\ rest' = [rest EXCEPT ![c] = rest[c] \ {Current(c)}]
        /\ Better(c, x) => /\ best' = [best EXCEPT ![c] = Current(c)]
                           /\ bestScore' = [bestScore EXCEPT ![c] = x]
        /\ ~Better(c, x) => best' = best /\ bestScore' = bestScore
        /\ score' = [score EXCEPT ![c] = 0]
        /\ UNCHANGED <<exclude, list, start, settled>>
    BY <1>2, ComparesOn
  <2>2. best' \in [Callers -> Accounts] /\ bestScore' \in [Callers -> Nat \cup {NoScore}]
    BY <1>0, <2>1 DEF TypeOK
  <2>3. /\ rest' \in [Callers -> SUBSET Accounts] /\ score' \in [Callers -> Nat]
        /\ pc' \in [Callers -> {"select", "choose", "count", "penalty", "picked", "upstream"}]
    BY <2>1 DEF TypeOK
  <2> QED BY <2>1, <2>2, <2>3 DEF TypeOK
<1> QED BY <1>1, <1>2

LEMMA InitType == Init => TypeOK
<1> SUFFICES ASSUME Init PROVE TypeOK
  OBVIOUS
<1>1. 1 \in Accounts
  BY AccountSets
<1> QED BY <1>1, LoadBalancerAssumption DEF Init, TypeOK, Never

(* The levels that a step sets.                                            *)
LEMMA MissedType ==
    ASSUME TypeOK, NEW S, Missed(S)
    PROVE  level' \in [Accounts -> Nat]
BY HighestIs DEF TypeOK, Missed

LEMMA EndType ==
    ASSUME TypeOK, NEW c \in Callers, End(c)
    PROVE  /\ pc' \in [Callers -> {"select", "choose", "count", "penalty", "picked", "upstream"}]
           /\ exclude' \in [Callers -> SUBSET Accounts]
           /\ best' \in [Callers -> Accounts]
BY AccountSets DEF TypeOK, End

LEMMA SelectType ==
    ASSUME TypeOK, NEW c \in Callers,
           SelectAccount(c) \/ selectRoundRobin(c) \/ selectByPriority(c) \/ BeginScan(c)
    PROVE  TypeOK'
<1> USE LoadBalancerAssumption
<1>1. CASE SelectAccount(c)
  <2>1. PICK S \in Lists[strategy] :
            LET available == S \ exclude[c] IN
            IF available = {}
              THEN End(c) /\ UNCHANGED <<list, level>>
              ELSE /\ pc' = [pc EXCEPT ![c] = "choose"]
                   /\ list' = [list EXCEPT ![c] = available]
                   /\ Missed(Accounts \ available)
                   /\ UNCHANGED <<exclude, best>>
    BY <1>1 DEF SelectAccount
  <2> DEFINE available == S \ exclude[c]
  <2>2. available \in SUBSET Accounts
    BY DEF TypeOK
  <2>3. UNCHANGED <<strategy, priority, now, rrIndex, count, last429, rest, start, score, bestScore,
                    settled, over, dealt>>
    BY <1>1 DEF SelectAccount, usageVars
  <2>4. CASE available = {}
    <3>1. End(c) /\ UNCHANGED <<list, level>>
      BY <2>1, <2>4
    <3> QED BY <2>3, <3>1, EndType DEF TypeOK
  <2>5. CASE available # {}
    <3>1. /\ pc' = [pc EXCEPT ![c] = "choose"]
          /\ list' = [list EXCEPT ![c] = available]
          /\ Missed(Accounts \ available)
          /\ UNCHANGED <<exclude, best>>
      BY <2>1, <2>5
    <3>2. level' \in [Accounts -> Nat]
      BY <3>1, MissedType
    <3> HIDE DEF available
    <3> QED BY <2>2, <2>3, <3>1, <3>2 DEF TypeOK
  <2> QED BY <2>4, <2>5
<1>2. CASE selectRoundRobin(c)
  <2>1. PICK a \in list[c] :
            /\ Pick(c, a)
            /\ dealt' = [b \in Accounts |->
                             (IF over = list[c] THEN dealt[b] ELSE 0) + (IF b = a THEN 1 ELSE 0)]
    BY <1>2 DEF selectRoundRobin
  <2>2. a \in Accounts
    BY DEF TypeOK
  <2>3. rrIndex' \in Nat /\ over' \in SUBSET Accounts /\ dealt' \in [Accounts -> Nat]
    BY <1>2, <2>1 DEF selectRoundRobin, TypeOK
  <2>4. UNCHANGED <<strategy, priority, now, usageVars, level>>
    BY <1>2 DEF selectRoundRobin
  <2> QED BY <2>1, <2>2, <2>3, <2>4, PickType
<1>3. CASE selectByPriority(c)
  <2>1. PICK a \in list[c] : Pick(c, a)
    BY <1>3 DEF selectByPriority
  <2>2. a \in Accounts
    BY DEF TypeOK
  <2>3. /\ rrIndex' \in Nat /\ over' \in SUBSET Accounts /\ dealt' \in [Accounts -> Nat]
        /\ UNCHANGED <<strategy, priority, now, usageVars, level>>
    BY <1>3 DEF selectByPriority, TypeOK, history
  <2> QED BY <2>1, <2>2, <2>3, PickType
<1>4. CASE BeginScan(c)
  BY <1>4 DEF BeginScan, TypeOK, usageVars, history
<1> QED BY <1>1, <1>2, <1>3, <1>4

LEMMA ReadType ==
    ASSUME TypeOK, ScansAre, NEW c \in Callers, ReadCount(c) \/ ReadLast429(c)
    PROVE  TypeOK'
<1>1. /\ rest[c] # {} /\ Current(c) \in Accounts
      /\ UNCHANGED <<strategy, priority, now, rrIndex, count, last429, over, dealt, level>>
  BY ReadsAre
<1>2. CASE \E x \in Nat : Compare(c, x)
  BY <1>1, <1>2, CompareType
<1>3. CASE /\ pc' = [pc EXCEPT ![c] = "penalty"]
           /\ score' = [score EXCEPT ![c] = PenaltyTime * count[Current(c)]]
           /\ UNCHANGED <<exclude, list, rest, start, best, bestScore, settled>>
  <2> DEFINE x == PenaltyTime * count[Current(c)]
  <2>1. x \in Nat
    BY <1>1, ScoreTypes
  <2>2. score' = [score EXCEPT ![c] = x]
    BY <1>3
  <2> HIDE DEF x
  <2> QED BY <1>1, <1>3, <2>1, <2>2 DEF TypeOK
<1> QED BY <1>2, <1>3, ReadsAre

LEMMA RecordType ==
    ASSUME TypeOK, NEW a \in Accounts, NEW is429 \in BOOLEAN, RecordRequest(a, is429)
    PROVE  /\ count' \in [Accounts -> Nat]
           /\ last429' \in [Accounts -> 0 .. MaxNow \cup {Never}]
           /\ settled' \in [Callers -> BOOLEAN]
<1>1. count' \in [Accounts -> Nat]
  BY DEF TypeOK, RecordRequest
<1>2. last429' \in [Accounts -> 0 .. MaxNow \cup {Never}]
  BY DEF TypeOK, RecordRequest
<1>3. settled' \in [Callers -> BOOLEAN]
  BY DEF RecordRequest, Disturbed, Scanning
<1> QED BY <1>1, <1>2, <1>3

LEMMA RequestType ==
    ASSUME TypeOK, NEW c \in Callers, Unsent(c) \/ Send(c) \/ Fail(c) \/ Forward(c)
    PROVE  TypeOK'
<1>1. UNCHANGED <<strategy, priority, now, rrIndex, over, dealt, level>>
  BY RequestsAre
<1>2. UNCHANGED <<list, rest, start, score, bestScore>>
  BY RequestsAre
<1>3. CASE Unsent(c) \/ Forward(c)
  <2>1. End(c) /\ UNCHANGED <<count, last429, settled>>
    BY <1>3 DEF Unsent, Forward, usageVars
  <2> QED BY <1>1, <1>2, <2>1, EndType DEF TypeOK
<1>4. best[c] \in Accounts
  BY DEF TypeOK
<1>5. CASE Send(c)
  <2>1. /\ count' \in [Accounts -> Nat]
        /\ last429' \in [Accounts -> 0 .. MaxNow \cup {Never}]
        /\ settled' \in [Callers -> BOOLEAN]
    BY <1>4, <1>5, RecordType DEF Send
  <2>2. pc' = [pc EXCEPT ![c] = "upstream"] /\ UNCHANGED <<exclude, best>>
    BY <1>5 DEF Send
  <2> QED BY <1>1, <1>2, <2>1, <2>2 DEF TypeOK
<1>6. CASE Fail(c)
  <2>1. /\ count' \in [Accounts -> Nat]
        /\ last429' \in [Accounts -> 0 .. MaxNow \cup {Never}]
        /\ settled' \in [Callers -> BOOLEAN]
    BY <1>4, <1>6, RecordType DEF Fail
  <2>2. /\ pc' \in [Callers -> {"select", "choose", "count", "penalty", "picked", "upstream"}]
        /\ exclude' \in [Callers -> SUBSET Accounts]
        /\ best' \in [Callers -> Accounts]
    <3>1. CASE LastAttempt(c)
      BY <1>6, <3>1, EndType DEF Fail
    <3>2. CASE ~LastAttempt(c)
      BY <1>4, <1>6, <3>2, AccountSets DEF Fail, TypeOK
    <3> QED BY <3>1, <3>2
  <2> QED BY <1>1, <1>2, <2>1, <2>2 DEF TypeOK
<1> QED BY <1>3, <1>5, <1>6

LEMMA TwoAreFinite == \A x, y : IsFiniteSet({x, y})
<1> SUFFICES ASSUME NEW x, NEW y PROVE IsFiniteSet({x, y})
  OBVIOUS
<1>1. IsFiniteSet({x}) /\ {x, y} = {x} \cup {y}
  BY FS_Singleton
<1> QED BY <1>1, FS_AddElement

\* The steps of nobody in particular.
Elsewhere == (\E a \in Listed : Expire(a) \/ Direct(a)) \/ Tick

LEMMA ListedAre == TypeOK => Listed \subseteq Accounts
BY LoadBalancerAssumption DEF TypeOK, Listed

LEMMA ElsewhereType == TypeOK /\ Elsewhere => TypeOK'
<1> SUFFICES ASSUME TypeOK, Elsewhere PROVE TypeOK'
  OBVIOUS
<1>1. ASSUME NEW a \in Listed, Expire(a) PROVE TypeOK'
  <2>1. level' \in [Accounts -> Nat]
    BY <1>1, MissedType DEF Expire
  <2>2. count' \in [Accounts -> Nat]
    <3>1. a \in Accounts /\ count[a] > 0 /\ count' = [count EXCEPT ![a] = count[a] - 1]
      BY <1>1, ListedAre DEF Expire
    <3>2. count[a] - 1 \in Nat
      BY <3>1 DEF TypeOK
    <3> QED BY <3>1, <3>2 DEF TypeOK
  <2>3. settled' \in [Callers -> BOOLEAN]
    BY <1>1 DEF Expire, Disturbed, Scanning
  <2> QED BY <1>1, <2>1, <2>2, <2>3 DEF Expire, TypeOK, scanVars
<1>2. ASSUME NEW a \in Listed, Direct(a) PROVE TypeOK'
  <2>0. a \in Accounts
    BY ListedAre
  <2>1. /\ count' \in [Accounts -> Nat]
        /\ last429' \in [Accounts -> 0 .. MaxNow \cup {Never}]
        /\ settled' \in [Callers -> BOOLEAN]
    BY <1>2, <2>0, RecordType DEF Direct
  <2>2. ASSUME NEW b \in Accounts
        PROVE  (IF strategy = "least-used" THEN Max({level[b], count[a] + 1}) ELSE level[b]) \in Nat
    <3>1. level[b] \in Nat /\ count[a] + 1 \in Nat
      BY <2>0 DEF TypeOK
    <3>2. Max({level[b], count[a] + 1}) \in Nat
      <4>1. {level[b], count[a] + 1} \in SUBSET Nat /\ IsFiniteSet({level[b], count[a] + 1})
        BY <3>1, TwoAreFinite
      <4> QED BY <4>1, FiniteExtremes
    <3> QED BY <3>1, <3>2
  <2>3. level' \in [Accounts -> Nat]
    BY <1>2, <2>2 DEF Direct
  <2> QED BY <1>2, <2>1, <2>3 DEF Direct, TypeOK, scanVars
<1>3. CASE Tick
  BY <1>3, LoadBalancerAssumption DEF TypeOK, Tick, usageVars, callerVars, scanVars, history
<1> QED BY <1>1, <1>2, <1>3 DEF Elsewhere

LEMMA NextType == TypeOK /\ ScansAre /\ [Next]_vars => TypeOK'
<1> SUFFICES ASSUME TypeOK, ScansAre, [Next]_vars PROVE TypeOK'
  OBVIOUS
<1>1. CASE UNCHANGED vars
  BY <1>1 DEF TypeOK, vars, usageVars, callerVars, scanVars, history
<1> QED BY <1>1, SelectType, ReadType, RequestType, ElsewhereType DEF Next, Elsewhere
-----------------------------------------------------------------------------
LEMMA ElsewhereIs ==
    ASSUME Elsewhere
    PROVE  /\ UNCHANGED <<strategy, priority, rrIndex, pc, exclude, list, rest, start, score, best,
                          bestScore, over, dealt>>
           /\ Disturbed \/ UNCHANGED <<settled, count, last429, level>>
BY DEF Elsewhere, Expire, Direct, Tick, RecordRequest, scanVars, callerVars, usageVars, history

\* Nothing changes but where the callers are that do not choose.
LEMMA NoneChosen ==
    ASSUME TypeOK, UNCHANGED vars
    PROVE  /\ UNCHANGED <<strategy, count, last429, level, now, rrIndex, over, dealt>>
           /\ \A d \in Callers : Untouched(d)
BY DEF vars, callerVars, scanVars, usageVars, history, Untouched

(* What a selection of the accounts does.                                  *)
LEMMA SelectionIs ==
    ASSUME TypeOK, NEW c \in Callers, SelectAccount(c)
    PROVE  /\ pc[c] = "select" /\ ~Scanning(c)
           /\ UNCHANGED <<strategy, priority, now, rrIndex, count, last429, over, dealt>>
           /\ UNCHANGED <<rest, start, score, bestScore, settled>>
           /\ \A d \in Callers \ {c} : Untouched(d)
           /\ \/ pc' = [pc EXCEPT ![c] = "select"] /\ UNCHANGED <<list, level>>
              \/ /\ pc' = [pc EXCEPT ![c] = "choose"] /\ best' = best /\ list'[c] # {}
                 /\ \A b \in Accounts : b \notin list'[c] => level'[b] = Highest \/ strategy # "least-used"
                 /\ \A b \in Accounts : level'[b] \in {level[b], Highest}
<1>1. /\ pc[c] = "select" /\ ~Scanning(c)
      /\ UNCHANGED <<strategy, priority, now, rrIndex, count, last429, over, dealt>>
      /\ UNCHANGED <<rest, start, score, bestScore, settled>>
  BY DEF SelectAccount, usageVars, Scanning
<1>2. PICK available \in SUBSET Accounts :
          IF available = {}
            THEN End(c) /\ UNCHANGED <<list, level>>
            ELSE /\ pc' = [pc EXCEPT ![c] = "choose"]
                 /\ list' = [list EXCEPT ![c] = available]
                 /\ Missed(Accounts \ available)
                 /\ UNCHANGED <<exclude, best>>
  <2>1. PICK S \in Lists[strategy] :
            IF S \ exclude[c] = {}
              THEN End(c) /\ UNCHANGED <<list, level>>
              ELSE /\ pc' = [pc EXCEPT ![c] = "choose"]
                   /\ list' = [list EXCEPT ![c] = S \ exclude[c]]
                   /\ Missed(Accounts \ (S \ exclude[c]))
                   /\ UNCHANGED <<exclude, best>>
    BY DEF SelectAccount
  <2>2. S \ exclude[c] \in SUBSET Accounts
    BY LoadBalancerAssumption DEF TypeOK
  <2> QED BY <2>1, <2>2
<1>3. CASE available = {}
  <2>1. End(c) /\ UNCHANGED <<list, level>>
    BY <1>2, <1>3
  <2> QED BY <1>1, <2>1 DEF End, TypeOK, Untouched
<1>4. CASE available # {}
  <2>1. /\ pc' = [pc EXCEPT ![c] = "choose"]
        /\ list' = [list EXCEPT ![c] = available]
        /\ Missed(Accounts \ available)
        /\ UNCHANGED <<exclude, best>>
    BY <1>2, <1>4
  <2>2. list'[c] = available
    BY <2>1 DEF TypeOK
  <2>3. \A b \in Accounts : b \notin list'[c] => level'[b] = Highest \/ strategy # "least-used"
    BY <2>1, <2>2 DEF Missed
  <2>4. \A b \in Accounts : level'[b] \in {level[b], Highest}
    BY <2>1 DEF Missed
  <2>5. \A d \in Callers \ {c} : Untouched(d)
    BY <1>1, <2>1 DEF TypeOK, Untouched
  <2> QED BY <1>1, <1>4, <2>1, <2>2, <2>3, <2>4, <2>5
<1> QED BY <1>3, <1>4

(* What the beginning of a scan does.                                      *)
LEMMA BeginIs ==
    ASSUME TypeOK, ScansAre, NEW c \in Callers, BeginScan(c)
    PROVE  /\ pc[c] = "choose" /\ pc'[c] = "count" /\ Scans
           /\ list' = list /\ list[c] \in SUBSET Accounts /\ rest'[c] = list[c]
           /\ bestScore' = bestScore /\ bestScore[c] = NoScore /\ best' = best
           /\ strategy = "smart" => start'[c] = now
           /\ UNCHANGED <<strategy, priority, now, rrIndex, count, last429, level, over, dealt, settled>>
           /\ \A d \in Callers \ {c} : Untouched(d)
BY DEF TypeOK, ScansAre, BeginScan, Scanning, usageVars, history, Untouched

LEMMA ScansStep == TypeOK /\ ScansAre /\ [Next]_vars => ScansAre'
<1> USE DEF ScansAre, Scanning, Scans
<1> SUFFICES ASSUME TypeOK, ScansAre, [Next]_vars PROVE ScansAre'
  OBVIOUS
<1> DEFINE P(d) == /\ Scanning(d) => Scans /\ rest[d] # {} /\ rest[d] \subseteq list[d]
                   /\ pc[d] = "penalty" => strategy = "smart"
                   /\ pc[d] = "choose" => list[d] # {}
                   /\ ~Scanning(d) => bestScore[d] = NoScore
<1>1. ASSUME NEW d \in Callers, Untouched(d), strategy' = strategy PROVE P(d)'
  BY <1>1 DEF Untouched
<1>2. ASSUME NEW c \in Callers, strategy' = strategy, \A d \in Callers \ {c} : Untouched(d), P(c)'
      PROVE  ScansAre'
  BY <1>1, <1>2
<1>3. ASSUME NEW c \in Callers, NEW a, Pick(c, a), strategy' = strategy PROVE ScansAre'
  <2>1. P(c)'
    BY <1>3 DEF TypeOK, Pick
  <2>2. \A d \in Callers \ {c} : Untouched(d)
    BY <1>3, OthersGoOn
  <2> HIDE DEF P
  <2> QED BY <1>2, <1>3, <2>1, <2>2
<1>4. ASSUME NEW c \in Callers, selectRoundRobin(c) \/ selectByPriority(c) PROVE ScansAre'
  BY <1>3, <1>4 DEF selectRoundRobin, selectByPriority
<1>5. ASSUME NEW c \in Callers, SelectAccount(c) PROVE ScansAre'
  <2>1. P(c)'
    BY <1>5, SelectionIs DEF TypeOK
  <2> HIDE DEF P
  <2> QED BY <1>2, <1>5, <2>1, SelectionIs
<1>6. ASSUME NEW c \in Callers, BeginScan(c) PROVE ScansAre'
  <2>1. list[c] # {}
    BY <1>6 DEF BeginScan
  <2>2. P(c)'
    BY <1>6, <2>1, BeginIs
  <2> HIDE DEF P
  <2> QED BY <1>2, <1>6, <2>2, BeginIs
<1>7. ASSUME NEW c \in Callers, ReadCount(c) \/ ReadLast429(c) PROVE ScansAre'
  <2>1. /\ strategy' = strategy /\ Scanning(c) /\ rest[c] # {} /\ rest[c] \subseteq list[c]
    BY <1>7, ReadsAre
  <2>2. ASSUME NEW x \in Nat, Compare(c, x) PROVE ScansAre'
    <3>1. CASE rest[c] = {Current(c)}
      BY <1>3, <2>1, <2>2, <3>1, ComparesLast
    <3>2. CASE rest[c] # {Current(c)}
      <4>1. /\ pc'[c] = "count" /\ list' = list
            /\ rest'[c] = rest[c] \ {Current(c)} /\ rest'[c] # {}
        BY <2>1, <2>2, <3>2, ComparesOn DEF TypeOK
      <4>2. P(c)'
        BY <2>1, <4>1
      <4>3. \A d \in Callers \ {c} : Untouched(d)
        BY <2>2, OthersGoOn
      <4> HIDE DEF P
      <4> QED BY <1>2, <2>1, <4>2, <4>3
    <3> QED BY <3>1, <3>2
  <2>3. CASE /\ strategy = "smart" /\ pc[c] = "count"
             /\ pc' = [pc EXCEPT ![c] = "penalty"]
             /\ score' = [score EXCEPT ![c] = PenaltyTime * count[Current(c)]]
             /\ UNCHANGED <<exclude, list, rest, start, best, bestScore, settled>>
    <3>1. P(c)' /\ \A d \in Callers \ {c} : Untouched(d)
      BY <2>1, <2>3 DEF TypeOK, Untouched
    <3> HIDE DEF P
    <3> QED BY <1>2, <2>1, <3>1
  <2> QED BY <1>7, <2>2, <2>3, ReadsAre
<1>8. ASSUME NEW c \in Callers, Unsent(c) \/ Send(c) \/ Fail(c) \/ Forward(c) PROVE ScansAre'
  BY <1>8, RequestsAre DEF TypeOK
<1>9. CASE Elsewhere
  BY <1>9, ElsewhereIs
<1>10. CASE UNCHANGED vars
  BY <1>10, NoneChosen DEF Untouched
<1> QED BY <1>4, <1>5, <1>6, <1>7, <1>8, <1>9, <1>10 DEF Next, Elsewhere

LEMMA PastStep == TypeOK /\ ScansAre /\ PastThrottles /\ [Next]_vars => PastThrottles'
<1> SUFFICES ASSUME TypeOK, ScansAre, PastThrottles, [Next]_vars PROVE PastThrottles'
  OBVIOUS
<1> USE DEF PastThrottles
<1>0. \A a \in Accounts : last429[a] \in 0 .. MaxNow \cup {Never} /\ now \in 0 .. MaxNow
  BY DEF TypeOK
<1>1. ASSUME UNCHANGED <<last429, now>> PROVE PastThrottles'
  BY <1>1
<1>2. ASSUME NEW a \in Accounts, NEW is429 \in BOOLEAN, RecordRequest(a, is429), now' = now
      PROVE  PastThrottles'
  BY <1>0, <1>2, LoadBalancerAssumption DEF RecordRequest, TypeOK
<1>3. ASSUME NEW c \in Callers, Unsent(c) \/ Send(c) \/ Fail(c) \/ Forward(c) PROVE PastThrottles'
  <2>1. CASE Unsent(c) \/ Forward(c)
    BY <1>1, <2>1 DEF Unsent, Forward, usageVars
  <2>2. best[c] \in Accounts
    BY DEF TypeOK
  <2>3. CASE Send(c)
    BY <1>2, <2>2, <2>3 DEF Send
  <2>4. CASE Fail(c)
    BY <1>2, <2>2, <2>4 DEF Fail
  <2> QED BY <1>3, <2>1, <2>3, <2>4
<1>4. CASE Elsewhere
  <2>1. ASSUME NEW a \in Listed, Expire(a) PROVE PastThrottles'
    BY <1>1, <2>1 DEF Expire
  <2>2. ASSUME NEW a \in Listed, Direct(a) PROVE PastThrottles'
    BY <1>2, <2>2, ListedAre DEF Direct
  <2>3. CASE Tick
    BY <1>0, <2>3, LoadBalancerAssumption DEF Tick, usageVars
  <2> QED BY <1>4, <2>1, <2>2, <2>3 DEF Elsewhere
<1>5. ASSUME NEW c \in Callers,
             SelectAccount(c) \/ selectRoundRobin(c) \/ selectByPriority(c) \/ BeginScan(c)
      PROVE  PastThrottles'
  BY <1>1, <1>5 DEF SelectAccount, selectRoundRobin, selectByPriority, BeginScan, usageVars
<1>6. ASSUME NEW c \in Callers, ReadCount(c) \/ ReadLast429(c) PROVE PastThrottles'
  BY <1>1, <1>6, ReadsAre
<1>7. CASE UNCHANGED vars
  BY <1>1, <1>7, NoneChosen
<1> QED BY <1>3, <1>4, <1>5, <1>6, <1>7 DEF Next, Elsewhere
-----------------------------------------------------------------------------
LEMMA BestSoFarKept ==
    ASSUME NEW d \in Callers, BestSoFar(d), Untouched(d), UNCHANGED <<strategy, count, last429>>
    PROVE  BestSoFar(d)'
BY DEF BestSoFar, ScoreOf, Seen, Penalty, Current, Untouched

(* A comparison with the score that the current account has.               *)
LEMMA BestSoFarCompared ==
    ASSUME TypeOK, NEW c \in Callers, BestSoFar(c), rest[c] # {}, rest[c] \subseteq list[c],
           rest[c] # {Current(c)},
           NEW x \in Nat, x = ScoreOf(c, Current(c)), Compare(c, x),
           UNCHANGED <<strategy, count, last429>>
    PROVE  BestSoFar(c)'
<1>1. /\ pc'[c] = "count" /\ start' = start /\ list' = list
      /\ rest'[c] = rest[c] \ {Current(c)}
      /\ Better(c, x) => best'[c] = Current(c) /\ bestScore'[c] = x
      /\ ~Better(c, x) => best'[c] = best[c] /\ bestScore'[c] = bestScore[c]
  BY ComparesOn DEF TypeOK
<1>2. \A a \in Accounts : ScoreOf(c, a)' = ScoreOf(c, a)
  BY <1>1 DEF ScoreOf, Penalty
<1>3. Current(c) \in rest[c] /\ Current(c) \in Accounts
  BY CurrentIs
<1>4. Seen(c)' = Seen(c) \cup {Current(c)} /\ Seen(c)' \subseteq Accounts
  BY <1>1, <1>3 DEF Seen, TypeOK
<1>5. bestScore[c] \in Nat \cup {NoScore} /\ x # NoScore
  BY DEF TypeOK, NoScore
<1>6. /\ bestScore[c] # NoScore => best[c] \in Seen(c) /\ bestScore[c] = ScoreOf(c, best[c])
      /\ \A a \in Seen(c) : bestScore[c] # NoScore /\ bestScore[c] <= ScoreOf(c, a)
      /\ strategy = "smart" => \A a \in Accounts : last429[a] = Never \/ last429[a] <= start[c]
  BY DEF BestSoFar
<1>7. bestScore'[c] # NoScore /\ best'[c] \in Seen(c)' /\ bestScore'[c] = ScoreOf(c, best'[c])
  BY <1>1, <1>4, <1>5, <1>6 DEF Better
<1>8. ASSUME NEW a \in Seen(c)' PROVE bestScore'[c] <= ScoreOf(c, a)
  <2>1. CASE a = Current(c)
    BY <1>1, <1>5, <2>1 DEF Better
  <2>2. CASE a \in Seen(c)
    <3>1. bestScore[c] <= ScoreOf(c, a) /\ bestScore[c] \in Nat /\ ScoreOf(c, a) \in Nat
      BY <1>4, <1>5, <1>6, <2>2, ScoreTypes
    <3> QED BY <1>1, <3>1 DEF Better, NoScore
  <2> QED BY <1>4, <2>1, <2>2
<1>9. best'[c] \in Accounts
  BY <1>4, <1>7
<1> QED BY <1>1, <1>2, <1>4, <1>6, <1>7, <1>8, <1>9 DEF BestSoFar

LEMMA SettledStep ==
    TypeOK /\ ScansAre /\ PastThrottles /\ SettledScans /\ [Next]_vars => SettledScans'
<1> SUFFICES ASSUME TypeOK, ScansAre, PastThrottles, SettledScans, [Next]_vars,
                    NEW d \in Callers, Scanning(d)', settled'[d]
             PROVE  BestSoFar(d)'
  BY DEF SettledScans
<1>1. ASSUME UNCHANGED <<strategy, count, last429>>, Untouched(d) PROVE BestSoFar(d)'
  BY <1>1, BestSoFarKept DEF SettledScans, Scanning, Untouched
<1>2. ASSUME NEW c \in Callers, selectRoundRobin(c) \/ selectByPriority(c) PROVE BestSoFar(d)'
  <2>1. PICK a : Pick(c, a)
    BY <1>2 DEF selectRoundRobin, selectByPriority
  <2>2. d # c
    BY <2>1 DEF TypeOK, Pick, Scanning
  <2>3. UNCHANGED <<strategy, count, last429>>
    BY <1>2 DEF selectRoundRobin, selectByPriority, usageVars
  <2> QED BY <1>1, <2>1, <2>2, <2>3, OthersGoOn
<1>3. ASSUME NEW c \in Callers, SelectAccount(c) PROVE BestSoFar(d)'
  <2>1. d # c
    BY <1>3, SelectionIs DEF TypeOK, Scanning
  <2> QED BY <1>1, <1>3, <2>1, SelectionIs
<1>4. ASSUME NEW c \in Callers, BeginScan(c) PROVE BestSoFar(d)'
  <2>1. CASE d = c
    <3>1. /\ pc'[c] = "count" /\ bestScore'[c] = NoScore /\ rest'[c] = list'[c]
          /\ strategy' = strategy /\ last429' = last429
          /\ strategy = "smart" => start'[c] = now
      BY <1>4, BeginIs
    <3>2. Seen(c)' = {}
      BY <3>1 DEF Seen
    <3> QED BY <2>1, <3>1, <3>2 DEF BestSoFar, PastThrottles
  <2> QED BY <1>1, <1>4, <2>1, BeginIs
<1>5. ASSUME NEW c \in Callers, ReadCount(c) \/ ReadLast429(c) PROVE BestSoFar(d)'
  <2>1. /\ UNCHANGED <<strategy, count, last429>> /\ Scanning(c)
        /\ rest[c] # {} /\ rest[c] \subseteq list[c]
    BY <1>5, ReadsAre
  <2>2. ASSUME NEW x \in Nat, Compare(c, x), Scanning(c) /\ settled[c] => x = ScoreOf(c, Current(c))
        PROVE  BestSoFar(d)'
    <3>1. CASE d # c
      BY <1>1, <2>1, <2>2, <3>1, OthersGoOn
    <3>2. CASE d = c
      <4>1. rest[c] # {Current(c)}
        BY <2>2, <3>2 DEF Compare, Pick, TypeOK, Scanning
      <4>2. settled[c]
        BY <2>1, <2>2, <3>2, <4>1, ComparesOn
      <4> QED BY <2>1, <2>2, <3>2, <4>1, <4>2, BestSoFarCompared DEF SettledScans
    <3> QED BY <3>1, <3>2
  <2>3. CASE strategy = "least-used" /\ count[Current(c)] \in Nat /\ Compare(c, count[Current(c)])
    BY <2>2, <2>3 DEF ScoreOf
  <2>4. CASE /\ strategy = "smart" /\ pc[c] = "penalty"
             /\ score[c] + Penalty(last429[Current(c)], start[c]) \in Nat
             /\ Compare(c, score[c] + Penalty(last429[Current(c)], start[c]))
    <3>1. Scanning(c) /\ settled[c] => score[c] = PenaltyTime * count[Current(c)]
      BY <2>4 DEF SettledScans, BestSoFar
    <3> QED BY <2>2, <2>4, <3>1 DEF ScoreOf
  <2>5. CASE /\ pc[c] = "count"
             /\ pc' = [pc EXCEPT ![c] = "penalty"]
             /\ score' = [score EXCEPT ![c] = PenaltyTime * count[Current(c)]]
             /\ UNCHANGED <<exclude, list, rest, start, best, bestScore, settled>>
    <3>1. CASE d # c
      <4>1. Untouched(d)
        BY <2>5, <3>1 DEF TypeOK, Untouched
      <4> QED BY <1>1, <2>1, <4>1
    <3>2. CASE d = c
      <4>1. score'[c] = PenaltyTime * count[Current(c)]
        BY <2>5 DEF TypeOK
      <4>2. BestSoFar(c)
        BY <2>1, <2>5, <3>2 DEF SettledScans
      <4> QED BY <2>1, <2>5, <3>2, <4>1, <4>2 DEF BestSoFar, ScoreOf, Seen, Penalty, Current
    <3> QED BY <3>1, <3>2
  <2> QED BY <1>5, <2>3, <2>4, <2>5, ReadsAre
<1>6. ASSUME NEW c \in Callers, Unsent(c) \/ Send(c) \/ Fail(c) \/ Forward(c) PROVE BestSoFar(d)'
  <2>1. Scanning(d) /\ d # c
    BY <1>6, RequestsAre DEF TypeOK, Scanning
  <2>2. ~Disturbed
    BY <2>1 DEF Disturbed
  <2>3. Unsent(c) \/ Forward(c)
    BY <1>6, <2>2 DEF Send, Fail, RecordRequest
  <2> QED BY <1>1, <1>6, <2>1, <2>3, RequestsAre
          DEF Unsent, Forward, End, usageVars, scanVars, TypeOK, Untouched
<1>7. CASE Elsewhere
  <2>1. Scanning(d)
    BY <1>7, ElsewhereIs DEF Scanning
  <2>2. ~Disturbed
    BY <2>1 DEF Disturbed
  <2> QED BY <1>1, <1>7, <2>2, ElsewhereIs DEF Untouched
<1>8. CASE UNCHANGED vars
  BY <1>1, <1>8, NoneChosen
<1> QED BY <1>2, <1>3, <1>4, <1>5, <1>6, <1>7, <1>8 DEF Next, Elsewhere

-----------------------------------------------------------------------------
(* A step leaves the pool's strategy alone.                                *)
LEMMA StrategyStays == TypeOK /\ ScansAre /\ [Next]_vars => strategy' = strategy
BY ReadsAre, RequestsAre, SelectionIs, ElsewhereIs, NoneChosen
   DEF Next, Elsewhere, selectRoundRobin, selectByPriority, BeginScan

(* A request with an account's own key: all are to catch up with it.       *)
LEMMA DirectIs ==
    ASSUME TypeOK, NEW x \in Listed, Direct(x), strategy = "least-used", NEW b \in Accounts
    PROVE  /\ x \in Accounts
           /\ count[b] <= count'[b] /\ level[b] <= level'[b]
           /\ \A a \in Accounts : count'[a] <= level'[b] \/ count'[a] = count[a]
<1>1. x \in Accounts
  BY ListedAre
<1>2. /\ \A a \in Accounts : count[a] \in Nat
      /\ level[b] \in Nat /\ count[x] + 1 \in Nat
  BY <1>1 DEF TypeOK
<1>3. count' = [count EXCEPT ![x] = count[x] + 1]
  BY DEF Direct, RecordRequest, Scans
<1>4. level'[b] = Max({level[b], count[x] + 1})
  BY DEF Direct
<1>5. level[b] <= level'[b] /\ count[x] + 1 <= level'[b]
  <2>1. {level[b], count[x] + 1} \in SUBSET Nat /\ IsFiniteSet({level[b], count[x] + 1})
    BY <1>2, TwoAreFinite
  <2> QED BY <1>4, <2>1, FiniteExtremes
<1> QED BY <1>1, <1>2, <1>3, <1>5 DEF TypeOK

(* Counts and levels only grow, but for that of an account which from now  *)
(* on is to catch up with the highest count.                               *)
LEMMA StatsStep ==
    ASSUME TypeOK, ScansAre, [Next]_vars, strategy = "least-used", NEW b \in Accounts
    PROVE  \/ count[b] <= count'[b] /\ level[b] <= level'[b]
           \/ level'[b] = Highest /\ \A a \in Accounts : count'[a] <= count[a]
<1>0. \A a \in Accounts : count[a] \in Nat /\ level[a] \in Nat
  BY DEF TypeOK
<1>1. ASSUME UNCHANGED <<count, level>>
      PROVE  count[b] <= count'[b] /\ level[b] <= level'[b]
  BY <1>0, <1>1
<1>2. ASSUME NEW c \in Callers, SelectAccount(c)
      PROVE  \/ count[b] <= count'[b] /\ level[b] <= level'[b]
             \/ level'[b] = Highest /\ \A a \in Accounts : count'[a] <= count[a]
  <2>1. count' = count /\ level'[b] \in {level[b], Highest}
    BY <1>2, SelectionIs
  <2> QED BY <1>0, <2>1
<1>3. ASSUME NEW c \in Callers, Unsent(c) \/ Send(c) \/ Fail(c) \/ Forward(c)
      PROVE  count[b] <= count'[b] /\ level[b] <= level'[b]
  BY <1>0, <1>3, RequestsAre
<1>4. ASSUME NEW x \in Listed, Expire(x)
      PROVE  \/ count[b] <= count'[b] /\ level[b] <= level'[b]
             \/ level'[b] = Highest /\ \A a \in Accounts : count'[a] <= count[a]
  <2>1. /\ count' = [count EXCEPT ![x] = count[x] - 1]
        /\ level'[b] = IF b = x THEN Highest ELSE level[b]
    BY <1>4 DEF Expire, Missed
  <2>2. \A a \in Accounts : count'[a] <= count[a] /\ (a # x => count'[a] = count[a])
    BY <1>0, <2>1 DEF TypeOK
  <2> QED BY <1>0, <2>1, <2>2
<1>5. ASSUME NEW x \in Listed, Direct(x)
      PROVE  count[b] <= count'[b] /\ level[b] <= level'[b]
  BY <1>5, DirectIs
<1>6. ASSUME NEW c \in Callers,
             selectRoundRobin(c) \/ selectByPriority(c) \/ BeginScan(c)
      PROVE  UNCHANGED <<count, level>>
  BY <1>6 DEF selectRoundRobin, selectByPriority, BeginScan, usageVars, history
<1>7. CASE Tick \/ UNCHANGED vars
  BY <1>1, <1>7, NoneChosen DEF Tick, usageVars, history
<1> QED BY <1>1, <1>2, <1>3, <1>4, <1>5, <1>6, <1>7, ReadsAre DEF Next

LEMMA PassedStep == TypeOK /\ ScansAre /\ PassedCounts /\ [Next]_vars => PassedCounts'
<1> SUFFICES ASSUME TypeOK, ScansAre, PassedCounts, [Next]_vars, strategy' = "least-used",
                    NEW d \in Callers, Scanning(d)', NEW b \in Seen(d)'
             PROVE  bestScore'[d] # NoScore /\ (bestScore'[d] <= count'[b] \/ bestScore'[d] <= level'[b])
  BY DEF PassedCounts
<1> DEFINE Goal == bestScore'[d] # NoScore
                       /\ (bestScore'[d] <= count'[b] \/ bestScore'[d] <= level'[b])
<1>0. strategy = "least-used"
  BY StrategyStays
<1>1. TypeOK'
  BY NextType
<1>2. /\ b \in Accounts
      /\ count[b] \in Nat /\ count'[b] \in Nat /\ level[b] \in Nat /\ level'[b] \in Nat
      /\ bestScore[d] \in Nat \cup {NoScore} /\ bestScore'[d] \in Nat \cup {NoScore}
  <2>1. b \in Accounts
    BY <1>1 DEF TypeOK, Seen
  <2> QED BY <1>1, <2>1 DEF TypeOK
<1>3. ASSUME Scanning(d), b \in Seen(d), bestScore'[d] = bestScore[d] PROVE Goal
  <2>1. bestScore[d] # NoScore /\ (bestScore[d] <= count[b] \/ bestScore[d] <= level[b])
    BY <1>0, <1>3 DEF PassedCounts
  <2>2. bestScore[d] \in Nat
    BY <1>2, <2>1
  <2>3. CASE count[b] <= count'[b] /\ level[b] <= level'[b]
    BY <1>2, <1>3, <2>1, <2>2, <2>3
  <2>4. CASE level'[b] = Highest
    BY <1>3, <2>1, <2>4, HighestIs
  <2> QED BY <1>0, <1>2, <2>3, <2>4, StatsStep
<1>4. ASSUME Untouched(d) PROVE Goal
  BY <1>3, <1>4 DEF Untouched, Scanning, Seen
<1>5. ASSUME NEW c \in Callers, selectRoundRobin(c) \/ selectByPriority(c) PROVE FALSE
  BY <1>0, <1>5 DEF selectRoundRobin, selectByPriority
<1>6. ASSUME NEW c \in Callers, SelectAccount(c) PROVE Goal
  <2>1. d # c
    BY <1>6, SelectionIs DEF TypeOK, Scanning
  <2> QED BY <1>4, <1>6, <2>1, SelectionIs
<1>7. ASSUME NEW c \in Callers, BeginScan(c) PROVE Goal
  <2>1. d # c
    BY <1>7, BeginIs DEF Seen
  <2> QED BY <1>4, <1>7, <2>1, BeginIs
<1>8. ASSUME NEW c \in Callers, ReadCount(c) \/ ReadLast429(c) PROVE Goal
  <2>1. /\ UNCHANGED <<count, level>> /\ Scanning(c) /\ rest[c] # {}
        /\ count[Current(c)] \in Nat /\ Compare(c, count[Current(c)])
    BY <1>0, <1>8, ReadsAre
  <2>2. CASE d # c
    BY <1>4, <2>1, <2>2, OthersGoOn
  <2>3. CASE d = c
    <3> DEFINE x == count[Current(c)]
    <3>1. rest[c] # {Current(c)}
      BY <2>1, <2>3 DEF Compare, Pick, TypeOK, Scanning
    <3>2. /\ list' = list /\ rest'[c] = rest[c] \ {Current(c)}
          /\ Better(c, x) => bestScore'[c] = x
          /\ ~Better(c, x) => bestScore'[c] = bestScore[c]
      <4>1. rest \in [Callers -> SUBSET Accounts]
            /\ bestScore \in [Callers -> Nat \cup {NoScore}]
        BY DEF TypeOK
      <4>2. x \in Nat /\ Compare(c, x)
        BY <2>1
      <4> HIDE DEF x
      <4>3. /\ rest' = [rest EXCEPT ![c] = rest[c] \ {Current(c)}] /\ list' = list
            /\ Better(c, x) => bestScore' = [bestScore EXCEPT ![c] = x]
            /\ ~Better(c, x) => bestScore' = bestScore
        BY <2>1, <3>1, <4>2, ComparesOn
      <4> QED BY <4>1, <4>3
    <3>3. b \in Seen(c) \/ b = Current(c)
      BY <2>3, <3>2 DEF Seen
    <3>4. x \in Nat /\ x # NoScore
      BY <2>1 DEF NoScore
    <3>5. CASE ~Better(c, x)
      <4>1. bestScore[c] # NoScore /\ bestScore[c] <= x /\ bestScore'[c] = bestScore[c]
        BY <1>2, <2>3, <3>2, <3>4, <3>5 DEF Better
      <4> QED BY <1>3, <2>1, <2>3, <3>3, <4>1
    <3>6. CASE Better(c, x) /\ b = Current(c)
      BY <2>1, <2>3, <3>2, <3>4, <3>6
    <3>7. CASE Better(c, x) /\ b \in Seen(c)
      <4>1. bestScore[c] # NoScore /\ (bestScore[c] <= count[b] \/ bestScore[c] <= level[b])
        BY <1>0, <2>1, <2>3, <3>7 DEF PassedCounts
      <4>2. bestScore[c] \in Nat /\ x < bestScore[c]
        BY <1>2, <2>3, <3>7, <4>1 DEF Better
      <4> QED BY <1>2, <2>1, <2>3, <3>2, <3>4, <3>7, <4>1, <4>2
    <3> QED BY <3>3, <3>5, <3>6, <3>7
  <2> QED BY <2>2, <2>3
<1>9. ASSUME NEW c \in Callers, Unsent(c) \/ Send(c) \/ Fail(c) \/ Forward(c) PROVE Goal
  <2>1. Scanning(d)
    BY <1>9, RequestsAre DEF TypeOK, Scanning
  <2>2. b \in Seen(d) /\ bestScore'[d] = bestScore[d]
    BY <1>9, RequestsAre DEF Seen
  <2> QED BY <1>3, <2>1, <2>2
<1>10. CASE Elsewhere
  BY <1>3, <1>10, ElsewhereIs DEF Scanning, Seen
<1>11. CASE UNCHANGED vars
  BY <1>4, <1>11, NoneChosen
<1> QED BY <1>5, <1>6, <1>7, <1>8, <1>9, <1>10, <1>11 DEF Next, Elsewhere
-----------------------------------------------------------------------------
(* Sets of callers have cardinalities.                                     *)
LEMMA CallerSets ==
    /\ Cardinality(Callers) \in Nat /\ MaxSpread \in Nat
    /\ \A S \in SUBSET Callers :
          /\ Cardinality(S) \in Nat /\ Cardinality(S) <= Cardinality(Callers)
          /\ \A T \in SUBSET S : Cardinality(T) <= Cardinality(S)
          /\ \A c \in S : Cardinality(S \ {c}) = Cardinality(S) - 1
<1> USE LoadBalancerAssumption
<1>1. Cardinality(Callers) \in Nat
  BY FS_CardinalityType
<1>2. ASSUME NEW S \in SUBSET Callers
      PROVE  /\ Cardinality(S) \in Nat /\ Cardinality(S) <= Cardinality(Callers)
             /\ \A T \in SUBSET S : Cardinality(T) <= Cardinality(S)
             /\ \A c \in S : Cardinality(S \ {c}) = Cardinality(S) - 1
  <2>1. IsFiniteSet(S) /\ Cardinality(S) <= Cardinality(Callers)
    BY FS_Subset
  <2>2. \A T \in SUBSET S : Cardinality(T) <= Cardinality(S)
    BY <2>1, FS_Subset
  <2>3. \A c \in S : Cardinality(S \ {c}) = Cardinality(S) - 1
    BY <2>1, FS_RemoveElement
  <2> QED BY <2>1, <2>2, <2>3, FS_CardinalityType
<1> QED BY <1>1, <1>2 DEF MaxSpread

(* An account that has no more than v itself.                              *)
LEMMA BoundedAtFirst ==
    ASSUME NEW n \in Nat, NEW v \in Nat, n <= v,
           NEW S \in SUBSET Callers, NEW T \in SUBSET Callers
    PROVE  n + Cardinality(S) + Cardinality(T) <= v + MaxSpread
<1>1. /\ Cardinality(S) \in Nat /\ Cardinality(S) <= Cardinality(Callers)
      /\ Cardinality(T) \in Nat /\ Cardinality(T) <= Cardinality(Callers)
      /\ Cardinality(Callers) \in Nat
  BY CallerSets
<1> QED BY <1>1 DEF MaxSpread

LEMMA BoundedAnew ==
    ASSUME NEW a \in Accounts, NEW b \in Accounts, NEW v \in Nat, count'[a] \in Nat, count'[a] <= v
    PROVE  Bounded(a, b, v)'
<1>1. Once(a, b, v)' \in SUBSET Callers /\ Twice(a, b, v)' \in SUBSET Callers
  BY DEF Once, Twice
<1>2. count'[a] + Cardinality(Once(a, b, v)') + Cardinality(Twice(a, b, v)') <= v + MaxSpread
  BY <1>1, BoundedAtFirst
<1> QED BY <1>2 DEF Bounded, MaxSpread

(* A step after which no more callers may record.                          *)
LEMMA BoundedStill ==
    ASSUME TypeOK, NEW a \in Accounts, NEW b \in Accounts, NEW v \in Nat, Bounded(a, b, v),
           count'[a] \in Nat, count'[a] <= count[a],
           Once(a, b, v)' \subseteq Once(a, b, v), Twice(a, b, v)' \subseteq Twice(a, b, v)
    PROVE  Bounded(a, b, v)'
<1>1. Once(a, b, v) \in SUBSET Callers /\ Twice(a, b, v) \in SUBSET Callers
  BY DEF Once, Twice
<1>2. Once(a, b, v)' \in SUBSET Callers /\ Twice(a, b, v)' \in SUBSET Callers
  BY <1>1
<1>3. /\ Cardinality(Once(a, b, v)') <= Cardinality(Once(a, b, v))
      /\ Cardinality(Twice(a, b, v)') <= Cardinality(Twice(a, b, v))
      /\ Cardinality(Once(a, b, v)) \in Nat /\ Cardinality(Twice(a, b, v)) \in Nat
      /\ Cardinality(Once(a, b, v)') \in Nat /\ Cardinality(Twice(a, b, v)') \in Nat
      /\ MaxSpread \in Nat
  BY <1>1, <1>2, CallerSets
<1>4. count[a] \in Nat
  BY DEF TypeOK
<1>5. count'[a] + Cardinality(Once(a, b, v)') + Cardinality(Twice(a, b, v)') <= v + MaxSpread
  BY <1>3, <1>4 DEF Bounded
<1> QED BY <1>5, CallerSets DEF Bounded, MaxSpread

(* A record at a by one that may no longer do so, or only once more.       *)
LEMMA BoundedAfter ==
    ASSUME TypeOK, NEW a \in Accounts, NEW b \in Accounts, NEW v \in Nat, Bounded(a, b, v),
           NEW c \in Callers, count'[a] \in {count[a], count[a] + 1},
           Once(a, b, v)' \subseteq Once(a, b, v), Twice(a, b, v)' \subseteq Twice(a, b, v),
           \/ c \in Once(a, b, v) /\ c \notin Once(a, b, v)'
           \/ c \in Twice(a, b, v) /\ c \notin Twice(a, b, v)'
    PROVE  Bounded(a, b, v)'
<1> DEFINE p == Cardinality(Once(a, b, v))
           q == Cardinality(Twice(a, b, v))
           p1 == Cardinality(Once(a, b, v)')
           q1 == Cardinality(Twice(a, b, v)')
<1>1. Once(a, b, v) \in SUBSET Callers /\ Twice(a, b, v) \in SUBSET Callers
  BY DEF Once, Twice
<1>2. Once(a, b, v)' \in SUBSET Callers /\ Twice(a, b, v)' \in SUBSET Callers
  BY <1>1
<1>3. p \in Nat /\ q \in Nat /\ p1 \in Nat /\ q1 \in Nat /\ MaxSpread \in Nat /\ p1 <= p /\ q1 <= q
  BY <1>1, <1>2, CallerSets
<1>4. p1 <= p - 1 \/ q1 <= q - 1
  <2>1. CASE c \in Once(a, b, v) /\ c \notin Once(a, b, v)'
    <3>1. Cardinality(Once(a, b, v) \ {c}) = p - 1 /\ Once(a, b, v) \ {c} \in SUBSET Callers
      BY <1>1, <2>1, CallerSets
    <3>2. Once(a, b, v)' \in SUBSET (Once(a, b, v) \ {c})
      BY <2>1
    <3> QED BY <3>1, <3>2, CallerSets
  <2>2. CASE c \in Twice(a, b, v) /\ c \notin Twice(a, b, v)'
    <3>1. Cardinality(Twice(a, b, v) \ {c}) = q - 1 /\ Twice(a, b, v) \ {c} \in SUBSET Callers
      BY <1>1, <2>2, CallerSets
    <3>2. Twice(a, b, v)' \in SUBSET (Twice(a, b, v) \ {c})
      BY <2>2
    <3> QED BY <3>1, <3>2, CallerSets
  <2> QED BY <2>1, <2>2
<1>5. count[a] \in Nat /\ count[a] + p + q <= v + MaxSpread
  BY DEF TypeOK, Bounded
<1> HIDE DEF p, q, p1, q1
<1>6. count'[a] + p1 + q1 <= v + MaxSpread
  BY <1>3, <1>4, <1>5
<1> QED BY <1>6 DEF Bounded, MaxSpread, p1, q1

(* The callers that may record are the same but for c.                     *)
LEMMA OthersMayRecord ==
    ASSUME NEW c \in Callers, NEW a \in Accounts, NEW b \in Accounts, NEW v \in Nat,
           \A d \in Callers \ {c} : Untouched(d),
           (c \in Twice(a, b, v))' => c \in Twice(a, b, v),
           (c \in Once(a, b, v))' => c \in Once(a, b, v)
    PROVE  Once(a, b, v)' \subseteq Once(a, b, v) /\ Twice(a, b, v)' \subseteq Twice(a, b, v)
<1>1. ASSUME NEW d \in Callers \ {c}
      PROVE  /\ (d \in Twice(a, b, v))' => d \in Twice(a, b, v)
             /\ (d \in Once(a, b, v))' => d \in Once(a, b, v)
  BY <1>1 DEF Once, Twice, Scanning, Untouched
<1>2. Once(a, b, v)' \subseteq Callers /\ Twice(a, b, v)' \subseteq Callers
  BY DEF Once, Twice
<1> QED BY <1>1, <1>2

LEMMA RequestSpread ==
    ASSUME TypeOK, strategy = "least-used", NEW c \in Callers,
           Unsent(c) \/ Send(c) \/ Fail(c) \/ Forward(c),
           NEW a \in Accounts, NEW b \in Accounts, NEW v \in Nat, Bounded(a, b, v)
    PROVE  Bounded(a, b, v)'
<1>1. /\ pc[c] \in {"picked", "upstream"}
      /\ pc' = [pc EXCEPT ![c] = "upstream"] \/ pc' = [pc EXCEPT ![c] = "select"]
      /\ UNCHANGED <<list, bestScore>>
      /\ \A d \in Callers \ {c} : best'[d] = best[d]
      /\ \A x \in Accounts : count'[x] = count[x] \/ (x = best[c] /\ count'[x] = count[x] + 1)
  BY RequestsAre
<1>2. best[c] \in Accounts /\ count[a] \in Nat /\ count'[a] \in Nat
  BY <1>1 DEF TypeOK
<1>3. CASE Send(c)
  <2>1. pc[c] = "picked" /\ pc'[c] = "upstream" /\ best' = best
    BY <1>3 DEF Send, TypeOK
  <2>2. Once(a, b, v)' \subseteq Once(a, b, v) /\ Twice(a, b, v)' \subseteq Twice(a, b, v)
    BY <1>1, <2>1 DEF TypeOK, Once, Twice, Scanning
  <2>3. c \notin Twice(a, b, v)'
    BY <2>1 DEF Twice, Scanning
  <2>4. a = best[c] => c \in Twice(a, b, v)
    BY <2>1 DEF Twice
  <2> QED BY <1>1, <1>2, <2>2, <2>3, <2>4, BoundedAfter, BoundedStill
<1>4. CASE Unsent(c) \/ Fail(c) \/ Forward(c)
  <2>1. pc'[c] = "select"
    BY <1>4 DEF Unsent, Fail, Forward, End, TypeOK
  <2>2. pc' = [pc EXCEPT ![c] = "select"]
    BY <1>1, <2>1 DEF TypeOK
  <2>3. Once(a, b, v)' \subseteq Once(a, b, v) /\ Twice(a, b, v)' \subseteq Twice(a, b, v)
    BY <1>1, <2>2 DEF TypeOK, Once, Twice, Scanning
  <2>4. c \notin Once(a, b, v)'
    BY <2>1 DEF Once, Twice, Scanning
  <2>5. a = best[c] => c \in Once(a, b, v)
    BY <1>1 DEF Once, Twice
  <2> QED BY <1>1, <1>2, <2>3, <2>4, <2>5, BoundedAfter, BoundedStill
<1> QED BY <1>3, <1>4

LEMMA CompareSpread ==
    ASSUME TypeOK, PassedCounts, strategy = "least-used",
           NEW c \in Callers, Scanning(c), rest[c] # {}, rest[c] \subseteq list[c],
           count[Current(c)] \in Nat, Compare(c, count[Current(c)]), UNCHANGED count,
           NEW a \in Accounts, NEW b \in Accounts, NEW v \in Nat,
           count[b] <= v, level[b] <= v, Bounded(a, b, v)
    PROVE  Bounded(a, b, v)'
<1> DEFINE x == count[Current(c)]
<1>1. /\ x \in Nat /\ x # NoScore /\ bestScore[c] \in Nat \cup {NoScore}
      /\ count[a] \in Nat /\ count[b] \in Nat /\ level[b] \in Nat
  BY DEF TypeOK, NoScore
<1>2. ASSUME count[a] <= v PROVE Bounded(a, b, v)'
  BY <1>1, <1>2, BoundedAnew
<1>3. pc'[c] # "upstream"
  BY ComparesOn DEF Compare, Pick, TypeOK
<1>4. ASSUME (c \in Twice(a, b, v))' => c \in Twice(a, b, v) PROVE Bounded(a, b, v)'
  <2>1. (c \in Once(a, b, v))' => c \in Once(a, b, v)
    BY <1>3, <1>4 DEF Once
  <2>2. \A d \in Callers \ {c} : Untouched(d)
    BY OthersGoOn
  <2>3. Once(a, b, v)' \subseteq Once(a, b, v) /\ Twice(a, b, v)' \subseteq Twice(a, b, v)
    BY <1>4, <2>1, <2>2, OthersMayRecord
  <2> QED BY <1>1, <2>3, BoundedStill
<1>5. b \notin list[c] => c \in Twice(a, b, v)
  BY DEF Twice
<1>6. b \in Seen(c) => bestScore[c] \in Nat /\ bestScore[c] <= v
  <2>1. b \in Seen(c) => bestScore[c] # NoScore /\ (bestScore[c] <= count[b] \/ bestScore[c] <= level[b])
    BY DEF PassedCounts
  <2> QED BY <1>1, <2>1
<1>7. CASE rest[c] # {Current(c)}
  <2>1. /\ pc'[c] = "count" /\ list'[c] = list[c]
        /\ Better(c, x) => best'[c] = Current(c) /\ bestScore'[c] = x
        /\ ~Better(c, x) => best'[c] = best[c] /\ bestScore'[c] = bestScore[c]
    BY <1>7, ComparesOn DEF TypeOK
  <2>2. CASE ~Better(c, x)
    BY <1>4, <2>1, <2>2 DEF Twice, Scanning
  <2>3. CASE Better(c, x) /\ a # Current(c)
    BY <1>4, <2>1, <2>3 DEF Twice, Scanning
  <2>4. CASE Better(c, x) /\ a = Current(c)
    <3>1. CASE x <= v
      BY <1>2, <2>4, <3>1
    <3>2. CASE ~(x <= v)
      BY <1>4, <2>1, <2>4, <3>2 DEF Twice, Scanning
    <3> QED BY <3>1, <3>2
  <2> QED BY <2>2, <2>3, <2>4
<1>8. CASE rest[c] = {Current(c)}
  <2>1. pc'[c] = "picked" /\ best'[c] = (IF Better(c, x) THEN Current(c) ELSE best[c])
    BY <1>1, <1>8, ComparesLast DEF Pick, TypeOK
  <2>2. CASE best'[c] # a
    BY <1>4, <2>1, <2>2 DEF Twice, Scanning
  <2>3. CASE b \notin list[c]
    BY <1>4, <1>5, <2>3
  <2>4. CASE best'[c] = a /\ b \in list[c]
    <3>1. b \in Seen(c) \/ b = Current(c)
      BY <1>8, <2>4 DEF Seen
    <3>2. CASE Better(c, x)
      <4>1. a = Current(c)
        BY <2>1, <2>4, <3>2
      <4>2. b \in Seen(c) => x < bestScore[c]
        BY <1>6, <3>2 DEF Better, NoScore
      <4> QED BY <1>1, <1>2, <1>6, <3>1, <4>1, <4>2
    <3>3. CASE ~Better(c, x)
      <4>1. a = best[c] /\ bestScore[c] # NoScore /\ bestScore[c] \in Nat /\ bestScore[c] <= x
        BY <1>1, <2>1, <2>4, <3>3 DEF Better
      <4>2. bestScore[c] <= v
        BY <1>1, <1>6, <3>1, <4>1
      <4>3. c \in Twice(a, b, v)
        BY <4>1, <4>2 DEF Twice
      <4> QED BY <1>4, <4>3
    <3> QED BY <3>2, <3>3
  <2> QED BY <2>2, <2>3, <2>4
<1> QED BY <1>7, <1>8

LEMMA SpreadStep ==
    TypeOK /\ ScansAre /\ PassedCounts /\ SpreadBounded /\ [Next]_vars => SpreadBounded'
<1> SUFFICES ASSUME TypeOK, ScansAre, PassedCounts, SpreadBounded, [Next]_vars,
                    strategy' = "least-used",
                    NEW a \in Accounts, NEW b \in Accounts, NEW v \in Nat,
                    count'[b] <= v, level'[b] <= v
             PROVE  Bounded(a, b, v)'
  BY DEF SpreadBounded
<1>0. strategy = "least-used"
  BY StrategyStays
<1>1. /\ count[a] \in Nat /\ count'[a] \in Nat /\ count[b] \in Nat /\ count'[b] \in Nat
      /\ level[b] \in Nat /\ level'[b] \in Nat
  <2>1. TypeOK'
    BY NextType
  <2> QED BY <2>1 DEF TypeOK
<1>2. ASSUME level'[b] = Highest, count'[a] <= count[a] PROVE Bounded(a, b, v)'
  <2>1. count[a] <= Highest /\ Highest \in Nat
    BY HighestIs
  <2> QED BY <1>1, <1>2, <2>1, BoundedAnew
<1>3. CASE level'[b] = Highest /\ \A x \in Accounts : count'[x] <= count[x]
  BY <1>2, <1>3
<1>4. CASE count[b] <= count'[b] /\ level[b] <= level'[b]
  <2>1. count[b] <= v /\ level[b] <= v
    BY <1>1, <1>4
  <2>2. Bounded(a, b, v)
    BY <1>0, <2>1 DEF SpreadBounded
  <2>3. ASSUME NEW c \in Callers, SelectAccount(c) PROVE Bounded(a, b, v)'
    <3>1. count' = count /\ \A d \in Callers \ {c} : Untouched(d)
      BY <2>3, SelectionIs
    <3>2. CASE pc' = [pc EXCEPT ![c] = "select"]
      <4>1. c \notin Twice(a, b, v)' /\ c \notin Once(a, b, v)'
        BY <3>2 DEF TypeOK, Once, Twice, Scanning
      <4> QED BY <1>1, <2>2, <3>1, <4>1, OthersMayRecord, BoundedStill
    <3>3. CASE pc' = [pc EXCEPT ![c] = "choose"] /\ b \in list'[c]
      <4>1. c \notin Twice(a, b, v)' /\ c \notin Once(a, b, v)'
        BY <3>3 DEF TypeOK, Once, Twice, Scanning
      <4> QED BY <1>1, <2>2, <3>1, <4>1, OthersMayRecord, BoundedStill
    <3>4. CASE b \notin list'[c] /\ level'[b] = Highest
      BY <1>1, <1>2, <3>1, <3>4
    <3> QED BY <1>0, <2>3, <3>2, <3>3, <3>4, SelectionIs
  <2>4. ASSUME NEW c \in Callers, BeginScan(c) PROVE Bounded(a, b, v)'
    <3>1. /\ pc[c] = "choose" /\ pc'[c] = "count" /\ list' = list /\ count' = count
          /\ bestScore'[c] = NoScore /\ \A d \in Callers \ {c} : Untouched(d)
      BY <2>4, BeginIs
    <3>2. (c \in Twice(a, b, v))' => c \in Twice(a, b, v)
      BY <3>1 DEF Twice, Scanning
    <3>3. (c \in Once(a, b, v))' => c \in Once(a, b, v)
      BY <3>1, <3>2 DEF Once
    <3> QED BY <1>1, <2>2, <3>1, <3>2, <3>3, OthersMayRecord, BoundedStill
  <2>5. ASSUME NEW c \in Callers, ReadCount(c) \/ ReadLast429(c) PROVE Bounded(a, b, v)'
    <3>1. /\ UNCHANGED count /\ Scanning(c) /\ rest[c] # {} /\ rest[c] \subseteq list[c]
          /\ count[Current(c)] \in Nat /\ Compare(c, count[Current(c)])
      BY <1>0, <2>5, ReadsAre
    <3> QED BY <1>0, <2>1, <2>2, <3>1, CompareSpread
  <2>6. ASSUME NEW c \in Callers, Unsent(c) \/ Send(c) \/ Fail(c) \/ Forward(c) PROVE Bounded(a, b, v)'
    BY <1>0, <2>2, <2>6, RequestSpread
  <2>7. ASSUME UNCHANGED <<pc, list, best, bestScore>>
        PROVE  Once(a, b, v)' \subseteq Once(a, b, v) /\ Twice(a, b, v)' \subseteq Twice(a, b, v)
    BY <2>7 DEF Once, Twice, Scanning
  <2>8. CASE Elsewhere
    <3>1. UNCHANGED <<pc, list, best, bestScore>>
      BY <2>8, ElsewhereIs
    <3>2. CASE count'[a] <= count[a]
      BY <1>1, <2>2, <2>7, <3>1, <3>2, BoundedStill
    <3>3. ASSUME NEW y \in Listed, Expire(y) PROVE count'[a] <= count[a]
      BY <1>1, <3>3 DEF Expire, TypeOK
    <3>4. ASSUME NEW y \in Listed, Direct(y) PROVE count'[a] <= level'[b] \/ count'[a] <= count[a]
      BY <1>0, <1>1, <3>4, DirectIs
    <3>5. CASE Tick
      BY <1>1, <3>2, <3>5 DEF Tick, usageVars
    <3> QED BY <1>1, <2>8, <3>2, <3>3, <3>4, <3>5, BoundedAnew DEF Elsewhere
  <2>9. CASE UNCHANGED vars
    <3>1. UNCHANGED <<pc, list, best, bestScore, count>>
      BY <2>9 DEF vars, callerVars, scanVars, usageVars
    <3> QED BY <1>1, <2>2, <2>7, <3>1, BoundedStill
  <2>10. ASSUME NEW c \in Callers, selectRoundRobin(c) \/ selectByPriority(c) PROVE FALSE
    BY <1>0, <2>10 DEF selectRoundRobin, selectByPriority
  <2> QED BY <2>3, <2>4, <2>5, <2>6, <2>8, <2>9, <2>10 DEF Next, Elsewhere
<1> QED BY <1>0, <1>3, <1>4, StatsStep
-----------------------------------------------------------------------------
(* The next index, modulo the number of accounts.                          *)
LEMMA NextIndex ==
    ASSUME NEW N \in Nat \ {0}, NEW n \in Nat
    PROVE  /\ n % N \in 0 .. N - 1
           /\ (n + 1) % N = (IF n % N = N - 1 THEN 0 ELSE (n % N) + 1)
<1> DEFINE q == n \div N
           r == n % N
<1>1. q \in Nat /\ r \in 0 .. N - 1 /\ n = N * q + r
  OBVIOUS
<1> HIDE DEF q, r
<1>2. CASE r = N - 1
  <2>1. n + 1 = N * (q + 1)
    BY <1>1, <1>2
  <2> DEFINE m == q + 1
  <2>2. m \in Nat
    BY <1>1
  <2> HIDE DEF m
  <2>3. (N * m) % N = 0
    BY <2>2
  <2> QED BY <1>1, <1>2, <2>1, <2>3 DEF m, r
<1>3. CASE r # N - 1
  <2>1. n + 1 = N * q + (r + 1) /\ r + 1 \in 0 .. N - 1
    BY <1>1, <1>3
  <2>2. (N * q + (r + 1)) % N = r + 1
    BY <1>1, <2>1
  <2> QED BY <1>1, <1>3, <2>1, <2>2 DEF r
<1> QED BY <1>2, <1>3

(* The accounts of a list have different indices, in their order.          *)
LEMMA IndexIs ==
    ASSUME NEW S \in SUBSET Accounts
    PROVE  /\ Cardinality(S) \in Nat
           /\ \A a \in S : Index(a, S) \in 0 .. Cardinality(S) - 1
           /\ \A a, b \in S : a < b => Index(a, S) < Index(b, S)
           /\ \A a, b \in S : Index(a, S) = Index(b, S) => a = b
<1>1. IsFiniteSet(S) /\ Cardinality(S) \in Nat
  BY AccountSets
<1>2. ASSUME NEW a \in S
      PROVE  /\ Index(a, S) \in Nat /\ IsFiniteSet({b \in S : b < a})
             /\ Cardinality({b \in S : b < a} \cup {a}) = Index(a, S) + 1
  <2> DEFINE B == {b \in S : b < a}
  <2>1. B \in SUBSET S /\ a \notin B
    BY AccountSets
  <2>2. IsFiniteSet(B) /\ Cardinality(B) \in Nat
    BY <1>1, <2>1, FS_Subset, FS_CardinalityType
  <2>3. Cardinality(B \cup {a}) = Cardinality(B) + 1
    BY <2>1, <2>2, FS_AddElement
  <2> QED BY <2>2, <2>3 DEF Index
<1>3. ASSUME NEW a \in S PROVE Index(a, S) + 1 <= Cardinality(S)
  <2>1. {b \in S : b < a} \cup {a} \in SUBSET S
    OBVIOUS
  <2>2. Cardinality({b \in S : b < a} \cup {a}) <= Cardinality(S)
    BY <1>1, <2>1, FS_Subset
  <2> QED BY <1>2, <2>2
<1>4. ASSUME NEW a \in S, NEW b \in S, a < b PROVE Index(a, S) < Index(b, S)
  <2> DEFINE A == {x \in S : x < a} \cup {a}
             B == {x \in S : x < b}
  <2>1. A \in SUBSET B
    <3>1. a \in Nat /\ b \in Nat
      BY AccountSets
    <3>2. ASSUME NEW x \in A PROVE x \in S /\ x < b
      <4>1. x \in S /\ (x < a \/ x = a) /\ x \in Nat
        BY AccountSets
      <4> QED BY <1>4, <3>1, <4>1
    <3> QED BY <3>2
  <2>2. IsFiniteSet(B) /\ Cardinality(A) = Index(a, S) + 1 /\ Cardinality(B) = Index(b, S)
    BY <1>2 DEF Index
  <2> HIDE DEF A, B
  <2>3. Cardinality(A) <= Cardinality(B)
    BY <2>1, <2>2, FS_Subset
  <2>4. Index(a, S) \in Nat /\ Index(b, S) \in Nat
    BY <1>2
  <2> QED BY <2>2, <2>3, <2>4
<1>5. ASSUME NEW a \in S, NEW b \in S, Index(a, S) = Index(b, S) PROVE a = b
  <2>1. a \in Nat /\ b \in Nat /\ Index(a, S) \in Nat
    BY <1>2, AccountSets
  <2>2. ~(a < b)
    BY <1>4, <1>5, <2>1
  <2>3. ~(b < a)
    BY <1>4, <1>5, <2>1
  <2> QED BY <2>1, <2>2, <2>3
<1>6. ASSUME NEW a \in S PROVE Index(a, S) \in 0 .. Cardinality(S) - 1
  <2>1. Index(a, S) \in Nat /\ Index(a, S) + 1 <= Cardinality(S)
    BY <1>2, <1>3
  <2> QED BY <1>1, <2>1
<1> QED BY <1>1, <1>4, <1>5, <1>6

(* The account whose turn it is gets one more, and is the last to have had *)
(* a turn.                                                                 *)
LEMMA DealtNext ==
    ASSUME NEW S \in SUBSET Accounts, NEW f, NEW g,
           \A a \in S : f[a] \in Nat,
           NEW p \in Nat, InOrder(S, p, f),
           NEW x \in S, Index(x, S) = p,
           \A a \in S : g[a] = f[a] + (IF a = x THEN 1 ELSE 0),
           NEW p1, p1 = IF p = Cardinality(S) - 1 THEN 0 ELSE p + 1
    PROVE  InOrder(S, p1, g)
<1> SUFFICES ASSUME NEW a \in S, NEW b \in S, After(S, p1, a, b)
             PROVE  g[b] <= g[a] /\ g[a] <= g[b] + 1
  BY DEF InOrder
<1>1. /\ Index(a, S) \in Nat /\ Index(b, S) \in Nat
      /\ Cardinality(S) \in Nat /\ Index(a, S) < Cardinality(S) /\ Index(b, S) < Cardinality(S)
      /\ Index(a, S) = p <=> a = x
      /\ Index(b, S) = p <=> b = x
  BY IndexIs
<1>2. b # x
  BY <1>1 DEF After
<1>3. CASE a = x
  <2>1. After(S, p, b, x)
    BY <1>1, <1>2 DEF After
  <2>2. f[x] <= f[b] /\ f[b] <= f[x] + 1
    BY <2>1 DEF InOrder
  <2>3. g[x] = f[x] + 1 /\ g[b] = f[b] /\ f[x] \in Nat /\ f[b] \in Nat
    BY <1>2
  <2> QED BY <1>3, <2>2, <2>3
<1>4. CASE a # x
  <2>1. After(S, p, a, b)
    BY <1>1, <1>2, <1>4 DEF After
  <2>2. f[b] <= f[a] /\ f[a] <= f[b] + 1
    BY <2>1 DEF InOrder
  <2>3. g[a] = f[a] /\ g[b] = f[b] /\ f[a] \in Nat /\ f[b] \in Nat
    BY <1>2, <1>4
  <2> QED BY <2>2, <2>3
<1> QED BY <1>3, <1>4

LEMMA DealtStep == TypeOK /\ ScansAre /\ DealtInOrder /\ [Next]_vars => DealtInOrder'
<1> SUFFICES ASSUME TypeOK, ScansAre, DealtInOrder, [Next]_vars, strategy' = "round-robin", over' # {}
             PROVE  InOrder(over, rrIndex % Cardinality(over), dealt)'
  BY DEF DealtInOrder
<1>0. strategy = "round-robin"
  BY StrategyStays
<1>1. ASSUME UNCHANGED <<rrIndex, over, dealt>>
      PROVE  InOrder(over, rrIndex % Cardinality(over), dealt)'
  BY <1>0, <1>1 DEF DealtInOrder
<1>2. ASSUME NEW c \in Callers, selectRoundRobin(c)
      PROVE  InOrder(over, rrIndex % Cardinality(over), dealt)'
  <2> DEFINE S == list[c]
             N == Cardinality(S)
             f == [b \in Accounts |-> IF over = S THEN dealt[b] ELSE 0]
  <2>1. PICK x \in S :
            /\ Turn(c, x)
            /\ dealt' = [b \in Accounts |->
                             (IF over = list[c] THEN dealt[b] ELSE 0) + (IF b = x THEN 1 ELSE 0)]
    BY <1>2 DEF selectRoundRobin
  <2>2. S \in SUBSET Accounts /\ rrIndex \in Nat
    BY DEF TypeOK
  <2>3. N \in Nat \ {0}
    BY <2>1, <2>2, IndexIs
  <2>4. Index(x, S) = rrIndex % N
    BY <2>1 DEF Turn
  <2>5. rrIndex' = rrIndex + 1 /\ over' = S
    BY <1>2 DEF selectRoundRobin
  <2>6. \A a \in S : f[a] \in Nat /\ dealt'[a] = f[a] + (IF a = x THEN 1 ELSE 0)
    BY <2>1, <2>2 DEF TypeOK
  <2>7. InOrder(S, rrIndex % N, f)
    <3>1. CASE over = S
      <4>1. InOrder(S, rrIndex % N, dealt)
        BY <1>0, <2>1, <3>1 DEF DealtInOrder
      <4>2. \A a \in S : f[a] = dealt[a]
        BY <2>2, <3>1
      <4> HIDE DEF f
      <4> QED BY <4>1, <4>2 DEF InOrder
    <3>2. CASE over # S
      <4>1. \A a \in S : f[a] = 0
        BY <2>2, <3>2
      <4> HIDE DEF f
      <4> QED BY <4>1 DEF InOrder
    <3> QED BY <3>1, <3>2
  <2> HIDE DEF f, N, S
  <2>8. /\ rrIndex % N \in Nat
        /\ (rrIndex + 1) % N = IF rrIndex % N = N - 1 THEN 0 ELSE (rrIndex % N) + 1
    <3>1. /\ rrIndex % N \in 0 .. N - 1
          /\ (rrIndex + 1) % N = (IF rrIndex % N = N - 1 THEN 0 ELSE (rrIndex % N) + 1)
      BY <2>2, <2>3, NextIndex
    <3>2. \A m \in 0 .. N - 1 : m \in Nat
      BY <2>3
    <3> QED BY <3>1, <3>2
  <2>9. InOrder(S, (rrIndex + 1) % N, dealt')
    <3> DEFINE p == rrIndex % N
               p1 == (rrIndex + 1) % N
               g == dealt'
    <3>1. /\ p \in Nat /\ p1 = IF p = Cardinality(S) - 1 THEN 0 ELSE p + 1
          /\ Index(x, S) = p /\ InOrder(S, p, f) /\ x \in S
          /\ \A a \in S : f[a] \in Nat
          /\ \A a \in S : g[a] = f[a] + (IF a = x THEN 1 ELSE 0)
      BY <2>1, <2>4, <2>6, <2>7, <2>8 DEF N
    <3> HIDE DEF p, p1, g
    <3>2. InOrder(S, p1, g)
      BY <2>2, <3>1, DealtNext
    <3> QED BY <3>2 DEF p1, g
  <2> QED BY <2>5, <2>9 DEF InOrder, After, Index, N
<1>3. ASSUME NEW c \in Callers, selectByPriority(c) \/ BeginScan(c)
      PROVE  FALSE
  BY <1>0, <1>3 DEF selectByPriority, BeginScan, Scans
<1>4. ASSUME NEW c \in Callers,
             \/ SelectAccount(c) \/ ReadCount(c) \/ ReadLast429(c)
             \/ Unsent(c) \/ Send(c) \/ Fail(c) \/ Forward(c)
      PROVE  UNCHANGED <<rrIndex, over, dealt>>
  BY <1>4, SelectionIs, ReadsAre, RequestsAre
<1>5. CASE Elsewhere \/ UNCHANGED vars
  BY <1>1, <1>5, ElsewhereIs, NoneChosen
<1> QED BY <1>1, <1>2, <1>3, <1>4, <1>5 DEF Next, Elsewhere

-----------------------------------------------------------------------------
LEMMA InitInv == Init => IInv
<1> SUFFICES ASSUME Init PROVE IInv
  OBVIOUS
<1>1. TypeOK
  BY InitType
<1>2. ScansAre /\ PastThrottles /\ SettledScans /\ PassedCounts
  BY DEF Init, ScansAre, PastThrottles, SettledScans, PassedCounts, Scanning
<1>3. SpreadBounded
  <2> SUFFICES ASSUME NEW a \in Accounts, NEW b \in Accounts, NEW v \in Nat PROVE Bounded(a, b, v)
    BY DEF SpreadBounded
  <2>1. Once(a, b, v) \in SUBSET Callers /\ Twice(a, b, v) \in SUBSET Callers
    BY DEF Once, Twice
  <2>2. count[a] = 0
    BY DEF Init
  <2> QED BY <2>1, <2>2, BoundedAtFirst DEF Bounded
<1>4. DealtInOrder
  BY DEF Init, DealtInOrder
<1> QED BY <1>1, <1>2, <1>3, <1>4 DEF IInv

THEOREM Invariance == Spec => []IInv
<1>1. IInv /\ [Next]_vars => IInv'
  BY NextType, ScansStep, PastStep, SettledStep, PassedStep, SpreadStep, DealtStep DEF IInv
<1> QED BY <1>1, InitInv, PTL DEF Spec

(* The variables keep their types: scores and counts are natural numbers,  *)
(* whatever is recorded and forgotten.                                     *)
THEOREM TypeCorrect == Spec => []TypeOK
<1>1. IInv => TypeOK
  BY DEF IInv
<1> QED BY <1>1, Invariance, PTL

(* Round robin deals a list out evenly for as long as it is the same; and  *)
(* "least-used", whatever was recorded and forgotten between the questions *)
(* it asks, and whichever accounts the requests found running, keeps the   *)
(* accounts' loads within two records for each caller, from where an       *)
(* account was last out of reach.                                          *)
THEOREM LoadsClose == Spec => []LoadsStayClose
<1>1. ASSUME IInv, strategy = "round-robin", NEW a \in over, NEW b \in over
      PROVE  dealt[a] <= dealt[b] + 1
  <2> DEFINE p == rrIndex % Cardinality(over)
  <2>1. over \in SUBSET Accounts /\ dealt[a] \in Nat /\ dealt[b] \in Nat /\ rrIndex \in Nat
    BY <1>1 DEF IInv, TypeOK
  <2>2. InOrder(over, p, dealt)
    BY <1>1 DEF IInv, DealtInOrder
  <2>3. p \in Nat
    <3>1. Cardinality(over) \in Nat \ {0}
      BY <2>1, IndexIs
    <3> QED BY <2>1, <3>1, NextIndex
  <2>4. a = b \/ After(over, p, a, b) \/ After(over, p, b, a)
    <3>1. Index(a, over) \in Nat /\ Index(b, over) \in Nat /\ (Index(a, over) = Index(b, over) => a = b)
      BY <2>1, IndexIs
    <3> HIDE DEF p
    <3> QED BY <2>3, <3>1 DEF After
  <2> HIDE DEF p
  <2> QED BY <2>1, <2>2, <2>4 DEF InOrder
<1>2. ASSUME IInv, strategy = "least-used", NEW a \in Accounts, NEW b \in Accounts
      PROVE  count[a] <= count[b] + MaxSpread \/ count[a] <= level[b] + MaxSpread
  <2>1. count[a] \in Nat /\ count[b] \in Nat /\ level[b] \in Nat
    BY <1>2 DEF IInv, TypeOK
  <2>2. PICK v \in {count[b], level[b]} : count[b] <= v /\ level[b] <= v
    BY <2>1
  <2>3. v \in Nat
    BY <2>1, <2>2
  <2>4. count[a] + Cardinality(Once(a, b, v)) + Cardinality(Twice(a, b, v)) <= v + MaxSpread
    BY <1>2, <2>2, <2>3 DEF IInv, SpreadBounded, Bounded
  <2>5. Once(a, b, v) \in SUBSET Callers /\ Twice(a, b, v) \in SUBSET Callers
    BY DEF Once, Twice
  <2>6. Cardinality(Once(a, b, v)) \in Nat /\ Cardinality(Twice(a, b, v)) \in Nat /\ MaxSpread \in Nat
    BY <2>5, CallerSets
  <2>7. count[a] <= v + MaxSpread
    BY <2>1, <2>3, <2>4, <2>6
  <2> QED BY <2>2, <2>7
<1>3. IInv => LoadsStayClose
  BY <1>1, <1>2 DEF LoadsStayClose
<1> QED BY <1>3, Invariance, PTL

-----------------------------------------------------------------------------
(* The score that a settled scan finds is requests plus penalty.           *)
LEMMA ScoreIsDue ==
    ASSUME TypeOK, strategy = "smart", NEW c \in Callers, NEW a \in Accounts,
           last429[a] = Never \/ last429[a] <= start[c]
    PROVE  ScoreOf(c, a) = Due(a, start[c])
<1> DEFINE l == last429[a]
           t == start[c]
<1>1. l \in 0 .. MaxNow \cup {Never} /\ t \in 0 .. MaxNow /\ MaxNow \in Nat /\ Never \notin 0 .. MaxNow
  BY LoadBalancerAssumption DEF TypeOK, Never
<1>2. PenaltyTime \in Nat \ {0} /\ MaxPenalty \in Nat
  BY LoadBalancerAssumption
<1>3. ScoreOf(c, a) = PenaltyTime * count[a] + Penalty(l, t)
  BY DEF ScoreOf
<1>4. Due(a, t) = PenaltyTime * count[a]
          + (IF l = Never \/ t - l > PenaltyTime THEN 0 ELSE MaxPenalty * (PenaltyTime - (t - l)))
  BY DEF Due
<1>5. Penalty(l, t)
          = IF l = Never \/ t - l > PenaltyTime THEN 0 ELSE MaxPenalty * (PenaltyTime - (t - l))
  <2> HIDE DEF l, t
  <2>1. CASE l = Never
    BY <2>1 DEF Penalty
  <2>2. CASE l # Never /\ t - l > PenaltyTime
    BY <1>1, <1>2, <2>2 DEF Penalty
  <2>3. CASE l # Never /\ t - l = PenaltyTime
    <3>1. ~(t < l + PenaltyTime) /\ PenaltyTime - (t - l) = 0
      BY <1>1, <1>2, <2>3
    <3> QED BY <1>2, <2>3, <3>1 DEF Penalty
  <2>4. CASE l # Never /\ t - l < PenaltyTime
    <3>1. t < l + PenaltyTime /\ PenaltyTime + l - t = PenaltyTime - (t - l) /\ ~(t - l > PenaltyTime)
      BY <1>1, <1>2, <2>4
    <3> QED BY <2>4, <3>1 DEF Penalty
  <2> QED BY <1>1, <1>2, <2>1, <2>2, <2>3, <2>4
<1> HIDE DEF l, t
<1>6. ScoreOf(c, a) = Due(a, t)
  BY <1>3, <1>4, <1>5
<1> QED BY <1>6 DEF t

(* A settled scan that ends picks an account whose score none beats.       *)
LEMMA ScanPicksBest ==
    ASSUME TypeOK, NEW c \in Callers, BestSoFar(c), rest[c] = {Current(c)}, rest[c] \subseteq list[c],
           NEW x \in Nat, x = ScoreOf(c, Current(c)), Compare(c, x)
    PROVE  best'[c] \in list[c] /\ \A a \in list[c] : ScoreOf(c, best'[c]) <= ScoreOf(c, a)
<1>1. best'[c] = IF Better(c, x) THEN Current(c) ELSE best[c]
  BY ComparesLast DEF Pick, TypeOK
<1>2. /\ bestScore[c] # NoScore => best[c] \in Seen(c) /\ bestScore[c] = ScoreOf(c, best[c])
      /\ \A a \in Seen(c) : bestScore[c] # NoScore /\ bestScore[c] <= ScoreOf(c, a)
  BY DEF BestSoFar
<1>3. bestScore[c] \in Nat \cup {NoScore} /\ list[c] \subseteq Accounts
  BY DEF TypeOK
<1>4. \A a \in list[c] : ScoreOf(c, a) \in Nat /\ (a \in Seen(c) \/ a = Current(c))
  BY <1>3, ScoreTypes DEF Seen
<1>5. best'[c] \in list[c]
  BY <1>1, <1>2 DEF Better, Seen
<1>6. ASSUME NEW a \in list[c] PROVE ScoreOf(c, best'[c]) <= ScoreOf(c, a)
  <2>1. CASE Better(c, x)
    <3>1. ScoreOf(c, best'[c]) = x
      BY <1>1, <2>1
    <3>2. a \in Seen(c) => x < bestScore[c] /\ bestScore[c] \in Nat
      BY <1>2, <1>3, <2>1 DEF Better
    <3> QED BY <1>2, <1>4, <3>1, <3>2
  <2>2. CASE ~Better(c, x)
    <3>1. bestScore[c] \in Nat /\ ScoreOf(c, best'[c]) = bestScore[c] /\ bestScore[c] <= x
      BY <1>1, <1>2, <1>3, <2>2 DEF Better
    <3> QED BY <1>2, <1>4, <3>1
  <2> QED BY <2>1, <2>2
<1> QED BY <1>5, <1>6

Picked(c) ==
    best'[c] \in list[c] /\ \A a \in list[c] :
        /\ strategy = "priority" => priority[a] <= priority[best'[c]]
        /\ strategy = "least-used" => count[best'[c]] <= count[a]
        /\ strategy = "smart" => Due(best'[c], start[c]) <= Due(a, start[c])

LEMMA SettledPicksBest ==
    ASSUME IInv, [Next]_vars, NEW c \in Callers, pc[c] # "picked", pc'[c] = "picked", settled[c]
    PROVE  Picked(c)
<1> USE DEF IInv
<1>0. list[c] \subseteq Accounts
  BY DEF TypeOK
<1>1. ASSUME NEW d \in Callers, selectRoundRobin(d) PROVE Picked(c)
  <2>1. PICK b \in list[d] : Pick(d, b)
    BY <1>1 DEF selectRoundRobin
  <2>2. d = c
    BY <2>1, OthersGoOn DEF Untouched
  <2>3. best'[c] = b
    BY <2>1, <2>2 DEF Pick, TypeOK
  <2> QED BY <1>1, <2>1, <2>2, <2>3 DEF selectRoundRobin, Picked
<1>2. ASSUME NEW d \in Callers, selectByPriority(d) PROVE Picked(c)
  <2>1. PICK b \in list[d] :
            /\ \A e \in list[d] : IF e < b THEN priority[e] < priority[b] ELSE priority[e] <= priority[b]
            /\ Pick(d, b)
    BY <1>2 DEF selectByPriority
  <2>2. d = c
    BY <2>1, OthersGoOn DEF Untouched
  <2>3. best'[c] = b /\ strategy = "priority"
    BY <1>2, <2>1, <2>2 DEF Pick, TypeOK, selectByPriority
  <2>4. \A a \in list[c] : priority[a] \in Nat /\ priority[b] \in Nat
    BY <1>0, <2>1, <2>2, LoadBalancerAssumption DEF TypeOK
  <2> QED BY <2>1, <2>2, <2>3, <2>4 DEF Picked
<1>3. ASSUME NEW d \in Callers, ReadCount(d) \/ ReadLast429(d) PROVE Picked(c)
  <2>1. ASSUME NEW x \in Nat, Compare(d, x), x = ScoreOf(c, Current(c))
        PROVE  Picked(c)
    <3>1. d = c /\ Scans /\ rest[c] # {} /\ rest[c] \subseteq list[c] /\ Scanning(c)
      <4>1. d = c
        BY <2>1, OthersGoOn DEF Untouched
      <4> QED BY <1>3, <4>1, ReadsAre DEF ScansAre
    <3>2. rest[c] = {Current(c)}
      BY <2>1, <3>1, ComparesOn DEF TypeOK
    <3>3. BestSoFar(c)
      BY <3>1 DEF SettledScans
    <3>4. best'[c] \in list[c] /\ \A a \in list[c] : ScoreOf(c, best'[c]) <= ScoreOf(c, a)
      BY <2>1, <3>1, <3>2, <3>3, ScanPicksBest
    <3>5. CASE strategy = "least-used"
      BY <3>4, <3>5 DEF Picked, ScoreOf
    <3>6. CASE strategy = "smart"
      <4>1. \A a \in list[c] : ScoreOf(c, a) = Due(a, start[c])
        BY <1>0, <3>3, <3>6, ScoreIsDue DEF BestSoFar
      <4>2. ASSUME NEW a \in list[c] PROVE Due(best'[c], start[c]) <= Due(a, start[c])
        BY <3>4, <4>1
      <4> QED BY <3>4, <3>6, <4>2 DEF Picked
    <3> QED BY <3>1, <3>5, <3>6 DEF Scans
  <2>2. CASE strategy = "least-used" /\ count[Current(d)] \in Nat /\ Compare(d, count[Current(d)])
    <3>1. d = c
      BY <2>2, OthersGoOn DEF Untouched
    <3> QED BY <2>1, <2>2, <3>1 DEF ScoreOf
  <2>3. CASE /\ strategy = "smart" /\ pc[d] = "penalty"
             /\ score[d] + Penalty(last429[Current(d)], start[d]) \in Nat
             /\ Compare(d, score[d] + Penalty(last429[Current(d)], start[d]))
    <3>1. d = c
      BY <2>3, OthersGoOn DEF Untouched
    <3>2. score[c] = PenaltyTime * count[Current(c)]
      BY <2>3, <3>1 DEF SettledScans, BestSoFar, Scanning
    <3> QED BY <2>1, <2>3, <3>1, <3>2 DEF ScoreOf
  <2>4. CASE pc' = [pc EXCEPT ![d] = "penalty"]
    BY <2>4 DEF TypeOK
  <2> QED BY <1>3, <2>2, <2>3, <2>4, ReadsAre
<1>4. ASSUME NEW d \in Callers, SelectAccount(d) PROVE FALSE
  BY <1>4, SelectionIs DEF TypeOK
<1>5. ASSUME NEW d \in Callers, BeginScan(d) PROVE FALSE
  BY <1>5, BeginIs DEF Untouched
<1>6. ASSUME NEW d \in Callers, Unsent(d) \/ Send(d) \/ Fail(d) \/ Forward(d) PROVE FALSE
  BY <1>6, RequestsAre DEF TypeOK
<1>7. CASE Elsewhere
  BY <1>7, ElsewhereIs
<1>8. CASE UNCHANGED vars
  BY <1>8, NoneChosen DEF Untouched
<1> QED BY <1>1, <1>2, <1>3, <1>4, <1>5, <1>6, <1>7, <1>8 DEF Next, Elsewhere

(* If nothing is recorded or forgotten while it is chosen for, a request   *)
(* gets the account of its list that its strategy calls for: the highest   *)
(* priority, the fewest requests, the fewest requests and least penalty.   *)
THEOREM BestIsPicked == Spec => PicksBest
<1>1. IInv /\ [Next]_vars =>
          [\A c \in Callers :
              pc[c] # "picked" /\ pc'[c] = "picked" /\ settled[c] =>
                  best'[c] \in list[c] /\ \A a \in list[c] :
                      /\ strategy = "priority" => priority[a] <= priority[best'[c]]
                      /\ strategy = "least-used" => count[best'[c]] <= count[a]
                      /\ strategy = "smart" => Due(best'[c], start[c]) <= Due(a, start[c])]_vars
  BY SettledPicksBest DEF Picked
<1> QED BY <1>1, Invariance, PTL DEF Spec, PicksBest
=============================================================================
