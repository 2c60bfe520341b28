----------------------------- MODULE LoadBalancer -----------------------------
(***************************************************************************)
(* The strategies of the pool: SelectAccount in                            *)
(* src/instance/load_balancer.go with selectRoundRobin, selectByPriority,  *)
(* selectLeastUsed and selectSmart, over the statistics that the requests  *)
(* they send produce, and the requests' retries.                           *)
(*                                                                         *)
(* ProxyRequests.tla leaves open which of the available accounts a request *)
(* gets; here it is chosen.  "least-used" and "smart" go through the       *)
(* accounts one by one, asking package usage for each: every question is a *)
(* critical section of its own, and other requests are chosen for and      *)
(* recorded in between.                                                    *)
(*                                                                         *)
(* The accounts are numbered as the file has them.  Which are enabled and  *)
(* running is decided elsewhere (AccountFile.tla, Instances.tla), so every *)
(* selection may find other ones.  The pool's strategy and the priorities  *)
(* stay the same, and nothing is kept of what the strategy does not ask    *)
(* for.  Scores are in units of 1/PenaltyTime, which makes the code's      *)
(* floating point exact, and rrIndex stays far below 2^63.                 *)
(***************************************************************************)
EXTENDS Integers, FiniteSets, FiniteSetsExt

CONSTANTS
    Size,          \* the number of accounts
    Callers,       \* goroutines of requests
    Strategies,    \* those a run looks at
    Lists,         \* for each the sets of accounts found enabled and running
    Priorities,    \* the values of account.Priority
    MaxAttempts,   \* 3 in the code
    MaxPenalty,    \* 1000 in the code
    PenaltyTime,   \* penaltyDuration
    MaxNow,        \* bound on time
    MaxCount,      \* for each strategy a bound on the records of an account
    MaxIndex       \* bound on rrIndex

Accounts == 1 .. Size
Never == MaxNow + 1

ASSUME LoadBalancerAssumption ==
    /\ Size \in Nat \ {0}
    /\ IsFiniteSet(Callers)
    /\ Strategies \subseteq {"round-robin", "priority", "least-used", "smart"}
    /\ Lists \in [Strategies -> SUBSET (SUBSET Accounts)]
    /\ Priorities \subseteq Nat
    /\ MaxAttempts \in Nat \ {0}
    /\ MaxPenalty \in Nat \ {0}
    /\ PenaltyTime \in Nat \ {0}
    /\ MaxCount \in [Strategies -> Nat]
    /\ MaxNow \in Nat /\ MaxIndex \in Nat

VARIABLES
    strategy, priority,   \* the pool's strategy, the accounts' priorities
    now,
    rrIndex,
    count,                \* GetWindowRequestCount of each account
    last429,              \* GetLast429Time of each account
    pc,                   \* where a caller is
    exclude,              \* the accounts its request has failed with
    list,                 \* the accounts it chooses from
    rest,                 \* those it has not looked at yet
    start,                \* selectSmart's now
    score,                \* the score so far of the account it looks at
    best, bestScore,      \* bestScore = NoScore for math.MaxFloat64
    settled,              \* whether nothing was recorded and no record left since
                          \* a caller began to look (history)
    over, dealt,          \* the list last dealt from, and how often each of its
                          \* accounts was chosen in a row of such (history)
    level                 \* what an account is to catch up with first (history)

usageVars == <<count, last429>>
scanVars == <<list, rest, start, score, bestScore>>
callerVars == <<pc, exclude, scanVars, best, settled>>
history == <<over, dealt, level>>
vars == <<strategy, priority, now, rrIndex, usageVars, callerVars, history>>

NoScore == -1

TypeOK ==
    /\ strategy \in Strategies
    /\ priority \in [Accounts -> Priorities]
    /\ now \in 0 .. MaxNow
    /\ rrIndex \in Nat
    /\ count \in [Accounts -> Nat]
    /\ last429 \in [Accounts -> 0 .. MaxNow \cup {Never}]
    /\ pc \in [Callers -> {"select", "choose", "count", "penalty", "picked", "upstream"}]
    /\ exclude \in [Callers -> SUBSET Accounts]
    /\ list \in [Callers -> SUBSET Accounts]
    /\ rest \in [Callers -> SUBSET Accounts]
    /\ start \in [Callers -> 0 .. MaxNow]
    /\ score \in [Callers -> Nat]
    /\ best \in [Callers -> Accounts]
    /\ bestScore \in [Callers -> Nat \cup {NoScore}]
    /\ settled \in [Callers -> BOOLEAN]
    /\ over \in SUBSET Accounts
    /\ dealt \in [Accounts -> Nat]
    /\ level \in [Accounts -> Nat]

Init ==
    /\ strategy \in Strategies
    /\ priority \in [Accounts -> Priorities]
    /\ strategy # "priority" => \A a \in Accounts : \A p \in Priorities : priority[a] <= p
    /\ now = 0
    /\ rrIndex = 0
    /\ count = [a \in Accounts |-> 0]
    /\ last429 = [a \in Accounts |-> Never]
    /\ pc = [c \in Callers |-> "select"]
    /\ exclude = [c \in Callers |-> {}]
    /\ list = [c \in Callers |-> {}]
    /\ rest = [c \in Callers |-> {}]
    /\ start = [c \in Callers |-> 0]
    /\ score = [c \in Callers |-> 0]
    /\ best = [c \in Callers |-> 1]
    /\ bestScore = [c \in Callers |-> NoScore]
    /\ settled = [c \in Callers |-> TRUE]
    /\ over = {}
    /\ dealt = [a \in Accounts |-> 0]
    /\ level = [a \in Accounts |-> 0]

-----------------------------------------------------------------------------
(* The statistics: see UsageWindow.tla.                                    *)

\* The strategies that ask for statistics.
Scans == strategy \in {"least-used", "smart"}

Scanning(c) == pc[c] \in {"count", "penalty"}

\* What the callers that are choosing have read may be out of date.
Disturbed == settled' = [c \in Callers |-> ~Scanning(c)]

RecordRequest(a, is429) ==
    /\ Scans => count[a] < MaxCount[strategy]
    /\ count' = [count EXCEPT ![a] = IF Scans THEN @ + 1 ELSE @]
    /\ last429' = [last429 EXCEPT ![a] = IF is429 /\ strategy = "smart" THEN now ELSE @]
    /\ Disturbed

\* The highest count that an account has, or that is the lowest so far of a
\* caller.
Highest ==
    Max({count[a] : a \in Accounts}
            \cup {bestScore[c] : c \in {d \in Callers : Scanning(d) /\ bestScore[d] # NoScore}})

\* The accounts S have been out of reach for the pool.
Missed(S) ==
    level' = [a \in Accounts |-> IF strategy = "least-used" /\ a \in S THEN Highest ELSE level[a]]

-----------------------------------------------------------------------------
(* SelectAccount                                                           *)

\* The loop over the attempts is left: the request is answered.
End(c) ==
    /\ pc' = [pc EXCEPT ![c] = "select"]
    /\ exclude' = [exclude EXCEPT ![c] = {}]
    /\ best' = [best EXCEPT ![c] = 1]

(* The accounts that are enabled, running and not excluded; or none: 503.  *)
SelectAccount(c) ==
    /\ pc[c] = "select"
    /\ \E S \in Lists[strategy] :
          LET available == S \ exclude[c] IN
          IF available = {}
            THEN End(c) /\ UNCHANGED <<list, level>>
            ELSE /\ pc' = [pc EXCEPT ![c] = "choose"]
                 /\ list' = [list EXCEPT ![c] = available]
                 /\ Missed(Accounts \ available)
                 /\ UNCHANGED <<exclude, best>>
    /\ UNCHANGED <<strategy, priority, now, rrIndex, usageVars, rest, start, score, bestScore,
                   settled, over, dealt>>

Pick(c, a) ==
    /\ pc' = [pc EXCEPT ![c] = "picked"]
    /\ best' = [best EXCEPT ![c] = a]
    /\ list' = [list EXCEPT ![c] = {}]
    /\ rest' = [rest EXCEPT ![c] = {}]
    /\ start' = [start EXCEPT ![c] = 0]
    /\ score' = [score EXCEPT ![c] = 0]
    /\ bestScore' = [bestScore EXCEPT ![c] = NoScore]
    /\ settled' = [settled EXCEPT ![c] = TRUE]
    /\ UNCHANGED exclude

\* The index of account a in the list S.
Index(a, S) == Cardinality({b \in S : b < a})

\* Mutant: the remainder is that of all the accounts.
Turn_OfAll(c, a) == Index(a, list[c]) = (rrIndex % Size) % Cardinality(list[c])

Turn(c, a) == Index(a, list[c]) = rrIndex % Cardinality(list[c])

(* rrIndex is an atomic: the next index is taken in one step.              *)
selectRoundRobin(c) ==
    /\ pc[c] = "choose" /\ strategy = "round-robin"
    /\ rrIndex < MaxIndex
    /\ rrIndex' = rrIndex + 1
    /\ \E a \in list[c] :
          /\ Turn(c, a)
          /\ Pick(c, a)
          /\ dealt' = [b \in Accounts |->
                           (IF over = list[c] THEN dealt[b] ELSE 0) + (IF b = a THEN 1 ELSE 0)]
    /\ over' = list[c]
    /\ UNCHANGED <<strategy, priority, now, usageVars, level>>

(* The first account whose priority is the highest.                        *)
selectByPriority(c) ==
    /\ pc[c] = "choose" /\ strategy = "priority"
    /\ \E a \in list[c] :
          /\ \A b \in list[c] : IF b < a THEN priority[b] < priority[a] ELSE priority[b] <= priority[a]
          /\ Pick(c, a)
    /\ UNCHANGED <<strategy, priority, now, rrIndex, usageVars, history>>

(* selectLeastUsed and selectSmart begin; the latter reads the clock.      *)
BeginScan(c) ==
    /\ pc[c] = "choose" /\ Scans
    /\ pc' = [pc EXCEPT ![c] = "count"]
    /\ rest' = [rest EXCEPT ![c] = list[c]]
    /\ start' = [start EXCEPT ![c] = IF strategy = "smart" THEN now ELSE 0]
    /\ UNCHANGED <<strategy, priority, now, rrIndex, usageVars, exclude, list, score, best,
                   bestScore, settled, history>>

\* The account a caller looks at.
Current(c) == Min(rest[c])

\* Mutant: the first of the accounts is never replaced.
Better_First(c, s) == bestScore[c] = NoScore

Better(c, s) == bestScore[c] = NoScore \/ s < bestScore[c]

(* The current account has score s: the end of an iteration of the loop.   *)
Compare(c, s) ==
    LET b == IF Better(c, s) THEN Current(c) ELSE best[c]
    IN  IF rest[c] = {Current(c)} THEN Pick(c, b)
        ELSE /\ pc' = [pc EXCEPT ![c] = "count"]
             /\ rest' = [rest EXCEPT ![c] = @ \ {Current(c)}]
             /\ best' = [best EXCEPT ![c] = b]
             /\ bestScore' = [bestScore EXCEPT ![c] = IF Better(c, s) THEN s ELSE @]
             /\ score' = [score EXCEPT ![c] = 0]
             /\ UNCHANGED <<exclude, list, start, settled>>

(* GetWindowRequestCount of the current account.                           *)
ReadCount(c) ==
    /\ pc[c] = "count"
    /\ IF strategy = "least-used"
         THEN Compare(c, count[Current(c)])
         ELSE /\ pc' = [pc EXCEPT ![c] = "penalty"]
              /\ score' = [score EXCEPT ![c] = PenaltyTime * count[Current(c)]]
              /\ UNCHANGED <<exclude, list, rest, start, best, bestScore, settled>>
    /\ UNCHANGED <<strategy, priority, now, rrIndex, usageVars, history>>

\* Mutant: the penalty grows with time.
Penalty_Grows(last, t) ==
    IF last # Never /\ last <= t /\ t < last + PenaltyTime THEN MaxPenalty * (t - last) ELSE 0

(* Full right after the 429, none after PenaltyTime; and more than full for*)
(* a 429 that was recorded after the clock was read.                       *)
Penalty(last, t) ==
    IF last # Never /\ t < last + PenaltyTime THEN MaxPenalty * (PenaltyTime + last - t) ELSE 0

(* GetLast429Time of the current account.                                  *)
ReadLast429(c) ==
    /\ pc[c] = "penalty"
    /\ Compare(c, score[c] + Penalty(last429[Current(c)], start[c]))
    /\ UNCHANGED <<strategy, priority, now, rrIndex, usageVars, history>>

-----------------------------------------------------------------------------
(* The request that was chosen for: see ProxyRequests.tla.                 *)

(* It is not sent: the limiter refuses it, the instance has stopped, or the*)
(* handler answers by itself.                                              *)
Unsent(c) ==
    /\ pc[c] = "picked"
    /\ End(c)
    /\ UNCHANGED <<strategy, priority, now, rrIndex, usageVars, scanVars, settled, history>>

(* RecordRequest before the request is sent ...                            *)
Send(c) ==
    /\ pc[c] = "picked"
    /\ RecordRequest(best[c], FALSE)
    /\ pc' = [pc EXCEPT ![c] = "upstream"]
    /\ UNCHANGED <<strategy, priority, now, rrIndex, exclude, scanVars, best, history>>

LastAttempt(c) == Cardinality(exclude[c]) + 1 = MaxAttempts

(* ... and again if it failed: a 429 or 5xx of an attempt that is not the  *)
(* last, and every error of the transport.                                 *)
Fail(c) ==
    /\ pc[c] = "upstream"
    /\ \E is429 \in BOOLEAN :
          /\ is429 => ~LastAttempt(c)
          /\ RecordRequest(best[c], is429)
    /\ IF LastAttempt(c)
         THEN End(c)
         ELSE /\ pc' = [pc EXCEPT ![c] = "select"]
              /\ exclude' = [exclude EXCEPT ![c] = @ \cup {best[c]}]
              /\ best' = [best EXCEPT ![c] = 1]
    /\ UNCHANGED <<strategy, priority, now, rrIndex, scanVars, history>>

(* The answer is forwarded: not retryable, or that of the last attempt.    *)
Forward(c) ==
    /\ pc[c] = "upstream"
    /\ End(c)
    /\ UNCHANGED <<strategy, priority, now, rrIndex, usageVars, scanVars, settled, history>>

-----------------------------------------------------------------------------
(* Everything else                                                         *)

\* The accounts a run lists.
Listed == UNION Lists[strategy]

(* A record of account a leaves the window: trimLocked.                    *)
Expire(a) ==
    /\ count[a] > 0
    /\ count' = [count EXCEPT ![a] = @ - 1]
    /\ Disturbed
    /\ Missed({a})
    /\ UNCHANGED <<strategy, priority, now, rrIndex, last429, pc, exclude, scanVars, best, over, dealt>>

(* A request with account a's own key, which no strategy chooses for.      *)
Direct(a) ==
    /\ Scans
    /\ RecordRequest(a, FALSE)
    /\ level' = [b \in Accounts |->
                     IF strategy = "least-used" THEN Max({level[b], count[a] + 1}) ELSE level[b]]
    /\ UNCHANGED <<strategy, priority, now, rrIndex, pc, exclude, scanVars, best, over, dealt>>

\* Only selectSmart looks at the clock.
Tick ==
    /\ strategy = "smart"
    /\ now < MaxNow
    /\ now' = now + 1
    /\ UNCHANGED <<strategy, priority, rrIndex, usageVars, callerVars, history>>

Next ==
    \/ \E c \in Callers :
          \/ SelectAccount(c) \/ selectRoundRobin(c) \/ selectByPriority(c)
          \/ BeginScan(c) \/ ReadCount(c) \/ ReadLast429(c)
          \/ Unsent(c) \/ Send(c) \/ Fail(c) \/ Forward(c)
    \/ \E a \in Listed : Expire(a) \/ Direct(a)
    \/ Tick

Spec == Init /\ [][Next]_vars

-----------------------------------------------------------------------------
(* Properties *)

\* Requests plus penalty, which is MaxPenalty for a 429 just now and less by
\* the same amount with every unit of time.
Due(a, t) ==
    LET since == t - last429[a] IN
    PenaltyTime * count[a]
        + (IF last429[a] = Never \/ since > PenaltyTime THEN 0 ELSE MaxPenalty * (PenaltyTime - since))

(* If nothing is recorded and no record leaves the window while it is      *)
(* chosen for, the account a request gets is one of its list that none     *)
(* beats: in priority, in requests ("the fewest requests in the current    *)
(* window"), or in requests plus penalty.                                  *)
PicksBest ==
    [][\A c \in Callers :
          pc[c] # "picked" /\ pc'[c] = "picked" /\ settled[c] =>
              best'[c] \in list[c] /\ \A a \in list[c] :
                  /\ strategy = "priority" => priority[a] <= priority[best'[c]]
                  /\ strategy = "least-used" => count[best'[c]] <= count[a]
                  /\ strategy = "smart" => Due(best'[c], start[c]) <= Due(a, start[c])]_vars

\* Two records for each caller.
MaxSpread == 2 * Cardinality(Callers)

(* However requests interleave, fail and are tried again, the pool keeps   *)
(* the accounts' loads close, however many requests there were.  Round     *)
(* robin deals out evenly for as long as it finds the same accounts.  And  *)
(* though "least-used" compares counts read at different times, no account *)
(* gets ahead of another by more than a bound that the number of callers   *)
(* sets; not counting the lead there was when the other was last out of    *)
(* reach (it was not available to some request, or lost a record), or that *)
(* requests with an account's own key make.                                *)
LoadsStayClose ==
    /\ strategy = "round-robin" => \A a, b \in over : dealt[a] <= dealt[b] + 1
    /\ strategy = "least-used" =>
          \A a, b \in Accounts :
              count[a] <= count[b] + MaxSpread \/ count[a] <= level[b] + MaxSpread
=============================================================================
