----------------------------- MODULE UsageWindow -----------------------------
(***************************************************************************)
(* The usage statistics of one account: src/instance/usage.go.             *)
(*                                                                         *)
(* RecordRequest finds or creates the account's AccountUsage, reads the    *)
(* clock, and only then takes u.mu to append a record and to trim those    *)
(* that have left the window.  The counts trim and count with u.mu held;   *)
(* GetAllUsageSnapshots reads the clock before it takes u.mu.              *)
(*                                                                         *)
(* u.records = u.records[i:] moves the start of a slice: `records` is what *)
(* was appended and `first` where the slice starts.                        *)
(***************************************************************************)
EXTENDS Naturals, Sequences, FiniteSets

CONSTANTS
    Callers,      \* goroutines that may be inside package instance
    Objects,      \* identities of AccountUsage objects
    NoUsage,
    Window,       \* usageWindowDuration
    MaxNow,       \* bound on time
    MaxRecords    \* bound on the records of an object

ASSUME UsageWindowAssumption ==
    /\ NoUsage \notin Objects
    /\ Window \in Nat
    /\ MaxNow \in Nat
    /\ MaxRecords \in Nat

VARIABLES
    now,
    usage,        \* usageMap[accountID]: an object or NoUsage
    records, first, last429,    \* of each object
    pc,           \* where a caller is
    u,            \* the object it has found or created
    at,           \* the time it has read
    result        \* the counts it got

objectVars == <<records, first, last429>>
callerVars == <<pc, u, at, result>>
vars == <<now, usage, objectVars, callerVars>>

Times == 0 .. MaxNow
Never == MaxNow + 1     \* the zero time of last429
Record == [at : Times, failed : BOOLEAN]
Counts == [total : Nat, failed : Nat]
Zero == [total |-> 0, failed |-> 0]

TypeOK ==
    /\ now \in Times
    /\ usage \in Objects \cup {NoUsage}
    /\ records \in [Objects -> Seq(Record)]
    /\ first \in [Objects -> Nat \ {0}]
    /\ \A o \in Objects : first[o] <= Len(records[o]) + 1
    /\ last429 \in [Objects -> Times \cup {Never}]
    /\ pc \in [Callers -> {"idle", "create", "stamp", "append", "snapshot", "counted"}]
    /\ u \in [Callers -> Objects \cup {NoUsage}]
    /\ at \in [Callers -> Times]
    /\ \A c \in Callers : at[c] <= now
    /\ result \in [Callers -> Counts]

Init ==
    /\ now = 0
    /\ usage = NoUsage
    /\ records = [o \in Objects |-> << >>]
    /\ first = [o \in Objects |-> 1]
    /\ last429 = [o \in Objects |-> Never]
    /\ pc = [c \in Callers |-> "idle"]
    /\ u = [c \in Callers |-> NoUsage]
    /\ at = [c \in Callers |-> 0]
    /\ result = [c \in Callers |-> Zero]

-----------------------------------------------------------------------------
\* r.At.Before(cutoff)
Old(r, t) == r.at + Window < t

(* trimLocked: where the slice s[f:] starts after a trim at time t, which  *)
(* stops at the first record that is not old.                              *)
trimLocked(s, f, t) ==
    CHOOSE i \in f .. Len(s) + 1 :
        /\ \A j \in f .. i - 1 : Old(s[j], t)
        /\ i <= Len(s) => ~Old(s[i], t)

\* The records from the i-th of s on.
CountFrom(s, i) ==
    [total |-> Cardinality(i .. Len(s)), failed |-> Cardinality({j \in i .. Len(s) : s[j].failed})]

Goto(c, l) == pc' = [pc EXCEPT ![c] = l]

-----------------------------------------------------------------------------
(* RecordRequest *)

(* getOrCreateUsage with the read lock ...                                 *)
Find(c) ==
    /\ pc[c] = "idle"
    /\ IF usage # NoUsage
         THEN Goto(c, "stamp") /\ u' = [u EXCEPT ![c] = usage]
         ELSE Goto(c, "create") /\ UNCHANGED u
    /\ UNCHANGED <<now, usage, objectVars, at, result>>

(* Mutant: no second look.                                                 *)
Create_Unchecked(c, o) ==
    /\ pc[c] = "create"
    /\ o # usage /\ records[o] = << >>
    /\ usage' = o
    /\ u' = [u EXCEPT ![c] = o]
    /\ Goto(c, "stamp")
    /\ UNCHANGED <<now, objectVars, at, result>>

(* ... and with the write lock, "double-check after acquiring write lock". *)
Create(c, o) ==
    /\ pc[c] = "create"
    /\ IF usage # NoUsage THEN o = usage ELSE records[o] = << >>
    /\ usage' = o
    /\ u' = [u EXCEPT ![c] = o]
    /\ Goto(c, "stamp")
    /\ UNCHANGED <<now, objectVars, at, result>>

(* now := time.Now()                                                       *)
Stamp(c) ==
    /\ pc[c] = "stamp"
    /\ at' = [at EXCEPT ![c] = now]
    /\ Goto(c, "append")
    /\ UNCHANGED <<now, usage, objectVars, u, result>>

(* The critical section of u.mu.                                           *)
AppendRecord(c, failed, is429) ==
    LET o == u[c]
        s == Append(records[o], [at |-> at[c], failed |-> failed])
    IN  /\ pc[c] = "append"
        /\ Len(records[o]) < MaxRecords
        /\ records' = [records EXCEPT ![o] = s]
        /\ last429' = [last429 EXCEPT ![o] = IF is429 THEN at[c] ELSE @]
        /\ first' = [first EXCEPT ![o] = trimLocked(s, first[o], at[c])]
        /\ Goto(c, "idle")
        /\ u' = [u EXCEPT ![c] = NoUsage]
        /\ at' = [at EXCEPT ![c] = 0]
        /\ UNCHANGED <<now, usage, result>>

-----------------------------------------------------------------------------
(* The counts *)

(* Trims o as of time t and counts what is left.                           *)
TrimAndCount(c, o, t) ==
    LET i == trimLocked(records[o], first[o], t)
    IN  /\ first' = [first EXCEPT ![o] = i]
        /\ result' = [result EXCEPT ![c] = CountFrom(records[o], i)]

(* Mutant: nothing is trimmed before the count.                            *)
CountWindow_Untrimmed(c) ==
    /\ pc[c] = "idle"
    /\ usage # NoUsage
    /\ result' = [result EXCEPT ![c] = CountFrom(records[usage], first[usage])]
    /\ Goto(c, "counted")
    /\ UNCHANGED <<now, usage, records, first, last429, u, at>>

(* GetUsageSnapshot and GetWindowRequestCount: the clock is read with u.mu *)
(* held.  Without an object the counts are zero, and nothing happens.      *)
CountWindow(c) ==
    /\ pc[c] = "idle"
    /\ usage # NoUsage
    /\ TrimAndCount(c, usage, now)
    /\ Goto(c, "counted")
    /\ UNCHANGED <<now, usage, records, last429, u, at>>

(* GetAllUsageSnapshots reads the clock, then goes from object to object.  *)
AllSnapshots(c) ==
    /\ pc[c] = "idle"
    /\ usage # NoUsage
    /\ at' = [at EXCEPT ![c] = now]
    /\ Goto(c, "snapshot")
    /\ UNCHANGED <<now, usage, objectVars, u, result>>

SnapshotOne(c) ==
    /\ pc[c] = "snapshot"
    /\ TrimAndCount(c, usage, at[c])
    /\ at' = [at EXCEPT ![c] = 0]
    /\ Goto(c, "counted")
    /\ UNCHANGED <<now, usage, records, last429, u>>

Return(c) ==
    /\ pc[c] = "counted"
    /\ result' = [result EXCEPT ![c] = Zero]
    /\ Goto(c, "idle")
    /\ UNCHANGED <<now, usage, objectVars, u, at>>

Tick ==
    /\ now < MaxNow
    /\ now' = now + 1
    /\ UNCHANGED <<usage, objectVars, callerVars>>

(* A 429 is recorded as a failure.                                         *)
RecordRequest(c) ==
    \E failed, is429 \in BOOLEAN : (is429 => failed) /\ AppendRecord(c, failed, is429)

Next ==
    \/ \E c \in Callers :
          \/ Find(c) \/ Stamp(c) \/ RecordRequest(c)
          \/ \E o \in Objects : Create(c, o)
          \/ CountWindow(c) \/ AllSnapshots(c) \/ SnapshotOne(c) \/ Return(c)
    \/ Tick

Spec == Init /\ [][Next]_vars

-----------------------------------------------------------------------------
(* Properties *)

(* No record that is still in the window is ever left out of the counts: it*)
(* went to the account's object, and only old records are trimmed.         *)
NothingIsForgotten ==
    \A o \in Objects :
        /\ o # usage => records[o] = << >>
        /\ \A i \in 1 .. first[o] - 1 : records[o][i].at + Window < now

(* "the number of requests in the current window" (usage.go:136): if the   *)
(* records of an account are in the order of their times, a count is that  *)
(* of all that are not old, whoever trimmed before and as of when.         *)
InWindow(o) == {i \in 1 .. Len(records[o]) : records[o][i].at + Window >= now}

CountIsExact(c) ==
    pc[c] = "idle" /\ pc'[c] = "counted" =>
        result'[c] = [total |-> Cardinality(InWindow(usage)),
                      failed |-> Cardinality({i \in InWindow(usage) : records[usage][i].failed})]

InOrder(s) == \A i, j \in 1 .. Len(s) : i < j => s[i].at <= s[j].at

CountsTheWindow ==
    [][\A c \in Callers : (usage # NoUsage /\ InOrder(records[usage])) => CountIsExact(c)]_vars

-----------------------------------------------------------------------------
(* What is said of the window, and does not hold of callers that append out*)
(* of order (the README has the counterexamples).                          *)

(* The trim stops at the first record that is not old, so an old one behind*)
(* it is counted.                                                          *)
AlwaysCountsTheWindow == [][\A c \in Callers : CountIsExact(c)]_vars

(* "GetLast429Time returns the last time a 429 was recorded" (usage.go:152)*)
(* and a later call does not return an earlier time.                       *)
Last429GoesForward ==
    [][\A o \in Objects :
          last429[o] # Never => last429'[o] # Never /\ last429'[o] >= last429[o]]_vars
=============================================================================
