------------------------- MODULE UsageWindowProofs -------------------------
(***************************************************************************)
(* Proofs about UsageWindow.tla, for any number of callers, any window and *)
(* any interleaving of records, trims and counts.                          *)
(***************************************************************************)
EXTENDS UsageWindow, Integers, FiniteSetTheorems, WellFoundedInduction, TLAPS

(* A caller that is recording has found the account's object, and it is the*)
(* only one that was ever filled: the inductive form of NothingIsForgotten.*)
FoundTheObject ==
    \A c \in Callers :
        /\ pc[c] \in {"stamp", "append"} => usage # NoUsage /\ u[c] = usage
        /\ pc[c] = "snapshot" => usage # NoUsage

IInv == TypeOK /\ FoundTheObject /\ NothingIsForgotten

-----------------------------------------------------------------------------
(* Every set of naturals that is not empty has a least member.             *)
LEMMA NatLeast == \A T \in SUBSET Nat : T # {} => \E x \in T : \A y \in T : x <= y
<1> SUFFICES ASSUME NEW T \in SUBSET Nat, T # {} PROVE \E x \in T : \A y \in T : x <= y
  OBVIOUS
<1> DEFINE U == {1 .. n : n \in T}
<1>1. U \subseteq FiniteSubsetsOf(Nat) /\ U # {}
  <2>1. ASSUME NEW n \in T PROVE 1 .. n \in FiniteSubsetsOf(Nat)
    <3>1. IsFiniteSet(1 .. n)
      BY FS_Interval
    <3> QED BY <3>1 DEF FiniteSubsetsOf
  <2> QED BY <2>1
<1>2. PICK X \in U : \A Y \in U : ~(<<Y, X>> \in StrictSubsetOrdering(Nat))
  BY <1>1, FS_StrictSubsetOrderingWellFounded, WFMin
<1>3. PICK x \in T : X = 1 .. x
  OBVIOUS
<1>4. ASSUME NEW y \in T PROVE x <= y
  <2>1. ~(<<1 .. y, 1 .. x>> \in StrictSubsetOrdering(Nat))
    BY <1>2, <1>3
  <2>2. y < x => 1 .. y \subseteq 1 .. x /\ 1 .. y # 1 .. x
    <3>1. ASSUME y < x PROVE x \in 1 .. x /\ x \notin 1 .. y
      BY <3>1
    <3> QED BY <3>1
  <2> QED BY <2>1, <2>2 DEF StrictSubsetOrdering
<1> QED BY <1>4

(* A record has a time.                                                    *)
LEMMA RecordHasTime ==
    ASSUME NEW s \in Seq(Record), NEW j \in 1 .. Len(s)
    PROVE  s[j].at \in Nat
<1>1. s[j] \in Record
  OBVIOUS
<1> QED BY <1>1, UsageWindowAssumption DEF Record, Times

(* A trim moves the start of the slice over old records only, to one that  *)
(* is not old or to the end.                                               *)
LEMMA TrimStops ==
    ASSUME NEW s \in Seq(Record), NEW f \in 1 .. Len(s) + 1, NEW t \in Nat
    PROVE  LET k == trimLocked(s, f, t)
           IN  /\ k \in f .. Len(s) + 1
               /\ \A j \in f .. k - 1 : Old(s[j], t)
               /\ k <= Len(s) => ~Old(s[k], t)
<1> DEFINE Stops(k) == /\ \A j \in f .. k - 1 : Old(s[j], t)
                       /\ k <= Len(s) => ~Old(s[k], t)
           Young == {k \in f .. Len(s) : ~Old(s[k], t)}
<1>1. CASE Young = {}
  <2>1. Stops(Len(s) + 1)
    BY <1>1
  <2> QED BY <2>1 DEF trimLocked
<1>2. CASE Young # {}
  <2>1. PICK k \in Young : \A y \in Young : k <= y
    <3>1. Young \in SUBSET Nat
      OBVIOUS
    <3> HIDE DEF Young
    <3> QED BY <3>1, <1>2, NatLeast
  <2>2. Stops(k)
    <3>1. ASSUME NEW j \in f .. k - 1, ~Old(s[j], t) PROVE FALSE
      <4>1. j \in Young /\ j < k
        BY <3>1, <2>1
      <4> QED BY <4>1, <2>1
    <3> QED BY <3>1, <2>1
  <2> QED BY <2>1, <2>2 DEF trimLocked
<1> QED BY <1>1, <1>2

(* What is counted are numbers.                                            *)
LEMMA CountFromType ==
    ASSUME NEW s \in Seq(Record), NEW k \in Nat
    PROVE  CountFrom(s, k) \in Counts
<1> DEFINE Failed == {j \in k .. Len(s) : s[j].failed}
<1>1. IsFiniteSet(k .. Len(s))
  BY FS_Interval
<1>2. IsFiniteSet(Failed)
  BY <1>1, FS_Subset
<1> HIDE DEF Failed
<1>3. Cardinality(k .. Len(s)) \in Nat /\ Cardinality(Failed) \in Nat
  BY <1>1, <1>2, FS_CardinalityType
<1> QED BY <1>3 DEF CountFrom, Counts, Failed

-----------------------------------------------------------------------------
(* Appending a record and trimming: the object stays well formed, the end  *)
(* of the slice within the records, and what is left out of it is old.     *)
LEMMA AppendedObject ==
    ASSUME TypeOK, NothingIsForgotten, FoundTheObject,
           NEW c \in Callers, NEW failed \in BOOLEAN, NEW is429 \in BOOLEAN,
           AppendRecord(c, failed, is429)
    PROVE  /\ usage \in Objects /\ u[c] = usage
           /\ records'[usage] \in Seq(Record)
           /\ first'[usage] \in 1 .. Len(records'[usage]) + 1
           /\ \A j \in 1 .. first'[usage] - 1 : records'[usage][j].at + Window < now
<1> DEFINE s == Append(records[usage], [at |-> at[c], failed |-> failed])
           k == trimLocked(s, first[usage], at[c])
<1> USE UsageWindowAssumption
<1>1. usage \in Objects /\ u[c] = usage
  BY DEF AppendRecord, FoundTheObject, TypeOK
<1>2. records[usage] \in Seq(Record) /\ [at |-> at[c], failed |-> failed] \in Record
  BY <1>1 DEF TypeOK, Record
<1>3. s \in Seq(Record) /\ Len(s) = Len(records[usage]) + 1
  BY <1>2
<1>4. first[usage] \in 1 .. Len(s) + 1 /\ first[usage] <= Len(records[usage]) + 1
  BY <1>1, <1>2, <1>3 DEF TypeOK
<1>5. at[c] \in Nat /\ now \in Nat /\ at[c] <= now
  BY DEF TypeOK, Times
<1>6. /\ k \in first[usage] .. Len(s) + 1
      /\ \A j \in first[usage] .. k - 1 : Old(s[j], at[c])
  <2> HIDE DEF s
  <2> QED BY <1>3, <1>4, <1>5, TrimStops
<1>7. records'[usage] = s /\ first'[usage] = k
  BY <1>1 DEF AppendRecord, TypeOK
<1>8. ASSUME NEW j \in 1 .. k - 1 PROVE s[j].at + Window < now
  <2>1. CASE j < first[usage]
    <3>1. j \in 1 .. Len(records[usage])
      BY <2>1, <1>2, <1>4
    <3>2. s[j] = records[usage][j]
      BY <3>1, <1>2
    <3>3. j \in 1 .. first[usage] - 1
      BY <2>1, <1>4
    <3> QED BY <3>2, <3>3, <1>1 DEF NothingIsForgotten
  <2>2. CASE j >= first[usage]
    <3>1. j \in first[usage] .. k - 1 /\ j \in 1 .. Len(s)
      BY <2>2, <1>3, <1>4, <1>6
    <3>2. s[j].at \in Nat
      <4> HIDE DEF s
      <4> QED BY <3>1, <1>3, RecordHasTime
    <3>3. s[j].at + Window < at[c]
      BY <3>1, <1>6 DEF Old
    <3> HIDE DEF s
    <3> QED BY <3>2, <3>3, <1>5
  <2>3. j < first[usage] \/ j >= first[usage]
    BY <1>4
  <2> QED BY <2>1, <2>2, <2>3
<1> HIDE DEF s, k
<1> QED BY <1>1, <1>3, <1>4, <1>6, <1>7, <1>8

(* Trimming before a count, as of a time that is not later than now.       *)
LEMMA TrimmedObject ==
    ASSUME TypeOK, NothingIsForgotten, usage \in Objects,
           NEW t \in Nat, t <= now
    PROVE  LET k == trimLocked(records[usage], first[usage], t)
           IN  /\ k \in 1 .. Len(records[usage]) + 1
               /\ k <= Len(records[usage]) => ~Old(records[usage][k], t)
               /\ \A j \in 1 .. k - 1 : records[usage][j].at + Window < now
<1> DEFINE s == records[usage]
           k == trimLocked(s, first[usage], t)
<1> USE UsageWindowAssumption
<1>1. s \in Seq(Record) /\ first[usage] \in 1 .. Len(s) + 1 /\ now \in Nat
  BY DEF TypeOK, Times
<1>2. /\ k \in first[usage] .. Len(s) + 1
      /\ \A j \in first[usage] .. k - 1 : Old(s[j], t)
      /\ k <= Len(s) => ~Old(s[k], t)
  BY <1>1, TrimStops
<1>3. ASSUME NEW j \in 1 .. k - 1 PROVE s[j].at + Window < now
  <2>1. CASE j < first[usage]
    BY <2>1, <1>1 DEF NothingIsForgotten
  <2>2. CASE j >= first[usage]
    <3>1. j \in first[usage] .. k - 1 /\ j \in 1 .. Len(s)
      BY <2>2, <1>1, <1>2
    <3>2. s[j].at \in Nat
      <4> HIDE DEF s
      <4> QED BY <3>1, <1>1, RecordHasTime
    <3>3. s[j].at + Window < t
      BY <3>1, <1>2 DEF Old
    <3> HIDE DEF s
    <3> QED BY <3>2, <3>3, <1>1
  <2>3. j < first[usage] \/ j >= first[usage]
    BY <1>1
  <2> QED BY <2>1, <2>2, <2>3
<1> QED BY <1>1, <1>2, <1>3
-----------------------------------------------------------------------------
LEMMA InitInv == Init => IInv
<1> USE UsageWindowAssumption
<1> SUFFICES ASSUME Init PROVE IInv
  OBVIOUS
<1>1. TypeOK
  BY DEF Init, TypeOK, Times, Never, Record, Counts, Zero
<1>2. FoundTheObject /\ NothingIsForgotten
  BY DEF Init, FoundTheObject, NothingIsForgotten
<1> QED BY <1>1, <1>2 DEF IInv

(* What every step of a caller but its record and its counts leaves alone. *)
LEMMA OtherSteps ==
    ASSUME IInv, NEW c \in Callers,
           \/ Find(c) \/ Stamp(c) \/ AllSnapshots(c) \/ Return(c)
           \/ \E o \in Objects : Create(c, o)
    PROVE  IInv'
<1> USE UsageWindowAssumption DEF IInv
<1>1. TypeOK'
  <2>1. CASE Find(c)
    BY <2>1 DEF TypeOK, Find, Goto, objectVars
  <2>2. ASSUME NEW o \in Objects, Create(c, o) PROVE TypeOK'
    BY <2>2 DEF TypeOK, Create, Goto, objectVars
  <2>3. CASE Stamp(c)
    BY <2>3 DEF TypeOK, Stamp, Goto, objectVars, Times
  <2>4. CASE AllSnapshots(c)
    BY <2>4 DEF TypeOK, AllSnapshots, Goto, objectVars, Times
  <2>5. CASE Return(c)
    BY <2>5 DEF TypeOK, Return, Goto, objectVars, Counts, Zero
  <2> QED BY <2>1, <2>2, <2>3, <2>4, <2>5
<1>2. FoundTheObject'
  BY DEF FoundTheObject, TypeOK, Find, Create, Stamp, AllSnapshots, Return, Goto
<1>3. NothingIsForgotten'
  <2>1. ASSUME NEW o \in Objects, Create(c, o) PROVE NothingIsForgotten'
    BY <2>1 DEF NothingIsForgotten, Create, objectVars
  <2>2. CASE Find(c) \/ Stamp(c) \/ AllSnapshots(c) \/ Return(c)
    BY <2>2 DEF NothingIsForgotten, Find, Stamp, AllSnapshots, Return, objectVars
  <2> QED BY <2>1, <2>2
<1> QED BY <1>1, <1>2, <1>3

(* Time passes: what was old stays old.                                    *)
LEMMA TickStep == IInv /\ Tick => IInv'
<1> SUFFICES ASSUME IInv, Tick PROVE IInv'
  OBVIOUS
<1> USE UsageWindowAssumption DEF IInv
<1>1. /\ now \in Nat /\ now' = now + 1 /\ now' \in Times
      /\ UNCHANGED <<usage, records, first, last429, pc, u, at, result>>
  BY DEF Tick, objectVars, callerVars, TypeOK, Times
<1>2. TypeOK'
  BY <1>1 DEF TypeOK, Times
<1>3. FoundTheObject'
  BY <1>1 DEF FoundTheObject
<1>4. ASSUME NEW o \in Objects, NEW j \in 1 .. first[o] - 1
      PROVE  records[o][j].at + Window < now + 1
  <2>1. records[o] \in Seq(Record) /\ j \in 1 .. Len(records[o])
    BY DEF TypeOK
  <2>2. records[o][j].at \in Nat /\ records[o][j].at + Window < now
    BY <2>1, RecordHasTime DEF NothingIsForgotten
  <2> QED BY <2>2, <1>1
<1>5. NothingIsForgotten'
  BY <1>1, <1>4 DEF NothingIsForgotten
<1> QED BY <1>2, <1>3, <1>5

LEMMA RecordStep ==
    ASSUME IInv, NEW c \in Callers, RecordRequest(c)
    PROVE  IInv'
<1> USE UsageWindowAssumption DEF IInv
<1>1. PICK failed, is429 \in BOOLEAN : AppendRecord(c, failed, is429)
  BY DEF RecordRequest
<1>2. /\ usage \in Objects /\ u[c] = usage
      /\ records'[usage] \in Seq(Record)
      /\ first'[usage] \in 1 .. Len(records'[usage]) + 1
      /\ \A j \in 1 .. first'[usage] - 1 : records'[usage][j].at + Window < now
  BY <1>1, AppendedObject
<1>3. /\ \A o \in Objects \ {usage} : records'[o] = records[o] /\ first'[o] = first[o]
      /\ records' \in [Objects -> Seq(Record)] /\ first' \in [Objects -> Nat \ {0}]
  <2>1. PICK s, k : /\ records' = [records EXCEPT ![usage] = s]
                    /\ first' = [first EXCEPT ![usage] = k]
    <3>1. \E s, k : records' = [records EXCEPT ![u[c]] = s] /\ first' = [first EXCEPT ![u[c]] = k]
      BY <1>1 DEF AppendRecord
    <3> QED BY <3>1, <1>2
  <2>2. s = records'[usage] /\ k = first'[usage]
    BY <1>2, <2>1 DEF TypeOK
  <2>3. k \in Nat \ {0}
    BY <1>2, <2>2
  <2>4. \A o \in Objects \ {usage} : records'[o] = records[o] /\ first'[o] = first[o]
    BY <2>1 DEF TypeOK
  <2>5. records' \in [Objects -> Seq(Record)]
    BY <1>2, <2>1, <2>2 DEF TypeOK
  <2>6. first' \in [Objects -> Nat \ {0}]
    BY <2>1, <2>3 DEF TypeOK
  <2> QED BY <2>4, <2>5, <2>6
<1>4. usage' = usage /\ now' = now
  BY <1>1 DEF AppendRecord
<1>5. TypeOK'
  <2>1. ASSUME NEW o \in Objects PROVE first'[o] <= Len(records'[o]) + 1
    <3>1. CASE o = usage
      BY <3>1, <1>2
    <3>2. CASE o # usage
      BY <3>2, <1>3 DEF TypeOK
    <3> QED BY <3>1, <3>2
  <2>2. last429' \in [Objects -> Times \cup {Never}]
    BY <1>1 DEF AppendRecord, TypeOK
  <2>3. /\ pc' \in [Callers -> {"idle", "create", "stamp", "append", "snapshot", "counted"}]
        /\ u' \in [Callers -> Objects \cup {NoUsage}]
        /\ result' = result
    BY <1>1 DEF AppendRecord, TypeOK, Goto
  <2>4. at' \in [Callers -> Times] /\ \A d \in Callers : at'[d] <= now
    BY <1>1 DEF AppendRecord, TypeOK, Times
  <2> QED BY <1>3, <1>4, <2>1, <2>2, <2>3, <2>4 DEF TypeOK
<1>6. FoundTheObject'
  BY <1>1, <1>4 DEF AppendRecord, FoundTheObject, TypeOK, Goto
<1>7. NothingIsForgotten'
  BY <1>2, <1>3, <1>4 DEF NothingIsForgotten
<1> QED BY <1>5, <1>6, <1>7

LEMMA CountStep ==
    ASSUME IInv, NEW c \in Callers, CountWindow(c) \/ SnapshotOne(c)
    PROVE  IInv'
<1> USE UsageWindowAssumption DEF IInv
<1>1. PICK t \in Nat : t <= now /\ TrimAndCount(c, usage, t)
  BY DEF CountWindow, SnapshotOne, TypeOK, Times
<1>2. usage \in Objects
  BY DEF CountWindow, SnapshotOne, FoundTheObject, TypeOK
<1> DEFINE k == trimLocked(records[usage], first[usage], t)
<1>3. /\ k \in 1 .. Len(records[usage]) + 1
      /\ \A j \in 1 .. k - 1 : records[usage][j].at + Window < now
  BY <1>1, <1>2, TrimmedObject
<1>4. CountFrom(records[usage], k) \in Counts
  <2>1. records[usage] \in Seq(Record) /\ k \in Nat
    BY <1>2, <1>3 DEF TypeOK
  <2> HIDE DEF k
  <2> QED BY <2>1, CountFromType
<1>5. first' = [first EXCEPT ![usage] = k] /\ result' = [result EXCEPT ![c] = CountFrom(records[usage], k)]
  BY <1>1 DEF TrimAndCount
<1>6. /\ UNCHANGED <<now, usage, records, last429, u>>
      /\ pc' = [pc EXCEPT ![c] = "counted"]
      /\ at' = at \/ at' = [at EXCEPT ![c] = 0]
  BY DEF CountWindow, SnapshotOne, Goto
<1> HIDE DEF k
<1>7. TypeOK'
  <2>1. first' \in [Objects -> Nat \ {0}] /\ \A o \in Objects : first'[o] <= Len(records[o]) + 1
    BY <1>2, <1>3, <1>5 DEF TypeOK
  <2>2. result' \in [Callers -> Counts]
    BY <1>4, <1>5 DEF TypeOK
  <2>3. at' \in [Callers -> Times] /\ \A d \in Callers : at'[d] <= now
    <3>1. CASE at' = at
      BY <1>6, <3>1 DEF TypeOK
    <3>2. CASE at' = [at EXCEPT ![c] = 0]
      BY <1>6, <3>2 DEF TypeOK, Times
    <3> QED BY <1>6, <3>1, <3>2
  <2>4. pc' \in [Callers -> {"idle", "create", "stamp", "append", "snapshot", "counted"}]
    BY <1>6 DEF TypeOK
  <2> QED BY <1>6, <2>1, <2>2, <2>3, <2>4 DEF TypeOK
<1>8. FoundTheObject'
  BY <1>6 DEF FoundTheObject, TypeOK
<1>9. NothingIsForgotten'
  BY <1>2, <1>3, <1>5, <1>6 DEF NothingIsForgotten, TypeOK
<1> QED BY <1>7, <1>8, <1>9

LEMMA NextInv == IInv /\ [Next]_vars => IInv'
<1> SUFFICES ASSUME IInv, [Next]_vars PROVE IInv'
  OBVIOUS
<1>1. CASE Tick
  BY <1>1, TickStep
<1>2. CASE UNCHANGED vars
  BY <1>2 DEF IInv, TypeOK, FoundTheObject, NothingIsForgotten, vars, objectVars, callerVars
<1>3. ASSUME NEW c \in Callers,
             \/ Find(c) \/ Stamp(c) \/ RecordRequest(c)
             \/ \E o \in Objects : Create(c, o)
             \/ CountWindow(c) \/ AllSnapshots(c) \/ SnapshotOne(c) \/ Return(c)
      PROVE  IInv'
  BY <1>3, OtherSteps, RecordStep, CountStep
<1> QED BY <1>1, <1>2, <1>3 DEF Next

THEOREM Invariance == Spec => []IInv
<1>1. Init => IInv
  BY InitInv
<1>2. IInv /\ [Next]_vars => IInv'
  BY NextInv
<1> QED BY <1>1, <1>2, PTL DEF Spec

(* The variables keep their types; a slice starts within its records.      *)
THEOREM TypeCorrect == Spec => []TypeOK
<1>1. IInv => TypeOK
  BY DEF IInv
<1> QED BY <1>1, Invariance, PTL

(* No record that is still in the window is left out of the counts: every  *)
(* caller found the same object, and no trim was as of a later time.       *)
THEOREM Remembered == Spec => []NothingIsForgotten
<1>1. IInv => NothingIsForgotten
  BY DEF IInv
<1> QED BY <1>1, Invariance, PTL

-----------------------------------------------------------------------------
(* If the records are in order, what is left of them after a trim are those*)
(* in the window.                                                          *)
LEMMA TrimLeavesTheWindow ==
    ASSUME IInv, usage \in Objects, InOrder(records[usage])
    PROVE  LET k == trimLocked(records[usage], first[usage], now)
           IN  k .. Len(records[usage]) = InWindow(usage)
<1> DEFINE s == records[usage]
           k == trimLocked(s, first[usage], now)
<1> USE UsageWindowAssumption
<1>1. s \in Seq(Record) /\ now \in Nat
  BY DEF IInv, TypeOK, Times
<1>2. /\ k \in 1 .. Len(s) + 1
      /\ k <= Len(s) => ~Old(s[k], now)
      /\ \A j \in 1 .. k - 1 : s[j].at + Window < now
  BY <1>1, TrimmedObject DEF IInv
<1> HIDE DEF k
<1>3. ASSUME NEW j \in 1 .. Len(s) PROVE j \in k .. Len(s) <=> s[j].at + Window >= now
  <2>1. s[j].at \in Nat
    BY <1>1, RecordHasTime
  <2>2. CASE j < k
    BY <2>1, <2>2, <1>1, <1>2
  <2>3. CASE j >= k
    <3>1. k \in 1 .. Len(s) /\ s[k].at \in Nat
      BY <2>3, <1>1, <1>2, RecordHasTime
    <3>2. s[k].at + Window >= now
      BY <3>1, <1>1, <1>2 DEF Old
    <3>3. s[k].at <= s[j].at
      BY <2>1, <2>3, <3>1 DEF InOrder
    <3> QED BY <2>1, <2>3, <3>1, <3>2, <3>3, <1>1
  <2> QED BY <2>2, <2>3, <1>2
<1>4. k .. Len(s) \subseteq 1 .. Len(s)
  BY <1>2
<1>5. InWindow(usage) = {j \in 1 .. Len(s) : s[j].at + Window >= now}
  BY DEF InWindow
<1>6. k .. Len(s) = InWindow(usage)
  <2> HIDE DEF s
  <2> QED BY <1>3, <1>4, <1>5
<1> QED BY <1>6 DEF k

(* If the records of the account are in the order of their times, a count  *)
(* is that of the window, whoever trimmed before and as of when.           *)
THEOREM CountedExactly == Spec => CountsTheWindow
<1>1. ASSUME IInv, [Next]_vars, NEW c \in Callers, usage # NoUsage, InOrder(records[usage])
      PROVE  CountIsExact(c)
  <2> SUFFICES ASSUME pc[c] = "idle", pc'[c] = "counted"
               PROVE  result'[c] = [total |-> Cardinality(InWindow(usage)),
                                    failed |-> Cardinality({j \in InWindow(usage) : records[usage][j].failed})]
    BY DEF CountIsExact
  <2>1. pc' # pc
    OBVIOUS
  <2>2. PICK d \in Callers :
            \/ Find(d) \/ Stamp(d) \/ RecordRequest(d)
            \/ \E o \in Objects : Create(d, o)
            \/ CountWindow(d) \/ AllSnapshots(d) \/ SnapshotOne(d) \/ Return(d)
    BY <1>1, <2>1 DEF Next, vars, callerVars, Tick
  <2>3. CountWindow(c)
    <3> USE <1>1 DEF IInv, TypeOK, Goto
    <3>1. d = c
      BY <2>2 DEF Find, Stamp, RecordRequest, AppendRecord, Create, CountWindow, AllSnapshots, SnapshotOne, Return
    <3> QED BY <2>2, <3>1 DEF Find, Stamp, RecordRequest, AppendRecord, Create, AllSnapshots, SnapshotOne, Return
  <2> DEFINE k == trimLocked(records[usage], first[usage], now)
  <2>4. result'[c] = CountFrom(records[usage], k)
    BY <2>3, <1>1 DEF CountWindow, TrimAndCount, IInv, TypeOK
  <2>5. k .. Len(records[usage]) = InWindow(usage)
    BY <1>1, TrimLeavesTheWindow DEF IInv, TypeOK
  <2> HIDE DEF k
  <2> QED BY <2>4, <2>5 DEF CountFrom
<1>2. IInv /\ [Next]_vars =>
          [\A c \in Callers : (usage # NoUsage /\ InOrder(records[usage])) => CountIsExact(c)]_vars
  BY <1>1
<1> QED BY <1>2, Invariance, PTL DEF Spec, CountsTheWindow

=============================================================================
