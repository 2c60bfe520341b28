----------------------------- MODULE StoreProofs -----------------------------
(***************************************************************************)
(* Proofs about the files of package store: ModelMap.tla, for any models,  *)
(* any map and any client; then AccountFile.tla, for any sets of IDs, keys *)
(* and workers; then PoolConfig.tla, for any consoles, keys and rates.     *)
(***************************************************************************)
EXTENDS ModelMap, AccountFile, PoolConfig, Integers, FiniteSetTheorems, WellFoundedInduction, TLAPS

-----------------------------------------------------------------------------
(* Every set of naturals that is not empty has a least member.             *)
LEMMA NatLeast == \A T \in SUBSET Nat : T # {} => \E x \in T : \A y \in T : x <= y
<1> SUFFICES ASSUME NEW T \in SUBSET Nat, T # {} PROVE \E x \in T : \A y \in T : x <= y
  OBVIOUS
<1> DEFINE U == {1 .. n : n \in T}
<1>1. U \subseteq FiniteSubsetsOf(Nat) /\ U # {}
  <2>1. ASSUME NEW n \in T PROVE 1 .. n \in FiniteSubsetsOf(Nat)
    <3>1. IsFiniteSet(1 .. n)
      BY FS_Interval
    <3> QED BY <3>1 DEF FiniteSubsetsOf
  <2> QED BY <2>1
<1>2. PICK X \in U : \A Y \in U : ~(<<Y, X>> \in StrictSubsetOrdering(Nat))
  BY <1>1, FS_StrictSubsetOrderingWellFounded, WFMin
<1>3. PICK x \in T : X = 1 .. x
  OBVIOUS
<1>4. ASSUME NEW y \in T PROVE x <= y
  <2>1. ~(<<1 .. y, 1 .. x>> \in StrictSubsetOrdering(Nat))
    BY <1>2, <1>3
  <2>2. y < x => 1 .. y \subseteq 1 .. x /\ 1 .. y # 1 .. x
    <3>1. ASSUME y < x PROVE x \in 1 .. x /\ x \notin 1 .. y
      BY <3>1
    <3> QED BY <3>1
  <2> QED BY <2>1, <2>2 DEF StrictSubsetOrdering
<1> QED BY <1>4

(* Induction up to m, over a set in place of a predicate.                  *)
LEMMA InductionUpTo ==
    ASSUME NEW m \in Nat, NEW G, 0 \in G, \A n \in 1 .. m : n - 1 \in G => n \in G
    PROVE  0 .. m \subseteq G
<1> DEFINE T == {n \in 0 .. m : n \notin G}
<1>1. ASSUME T # {} PROVE FALSE
  <2>1. PICK n \in T : \A y \in T : n <= y
    <3>1. T \in SUBSET Nat
      OBVIOUS
    <3> HIDE DEF T
    <3> QED BY <1>1, <3>1, NatLeast
  <2>2. n \in 1 .. m
    OBVIOUS
  <2>3. n - 1 \notin T
    BY <2>1
  <2> QED BY <2>1, <2>2, <2>3
<1> QED BY <1>1

(* The list that has been kept, entry by entry: the function exists.       *)
LEMMA KeptByEntry ==
    ASSUME NEW R, NEW s \in Seq(R), NEW S
    PROVE  \E f : /\ f[0] = << >> /\ f[Len(s)] = Kept(s, S)
                  /\ \A n \in 1 .. Len(s) :
                        f[n] = IF s[n] \in S THEN Append(f[n - 1], s[n]) ELSE f[n - 1]
<1> DEFINE Follows(f, n) ==
               f = [k \in 0 .. n |-> IF k = 0 THEN << >>
                                     ELSE IF s[k] \in S THEN Append(f[k - 1], s[k]) ELSE f[k - 1]]
           G == {n \in 0 .. Len(s) : \E f : Follows(f, n)}
<1>0. Len(s) \in Nat
  OBVIOUS
<1>1. 0 \in G
  <2>1. Follows([k \in 0 .. 0 |-> << >>], 0)
    OBVIOUS
  <2> HIDE DEF Follows
  <2> QED BY <2>1, <1>0
<1>2. ASSUME NEW n \in 1 .. Len(s), n - 1 \in G PROVE n \in G
  <2>1. PICK f : Follows(f, n - 1)
    BY <1>2
  <2> DEFINE g == [k \in 0 .. n |-> IF k = n
                                    THEN IF s[n] \in S THEN Append(f[n - 1], s[n]) ELSE f[n - 1]
                                    ELSE f[k]]
  <2>2. \A k \in 0 .. n - 1 : g[k] = f[k]
    OBVIOUS
  <2>3. ASSUME NEW k \in 0 .. n
        PROVE  g[k] = IF k = 0 THEN << >>
                      ELSE IF s[k] \in S THEN Append(g[k - 1], s[k]) ELSE g[k - 1]
    <3>1. CASE k = n
      BY <2>2, <3>1
    <3>2. CASE k # n
      <4>1. k \in 0 .. n - 1 /\ (k # 0 => k - 1 \in 0 .. n - 1)
        BY <3>2
      <4>2. f[k] = IF k = 0 THEN << >>
                   ELSE IF s[k] \in S THEN Append(f[k - 1], s[k]) ELSE f[k - 1]
        BY <2>1, <4>1
      <4> QED BY <2>2, <4>1, <4>2
    <3> QED BY <3>1, <3>2
  <2>4. Follows(g, n)
    <3>1. g = [k \in 0 .. n |-> g[k]]
      OBVIOUS
    <3> HIDE DEF g
    <3> QED BY <2>3, <3>1
  <2> HIDE DEF Follows, g
  <2> QED BY <2>4
<1>3. PICK f : Follows(f, Len(s))
  <2>1. Len(s) \in G
    <3> HIDE DEF G
    <3>1. 0 .. Len(s) \subseteq G
      BY <1>0, <1>1, <1>2, InductionUpTo
    <3> QED BY <1>0, <3>1
  <2> HIDE DEF Follows
  <2> QED BY <2>1
<1> DEFINE h == CHOOSE f_1 : Follows(f_1, Len(s))
<1>4. Follows(h, Len(s))
  BY <1>3
<1>5. Kept(s, S) = h[Len(s)]
  BY DEF Kept
<1> HIDE DEF h
<1>6. \A k \in 0 .. Len(s) : h[k] = IF k = 0 THEN << >>
                                   ELSE IF s[k] \in S THEN Append(h[k - 1], s[k]) ELSE h[k - 1]
  BY <1>4
<1>7. \A k \in 1 .. Len(s) : h[k] = IF s[k] \in S THEN Append(h[k - 1], s[k]) ELSE h[k - 1]
  BY <1>0, <1>6
<1>8. h[0] = << >>
  BY <1>0, <1>6
<1> QED BY <1>5, <1>7, <1>8

(* What is kept of a list is a list of members of S, no longer than it.    *)
LEMMA KeptType ==
    ASSUME NEW R, NEW s \in Seq(R), NEW S
    PROVE  Kept(s, S) \in Seq(R \cap S) /\ Len(Kept(s, S)) <= Len(s)
<1>0. Len(s) \in Nat
  OBVIOUS
<1>1. PICK f : /\ f[0] = << >> /\ f[Len(s)] = Kept(s, S)
               /\ \A n \in 1 .. Len(s) :
                     f[n] = IF s[n] \in S THEN Append(f[n - 1], s[n]) ELSE f[n - 1]
  BY KeptByEntry
<1> DEFINE G == {n \in 0 .. Len(s) : f[n] \in Seq(R \cap S) /\ Len(f[n]) <= n}
<1>2. 0 \in G
  <2>1. f[0] = << >>
    BY <1>1
  <2>2. << >> \in Seq(R \cap S) /\ Len(<< >>) = 0
    OBVIOUS
  <2>3. f[0] \in Seq(R \cap S) /\ Len(f[0]) = 0
    BY <2>1, <2>2
  <2> QED BY <2>3, <1>0
<1>3. ASSUME NEW n \in 1 .. Len(s), n - 1 \in G PROVE n \in G
  <2>1. f[n] = IF s[n] \in S THEN Append(f[n - 1], s[n]) ELSE f[n - 1]
    BY <1>1
  <2> DEFINE g == f[n - 1]
  <2>2. s[n] \in R /\ g \in Seq(R \cap S) /\ Len(g) <= n - 1
    BY <1>3
  <2>3. CASE s[n] \in S
    <3>1. s[n] \in R \cap S
      BY <2>2, <2>3
    <3>2. f[n] = Append(g, s[n])
      BY <2>1, <2>3
    <3> HIDE DEF g
    <3>3. f[n] \in Seq(R \cap S) /\ Len(f[n]) = Len(g) + 1 /\ Len(g) \in Nat
      BY <2>2, <3>1, <3>2
    <3> QED BY <2>2, <3>3
  <2>4. CASE s[n] \notin S
    <3>1. f[n] = g
      BY <2>1, <2>4
    <3> HIDE DEF g
    <3>2. Len(g) \in Nat
      BY <2>2
    <3> QED BY <2>2, <3>1, <3>2
  <2> QED BY <2>3, <2>4
<1> HIDE DEF G
<1>4. 0 .. Len(s) \subseteq G
  BY <1>0, <1>2, <1>3, InductionUpTo
<1>5. Len(s) \in G
  BY <1>0, <1>4
<1> QED BY <1>1, <1>5 DEF G

(* The first entry of a list about model id, if it has one.                *)
FirstAbout(s, id, k) ==
    /\ k \in 1 .. Len(s) /\ s[k] \in Mappings /\ s[k].copilotId = id
    /\ \A j \in 1 .. k - 1 : ~(s[j] \in Mappings /\ s[j].copilotId = id)
NoneAbout(s, id) == \A j \in 1 .. Len(s) : ~(s[j] \in Mappings /\ s[j].copilotId = id)

(* Keeping the mappings keeps the first of every model.                    *)
LEMMA KeptFirst ==
    ASSUME NEW R, NEW s \in Seq(R), NEW id
    PROVE  /\ NoneAbout(s, id) => NoneAbout(Kept(s, Mappings), id)
           /\ \A k : FirstAbout(s, id, k) =>
                  \E l : FirstAbout(Kept(s, Mappings), id, l) /\ Kept(s, Mappings)[l] = s[k]
<1>0. Len(s) \in Nat
  OBVIOUS
<1>1. PICK f : /\ f[0] = << >> /\ f[Len(s)] = Kept(s, Mappings)
               /\ \A n \in 1 .. Len(s) :
                     f[n] = IF s[n] \in Mappings THEN Append(f[n - 1], s[n]) ELSE f[n - 1]
  BY KeptByEntry
<1> DEFINE About_(e) == e \in Mappings /\ e.copilotId = id
           None_(n) == \A j \in 1 .. n : ~About_(s[j])
           Same(n) == /\ f[n] \in Seq(R)
                      /\ None_(n) => NoneAbout(f[n], id)
                      /\ \A k \in 1 .. n : FirstAbout(s, id, k) =>
                             \E l : FirstAbout(f[n], id, l) /\ f[n][l] = s[k]
           G == {n \in 0 .. Len(s) : Same(n)}
<1>2. 0 \in G
  <2>1. f[0] = << >>
    BY <1>1
  <2>2. << >> \in Seq(R) /\ NoneAbout(<< >>, id)
    BY DEF NoneAbout
  <2>3. f[0] \in Seq(R) /\ NoneAbout(f[0], id)
    BY <2>1, <2>2
  <2> QED BY <2>3, <1>0
<1>3. ASSUME NEW n \in 1 .. Len(s), n - 1 \in G PROVE n \in G
  <2>1. Same(n - 1) /\ n - 1 \in 0 .. Len(s) /\ s[n] \in R
    BY <1>3
  <2>2. CASE s[n] \notin Mappings
    <3>1. f[n] = f[n - 1]
      BY <1>1, <2>2
    <3>2. \A k \in 1 .. n : FirstAbout(s, id, k) => k \in 1 .. n - 1
      BY <2>2 DEF FirstAbout
    <3>3. None_(n) => None_(n - 1)
      OBVIOUS
    <3> QED BY <2>1, <3>1, <3>2, <3>3
  <2>3. CASE s[n] \in Mappings
    <3> DEFINE g == f[n - 1]
    <3>1. f[n] = Append(g, s[n])
      BY <1>1, <2>3
    <3>2. g \in Seq(R)
      BY <2>1
    <3>3. /\ f[n] \in Seq(R) /\ Len(f[n]) = Len(g) + 1 /\ f[n][Len(g) + 1] = s[n]
          /\ \A j \in 1 .. Len(g) : f[n][j] = g[j]
      <4> HIDE DEF g
      <4> QED BY <2>1, <3>1, <3>2
    <3>4. None_(n) => NoneAbout(f[n], id)
      <4> SUFFICES ASSUME None_(n) PROVE NoneAbout(f[n], id)
        OBVIOUS
      <4>1. NoneAbout(g, id) /\ ~About_(s[n])
        BY <2>1
      <4> HIDE DEF g
      <4> QED BY <3>2, <3>3, <4>1 DEF NoneAbout
    <3>5. ASSUME NEW k \in 1 .. n, FirstAbout(s, id, k)
          PROVE  \E l : FirstAbout(f[n], id, l) /\ f[n][l] = s[k]
      <4>1. CASE k = n
        <5>1. None_(n - 1)
          BY <3>5, <4>1 DEF FirstAbout
        <5>2. NoneAbout(g, id)
          BY <2>1, <5>1
        <5>3. FirstAbout(f[n], id, Len(g) + 1) /\ f[n][Len(g) + 1] = s[k]
          <6> HIDE DEF g
          <6> QED BY <3>2, <3>3, <3>5, <4>1, <5>2 DEF NoneAbout, FirstAbout
        <5> QED BY <5>3
      <4>2. CASE k # n
        <5>1. PICK l : FirstAbout(g, id, l) /\ g[l] = s[k]
          BY <2>1, <3>5, <4>2
        <5>2. FirstAbout(f[n], id, l) /\ f[n][l] = s[k]
          <6> HIDE DEF g
          <6> QED BY <3>2, <3>3, <5>1 DEF FirstAbout
        <5> QED BY <5>2
      <4> QED BY <4>1, <4>2
    <3> QED BY <3>3, <3>4, <3>5
  <2> QED BY <2>2, <2>3
<1>4. Len(s) \in G
  <2> HIDE DEF G
  <2>1. 0 .. Len(s) \subseteq G
    BY <1>0, <1>2, <1>3, InductionUpTo
  <2> QED BY <1>0, <2>1
<1>5. Same(Len(s)) /\ (NoneAbout(s, id) => None_(Len(s)))
  BY <1>4 DEF NoneAbout
<1>6. \A k : FirstAbout(s, id, k) => k \in 1 .. Len(s)
  BY DEF FirstAbout
<1> QED BY <1>1, <1>5, <1>6

-----------------------------------------------------------------------------
(* A list of up to MaxMappings.                                            *)
LEMMA UpToIs == \A S : \A s : s \in UpTo(S) <=> s \in Seq(S) /\ Len(s) <= MaxMappings
<1>1. ASSUME NEW S, NEW s \in UpTo(S) PROVE s \in Seq(S) /\ Len(s) <= MaxMappings
  <2>1. PICK n \in 0 .. MaxMappings : s \in [1 .. n -> S]
    BY DEF UpTo
  <2> QED BY <2>1, ModelMapAssumption
<1>2. ASSUME NEW S, NEW s \in Seq(S), Len(s) <= MaxMappings PROVE s \in UpTo(S)
  <2>1. Len(s) \in 0 .. MaxMappings /\ s \in [1 .. Len(s) -> S]
    BY <1>2, ModelMapAssumption
  <2> QED BY <2>1 DEF UpTo
<1> QED BY <1>1, <1>2

(* What a model is shown as: its first mapping's name, or its own ID.      *)
LEMMA DisplayIs ==
    ASSUME NEW s \in Seq(Mappings), NEW id
    PROVE  \/ NoneAbout(s, id) /\ ToDisplayID(s, id) = id
           \/ \E k : FirstAbout(s, id, k) /\ ToDisplayID(s, id) = s[k].displayId
<1> DEFINE hits == {k \in DOMAIN s : s[k].copilotId = id}
<1>1. hits \in SUBSET Nat /\ hits \subseteq 1 .. Len(s)
  OBVIOUS
<1>2. CASE hits = {}
  BY <1>2 DEF ToDisplayID, First, NoneAbout
<1>3. CASE hits # {}
  <2> DEFINE k == CHOOSE k \in hits : \A j \in hits : k <= j
  <2>1. k \in hits /\ \A j \in hits : k <= j
    <3> HIDE DEF hits
    <3> QED BY <1>1, <1>3, NatLeast
  <2>2. ToDisplayID(s, id) = s[k].displayId
    BY <1>3 DEF ToDisplayID, First
  <2> HIDE DEF k
  <2>3. FirstAbout(s, id, k)
    BY <2>1 DEF FirstAbout
  <2> QED BY <2>2, <2>3
<1> QED BY <1>2, <1>3

(* What a name leads to: the model of the first mapping to it, or itself.  *)
LEMMA CopilotIs ==
    ASSUME NEW s \in Seq(Mappings), NEW id
    PROVE  \/ /\ \A k \in 1 .. Len(s) : s[k].displayId # id
              /\ ToCopilotID(s, id) = id
           \/ \E k \in 1 .. Len(s) : s[k].displayId = id /\ ToCopilotID(s, id) = s[k].copilotId
<1> DEFINE hits == {k \in DOMAIN s : s[k].displayId = id}
<1>1. hits \in SUBSET Nat /\ hits \subseteq 1 .. Len(s)
  OBVIOUS
<1>2. CASE hits = {}
  BY <1>2 DEF ToCopilotID, First
<1>3. CASE hits # {}
  <2> DEFINE k == CHOOSE k \in hits : \A j \in hits : k <= j
  <2>1. k \in hits
    <3> HIDE DEF hits
    <3> QED BY <1>1, <1>3, NatLeast
  <2>2. ToCopilotID(s, id) = s[k].copilotId
    BY <1>3 DEF ToCopilotID, First
  <2> HIDE DEF k
  <2> QED BY <2>1, <2>2
<1> QED BY <1>2, <1>3

(* If no two models have one name, a model's name leads back to it.        *)
LEMMA NamesLeadBack ==
    ASSUME Content \in Seq(Mappings), NamesDiffer, NEW m \in Models
    PROVE  ToCopilotID(Content, ToDisplayID(Content, m)) = m
<1> DEFINE s == Content
           d == ToDisplayID(s, m)
<1>1. /\ \A i, j \in 1 .. Len(s) : s[i].displayId = s[j].displayId => i = j
      /\ \A i \in 1 .. Len(s) :
             s[i].displayId \in Models => \E j \in 1 .. Len(s) : s[j].copilotId = s[i].displayId
  BY DEF NamesDiffer
<1> HIDE DEF s, d
<1>2. s \in Seq(Mappings)
  BY DEF s
<1>3. CASE NoneAbout(s, m) /\ d = m
  <2>1. \A k \in 1 .. Len(s) : s[k].copilotId # m
    BY <1>2, <1>3 DEF NoneAbout
  <2>2. \A k \in 1 .. Len(s) : s[k].displayId # m
    BY <1>1, <2>1
  <2>3. ToCopilotID(s, m) = m
    BY <1>2, <2>2, CopilotIs
  <2> QED BY <1>3, <2>3 DEF s, d
<1>4. ASSUME NEW k, FirstAbout(s, m, k), d = s[k].displayId PROVE ToCopilotID(s, d) = m
  <2>1. k \in 1 .. Len(s) /\ s[k].copilotId = m
    BY <1>4 DEF FirstAbout
  <2> QED BY <1>1, <1>2, <1>4, <2>1, CopilotIs
<1>5. \/ NoneAbout(s, m) /\ d = m
      \/ \E k : FirstAbout(s, m, k) /\ d = s[k].displayId
  BY <1>2, DisplayIs DEF d
<1> QED BY <1>3, <1>4, <1>5 DEF s, d

-----------------------------------------------------------------------------
(* Two lists show model id the same way.                                   *)
ShownSame(s, t, id) ==
    \/ NoneAbout(s, id) /\ NoneAbout(t, id)
    \/ \E k, l : FirstAbout(s, id, k) /\ FirstAbout(t, id, l) /\ s[k] = t[l]

LEMMA FirstOrNone ==
    ASSUME NEW R, NEW s \in Seq(R), NEW id
    PROVE  NoneAbout(s, id) \/ \E k : FirstAbout(s, id, k)
<1> DEFINE hits == {k \in 1 .. Len(s) : s[k] \in Mappings /\ s[k].copilotId = id}
<1>1. CASE hits = {}
  BY <1>1 DEF NoneAbout
<1>2. CASE hits # {}
  <2>1. PICK k \in hits : \A j \in hits : k <= j
    <3>1. hits \in SUBSET Nat
      OBVIOUS
    <3> HIDE DEF hits
    <3> QED BY <1>2, <3>1, NatLeast
  <2>2. ASSUME NEW j \in 1 .. k - 1 PROVE ~(s[j] \in Mappings /\ s[j].copilotId = id)
    <3>1. j \in 1 .. Len(s) /\ j < k
      OBVIOUS
    <3> QED BY <2>1, <3>1
  <2>3. FirstAbout(s, id, k)
    BY <2>2 DEF FirstAbout
  <2> QED BY <2>3
<1> QED BY <1>1, <1>2

(* A list has one first entry about a model.                               *)
LEMMA FirstIsOne ==
    ASSUME NEW R, NEW s \in Seq(R), NEW id, NEW k, FirstAbout(s, id, k)
    PROVE  ~NoneAbout(s, id) /\ \A l : FirstAbout(s, id, l) => l = k
BY DEF FirstAbout, NoneAbout

LEMMA ShownSameIsTransitive ==
    ASSUME NEW R, NEW s \in Seq(R), NEW t \in Seq(R), NEW u \in Seq(R), NEW id,
           ShownSame(s, t, id), ShownSame(t, u, id)
    PROVE  ShownSame(s, u, id)
BY FirstIsOne DEF ShownSame

LEMMA ShownSameDisplays ==
    ASSUME NEW s \in Seq(Mappings), NEW t \in Seq(Mappings), NEW id, ShownSame(s, t, id)
    PROVE  ToDisplayID(s, id) = ToDisplayID(t, id)
<1>1. CASE NoneAbout(s, id) /\ NoneAbout(t, id)
  BY <1>1, DisplayIs, FirstIsOne
<1>2. ASSUME NEW k, NEW l, FirstAbout(s, id, k), FirstAbout(t, id, l), s[k] = t[l]
      PROVE  ToDisplayID(s, id) = ToDisplayID(t, id)
  BY <1>2, DisplayIs, FirstIsOne
<1> QED BY <1>1, <1>2 DEF ShownSame

LEMMA KeptShown ==
    ASSUME NEW R, NEW s \in Seq(R), NEW id
    PROVE  ShownSame(s, Kept(s, Mappings), id)
<1>1. CASE NoneAbout(s, id)
  BY <1>1, KeptFirst DEF ShownSame
<1>2. ASSUME NEW k, FirstAbout(s, id, k) PROVE ShownSame(s, Kept(s, Mappings), id)
  <2>1. PICK l : FirstAbout(Kept(s, Mappings), id, l) /\ Kept(s, Mappings)[l] = s[k]
    BY <1>2, KeptFirst
  <2> QED BY <1>2, <2>1 DEF ShownSame
<1> QED BY <1>1, <1>2, FirstOrNone

(* The edits of the panel: a row that is not about the model comes, is     *)
(* changed into another, or goes.                                          *)
Rows == Mappings \cup {Incomplete}
NotAbout(row, id) == ~(row \in Mappings /\ row.copilotId = id)

LEMMA AddedRowShows ==
    ASSUME NEW s \in Seq(Rows), NEW id
    PROVE  ShownSame(s, Append(s, Incomplete), id)
<1> DEFINE t == Append(s, Incomplete)
<1>1. /\ t \in Seq(Rows) /\ Len(t) = Len(s) + 1
      /\ t[Len(s) + 1] = Incomplete /\ \A j \in 1 .. Len(s) : t[j] = s[j]
  BY DEF Rows
<1> HIDE DEF t
<1>2. CASE NoneAbout(s, id)
  <2>1. NoneAbout(t, id)
    BY <1>1, <1>2, MarksAssumption DEF NoneAbout
  <2> QED BY <1>2, <2>1 DEF ShownSame, t
<1>3. ASSUME NEW k, FirstAbout(s, id, k) PROVE ShownSame(s, t, id)
  <2>1. FirstAbout(t, id, k) /\ t[k] = s[k]
    BY <1>1, <1>3 DEF FirstAbout
  <2> QED BY <1>3, <2>1 DEF ShownSame
<1> QED BY <1>2, <1>3, FirstOrNone DEF t

LEMMA UpdatedRowShows ==
    ASSUME NEW s \in Seq(Rows), NEW id, NEW i \in 1 .. Len(s), NEW row \in Rows,
           NotAbout(s[i], id), NotAbout(row, id)
    PROVE  ShownSame(s, [s EXCEPT ![i] = row], id)
<1> DEFINE t == [s EXCEPT ![i] = row]
<1>1. /\ t \in Seq(Rows) /\ Len(t) = Len(s)
      /\ t[i] = row /\ \A j \in 1 .. Len(s) : j # i => t[j] = s[j]
  OBVIOUS
<1> HIDE DEF t
<1>2. CASE NoneAbout(s, id)
  <2>1. NoneAbout(t, id)
    BY <1>1, <1>2 DEF NoneAbout, NotAbout
  <2> QED BY <1>2, <2>1 DEF ShownSame, t
<1>3. ASSUME NEW k, FirstAbout(s, id, k) PROVE ShownSame(s, t, id)
  <2>1. FirstAbout(t, id, k) /\ t[k] = s[k]
    BY <1>1, <1>3 DEF FirstAbout, NotAbout
  <2> QED BY <1>3, <2>1 DEF ShownSame
<1> QED BY <1>2, <1>3, FirstOrNone DEF t

(* Two lists one after the other.                                          *)
LEMMA ConcatIs ==
    ASSUME NEW R, NEW a \in Seq(R), NEW b \in Seq(R)
    PROVE  /\ a \o b \in Seq(R) /\ Len(a \o b) = Len(a) + Len(b)
           /\ \A j \in 1 .. Len(a) + Len(b) :
                  (a \o b)[j] = IF j <= Len(a) THEN a[j] ELSE b[j - Len(a)]
OBVIOUS

LEMMA RemovedRow ==
    ASSUME NEW R, NEW s \in Seq(R), NEW i \in 1 .. Len(s)
    PROVE  LET t == SubSeq(s, 1, i - 1) \o SubSeq(s, i + 1, Len(s))
           IN  /\ t \in Seq(R) /\ Len(t) = Len(s) - 1
               /\ \A j \in 1 .. Len(s) - 1 : t[j] = IF j < i THEN s[j] ELSE s[j + 1]
<1> DEFINE a == SubSeq(s, 1, i - 1)
           b == SubSeq(s, i + 1, Len(s))
<1>1. a \in Seq(R) /\ Len(a) = i - 1 /\ \A j \in 1 .. i - 1 : a[j] = s[j]
  OBVIOUS
<1>2. b \in Seq(R) /\ Len(b) = Len(s) - i /\ \A j \in 1 .. Len(s) - i : b[j] = s[j + i]
  OBVIOUS
<1> HIDE DEF a, b
<1>3. /\ a \o b \in Seq(R) /\ Len(a \o b) = Len(s) - 1
      /\ \A j \in 1 .. Len(s) - 1 : (a \o b)[j] = IF j < i THEN s[j] ELSE s[j + 1]
  <2>0. i \in Nat /\ Len(s) \in Nat /\ i >= 1 /\ i <= Len(s)
    OBVIOUS
  <2>1. a \o b \in Seq(R) /\ Len(a \o b) = Len(a) + Len(b)
    BY <1>1, <1>2, ConcatIs
  <2>2. \A j \in 1 .. Len(a) + Len(b) :
            (a \o b)[j] = IF j <= Len(a) THEN a[j] ELSE b[j - Len(a)]
    BY <1>1, <1>2, ConcatIs
  <2> DEFINE c == a \o b
  <2> HIDE DEF c
  <2>3. Len(c) = Len(s) - 1
    BY <1>1, <1>2, <2>0, <2>1 DEF c
  <2>4. ASSUME NEW j \in 1 .. Len(s) - 1, j < i PROVE c[j] = s[j]
    <3>1. j \in 1 .. Len(a) + Len(b) /\ j \in 1 .. i - 1 /\ j <= Len(a)
      BY <1>1, <1>2, <2>0, <2>4
    <3>2. c[j] = a[j]
      BY <2>2, <3>1 DEF c
    <3> QED BY <1>1, <3>1, <3>2
  <2>5. ASSUME NEW j \in 1 .. Len(s) - 1, ~(j < i) PROVE c[j] = s[j + 1]
    <3>1. /\ j \in 1 .. Len(a) + Len(b) /\ ~(j <= Len(a))
          /\ j - (i - 1) \in 1 .. Len(s) - i /\ j - (i - 1) + i = j + 1
      BY <1>1, <1>2, <2>0, <2>5
    <3>2. c[j] = b[j - (i - 1)]
      BY <1>1, <2>2, <3>1 DEF c
    <3>3. b[j - (i - 1)] = s[j - (i - 1) + i]
      BY <1>2, <3>1
    <3> QED BY <3>1, <3>2, <3>3
  <2> QED BY <2>1, <2>3, <2>4, <2>5 DEF c
<1> QED BY <1>3 DEF a, b

LEMMA RemovedRowShows ==
    ASSUME NEW s \in Seq(Rows), NEW id, NEW i \in 1 .. Len(s), NotAbout(s[i], id),
           NEW t \in Seq(Rows), Len(t) = Len(s) - 1,
           \A j \in 1 .. Len(s) - 1 : t[j] = IF j < i THEN s[j] ELSE s[j + 1]
    PROVE  ShownSame(s, t, id)
<1>1. CASE NoneAbout(s, id)
  <2>1. NoneAbout(t, id)
    BY <1>1 DEF NoneAbout
  <2> QED BY <1>1, <2>1 DEF ShownSame
<1>2. ASSUME NEW k, FirstAbout(s, id, k) PROVE ShownSame(s, t, id)
  <2>1. k \in 1 .. Len(s) /\ k # i
    BY <1>2 DEF FirstAbout, NotAbout
  <2>2. CASE k < i
    <3>1. FirstAbout(t, id, k) /\ t[k] = s[k]
      BY <1>2, <2>1, <2>2 DEF FirstAbout
    <3> QED BY <1>2, <3>1 DEF ShownSame
  <2>3. CASE k > i
    <3>1. t[k - 1] = s[k] /\ k - 1 \in 1 .. Len(t)
      BY <2>1, <2>3
    <3>2. ASSUME NEW j \in 1 .. k - 2 PROVE ~(t[j] \in Mappings /\ t[j].copilotId = id)
      <4>1. t[j] = IF j < i THEN s[j] ELSE s[j + 1]
        BY <2>1
      <4> QED BY <1>2, <2>1, <4>1 DEF FirstAbout
    <3>3. FirstAbout(t, id, k - 1)
      BY <1>2, <3>1, <3>2 DEF FirstAbout
    <3> QED BY <1>2, <3>1, <3>3 DEF ShownSame
  <2> QED BY <2>1, <2>2, <2>3
<1> QED BY <1>1, <1>2, FirstOrNone

-----------------------------------------------------------------------------
(* The request of a client asks for a model by a name.                     *)
AsksForAModel ==
    request.at # "none" => request.origin \in Models /\ request.name \in Ids

(* Until a lookup may differ, each has been one in the map as it is.       *)
ServedAsListed ==
    ~changed /\ request.at # "none" =>
        /\ request.name = ToDisplayID(Content, request.origin)
        /\ \/ request.limit = None
           \/ request.messages /\ request.limit = ModelOfMessages(Content, request.name)
        /\ request.at = "sent" =>
               request.sent = IF request.messages THEN ModelOfMessages(Content, request.name)
                              ELSE ToCopilotID(Content, request.name)

(* The panel shows a model whose rows were left alone as the file does.    *)
PanelShows ==
    panel # NoPanel /\ ~behind => \A m \in Models \ edited : ShownSame(Content, panel, m)

IInv == TypeOK /\ AsksForAModel /\ ServedAsListed /\ PanelShows

LEMMA ContentType ==
    ASSUME TypeOK
    PROVE  /\ Content \in Seq(Mappings) /\ Content \in UpTo(Mappings)
           /\ panel # NoPanel => panel \in Seq(Rows) /\ Len(panel) <= MaxMappings
<1>1. << >> \in UpTo(Mappings)
  <2>1. << >> \in Seq(Mappings) /\ Len(<< >>) <= MaxMappings
    BY ModelMapAssumption
  <2> QED BY <2>1, UpToIs
<1>2. Content \in UpTo(Mappings)
  BY <1>1 DEF Content, TypeOK
<1>3. panel # NoPanel => panel \in UpTo(Rows)
  BY DEF TypeOK, Rows
<1> QED BY <1>2, <1>3, UpToIs

LEMMA ReadsType ==
    ASSUME TypeOK, NEW s \in Reads
    PROVE  s \in Seq(Mappings) /\ s \in UpTo(Mappings)
<1>1. << >> \in Seq(Mappings) /\ Len(<< >>) <= MaxMappings
  BY ModelMapAssumption
<1> QED BY <1>1, UpToIs, ContentType DEF Reads

(* A mapping that is set replaces one or comes at the end.                 *)
LEMMA AddedType ==
    ASSUME NEW s \in Seq(Mappings), NEW m \in Mappings
    PROVE  Added(s, m) \in Seq(Mappings)
<1> DEFINE mine == {i \in DOMAIN s : s[i].copilotId = m.copilotId}
<1>1. CASE mine = {}
  BY <1>1 DEF Added
<1>2. CASE mine # {}
  <2> DEFINE i == CHOOSE i \in mine : \A j \in mine : i <= j
  <2>1. i \in mine
    <3>1. mine \in SUBSET Nat
      OBVIOUS
    <3> HIDE DEF mine
    <3> QED BY <1>2, <3>1, NatLeast
  <2>2. Added(s, m) = [s EXCEPT ![i] = m]
    BY <1>2 DEF Added
  <2> HIDE DEF i
  <2>3. i \in DOMAIN s
    BY <2>1
  <2> QED BY <2>2, <2>3
<1> QED BY <1>1, <1>2

LEMMA RemovedType ==
    ASSUME NEW s \in UpTo(Mappings), NEW id
    PROVE  Removed(s, id) \in UpTo(Mappings)
<1>1. s \in Seq(Mappings) /\ Len(s) <= MaxMappings
  BY UpToIs
<1> DEFINE S == {m \in Mappings : m.copilotId # id}
           t == Kept(s, S)
<1>2. t \in Seq(Mappings \cap S) /\ Len(t) <= Len(s)
  <2> HIDE DEF S
  <2> QED BY <1>1, KeptType
<1>3. Mappings \cap S \subseteq Mappings
  OBVIOUS
<1> HIDE DEF S
<1>4. Len(t) \in Nat /\ Len(s) \in Nat /\ t \in Seq(Mappings)
  <2> HIDE DEF t
  <2> QED BY <1>1, <1>2, <1>3
<1>5. Len(t) <= MaxMappings
  <2> HIDE DEF t
  <2> QED BY <1>1, <1>2, <1>4, ModelMapAssumption
<1> QED BY <1>4, <1>5, UpToIs DEF Removed, S

LEMMA ValidType ==
    ASSUME TypeOK, panel # NoPanel
    PROVE  Valid(panel) \in UpTo(Mappings) /\ Valid(panel) \in Seq(Mappings)
<1>1. panel \in Seq(Rows) /\ Len(panel) <= MaxMappings
  BY ContentType
<1> DEFINE t == Valid(panel)
<1>2. t \in Seq(Rows \cap Mappings) /\ Len(t) <= Len(panel)
  BY <1>1, KeptType DEF Valid
<1>3. Rows \cap Mappings \subseteq Mappings
  OBVIOUS
<1> HIDE DEF t
<1>4. Len(t) \in Nat /\ Len(panel) \in Nat /\ t \in Seq(Mappings)
  BY <1>1, <1>2, <1>3
<1>5. Len(t) <= MaxMappings
  BY <1>1, <1>2, <1>4, ModelMapAssumption
<1> QED BY <1>4, <1>5, UpToIs DEF t

(* What the lookups answer.                                                *)
LEMMA LookupTypes ==
    ASSUME NEW s \in Seq(Mappings), NEW id \in Ids
    PROVE  /\ ToDisplayID(s, id) \in Ids /\ ToCopilotID(s, id) \in Ids
           /\ ModelOfMessages(s, id) \in Ids
<1>1. ASSUME NEW k \in 1 .. Len(s) PROVE s[k].copilotId \in Ids /\ s[k].displayId \in Ids
  <2>1. s[k] \in Mappings
    OBVIOUS
  <2> QED BY <2>1, ModelMapAssumption DEF Mappings
<1>2. ToDisplayID(s, id) \in Ids
  BY <1>1, DisplayIs DEF FirstAbout
<1>3. ToCopilotID(s, id) \in Ids
  BY <1>1, CopilotIs
<1> QED BY <1>2, <1>3, ModelMapAssumption DEF ModelOfMessages

-----------------------------------------------------------------------------
LEMMA ShownSameIsReflexive ==
    ASSUME NEW R, NEW s \in Seq(R), NEW id
    PROVE  ShownSame(s, s, id)
BY FirstOrNone DEF ShownSame

(* A step that leaves the requests alone may only change the map.          *)
LEMMA RequestsStand ==
    ASSUME IInv, UNCHANGED request, changed' = (changed \/ file' # file)
    PROVE  AsksForAModel' /\ ServedAsListed'
<1>1. AsksForAModel'
  BY DEF IInv, AsksForAModel
<1>2. ASSUME ~changed' PROVE Content' = Content /\ ~changed
  <2>1. changed \in BOOLEAN
    BY DEF IInv, TypeOK
  <2> QED BY <1>2, <2>1 DEF Content
<1>3. ServedAsListed'
  <2> SUFFICES ASSUME ~changed' PROVE ServedAsListed'
    BY DEF ServedAsListed
  <2> QED BY <1>2 DEF IInv, ServedAsListed
<1> QED BY <1>1, <1>3

(* A step that leaves the panel alone either leaves the map or is noticed. *)
LEMMA PanelStands ==
    ASSUME IInv, UNCHANGED <<panel, edited>>, Noticed
    PROVE  PanelShows'
<1> SUFFICES ASSUME panel' # NoPanel, ~behind' PROVE PanelShows'
  BY DEF PanelShows
<1>1. Content' = Content /\ ~behind
  BY DEF Noticed, Content, IInv, TypeOK
<1> QED BY <1>1 DEF IInv, PanelShows

(* The store's steps: the file is another list, the panel and the requests *)
(* are as they were.                                                       *)
LEMMA FileStep ==
    ASSUME IInv, NEW t \in UpTo(Mappings), file' \in Written(t), Noticed,
           UNCHANGED <<panel, edited, request>>
    PROVE  IInv'
<1>1. TypeOK'
  <2>1. file' \in UpTo(Mappings) \cup {Torn}
    BY DEF Written, IInv, TypeOK
  <2>2. behind' \in BOOLEAN /\ changed' \in BOOLEAN
    BY DEF Noticed, IInv, TypeOK
  <2> QED BY <2>1, <2>2 DEF IInv, TypeOK
<1>2. AsksForAModel' /\ ServedAsListed'
  BY RequestsStand DEF Noticed
<1>3. PanelShows'
  BY PanelStands
<1> QED BY <1>1, <1>2, <1>3 DEF IInv

LEMMA AddStep ==
    ASSUME IInv, NEW s \in Reads, NEW m \in Mappings, AddModelMapping(s, m) PROVE IInv'
<1>1. s \in Seq(Mappings)
  BY ReadsType DEF IInv
<1>2. Added(s, m) \in UpTo(Mappings)
  BY <1>1, AddedType, UpToIs DEF AddModelMapping
<1> QED BY <1>2, FileStep DEF AddModelMapping

LEMMA DeleteStep ==
    ASSUME IInv, NEW s \in Reads, NEW id \in Models, DeleteModelMapping(s, id) PROVE IInv'
<1>1. Removed(s, id) \in UpTo(Mappings)
  BY ReadsType, RemovedType DEF IInv
<1> QED BY <1>1, FileStep DEF DeleteModelMapping

LEMMA SaveFailsStep == ASSUME IInv, SaveFails PROVE IInv'
<1>1. Valid(panel) \in UpTo(Mappings)
  BY ValidType DEF IInv, SaveFails
<1> QED BY <1>1, FileStep DEF SaveFails

LEMMA FetchStep == ASSUME IInv, FetchMappings PROVE IInv'
<1>1. PICK s \in Reads : panel' = s /\ behind' = (s # Content)
  BY DEF FetchMappings
<1>2. s \in Seq(Mappings) /\ s \in UpTo(Mappings)
  BY ReadsType DEF IInv
<1>3. UNCHANGED <<file, request, changed>> /\ edited' = {}
  BY DEF FetchMappings, clientVars
<1>4. TypeOK'
  <2>1. s \in UpTo(Mappings \cup {Incomplete})
    BY <1>2 DEF UpTo
  <2>2. panel' \in UpTo(Mappings \cup {Incomplete}) \cup {NoPanel} /\ behind' \in BOOLEAN
    BY <1>1, <2>1
  <2> QED BY <1>3, <2>2 DEF IInv, TypeOK
<1>5. AsksForAModel' /\ ServedAsListed'
  <2>1. changed' = (changed \/ file' # file)
    BY <1>3 DEF IInv, TypeOK
  <2> QED BY <1>3, <2>1, RequestsStand
<1>6. PanelShows'
  <2> SUFFICES ASSUME ~behind', NEW m \in Models PROVE ShownSame(Content', panel', m)
    BY DEF PanelShows
  <2>1. panel' = Content /\ Content' = Content
    BY <1>1, <1>3 DEF Content
  <2>2. Content \in Seq(Mappings)
    BY ContentType DEF IInv
  <2> QED BY <2>1, <2>2, ShownSameIsReflexive
<1> QED BY <1>4, <1>5, <1>6 DEF IInv

(* An edit of the panel is right if it keeps the models that are left.     *)
LEMMA EditIsRight ==
    ASSUME IInv, panel # NoPanel, panel' \in Seq(Rows), Len(panel') <= MaxMappings,
           edited \subseteq edited', edited' \subseteq Models,
           UNCHANGED <<file, behind, clientVars>>,
           \A m \in Models \ edited' : ShownSame(panel, panel', m)
    PROVE  IInv'
<1>1. TypeOK'
  <2>1. panel' \in UpTo(Rows)
    BY UpToIs
  <2> QED BY <2>1 DEF IInv, TypeOK, Rows, clientVars
<1>2. AsksForAModel' /\ ServedAsListed'
  <2>1. UNCHANGED request /\ changed' = (changed \/ file' # file)
    BY DEF clientVars, IInv, TypeOK
  <2> QED BY <2>1, RequestsStand
<1>3. PanelShows'
  <2> SUFFICES ASSUME ~behind', NEW m \in Models \ edited' PROVE ShownSame(Content', panel', m)
    BY DEF PanelShows
  <2>1. Content' = Content
    BY DEF Content
  <2>2. ShownSame(Content, panel, m)
    BY DEF IInv, PanelShows
  <2>3. ShownSame(panel, panel', m)
    OBVIOUS
  <2>4. Content \in Seq(Rows) /\ panel \in Seq(Rows)
    <3>1. Content \in Seq(Mappings) /\ Mappings \subseteq Rows
      BY ContentType DEF IInv, Rows
    <3> QED BY <3>1, ContentType DEF IInv
  <2>5. ShownSame(Content, panel', m)
    BY <2>2, <2>3, <2>4, ShownSameIsTransitive
  <2> QED BY <2>1, <2>5
<1> QED BY <1>1, <1>2, <1>3 DEF IInv

LEMMA AboutRows ==
    ASSUME NEW row \in Rows
    PROVE  About(row) \subseteq Models /\ \A m : m \notin About(row) => NotAbout(row, m)
<1>1. CASE row = Incomplete
  BY <1>1, MarksAssumption DEF About, NotAbout
<1>2. CASE row # Incomplete
  <2>1. row \in Mappings
    BY <1>2 DEF Rows
  <2>2. row.copilotId \in Models
    BY <2>1 DEF Mappings
  <2> QED BY <1>2, <2>2 DEF About, NotAbout
<1> QED BY <1>1, <1>2

LEMMA AddRowStep == ASSUME IInv, AddRow PROVE IInv'
<1>1. panel # NoPanel /\ panel \in Seq(Rows) /\ Len(panel) < MaxMappings
  BY ContentType DEF IInv, AddRow
<1>2. panel' = Append(panel, Incomplete) /\ UNCHANGED <<file, edited, behind, clientVars>>
  BY DEF AddRow
<1>3. Append(panel, Incomplete) \in Seq(Rows) /\ Len(Append(panel, Incomplete)) <= MaxMappings
  <2>1. Incomplete \in Rows
    BY DEF Rows
  <2> QED BY <1>1, <2>1, ModelMapAssumption
<1>4. \A m : ShownSame(panel, panel', m)
  BY <1>1, <1>2, AddedRowShows
<1>5. edited' = edited /\ edited \subseteq Models
  BY <1>2 DEF IInv, TypeOK
<1> QED BY <1>1, <1>2, <1>3, <1>4, <1>5, EditIsRight

LEMMA UpdateRowStep ==
    ASSUME IInv, panel # NoPanel, NEW i \in DOMAIN panel, NEW row \in Rows, UpdateRow(i, row)
    PROVE  IInv'
<1>1. panel \in Seq(Rows) /\ Len(panel) <= MaxMappings
  BY ContentType DEF IInv
<1>2. i \in 1 .. Len(panel) /\ panel[i] \in Rows
  BY <1>1
<1>3. /\ panel' = [panel EXCEPT ![i] = row]
      /\ edited' = edited \cup About(panel[i]) \cup About(row)
      /\ UNCHANGED <<file, behind, clientVars>>
  BY DEF UpdateRow
<1>4. panel' \in Seq(Rows) /\ Len(panel') <= MaxMappings
  BY <1>1, <1>2, <1>3
<1>5. edited \subseteq edited' /\ edited' \subseteq Models
  BY <1>2, <1>3, AboutRows DEF IInv, TypeOK
<1>6. ASSUME NEW m \in Models \ edited' PROVE ShownSame(panel, panel', m)
  <2>1. NotAbout(panel[i], m) /\ NotAbout(row, m)
    BY <1>2, <1>3, AboutRows
  <2> QED BY <1>1, <1>2, <1>3, <2>1, UpdatedRowShows
<1> QED BY <1>3, <1>4, <1>5, <1>6, EditIsRight

LEMMA RemoveRowStep ==
    ASSUME IInv, panel # NoPanel, NEW i \in DOMAIN panel, RemoveRow(i)
    PROVE  IInv'
<1>1. panel \in Seq(Rows) /\ Len(panel) <= MaxMappings
  BY ContentType DEF IInv
<1>2. i \in 1 .. Len(panel) /\ panel[i] \in Rows
  BY <1>1
<1>3. /\ panel' = SubSeq(panel, 1, i - 1) \o SubSeq(panel, i + 1, Len(panel))
      /\ edited' = edited \cup About(panel[i])
      /\ UNCHANGED <<file, behind, clientVars>>
  BY DEF RemoveRow
<1>4. /\ panel' \in Seq(Rows) /\ Len(panel') = Len(panel) - 1
      /\ \A j \in 1 .. Len(panel) - 1 : panel'[j] = IF j < i THEN panel[j] ELSE panel[j + 1]
  BY <1>1, <1>2, <1>3, RemovedRow
<1>5. Len(panel') <= MaxMappings
  BY <1>1, <1>4, ModelMapAssumption
<1>6. edited \subseteq edited' /\ edited' \subseteq Models
  BY <1>2, <1>3, AboutRows DEF IInv, TypeOK
<1>7. ASSUME NEW m \in Models \ edited' PROVE ShownSame(panel, panel', m)
  <2>1. NotAbout(panel[i], m)
    BY <1>2, <1>3, AboutRows
  <2> QED BY <1>1, <1>2, <1>4, <2>1, RemovedRowShows
<1> QED BY <1>3, <1>4, <1>5, <1>6, <1>7, EditIsRight

(* After a save the file and the panel are one.                            *)
LEMMA SaveStep == ASSUME IInv, SaveMappings PROVE IInv' /\ Content' = Valid(panel)
<1>1. Valid(panel) \in UpTo(Mappings) /\ Valid(panel) \in Seq(Mappings)
  BY ValidType DEF IInv, SaveMappings
<1>2. /\ file' = Valid(panel) /\ panel' = Valid(panel) /\ edited' = {} /\ behind' = FALSE
      /\ changed' = (changed \/ file' # file) /\ UNCHANGED request
  BY DEF SaveMappings
<1>3. Content' = Valid(panel)
  BY <1>1, <1>2, MarksAssumption DEF Content
<1>4. TypeOK'
  <2>1. panel' \in UpTo(Mappings \cup {Incomplete})
    BY <1>1, <1>2 DEF UpTo
  <2>2. changed' \in BOOLEAN
    BY <1>2 DEF IInv, TypeOK
  <2> QED BY <1>1, <1>2, <2>1, <2>2 DEF IInv, TypeOK
<1>5. AsksForAModel' /\ ServedAsListed'
  BY <1>2, RequestsStand
<1>6. PanelShows'
  BY <1>1, <1>2, <1>3, ShownSameIsReflexive DEF PanelShows
<1> QED BY <1>3, <1>4, <1>5, <1>6 DEF IInv

(* A client's steps leave the map and the panel alone.                     *)
LEMMA ClientStands ==
    ASSUME IInv, UNCHANGED <<file, panelVars>>
    PROVE  Content' = Content /\ PanelShows'
BY DEF Content, panelVars, IInv, PanelShows

\* What a request is made of.
Requests == [at : Steps, origin : Models \cup {None}, name : Ids \cup {None},
             messages : BOOLEAN, limit : Ids \cup {None}, sent : Ids \cup {None}]

LEMMA ListStep == ASSUME IInv, NEW m \in Models, ListModels(m) PROVE IInv'
<1>1. PICK s \in Reads :
          /\ request' = [NoRequest EXCEPT !.at = "listed", !.origin = m, !.name = ToDisplayID(s, m)]
          /\ changed' = (s # Content)
          /\ UNCHANGED <<file, panelVars>>
  BY DEF ListModels
<1>2. s \in Seq(Mappings)
  BY ReadsType DEF IInv
<1>3. m \in Ids /\ ToDisplayID(s, m) \in Ids
  BY <1>2, LookupTypes, ModelMapAssumption
<1>4. /\ request'.at = "listed" /\ request'.origin = m /\ request'.name = ToDisplayID(s, m)
      /\ request'.limit = None
  BY <1>1 DEF NoRequest
<1>5. TypeOK'
  <2>1. request' \in Requests
    BY <1>1, <1>3 DEF NoRequest, Requests, Steps
  <2> QED BY <1>1, <2>1 DEF IInv, TypeOK, Requests, panelVars
<1>6. AsksForAModel'
  BY <1>3, <1>4 DEF AsksForAModel
<1>7. ServedAsListed'
  <2>1. Content' = Content /\ (~changed' => s = Content)
    BY <1>1, ClientStands
  <2> QED BY <1>4, <2>1 DEF ServedAsListed
<1> QED BY <1>1, <1>5, <1>6, <1>7, ClientStands DEF IInv

(* One more lookup for the request, which is messages or was none yet.     *)
LEMMA LookupStep ==
    ASSUME IInv, NEW s \in Reads, UNCHANGED <<file, panelVars>>, request.at # "none",
           changed' = (changed \/ s # Content), request' \in Requests,
           request'.at # "none",
           request'.origin = request.origin, request'.name = request.name,
           \/ request'.limit = request.limit /\ (request.messages => request'.messages)
           \/ request'.limit = ModelOfMessages(s, request.name) /\ request'.messages,
           request'.at = "sent" =>
               request'.sent = IF request'.messages THEN ModelOfMessages(s, request.name)
                               ELSE ToCopilotID(s, request.name)
    PROVE  IInv'
<1>1. TypeOK'
  <2>1. changed' \in BOOLEAN
    BY DEF IInv, TypeOK
  <2> QED BY <2>1 DEF IInv, TypeOK, Requests, panelVars
<1>2. AsksForAModel'
  BY DEF IInv, AsksForAModel
<1>3. ServedAsListed'
  <2> SUFFICES ASSUME ~changed' PROVE ServedAsListed'
    BY DEF ServedAsListed
  <2>1. Content' = Content /\ s = Content /\ ~changed
    BY ClientStands DEF IInv, TypeOK
  <2>2. request.name = ToDisplayID(Content, request.origin)
    BY <2>1 DEF IInv, ServedAsListed
  <2>3. \/ request'.limit = None
        \/ request'.messages /\ request'.limit = ModelOfMessages(Content, request'.name)
    BY <2>1 DEF IInv, ServedAsListed
  <2> QED BY <2>1, <2>2, <2>3 DEF ServedAsListed
<1> QED BY <1>1, <1>2, <1>3, ClientStands DEF IInv

LEMMA LimitStep == ASSUME IInv, LookupMaxOutputTokens PROVE IInv'
<1>1. PICK s \in Reads :
          /\ request' = [request EXCEPT !.at = "limited", !.messages = TRUE,
                                        !.limit = ModelOfMessages(s, request.name)]
          /\ changed' = (changed \/ s # Content)
  BY DEF LookupMaxOutputTokens
<1>2. request.at # "none" /\ UNCHANGED <<file, panelVars>>
  BY DEF LookupMaxOutputTokens
<1>3. request \in Requests
  BY DEF IInv, TypeOK, Requests
<1>4. ModelOfMessages(s, request.name) \in Ids
  BY <1>2, ReadsType, LookupTypes DEF IInv, AsksForAModel
<1>5. /\ request' \in Requests /\ request'.at = "limited" /\ request'.messages
      /\ request'.limit = ModelOfMessages(s, request.name)
      /\ request'.origin = request.origin /\ request'.name = request.name
  BY <1>1, <1>3, <1>4 DEF Requests, Steps
<1> QED BY <1>1, <1>2, <1>5, LookupStep

LEMMA TranslateStep == ASSUME IInv, TranslateToOpenAI PROVE IInv'
<1>1. PICK s \in Reads :
          /\ request' = [request EXCEPT !.at = "sent", !.messages = TRUE,
                                        !.sent = ModelOfMessages(s, request.name)]
          /\ changed' = (changed \/ s # Content)
  BY DEF TranslateToOpenAI
<1>2. request.at # "none" /\ UNCHANGED <<file, panelVars>>
  BY DEF TranslateToOpenAI
<1>3. request \in Requests
  BY DEF IInv, TypeOK, Requests
<1>4. ModelOfMessages(s, request.name) \in Ids
  BY <1>2, ReadsType, LookupTypes DEF IInv, AsksForAModel
<1>5. /\ request' \in Requests /\ request'.at = "sent" /\ request'.messages
      /\ request'.sent = ModelOfMessages(s, request.name) /\ request'.limit = request.limit
      /\ request'.origin = request.origin /\ request'.name = request.name
  BY <1>1, <1>3, <1>4 DEF Requests, Steps
<1> QED BY <1>1, <1>2, <1>5, LookupStep

LEMMA OtherStep == ASSUME IInv, SendOther PROVE IInv'
<1>1. PICK s \in Reads :
          /\ request' = [request EXCEPT !.at = "sent", !.sent = ToCopilotID(s, request.name)]
          /\ changed' = (changed \/ s # Content)
  BY DEF SendOther
<1>2. request.at # "none" /\ ~request.messages /\ UNCHANGED <<file, panelVars>>
  BY DEF SendOther
<1>3. request \in Requests
  BY DEF IInv, TypeOK, Requests
<1>4. ToCopilotID(s, request.name) \in Ids
  BY <1>2, ReadsType, LookupTypes DEF IInv, AsksForAModel
<1>5. /\ request' \in Requests /\ request'.at = "sent" /\ request'.messages = request.messages
      /\ request'.sent = ToCopilotID(s, request.name) /\ request'.limit = request.limit
      /\ request'.origin = request.origin /\ request'.name = request.name
  BY <1>1, <1>3, <1>4 DEF Requests, Steps
<1> QED BY <1>1, <1>2, <1>5, LookupStep

-----------------------------------------------------------------------------
LEMMA InitInv == Init => IInv
<1> SUFFICES ASSUME Init PROVE IInv
  OBVIOUS
<1>1. << >> \in UpTo(Mappings)
  <2>1. << >> \in Seq(Mappings) /\ Len(<< >>) <= MaxMappings
    BY ModelMapAssumption
  <2> QED BY <2>1, UpToIs
<1> QED BY <1>1 DEF Init, IInv, TypeOK, NoRequest, Steps, AsksForAModel, ServedAsListed, PanelShows

LEMMA NextInv == IInv /\ [Next]_vars => IInv'
<1> SUFFICES ASSUME IInv, [Next]_vars PROVE IInv'
  OBVIOUS
<1>1. ASSUME NEW s \in Reads, NEW m \in Mappings, AddModelMapping(s, m) PROVE IInv'
  BY <1>1, AddStep
<1>2. ASSUME NEW s \in Reads, NEW id \in Models, DeleteModelMapping(s, id) PROVE IInv'
  BY <1>2, DeleteStep
<1>3. ASSUME EditRow PROVE IInv'
  <2>1. PICK i \in DOMAIN panel :
            RemoveRow(i) \/ \E row \in Mappings \cup {Incomplete} : UpdateRow(i, row)
    BY <1>3 DEF EditRow
  <2>2. panel # NoPanel
    BY <1>3 DEF EditRow
  <2>3. CASE RemoveRow(i)
    BY <2>2, <2>3, RemoveRowStep
  <2>4. ASSUME NEW row \in Rows, UpdateRow(i, row) PROVE IInv'
    BY <2>2, <2>4, UpdateRowStep
  <2> QED BY <2>1, <2>3, <2>4 DEF Rows
<1>4. ASSUME UNCHANGED vars PROVE IInv'
  <2>1. UNCHANGED <<file, panelVars>> /\ UNCHANGED clientVars
    BY <1>4 DEF vars
  <2>2. Content' = Content /\ PanelShows'
    BY <2>1, ClientStands
  <2>3. TypeOK'
    BY <2>1 DEF IInv, TypeOK, panelVars, clientVars
  <2>4. AsksForAModel' /\ ServedAsListed'
    BY <2>1, <2>2 DEF IInv, AsksForAModel, ServedAsListed, clientVars
  <2> QED BY <2>2, <2>3, <2>4 DEF IInv
<1> QED BY <1>1, <1>2, <1>3, <1>4, FetchStep, AddRowStep, SaveStep, SaveFailsStep,
           ListStep, LimitStep, TranslateStep, OtherStep
        DEF Next, Console, Client

(* The invariant holds in every state.                                     *)
THEOREM Invariance == Spec => []IInv
BY InitInv, NextInv, PTL DEF Spec

(* The file, the panel and the requests are what TypeOK says: a list that  *)
(* is edited and saved stays a list of rows, and what reaches the file     *)
(* have both their IDs.                                                    *)
THEOREM TypeCorrect == Spec => []TypeOK
<1>1. IInv => TypeOK
  BY DEF IInv
<1> QED BY <1>1, Invariance, PTL

(* A client gets the model whose name it was given in the list, and the    *)
(* limit of that model, for any map whose names differ.                    *)
THEOREM ListedIsServed == Spec => []ListedModelIsServed
<1>1. IInv => ListedModelIsServed
  <2> SUFFICES ASSUME IInv, request.at = "sent", ~changed, NamesDiffer,
                      request.messages => Base[request.origin] = request.origin
               PROVE  request.sent = request.origin /\ request.limit \in {None, request.origin}
    BY DEF ListedModelIsServed
  <2>1. request.origin \in Models
    BY DEF IInv, AsksForAModel
  <2>2. ToCopilotID(Content, request.name) = request.origin
    <3>1. request.name = ToDisplayID(Content, request.origin)
      BY DEF IInv, ServedAsListed
    <3> QED BY <2>1, <3>1, NamesLeadBack, ContentType DEF IInv
  <2>3. request.messages => ModelOfMessages(Content, request.name) = request.origin
    BY <2>2 DEF ModelOfMessages
  <2> QED BY <2>2, <2>3 DEF IInv, ServedAsListed
<1> QED BY <1>1, Invariance, PTL

(* Saving the panel renames no model whose rows were left alone, whatever  *)
(* rows were added, changed and taken away before.                         *)
THEOREM SavedKeepsTheRest == Spec => SaveKeepsTheRest
<1>1. IInv /\ [Next]_vars =>
          [SaveMappings /\ ~behind =>
               \A m \in Models \ edited :
                   ToDisplayID(Content', m) = ToDisplayID(Content, m)]_vars
  <2> SUFFICES ASSUME IInv, SaveMappings, ~behind, NEW m \in Models \ edited
               PROVE  ToDisplayID(Content', m) = ToDisplayID(Content, m)
    OBVIOUS
  <2>1. panel # NoPanel
    BY DEF SaveMappings
  <2>2. ShownSame(Content, panel, m)
    BY <2>1 DEF IInv, PanelShows
  <2>3. Content \in Seq(Mappings) /\ panel \in Seq(Rows) /\ Valid(panel) \in Seq(Mappings)
    BY <2>1, ContentType, ValidType DEF IInv
  <2>4. ShownSame(panel, Valid(panel), m)
    BY <2>3, KeptShown DEF Valid
  <2>5. ShownSame(Content, Valid(panel), m)
    <3>1. Mappings \subseteq Rows
      BY DEF Rows
    <3>2. Content \in Seq(Rows) /\ Valid(panel) \in Seq(Rows)
      BY <2>3, <3>1
    <3> QED BY <2>2, <2>3, <2>4, <3>2, ShownSameIsTransitive
  <2>6. ToDisplayID(Content, m) = ToDisplayID(Valid(panel), m)
    BY <2>3, <2>5, ShownSameDisplays
  <2> QED BY <2>6, SaveStep
<1> QED BY <1>1, Invariance, PTL DEF Spec, SaveKeepsTheRest

-----------------------------------------------------------------------------
(* The accounts. *)

(* Who is about to write holds accountMu, and nobody else does.            *)
WriterHolds == \A w \in Workers : pc[w] \in {"edited", "truncated"} <=> holder = w

(* What it is about to write is an edit of what the file still holds.      *)
EditIsFresh == \A w \in Workers : pc[w] = "edited" => list[w] = readAccounts

(* Whoever has truncated the file finds it so when he writes.              *)
TruncatedIsTorn == \A w \in Workers : pc[w] = "truncated" => accountsFile = TornAccounts

(* It has something to do and has found the account to do it to.           *)
EditFound ==
    \A w \in Workers : pc[w] \in {"edited", "truncated"} =>
        op[w].kind # "none" /\ Finds(op[w], list[w])

(* Every ID and every key in the book has been issued.                     *)
BookIsIssued == InUse(Book) \subseteq issued

(* The inductive invariant. *)
AccountsInv ==
    /\ AccountsTypeOK
    /\ WriterHolds
    /\ EditIsFresh
    /\ TruncatedIsTorn
    /\ EditFound
    /\ BookIsIssued

-----------------------------------------------------------------------------
(* What the operations do to a list. *)

LEMMA OpShape ==
    ASSUME NEW o \in Ops
    PROVE  /\ o.kind \in {"none", "add", "delete", "rekey", "update"}
           /\ o.kind \in {"delete", "rekey", "update"} => o.id \in AccountIds
           /\ o.kind = "update" => o.enabled \in BOOLEAN
BY DEF Ops

LEMMA EntryOfList ==
    ASSUME NEW l \in Lists, NEW i \in AccountIds, l[i] # NoAccount
    PROVE  l[i] \in Records /\ l[i].key \in ApiKeys /\ l[i].enabled \in BOOLEAN
BY DEF Lists, Records

LEMMA ListWithEntry ==
    ASSUME NEW l \in Lists, NEW i \in AccountIds,
           NEW r \in Records \cup {NoAccount}
    PROVE  [l EXCEPT ![i] = r] \in Lists
BY DEF Lists

(* The book after an operation: still a list, and with nothing new in it   *)
(* but what the operation was issued.                                      *)
LEMMA EditedIsList ==
    ASSUME NEW o \in Ops, NEW l \in Lists,
           NEW i \in AccountIds, NEW k \in ApiKeys,
           o.kind # "none", Finds(o, l)
    PROVE  Edited(o, l, i, k) \in Lists
<1>1. ASSUME NEW key \in ApiKeys, NEW e \in BOOLEAN
      PROVE  [key |-> key, enabled |-> e] \in Records
  BY DEF Records
<1>2. CASE o.kind = "add"
  BY <1>1, <1>2, ListWithEntry DEF Edited
<1>3. CASE o.kind = "update"
  <2>1. l[o.id].key \in ApiKeys /\ o.enabled \in BOOLEAN /\ o.id \in AccountIds
    BY <1>3, OpShape, EntryOfList DEF Finds
  <2>2. [key |-> l[o.id].key, enabled |-> o.enabled] \in Records
    BY <1>1, <2>1
  <2> QED BY <1>3, <2>1, <2>2, ListWithEntry DEF Edited
<1>4. CASE o.kind = "delete"
  BY <1>4, OpShape, ListWithEntry DEF Edited
<1>5. CASE o.kind = "rekey"
  <2>1. l[o.id].enabled \in BOOLEAN /\ o.id \in AccountIds
    BY <1>5, OpShape, EntryOfList DEF Finds
  <2>2. [key |-> k, enabled |-> l[o.id].enabled] \in Records
    BY <1>1, <2>1
  <2> QED BY <1>5, <2>1, <2>2, ListWithEntry DEF Edited
<1> QED BY <1>2, <1>3, <1>4, <1>5, OpShape

LEMMA EditedUse ==
    ASSUME NEW o \in Ops, NEW l \in Lists,
           NEW i \in AccountIds, NEW k \in ApiKeys,
           o.kind # "none", Finds(o, l)
    PROVE  InUse(Edited(o, l, i, k))
               \subseteq InUse(l) \cup Issues(o, i, k)
<1>1. ASSUME NEW x \in AccountIds, NEW r,
             x \in Present(l) \/ x \in Issues(o, i, k),
             r = NoAccount \/ r.key \in InUse(l) \cup Issues(o, i, k)
      PROVE  InUse([l EXCEPT ![x] = r])
                 \subseteq InUse(l) \cup Issues(o, i, k)
  <2> DEFINE m == [l EXCEPT ![x] = r]
  <2>1. ASSUME NEW y \in Present(m)
        PROVE  /\ y \in InUse(l) \cup Issues(o, i, k)
               /\ m[y].key \in InUse(l) \cup Issues(o, i, k)
    <3>1. CASE y = x
      BY <1>1, <2>1, <3>1 DEF Present, InUse, Lists
    <3>2. CASE y # x
      BY <1>1, <2>1, <3>2 DEF Present, InUse, Lists
    <3> QED BY <3>1, <3>2
  <2> HIDE DEF m
  <2>2. InUse(m) \subseteq InUse(l) \cup Issues(o, i, k)
    BY <2>1 DEF InUse
  <2> QED BY <2>2 DEF m
<1>2. CASE o.kind = "add"
  BY <1>1, <1>2 DEF Edited, Issues
<1>3. CASE o.kind = "update"
  BY <1>1, <1>3, OpShape DEF Edited, Finds, Present, InUse
<1>4. CASE o.kind = "delete"
  <2>1. ASSUME NEW y \in Present([l EXCEPT ![o.id] = NoAccount])
        PROVE  y \in Present(l) /\ [l EXCEPT ![o.id] = NoAccount][y] = l[y]
    BY <2>1, <1>4, OpShape DEF Present, Lists
  <2> QED BY <1>4, <2>1 DEF Edited, InUse
<1>5. CASE o.kind = "rekey"
  BY <1>1, <1>5, OpShape DEF Edited, Issues, Finds, Present
<1> QED BY <1>2, <1>3, <1>4, <1>5, OpShape

LEMMA NothingInUse == InUse(NoAccounts) = {}
BY DEF InUse, Present, NoAccounts

LEMMA NoAccountsIsList == NoAccounts \in Lists
BY DEF NoAccounts, Lists

-----------------------------------------------------------------------------
LEMMA AccountsInvInit == AccountsInit => AccountsInv
<1> SUFFICES ASSUME AccountsInit PROVE AccountsInv OBVIOUS
<1> USE DEF AccountsInit
<1>1. AccountsTypeOK
  <2>1. NoOp \in Ops
    BY DEF NoOp, Ops
  <2> QED BY <2>1, NoAccountsIsList DEF AccountsTypeOK
<1>2. WriterHolds /\ EditIsFresh /\ TruncatedIsTorn /\ EditFound
  BY AccountFileAssumption DEF WriterHolds, EditIsFresh, TruncatedIsTorn, EditFound
<1>3. Book = NoAccounts
  BY NoAccountsIsList, AccountFileAssumption DEF Book, readAccounts
<1>4. BookIsIssued
  BY <1>3, NothingInUse DEF BookIsIssued
<1> QED BY <1>1, <1>2, <1>4 DEF AccountsInv

LEMMA AccountsTypeNext == AccountsInv /\ [AccountsNext]_accountsVars => AccountsTypeOK'
<1> SUFFICES ASSUME AccountsInv, [AccountsNext]_accountsVars PROVE AccountsTypeOK'
  OBVIOUS
<1> USE DEF AccountsInv, AccountsTypeOK
<1>1. NoOp \in Ops
  BY DEF NoOp, Ops
<1>2. readAccounts \in Lists
  BY NoAccountsIsList DEF readAccounts
<1>3. ASSUME NEW w \in Workers,
             \/ GetAccounts(w) \/ HasRead(w) \/ OpenFails(w)
             \/ Truncate(w) \/ WriteFails(w)
      PROVE  AccountsTypeOK'
  BY <1>1, <1>2, <1>3, NoAccountsIsList DEF GetAccounts, HasRead,
                                            OpenFails, Truncate,
                                            WriteFails, Return
<1>4. ASSUME NEW w \in Workers, NEW o \in Ops \ {NoOp}, LockAndRead(w, o)
      PROVE  AccountsTypeOK'
  BY <1>2, <1>4 DEF LockAndRead
<1>5. ASSUME NEW w \in Workers, NEW i \in AccountIds, NEW k \in ApiKeys, Write(w, i, k)
      PROVE  AccountsTypeOK'
  <2>1. Edited(op[w], list[w], i, k) \in Lists
    BY <1>5, EditedIsList DEF Write, EditFound
  <2>2. Issues(op[w], i, k) \subseteq AccountIds \cup ApiKeys
    BY DEF Issues
  <2> QED BY <1>1, <1>5, <2>1, <2>2, NoAccountsIsList DEF Write, Return
<1>6. CASE Crash
  BY <1>1, <1>6, NoAccountsIsList DEF Crash
<1>7. CASE UNCHANGED accountsVars
  BY <1>7 DEF accountsVars, workerVars
<1> QED BY <1>3, <1>4, <1>5, <1>6, <1>7 DEF AccountsNext

LEMMA LockNext ==
    AccountsInv /\ [AccountsNext]_accountsVars =>
        (WriterHolds /\ EditIsFresh /\ TruncatedIsTorn /\ EditFound)'
<1> SUFFICES ASSUME AccountsInv, [AccountsNext]_accountsVars
             PROVE  WriterHolds' /\ EditIsFresh' /\ TruncatedIsTorn' /\ EditFound'
  OBVIOUS
<1> USE AccountFileAssumption DEF AccountsInv, AccountsTypeOK, WriterHolds, EditIsFresh,
                             TruncatedIsTorn, EditFound
<1>1. ASSUME NEW w \in Workers, GetAccounts(w) \/ HasRead(w)
      PROVE  WriterHolds' /\ EditIsFresh' /\ TruncatedIsTorn' /\ EditFound'
  BY <1>1 DEF GetAccounts, HasRead, Return, readAccounts
<1>2. ASSUME NEW w \in Workers, NEW o \in Ops \ {NoOp}, LockAndRead(w, o)
      PROVE  WriterHolds' /\ EditIsFresh' /\ TruncatedIsTorn' /\ EditFound'
  <2>1. o.kind # "none"
    BY DEF Ops, NoOp
  <2> QED BY <1>2, <2>1 DEF LockAndRead, readAccounts
<1>3. ASSUME NEW w \in Workers, OpenFails(w) \/ WriteFails(w)
      PROVE  WriterHolds' /\ EditIsFresh' /\ TruncatedIsTorn' /\ EditFound'
  BY <1>3 DEF OpenFails, WriteFails, Return, readAccounts
<1>4. ASSUME NEW w \in Workers, Truncate(w)
      PROVE  WriterHolds' /\ EditIsFresh' /\ TruncatedIsTorn' /\ EditFound'
  BY <1>4 DEF Truncate, readAccounts
<1>5. ASSUME NEW w \in Workers, NEW i \in AccountIds, NEW k \in ApiKeys, Write(w, i, k)
      PROVE  WriterHolds' /\ EditIsFresh' /\ TruncatedIsTorn' /\ EditFound'
  BY <1>5 DEF Write, Return, readAccounts
<1>6. CASE Crash
  BY <1>6 DEF Crash
<1>7. CASE UNCHANGED accountsVars
  BY <1>7 DEF accountsVars, workerVars, readAccounts
<1> QED BY <1>1, <1>2, <1>3, <1>4, <1>5, <1>6, <1>7 DEF AccountsNext
(* What a step does to the book: nothing, one operation, or a loss.        *)
LEMMA BookStep ==
    ASSUME AccountsInv, [AccountsNext]_accountsVars
    PROVE  \/ Book' = Book /\ issued' = issued /\ mishap' = mishap
           \/ \E w \in Workers, i \in AccountIds, k \in ApiKeys :
                 /\ Write(w, i, k)
                 /\ Book = list[w]
                 /\ Book' = Edited(op[w], list[w], i, k)
           \/ Book' = NoAccounts /\ mishap' = TRUE /\ issued' = issued
<1> USE AccountFileAssumption
    DEF AccountsInv, AccountsTypeOK, WriterHolds, EditIsFresh, TruncatedIsTorn
<1>1. ASSUME NEW w \in Workers, GetAccounts(w) \/ HasRead(w)
      PROVE  Book' = Book /\ issued' = issued /\ mishap' = mishap
  BY <1>1 DEF GetAccounts, HasRead, Return, Book,
              readAccounts
<1>2. ASSUME NEW w \in Workers, NEW o \in Ops \ {NoOp}, LockAndRead(w, o)
      PROVE  Book' = Book /\ issued' = issued /\ mishap' = mishap
  BY <1>2 DEF LockAndRead, Book, readAccounts
<1>3. ASSUME NEW w \in Workers, OpenFails(w) \/ Truncate(w)
      PROVE  Book' = Book /\ issued' = issued /\ mishap' = mishap
  BY <1>3 DEF OpenFails, Truncate, Return, Book,
              readAccounts
<1>4. ASSUME NEW w \in Workers, WriteFails(w)
      PROVE  Book' = NoAccounts /\ mishap' = TRUE /\ issued' = issued
  BY <1>4 DEF WriteFails, Return, Book, readAccounts
<1>5. ASSUME NEW w \in Workers, NEW i \in AccountIds, NEW k \in ApiKeys, Write(w, i, k)
      PROVE  Book = list[w] /\ Book' = Edited(op[w], list[w], i, k)
  <2>1. Edited(op[w], list[w], i, k) \in Lists
    BY <1>5, EditedIsList DEF Write, EditFound
  <2> QED BY <1>5, <2>1 DEF Write, Book, readAccounts
<1>6. CASE Crash
  <2>1. Book' = readAccounts /\ issued' = issued
    BY <1>6 DEF Crash, Book, readAccounts
  <2>2. CASE \E w \in Workers : pc[w] = "truncated"
    BY <1>6, <2>1, <2>2 DEF Crash, readAccounts
  <2>3. CASE \A w \in Workers : pc[w] # "truncated"
    BY <1>6, <2>1, <2>3 DEF Crash, Book
  <2> QED BY <2>1, <2>2, <2>3
<1>7. CASE UNCHANGED accountsVars
  BY <1>7 DEF accountsVars, workerVars, Book, readAccounts
<1> QED BY <1>1, <1>2, <1>3, <1>4, <1>5, <1>6, <1>7 DEF AccountsNext

LEMMA IssuedNext == AccountsInv /\ [AccountsNext]_accountsVars => BookIsIssued'
<1> SUFFICES ASSUME AccountsInv, [AccountsNext]_accountsVars PROVE BookIsIssued'
  OBVIOUS
<1>1. CASE Book' = Book /\ issued' = issued
  BY <1>1 DEF AccountsInv, BookIsIssued, InUse, Present
<1>2. ASSUME NEW w \in Workers, NEW i \in AccountIds, NEW k \in ApiKeys, Write(w, i, k),
             Book = list[w], Book' = Edited(op[w], list[w], i, k)
      PROVE  BookIsIssued'
  <2>1. InUse(Edited(op[w], list[w], i, k))
            \subseteq InUse(list[w]) \cup Issues(op[w], i, k)
    BY <1>2, EditedUse DEF AccountsInv, AccountsTypeOK, EditFound, Write
  <2>2. issued' = issued \cup Issues(op[w], i, k)
    BY <1>2 DEF Write
  <2>3. InUse(Book') \subseteq issued'
    BY <1>2, <2>1, <2>2 DEF AccountsInv, BookIsIssued
  <2> QED BY <2>3 DEF BookIsIssued, InUse, Present
<1>3. CASE Book' = NoAccounts
  <2>1. InUse(Book') = {}
    BY <1>3, NothingInUse
  <2> QED BY <2>1 DEF BookIsIssued, InUse, Present
<1> QED BY <1>1, <1>2, <1>3, BookStep

LEMMA AccountsInvHolds == AccountsSpec => []AccountsInv
<1>1. AccountsInv /\ [AccountsNext]_accountsVars => AccountsInv'
  BY AccountsTypeNext, LockNext, IssuedNext DEF AccountsInv
<1> QED BY <1>1, AccountsInvInit, PTL DEF AccountsSpec

(* The types of AccountFile are right.                                     *)
THEOREM AccountsTypeCorrect == AccountsSpec => []AccountsTypeOK
<1>1. AccountsInv => AccountsTypeOK
  BY DEF AccountsInv
<1> QED BY <1>1, AccountsInvHolds, PTL

(* A handler that reads accounts.json gets all of the book: it cannot come *)
(* in while the file is truncated, because the writer holds accountMu.     *)
THEOREM HandlersReadAll == AccountsSpec => ReadsAreWhole
<1>1. ASSUME AccountsInv, [AccountsNext]_accountsVars,
             NEW w \in Workers, pc[w] = "idle", pc'[w] # "idle"
      PROVE  list'[w] = Book
  <2> USE DEF AccountsInv, AccountsTypeOK
  <2>1. \/ GetAccounts(w)
        \/ \E o \in Ops \ {NoOp} : LockAndRead(w, o)
    BY <1>1 DEF AccountsNext, GetAccounts, HasRead, OpenFails,
                Truncate, WriteFails, Write, LockAndRead,
                Crash, Return, accountsVars, workerVars
  <2> QED BY <1>1, <2>1 DEF GetAccounts, LockAndRead, Book
<1>2. AccountsInv /\ [AccountsNext]_accountsVars
        => [\A w \in Workers :
                pc[w] = "idle" /\ pc'[w] # "idle" => list'[w] = Book]_accountsVars
  BY <1>1
<1> QED BY <1>2, AccountsInvHolds, PTL DEF AccountsSpec, ReadsAreWhole

(* No ID and no API key comes back once it is out of use: what a writer    *)
(* puts in the book is what was there when he took accountMu, and new IDs. *)
THEOREM GoneForGood == AccountsSpec => NothingComesBack
<1>1. ASSUME AccountsInv, [AccountsNext]_accountsVars,
             NEW x \in issued, x \notin InUse(Book)
      PROVE  x \notin InUse(Book')
  <2>1. CASE Book' = Book
    BY <1>1, <2>1
  <2>2. ASSUME NEW w \in Workers, NEW i \in AccountIds, NEW k \in ApiKeys, Write(w, i, k),
               Book = list[w], Book' = Edited(op[w], list[w], i, k)
        PROVE  x \notin InUse(Book')
    <3>1. InUse(Edited(op[w], list[w], i, k))
              \subseteq InUse(list[w]) \cup Issues(op[w], i, k)
      BY <1>1, <2>2, EditedUse DEF AccountsInv, AccountsTypeOK, EditFound, Write
    <3>2. x \notin Issues(op[w], i, k)
      BY <1>1, <2>2 DEF Write
    <3> QED BY <1>1, <2>2, <3>1, <3>2
  <2>3. CASE Book' = NoAccounts
    BY <2>3, NothingInUse
  <2> QED BY <1>1, <2>1, <2>2, <2>3, BookStep
<1>2. AccountsInv /\ [AccountsNext]_accountsVars
        => [\A x \in issued : x \notin InUse(Book) =>
                x \notin InUse(Book')]_accountsVars
  BY <1>1
<1> QED BY <1>2, AccountsInvHolds, PTL DEF AccountsSpec, NothingComesBack

-----------------------------------------------------------------------------
(* AccountFile implements AccountBook. *)

LEMMA NextImplements == AccountsInv /\ [AccountsNext]_accountsVars => [Abs!Next]_(Abs!vars)
<1> SUFFICES ASSUME AccountsInv, [AccountsNext]_accountsVars
             PROVE  [Abs!Next]_(Abs!vars)
  OBVIOUS
<1>1. CASE Book' = Book /\ issued' = issued /\ mishap' = mishap
  BY <1>1 DEF Abs!vars
<1>2. ASSUME NEW w \in Workers, NEW i \in AccountIds, NEW k \in ApiKeys, Write(w, i, k),
             Book = list[w], Book' = Edited(op[w], list[w], i, k)
      PROVE  Abs!Next
  <2> DEFINE o == op[w]
  <2>1. /\ o \in Ops /\ o.kind # "none" /\ Finds(o, Book)
        /\ Issues(o, i, k) \cap issued = {}
        /\ issued' = issued \cup Issues(o, i, k)
        /\ mishap' = mishap
    BY <1>2 DEF AccountsInv, AccountsTypeOK, EditFound, Write
  <2>2. Book' = Edited(o, Book, i, k)
    BY <1>2
  <2> HIDE DEF o
  <2>3. CASE o.kind = "add"
    <3>1. Abs!AddAccount(i, k)
      BY <2>1, <2>2, <2>3 DEF Abs!AddAccount, Edited, Issues
    <3> QED BY <2>1, <3>1 DEF Abs!Next, Abs!Operation
  <2>4. CASE o.kind = "update"
    <3>1. o.id \in AccountIds /\ o.enabled \in BOOLEAN
      BY <2>1, <2>4, OpShape
    <3>2. Issues(o, i, k) = {}
      BY <2>4 DEF Issues
    <3>3. Abs!UpdateAccount(o.id, o.enabled)
      BY <2>1, <2>2, <2>4, <3>2 DEF Abs!UpdateAccount, Edited, Finds
    <3> QED BY <2>1, <3>1, <3>3 DEF Abs!Next, Abs!Operation
  <2>5. CASE o.kind = "delete"
    <3>1. o.id \in AccountIds
      BY <2>1, <2>5, OpShape
    <3>2. Issues(o, i, k) = {}
      BY <2>5 DEF Issues
    <3>3. Abs!DeleteAccount(o.id)
      BY <2>1, <2>2, <2>5, <3>2 DEF Abs!DeleteAccount, Edited
    <3> QED BY <2>1, <3>1, <3>3 DEF Abs!Next, Abs!Operation
  <2>6. CASE o.kind = "rekey"
    <3>1. o.id \in AccountIds
      BY <2>1, <2>6, OpShape
    <3>2. Issues(o, i, k) = {k}
      BY <2>6 DEF Issues
    <3>3. Abs!RegenerateApiKey(o.id, k)
      BY <2>1, <2>2, <2>6, <3>2 DEF Abs!RegenerateApiKey, Edited, Finds
    <3> QED BY <2>1, <3>1, <3>3 DEF Abs!Next, Abs!Operation
  <2> QED BY <2>1, <2>3, <2>4, <2>5, <2>6, OpShape
<1>3. CASE Book' = NoAccounts /\ mishap' = TRUE /\ issued' = issued
  BY <1>3 DEF Abs!Next, Abs!Lose, Abs!Empty, NoAccounts
<1> QED BY <1>1, <1>2, <1>3, BookStep

(* Whatever handlers do at the same time, whatever writes fail and whenever*)
(* the process dies, the accounts change as AccountBook says.              *)
THEOREM KeepsTheBook == AccountsSpec => ImplementsAccountBook
<1>1. AccountsInit => Abs!Init
  BY NoAccountsIsList, AccountFileAssumption
     DEF AccountsInit, Abs!Init, Abs!Empty, NoAccounts, Book,
         readAccounts
<1>2. AccountsSpec => Abs!Init /\ [][Abs!Next]_(Abs!vars)
  BY <1>1, NextImplements, AccountsInvHolds, PTL DEF AccountsSpec
<1> QED BY <1>2 DEF ImplementsAccountBook, Abs!Spec

-----------------------------------------------------------------------------
(* The pool's settings. *)

Safe(cfg) == cfg.enabled => cfg.key # NoKey

(* Every copy of the settings that may get into the file is safe.          *)
CopiesAreSafe == Safe(PoolSettings) /\ \A c \in Consoles : Safe(existing[c])

(* A handler that has shared its time with no other is the only one, and   *)
(* none runs between the read and the write of RegisterProxy.              *)
OneHandler ==
    ~overlapped =>
        /\ \A c, d \in Consoles : c # d => consolePc[c] = "idle" \/ consolePc[d] = "idle"
        /\ proxyPc = "read" => \A c \in Consoles : consolePc[c] = "idle"

(* What an undisturbed update has merged is still what the file says, but  *)
(* for what the update mentions.                                           *)
Keeps(u, cfg, old) ==
    /\ u.enabled = Keep => cfg.enabled = old.enabled
    /\ u.rpm = Keep => cfg.rpm = old.rpm
    /\ old.key # NoKey => cfg.key = old.key

MergeIsFresh ==
    \A c \in Consoles : ~overlapped /\ ~updateMisread /\ consolePc[c] = "merged" =>
        Keeps(update[c], existing[c], PoolSettings)

(* What it has written is in the file.                                     *)
WrittenIsInFile ==
    \A c \in Consoles : ~overlapped /\ consolePc[c] = "written" => poolFile = existing[c]

(* What RegisterProxy has read undisturbed is what the file says.          *)
StartIsFresh ==
    ~overlapped /\ ~poolMishap /\ ~startMisread /\ proxyPc = "read" =>
        startRPM = PoolSettings.rpm

(* The inductive invariant. *)
PoolInv ==
    /\ PoolTypeOK
    /\ CopiesAreSafe
    /\ OneHandler
    /\ MergeIsFresh
    /\ WrittenIsInFile
    /\ StartIsFresh
    /\ LimiterFollowsSettings

-----------------------------------------------------------------------------
LEMMA DefaultIsConfig == Default \in Config /\ NoUpdate \in Update /\ Safe(Default)
BY PoolConfigAssumption, TornAssumption DEF Default, Config, NoUpdate, Update, Safe

LEMMA PoolSettingsType == PoolTypeOK => PoolSettings \in Config
BY DefaultIsConfig DEF PoolTypeOK, PoolSettings

(* What merging keeps and what it makes safe.                              *)
LEMMA MergedIsConfig ==
    ASSUME NEW cfg \in Config, NEW u \in Update, NEW k \in PoolKeys
    PROVE  /\ Merged(cfg, u, k) \in Config
           /\ Safe(Merged(cfg, u, k))
           /\ Keeps(u, Merged(cfg, u, k), cfg)
<1> USE PoolConfigAssumption, TornAssumption
<1>1. Field(u.enabled, cfg.enabled) \in BOOLEAN /\ Field(u.rpm, cfg.rpm) \in RPMs \cup {0}
  BY DEF Field, Config, Update
<1>2. CASE NeedsKey(cfg, u)
  BY <1>1, <1>2 DEF Merged, NeedsKey, Config, Safe, Field, Keeps
<1>3. CASE ~NeedsKey(cfg, u)
  BY <1>1, <1>3 DEF Merged, NeedsKey, Config, Safe, Field, Keeps
<1> QED BY <1>2, <1>3

LEMMA PoolInvInit == PoolInit => PoolInv
<1> SUFFICES ASSUME PoolInit PROVE PoolInv OBVIOUS
<1> USE DefaultIsConfig DEF PoolInit
<1>1. PoolSettings = Default
  BY DEF PoolSettings
<1>2. PoolTypeOK
  BY DEF PoolTypeOK
<1>3. CopiesAreSafe /\ LimiterFollowsSettings
  BY <1>1 DEF CopiesAreSafe, LimiterFollowsSettings, Default
<1>4. OneHandler /\ MergeIsFresh /\ WrittenIsInFile /\ StartIsFresh
  BY DEF OneHandler, MergeIsFresh, WrittenIsInFile, StartIsFresh
<1> QED BY <1>2, <1>3, <1>4 DEF PoolInv

-----------------------------------------------------------------------------
(* The steps *)

LEMMA ReadAndMergeInv ==
    ASSUME PoolInv, NEW c \in Consoles, NEW u \in Update, NEW k \in PoolKeys,
           ReadAndMerge(c, u, k)
    PROVE  PoolInv'
<1>1. PICK cfg \in GetPoolConfig :
         /\ existing' = [existing EXCEPT ![c] = Merged(cfg, u, k)]
         /\ updateMisread' = (cfg # PoolSettings)
         /\ generated' \in {generated, generated \cup {k}}
  BY DEF ReadAndMerge
<1> DEFINE new == Merged(cfg, u, k)
<1>2. new \in Config /\ Safe(new) /\ Keeps(u, new, cfg)
  BY <1>1, PoolSettingsType, DefaultIsConfig, MergedIsConfig DEF PoolInv, GetPoolConfig
<1>3. /\ consolePc[c] = "idle" /\ consolePc' = [consolePc EXCEPT ![c] = "merged"]
      /\ update' = [update EXCEPT ![c] = u]
      /\ existing' = [existing EXCEPT ![c] = new]
      /\ overlapped' = Crowded(c)
      /\ UNCHANGED <<poolFile, perAccountRPM, proxyPc, startRPM, poolMishap, startMisread>>
  BY <1>1 DEF ReadAndMerge, proxyVars
<1>4. PoolSettings' = PoolSettings
  BY <1>3 DEF PoolSettings
<1> HIDE DEF new
<1>5. PoolTypeOK'
  BY <1>1, <1>2, <1>3 DEF PoolInv, PoolTypeOK, Crowded
<1>6. CopiesAreSafe'
  BY <1>2, <1>3, <1>4 DEF PoolInv, PoolTypeOK, CopiesAreSafe
<1>7. OneHandler' /\ WrittenIsInFile' /\ StartIsFresh'
  BY <1>3 DEF PoolInv, PoolTypeOK, OneHandler, WrittenIsInFile, StartIsFresh, Crowded
<1>8. LimiterFollowsSettings'
  BY <1>3 DEF PoolInv, PoolTypeOK, LimiterFollowsSettings, Quiet
<1>9. MergeIsFresh'
  BY <1>1, <1>2, <1>3, <1>4 DEF PoolInv, PoolTypeOK, MergeIsFresh, Crowded
<1> QED BY <1>5, <1>6, <1>7, <1>8, <1>9 DEF PoolInv

LEMMA WriteInv ==
    ASSUME PoolInv, NEW c \in Consoles,
           UpdatePoolConfig(c) \/ UpdateFails(c)
    PROVE  PoolInv'
<1> USE DefaultIsConfig DEF Done, proxyVars, poolHistory
<1>1. CASE UpdatePoolConfig(c)
  <2>1. PoolSettings' = existing[c]
    BY <1>1, PoolConfigAssumption, TornAssumption
       DEF PoolInv, PoolTypeOK, UpdatePoolConfig, PoolSettings
  <2>2. PoolTypeOK' /\ CopiesAreSafe'
    BY <1>1, <2>1 DEF PoolInv, PoolTypeOK, CopiesAreSafe, UpdatePoolConfig
  <2>3. OneHandler' /\ WrittenIsInFile' /\ MergeIsFresh' /\ StartIsFresh'
    BY <1>1, <2>1 DEF PoolInv, PoolTypeOK, OneHandler, WrittenIsInFile, MergeIsFresh,
                      StartIsFresh, UpdatePoolConfig
  <2>4. LimiterFollowsSettings'
    BY <1>1 DEF PoolInv, PoolTypeOK, LimiterFollowsSettings, Quiet, UpdatePoolConfig
  <2> QED BY <2>2, <2>3, <2>4 DEF PoolInv
<1>2. CASE UpdateFails(c)
  <2>1. PoolSettings' \in {PoolSettings, Default}
    BY <1>2 DEF UpdateFails, PoolSettings
  <2>2. PoolTypeOK' /\ CopiesAreSafe'
    BY <1>2, <2>1 DEF PoolInv, PoolTypeOK, CopiesAreSafe, UpdateFails
  <2>3. OneHandler' /\ LimiterFollowsSettings' /\ StartIsFresh'
    BY <1>2 DEF PoolInv, PoolTypeOK, OneHandler, LimiterFollowsSettings, StartIsFresh, UpdateFails
  <2>4. WrittenIsInFile' /\ MergeIsFresh'
    BY <1>2 DEF PoolInv, PoolTypeOK, OneHandler, WrittenIsInFile, MergeIsFresh, UpdateFails
  <2> QED BY <2>2, <2>3, <2>4 DEF PoolInv
<1> QED BY <1>1, <1>2

LEMMA SyncRateInv ==
    ASSUME PoolInv, NEW c \in Consoles, SyncRate(c)
    PROVE  PoolInv'
<1> USE DefaultIsConfig DEF SyncRate, Done, proxyVars
<1>1. PoolSettings' = PoolSettings
  BY DEF PoolSettings
<1>2. PoolTypeOK' /\ CopiesAreSafe'
  BY <1>1 DEF PoolInv, PoolTypeOK, Config, CopiesAreSafe
<1>3. OneHandler' /\ WrittenIsInFile' /\ MergeIsFresh' /\ StartIsFresh'
  BY <1>1 DEF PoolInv, PoolTypeOK, OneHandler, WrittenIsInFile, MergeIsFresh, StartIsFresh
<1>4. LimiterFollowsSettings'
  <2> SUFFICES ASSUME ~overlapped PROVE perAccountRPM' = PoolSettings'.rpm
    BY DEF LimiterFollowsSettings
  <2>1. poolFile = existing[c] /\ existing[c] # TornPool
    BY PoolConfigAssumption, TornAssumption DEF PoolInv, PoolTypeOK, WrittenIsInFile
  <2> QED BY <1>1, <2>1 DEF PoolSettings
<1> QED BY <1>2, <1>3, <1>4 DEF PoolInv

LEMMA RegenerateInv ==
    ASSUME PoolInv, NEW c \in Consoles,
           \/ \E k \in PoolKeys : RegenerateKey(c, k)
           \/ RegenerateFails(c) \/ RegenerateReply(c)
    PROVE  PoolInv'
<1> USE PoolConfigAssumption, TornAssumption, DefaultIsConfig
        DEF consoleVars, proxyVars, poolHistory
<1>1. ASSUME NEW k \in PoolKeys, RegenerateKey(c, k)
      PROVE  PoolInv'
  <2>1. /\ poolFile \in Config /\ poolFile' \in Config
        /\ poolFile' = [poolFile EXCEPT !.key = k]
    BY <1>1 DEF PoolInv, PoolTypeOK, RegenerateKey, Config
  <2>2. /\ PoolSettings = poolFile /\ PoolSettings' = poolFile'
        /\ poolFile'.rpm = poolFile.rpm /\ poolFile'.key = k /\ poolFile'.enabled = poolFile.enabled
    BY <1>1, <2>1, PoolConfigAssumption, TornAssumption DEF RegenerateKey, PoolSettings, Config
  <2>3. PoolTypeOK' /\ CopiesAreSafe'
    BY <1>1, <2>1, <2>2 DEF PoolInv, PoolTypeOK, CopiesAreSafe, Safe, RegenerateKey,
                            Crowded
  <2>4. OneHandler' /\ WrittenIsInFile' /\ MergeIsFresh' /\ StartIsFresh'
    BY <1>1 DEF PoolInv, PoolTypeOK, OneHandler, WrittenIsInFile, MergeIsFresh,
                StartIsFresh, RegenerateKey, Crowded
  <2>5. LimiterFollowsSettings'
    <3> SUFFICES ASSUME Quiet', ~poolMishap, ~overlapped', ~startMisread
                 PROVE  perAccountRPM' = PoolSettings'.rpm
      BY <1>1 DEF LimiterFollowsSettings, RegenerateKey
    <3>1. Quiet /\ ~overlapped
      BY <1>1 DEF PoolInv, PoolTypeOK, Quiet, RegenerateKey
    <3> QED BY <1>1, <2>2, <3>1 DEF PoolInv, LimiterFollowsSettings, RegenerateKey
  <2> QED BY <2>3, <2>4, <2>5 DEF PoolInv
<1>2. CASE RegenerateFails(c)
  <2>1. PoolSettings' = Default
    BY <1>2 DEF RegenerateFails, PoolSettings
  <2>2. PoolTypeOK' /\ CopiesAreSafe'
    BY <1>2, <2>1 DEF PoolInv, PoolTypeOK, CopiesAreSafe, RegenerateFails, Crowded
  <2>3. /\ OneHandler' /\ WrittenIsInFile' /\ MergeIsFresh' /\ StartIsFresh'
        /\ LimiterFollowsSettings'
    BY <1>2 DEF PoolInv, PoolTypeOK, OneHandler, WrittenIsInFile, MergeIsFresh,
                StartIsFresh, LimiterFollowsSettings, RegenerateFails, Crowded
  <2> QED BY <2>2, <2>3 DEF PoolInv
<1>3. CASE RegenerateReply(c)
  <2>1. PoolSettings' = PoolSettings
    BY <1>3 DEF RegenerateReply, PoolSettings
  <2>2. PoolTypeOK' /\ CopiesAreSafe'
    BY <1>3, <2>1 DEF PoolInv, PoolTypeOK, CopiesAreSafe, RegenerateReply, Done
  <2>3. OneHandler' /\ WrittenIsInFile' /\ MergeIsFresh' /\ StartIsFresh'
    BY <1>3, <2>1 DEF PoolInv, PoolTypeOK, OneHandler, WrittenIsInFile, MergeIsFresh,
                      StartIsFresh, RegenerateReply, Done
  <2>4. Quiet' /\ ~overlapped => Quiet
    BY <1>3 DEF PoolInv, PoolTypeOK, OneHandler, Quiet, RegenerateReply, Done
  <2>5. LimiterFollowsSettings'
    BY <1>3, <2>1, <2>4 DEF PoolInv, LimiterFollowsSettings, RegenerateReply
  <2> QED BY <2>2, <2>3, <2>5 DEF PoolInv
<1> QED BY <1>1, <1>2, <1>3

(* RegisterProxy and the restart of the program.                           *)
LEMMA StartInv ==
    ASSUME PoolInv, StartRead \/ StartSync \/ PoolRestart
    PROVE  PoolInv'
<1> USE DefaultIsConfig DEF proxyVars, consoleVars, poolHistory
<1>1. PoolSettings' = PoolSettings /\ PoolSettings \in Config
  BY PoolSettingsType DEF PoolInv, PoolSettings, StartRead, StartSync, PoolRestart
<1>2. CASE StartRead
  <2>1. /\ startRPM' \in RPMs \cup {0}
        /\ ~startMisread' => startRPM' = PoolSettings.rpm
    BY <1>1, <1>2 DEF StartRead, GetPoolConfig, Config
  <2>2. PoolTypeOK' /\ CopiesAreSafe'
    BY <1>1, <1>2, <2>1 DEF PoolInv, PoolTypeOK, CopiesAreSafe, StartRead
  <2>3. OneHandler' /\ WrittenIsInFile' /\ MergeIsFresh' /\ StartIsFresh'
    BY <1>1, <1>2, <2>1 DEF PoolInv, PoolTypeOK, OneHandler, WrittenIsInFile, MergeIsFresh,
                            StartIsFresh, StartRead
  <2>4. LimiterFollowsSettings'
    BY <1>2 DEF LimiterFollowsSettings, Quiet, StartRead
  <2> QED BY <2>2, <2>3, <2>4 DEF PoolInv
<1>3. CASE StartSync
  <2>1. PoolTypeOK' /\ CopiesAreSafe'
    BY <1>1, <1>3 DEF PoolInv, PoolTypeOK, CopiesAreSafe, StartSync
  <2>2. OneHandler' /\ WrittenIsInFile' /\ MergeIsFresh' /\ StartIsFresh'
    BY <1>1, <1>3 DEF PoolInv, PoolTypeOK, OneHandler, WrittenIsInFile, MergeIsFresh,
                      StartIsFresh, StartSync
  <2>3. LimiterFollowsSettings'
    BY <1>1, <1>3 DEF PoolInv, StartIsFresh, LimiterFollowsSettings, StartSync
  <2> QED BY <2>1, <2>2, <2>3 DEF PoolInv
<1>4. CASE PoolRestart
  <2>1. PoolTypeOK' /\ CopiesAreSafe'
    BY <1>1, <1>4 DEF PoolInv, PoolTypeOK, CopiesAreSafe, PoolRestart
  <2>2. /\ OneHandler' /\ WrittenIsInFile' /\ MergeIsFresh' /\ StartIsFresh'
        /\ LimiterFollowsSettings'
    BY <1>4 DEF OneHandler, WrittenIsInFile, MergeIsFresh, StartIsFresh,
                LimiterFollowsSettings, Quiet, PoolRestart
  <2> QED BY <2>1, <2>2 DEF PoolInv
<1> QED BY <1>2, <1>3, <1>4

LEMMA PoolInvNext == PoolInv /\ [PoolNext]_poolVars => PoolInv'
<1> SUFFICES ASSUME PoolInv, [PoolNext]_poolVars PROVE PoolInv' OBVIOUS
<1>1. CASE UNCHANGED poolVars
  BY <1>1 DEF PoolInv, PoolTypeOK, CopiesAreSafe, OneHandler, WrittenIsInFile, MergeIsFresh,
              StartIsFresh, LimiterFollowsSettings, Quiet, PoolSettings, poolVars, consoleVars,
              proxyVars, poolHistory
<1>2. ASSUME NEW c \in Consoles, NEW u \in Update, NEW k \in PoolKeys,
             ReadAndMerge(c, u, k)
      PROVE  PoolInv'
  BY <1>2, ReadAndMergeInv
<1>3. ASSUME NEW c \in Consoles, UpdatePoolConfig(c) \/ UpdateFails(c)
      PROVE  PoolInv'
  BY <1>3, WriteInv
<1>4. ASSUME NEW c \in Consoles, SyncRate(c)
      PROVE  PoolInv'
  BY <1>4, SyncRateInv
<1>5. ASSUME NEW c \in Consoles,
             \/ \E k \in PoolKeys : RegenerateKey(c, k)
             \/ RegenerateFails(c) \/ RegenerateReply(c)
      PROVE  PoolInv'
  BY <1>5, RegenerateInv
<1>6. CASE StartRead \/ StartSync \/ PoolRestart
  BY <1>6, StartInv
<1> QED BY <1>1, <1>2, <1>3, <1>4, <1>5, <1>6 DEF PoolNext

LEMMA PoolInvHolds == PoolSpec => []PoolInv
BY PoolInvInit, PoolInvNext, PTL DEF PoolSpec

-----------------------------------------------------------------------------
(* The variables keep their types: in particular, the file is settings or  *)
(* torn, and never half of an update.                                      *)
THEOREM PoolTypeCorrect == PoolSpec => []PoolTypeOK
<1>1. PoolInv => PoolTypeOK BY DEF PoolInv
<1> QED BY <1>1, PoolInvHolds, PTL

(* No order of updates, key renewals, failed reads and writes and restarts *)
(* leaves an enabled pool without a key.                                   *)
THEOREM PoolIsNeverOpen == PoolSpec => []EnabledHasKey
<1>1. PoolInv => EnabledHasKey BY DEF PoolInv, CopiesAreSafe, Safe, EnabledHasKey
<1> QED BY <1>1, PoolInvHolds, PTL

(* Between changes the limiter has the rate of the settings, whatever came *)
(* before the last one; the exceptions are those of the property.          *)
THEOREM RateFollowsSettings == PoolSpec => []LimiterFollowsSettings
<1>1. PoolInv => LimiterFollowsSettings BY DEF PoolInv
<1> QED BY <1>1, PoolInvHolds, PTL

(* An update that is alone and could read the settings changes what it     *)
(* mentions and no more.                                                   *)
THEOREM UpdatesChangeWhatTheyMention == PoolSpec => UpdatesMerge
<1> DEFINE Step == \A c \in Consoles :
          consolePc[c] = "merged" /\ consolePc'[c] = "written" /\ ~overlapped /\ ~updateMisread
              => Merges(c)
<1>1. PoolInv /\ [PoolNext]_poolVars => [Step]_poolVars
  <2> SUFFICES ASSUME PoolInv, PoolNext, NEW c \in Consoles,
                      consolePc[c] = "merged", consolePc'[c] = "written", ~overlapped,
                      ~updateMisread
               PROVE  Merges(c)
    OBVIOUS
  <2>1. UpdatePoolConfig(c)
    BY DEF PoolInv, PoolTypeOK, PoolNext, ReadAndMerge, UpdatePoolConfig,
           UpdateFails, SyncRate, Done, StartRead, StartSync,
           RegenerateKey, RegenerateFails, RegenerateReply, PoolRestart,
           consoleVars
  <2>2. PoolSettings' = existing[c]
    BY <2>1, PoolConfigAssumption, TornAssumption
       DEF PoolInv, PoolTypeOK, UpdatePoolConfig, PoolSettings
  <2> QED BY <2>2 DEF PoolInv, MergeIsFresh, Keeps, Merges
<1>2. PoolSpec => [][Step]_poolVars
  BY <1>1, PoolInvHolds, PTL DEF PoolSpec
<1> QED BY <1>2 DEF UpdatesMerge
=============================================================================
