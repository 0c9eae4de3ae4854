------------------------- MODULE StaleCounterProofs -------------------------
(***************************************************************************)
(* Proofs about StaleCounter, for any value at which the counter is full    *)
(* and any finite number of requests.                                       *)
(***************************************************************************)
EXTENDS StaleCounter, FiniteSetTheorems, TLAPS

\* What an instance has to show of its constants.
CounterConstants == Full \in Nat \ {0} /\ IsFiniteSet(Procs)

LEMMA CounterInitially ==
  ASSUME CounterConstants, CounterInit
  PROVE  CounterTypeOK
  BY DEF CounterConstants, CounterInit, CounterTypeOK

LEMMA CounterTypeStep ==
  ASSUME CounterConstants, CounterTypeOK, [CounterNext]_counterVars
  PROVE  CounterTypeOK'
  <1> USE DEF CounterConstants, CounterTypeOK
  <1>1. ASSUME NEW p \in Procs, Read(p) \/ Drop(p)
        PROVE  CounterTypeOK'
    BY <1>1 DEF Read, Drop
  <1>2. ASSUME NEW p \in Procs, Write(p)
        PROVE  CounterTypeOK'
    <2>1. hold[p] + 1 \in 0..Full
      BY <1>2 DEF Write, Holds
    <2>2. QED
      BY <1>2, <2>1 DEF Write
  <1>3. CASE StartAgain
    BY <1>3 DEF StartAgain
  <1>4. CASE UNCHANGED counterVars
    BY <1>4 DEF counterVars
  <1>5. QED
    BY <1>1, <1>2, <1>3, <1>4 DEF CounterNext

-----------------------------------------------------------------------------
(* Profiles and their order                                                *)

LEMMA LevelsAreNumbers ==
  ASSUME CounterConstants
  PROVE  /\ Levels \subseteq Nat
         /\ IsFiniteSet(Levels)
         /\ \A n \in 0..Full : n < Full => n \in Levels
         /\ Cardinality(Procs) \in Nat
  <1>1. Full \in Nat /\ 0 \in Int /\ Full - 1 \in Int
    BY DEF CounterConstants
  <1>2. IsFiniteSet(0..Full - 1)
    BY <1>1, FS_Interval
  <1>3. QED
    BY <1>1, <1>2, FS_CardinalityType DEF CounterConstants, Levels

LEMMA ProfileValues ==
  ASSUME CounterConstants, NEW f \in Profiles, NEW k \in Levels
  PROVE  f[k] \in Nat
  BY LevelsAreNumbers DEF Profiles

\* A profile is a set of pairs of a level and a number of requests.
LEMMA ProfilesFinite ==
  ASSUME CounterConstants
  PROVE  IsFiniteSet(Profiles)
  <1> DEFINE pairs == Levels \X (0..Cardinality(Procs))
             graph == [f \in Profiles |-> {<<k, f[k]>> : k \in Levels}]
  <1>1. IsFiniteSet(0..Cardinality(Procs))
    BY LevelsAreNumbers, FS_Interval
  <1>2. IsFiniteSet(pairs)
    BY <1>1, LevelsAreNumbers, FS_Product
  <1>3. IsFiniteSet(SUBSET pairs)
    BY <1>2, FS_SUBSET
  <1>4. graph \in [Profiles -> SUBSET pairs]
    BY DEF Profiles
  <1>5. ASSUME NEW f \in Profiles, NEW g \in Profiles, graph[f] = graph[g]
        PROVE  f = g
    <2>1. ASSUME NEW k \in Levels
          PROVE  f[k] = g[k]
      <3>1. <<k, f[k]>> \in graph[g]
        BY <1>5
      <3>2. QED
        BY <3>1
    <2>2. f \in [Levels -> 0..Cardinality(Procs)] /\ g \in [Levels -> 0..Cardinality(Procs)]
      BY DEF Profiles
    <2>3. QED
      BY <2>1, <2>2
  <1>6. graph \in Injection(Profiles, SUBSET pairs)
    BY <1>4, <1>5 DEF Injection, IsInjective
  <1>7. QED
    BY <1>3, <1>6, FS_Injection

LEMMA BeforeIrreflexive ==
  ASSUME CounterConstants, NEW f \in Profiles
  PROVE  ~ Before(f, f)
  BY ProfileValues DEF Before

LEMMA BeforeTransitive ==
  ASSUME CounterConstants, NEW f \in Profiles, NEW g \in Profiles, NEW h \in Profiles,
         Before(f, g), Before(g, h)
  PROVE  Before(f, h)
  <1>1. PICK a \in Levels : g[a] < f[a] /\ \A j \in Levels : j < a => g[j] <= f[j]
    BY DEF Before
  <1>2. PICK b \in Levels : h[b] < g[b] /\ \A j \in Levels : j < b => h[j] <= g[j]
    BY DEF Before
  <1>3. \A j \in Levels : j \in Nat /\ f[j] \in Nat /\ g[j] \in Nat /\ h[j] \in Nat
    BY LevelsAreNumbers, ProfileValues
  <1>4. CASE a < b
    <2>1. h[a] < f[a] /\ \A j \in Levels : j < a => h[j] <= f[j]
      BY <1>1, <1>2, <1>3, <1>4
    <2>2. QED
      BY <2>1 DEF Before
  <1>5. CASE ~ (a < b)
    <2>1. h[b] < f[b] /\ \A j \in Levels : j < b => h[j] <= f[j]
      BY <1>1, <1>2, <1>3, <1>5
    <2>2. QED
      BY <2>1 DEF Before
  <1>6. QED
    BY <1>4, <1>5

LEMMA RankType ==
  ASSUME CounterConstants, NEW f \in Profiles
  PROVE  /\ IsFiniteSet({g \in Profiles : Before(g, f)})
         /\ Rank(f) \in Nat
         /\ Rank(f) < Cardinality(Profiles)
  <1> DEFINE below == {g \in Profiles : Before(g, f)}
  <1>1. below \in SUBSET Profiles /\ f \in Profiles /\ f \notin below
    BY BeforeIrreflexive
  <1>2. /\ IsFiniteSet(below) /\ Cardinality(below) <= Cardinality(Profiles)
        /\ Cardinality(below) # Cardinality(Profiles)
    BY <1>1, ProfilesFinite, FS_Subset
  <1>3. Cardinality(below) \in Nat /\ Cardinality(Profiles) \in Nat
    BY <1>2, ProfilesFinite, FS_CardinalityType
  <1>4. QED
    BY <1>2, <1>3 DEF Rank

\* A later profile has a greater rank ...
LEMMA RankAdvances ==
  ASSUME CounterConstants, NEW f \in Profiles, NEW g \in Profiles, Before(f, g)
  PROVE  Rank(f) + 1 <= Rank(g)
  <1> DEFINE under(x) == {e \in Profiles : Before(e, x)}
  <1>1. IsFiniteSet(under(f)) /\ IsFiniteSet(under(g))
    BY RankType
  <1>2. f \notin under(f)
    BY BeforeIrreflexive
  <1>3. under(f) \cup {f} \in SUBSET under(g)
    BY BeforeTransitive
  <1>4. Cardinality(under(f) \cup {f}) = Cardinality(under(f)) + 1
    BY <1>1, <1>2, FS_AddElement
  <1>5. Cardinality(under(f) \cup {f}) <= Cardinality(under(g))
    BY <1>1, <1>3, FS_Subset
  <1>6. QED
    BY <1>4, <1>5 DEF Rank

\* ... and one that is nowhere greater has no smaller one.
LEMMA RankKept ==
  ASSUME CounterConstants, NEW f \in Profiles, NEW g \in Profiles,
         \A k \in Levels : g[k] <= f[k]
  PROVE  Rank(f) <= Rank(g)
  <1> DEFINE under(x) == {e \in Profiles : Before(e, x)}
  <1>1. ASSUME NEW e \in Profiles, Before(e, f)
        PROVE  Before(e, g)
    <2>1. PICK k \in Levels : f[k] < e[k] /\ \A j \in Levels : j < k => f[j] <= e[j]
      BY <1>1 DEF Before
    <2>2. \A j \in Levels : e[j] \in Nat /\ f[j] \in Nat /\ g[j] \in Nat
      BY ProfileValues
    <2>3. g[k] < e[k] /\ \A j \in Levels : j < k => g[j] <= e[j]
      BY <2>1, <2>2
    <2>4. QED
      BY <2>3 DEF Before
  <1>2. under(f) \in SUBSET under(g) /\ IsFiniteSet(under(g))
    BY <1>1, RankType
  <1>3. QED
    BY <1>2, FS_Subset DEF Rank

-----------------------------------------------------------------------------
(* The profile of a state                                                  *)

AtOrBelow(k) == {p \in Procs : Level(p) <= k}

LEMMA LevelType ==
  ASSUME CounterConstants, CounterTypeOK, NEW p \in Procs
  PROVE  Level(p) \in 0..Full /\ Level(p) <= value /\ Level(p) <= hold[p]
  BY DEF CounterConstants, CounterTypeOK, Level

LEMMA CountType ==
  ASSUME CounterConstants, NEW S \in SUBSET Procs
  PROVE  IsFiniteSet(S) /\ Cardinality(S) \in 0..Cardinality(Procs)
  <1>1. IsFiniteSet(S) /\ Cardinality(S) <= Cardinality(Procs)
    BY FS_Subset DEF CounterConstants
  <1>2. Cardinality(S) \in Nat /\ Cardinality(Procs) \in Nat
    BY <1>1, FS_CardinalityType DEF CounterConstants
  <1>3. QED
    BY <1>1, <1>2

LEMMA ProfileType ==
  ASSUME CounterConstants, NEW v \in 0..Full, NEW h \in [Procs -> 0..Full]
  PROVE  [k \in Levels |-> Cardinality({p \in Procs : (IF h[p] < v THEN h[p] ELSE v) <= k})]
           \in Profiles
  <1> DEFINE level(p) == IF h[p] < v THEN h[p] ELSE v
             upTo(k) == {p \in Procs : level(p) <= k}
             f == [k \in Levels |-> Cardinality(upTo(k))]
  <1>1. \A p \in Procs : level(p) \in Nat
    BY DEF CounterConstants
  <1> HIDE DEF level
  <1>2. f \in [Levels -> 0..Cardinality(Procs)]
    BY CountType
  <1>3. ASSUME NEW j \in Levels, NEW k \in Levels, j <= k
        PROVE  f[j] <= f[k]
    <2>1. j \in Nat /\ k \in Nat
      BY LevelsAreNumbers
    <2>2. upTo(j) \in SUBSET upTo(k) /\ upTo(k) \in SUBSET Procs
      BY <1>1, <1>3, <2>1
    <2>3. Cardinality(upTo(j)) <= Cardinality(upTo(k))
      BY <2>2, CountType, FS_Subset
    <2>4. QED
      BY <2>3
  <1>4. f \in Profiles
    BY <1>2, <1>3 DEF Profiles
  <1>5. QED
    BY <1>4 DEF level

LEMMA ProfilesOfStep ==
  ASSUME CounterConstants, CounterTypeOK, CounterTypeOK'
  PROVE  /\ Profile \in Profiles /\ Profile' \in Profiles
         /\ \A k \in Levels : /\ Profile[k] = Cardinality(AtOrBelow(k))
                              /\ Profile'[k] = Cardinality(AtOrBelow(k)')
  <1>1. Profile \in Profiles
    BY ProfileType DEF CounterTypeOK, Profile, Level
  <1>2. Profile' \in Profiles
    BY ProfileType DEF CounterTypeOK, Profile, Level
  <1>3. QED
    BY <1>1, <1>2 DEF Profile, AtOrBelow

CounterInv == CounterTypeOK /\ WritesRanked

\* A write takes the request from its level, and nobody comes to that level or a lower one.
LEMMA WriteAdvances ==
  ASSUME CounterConstants, CounterTypeOK, CounterTypeOK', NEW p \in Procs, Write(p)
  PROVE  Before(Profile, Profile')
  <1>1. Level(p) \in Levels /\ Level(p) \in Nat
    BY LevelType, LevelsAreNumbers DEF CounterTypeOK, CounterConstants, Write, Holds, Levels
  <1>2. PICK k \in Levels : k = Level(p)
    BY <1>1
  <1>3. ASSUME NEW j \in Levels, j <= k, NEW q \in Procs, Level(q)' <= j
        PROVE  q # p /\ Level(q) <= j
    BY <1>1, <1>2, <1>3 DEF CounterTypeOK, CounterConstants, Write, Holds, Level, Levels
  <1>4. ASSUME NEW j \in Levels, j <= k
        PROVE  /\ AtOrBelow(j)' \in SUBSET (AtOrBelow(j) \ {p})
               /\ AtOrBelow(j) \in SUBSET Procs
               /\ IsFiniteSet(AtOrBelow(j)) /\ Cardinality(AtOrBelow(j)) \in Nat
               /\ Cardinality(AtOrBelow(j)') \in Nat
    <2>1. /\ AtOrBelow(j)' \in SUBSET (AtOrBelow(j) \ {p})
          /\ AtOrBelow(j) \in SUBSET Procs /\ AtOrBelow(j)' \in SUBSET Procs
      BY <1>3, <1>4 DEF AtOrBelow
    <2>2. QED
      BY <2>1, CountType
  <1>5. p \in AtOrBelow(k)
    BY <1>1, <1>2 DEF AtOrBelow
  <1>6. ASSUME NEW j \in Levels, j <= k
        PROVE  Profile'[j] <= Profile[j]
    <2>1. Cardinality(AtOrBelow(j)') <= Cardinality(AtOrBelow(j))
      <3>1. AtOrBelow(j)' \in SUBSET AtOrBelow(j) /\ IsFiniteSet(AtOrBelow(j))
        BY <1>4, <1>6
      <3>2. QED
        BY <3>1, FS_Subset
    <2>2. QED
      BY <2>1, ProfilesOfStep
  <1>7. Profile'[k] < Profile[k]
    <2>1. k <= k
      BY <1>1, <1>2
    <2>2. /\ IsFiniteSet(AtOrBelow(k) \ {p})
          /\ Cardinality(AtOrBelow(k) \ {p}) = Cardinality(AtOrBelow(k)) - 1
      BY <1>4, <1>5, <2>1, FS_RemoveElement
    <2>3. Cardinality(AtOrBelow(k)') <= Cardinality(AtOrBelow(k) \ {p})
      BY <1>4, <2>1, <2>2, FS_Subset
    <2>4. QED
      BY <1>4, <2>1, <2>2, <2>3, ProfilesOfStep
  <1>8. \A j \in Levels : j < k => j <= k
    BY LevelsAreNumbers
  <1>9. QED
    BY <1>6, <1>7, <1>8 DEF Before

\* A request that lets go of what it read rises to the counter.
LEMMA OthersKeep ==
  ASSUME CounterConstants, CounterTypeOK, CounterTypeOK', NEW p \in Procs, Read(p) \/ Drop(p)
  PROVE  \A k \in Levels : Profile'[k] <= Profile[k]
  <1>1. ASSUME NEW k \in Levels, NEW q \in Procs, Level(q)' <= k
        PROVE  Level(q) <= k
    BY <1>1, LevelsAreNumbers DEF CounterTypeOK, CounterConstants, Read, Drop, Holds, Level
  <1>2. ASSUME NEW k \in Levels
        PROVE  Profile'[k] <= Profile[k]
    <2>1. AtOrBelow(k)' \in SUBSET AtOrBelow(k) /\ AtOrBelow(k) \in SUBSET Procs
      BY <1>1 DEF AtOrBelow
    <2>2. Cardinality(AtOrBelow(k)') <= Cardinality(AtOrBelow(k))
      BY <2>1, CountType, FS_Subset
    <2>3. QED
      BY <2>2, ProfilesOfStep
  <1>3. QED
    BY <1>2

LEMMA CounterStep ==
  ASSUME CounterConstants, CounterInv, [CounterNext]_counterVars
  PROVE  CounterInv'
  <1>1. CounterTypeOK /\ CounterTypeOK' /\ writes \in Nat /\ writes' \in Nat
    BY CounterTypeStep DEF CounterInv, CounterTypeOK
  <1>2. PICK f \in Profiles, g \in Profiles : f = Profile /\ g = Profile'
    BY <1>1, ProfilesOfStep
  <1>3. writes <= Rank(f) /\ Rank(f) \in Nat /\ Rank(g) \in Nat
    BY <1>2, RankType DEF CounterInv, WritesRanked
  <1>4. writes' <= Rank(g)
    <2>1. ASSUME NEW p \in Procs, Write(p)
          PROVE  writes' <= Rank(g)
      <3>1. Rank(f) + 1 <= Rank(g)
        BY <1>1, <1>2, <2>1, WriteAdvances, RankAdvances
      <3>2. QED
        BY <1>1, <1>3, <2>1, <3>1 DEF Write
    <2>2. ASSUME NEW p \in Procs, Read(p) \/ Drop(p)
          PROVE  writes' <= Rank(g)
      <3>1. Rank(f) <= Rank(g)
        BY <1>1, <1>2, <2>2, OthersKeep, RankKept
      <3>2. QED
        BY <1>1, <1>3, <2>2, <3>1 DEF Read, Drop
    <2>3. CASE StartAgain
      BY <1>3, <2>3 DEF StartAgain
    <2>4. CASE UNCHANGED counterVars
      <3>1. f = g
        BY <1>2, <2>4 DEF counterVars, Profile, Level
      <3>2. QED
        BY <1>3, <2>4, <3>1 DEF counterVars
    <2>5. QED
      BY <2>1, <2>2, <2>3, <2>4 DEF CounterNext
  <1>5. Rank(Profile)' = Rank(g)
    BY <1>2 DEF Rank, Before
  <1>6. QED
    BY <1>1, <1>4, <1>5 DEF CounterInv, WritesRanked

\* Fewer values are written before the count starts again than there are profiles.
THEOREM WritesAreBounded ==
  ASSUME CounterConstants
  PROVE  CounterSpec => []WritesBounded
  <1>1. CounterInit => CounterInv
    <2> SUFFICES ASSUME CounterInit
                 PROVE  CounterInv
      OBVIOUS
    <2>1. CounterTypeOK /\ writes = 0
      BY CounterInitially DEF CounterInit
    <2>2. Profile \in Profiles
      BY <2>1, ProfileType DEF CounterTypeOK, Profile, Level
    <2>3. Rank(Profile) \in Nat
      BY <2>2, RankType
    <2>4. QED
      BY <2>1, <2>3 DEF CounterInv, WritesRanked
  <1>2. CounterInv /\ [CounterNext]_counterVars => CounterInv'
    BY CounterStep
  <1>3. CounterInv => WritesBounded
    <2> SUFFICES ASSUME CounterInv
                 PROVE  WritesBounded
      OBVIOUS
    <2>1. Profile \in Profiles
      BY ProfileType DEF CounterInv, CounterTypeOK, Profile, Level
    <2>2. Cardinality(Profiles) \in Nat
      BY ProfilesFinite, FS_CardinalityType
    <2>3. Rank(Profile) \in Nat /\ Rank(Profile) < Cardinality(Profiles)
      BY <2>1, RankType
    <2>4. writes \in Nat /\ writes <= Rank(Profile)
      BY DEF CounterInv, CounterTypeOK, WritesRanked
    <2>5. QED
      BY <2>2, <2>3, <2>4 DEF WritesBounded
  <1>4. QED
    BY <1>1, <1>2, <1>3, PTL DEF CounterSpec

-----------------------------------------------------------------------------
(* One request at a time                                                   *)

\* A single request has a profile for each value of the counter.
LEMMA ProfilesOfOne ==
  ASSUME CounterConstants, Cardinality(Procs) = 1
  PROVE  Cardinality(Profiles) <= Full + 1
  <1> DEFINE zeros(f) == {k \in Levels : f[k] = 0}
             length == [f \in Profiles |-> Cardinality(zeros(f))]
  <1>1. \A f \in Profiles : f \in [Levels -> 0..1]
    BY DEF Profiles
  <1>2. IsFiniteSet(Levels) /\ Cardinality(Levels) = Full /\ Full \in Nat
    BY FS_Interval, 0 \in Int, Full - 1 \in Int DEF CounterConstants, Levels
  <1>3. ASSUME NEW f \in Profiles
        PROVE  IsFiniteSet(zeros(f)) /\ Cardinality(zeros(f)) \in 0..Full
    <2>1. zeros(f) \in SUBSET Levels
      OBVIOUS
    <2>2. QED
      BY <1>2, <2>1, FS_Subset, FS_CardinalityType
  <1>4. ASSUME NEW f \in Profiles, NEW g \in Profiles, ~ (zeros(f) \subseteq zeros(g))
        PROVE  zeros(g) \subseteq zeros(f)
    <2>1. PICK k \in Levels : f[k] = 0 /\ g[k] # 0
      BY <1>4
    <2>2. ASSUME NEW j \in Levels, g[j] = 0
          PROVE  f[j] = 0
      <3>1. j \in Nat /\ k \in Nat /\ f[j] \in 0..1 /\ g[k] \in 0..1
        BY <1>1, LevelsAreNumbers
      <3>2. k <= j => g[k] <= g[j]
        BY DEF Profiles
      <3>3. j <= k => f[j] <= f[k]
        BY DEF Profiles
      <3>4. QED
        BY <2>1, <2>2, <3>1, <3>2, <3>3
    <2>3. QED
      BY <2>2
  <1>5. ASSUME NEW f \in Profiles, NEW g \in Profiles, length[f] = length[g]
        PROVE  f = g
    <2>1. Cardinality(zeros(f)) = Cardinality(zeros(g))
      BY <1>5
    <2>2. IsFiniteSet(zeros(f)) /\ IsFiniteSet(zeros(g))
      BY <1>3
    <2>3. zeros(f) = zeros(g)
      <3>1. zeros(f) \subseteq zeros(g) \/ zeros(g) \subseteq zeros(f)
        BY <1>4
      <3>2. CASE zeros(f) \subseteq zeros(g)
        BY <2>1, <2>2, <3>2, FS_Subset
      <3>3. CASE zeros(g) \subseteq zeros(f)
        BY <2>1, <2>2, <3>3, FS_Subset
      <3>4. QED
        BY <3>1, <3>2, <3>3
    <2>4. \A k \in Levels : f[k] \in 0..1 /\ g[k] \in 0..1 /\ (f[k] = 0 <=> g[k] = 0)
      BY <1>1, <2>3
    <2>5. QED
      BY <1>1, <2>4
  <1>6. length \in Injection(Profiles, 0..Full)
    BY <1>3, <1>5 DEF Injection, IsInjective
  <1>7. IsFiniteSet(0..Full) /\ Cardinality(0..Full) = Full + 1
    BY <1>2, FS_Interval
  <1>8. QED
    BY <1>6, <1>7, FS_Injection

\* Without overlap no count is lost: the counter is full when Full values were written.
THEOREM OneAtATime ==
  ASSUME CounterConstants, Cardinality(Procs) = 1
  PROVE  CounterSpec => [](writes <= Full)
  <1>1. CounterSpec => []CounterTypeOK
    <2>1. CounterInit => CounterTypeOK
      BY CounterInitially
    <2>2. CounterTypeOK /\ [CounterNext]_counterVars => CounterTypeOK'
      BY CounterTypeStep
    <2>3. QED
      BY <2>1, <2>2, PTL DEF CounterSpec
  <1>2. CounterTypeOK /\ WritesBounded => writes <= Full
    <2>1. Cardinality(Profiles) \in Nat /\ Cardinality(Profiles) <= Full + 1 /\ Full \in Nat
      BY ProfilesFinite, ProfilesOfOne, FS_CardinalityType DEF CounterConstants
    <2>2. QED
      BY <2>1 DEF CounterTypeOK, WritesBounded
  <1>3. QED
    BY <1>1, <1>2, WritesAreBounded, PTL
=============================================================================
