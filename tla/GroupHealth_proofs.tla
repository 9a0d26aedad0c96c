--------------------------- MODULE GroupHealth_proofs ---------------------------
(* Proofs about GroupHealth, for any members, partitions and bounds. *)
EXTENDS GroupHealth, FiniteSetTheorems, WellFoundedInduction, TLAPS

(* Total is a sum, although nothing is known of the order in which it adds *)
(* up: a larger lag of every partition gives a larger total.  The provers  *)
(* cannot do induction, but they can look for a least counterexample.      *)

\* A set of natural numbers has a least one.
LEMMA LeastNatural ==
  ASSUME NEW T \in SUBSET Nat, T # {}
  PROVE  \E n \in T : \A k \in T : n <= k
  <1> DEFINE R == {ss \in Nat \X Nat : ss[1] < ss[2]}
  <1>1. IsWellFoundedOn(R, Nat)
    BY NatLessThanWellFounded DEF OpToRel
  <1>2. PICK n \in T : \A k \in T : ~ (<<k, n>> \in R)
    <2> HIDE DEF R
    <2> QED
      BY <1>1, WFMin
  <1>3. ASSUME NEW k \in T
        PROVE  n <= k
    <2>1. ~ (k < n)
      BY <1>2
    <2> QED
      BY <2>1
  <1> QED
    BY <1>3

\* What the fold behind Total adds up: one element at a time, in an order that
\* CHOOSE knows.
Some(s) == CHOOSE p \in s : TRUE
Sum(f, h, s) == IF s = {} THEN 0 ELSE f[Some(s)] + h[s \ {Some(s)}]
IsSum(f, h) == h = [s \in SUBSET Partitions |-> Sum(f, h, s)]

\* Total is what such a fold, one of those there are, gives all partitions.
LEMMA TotalUnfolds ==
  ASSUME NEW f
  PROVE  Total(f) = (CHOOSE h : IsSum(f, h))[Partitions]
  BY DEF Total, MapThenSumSet, MapThenFoldSet, IsSum, Sum, Some

\* Taking an element from a set of partitions leaves a smaller one.
LEMMA Smaller ==
  ASSUME NEW s \in SUBSET Partitions
  PROVE  /\ Cardinality(s) \in Nat
         /\ s # {} =>
               /\ Some(s) \in s
               /\ s \ {Some(s)} \in SUBSET Partitions
               /\ Cardinality(s \ {Some(s)}) = Cardinality(s) - 1
               /\ Cardinality(s \ {Some(s)}) \in Nat
  <1>1. IsFiniteSet(s)
    BY GroupHealthAssumption, FS_Subset
  <1>2. Cardinality(s) \in Nat
    BY <1>1, FS_CardinalityType
  <1>3. ASSUME s # {}
        PROVE  /\ Some(s) \in s
               /\ Cardinality(s \ {Some(s)}) = Cardinality(s) - 1
               /\ Cardinality(s \ {Some(s)}) \in Nat
    <2>1. Some(s) \in s
      BY <1>3 DEF Some
    <2>2. IsFiniteSet(s \ {Some(s)}) /\ Cardinality(s \ {Some(s)}) = Cardinality(s) - 1
      BY <1>1, <2>1, FS_RemoveElement
    <2>3. Cardinality(s \ {Some(s)}) \in Nat
      BY <2>2, FS_CardinalityType
    <2> QED
      BY <2>1, <2>2, <2>3
  <1> QED
    BY <1>2, <1>3

\* Sets up to any size can be summed up: else there would be a least size that
\* cannot, but it is reached from the one below.
LEMMA SumExists ==
  ASSUME NEW f, \A p \in Partitions : f[p] \in Nat
  PROVE  \E h : IsSum(f, h)
  <1> DEFINE Good(h, n) == \A s \in SUBSET Partitions :
                              Cardinality(s) < n => h[s] = Sum(f, h, s)
             Sums(n) == {h \in [SUBSET Partitions -> Nat] : Good(h, n)}
             Bad == {n \in Nat : Sums(n) = {}}
  <1>1. Bad = {}
    <2> SUFFICES ASSUME Bad # {} PROVE FALSE
      OBVIOUS
    <2>1. PICK n \in Bad : \A k \in Bad : n <= k
      BY LeastNatural
    <2>2. n # 0
      <3> DEFINE h == [s \in SUBSET Partitions |-> 0]
      <3>1. h \in [SUBSET Partitions -> Nat]
        OBVIOUS
      <3>2. Good(h, 0)
        <4>1. ASSUME NEW s \in SUBSET Partitions
              PROVE  ~ (Cardinality(s) < 0)
          <5>1. Cardinality(s) \in Nat
            BY Smaller
          <5> QED
            BY <5>1
        <4> QED
          BY <4>1
      <3>3. Sums(0) # {}
        BY <3>1, <3>2
      <3> QED
        BY <2>1, <3>3
    <2>3. n - 1 \in Nat /\ n - 1 \notin Bad
      <3>1. n \in Nat
        OBVIOUS
      <3> HIDE DEF Bad
      <3> QED
        BY <2>1, <2>2, <3>1
    <2>4. PICK h \in [SUBSET Partitions -> Nat] : Good(h, n - 1)
      BY <2>3
    <2> DEFINE g == [s \in SUBSET Partitions |-> Sum(f, h, s)]
    <2>5. g \in [SUBSET Partitions -> Nat]
      <3>1. ASSUME NEW s \in SUBSET Partitions
            PROVE  Sum(f, h, s) \in Nat
        <4>1. CASE s = {}
          BY <4>1 DEF Sum
        <4>2. CASE s # {}
          <5>1. Some(s) \in Partitions /\ s \ {Some(s)} \in SUBSET Partitions
            BY <4>2, Smaller
          <5>2. f[Some(s)] \in Nat /\ h[s \ {Some(s)}] \in Nat
            BY <5>1
          <5> QED
            BY <4>2, <5>2 DEF Sum
        <4> QED
          BY <4>1, <4>2
      <3> QED
        BY <3>1
    <2>6. ASSUME NEW s \in SUBSET Partitions, Cardinality(s) < n
          PROVE  g[s] = Sum(f, g, s)
      <3>1. CASE s = {}
        BY <3>1 DEF Sum
      <3>2. CASE s # {}
        <4> DEFINE t == s \ {Some(s)}
        <4>1. t \in SUBSET Partitions /\ Cardinality(t) < n - 1
          BY <2>1, <2>6, <3>2, Smaller
        <4>2. h[t] = Sum(f, h, t) /\ g[t] = Sum(f, h, t)
          BY <2>4, <4>1
        <4>3. g[s] = f[Some(s)] + h[t] /\ Sum(f, g, s) = f[Some(s)] + g[t]
          <5> HIDE DEF g
          <5>1. g[s] = Sum(f, h, s)
            BY DEF g
          <5> QED
            BY <3>2, <5>1 DEF Sum
        <4> QED
          BY <4>2, <4>3
      <3> QED
        BY <3>1, <3>2
    <2>7. g \in Sums(n)
      BY <2>5, <2>6
    <2> QED
      BY <2>1, <2>7
  <1>2. Cardinality(Partitions) + 1 \in Nat
    <2>1. Partitions \in SUBSET Partitions
      OBVIOUS
    <2>2. Cardinality(Partitions) \in Nat
      BY <2>1, Smaller
    <2> QED
      BY <2>2
  <1>3. PICK h \in [SUBSET Partitions -> Nat] : Good(h, Cardinality(Partitions) + 1)
    BY <1>1, <1>2
  <1>4. ASSUME NEW s \in SUBSET Partitions
        PROVE  h[s] = Sum(f, h, s)
    <2>1. Cardinality(s) <= Cardinality(Partitions)
      BY GroupHealthAssumption, FS_Subset
    <2>2. Cardinality(s) \in Nat /\ Cardinality(Partitions) \in Nat
      BY Smaller
    <2> QED
      BY <1>3, <2>1, <2>2
  <1>5. h = [s \in SUBSET Partitions |-> Sum(f, h, s)]
    BY <1>4
  <1> QED
    BY <1>5 DEF IsSum

\* Sums compare like their summands: else there would be a least set of which
\* they do not.
LEMMA SumsCompare ==
  ASSUME NEW f, NEW g, NEW h, NEW k, IsSum(f, h), IsSum(g, k),
         \A p \in Partitions : f[p] \in Nat /\ g[p] \in Nat /\ f[p] <= g[p]
  PROVE  \A s \in SUBSET Partitions : h[s] \in Nat /\ k[s] \in Nat /\ h[s] <= k[s]
  <1> DEFINE Good(s) == h[s] \in Nat /\ k[s] \in Nat /\ h[s] <= k[s]
             Bad == {s \in SUBSET Partitions : ~Good(s)}
             Sizes == {Cardinality(s) : s \in Bad}
  <1> SUFFICES ASSUME Bad # {} PROVE FALSE
    OBVIOUS
  <1>1. Sizes \in SUBSET Nat /\ Sizes # {}
    <2>1. \A s \in Bad : Cardinality(s) \in Nat
      BY Smaller
    <2> QED
      BY <2>1
  <1>2. PICK n \in Sizes : \A j \in Sizes : n <= j
    <2> HIDE DEF Sizes
    <2> QED
      BY <1>1, LeastNatural
  <1>3. PICK s \in Bad : n = Cardinality(s)
    BY <1>2
  <1>4. h[s] = Sum(f, h, s) /\ k[s] = Sum(g, k, s)
    BY <1>3 DEF IsSum
  <1>5. CASE s = {}
    BY <1>3, <1>4, <1>5 DEF Sum
  <1>6. CASE s # {}
    <2> DEFINE t == s \ {Some(s)}
    <2>1. /\ Some(s) \in Partitions
          /\ t \in SUBSET Partitions /\ Cardinality(t) = n - 1
          /\ n \in Nat
      BY <1>3, <1>6, Smaller
    <2>2. t \notin Bad
      <3>1. Cardinality(t) \notin Sizes
        <4> HIDE DEF Sizes, t
        <4> QED
          BY <1>2, <2>1
      <3> QED
        BY <3>1
    <2>3. Good(t)
      BY <2>1, <2>2
    <2>4. h[s] = f[Some(s)] + h[t] /\ k[s] = g[Some(s)] + k[t]
      BY <1>4, <1>6 DEF Sum
    <2>5. f[Some(s)] \in Nat /\ g[Some(s)] \in Nat /\ f[Some(s)] <= g[Some(s)]
      BY <2>1
    <2> HIDE DEF t
    <2>6. Good(s)
      BY <2>3, <2>4, <2>5
    <2> QED
      BY <1>3, <2>6
  <1> QED
    BY <1>5, <1>6

\* If every partition lags at least as far by g as by f, so do all together.
LEMMA TotalMonotone ==
  ASSUME NEW f, NEW g,
         \A p \in Partitions : f[p] \in Nat /\ g[p] \in Nat /\ f[p] <= g[p]
  PROVE  Total(f) \in Nat /\ Total(g) \in Nat /\ Total(f) <= Total(g)
  <1> DEFINE h == CHOOSE h : IsSum(f, h)
             k == CHOOSE k : IsSum(g, k)
  <1>1. IsSum(f, h)
    BY SumExists
  <1>2. IsSum(g, k)
    BY SumExists
  <1>3. Total(f) = h[Partitions] /\ Total(g) = k[Partitions]
    BY TotalUnfolds
  <1> HIDE DEF h, k
  <1> QED
    BY <1>1, <1>2, <1>3, SumsCompare

-----------------------------------------------------------------------------
(* The check, step by step. *)

\* What arrives or is committed during the check moves the ends and the
\* offsets forward, and what was listed and computed before stays true.
LEMMA ClusterKeepsIInv ==
    ASSUME IInv, UNCHANGED checker,
           latest' \in [Partitions -> Nat], committed' \in [Partitions -> Int],
           \A p \in Partitions : latest[p] <= latest'[p] /\ committed[p] <= committed'[p]
                                 /\ committed'[p] <= latest'[p],
           \A m \in DOMAIN assignment' : assignment'[m] \subseteq Partitions
    PROVE  IInv'
  <1>1. \A p \in Partitions :
           /\ latest[p] \in Nat /\ latest'[p] \in Nat /\ committed[p] \in Int
           /\ committed'[p] \in Int /\ -1 <= committed[p]
    BY DEF IInv, TypeOK
  <1>2. TypeOK'
    <2>1. \A p \in Partitions : -1 <= committed'[p]
      BY <1>1
    <2> QED
      BY <2>1 DEF IInv, TypeOK, checker
  <1>3. Listed => Listed'
    <2>1. ASSUME Listed, NEW p \in Partitions
          PROVE  offsets[p] <= committed'[p] /\ lagThen[p] + Position(offsets[p]) <= latest'[p]
      <3>1. offsets[p] \in Int /\ lagThen[p] \in Nat /\ Position(offsets[p]) \in Int
        BY <2>1 DEF Listed, Position
      <3>2. lagThen[p] + Position(offsets[p]) \in Int
        BY <3>1
      <3> QED
        BY <1>1, <2>1, <3>1, <3>2 DEF Listed
    <2>2. \A p \in Partitions : Position(offsets[p])' = Position(offsets[p])
      BY DEF Position, checker
    <2> QED
      BY <2>1, <2>2 DEF Listed, checker
  <1>4. LagBounded'
    <2>1. ASSUME NEW p \in DOMAIN lag
          PROVE  lagThen[p] <= lag[p] /\ lag[p] <= (CurrentLag(p) + Advanced(p))'
      <3>1. p \in Partitions /\ Listed /\ lag[p] \in Nat
        BY DEF IInv, TypeOK
      <3>2. offsets[p] \in Int /\ Position(offsets[p]) \in Int
        BY <3>1 DEF Listed, Position
      <3>3. CurrentLag(p) + Advanced(p) = latest[p] - Position(offsets[p])
        BY <1>1, <3>1, <3>2 DEF CurrentLag, Advanced, Position
      <3>4. (CurrentLag(p) + Advanced(p))' = latest'[p] - Position(offsets[p])
        BY <1>1, <3>1, <3>2 DEF CurrentLag, Advanced, Position, checker
      <3>5. lagThen[p] <= lag[p] /\ lag[p] <= CurrentLag(p) + Advanced(p)
        BY DEF IInv, LagBounded
      <3>6. latest[p] - Position(offsets[p]) <= latest'[p] - Position(offsets[p])
        BY <1>1, <3>1, <3>2
      <3>7. /\ latest[p] - Position(offsets[p]) \in Int
            /\ latest'[p] - Position(offsets[p]) \in Int
        BY <1>1, <3>1, <3>2
      <3> QED
        BY <3>1, <3>3, <3>4, <3>5, <3>6, <3>7
    <2> QED
      BY <2>1 DEF LagBounded, checker
  <1>5. Compared'
    <2>1. Total(lag)' = Total(lag)
      BY DEF checker
    <2> QED
      BY <2>1 DEF IInv, Compared, checker
  <1> QED
    BY <1>2, <1>3, <1>4, <1>5 DEF IInv, checker

\* A step of the check after which no verdict was given that was not before.
LEMMA ComparedStays ==
    ASSUME IInv, UNCHANGED lag, result' \in {result, "Unhealthy", "panic"}
    PROVE  Compared'
  <1>1. Total(lag)' = Total(lag)
    OBVIOUS
  <1> QED
    BY <1>1 DEF IInv, Compared

\* The steps of the check read the cluster and leave it as it is.
LEMMA CheckKeepsIInv ==
    ASSUME IInv, Check
    PROVE  IInv'
  <1>1. latest' = latest /\ committed' = committed /\ assignment' = assignment
    BY DEF Check, Begin, CallFails, DescribeGroup, EvaluateGroup, ListOffsets, GetEnd,
           EvaluateLag, cluster
  <1>2. CASE Begin \/ DescribeGroup \/ EvaluateGroup
    <2>1. UNCHANGED <<offsets, lagThen, lag>>
      BY <1>2 DEF Begin, DescribeGroup, EvaluateGroup
    <2>2. /\ pc \in {"idle", "describe", "count"}
          /\ pc' \in {"describe", "count", "offsets", "returned"}
          /\ pc' = "returned" \/ result' = result
      BY <1>2 DEF Begin, DescribeGroup, EvaluateGroup, Unless, Return
    <2>3. DOMAIN lag = {} /\ result = "none"
      BY <2>2 DEF IInv, TypeOK
    <2>4. \A m \in DOMAIN description'.Members : description'.Members[m] \subseteq Partitions
      <3>1. description' = description \/ description'.Members = assignment
        BY <1>2 DEF Begin, DescribeGroup, EvaluateGroup
      <3> QED
        BY <3>1 DEF IInv, TypeOK
    <2>5. TypeOK'
      BY <1>1, <2>1, <2>2, <2>3, <2>4 DEF IInv, TypeOK
    <2>6. Compared'
      <3>1. CASE Begin \/ DescribeGroup
        <4>1. result' \in {result, "Unhealthy"}
          BY <3>1 DEF Begin, DescribeGroup, Unless, Return
        <4> QED
          BY <2>1, <4>1, ComparedStays
      <3>2. CASE EvaluateGroup
        <4>1. CASE result' = "Degraded"
          <5>1. AssignedPartitions # {}
            BY <2>3, <3>2, <4>1 DEF EvaluateGroup, Return
          <5>2. AssignedPartitions \subseteq Partitions
            BY DEF IInv, TypeOK, AssignedPartitions
          <5> QED
            BY <2>1, <2>3, <5>1, <5>2 DEF Compared
        <4>2. CASE result' # "Degraded"
          <5>1. result' \in {result, "Unhealthy", "panic"}
            BY <3>2, <4>2 DEF EvaluateGroup, Return
          <5> QED
            BY <2>1, <5>1, ComparedStays
        <4> QED
          BY <4>1, <4>2
      <3> QED
        BY <1>2, <3>1, <3>2
    <2> QED
      BY <2>1, <2>2, <2>3, <2>5, <2>6 DEF IInv, LagBounded
  <1>3. CASE CallFails \/ EvaluateLag
    <2>1. UNCHANGED <<offsets, lagThen, lag, description>> /\ pc' = "returned"
      BY <1>3 DEF CallFails, EvaluateLag, Return
    <2>2. TypeOK'
      BY <1>1, <2>1 DEF IInv, TypeOK
    <2>3. LagBounded'
      <3>1. \A p \in DOMAIN lag : (CurrentLag(p) + Advanced(p))' = CurrentLag(p) + Advanced(p)
        BY <1>1, <2>1 DEF CurrentLag, Advanced, Position
      <3> QED
        BY <2>1, <3>1 DEF IInv, LagBounded
    <2>4. Listed => Listed'
      <3>1. \A p \in Partitions : Position(offsets[p])' = Position(offsets[p])
        BY <2>1 DEF Position
      <3> QED
        BY <1>1, <2>1, <3>1 DEF Listed
    <2>5. Compared'
      <3>1. CASE CallFails
        <4>1. result' = "Unhealthy"
          BY <3>1 DEF CallFails, Return
        <4> QED
          BY <2>1, <4>1, ComparedStays
      <3>2. CASE EvaluateLag
        <4>1. /\ DOMAIN lag = Partitions
              /\ result' = IF ctxDone THEN "Unhealthy" ELSE Verdict
          BY <3>2 DEF EvaluateLag, Return
        <4>2. Total(lag) \in Nat
          <5>1. \A p \in Partitions : lag[p] \in Nat /\ lag[p] <= lag[p]
            BY <4>1 DEF IInv, TypeOK
          <5> QED
            BY <5>1, TotalMonotone
        <4>3. MaxLag > 0 =>
                 /\ result' = "Healthy" => Total(lag) <= MaxLag
                 /\ result' = "Degraded" => Total(lag) > MaxLag
          BY <4>1, <4>2, GroupHealthAssumption DEF Verdict
        <4>4. Total(lag)' = Total(lag)
          BY <2>1
        <4> QED
          BY <2>1, <4>3, <4>4 DEF Compared
      <3> QED
        BY <1>3, <3>1, <3>2
    <2> QED
      BY <2>1, <2>2, <2>3, <2>4, <2>5 DEF IInv
  <1>4. CASE ListOffsets
    <2>1. /\ offsets' = committed /\ lagThen' = [p \in Partitions |-> CurrentLag(p)]
          /\ UNCHANGED <<lag, description, result>> /\ pc' = "ends" /\ pc = "offsets"
      BY <1>4 DEF ListOffsets
    <2>2. DOMAIN lag = {} /\ result = "none"
      BY <2>1 DEF IInv, TypeOK
    <2>3. TypeOK'
      BY <1>1, <2>1, <2>2 DEF IInv, TypeOK
    <2>4. Listed'
      <3>1. ASSUME NEW p \in Partitions
            PROVE  /\ -1 <= committed[p] /\ committed[p] <= committed[p]
                   /\ CurrentLag(p) \in Nat
                   /\ CurrentLag(p) + Position(committed[p]) <= latest[p]
        <4>1. /\ committed[p] \in Int /\ latest[p] \in Nat
              /\ -1 <= committed[p] /\ committed[p] <= latest[p]
          BY DEF IInv, TypeOK
        <4> QED
          BY <4>1 DEF CurrentLag, Position
      <3>2. committed \in [Partitions -> Int]
        BY DEF IInv, TypeOK
      <3>3. \A p \in Partitions : Position(offsets[p])' = Position(committed[p])
        BY <2>1 DEF Position
      <3> QED
        BY <1>1, <2>1, <3>1, <3>2, <3>3 DEF Listed
    <2>5. Compared'
      BY <2>1, ComparedStays
    <2> QED
      BY <2>1, <2>2, <2>3, <2>4, <2>5 DEF IInv, LagBounded
  <1>5. ASSUME NEW p \in Partitions, GetEnd(p)
        PROVE  IInv'
    <2>1. /\ pc = "ends" /\ Listed
          /\ lag' = [q \in DOMAIN lag \cup {p} |-> IF q = p THEN Lag(p) ELSE lag[q]]
          /\ UNCHANGED <<pc, offsets, lagThen, description, result>>
      BY <1>5 DEF GetEnd, IInv
    <2>2. /\ offsets[p] \in Int /\ lagThen[p] \in Nat /\ latest[p] \in Nat
          /\ committed[p] \in Int
          /\ -1 <= offsets[p] /\ lagThen[p] + Position(offsets[p]) <= latest[p]
      BY <2>1 DEF Listed, IInv, TypeOK
    <2>3. /\ Lag(p) \in Nat
          /\ lagThen[p] <= Lag(p) /\ Lag(p) <= CurrentLag(p) + Advanced(p)
      BY <2>2 DEF Lag, CurrentLag, Advanced, Position
    <2>4. DOMAIN lag' = DOMAIN lag \cup {p} /\ lag'[p] = Lag(p)
          /\ \A q \in DOMAIN lag \ {p} : lag'[q] = lag[q]
      BY <2>1
    <2>5. TypeOK'
      BY <1>1, <2>1, <2>3, <2>4 DEF IInv, TypeOK
    <2>6. Listed'
      <3>1. \A q \in Partitions : Position(offsets[q])' = Position(offsets[q])
        BY <2>1 DEF Position
      <3> QED
        BY <1>1, <2>1, <3>1 DEF Listed
    <2>7. LagBounded'
      <3>1. ASSUME NEW q \in DOMAIN lag'
            PROVE  lagThen[q] <= lag'[q] /\ lag'[q] <= CurrentLag(q) + Advanced(q)
        <4>1. CASE q = p
          BY <2>3, <2>4, <4>1
        <4>2. CASE q # p
          BY <2>4, <4>2 DEF IInv, LagBounded
        <4> QED
          BY <4>1, <4>2
      <3>2. \A q : (CurrentLag(q) + Advanced(q))' = CurrentLag(q) + Advanced(q)
        BY <1>1, <2>1 DEF CurrentLag, Advanced, Position
      <3> QED
        BY <2>1, <3>1, <3>2 DEF LagBounded
    <2>8. Compared'
      BY <2>1 DEF IInv, TypeOK, Compared
    <2> QED
      BY <2>5, <2>6, <2>7, <2>8 DEF IInv
  <1> QED
    BY <1>2, <1>3, <1>4, <1>5 DEF Check

\* Every step of the check and of the cluster keeps the invariant.
LEMMA NextIInv == IInv /\ [Next]_vars => IInv'
  <1> SUFFICES ASSUME IInv, [Next]_vars PROVE IInv'
    OBVIOUS
  <1>1. /\ latest \in [Partitions -> Nat] /\ committed \in [Partitions -> Int]
        /\ \A p \in Partitions : committed[p] <= latest[p]
        /\ \A m \in DOMAIN assignment : assignment[m] \subseteq Partitions
    BY DEF IInv, TypeOK
  <1>2. ASSUME NEW p \in Partitions, Produce(p)
        PROVE  IInv'
    <2>1. latest' = [latest EXCEPT ![p] = @ + 1] /\ committed' = committed /\ UNCHANGED <<assignment, checker>>
      BY <1>2 DEF Produce
    <2>2. latest' \in [Partitions -> Nat]
      BY <1>1, <2>1
    <2>3. \A q \in Partitions : latest[q] <= latest'[q] /\ committed[q] <= latest'[q]
                                /\ committed[q] <= committed[q]
      BY <1>1, <2>1
    <2> QED
      BY <1>1, <2>1, <2>2, <2>3, ClusterKeepsIInv
  <1>3. ASSUME NEW p \in Partitions, CommitOffset(p)
        PROVE  IInv'
    <2>1. PICK o \in committed[p] + 1 .. latest[p] : committed' = [committed EXCEPT ![p] = o]
      BY <1>3 DEF CommitOffset
    <2>2. latest' = latest /\ UNCHANGED <<assignment, checker>>
      BY <1>3 DEF CommitOffset
    <2>3. o \in Int /\ committed[p] <= o /\ o <= latest[p]
      BY <1>1, <2>1
    <2>4. committed' \in [Partitions -> Int]
      BY <1>1, <2>1, <2>3
    <2>5. \A q \in Partitions : committed[q] <= committed'[q] /\ committed'[q] <= latest[q]
                                /\ latest[q] <= latest[q]
      BY <1>1, <2>1, <2>3
    <2> QED
      BY <1>1, <2>2, <2>4, <2>5, ClusterKeepsIInv
  <1>4. CASE Rebalance \/ Stabilize \/ Cancel \/ UNCHANGED vars
    <2>1. UNCHANGED <<latest, committed, checker>>
      BY <1>4 DEF Rebalance, Stabilize, Cancel, vars, cluster
    <2>2. \A q \in Partitions : latest[q] <= latest[q] /\ committed[q] <= committed[q]
      BY <1>1
    <2>3. \A m \in DOMAIN assignment' : assignment'[m] \subseteq Partitions
      <3>1. CASE Rebalance
        BY <1>1, <3>1 DEF Rebalance
      <3>2. CASE Stabilize
        BY <3>2 DEF Stabilize
      <3>3. CASE UNCHANGED assignment
        BY <1>1, <3>3
      <3> QED
        BY <1>4, <3>1, <3>2, <3>3 DEF Cancel, vars, cluster
    <2> QED
      BY <1>1, <2>1, <2>2, <2>3, ClusterKeepsIInv
  <1> QED
    BY <1>2, <1>3, <1>4, CheckKeepsIInv DEF Next, Cluster

\* What the check has listed and computed is not overtaken by what happens to
\* the group while it is read, and its verdict is about the lags it computed
\* (Check, calculateLag and evaluateHealth in group_health.go).
THEOREM Inductive == Spec => []IInv
  <1>1. Init => IInv
    <2> SUFFICES ASSUME Init PROVE IInv
      OBVIOUS
    <2>1. latest \in [Partitions -> Nat] /\ committed \in [Partitions -> Int]
      BY GroupHealthAssumption DEF Init
    <2>2. \A p \in Partitions : -1 <= committed[p] /\ committed[p] <= latest[p]
      BY GroupHealthAssumption DEF Init
    <2>3. /\ DOMAIN lag = {} /\ pc = "idle" /\ result = "none"
          /\ DOMAIN assignment = {} /\ DOMAIN description.Members = {}
      BY DEF Init, Unread, Nobody
    <2> QED
      BY <2>1, <2>2, <2>3 DEF IInv, TypeOK, LagBounded, Compared
  <1> QED
    BY <1>1, NextIInv, PTL DEF Spec

\* Every lag that a check computes is at least what the partition lagged when
\* the offsets were listed, and exceeds what it lags now by no more than the
\* group has committed of it since (calculateLag), for any number of partitions.
THEOREM LagIsTrue == Spec => []LagBounded
  <1>1. IInv => LagBounded
    BY DEF IInv
  <1> QED
    BY <1>1, Inductive, PTL

\* A healthy group was within the threshold when its offsets were listed, and
\* what a stable group that is called degraded lags now and has committed since
\* exceeds it (evaluateHealth): the total of the lags is between these totals.
THEOREM VerdictIsSound == Spec => []VerdictSound
  <1>1. ASSUME IInv PROVE VerdictSound
    <2> DEFINE most == [p \in Partitions |-> CurrentLag(p) + Advanced(p)]
    <2> SUFFICES ASSUME MaxLag > 0, DOMAIN lag = Partitions
                 PROVE  /\ result = "Healthy" => Total(lagThen) <= MaxLag
                        /\ result = "Degraded" => Total(most) > MaxLag
      BY DEF VerdictSound
    <2>1. ASSUME NEW p \in Partitions
          PROVE  /\ lagThen[p] \in Nat /\ lag[p] \in Nat /\ most[p] \in Nat
                 /\ lagThen[p] <= lag[p] /\ lag[p] <= most[p]
      <3>1. Listed /\ lag[p] \in Nat
        BY <1>1 DEF IInv, TypeOK
      <3>2. /\ offsets[p] \in Int /\ lagThen[p] \in Nat /\ latest[p] \in Nat
            /\ committed[p] \in Int
        BY <1>1, <3>1 DEF Listed, IInv, TypeOK
      <3>3. most[p] \in Int
        BY <3>2 DEF CurrentLag, Advanced, Position
      <3>4. lagThen[p] <= lag[p] /\ lag[p] <= most[p]
        BY <1>1 DEF IInv, LagBounded
      <3> HIDE DEF most
      <3>5. most[p] \in Nat
        BY <3>1, <3>3, <3>4
      <3> QED
        BY <3>1, <3>2, <3>4, <3>5
    <2> HIDE DEF most
    <2>2. /\ Total(lagThen) \in Nat /\ Total(lag) \in Nat /\ Total(most) \in Nat
          /\ Total(lagThen) <= Total(lag) /\ Total(lag) <= Total(most)
      BY <2>1, TotalMonotone
    <2>3. /\ result = "Healthy" => Total(lag) <= MaxLag
          /\ result = "Degraded" => Total(lag) > MaxLag
      BY <1>1 DEF IInv, Compared
    <2> QED
      BY <2>2, <2>3, GroupHealthAssumption
  <1> QED
    BY <1>1, Inductive, PTL
=============================================================================
