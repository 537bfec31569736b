----------------------------- MODULE ReplicaPlanProofs -----------------------------
(***************************************************************************)
(* buildReplicaScalePlan and selectReplicaKeeper, for every list of        *)
(* containers and every target: the loops compute the sets of ReplicaPlan  *)
(* (AgreesWithScalePlan), carrying the plan out once reaches the target    *)
(* (PlanReachesTarget) with a best container of each index that had one    *)
(* (KeepsTheBest), and a second time does nothing (PlanIsStable).          *)
(*                                                                         *)
(* The loops are recursive functions on the positions of a list.  What     *)
(* they compute is shown by induction over the positions passed; after     *)
(* PlanIs nothing but sets is left of them.                                *)
(***************************************************************************)
EXTENDS ReplicaPlanList, SequenceTheorems, FiniteSetTheorems, WellFoundedInduction, TLAPS

\* A container summary: the engine's ids are apart from those of new containers.
Summary ==
    [id : {"old", "new"} \X Nat, state : ContainerStates,
     replica : Nat \cup {NoIndex}, created : Nat]

Distinct(list) == \A j, k \in DOMAIN list : list[j].id = list[k].id => j = k

--------------------------------------------------------------------------------
(* Induction over the numbers up to n, for a set of them instead of a predicate *)

\* A set of numbers up to n that holds the least and with each k - 1 also k holds them all.
LEMMA Induction ==
    ASSUME NEW n \in Nat, NEW Set, 0 \in Set, \A k \in 0 .. n - 1 : k \in Set => k + 1 \in Set
    PROVE  \A k \in 0 .. n : k \in Set
  <1> DEFINE T == {k \in 0 .. n : k \notin Set}
  <1> SUFFICES ASSUME T # {}
               PROVE  FALSE
    OBVIOUS
  <1>1. T \subseteq Nat
    OBVIOUS
  <1> HIDE DEF T
  <1>2. PICK m \in T : \A k \in T : ~(<<k, m>> \in OpToRel(<, Nat))
    BY <1>1, WFMin, NatLessThanWellFounded, Zenon
  <1>3. m \in Nat /\ \A k \in T : k \in Nat
    BY <1>1
  <1>4. \A k \in T : ~(k < m)
    BY <1>2, <1>3, Zenon DEF OpToRel
  <1>5. m \in 0 .. n /\ m \notin Set
    BY DEF T
  <1>6. m # 0 /\ m - 1 \in 0 .. n - 1
    BY <1>5
  <1>7. m - 1 \notin Set
    BY <1>5, <1>6
  <1>8. m - 1 \in T
    BY <1>5, <1>6, <1>7 DEF T
  <1> QED
    BY <1>3, <1>4, <1>8

--------------------------------------------------------------------------------
(* Appending the elements of a set *)

\* f is the list appended to after each of the first n turns of the loop.
Turns(f, list, S, n) ==
    f = [k \in 0 .. n |->
           IF k = 0 THEN <<>>
           ELSE IF list[k] \in S THEN Append(f[k - 1], list[k]) ELSE f[k - 1]]

\* The recursive function of Appended exists, and each turn of the loop follows from the
\* one before.
LEMMA TurnsExist ==
    ASSUME NEW list, NEW S, NEW n \in Nat
    PROVE  \E f : Turns(f, list, S, n)
  <1> DEFINE M == {m \in Nat : \E f : Turns(f, list, S, m)}
  <1>1. 0 \in M
    <2>1. Turns([k \in 0 .. 0 |-> <<>>], list, S, 0)
      BY DEF Turns
    <2> QED
      BY <2>1
  <1>2. ASSUME NEW m \in 0 .. n - 1, m \in M
        PROVE  m + 1 \in M
    <2>1. PICK f : Turns(f, list, S, m)
      BY <1>2
    <2>2. PICK last : last = IF list[m + 1] \in S THEN Append(f[m], list[m + 1]) ELSE f[m]
      OBVIOUS
    <2>3. PICK g : g = [k \in 0 .. m + 1 |-> IF k = m + 1 THEN last ELSE f[k]]
      OBVIOUS
    <2>4. \A k \in 0 .. m : g[k] = f[k]
      BY <2>3
    <2>5. \A k \in 0 .. m + 1 :
             g[k] = IF k = 0 THEN <<>>
                    ELSE IF list[k] \in S THEN Append(g[k - 1], list[k]) ELSE g[k - 1]
      <3> TAKE k \in 0 .. m + 1
      <3>1. CASE k = m + 1
        BY <2>2, <2>3, <2>4, <3>1
      <3>2. CASE k \in 0 .. m
        <4>1. k - 1 \in 0 .. m \/ k = 0
          BY <3>2
        <4>2. f[k] = IF k = 0 THEN <<>>
                     ELSE IF list[k] \in S THEN Append(f[k - 1], list[k]) ELSE f[k - 1]
          BY <2>1, <3>2 DEF Turns
        <4> QED
          BY <2>4, <3>2, <4>1, <4>2
      <3> QED
        BY <3>1, <3>2
    <2>6. Turns(g, list, S, m + 1)
      BY <2>3, <2>5 DEF Turns
    <2> QED
      BY <2>6
  <1> HIDE DEF M
  <1>3. n \in M
    BY <1>1, <1>2, Induction
  <1> QED
    BY <1>3 DEF M

\* Appended is the last of its turns.
LEMMA AppendedTurns ==
    ASSUME NEW list, NEW S, Len(list) \in Nat
    PROVE  \E f : Turns(f, list, S, Len(list)) /\ Appended(list, S) = f[Len(list)]
  <1> DEFINE F == CHOOSE f : Turns(f, list, S, Len(list))
  <1>1. Turns(F, list, S, Len(list))
    BY TurnsExist
  <1>2. Appended(list, S) = F[Len(list)]
    BY DEF Appended, Turns
  <1> QED
    BY <1>1, <1>2

\* The loop appends the elements of the set and nothing else, each as often as it is there.
LEMMA AppendedIs ==
    ASSUME NEW T, NEW list \in Seq(T), NEW S
    PROVE  /\ Appended(list, S) \in Seq(T)
           /\ Range(Appended(list, S)) = Range(list) \cap S
           /\ IsInjective(list) => IsInjective(Appended(list, S))
  <1>1. PICK n \in Nat : n = Len(list) /\ DOMAIN list = 1 .. n
    BY LenProperties
  <1>2. PICK f : Turns(f, list, S, n) /\ Appended(list, S) = f[n]
    BY <1>1, AppendedTurns
  <1> DEFINE Good(k) ==
               /\ f[k] \in Seq(T)
               /\ Range(f[k]) = {list[j] : j \in 1 .. k} \cap S
               /\ IsInjective(list) => IsInjective(f[k])
             M == {k \in Nat : Good(k)}
  <1>3. Good(0)
    <2>1. f[0] = <<>>
      BY <1>2 DEF Turns
    <2>2. Range(<<>>) = {} /\ <<>> \in Seq(T) /\ IsInjective(<<>>)
      BY DEF Range, IsInjective
    <2> QED
      BY <2>1, <2>2
  <1>4. ASSUME NEW k \in 0 .. n - 1, Good(k)
        PROVE  Good(k + 1)
    <2>1. f[k + 1] = IF list[k + 1] \in S THEN Append(f[k], list[k + 1]) ELSE f[k]
      <3>1. k + 1 \in 0 .. n /\ k + 1 # 0 /\ (k + 1) - 1 = k
        OBVIOUS
      <3> QED
        BY <1>2, <3>1 DEF Turns
    <2>2. k + 1 \in DOMAIN list /\ list[k + 1] \in T
      BY <1>1, ElementOfSeq
    <2>3. {list[j] : j \in 1 .. k + 1} = {list[j] : j \in 1 .. k} \cup {list[k + 1]}
      <3>1. 1 .. k + 1 = (1 .. k) \cup {k + 1}
        OBVIOUS
      <3> QED
        BY <3>1
    <2>4. CASE list[k + 1] \notin S
      BY <1>4, <2>1, <2>3, <2>4
    <2>5. CASE list[k + 1] \in S
      <3>1. PICK s : s = f[k] /\ s \in Seq(T)
        BY <1>4
      <3>2. PICK t : t = Append(s, list[k + 1])
        OBVIOUS
      <3>3. /\ t \in Seq(T) /\ Len(s) \in Nat /\ DOMAIN s = 1 .. Len(s)
            /\ DOMAIN t = 1 .. Len(s) + 1
            /\ \A i \in 1 .. Len(s) : t[i] = s[i]
            /\ t[Len(s) + 1] = list[k + 1]
        BY <2>2, <3>1, <3>2, AppendProperties, LenProperties
      <3>4. Range(t) = Range(s) \cup {list[k + 1]}
        BY <3>3 DEF Range
      <3>5. ASSUME IsInjective(list)
            PROVE  IsInjective(t)
        <4>1. IsInjective(s)
          BY <1>4, <3>1, <3>5
        <4>2. list[k + 1] \notin {list[j] : j \in 1 .. k}
          <5> SUFFICES ASSUME NEW j \in 1 .. k, list[j] = list[k + 1]
                       PROVE  FALSE
            OBVIOUS
          <5>1. j \in DOMAIN list /\ j # k + 1
            BY <1>1
          <5> QED
            BY <2>2, <3>5, <5>1 DEF IsInjective
        <4>3. list[k + 1] \notin Range(s)
          BY <1>4, <3>1, <4>2
        <4>4. \A i \in DOMAIN s : s[i] # list[k + 1]
          BY <4>3 DEF Range
        <4> QED
          BY <3>3, <4>1, <4>4 DEF IsInjective
      <3>6. f[k + 1] = t
        BY <2>1, <2>5, <3>1, <3>2
      <3> QED
        BY <1>4, <2>3, <2>5, <3>1, <3>3, <3>4, <3>5, <3>6
    <2> QED
      BY <2>4, <2>5
  <1> HIDE DEF Good
  <1>5. 0 \in M
    BY <1>3
  <1>6. ASSUME NEW k \in 0 .. n - 1, k \in M
        PROVE  k + 1 \in M
    BY <1>4, <1>6
  <1> HIDE DEF M
  <1>7. n \in M
    <2>1. \A k \in 0 .. n : k \in M
      BY <1>5, <1>6, Induction
    <2> QED
      BY <2>1
  <1>8. Good(n)
    BY <1>7 DEF M
  <1> USE DEF Good
  <1>9. Range(list) = {list[j] : j \in 1 .. n}
    BY <1>1 DEF Range
  <1> QED
    BY <1>2, <1>8, <1>9

--------------------------------------------------------------------------------
(* Choosing the container to keep *)

\* f is the best of the group's first containers, after each turn of the loop.
Choices(f, group, n) ==
    f = [k \in 1 .. n |->
           IF k # 1 /\ ~Preferred(group[k], f[k - 1]) THEN f[k - 1] ELSE group[k]]

\* The same for SelectReplicaKeeper: the best so far exists after each turn.
LEMMA ChoicesExist ==
    ASSUME NEW group, NEW n \in Nat
    PROVE  \E f : Choices(f, group, n)
  <1> DEFINE M == {m \in Nat : \E f : Choices(f, group, m)}
  <1>1. 0 \in M
    <2>1. Choices([k \in 1 .. 0 |-> 0], group, 0)
      BY DEF Choices
    <2> QED
      BY <2>1
  <1>2. ASSUME NEW m \in 0 .. n - 1, m \in M
        PROVE  m + 1 \in M
    <2>1. PICK f : Choices(f, group, m)
      BY <1>2
    <2>2. PICK last : last = IF m + 1 # 1 /\ ~Preferred(group[m + 1], f[m])
                             THEN f[m] ELSE group[m + 1]
      OBVIOUS
    <2>3. PICK g : g = [k \in 1 .. m + 1 |-> IF k = m + 1 THEN last ELSE f[k]]
      OBVIOUS
    <2>4. \A k \in 1 .. m : g[k] = f[k]
      BY <2>3
    <2>5. \A k \in 1 .. m + 1 :
             g[k] = IF k # 1 /\ ~Preferred(group[k], g[k - 1]) THEN g[k - 1] ELSE group[k]
      <3> TAKE k \in 1 .. m + 1
      <3>1. CASE k = m + 1
        <4>1. k # 1 => g[k - 1] = f[m]
          BY <2>4, <3>1
        <4>2. g[k] = last
          BY <2>3, <3>1
        <4> QED
          BY <2>2, <3>1, <4>1, <4>2
      <3>2. CASE k \in 1 .. m
        <4>1. k - 1 \in 1 .. m \/ k = 1
          BY <3>2
        <4>2. f[k] = IF k # 1 /\ ~Preferred(group[k], f[k - 1]) THEN f[k - 1] ELSE group[k]
          BY <2>1, <3>2 DEF Choices
        <4> QED
          BY <2>4, <3>2, <4>1, <4>2
      <3> QED
        BY <3>1, <3>2
    <2>6. Choices(g, group, m + 1)
      BY <2>3, <2>5 DEF Choices
    <2> QED
      BY <2>6
  <1> HIDE DEF M
  <1>3. n \in M
    BY <1>1, <1>2, Induction
  <1> QED
    BY <1>3 DEF M

\* SelectReplicaKeeper is the last of its choices.
LEMMA KeeperChoices ==
    ASSUME NEW group, Len(group) \in Nat
    PROVE  \E f : Choices(f, group, Len(group)) /\ SelectReplicaKeeper(group) = f[Len(group)]
  <1> DEFINE F == CHOOSE f : Choices(f, group, Len(group))
  <1>1. Choices(F, group, Len(group))
    BY ChoicesExist
  <1>2. SelectReplicaKeeper(group) = F[Len(group)]
    BY DEF SelectReplicaKeeper, Choices
  <1> QED
    BY <1>1, <1>2

\* A container no better than one that another one beats does not beat that other one.
LEMMA PreferredIsOrder ==
    ASSUME NEW a \in Summary, NEW b \in Summary, NEW c \in Summary,
           ~Preferred(c, b), Preferred(a, b)
    PROVE  ~Preferred(c, a)
  BY DEF Preferred, Summary, IsRunning

\* Comparing each container with the best so far finds a best of all.
LEMMA SelectReplicaKeeperIs ==
    ASSUME NEW group \in Seq(Summary), group # <<>>
    PROVE  IsKeeper(SelectReplicaKeeper(group), Range(group))
  <1>1. PICK n \in Nat \ {0} :
          n = Len(group) /\ DOMAIN group = 1 .. n /\ \A k \in 1 .. n : group[k] \in Summary
    BY EmptySeq, LenProperties, ElementOfSeq
  <1>2. PICK f : Choices(f, group, n) /\ SelectReplicaKeeper(group) = f[n]
    BY <1>1, KeeperChoices
  <1> DEFINE Good(k) == k # 0 => IsKeeper(f[k], {group[j] : j \in 1 .. k})
             M == {k \in Nat : Good(k)}
  <1>3. ASSUME NEW k \in 0 .. n - 1, Good(k)
        PROVE  Good(k + 1)
    <2>1. k + 1 \in 1 .. n /\ (k + 1) - 1 = k /\ group[k + 1] \in Summary
      BY <1>1
    <2>2. f[k + 1] = IF k + 1 # 1 /\ ~Preferred(group[k + 1], f[k]) THEN f[k] ELSE group[k + 1]
      BY <1>2, <2>1 DEF Choices
    <2>3. {group[j] : j \in 1 .. k + 1} = {group[j] : j \in 1 .. k} \cup {group[k + 1]}
      <3>1. 1 .. k + 1 = (1 .. k) \cup {k + 1}
        OBVIOUS
      <3> QED
        BY <3>1
    <2>4. ~Preferred(group[k + 1], group[k + 1])
      BY <2>1 DEF Preferred, Summary
    <2>5. CASE k = 0
      <3>1. {group[j] : j \in 1 .. k} = {}
        BY <2>5
      <3> QED
        BY <2>2, <2>3, <2>4, <2>5, <3>1 DEF IsKeeper
    <2>6. CASE k # 0
      <3>1. PICK G : G = {group[j] : j \in 1 .. k}
        OBVIOUS
      <3>2. IsKeeper(f[k], G) /\ G \subseteq Summary
        BY <1>1, <1>3, <2>6, <3>1
      <3>3. f[k] \in Summary /\ f[k] \in G /\ \A c \in G : ~Preferred(c, f[k])
        BY <3>2 DEF IsKeeper
      <3>4. IsKeeper(f[k + 1], G \cup {group[k + 1]})
        <4>1. CASE ~Preferred(group[k + 1], f[k])
          BY <2>2, <2>6, <3>3, <4>1 DEF IsKeeper
        <4>2. CASE Preferred(group[k + 1], f[k])
          <5>1. \A c \in G : ~Preferred(c, group[k + 1])
            BY <2>1, <3>2, <3>3, <4>2, PreferredIsOrder
          <5> QED
            BY <2>2, <2>4, <4>2, <5>1 DEF IsKeeper
        <4> QED
          BY <4>1, <4>2
      <3> QED
        BY <2>3, <3>1, <3>4
    <2> QED
      BY <2>5, <2>6
  <1>4. Good(0)
    OBVIOUS
  <1> HIDE DEF Good
  <1>5. 0 \in M
    BY <1>4
  <1>6. ASSUME NEW k \in 0 .. n - 1, k \in M
        PROVE  k + 1 \in M
    BY <1>3, <1>6
  <1> HIDE DEF M
  <1>7. n \in M
    <2>1. \A k \in 0 .. n : k \in M
      BY <1>5, <1>6, Induction
    <2> QED
      BY <2>1
  <1>8. Good(n)
    BY <1>7 DEF M
  <1>9. Range(group) = {group[j] : j \in 1 .. n}
    BY <1>1 DEF Range
  <1> QED
    BY <1>2, <1>8, <1>9 DEF Good

--------------------------------------------------------------------------------
(* Sorting the indices *)

\* Counting the elements up to each numbers the elements of a finite set in their order.
LEMMA AscendingExists ==
    ASSUME NEW S \in SUBSET Nat, IsFiniteSet(S)
    PROVE  \E s \in [1 .. Cardinality(S) -> S] : \A j, k \in DOMAIN s : j < k => s[j] < s[k]
  <1>1. PICK n \in Nat : n = Cardinality(S)
    BY FS_CardinalityType
  <1> DEFINE UpTo(i) == {j \in S : j <= i}
             rank == [i \in S |-> Cardinality(UpTo(i))]
  <1>2. \A i \in S : /\ IsFiniteSet(UpTo(i)) /\ UpTo(i) # {}
                     /\ Cardinality(UpTo(i)) \in 1 .. n
    <2> TAKE i \in S
    <2>1. UpTo(i) \in SUBSET S /\ i \in UpTo(i)
      OBVIOUS
    <2>2. IsFiniteSet(UpTo(i)) /\ Cardinality(UpTo(i)) <= n
      BY <1>1, <2>1, FS_Subset
    <2>3. Cardinality(UpTo(i)) \in Nat /\ Cardinality(UpTo(i)) # 0
      BY <2>1, <2>2, FS_CardinalityType, FS_EmptySet
    <2> QED
      BY <1>1, <2>1, <2>2, <2>3
  <1>3. \A i, j \in S : i < j => rank[i] < rank[j]
    <2> SUFFICES ASSUME NEW i \in S, NEW j \in S, i < j
                 PROVE  rank[i] < rank[j]
      OBVIOUS
    <2>1. UpTo(i) \in SUBSET UpTo(j) /\ UpTo(i) # UpTo(j)
      <3>1. j \in UpTo(j) /\ j \notin UpTo(i)
        OBVIOUS
      <3>2. \A k \in UpTo(i) : k \in UpTo(j)
        OBVIOUS
      <3> QED
        BY <3>1, <3>2
    <2>2. Cardinality(UpTo(i)) <= Cardinality(UpTo(j))
          /\ Cardinality(UpTo(i)) # Cardinality(UpTo(j))
      BY <1>2, <2>1, FS_Subset
    <2> QED
      BY <1>2, <2>2
  <1>4. rank \in [S -> 1 .. n]
    BY <1>2
  <1> HIDE DEF rank
  <1>5. rank \in Injection(S, 1 .. n)
    <2>1. \A i, j \in S : rank[i] = rank[j] => i = j
      <3> SUFFICES ASSUME NEW i \in S, NEW j \in S, rank[i] = rank[j], i # j
                   PROVE  FALSE
        OBVIOUS
      <3>1. i < j \/ j < i
        OBVIOUS
      <3>2. rank[i] \in Int /\ rank[j] \in Int
        BY <1>4
      <3> QED
        BY <1>3, <3>1, <3>2
    <2> QED
      BY <1>4, <2>1 DEF Injection, IsInjective
  <1>6. IsFiniteSet(1 .. n) /\ Cardinality(1 .. n) = n
    BY FS_Interval
  <1>7. rank \in Surjection(S, 1 .. n)
    BY <1>1, <1>5, <1>6, FS_Injection
  <1>8. \A k \in 1 .. n : \E i \in S : rank[i] = k
    BY <1>7 DEF Surjection
  <1>9. PICK s : s = [k \in 1 .. n |-> CHOOSE i \in S : rank[i] = k]
    OBVIOUS
  <1>10. \A k \in 1 .. n : s[k] \in S /\ rank[s[k]] = k
    BY <1>8, <1>9
  <1>11. s \in [1 .. n -> S]
    BY <1>9, <1>10
  <1>12. \A j, k \in 1 .. n : j < k => s[j] < s[k]
    <2> SUFFICES ASSUME NEW j \in 1 .. n, NEW k \in 1 .. n, j < k, ~(s[j] < s[k])
                 PROVE  FALSE
      OBVIOUS
    <2>1. s[j] \in Nat /\ s[k] \in Nat /\ s[j] \in S /\ s[k] \in S
      BY <1>10
    <2>2. s[k] < s[j] \/ s[k] = s[j]
      BY <2>1
    <2> QED
      BY <1>3, <1>10, <2>1, <2>2
  <1> QED
    BY <1>1, <1>11, <1>12

\* Ascending lists a finite set of numbers in order, each once.
LEMMA AscendingIs ==
    ASSUME NEW S \in SUBSET Nat, IsFiniteSet(S)
    PROVE  /\ Ascending(S) \in Seq(S)
           /\ Range(Ascending(S)) = S
           /\ IsInjective(Ascending(S))
  <1>1. PICK n \in Nat : n = Cardinality(S)
    BY FS_CardinalityType
  <1>2. PICK s : s = Ascending(S)
    OBVIOUS
  <1>3. s \in [1 .. n -> S] /\ \A j, k \in DOMAIN s : j < k => s[j] < s[k]
    BY <1>1, <1>2, AscendingExists DEF Ascending
  <1>4. DOMAIN s = 1 .. n /\ \A k \in 1 .. n : s[k] \in Nat
    BY <1>3
  <1>5. IsInjective(s)
    <2> SUFFICES ASSUME NEW j \in 1 .. n, NEW k \in 1 .. n, s[j] = s[k], j # k
                 PROVE  FALSE
      BY <1>4 DEF IsInjective
    <2>1. j < k \/ k < j
      OBVIOUS
    <2> QED
      BY <1>3, <1>4, <2>1
  <1>6. IsFiniteSet(1 .. n) /\ Cardinality(1 .. n) = n
    BY FS_Interval
  <1>7. s \in Injection(1 .. n, S)
    BY <1>3, <1>5 DEF Injection
  <1>8. s \in Surjection(1 .. n, S)
    BY <1>1, <1>6, <1>7, FS_Injection
  <1>9. Range(s) = S
    BY <1>3, <1>8 DEF Range, Surjection
  <1>10. s \in Seq(S)
    BY <1>3
  <1> QED
    BY <1>2, <1>5, <1>9, <1>10

--------------------------------------------------------------------------------
(* What the plan is *)

\* K names a best container of each index.
Keeps(K, C) == \A i \in Indices(C) : IsKeeper(K[i], Group(C, i))

\* What the plan removes if it keeps K.
ActiveBut(K, C, n) ==
    {c \in Live(C) : IF c.replica = NoIndex THEN n = 0
                     ELSE c # K[c.replica] \/ c.replica >= n}

\* Where ids differ, containers are told apart by their ids, as the code does.
LEMMA DistinctElements ==
    ASSUME NEW list \in Seq(Summary), Distinct(list)
    PROVE  /\ IsInjective(list)
           /\ \A c, d \in Range(list) : c.id = d.id => c = d
  BY DEF Distinct, IsInjective, Range

\* Two lists without repetitions that share nothing have none together.
LEMMA ConcatInjective ==
    ASSUME NEW T, NEW s \in Seq(T), NEW t \in Seq(T), IsInjective(s), IsInjective(t),
           Range(s) \cap Range(t) = {}
    PROVE  IsInjective(s \o t)
  <1>1. PICK m \in Nat, n \in Nat :
          m = Len(s) /\ n = Len(t) /\ DOMAIN s = 1 .. m /\ DOMAIN t = 1 .. n
    BY LenProperties
  <1>2. PICK u : u = s \o t
    OBVIOUS
  <1>3. /\ DOMAIN u = 1 .. m + n
        /\ \A i \in 1 .. m + n : u[i] = IF i <= m THEN s[i] ELSE t[i - m]
    BY <1>1, <1>2, ConcatProperties, LenProperties
  <1>4. \A i \in 1 .. m : \A j \in 1 .. n : s[i] # t[j]
    BY <1>1 DEF Range
  <1>5. ASSUME NEW i \in 1 .. m + n, NEW j \in 1 .. m + n, u[i] = u[j]
        PROVE  i = j
    <2>1. CASE i <= m /\ j <= m
      BY <1>1, <1>3, <1>5, <2>1 DEF IsInjective
    <2>2. CASE ~(i <= m) /\ ~(j <= m)
      <3>1. i - m \in 1 .. n /\ j - m \in 1 .. n /\ t[i - m] = t[j - m]
        BY <1>3, <1>5, <2>2
      <3>2. i - m = j - m
        BY <1>1, <3>1 DEF IsInjective
      <3> QED
        BY <3>2
    <2>3. CASE i <= m /\ ~(j <= m)
      BY <1>3, <1>4, <1>5, <2>3
    <2>4. CASE ~(i <= m) /\ j <= m
      BY <1>3, <1>4, <1>5, <2>4
    <2> QED
      BY <2>1, <2>2, <2>3, <2>4
  <1> QED
    BY <1>2, <1>3, <1>5 DEF IsInjective

\* A list has finitely many indices, all of them numbers.
LEMMA IndicesAreFinite ==
    ASSUME NEW list \in Seq(Summary)
    PROVE  /\ IsFiniteSet(Range(list))
           /\ {c.replica : c \in Range(list)} \ {NoIndex} \in SUBSET Nat
           /\ IsFiniteSet({c.replica : c \in Range(list)} \ {NoIndex})
  <1>1. PICK n \in Nat : DOMAIN list = 1 .. n /\ list \in [1 .. n -> Summary]
    BY LenProperties
  <1>2. IsFiniteSet(1 .. n)
    BY FS_Interval
  <1>3. IsFiniteSet(Range(list))
    <2>1. list \in Surjection(1 .. n, Range(list))
      BY <1>1 DEF Surjection, Range
    <2> QED
      BY <1>2, <2>1, FS_Surjection
  <1>4. IsFiniteSet({c.replica : c \in Range(list)})
    <2> DEFINE f == [k \in 1 .. n |-> list[k].replica]
    <2>1. f \in Surjection(1 .. n, {c.replica : c \in Range(list)})
      BY <1>1 DEF Surjection, Range
    <2> HIDE DEF f
    <2> QED
      BY <1>2, <2>1, FS_Surjection
  <1>5. {c.replica : c \in Range(list)} \ {NoIndex} \in SUBSET {c.replica : c \in Range(list)}
    OBVIOUS
  <1>6. {c.replica : c \in Range(list)} \ {NoIndex} \in SUBSET Nat
    BY <1>1 DEF Range, Summary
  <1> QED
    BY <1>3, <1>4, <1>5, <1>6, FS_Subset

\* The keepers of the indices, each from its own group.
LEMMA KeepersAre ==
    ASSUME NEW C, NEW live \in Seq(Summary), Range(live) = Live(C),
           NEW K, K = [i \in Indices(C) |->
                         SelectReplicaKeeper(Appended(live, {c \in C : c.replica = i}))]
    PROVE  /\ Keeps(K, C)
           /\ \A i \in Indices(C) : K[i] \in Live(C) /\ K[i] \in Summary /\ K[i].replica = i
  <1> SUFFICES ASSUME NEW i \in Indices(C)
               PROVE  /\ IsKeeper(K[i], Group(C, i))
                      /\ K[i] \in Live(C) /\ K[i] \in Summary /\ K[i].replica = i
    BY DEF Keeps
  <1>1. PICK group : group = Appended(live, {c \in C : c.replica = i})
    OBVIOUS
  <1>2. group \in Seq(Summary) /\ Range(group) = Group(C, i)
    <2>1. group \in Seq(Summary) /\ Range(group) = Live(C) \cap {c \in C : c.replica = i}
      BY <1>1, AppendedIs
    <2> QED
      BY <2>1 DEF Group, Live
  <1>3. group # <<>>
    <2>1. Range(group) # {}
      BY <1>2 DEF Group, Indices
    <2>2. Range(<<>>) = {}
      BY DEF Range
    <2> QED
      BY <2>1, <2>2
  <1>4. IsKeeper(K[i], Group(C, i))
    BY <1>1, <1>2, <1>3, SelectReplicaKeeperIs
  <1>5. K[i] \in Group(C, i) /\ Group(C, i) \subseteq Summary
    BY <1>2, <1>4, RangeOfSeq DEF IsKeeper
  <1> QED
    BY <1>4, <1>5 DEF Group

\* The keepers of the indices e lists.
KeepersOf(K, e) == [k \in DOMAIN e |-> K[e[k]]]

\* The keepers of the indices from the target up.
LEMMA ExcessIs ==
    ASSUME NEW I \in SUBSET Nat, IsFiniteSet(I), NEW n \in Nat, NEW K,
           \A i \in I : K[i] \in Summary /\ K[i].replica = i,
           NEW list, list = KeepersOf(K, Excess(I, n))
    PROVE  /\ list \in Seq(Summary) /\ IsInjective(list)
           /\ \A c : c \in Range(list) <=> \E i \in I : i >= n /\ c = K[i]
  <1> DEFINE excess == Excess(I, n)
  <1>1. PICK E : E = {i \in I : i >= n}
    OBVIOUS
  <1>2. E \in SUBSET I /\ E \in SUBSET Nat /\ IsFiniteSet(E)
    BY <1>1, FS_Subset
  <1>3. excess \in Seq(E) /\ Range(excess) = E /\ IsInjective(excess)
    BY <1>1, <1>2, AscendingIs DEF Excess
  <1> HIDE DEF excess
  <1>4. PICK m \in Nat : DOMAIN excess = 1 .. m /\ excess \in [1 .. m -> E]
    BY <1>3, LenProperties
  <1>5. list = [k \in 1 .. m |-> K[excess[k]]]
    BY <1>4 DEF KeepersOf, excess
  <1>6. /\ list \in [1 .. m -> Summary]
        /\ \A k \in 1 .. m : list[k].replica = excess[k]
    BY <1>2, <1>4, <1>5
  <1>7. list \in Seq(Summary)
    BY <1>6
  <1>8. IsInjective(list)
    BY <1>3, <1>4, <1>6 DEF IsInjective
  <1>9. Range(list) = {K[i] : i \in E}
    BY <1>3, <1>4, <1>5 DEF Range
  <1> QED
    BY <1>1, <1>7, <1>8, <1>9

\* The first loop collects the stale containers.
LEMMA StaleIs ==
    ASSUME NEW list \in Seq(Summary), NEW n \in Nat
    PROVE  LET stale == BuildReplicaScalePlan(list, n).stale
           IN  stale \in Seq(Summary) /\ Range(stale) = Range(list) \ Live(Range(list))
  <1>1. PICK stale : stale = Appended(list, {c \in Range(list) : IsStale(c.state)})
    OBVIOUS
  <1>2. stale \in Seq(Summary) /\ Range(stale) = Range(list) \ Live(Range(list))
    BY <1>1, AppendedIs DEF Live
  <1> QED
    BY <1>1, <1>2 DEF BuildReplicaScalePlan

\* The loop up to the target collects the indices no container has, each once.
LEMMA MissingIs ==
    ASSUME NEW I, NEW n \in Nat
    PROVE  /\ Missing(I, n) \in Seq(Nat) /\ IsInjective(Missing(I, n))
           /\ Range(Missing(I, n)) = (0 .. n - 1) \ I
  <1>1. PICK count : count = [k \in 1 .. n |-> k - 1]
    OBVIOUS
  <1>2. count \in Seq(Nat) /\ IsInjective(count)
    BY <1>1 DEF IsInjective
  <1>3. Range(count) = 0 .. n - 1
    <2>1. \A i \in 0 .. n - 1 : i + 1 \in 1 .. n /\ count[i + 1] = i
      BY <1>1
    <2>2. \A k \in 1 .. n : count[k] \in 0 .. n - 1
      BY <1>1
    <2>3. DOMAIN count = 1 .. n
      BY <1>1
    <2> QED
      BY <2>1, <2>2, <2>3 DEF Range
  <1>4. PICK T : T = Nat \ I
    OBVIOUS
  <1>5. Missing(I, n) = Appended(count, T)
    BY <1>1, <1>4 DEF Missing
  <1>6. (0 .. n - 1) \cap T = (0 .. n - 1) \ I
    BY <1>4
  <1> QED
    BY <1>2, <1>3, <1>5, <1>6, AppendedIs

\* The lists of the plan hold the sets of ScalePlan, if it keeps the same containers.
LEMMA PlanIs ==
    ASSUME NEW list \in Seq(Summary), Distinct(list), NEW n \in Nat,
           NEW plan, plan = BuildReplicaScalePlan(list, n), NEW C, C = Range(list)
    PROVE  /\ plan.stale \in Seq(Summary) /\ Range(plan.stale) = C \ Live(C)
           /\ plan.missing \in Seq(Nat) /\ IsInjective(plan.missing)
           /\ Range(plan.missing) = (0 .. n - 1) \ Indices(C)
           /\ plan.active \in Seq(Summary) /\ IsInjective(plan.active)
           /\ plan = [stale |-> plan.stale, active |-> plan.active, missing |-> plan.missing]
           /\ \E K : Keeps(K, C) /\ Range(plan.active) = ActiveBut(K, C, n)
  <1> DEFINE S          == Range(list)
             live       == Appended(list, {c \in S : ~IsStale(c.state)})
             I          == {c.replica : c \in Range(live)} \ {NoIndex}
             K          == [i \in I |->
                              SelectReplicaKeeper(Appended(live, {c \in S : c.replica = i}))]
             unindexed  == Appended(live, {c \in S : n = 0 /\ c.replica = NoIndex})
             duplicates == Appended(live, {c \in Range(live) :
                              c.replica # NoIndex /\ c.id # K[c.replica].id})
             excess     == Excess(I, n)
             beyond     == [k \in DOMAIN excess |-> K[excess[k]]]
  <1>1. plan = [ stale   |-> Appended(list, {c \in S : IsStale(c.state)}),
                 active  |-> unindexed \o duplicates \o beyond,
                 missing |-> Missing(I, n) ]
    BY DEF BuildReplicaScalePlan
  <1> HIDE DEF live, I, K, unindexed, duplicates, excess, beyond
  <1>2. live \in Seq(Summary) /\ Range(live) = Live(C) /\ IsInjective(live)
    <2>1. PICK T : T = {c \in C : ~IsStale(c.state)}
      OBVIOUS
    <2>2. live = Appended(list, T)
      BY <2>1 DEF live
    <2>3. T = Live(C) /\ C \cap T = T
      BY <2>1 DEF Live
    <2>4. /\ Appended(list, T) \in Seq(Summary) /\ Range(Appended(list, T)) = Range(list) \cap T
          /\ IsInjective(list) => IsInjective(Appended(list, T))
      BY AppendedIs
    <2>5. IsInjective(list)
      BY DistinctElements
    <2> QED
      BY <2>2, <2>3, <2>4, <2>5
  <1>3. /\ I = Indices(C)
        /\ Indices(C) \in SUBSET Nat /\ IsFiniteSet(Indices(C))
    BY <1>2, IndicesAreFinite DEF Indices, I
  <1>4. K = [i \in Indices(C) |->
               SelectReplicaKeeper(Appended(live, {c \in C : c.replica = i}))]
    BY <1>3 DEF K
  <1>5. /\ Keeps(K, C)
        /\ \A i \in Indices(C) : K[i] \in Live(C) /\ K[i] \in Summary /\ K[i].replica = i
    BY <1>2, <1>4, KeepersAre
  <1>7. /\ unindexed \in Seq(Summary) /\ IsInjective(unindexed)
        /\ Range(unindexed) = {c \in Live(C) : n = 0 /\ c.replica = NoIndex}
    <2>1. PICK T : T = {c \in C : n = 0 /\ c.replica = NoIndex}
      OBVIOUS
    <2>2. unindexed = Appended(live, T)
      BY <2>1 DEF unindexed
    <2>3. Live(C) \cap T = {c \in Live(C) : n = 0 /\ c.replica = NoIndex}
      BY <2>1 DEF Live
    <2> QED
      BY <1>2, <2>2, <2>3, AppendedIs
  <1>9. /\ duplicates \in Seq(Summary) /\ IsInjective(duplicates)
        /\ Range(duplicates) = {c \in Live(C) : c.replica # NoIndex /\ c # K[c.replica]}
    <2>1. \A c \in Live(C) : c.replica # NoIndex =>
             (c.id # K[c.replica].id <=> c # K[c.replica])
      <3> SUFFICES ASSUME NEW c \in Live(C), c.replica # NoIndex
                   PROVE  c.id = K[c.replica].id => c = K[c.replica]
        OBVIOUS
      <3>1. c.replica \in Indices(C)
        BY DEF Indices
      <3>2. c \in C /\ K[c.replica] \in C
        BY <1>5, <3>1 DEF Live
      <3> QED
        BY <3>2, DistinctElements
    <2>2. {c \in Range(live) : c.replica # NoIndex /\ c.id # K[c.replica].id}
             = {c \in Live(C) : c.replica # NoIndex /\ c # K[c.replica]}
      BY <1>2, <2>1
    <2>3. duplicates = Appended(live, {c \in Live(C) : c.replica # NoIndex /\ c # K[c.replica]})
      BY <2>2 DEF duplicates
    <2> QED
      BY <1>2, <2>3, AppendedIs
  <1>12. /\ beyond \in Seq(Summary) /\ IsInjective(beyond)
         /\ \A c : c \in Range(beyond) <=> \E i \in Indices(C) : i >= n /\ c = K[i]
    <2>1. PICK J : J = Indices(C) /\ J \in SUBSET Nat /\ IsFiniteSet(J)
      BY <1>3
    <2>2. PICK k : k = K /\ \A i \in J : k[i] \in Summary /\ k[i].replica = i
      BY <1>5, <2>1
    <2>3. PICK e : e = excess /\ e = Excess(J, n)
      BY <1>3, <2>1 DEF excess
    <2>4. PICK b : b = beyond /\ b = KeepersOf(k, e)
      BY <2>2, <2>3 DEF beyond, KeepersOf
    <2>5. /\ b \in Seq(Summary) /\ IsInjective(b)
          /\ \A c : c \in Range(b) <=> \E i \in J : i >= n /\ c = k[i]
      BY <2>1, <2>2, <2>3, <2>4, ExcessIs
    <2> QED
      BY <2>1, <2>2, <2>4, <2>5
  <1>14. PICK first : first = unindexed \o duplicates
    OBVIOUS
  <1>15. /\ first \in Seq(Summary) /\ IsInjective(first)
         /\ Range(first) = Range(unindexed) \cup Range(duplicates)
    <2>1. Range(unindexed) \cap Range(duplicates) = {}
      BY <1>7, <1>9
    <2> QED
      BY <1>7, <1>9, <1>14, <2>1, ConcatProperties, ConcatInjective, RangeConcatenation
  <1>16. Range(first) \cap Range(beyond) = {}
    <2>1. \A i \in Indices(C) : i # NoIndex
      BY DEF Indices
    <2>2. ASSUME NEW c \in Range(first), c \in Range(beyond)
          PROVE  FALSE
      <3>1. c \in Range(unindexed) \/ c \in Range(duplicates)
        BY <1>15, <2>2
      <3>2. PICK i \in Indices(C) : i >= n /\ c = K[i]
        BY <1>12, <2>2
      <3> QED
        BY <1>5, <1>7, <1>9, <2>1, <3>1, <3>2
    <2> QED
      BY <2>2
  <1>17. PICK active : active = first \o beyond
    OBVIOUS
  <1>18. /\ active \in Seq(Summary) /\ IsInjective(active)
         /\ Range(active) = Range(first) \cup Range(beyond)
    <2>1. active \in Seq(Summary)
      BY <1>12, <1>15, <1>17, ConcatProperties
    <2>2. IsInjective(active)
      BY <1>12, <1>15, <1>16, <1>17, ConcatInjective
    <2>3. Range(active) = Range(first) \cup Range(beyond)
      BY <1>12, <1>15, <1>17, RangeConcatenation
    <2> QED
      BY <2>1, <2>2, <2>3
  <1>19. Range(active) = ActiveBut(K, C, n)
    <2>1. ASSUME NEW c \in Range(active)
          PROVE  c \in ActiveBut(K, C, n)
      <3>1. CASE c \in Range(unindexed) \/ c \in Range(duplicates)
        BY <1>7, <1>9, <3>1 DEF ActiveBut
      <3>2. CASE c \in Range(beyond)
        <4>1. PICK i \in Indices(C) : i >= n /\ c = K[i]
          BY <1>12, <3>2
        <4> QED
          BY <1>5, <4>1 DEF ActiveBut, Indices
      <3> QED
        BY <1>15, <1>18, <2>1, <3>1, <3>2
    <2>2. ASSUME NEW c \in ActiveBut(K, C, n)
          PROVE  c \in Range(active)
      <3>1. c \in Live(C)
        BY DEF ActiveBut
      <3>2. CASE c.replica = NoIndex
        BY <1>7, <1>15, <1>18, <3>1, <3>2 DEF ActiveBut
      <3>3. CASE c.replica # NoIndex /\ c # K[c.replica]
        BY <1>9, <1>15, <1>18, <3>1, <3>3
      <3>4. CASE c.replica # NoIndex /\ c = K[c.replica]
        <4>1. c.replica \in Indices(C) /\ c.replica >= n
          BY <3>1, <3>4 DEF ActiveBut, Indices
        <4> QED
          BY <1>12, <1>18, <3>4, <4>1
      <3> QED
        BY <3>2, <3>3, <3>4
    <2> QED
      BY <2>1, <2>2
  <1>20. plan.active = active /\ plan.missing = Missing(Indices(C), n)
    BY <1>1, <1>3, <1>14, <1>17
  <1>21. plan = [stale |-> plan.stale, active |-> plan.active, missing |-> plan.missing]
    BY <1>1
  <1> QED
    BY <1>5, <1>18, <1>19, <1>20, <1>21, StaleIs, MissingIs

--------------------------------------------------------------------------------
(* Carrying the plan out *)

\* Ids differ, those of new containers come with the first round, and from then on the
\* target is reached.
Inv ==
    /\ listed \in Seq(Summary) /\ Distinct(listed)
    /\ target \in Nat /\ rounds \in 0 .. 2
    /\ rounds = 0 => \A c \in Containers : c.id[1] = "old"
    /\ PlanReachesTarget

\* What is left of the containers in C if K is kept.
Spared(K, C, n) ==
    {c \in Live(C) : IF c.replica = NoIndex THEN n # 0 ELSE c = K[c.replica] /\ c.replica < n}

Created(C, n) == {NewReplica(i) : i \in (0 .. n - 1) \ Indices(C)}

\* A list is empty if it has no elements.
LEMMA EmptyRange ==
    ASSUME NEW T, NEW s \in Seq(T), Range(s) = {}
    PROVE  s = <<>>
  <1>1. SUFFICES ASSUME s # <<>>
                 PROVE  FALSE
    OBVIOUS
  <1>2. 1 \in DOMAIN s
    BY <1>1, EmptySeq, LenProperties
  <1> QED
    BY <1>2 DEF Range

\* What is listed are container summaries with ids of their own.
LEMMA ContainersAre ==
    ASSUME Inv
    PROVE  /\ Containers \subseteq Summary /\ IsFiniteSet(Containers)
           /\ \A c \in Containers : c.replica \in Nat \cup {NoIndex}
           /\ \A c, d \in Containers : c.id = d.id => c = d
  <1>1. Containers \subseteq Summary
    BY RangeOfSeq DEF Inv, Containers
  <1>2. IsFiniteSet(Containers)
    BY IndicesAreFinite DEF Inv, Containers
  <1>3. \A c, d \in Containers : c.id = d.id => c = d
    BY DistinctElements DEF Inv, Containers
  <1> QED
    BY <1>1, <1>2, <1>3 DEF Summary

\* A set in which the plan has been carried out needs nothing more.
LEMMA NothingToDo ==
    ASSUME Inv, rounds > 0
    PROVE  Plan = [stale |-> <<>>, active |-> <<>>, missing |-> <<>>]
  <1>1. PICK C : C = Containers
    OBVIOUS
  <1>2. /\ \A c \in C : ~IsStale(c.state) /\ c.replica < target
        /\ \A i \in 0 .. target - 1 : Cardinality(Group(C, i)) = 1
        /\ target = 0 => C = {}
    BY <1>1 DEF Inv, PlanReachesTarget
  <1>3. /\ Plan.stale \in Seq(Summary) /\ Range(Plan.stale) = C \ Live(C)
        /\ Plan.missing \in Seq(Nat) /\ Range(Plan.missing) = (0 .. target - 1) \ Indices(C)
        /\ Plan.active \in Seq(Summary)
        /\ Plan = [stale |-> Plan.stale, active |-> Plan.active, missing |-> Plan.missing]
        /\ \E K : Keeps(K, C) /\ Range(Plan.active) = ActiveBut(K, C, target)
    BY <1>1, PlanIs DEF Inv, Plan, Containers
  <1>4. PICK K : Keeps(K, C) /\ Range(Plan.active) = ActiveBut(K, C, target)
    BY <1>3
  <1>5. C \ Live(C) = {}
    BY <1>2 DEF Live
  <1>6. \A i \in 0 .. target - 1 : \E c : Group(C, i) = {c}
    <2> TAKE i \in 0 .. target - 1
    <2>1. Group(C, i) \in SUBSET C
      BY DEF Group, Live
    <2>2. IsFiniteSet(Group(C, i))
      BY <1>1, <2>1, ContainersAre, FS_Subset
    <2> QED
      BY <1>2, <2>2, FS_Singleton
  <1>7. (0 .. target - 1) \ Indices(C) = {}
    <2> SUFFICES ASSUME NEW i \in 0 .. target - 1
                 PROVE  i \in Indices(C)
      OBVIOUS
    <2>1. PICK c : c \in Group(C, i)
      BY <1>6
    <2>2. i # NoIndex
      BY DEF Inv, NoIndex
    <2> QED
      BY <2>1, <2>2 DEF Group, Indices
  <1>8. ActiveBut(K, C, target) = {}
    <2> SUFFICES ASSUME NEW c \in ActiveBut(K, C, target)
                 PROVE  FALSE
      OBVIOUS
    <2>1. c \in Live(C) /\ c \in C /\ c.replica < target /\ target # 0
      BY <1>2 DEF ActiveBut, Live
    <2>2. c.replica # NoIndex
      BY <2>1 DEF ActiveBut
    <2>3. c.replica \in 0 .. target - 1 /\ ~(c.replica >= target)
      BY <1>1, <2>1, <2>2, ContainersAre DEF Inv
    <2>4. c # K[c.replica]
      BY <2>2, <2>3 DEF ActiveBut
    <2>5. K[c.replica] \in Group(C, c.replica)
      BY <1>4, <2>1, <2>2 DEF Keeps, IsKeeper, Indices
    <2>6. c \in Group(C, c.replica)
      BY <2>1 DEF Group
    <2> QED
      BY <1>6, <2>3, <2>4, <2>5, <2>6
  <1> QED
    BY <1>3, <1>4, <1>5, <1>7, <1>8, EmptyRange

\* ScaleFunction leaves a best container of each index below the target that had one,
\* those without an index unless the target is zero, and creates what is missing.
LEMMA ScaleIs ==
    ASSUME Inv, ScaleFunction
    PROVE  /\ listed' \in Seq(Summary) /\ Distinct(listed')
           /\ \E K : /\ Keeps(K, Containers)
                     /\ Containers' = Created(Containers, target)
                                         \cup Spared(K, Containers, target)
  <1>1. PICK C : C = Containers
    OBVIOUS
  <1>2. PICK plan : plan = Plan
    OBVIOUS
  <1>3. /\ Range(plan.stale) = C \ Live(C)
        /\ plan.missing \in Seq(Nat) /\ IsInjective(plan.missing)
        /\ Range(plan.missing) = (0 .. target - 1) \ Indices(C)
        /\ \E K : Keeps(K, C) /\ Range(plan.active) = ActiveBut(K, C, target)
    BY <1>1, <1>2, PlanIs DEF Inv, Plan, Containers
  <1>4. PICK K : Keeps(K, C) /\ Range(plan.active) = ActiveBut(K, C, target)
    BY <1>3
  <1>5. PICK m \in Nat : /\ DOMAIN plan.missing = 1 .. m
                         /\ \A k \in 1 .. m : plan.missing[k] \in Nat
    BY <1>3, LenProperties, ElementOfSeq
  <1>6. PICK created : created = [k \in DOMAIN plan.missing |-> NewReplica(plan.missing[k])]
    OBVIOUS
  <1>7. \A i \in Nat : /\ NewReplica(i) \in Summary
                       /\ NewReplica(i).id = <<"new", i>>
                       /\ NewReplica(i).id[1] = "new" /\ NewReplica(i).id[2] = i
    BY DEF NewReplica, Summary, ContainerStates
  <1>8. /\ created \in Seq(Summary) /\ Range(created) = Created(C, target)
        /\ IsInjective(created)
    <2>1. created = [k \in 1 .. m |-> NewReplica(plan.missing[k])]
      BY <1>5, <1>6
    <2>2. created \in [1 .. m -> Summary]
      BY <1>5, <1>7, <2>1
    <2>3. created \in Seq(Summary)
      BY <2>2
    <2>4. Range(created) = {NewReplica(i) : i \in Range(plan.missing)}
      BY <1>5, <2>1 DEF Range
    <2>5. \A k \in 1 .. m : created[k].id[2] = plan.missing[k]
      BY <1>5, <1>7, <2>1
    <2>6. IsInjective(created)
      BY <1>3, <1>5, <2>2, <2>5 DEF IsInjective
    <2> QED
      BY <1>3, <2>3, <2>4, <2>6 DEF Created
  <1>9. PICK T : T = C \ (Range(plan.stale) \cup Range(plan.active))
    OBVIOUS
  <1>10. PICK kept : kept = Appended(listed, T)
    OBVIOUS
  <1>11. listed' = created \o kept
    BY <1>1, <1>2, <1>6, <1>9, <1>10 DEF ScaleFunction, Containers
  <1>12. T = Spared(K, C, target)
    <2>1. \A c \in Live(C) : c.replica \in Nat \cup {NoIndex} /\ c \in C
      BY <1>1, ContainersAre DEF Live
    <2>2. \A c : c \in T <=> c \in Live(C) /\ c \notin ActiveBut(K, C, target)
      BY <1>3, <1>4, <1>9 DEF Live
    <2>3. \A c \in Live(C) : c \notin ActiveBut(K, C, target) <=>
             IF c.replica = NoIndex THEN target # 0
             ELSE c = K[c.replica] /\ c.replica < target
      BY <2>1 DEF ActiveBut, Inv, NoIndex
    <2> QED
      BY <2>2, <2>3 DEF Spared
  <1>13. kept \in Seq(Summary) /\ Range(kept) = T /\ IsInjective(kept)
    <2>1. listed \in Seq(Summary) /\ IsInjective(listed) /\ T \subseteq Range(listed)
      BY <1>1, <1>9, DistinctElements DEF Inv, Containers
    <2>2. Range(listed) \cap T = T
      BY <2>1
    <2>3. /\ Appended(listed, T) \in Seq(Summary) /\ Range(Appended(listed, T)) = Range(listed) \cap T
          /\ IsInjective(Appended(listed, T))
      BY <2>1, AppendedIs
    <2> QED
      BY <1>10, <2>2, <2>3
  <1>14. \A i \in Range(plan.missing) : \A c \in C : NewReplica(i).id # c.id
    <2>1. CASE rounds = 0
      <3>1. \A i \in Range(plan.missing) : NewReplica(i).id[1] = "new"
        BY <1>3, <1>7, RangeOfSeq
      <3>2. \A c \in C : c.id[1] = "old"
        BY <1>1, <2>1 DEF Inv
      <3> QED
        BY <3>1, <3>2
    <2>2. CASE rounds # 0
      <3>1. plan.missing = <<>>
        BY <1>2, <2>2, NothingToDo DEF Inv
      <3>2. Range(plan.missing) = {}
        BY <3>1 DEF Range
      <3> QED
        BY <3>2
    <2> QED
      BY <2>1, <2>2
  <1>15. \A c, d \in Range(created) \cup Range(kept) : c.id = d.id => c = d
    <2>1. Range(created) = {NewReplica(i) : i \in Range(plan.missing)}
      BY <1>3, <1>8 DEF Created
    <2>2. Range(plan.missing) \subseteq Nat
      BY <1>3, RangeOfSeq
    <2>3. \A c, d \in Range(created) : c.id = d.id => c = d
      BY <1>7, <2>1, <2>2
    <2>4. Range(kept) \subseteq C
      BY <1>9, <1>13
    <2>5. \A c, d \in Range(kept) : c.id = d.id => c = d
      BY <1>1, <2>4, ContainersAre
    <2>6. \A c \in Range(created) : \A d \in Range(kept) : c.id # d.id
      BY <1>14, <2>1, <2>4
    <2> QED
      BY <2>3, <2>5, <2>6
  <1>16. Range(created) \cap Range(kept) = {}
    <2>1. \A c \in Range(created) : c \notin Range(kept)
      <3>1. Range(created) = {NewReplica(i) : i \in Range(plan.missing)}
        BY <1>3, <1>8 DEF Created
      <3> QED
        BY <1>9, <1>13, <1>14, <3>1
    <2> QED
      BY <2>1
  <1>17. PICK list : list = created \o kept
    OBVIOUS
  <1>18. /\ list \in Seq(Summary) /\ IsInjective(list)
         /\ Range(list) = Range(created) \cup Range(kept)
    <2>1. list \in Seq(Summary)
      BY <1>8, <1>13, <1>17, ConcatProperties
    <2>2. IsInjective(list)
      BY <1>8, <1>13, <1>16, <1>17, ConcatInjective
    <2>3. Range(list) = Range(created) \cup Range(kept)
      BY <1>8, <1>13, <1>17, RangeConcatenation
    <2> QED
      BY <2>1, <2>2, <2>3
  <1>19. Distinct(list)
    BY <1>15, <1>18 DEF Distinct, IsInjective, Range
  <1>20. Containers' = Created(C, target) \cup Spared(K, C, target)
    <2>1. Containers' = Range(listed')
      BY DEF Containers
    <2> QED
      BY <1>8, <1>11, <1>12, <1>13, <1>17, <1>18, <2>1
  <1> QED
    BY <1>1, <1>4, <1>11, <1>17, <1>18, <1>19, <1>20

\* Of an index below the target that had containers its keeper is spared and no other.
LEMMA SparedIs ==
    ASSUME Inv, NEW K, Keeps(K, Containers), NEW i \in 0 .. target - 1, i \in Indices(Containers)
    PROVE  /\ K[i] \in Spared(K, Containers, target) /\ K[i].replica = i
           /\ \A c \in Spared(K, Containers, target) : c.replica = i => c = K[i]
  <1>1. i \in Nat /\ i < target /\ i # NoIndex
    BY DEF Inv, NoIndex
  <1>2. K[i] \in Live(Containers) /\ K[i].replica = i
    BY DEF Keeps, IsKeeper, Group
  <1> QED
    BY <1>1, <1>2 DEF Spared

\* Carrying the plan out once reaches the target.
LEMMA ScaleReaches ==
    ASSUME Inv, ScaleFunction
    PROVE  PlanReachesTarget'
  <1>1. PICK C : C = Containers
    OBVIOUS
  <1>2. PICK K : /\ Keeps(K, C)
                 /\ Containers' = Created(C, target) \cup Spared(K, C, target)
    BY <1>1, ScaleIs
  <1>3. PICK D : D = Containers'
    OBVIOUS
  <1>4. target' = target /\ target \in Nat
    BY DEF ScaleFunction, Inv
  <1>5. \A c \in C : c.replica \in Nat \cup {NoIndex}
    BY <1>1, ContainersAre
  <1>6. \A i \in 0 .. target - 1 : /\ NewReplica(i).replica = i
                                   /\ ~IsStale(NewReplica(i).state)
    BY DEF NewReplica, IsStale
  <1>7. ASSUME NEW c \in D
        PROVE  ~IsStale(c.state) /\ c.replica < target
    <2>1. CASE c \in Created(C, target)
      BY <1>4, <1>6, <2>1 DEF Created
    <2>2. CASE c \in Spared(K, C, target)
      BY <1>4, <1>5, <2>2 DEF Spared, Live, NoIndex
    <2> QED
      BY <1>2, <1>3, <2>1, <2>2
  <1>8. target = 0 => D = {}
    <2> SUFFICES ASSUME target = 0, NEW c \in D
                 PROVE  FALSE
      OBVIOUS
    <2>1. c \notin Created(C, target)
      BY DEF Created
    <2>2. c \in Spared(K, C, target)
      BY <1>2, <1>3, <2>1
    <2> QED
      BY <1>5, <2>2 DEF Spared, Live, NoIndex
  <1>9. ASSUME NEW i \in 0 .. target - 1
        PROVE  Cardinality(Group(D, i)) = 1
    <2>1. CASE i \in Indices(C)
      <3>1. /\ K[i] \in Spared(K, C, target) /\ K[i].replica = i
            /\ \A c \in Spared(K, C, target) : c.replica = i => c = K[i]
        BY <1>1, <1>2, <2>1, SparedIs
      <3>2. \A c \in Created(C, target) : c.replica # i
        BY <1>6, <2>1 DEF Created
      <3>3. Group(D, i) = {K[i]}
        BY <1>2, <1>3, <1>7, <3>1, <3>2 DEF Group, Live
      <3> QED
        BY <3>3, FS_Singleton
    <2>2. CASE i \notin Indices(C)
      <3>1. i # NoIndex
        BY <1>4 DEF NoIndex
      <3>2. \A c \in Spared(K, C, target) : c.replica # i
        BY <2>2, <3>1 DEF Spared, Indices
      <3>3. /\ NewReplica(i) \in Created(C, target)
            /\ \A c \in Created(C, target) : c.replica = i => c = NewReplica(i)
        BY <1>6, <2>2 DEF Created
      <3>4. Group(D, i) = {NewReplica(i)}
        BY <1>2, <1>3, <1>6, <1>7, <3>2, <3>3 DEF Group, Live
      <3> QED
        BY <3>4, FS_Singleton
    <2> QED
      BY <2>1, <2>2
  <1> QED
    BY <1>3, <1>4, <1>7, <1>8, <1>9 DEF PlanReachesTarget

\* A first list of any length satisfies the invariant.
LEMMA InitInv == Init => Inv
  <1> SUFFICES ASSUME Init
               PROVE  Inv
    OBVIOUS
  <1>1. target \in Nat /\ rounds = 0
    BY ReplicaPlanListAssumption DEF Init
  <1>2. PICK n \in Nat : \E list \in [1 .. n -> [state : States, replica : Indexes, created : Ages]] :
                            listed = WithIds(list)
    BY ReplicaPlanListAssumption DEF Init
  <1> PICK list \in [1 .. n -> [state : States, replica : Indexes, created : Ages]] :
             listed = WithIds(list)
    BY <1>2
  <1>3. listed = [k \in 1 .. n |-> [id |-> <<"old", k>>, state |-> list[k].state,
                                    replica |-> list[k].replica, created |-> list[k].created]]
    BY DEF WithIds
  <1>4. \A k \in 1 .. n : /\ list[k].state \in ContainerStates
                          /\ list[k].replica \in Nat \cup {NoIndex} /\ list[k].created \in Nat
    BY ReplicaPlanListAssumption
  <1>5. \A k \in 1 .. n : <<"old", k>> \in {"old", "new"} \X Nat
    OBVIOUS
  <1>6. \A k \in 1 .. n : listed[k] \in Summary /\ listed[k].id = <<"old", k>>
    <2> TAKE k \in 1 .. n
    <2>1. listed[k] = [id |-> <<"old", k>>, state |-> list[k].state,
                       replica |-> list[k].replica, created |-> list[k].created]
      BY <1>3
    <2> QED
      BY <1>4, <1>5, <2>1 DEF Summary
  <1>7. listed \in [1 .. n -> Summary]
    BY <1>3, <1>6
  <1>8. listed \in Seq(Summary) /\ Distinct(listed)
    BY <1>6, <1>7 DEF Distinct
  <1>9. \A c \in Containers : c.id[1] = "old"
    BY <1>6, <1>7 DEF Containers, Range
  <1> QED
    BY <1>1, <1>8, <1>9 DEF Inv, PlanReachesTarget

\* Scaling preserves it: the ids of what is created differ from those of what is spared.
LEMMA NextInv == Inv /\ [Next]_vars => Inv'
  <1> SUFFICES ASSUME Inv, [Next]_vars
               PROVE  Inv'
    OBVIOUS
  <1>1. CASE ScaleFunction
    <2>1. listed' \in Seq(Summary) /\ Distinct(listed')
      BY <1>1, ScaleIs
    <2>2. target' \in Nat /\ rounds' \in 0 .. 2 /\ rounds' # 0
      BY <1>1 DEF Inv, ScaleFunction
    <2>3. PlanReachesTarget'
      BY <1>1, ScaleReaches
    <2> QED
      BY <2>1, <2>2, <2>3 DEF Inv
  <1>2. CASE UNCHANGED vars
    BY <1>2 DEF Inv, vars, Containers, PlanReachesTarget
  <1> QED
    BY <1>1, <1>2 DEF Next, Done

LEMMA Invariance == Spec => []Inv
  BY InitInv, NextInv, PTL DEF Spec

--------------------------------------------------------------------------------
(* The theorems *)

\* One scale-up or scale-down is enough, whatever was listed before and whatever the
\* target: afterwards each index below the target has one container, not a stale one.
THEOREM OnePassIsEnough == Spec => []PlanReachesTarget
  <1>1. Inv => PlanReachesTarget
    BY DEF Inv
  <1> QED
    BY <1>1, Invariance, PTL

\* Planning again for the same target finds nothing to remove and nothing to create.
THEOREM SecondPassDoesNothing == Spec => []PlanIsStable
  <1>1. Inv => PlanIsStable
    BY NothingToDo DEF PlanIsStable
  <1> QED
    BY <1>1, Invariance, PTL

\* The container the code keeps of an index is the newest of those that are running, or
\* of all of them when none is.
THEOREM BestIsKept == Spec => KeepsTheBest
  <1> DEFINE Step == \A i \in Indices(Containers) : i < target =>
                        \E k \in Group(Containers, i) :
                           k \in Containers' /\ IsKeeper(k, Group(Containers, i))
  <1>1. ASSUME Inv, ScaleFunction
        PROVE  Step
    <2>1. PICK K : /\ Keeps(K, Containers)
                   /\ Containers' = Created(Containers, target)
                                       \cup Spared(K, Containers, target)
      BY <1>1, ScaleIs
    <2> SUFFICES ASSUME NEW i \in Indices(Containers), i < target
                 PROVE  /\ K[i] \in Group(Containers, i) /\ IsKeeper(K[i], Group(Containers, i))
                        /\ K[i] \in Containers'
      OBVIOUS
    <2>2. i \in Nat
      BY <1>1, ContainersAre DEF Indices, Live
    <2>3. i \in 0 .. target - 1
      BY <1>1, <2>2 DEF Inv
    <2> QED
      BY <1>1, <2>1, <2>3, SparedIs DEF Keeps, IsKeeper
  <1>2. Inv /\ [Next]_vars => [Step]_vars
    BY <1>1 DEF Next, Done, vars
  <1> QED
    BY <1>2, Invariance, PTL DEF Spec, KeepsTheBest

\* A bijection between what two choices of keepers remove: a container the one keeps
\* stands for the container of its index the other keeps.
LEMMA SameNumber ==
    ASSUME NEW C, IsFiniteSet(C), \A c \in C : c.replica \in Nat \cup {NoIndex},
           NEW n \in Nat, NEW K, NEW L, Keeps(K, C), Keeps(L, C)
    PROVE  Cardinality(ActiveBut(K, C, n)) = Cardinality(ActiveBut(L, C, n))
  <1> DEFINE A == ActiveBut(K, C, n)
             B == ActiveBut(L, C, n)
             Swaps(c) == c.replica # NoIndex /\ c.replica < n /\ c = L[c.replica]
             f == [c \in A |-> IF Swaps(c) THEN K[c.replica] ELSE c]
  <1>1. /\ \A i \in Indices(C) : /\ K[i] \in Live(C) /\ K[i].replica = i
                                 /\ L[i] \in Live(C) /\ L[i].replica = i
        /\ \A c \in Live(C) : c.replica # NoIndex => c.replica \in Indices(C)
    BY DEF Keeps, IsKeeper, Group, Indices
  <1>2. \A c \in Live(C) : c.replica \in Nat \cup {NoIndex} /\ c \in C
    BY DEF Live
  <1>3. A \in SUBSET Live(C) /\ B \in SUBSET Live(C) /\ A \in SUBSET C
    BY <1>2 DEF ActiveBut
  <1>4. \A c \in A : IF Swaps(c) THEN f[c] = K[c.replica] /\ c # K[c.replica] ELSE f[c] = c
    BY <1>1, <1>2, <1>3 DEF ActiveBut
  <1>5. \A c \in A : f[c] \in B /\ f[c].replica = c.replica
    <2> TAKE c \in A
    <2>1. c \in Live(C)
      BY <1>3
    <2>2. CASE Swaps(c)
      <3>1. c.replica \in Indices(C) /\ c.replica \in Nat
        BY <1>1, <1>2, <2>1, <2>2
      <3>2. f[c] = K[c.replica] /\ f[c] # L[c.replica] /\ f[c].replica = c.replica
        BY <1>1, <1>4, <2>2, <3>1
      <3>3. f[c] \in Live(C)
        BY <1>1, <3>1, <3>2
      <3> QED
        BY <2>2, <3>2, <3>3 DEF ActiveBut
    <2>3. CASE ~Swaps(c)
      <3>1. f[c] = c
        BY <1>4, <2>3
      <3>2. c \in B
        BY <1>2, <2>1, <2>3 DEF ActiveBut
      <3> QED
        BY <3>1, <3>2
    <2> QED
      BY <2>2, <2>3
  <1>6. \A c, d \in A : f[c] = f[d] => c = d
    <2> SUFFICES ASSUME NEW c \in A, NEW d \in A, f[c] = f[d]
                 PROVE  c = d
      OBVIOUS
    <2>1. c.replica = d.replica
      BY <1>5
    <2>2. CASE Swaps(c) <=> Swaps(d)
      BY <1>4, <2>1, <2>2
    <2>3. \A x \in A : Swaps(x) => K[x.replica] \notin A
      <3> SUFFICES ASSUME NEW x \in A, Swaps(x), K[x.replica] \in A
                   PROVE  FALSE
        OBVIOUS
      <3>1. x.replica \in Indices(C) /\ x.replica \in Nat
        BY <1>1, <1>2, <1>3
      <3>2. K[x.replica].replica = x.replica
        BY <1>1, <3>1
      <3> QED
        BY <3>1, <3>2 DEF ActiveBut
    <2>4. CASE Swaps(c) /\ ~Swaps(d)
      BY <1>4, <2>3, <2>4
    <2>5. CASE Swaps(d) /\ ~Swaps(c)
      BY <1>4, <2>3, <2>5
    <2> QED
      BY <2>2, <2>4, <2>5
  <1>7. \A b \in B : \E c \in A : f[c] = b
    <2> TAKE b \in B
    <2>1. b \in Live(C) /\ b.replica \in Nat \cup {NoIndex}
      BY <1>2, <1>3
    <2>2. CASE b \in A
      <3>1. ~Swaps(b)
        BY <2>1 DEF ActiveBut
      <3> QED
        BY <1>4, <2>2, <3>1
    <2>3. CASE b \notin A
      <3>1. b.replica # NoIndex /\ b = K[b.replica] /\ ~(b.replica >= n) /\ b # L[b.replica]
        BY <2>1, <2>3 DEF ActiveBut
      <3>2. b.replica \in Indices(C) /\ b.replica \in Nat /\ b.replica < n
        BY <1>1, <2>1, <3>1
      <3>3. PICK c : c = L[b.replica]
        OBVIOUS
      <3>4. c \in Live(C) /\ c.replica = b.replica
        BY <1>1, <3>2, <3>3
      <3>5. c \in A
        BY <3>1, <3>3, <3>4 DEF ActiveBut
      <3>6. Swaps(c)
        BY <3>1, <3>2, <3>3, <3>4
      <3> QED
        BY <1>4, <3>1, <3>4, <3>5, <3>6
    <2> QED
      BY <2>2, <2>3
  <1>8. f \in [A -> B]
    BY <1>5
  <1> HIDE DEF f, A, B
  <1>9. f \in Bijection(A, B)
    BY <1>6, <1>7, <1>8 DEF Bijection, Injection, Surjection, IsInjective
  <1>10. IsFiniteSet(A)
    BY <1>3, FS_Subset
  <1>11. Cardinality(A) = Cardinality(B)
    BY <1>9, <1>10, FS_Bijection DEF ExistsBijection
  <1> QED
    BY <1>11 DEF A, B

\* A list without repetitions is as long as the set of its elements.
LEMMA LengthIs ==
    ASSUME NEW T, NEW s \in Seq(T), IsInjective(s)
    PROVE  Cardinality(Range(s)) = Len(s)
  <1>1. PICK n \in Nat : n = Len(s) /\ DOMAIN s = 1 .. n /\ s \in [1 .. n -> T]
    BY LenProperties
  <1>2. s \in [1 .. n -> Range(s)]
    BY <1>1 DEF Range
  <1>3. s \in Bijection(1 .. n, Range(s))
    BY <1>1, <1>2 DEF Bijection, Injection, Surjection, IsInjective, Range
  <1>4. IsFiniteSet(1 .. n) /\ Cardinality(1 .. n) = n
    BY FS_Interval
  <1> QED
    BY <1>1, <1>3, <1>4, FS_Bijection DEF ExistsBijection

\* The lists of the code hold the sets of ScalePlan without repetition, and where two
\* containers of an index are equally good they differ in no more than which one stays.
THEOREM LoopsComputeThePlan == Spec => []AgreesWithScalePlan
  <1>1. ASSUME Inv
        PROVE  AgreesWithScalePlan
    <2>1. PICK C : C = Containers
      OBVIOUS
    <2>2. /\ Range(Plan.stale) = C \ Live(C)
          /\ Range(Plan.missing) = (0 .. target - 1) \ Indices(C)
          /\ Plan.active \in Seq(Summary) /\ IsInjective(Plan.active)
          /\ \E K : Keeps(K, C) /\ Range(Plan.active) = ActiveBut(K, C, target)
      BY <1>1, <2>1, PlanIs DEF Inv, Plan, Containers
    <2>3. PICK K : Keeps(K, C) /\ Range(Plan.active) = ActiveBut(K, C, target)
      BY <2>2
    <2>4. PICK L : L = [i \in Indices(C) |-> Keeper(Group(C, i))]
      OBVIOUS
    <2>5. Keeps(L, C)
      <3>1. \A i \in Indices(C) : IsKeeper(Keeper(Group(C, i)), Group(C, i))
        <4> TAKE i \in Indices(C)
        <4>1. IsKeeper(K[i], Group(C, i)) /\ K[i] \in Group(C, i)
          BY <2>3 DEF Keeps, IsKeeper
        <4> QED
          BY <4>1 DEF Keeper
      <3> QED
        BY <2>4, <3>1 DEF Keeps
    <2>6. PICK sets : sets = ScalePlan(C, target)
      OBVIOUS
    <2>7. sets.active = ActiveBut(L, C, target)
      <3>1. \A c \in Live(C) : c.replica # NoIndex => (c \in Kept(C) <=> c = L[c.replica])
        <4> SUFFICES ASSUME NEW c \in Live(C), c.replica # NoIndex
                     PROVE  c \in Kept(C) <=> c = L[c.replica]
          OBVIOUS
        <4>1. c.replica \in Indices(C)
          BY DEF Indices
        <4>2. \A i \in Indices(C) : L[i].replica = i
          BY <2>5 DEF Keeps, IsKeeper, Group
        <4>3. Kept(C) = {L[i] : i \in Indices(C)}
          BY <2>4 DEF Kept
        <4> QED
          BY <4>1, <4>2, <4>3
      <3>2. sets.active = {c \in Live(C) : IF c.replica = NoIndex THEN target = 0
                                           ELSE c \notin Kept(C) \/ c.replica >= target}
        BY <2>6 DEF ScalePlan
      <3>3. \A c \in Live(C) :
              (IF c.replica = NoIndex THEN target = 0 ELSE c \notin Kept(C) \/ c.replica >= target)
              <=> c \in ActiveBut(L, C, target)
        BY <3>1 DEF ActiveBut
      <3>4. ActiveBut(L, C, target) \subseteq Live(C)
        BY DEF ActiveBut
      <3> QED
        BY <3>2, <3>3, <3>4
    <2>8. sets.stale = C \ Live(C) /\ sets.missing = (0 .. target - 1) \ Indices(C)
      BY <2>6 DEF ScalePlan
    <2>9. Len(Plan.active) = Cardinality(sets.active)
      <3>1. Cardinality(ActiveBut(K, C, target)) = Cardinality(ActiveBut(L, C, target))
        BY <1>1, <2>1, <2>3, <2>5, ContainersAre, SameNumber DEF Inv
      <3>2. Cardinality(Range(Plan.active)) = Len(Plan.active)
        BY <2>2, LengthIs
      <3> QED
        BY <2>3, <2>7, <3>1, <3>2
    <2>10. ASSUME ~\E c, d \in C : c # d /\ c.replica = d.replica
                     /\ IsRunning(c.state) = IsRunning(d.state) /\ c.created = d.created
           PROVE  Range(Plan.active) = sets.active
      <3>1. \A i \in Indices(C) : K[i] = L[i]
        <4> TAKE i \in Indices(C)
        <4>1. PICK k, l : k = K[i] /\ l = L[i]
          OBVIOUS
        <4>2. /\ k \in C /\ l \in C /\ k.replica = l.replica
              /\ ~Preferred(k, l) /\ ~Preferred(l, k)
          BY <2>3, <2>5, <4>1 DEF Keeps, IsKeeper, Group, Live
        <4>3. k \in Summary /\ l \in Summary
          BY <1>1, <2>1, <4>2, ContainersAre
        <4>4. IsRunning(k.state) = IsRunning(l.state) /\ k.created = l.created
          BY <4>2, <4>3 DEF Preferred, Summary, IsRunning
        <4> QED
          BY <2>10, <4>1, <4>2, <4>4
      <3>2. \A c \in Live(C) : c.replica # NoIndex => K[c.replica] = L[c.replica]
        BY <3>1 DEF Indices
      <3>3. ActiveBut(K, C, target) = ActiveBut(L, C, target)
        BY <3>2 DEF ActiveBut
      <3> QED
        BY <2>3, <2>7, <3>3
    <2> QED
      BY <2>1, <2>2, <2>6, <2>8, <2>9, <2>10 DEF AgreesWithScalePlan
  <1> QED
    BY <1>1, Invariance, PTL

================================================================================
