---- MODULE Boards_proofs ----
(***************************************************************************)
(* What the answers show, for every behaviour of each part and every value *)
(* of its constants: the groups of /v1/nearby and the station with         *)
(* departures (Nearby), the rows of a board and the favourites on it       *)
(* (Journeys), and whether two boards agree (Parity).                      *)
(***************************************************************************)
EXTENDS Journeys, Nearby, Parity, SequenceTheorems, FiniteSetTheorems, TLAPS

----
(* Sorting.                                                                *)

\* s takes each place once, in the order of the keys, and of equal ones the first first.
Arranges(s, key) ==
    LET N == Cardinality(DOMAIN key) IN
    /\ N \in Nat
    /\ s \in [1 .. N -> DOMAIN key]
    /\ \A n \in DOMAIN key : \E i \in 1 .. N : s[i] = n
    /\ \A i, j \in 1 .. N : i < j =>
         /\ s[i] # s[j] /\ key[s[i]] <= key[s[j]]
         /\ key[s[i]] = key[s[j]] => s[i] < s[j]

\* A sorted list has the entries it had, in the order of their keys, and those with equal keys
\* in the order they had: `sort_by_key` of ojp.rs:265, favourites.rs:36 and stations.rs:90.
LEMMA Sorted ==
    ASSUME NEW key, IsFiniteSet(DOMAIN key), DOMAIN key \subseteq Nat,
           \A n \in DOMAIN key : key[n] \in Nat
    PROVE  Arranges(SortByKey(key), key)
  <1> DEFINE P == DOMAIN key
             N == Cardinality(P)
             Before(n, m) == key[n] < key[m] \/ (key[n] = key[m] /\ n < m)
             Pred(n) == {m \in P : Before(m, n)}
             Rank(n) == Cardinality(Pred(n)) + 1
             s == [i \in 1 .. N |-> CHOOSE n \in P : Rank(n) = i]
  <1>1. SortByKey(key) = s
    BY DEF SortByKey
  <1>2. N \in Nat
    BY FS_CardinalityType
  <1>3. \A n \in P : IsFiniteSet(Pred(n)) /\ Cardinality(Pred(n)) \in Nat
    BY FS_Subset, FS_CardinalityType
  <1>4. ASSUME NEW n \in P
        PROVE  Rank(n) \in 1 .. N
    <2>1. Pred(n) \subseteq P \ {n}
      OBVIOUS
    <2>2. IsFiniteSet(P \ {n}) /\ Cardinality(P \ {n}) = N - 1
      BY FS_RemoveElement
    <2>3. Cardinality(Pred(n)) <= N - 1
      BY <2>1, <2>2, FS_Subset
    <2> QED
      BY <1>2, <1>3, <2>3
  <1>5. ASSUME NEW n \in P, NEW m \in P, Before(n, m)
        PROVE  Rank(n) < Rank(m)
    <2>1. Pred(n) \cup {n} \subseteq Pred(m) /\ n \notin Pred(n)
      BY <1>5
    <2>2. Cardinality(Pred(n) \cup {n}) = Cardinality(Pred(n)) + 1
      BY <1>3, <2>1, FS_AddElement
    <2>3. Cardinality(Pred(n) \cup {n}) <= Cardinality(Pred(m))
      BY <1>3, <2>1, FS_Subset
    <2>4. Cardinality(Pred(n)) \in Nat /\ Cardinality(Pred(m)) \in Nat
      BY <1>3
    <2> HIDE DEF Pred
    <2> QED
      BY <2>2, <2>3, <2>4
  <1> HIDE DEF Rank, Pred
  <1>6. \A n, m \in P : n # m => Before(n, m) \/ Before(m, n)
    OBVIOUS
  <1>7. \A n, m \in P : Rank(n) = Rank(m) => n = m
    BY <1>4, <1>5, <1>6
  <1>8. \A i \in 1 .. N : \E n \in P : Rank(n) = i
    <2> DEFINE f == [n \in P |-> Rank(n)]
    <2>1. f \in Injection(P, 1 .. N)
      <3>1. f \in [P -> 1 .. N]
        BY <1>4
      <3>2. \A a, b \in DOMAIN f : f[a] = f[b] => a = b
        BY <1>7
      <3> HIDE DEF f
      <3> QED
        BY <3>1, <3>2 DEF Injection, IsInjective
    <2>2. IsFiniteSet(1 .. N) /\ Cardinality(1 .. N) = N
      BY <1>2, FS_Interval
    <2>3. f \in Surjection(P, 1 .. N)
      BY <2>1, <2>2, FS_Injection
    <2> QED
      BY <2>3 DEF Surjection
  <1>9. \A i \in 1 .. N : s[i] \in P /\ Rank(s[i]) = i
    BY <1>8
  <1>10. s \in [1 .. N -> P]
    BY <1>9
  <1> HIDE DEF s
  <1>11. \A n \in P : \E i \in 1 .. N : s[i] = n
    BY <1>4, <1>7, <1>9
  <1>12. ASSUME NEW i \in 1 .. N, NEW j \in 1 .. N, i < j
         PROVE  s[i] # s[j] /\ Before(s[i], s[j])
    <2>1. s[i] \in P /\ s[j] \in P /\ Rank(s[i]) = i /\ Rank(s[j]) = j
      BY <1>9
    <2>2. s[i] # s[j]
      BY <2>1, <1>12
    <2>3. ~Before(s[j], s[i])
      BY <1>2, <1>5, <1>12, <2>1
    <2> QED
      BY <1>6, <2>1, <2>2, <2>3
  <1>13. \A i, j \in 1 .. N : i < j =>
           /\ s[i] # s[j] /\ key[s[i]] <= key[s[j]]
           /\ key[s[i]] = key[s[j]] => s[i] < s[j]
    <2> SUFFICES ASSUME NEW i \in 1 .. N, NEW j \in 1 .. N, i < j
                 PROVE  /\ s[i] # s[j] /\ key[s[i]] <= key[s[j]]
                        /\ key[s[i]] = key[s[j]] => s[i] < s[j]
      OBVIOUS
    <2>1. key[s[i]] \in Nat /\ key[s[j]] \in Nat
      BY <1>9
    <2> QED
      BY <1>12, <2>1
  <1> QED
    BY <1>1, <1>2, <1>10, <1>11, <1>13 DEF Arranges

\* The same of a list without gaps.
COROLLARY SortedList ==
    ASSUME NEW L \in Nat, NEW key, DOMAIN key = 1 .. L, \A n \in 1 .. L : key[n] \in Nat
    PROVE  Arranges(SortByKey(key), key) /\ Cardinality(DOMAIN key) = L
  <1>1. IsFiniteSet(1 .. L) /\ Cardinality(1 .. L) = L /\ 1 .. L \subseteq Nat
    BY FS_Interval
  <1> QED
    BY <1>1, Sorted

\* A set of places in a list is a finite set of numbers.
LEMMA Places ==
    ASSUME NEW L \in Nat, NEW T, T \subseteq 1 .. L
    PROVE  IsFiniteSet(T) /\ T \subseteq Nat
  <1>1. 1 \in Int /\ L \in Int
    OBVIOUS
  <1>2. IsFiniteSet(1 .. L)
    BY <1>1, FS_Interval
  <1>3. IsFiniteSet(T)
    BY <1>2, FS_Subset
  <1> QED
    BY <1>3

\* A set of places has a first one.
LEMMA FirstPlace ==
    ASSUME NEW L \in Nat, NEW T, T \subseteq 1 .. L, T # {}
    PROVE  \E n \in T : \A m \in T : n <= m
  <1>1. PICK key : key = [n \in T |-> n]
    OBVIOUS
  <1>2. IsFiniteSet(T) /\ T \subseteq Nat
    BY Places
  <1>3. DOMAIN key = T /\ \A n \in T : key[n] = n
    BY <1>1
  <1>4. PICK s, N : s = SortByKey(key) /\ N = Cardinality(DOMAIN key) /\ Arranges(s, key)
    BY <1>2, <1>3, Sorted
  <1>5. /\ N \in Nat /\ s \in [1 .. N -> T]
        /\ \A n \in T : \E i \in 1 .. N : s[i] = n
        /\ \A i, j \in 1 .. N : i < j => key[s[i]] <= key[s[j]]
    BY <1>3, <1>4 DEF Arranges
  <1>6. 1 \in 1 .. N /\ s[1] \in T
    <2>1. PICK n \in T : TRUE
      OBVIOUS
    <2>2. PICK i \in 1 .. N : s[i] = n
      BY <1>5, <2>1
    <2> QED
      BY <1>5, <2>2
  <1>7. ASSUME NEW m \in T
        PROVE  s[1] <= m
    <2>1. PICK i \in 1 .. N : s[i] = m
      BY <1>5
    <2>2. i = 1 \/ key[s[1]] <= key[s[i]]
      BY <1>5, <1>6
    <2>3. key[s[1]] = s[1] /\ key[s[i]] = m /\ m \in Nat
      BY <1>2, <1>3, <1>6, <2>1
    <2> QED
      BY <2>1, <2>2, <2>3
  <1> QED
    BY <1>6, <1>7

\* A list in which nothing is twice has as many members as it is long.
LEMMA CountedOnce ==
    ASSUME NEW L \in Nat, NEW list, \A i, j \in 1 .. L : list[i] = list[j] => i = j
    PROVE  Cardinality({list[i] : i \in 1 .. L}) = L
  <1>1. PICK f, S : f = [i \in 1 .. L |-> list[i]] /\ S = {list[i] : i \in 1 .. L}
    OBVIOUS
  <1>2. f \in [1 .. L -> S] /\ \A i \in 1 .. L : f[i] = list[i]
    BY <1>1
  <1>3. \A m \in S : \E i \in 1 .. L : f[i] = m
    BY <1>1, <1>2
  <1>4. \A a, b \in DOMAIN f : f[a] = f[b] => a = b
    BY <1>2
  <1>5. f \in Bijection(1 .. L, S)
    BY <1>2, <1>3, <1>4 DEF Bijection, Injection, Surjection, IsInjective
  <1> QED
    BY <1>1, <1>5, FS_CountingElements DEF ExistsBijection

----
(* Nearby.                                                                 *)

\* While the table is read: a group has the stations of its mode in range, in the order of
\* the table.
Collected(g) ==
    /\ \A i \in 1 .. Len(groups[g]) : groups[g][i] \in InRange(g)
    /\ \A n \in InRange(g) : \E i \in 1 .. Len(groups[g]) : groups[g][i] = n
    /\ \A i, j \in 1 .. Len(groups[g]) : i < j => groups[g][i] < groups[g][j]

\* A group in which no station in range is left out for one that is farther away.
Nearest(g, list) ==
    /\ Len(list) <= MAX_PER_MODE
    /\ \A i \in 1 .. Len(list) : list[i] \in InRange(g)
    /\ \A i, j \in 1 .. Len(list) : i < j => list[i] # list[j] /\ Dist(list[i]) <= Dist(list[j])
    /\ \A n \in InRange(g) :
         \/ \E i \in 1 .. Len(list) : list[i] = n
         \/ Len(list) = MAX_PER_MODE /\ \A i \in 1 .. Len(list) : Dist(list[i]) <= Dist(n)

NearbyInv ==
    /\ NearbyTypeOK
    /\ stage = "filter" => \A g \in GroupNames : Collected(g)
    /\ stage # "filter" => \A g \in GroupNames : Nearest(g, groups[g])
    /\ stage # "attached" => embedded = {}
    /\ stage = "attached" => embedded \in {Defaults, {}}

\* What the lists and the table are made of.
LEMMA GroupTyped ==
    ASSUME NearbyTypeOK, NEW g \in GroupNames
    PROVE  /\ groups[g] \in Seq(1 .. Len(stations))
           /\ Len(groups[g]) \in Nat /\ Len(stations) \in Nat
           /\ \A i \in 1 .. Len(groups[g]) : groups[g][i] \in 1 .. Len(stations)
           /\ InRange(g) \subseteq 1 .. Len(stations)
  BY LenProperties, ElementOfSeq DEF NearbyTypeOK, InRange

\* A station's distance, exact or as rounded by the haversine, is a number.
LEMMA DistTyped ==
    ASSUME NearbyTypeOK
    PROVE  \A n \in 1 .. Len(stations) :
             /\ stations[n].exact \in Nat /\ stations[n].mode \in Modes
             /\ Dist(n) \in Nat
  <1>1. \A n \in 1 .. Len(stations) : stations[n] \in Candidates
    BY ElementOfSeq DEF NearbyTypeOK
  <1>2. \A n \in 1 .. Len(stations) : stations[n].exact \in Nat /\ stations[n].mode \in Modes
    BY <1>1, NearbyAssumption DEF Candidates
  <1>3. \A n \in 1 .. Len(stations) : (stations[n].exact + 2) \div 4 \in Nat
    BY <1>2
  <1> QED
    BY <1>2, <1>3 DEF Dist

\* Sorting and truncating a group that has all the stations in range (`group_nearby`,
\* core/src/stations.rs:84-92) leaves the nearest of them.
LEMMA NearestGrouped ==
    ASSUME NearbyTypeOK, NEW g \in GroupNames, Collected(g)
    PROVE  /\ Nearest(g, Grouped(groups[g]))
           /\ Grouped(groups[g]) \in Seq(1 .. Len(stations))
  <1> DEFINE group == groups[g]
             L == Len(group)
  <1>1. L \in Nat /\ MAX_PER_MODE \in Nat
    BY GroupTyped, NearbyAssumption
  <1>2. \A i \in 1 .. L : group[i] \in 1 .. Len(stations) /\ group[i] \in InRange(g)
                           /\ Dist(group[i]) \in Nat
    BY GroupTyped, DistTyped DEF Collected
  <1>3. PICK order :
          /\ order = SortByKey([i \in 1 .. L |-> Dist(group[i])])
          /\ order \in [1 .. L -> 1 .. L]
          /\ \A n \in 1 .. L : \E i \in 1 .. L : order[i] = n
          /\ \A i, j \in 1 .. L : i < j =>
               order[i] # order[j] /\ Dist(group[order[i]]) <= Dist(group[order[j]])
    <2>1. PICK key : key = [i \in 1 .. L |-> Dist(group[i])]
      OBVIOUS
    <2>2. /\ DOMAIN key = 1 .. L
          /\ \A n \in 1 .. L : key[n] = Dist(group[n]) /\ key[n] \in Nat
      BY <1>2, <2>1
    <2>3. PICK order : order = SortByKey(key)
      OBVIOUS
    <2>4. Arranges(order, key) /\ Cardinality(DOMAIN key) = L
      BY <1>1, <2>2, <2>3, SortedList
    <2>5. /\ order \in [1 .. L -> 1 .. L]
          /\ \A n \in 1 .. L : \E i \in 1 .. L : order[i] = n
          /\ \A i, j \in 1 .. L : i < j => order[i] # order[j] /\ key[order[i]] <= key[order[j]]
      BY <2>2, <2>4 DEF Arranges
    <2>6. \A i, j \in 1 .. L : i < j => Dist(group[order[i]]) <= Dist(group[order[j]])
      BY <2>2, <2>5
    <2>7. order = SortByKey([i \in 1 .. L |-> Dist(group[i])])
      BY <2>1, <2>3
    <2> HIDE DEF group, L
    <2> QED
      BY <2>5, <2>6, <2>7
  <1> DEFINE s == [i \in 1 .. L |-> group[order[i]]]
             M == IF L < MAX_PER_MODE THEN L ELSE MAX_PER_MODE
             list == SubSeq(s, 1, M)
  <1>4. \A i, j \in 1 .. L : i # j => group[i] # group[j]
    BY <1>1, <1>2 DEF Collected
  <1>5. /\ \A i \in 1 .. L : s[i] \in 1 .. Len(stations) /\ s[i] \in InRange(g)
        /\ \A i, j \in 1 .. L : i < j => s[i] # s[j] /\ Dist(s[i]) <= Dist(s[j])
    BY <1>2, <1>3, <1>4
  <1>6. \A n \in InRange(g) : \E i \in 1 .. L : s[i] = n
    <2> SUFFICES ASSUME NEW n \in InRange(g)
                 PROVE  \E i \in 1 .. L : s[i] = n
      OBVIOUS
    <2>1. PICK k \in 1 .. L : group[k] = n
      BY DEF Collected
    <2>2. PICK i \in 1 .. L : order[i] = k
      BY <1>3
    <2> QED
      BY <2>1, <2>2
  <1>7. Len(s) = L
    BY <1>1
  <1>8. Grouped(group) = list
    BY <1>3, <1>7 DEF Grouped, ByDistance, Truncated
  <1> HIDE DEF s
  <1>13. M \in Nat /\ M <= L /\ M <= MAX_PER_MODE /\ (M < L => M = MAX_PER_MODE)
    BY <1>1
  <1>9. /\ list \in Seq(1 .. Len(stations)) /\ Len(list) = M
        /\ \A i \in 1 .. M : list[i] = s[i]
    <2>1. \A i \in 1 .. M : s[i] \in 1 .. Len(stations)
      BY <1>1, <1>13, <1>5
    <2> QED
      BY <1>1, <1>13, <2>1, SubSeqProperties
  <1> HIDE DEF list, M
  <1>10. ASSUME NEW n \in InRange(g)
         PROVE  \/ \E i \in 1 .. M : list[i] = n
                \/ M = MAX_PER_MODE /\ \A i \in 1 .. M : Dist(list[i]) <= Dist(n)
    <2>1. PICK k \in 1 .. L : s[k] = n
      BY <1>6
    <2>2. CASE k <= M
      BY <1>1, <1>13, <1>9, <2>1, <2>2
    <2>3. CASE k > M
      BY <1>1, <1>13, <1>5, <1>9, <2>1, <2>3
    <2> QED
      BY <1>1, <1>13, <2>2, <2>3
  <1>11. \A i, j \in 1 .. M : i < j => list[i] # list[j] /\ Dist(list[i]) <= Dist(list[j])
    <2> SUFFICES ASSUME NEW i \in 1 .. M, NEW j \in 1 .. M, i < j
                 PROVE  list[i] # list[j] /\ Dist(list[i]) <= Dist(list[j])
      OBVIOUS
    <2>1. i \in 1 .. L /\ j \in 1 .. L
      BY <1>1, <1>13
    <2>2. s[i] # s[j] /\ Dist(s[i]) <= Dist(s[j])
      BY <1>5, <2>1
    <2> QED
      BY <1>9, <2>2
  <1>12. \A i \in 1 .. M : list[i] \in InRange(g)
    BY <1>1, <1>13, <1>5, <1>9
  <1> QED
    BY <1>1, <1>13, <1>8, <1>9, <1>10, <1>11, <1>12 DEF Nearest

\* The first candidate has not been looked at.
LEMMA NearbyStarts == NearbyInit => NearbyInv
  BY EmptySeq, NearbyAssumption
     DEF NearbyInit, NearbyInv, NearbyTypeOK, Collected, InRange, GroupNames

\* A station in range goes to the end of its group (`group_nearby`, core/src/stations.rs:61-82),
\* one that is not in range to none.
LEMMA CandidateCollected ==
    ASSUME NearbyInv, NEW c \in Candidates, Candidate(c)
    PROVE  NearbyInv'
  <1> DEFINE n == Len(stations) + 1
             h == GroupOf(c.mode)
  <1>1. /\ NearbyTypeOK /\ stage = "filter" /\ stage' = "filter" /\ embedded = {}
        /\ stations' = Append(stations, c) /\ Len(stations) < MAX_STATIONS
        /\ groups' = IF c.exact > MAX_DISTANCE THEN groups
                     ELSE [groups EXCEPT ![h] = Append(@, n)]
        /\ wanted' = wanted /\ embedded' = embedded
    BY DEF Candidate, NearbyInv
  <1>2. h \in GroupNames /\ n \in Nat /\ MAX_STATIONS \in Nat /\ Len(stations) \in Nat
    BY <1>1, LenProperties, NearbyAssumption DEF GroupOf, GroupNames, NearbyTypeOK
  <1>3. /\ stations' \in Seq(Candidates) /\ Len(stations') = n
        /\ \A i \in 1 .. Len(stations) : stations'[i] = stations[i]
        /\ stations'[n] = c
    BY <1>1, <1>2, AppendProperties DEF NearbyTypeOK
  <1>4. \A g \in GroupNames : InRange(g)' =
          InRange(g) \cup (IF c.exact <= MAX_DISTANCE /\ h = g THEN {n} ELSE {})
    <2> SUFFICES ASSUME NEW g \in GroupNames
                 PROVE  InRange(g)' =
                          InRange(g) \cup (IF c.exact <= MAX_DISTANCE /\ h = g THEN {n} ELSE {})
      OBVIOUS
    <2>1. \A i : i \in 1 .. n <=> i \in 1 .. Len(stations) \/ i = n
      BY <1>2
    <2>2. n \notin 1 .. Len(stations)
      BY <1>2
    <2> QED
      BY <1>3, <2>1, <2>2 DEF InRange
  <1>5. \A g \in GroupNames :
          /\ groups[g] \in Seq(1 .. Len(stations))
          /\ Len(groups[g]) \in Nat
          /\ \A i \in 1 .. Len(groups[g]) : groups[g][i] \in 1 .. Len(stations)
          /\ Collected(g)
    BY <1>1, GroupTyped DEF NearbyInv
  <1>6. c.exact \in Nat /\ MAX_DISTANCE \in Nat
    BY NearbyAssumption DEF Candidates
  <1>7. ASSUME NEW g \in GroupNames
        PROVE  groups'[g] \in Seq(1 .. n) /\ Collected(g)'
    <2>1. CASE c.exact <= MAX_DISTANCE /\ h = g
      <3>1. groups'[g] = Append(groups[g], n)
        BY <1>1, <1>6, <2>1 DEF NearbyTypeOK
      <3>2. groups[g] \in Seq(1 .. n) /\ n \in 1 .. n
        <4>1. 1 .. Len(stations) \subseteq 1 .. n
          BY <1>2
        <4> QED
          BY <1>2, <1>5, <4>1, SeqMonotonic
      <3>3. /\ groups'[g] \in Seq(1 .. n) /\ Len(groups'[g]) = Len(groups[g]) + 1
            /\ \A i \in 1 .. Len(groups[g]) : groups'[g][i] = groups[g][i]
            /\ groups'[g][Len(groups[g]) + 1] = n
        BY <3>1, <3>2, AppendProperties
      <3>4. \A i : i \in 1 .. Len(groups[g]) + 1
                     <=> i \in 1 .. Len(groups[g]) \/ i = Len(groups[g]) + 1
        BY <1>5
      <3>5. \A i \in 1 .. Len(groups[g]) + 1 : groups'[g][i] \in InRange(g) \cup {n}
        BY <1>5, <3>3, <3>4 DEF Collected
      <3>6. \A m \in InRange(g) \cup {n} : \E i \in 1 .. Len(groups[g]) + 1 : groups'[g][i] = m
        <4>1. Len(groups[g]) + 1 \in 1 .. Len(groups[g]) + 1
          BY <1>5
        <4>2. \A m \in InRange(g) : \E i \in 1 .. Len(groups[g]) : groups[g][i] = m
          BY <1>5 DEF Collected
        <4> QED
          BY <3>3, <3>4, <4>1, <4>2
      <3>7. \A i, j \in 1 .. Len(groups[g]) + 1 : i < j => groups'[g][i] < groups'[g][j]
        <4> SUFFICES ASSUME NEW i \in 1 .. Len(groups[g]) + 1,
                            NEW j \in 1 .. Len(groups[g]) + 1, i < j
                     PROVE  groups'[g][i] < groups'[g][j]
          OBVIOUS
        <4>1. i \in 1 .. Len(groups[g]) /\ groups'[g][i] = groups[g][i]
          BY <1>5, <3>3
        <4>2. CASE j = Len(groups[g]) + 1
          <5>1. groups[g][i] \in 1 .. Len(stations) /\ groups'[g][j] = n
            BY <1>5, <3>3, <4>1, <4>2
          <5> QED
            BY <1>2, <4>1, <5>1
        <4>3. CASE j # Len(groups[g]) + 1
          <5>1. j \in 1 .. Len(groups[g]) /\ groups'[g][j] = groups[g][j]
            BY <3>3, <3>4, <4>3
          <5>2. groups[g][i] < groups[g][j]
            BY <1>5, <4>1, <5>1 DEF Collected
          <5> QED
            BY <4>1, <5>1, <5>2
        <4> QED
          BY <4>2, <4>3
      <3>8. InRange(g)' = InRange(g) \cup {n}
        BY <1>4, <2>1
      <3> QED
        BY <3>3, <3>5, <3>6, <3>7, <3>8 DEF Collected
    <2>2. CASE ~(c.exact <= MAX_DISTANCE /\ h = g)
      <3>1. groups'[g] = groups[g]
        BY <1>1, <1>6, <2>2 DEF NearbyTypeOK
      <3>2. InRange(g)' = InRange(g)
        BY <1>4, <2>2
      <3>3. groups'[g] \in Seq(1 .. n)
        <4>1. 1 .. Len(stations) \subseteq 1 .. n
          BY <1>2
        <4> QED
          BY <1>5, <3>1, <4>1, SeqMonotonic
      <3>4. Collected(g)
        BY <1>5
      <3>5. Collected(g)'
        BY <3>1, <3>2, <3>4 DEF Collected
      <3> QED
        BY <3>3, <3>5
    <2> QED
      BY <2>1, <2>2
  <1>8. groups' \in [GroupNames -> Seq(1 .. n)]
    <2>1. DOMAIN groups' = GroupNames /\ groups' = [g \in GroupNames |-> groups'[g]]
      BY <1>1 DEF NearbyTypeOK
    <2> QED
      BY <1>7, <2>1
  <1>9. NearbyTypeOK'
    BY <1>1, <1>2, <1>3, <1>8 DEF NearbyTypeOK
  <1>10. (\A g \in GroupNames : Collected(g))'
    BY <1>7
  <1> QED
    BY <1>1, <1>9, <1>10 DEF NearbyInv

\* The other steps, too, keep the invariant.
LEMMA NearbyGoesOn == NearbyInv /\ [NearbyNext]_nearby => NearbyInv'
  <1> SUFFICES ASSUME NearbyInv, [NearbyNext]_nearby
               PROVE  NearbyInv'
    OBVIOUS
  <1>1. CASE \E c \in Candidates : Candidate(c)
    BY <1>1, CandidateCollected
  <1>2. ASSUME NEW mode \in Wanted, SortAndTruncate(mode)
        PROVE  NearbyInv'
    <2>1. /\ stage = "filter" /\ stage' = "sorted" /\ wanted' = mode
          /\ stations' = stations /\ embedded' = embedded /\ embedded = {} /\ NearbyTypeOK
          /\ groups' = [g \in GroupNames |-> Grouped(groups[g])]
      BY <1>2 DEF SortAndTruncate, NearbyInv
    <2>2. \A g \in GroupNames : /\ Nearest(g, Grouped(groups[g]))
                                /\ Grouped(groups[g]) \in Seq(1 .. Len(stations))
      BY <2>1, NearestGrouped DEF NearbyInv
    <2>3. \A g \in GroupNames : groups'[g] = Grouped(groups[g])
      BY <2>1
    <2>4. groups' \in [GroupNames -> Seq(1 .. Len(stations))]
      BY <2>1, <2>2
    <2>5. \A g \in GroupNames : Nearest(g, groups'[g])
      BY <2>2, <2>3
    <2>6. \A g \in GroupNames : Nearest(g, groups[g])'
      BY <2>1, <2>5 DEF Nearest, InRange, Dist
    <2>7. NearbyTypeOK'
      BY <2>1, <2>4 DEF NearbyTypeOK
    <2> QED
      BY <2>1, <2>6, <2>7 DEF NearbyInv
  <1>3. CASE AttachDepartures
    <2>1. /\ NearbyTypeOK /\ stage = "sorted" /\ stage' = "attached" /\ embedded' \in {Defaults, {}}
          /\ stations' = stations /\ groups' = groups /\ wanted' = wanted
          /\ \A g \in GroupNames : Nearest(g, groups[g])
      BY <1>3 DEF AttachDepartures, NearbyInv
    <2>2. Defaults' = Defaults
      BY <2>1 DEF Defaults, Tried
    <2>5. \A g \in GroupNames : Nearest(g, groups[g])'
      BY <2>1 DEF Nearest, InRange, Dist
    <2>3. Defaults \subseteq 1 .. Len(stations)
      <3>1. \A i \in 1 .. 4 : Order(wanted)[i] \in GroupNames
        BY DEF Order, GroupNames
      <3>2. \A i \in 1 .. 4 : Tried(wanted, i) \in Seq(1 .. Len(stations))
        BY <2>1, <3>1, GroupTyped DEF Tried
      <3>3. \A i \in 1 .. 4 : Tried(wanted, i) # <<>> => Tried(wanted, i)[1] \in 1 .. Len(stations)
        BY <3>2, EmptySeq, ElementOfSeq
      <3> HIDE DEF Tried
      <3> QED
        BY <3>3 DEF Defaults
    <2>4. NearbyTypeOK'
      BY <2>1, <2>3 DEF NearbyTypeOK
    <2> QED
      BY <2>1, <2>2, <2>4, <2>5 DEF NearbyInv
  <1>4. CASE UNCHANGED nearby
    BY <1>4 DEF nearby, NearbyInv, NearbyTypeOK, Collected, Nearest, InRange, Dist, Defaults, Tried
  <1> QED
    BY <1>1, <1>2, <1>3, <1>4 DEF NearbyNext

\* The invariant holds throughout.
LEMMA NearbyHolds == NearbySpec => []NearbyInv
  BY NearbyStarts, NearbyGoesOn, PTL DEF NearbySpec

\* However the table is ordered, a group holds the nearest stations of its mode within
\* MAX_DISTANCE, nearest first, MAX_PER_MODE at most (core/src/stations.rs:84-92): for any
\* table, distances and limits.
THEOREM KeepsNearest == NearbySpec => []NearestKept
  <1>1. NearbyInv => NearestKept
    <2> SUFFICES ASSUME NearbyInv, stage # "filter", NEW g \in GroupNames
                 PROVE  LET list == groups[g]
                            Shown == {list[i] : i \in 1 .. Len(list)}
                        IN  /\ Shown \subseteq InRange(g)
                            /\ Cardinality(Shown) = Len(list)
                            /\ Len(list) <= MAX_PER_MODE
                            /\ \A i, j \in 1 .. Len(list) : i < j => Dist(list[i]) <= Dist(list[j])
                            /\ \A n \in InRange(g) \ Shown :
                                 Len(list) = MAX_PER_MODE /\ \A m \in Shown : Dist(m) <= Dist(n)
      BY DEF NearestKept
    <2> DEFINE list == groups[g]
               L == Len(list)
               Shown == {list[i] : i \in 1 .. L}
    <2>1. Nearest(g, list) /\ L \in Nat
      BY GroupTyped DEF NearbyInv
    <2>2. Cardinality(Shown) = L
      <3>1. \A i, j \in 1 .. L : list[i] = list[j] => i = j
        BY <2>1 DEF Nearest
      <3> HIDE DEF list, L
      <3>2. L \in Nat
        BY <2>1
      <3> QED
        BY <3>1, <3>2, CountedOnce
    <2>3. Shown \subseteq InRange(g) /\ L <= MAX_PER_MODE
      BY <2>1 DEF Nearest
    <2>4. \A i, j \in 1 .. L : i < j => Dist(list[i]) <= Dist(list[j])
      BY <2>1 DEF Nearest
    <2>5. \A n \in InRange(g) \ Shown : L = MAX_PER_MODE /\ \A m \in Shown : Dist(m) <= Dist(n)
      BY <2>1 DEF Nearest
    <2> QED
      BY <2>2, <2>3, <2>4, <2>5
  <1> QED
    BY <1>1, NearbyHolds, PTL

\* A station that carries departures is a nearest one of the mode asked for whenever one is in
\* range, of trains whenever none of that mode but a train station is (`default_station_id`,
\* core/src/stations.rs:97-107).
THEOREM EmbedsTheRight == NearbySpec => []EmbeddedRight
  <1>1. NearbyInv => EmbeddedRight
    <2> SUFFICES ASSUME NearbyInv, NEW n \in embedded
                 PROVE  /\ Cardinality(embedded) = 1
                        /\ LET g == GroupOf(stations[n].mode) IN
                           /\ \A m \in InRange(g) : Dist(n) <= Dist(m)
                           /\ InRange(GroupOf(wanted)) # {} => g = GroupOf(wanted)
                           /\ InRange(GroupOf(wanted)) = {} /\ InRange("train") # {} => g = "train"
      BY DEF EmbeddedRight
    <2>1. /\ NearbyTypeOK /\ embedded = Defaults /\ stage # "filter"
          /\ \A g \in GroupNames : Nearest(g, groups[g])
      BY DEF NearbyInv
    <2>2. \A i \in 1 .. 4 : Order(wanted)[i] \in GroupNames
      BY DEF Order, GroupNames
    <2>3. \A g \in GroupNames :
            /\ groups[g] = <<>> <=> Len(groups[g]) = 0
            /\ groups[g] \in Seq(1 .. Len(stations)) /\ Len(groups[g]) \in Nat
            /\ InRange(g) \subseteq 1 .. Len(stations)
      BY <2>1, GroupTyped, EmptySeq
    <2>4. PICK i \in 1 .. 4 :
            /\ Tried(wanted, i) # <<>> /\ \A k \in 1 .. i - 1 : Tried(wanted, k) = <<>>
            /\ n = Tried(wanted, i)[1]
      BY <2>1 DEF Defaults
    <2> DEFINE h == Order(wanted)[i]
               list == groups[h]
    <2>5. h \in GroupNames /\ list = Tried(wanted, i) /\ Len(list) \in Nat /\ Len(list) # 0
          /\ 1 \in 1 .. Len(list) /\ n = list[1] /\ Nearest(h, list)
      BY <2>1, <2>2, <2>3, <2>4 DEF Tried
    <2>6. n \in InRange(h) /\ GroupOf(stations[n].mode) = h
      BY <2>5 DEF Nearest, InRange
    <2>7. \A m \in InRange(h) : Dist(n) <= Dist(m)
      <3> SUFFICES ASSUME NEW m \in InRange(h)
                   PROVE  Dist(n) <= Dist(m)
        OBVIOUS
      <3>1. Dist(n) \in Nat /\ Dist(m) \in Nat
        BY <2>1, <2>3, <2>5, <2>6, DistTyped
      <3>2. CASE \E k \in 1 .. Len(list) : list[k] = m
        <4>1. PICK k \in 1 .. Len(list) : list[k] = m
          BY <3>2
        <4>2. k = 1 \/ 1 < k
          BY <2>5
        <4> QED
          BY <2>5, <3>1, <4>1, <4>2 DEF Nearest
      <3>3. CASE \A k \in 1 .. Len(list) : Dist(list[k]) <= Dist(m)
        BY <2>5, <3>3
      <3> QED
        BY <2>5, <3>2, <3>3 DEF Nearest
    <2>8. \A g \in GroupNames : groups[g] = <<>> => InRange(g) = {}
      <3>1. MAX_PER_MODE # 0
        BY <2>5, NearbyAssumption DEF Nearest
      <3>2. ASSUME NEW g \in GroupNames, groups[g] = <<>>
            PROVE  InRange(g) = {}
        <4>1. Len(groups[g]) = 0 /\ Nearest(g, groups[g])
          BY <2>1, <2>3, <3>2
        <4> QED
          BY <3>1, <4>1 DEF Nearest
      <3> QED
        BY <3>2
    <2>9. GroupOf(wanted) = Order(wanted)[1] /\ (GroupOf(wanted) # "train" => Order(wanted)[2] = "train")
      BY DEF GroupOf, Order
    <2>10. \A k \in 1 .. i - 1 : InRange(Order(wanted)[k]) = {}
      BY <2>2, <2>4, <2>8 DEF Tried
    <2>11. InRange(GroupOf(wanted)) # {} => h = GroupOf(wanted)
      BY <2>9, <2>10
    <2>12. InRange(GroupOf(wanted)) = {} /\ InRange("train") # {} => h = "train"
      <3> SUFFICES ASSUME InRange(GroupOf(wanted)) = {}, InRange("train") # {}
                   PROVE  h = "train"
        OBVIOUS
      <3>1. i # 1 /\ Order(wanted)[2] = "train"
        BY <2>6, <2>9
      <3> QED
        BY <2>10, <3>1
    <2>13. embedded = {n}
      <3>1. ASSUME NEW m \in Defaults
            PROVE  m = n
        <4>1. PICK j \in 1 .. 4 :
                /\ Tried(wanted, j) # <<>> /\ \A k \in 1 .. j - 1 : Tried(wanted, k) = <<>>
                /\ m = Tried(wanted, j)[1]
          BY <3>1 DEF Defaults
        <4>2. i = j
          BY <2>4, <4>1
        <4> QED
          BY <2>4, <4>1, <4>2
      <3> QED
        BY <2>1, <3>1
    <2>14. Cardinality(embedded) = 1
      BY <2>13, FS_Singleton
    <2> QED
      BY <2>6, <2>7, <2>11, <2>12, <2>14
  <1> QED
    BY <1>1, NearbyHolds, PTL

----
(* Parity.                                                                 *)

\* What api1 shows of the trains from the j-th on, if the row `spoilt` is wrong.
SpoiltListing(j, spoilt) ==
    [n \in DOMAIN Listing(j) |->
        IF n = spoilt THEN [Listing(j)[n] EXCEPT !.train = NoTrain] ELSE Listing(j)[n]]

\* The boards of one timetable, from the i-th train on and from the j-th.
Probed(i, j, spoilt) ==
    /\ boards = [api |-> Listing(i), api1 |-> SpoiltListing(j, spoilt)]
    /\ wrong = IF spoilt \in DOMAIN Listing(j) THEN Listing(j)[spoilt].departure ELSE -1

\* What `compareParity` says of two boards.
Verdict ==
    LET a == boards["api"]
        b == boards["api1"]
    IN  IF a = <<>> \/ b = <<>> THEN "agree"
        ELSE IF Compared(a, Window(a, b)) = Compared(b, Window(a, b)) THEN "agree" ELSE "differ"

ParityInv ==
    /\ ParityTypeOK
    /\ \A i, j \in 1 .. Len(timetable) : i < j => timetable[i] <= timetable[j]
    /\ \/ boards = Unprobed /\ wrong = -1
       \/ \E i, j \in 1 .. Len(timetable) + 1, spoilt \in 0 .. ROWS : Probed(i, j, spoilt)
    /\ verdict # "none" => verdict = Verdict

\* The rows of a board that starts with the i-th train (index.js:149-150).
LEMMA ListingRows ==
    ASSUME ParityTypeOK, NEW i \in 1 .. Len(timetable) + 1
    PROVE  LET m == Len(Listing(i)) IN
           /\ m \in Nat /\ m <= ROWS /\ i + m - 1 <= Len(timetable)
           /\ Listing(i) \in Seq(BoardRows) /\ DOMAIN Listing(i) = 1 .. m
           /\ \A n \in 1 .. m :
                /\ i + n - 1 \in 1 .. Len(timetable)
                /\ timetable[i + n - 1] \in Minutes
                /\ Listing(i)[n] = [train |-> i + n - 1, departure |-> timetable[i + n - 1]]
  <1> DEFINE L == Len(timetable)
  <1>1. L \in Nat /\ L <= MAX_TRAINS /\ ROWS \in Nat /\ i \in Nat /\ i >= 1 /\ i <= L + 1
        /\ MAX_TRAINS \in Nat /\ L - i + 1 \in Nat
    BY LenProperties, ParityAssumption DEF ParityTypeOK
  <1>2. PICK m \in Nat : m = Min({ROWS, L - i + 1}) /\ m <= ROWS /\ m <= L - i + 1
    <2>1. ASSUME NEW x \in Nat, NEW y \in Nat
          PROVE  Min({x, y}) \in {x, y} /\ Min({x, y}) <= x /\ Min({x, y}) <= y
      <3>1. \E z \in {x, y} : \A w \in {x, y} : z <= w
        <4>1. CASE x <= y
          BY <4>1
        <4>2. CASE y <= x
          BY <4>2
        <4> QED
          BY <4>1, <4>2
      <3> QED
        BY <3>1 DEF Min
    <2> QED
      BY <1>1, <2>1
  <1>3. Listing(i) = [n \in 1 .. m |-> [train |-> i + n - 1, departure |-> timetable[i + n - 1]]]
    BY <1>2 DEF Listing
  <1>4. \A n \in 1 .. m : /\ i + n - 1 \in 1 .. L /\ i + n - 1 \in 0 .. MAX_TRAINS
                          /\ timetable[i + n - 1] \in Minutes
    <2>1. \A n \in 1 .. m : i + n - 1 \in 1 .. L /\ i + n - 1 \in 0 .. MAX_TRAINS
      BY <1>1, <1>2
    <2> QED
      BY <2>1, ElementOfSeq DEF ParityTypeOK
  <1>5. \A n \in 1 .. m :
          [train |-> i + n - 1, departure |-> timetable[i + n - 1]] \in BoardRows
    BY <1>4 DEF BoardRows
  <1>9. Listing(i) \in [1 .. m -> BoardRows]
    BY <1>3, <1>5
  <1>6. Listing(i) \in Seq(BoardRows) /\ Len(Listing(i)) = m /\ DOMAIN Listing(i) = 1 .. m
    <2>1. m \in Nat
      OBVIOUS
    <2> QED
      BY <1>9, <2>1
  <1>7. i + m - 1 <= L
    BY <1>1, <1>2
  <1>8. \A n \in 1 .. m :
          Listing(i)[n] = [train |-> i + n - 1, departure |-> timetable[i + n - 1]]
    BY <1>3
  <1> QED
    BY <1>2, <1>4, <1>6, <1>7, <1>8

\* What api1 shows, a wrong row included, has the departures of the timetable.
LEMMA SpoiltRows ==
    ASSUME ParityTypeOK, NEW j \in 1 .. Len(timetable) + 1, NEW spoilt \in 0 .. ROWS
    PROVE  LET b == SpoiltListing(j, spoilt)
           IN  /\ b \in Seq(BoardRows) /\ Len(b) = Len(Listing(j))
               /\ \A n \in 1 .. Len(b) :
                    b[n] = [train |-> IF n = spoilt THEN NoTrain ELSE j + n - 1,
                            departure |-> timetable[j + n - 1]]
  <1> DEFINE b == SpoiltListing(j, spoilt)
             m == Len(Listing(j))
  <1>1. /\ m \in Nat /\ DOMAIN Listing(j) = 1 .. m
        /\ \A n \in 1 .. m :
             /\ j + n - 1 \in 1 .. Len(timetable)
             /\ timetable[j + n - 1] \in Minutes
             /\ Listing(j)[n] = [train |-> j + n - 1, departure |-> timetable[j + n - 1]]
    BY ListingRows
  <1>2. MAX_TRAINS \in Nat /\ Len(timetable) \in Nat /\ Len(timetable) <= MAX_TRAINS
    BY LenProperties, ParityAssumption DEF ParityTypeOK
  <1> HIDE DEF m
  <1>3. ASSUME NEW n \in 1 .. m
        PROVE  b[n] = [train |-> IF n = spoilt THEN NoTrain ELSE j + n - 1,
                       departure |-> timetable[j + n - 1]]
    <2>1. Listing(j)[n] = [train |-> j + n - 1, departure |-> timetable[j + n - 1]]
      BY <1>1
    <2>2. CASE n = spoilt
      <3>1. b[n] = [Listing(j)[n] EXCEPT !.train = NoTrain]
        BY <1>1, <2>2 DEF SpoiltListing
      <3> QED
        BY <2>1, <2>2, <3>1
    <2>3. CASE n # spoilt
      BY <1>1, <2>1, <2>3 DEF SpoiltListing
    <2> QED
      BY <2>2, <2>3
  <1>4. \A n \in 1 .. m : b[n] \in BoardRows
    <2>1. \A n \in 1 .. m : j + n - 1 \in 0 .. MAX_TRAINS /\ 0 \in 0 .. MAX_TRAINS
      BY <1>1, <1>2
    <2>2. ASSUME NEW n \in 1 .. m, NEW x \in 0 .. MAX_TRAINS
          PROVE  [train |-> x, departure |-> timetable[j + n - 1]] \in BoardRows
      BY <1>1 DEF BoardRows
    <2>3. \A n \in 1 .. m : (IF n = spoilt THEN NoTrain ELSE j + n - 1) \in 0 .. MAX_TRAINS
      BY <2>1 DEF NoTrain
    <2> QED
      BY <1>3, <2>2, <2>3
  <1>5. b = [n \in 1 .. m |-> b[n]]
    BY <1>1 DEF SpoiltListing
  <1> HIDE DEF b
  <1>6. b \in [1 .. m -> BoardRows]
    BY <1>4, <1>5
  <1>7. b \in Seq(BoardRows) /\ Len(b) = m
    BY <1>1, <1>6
  <1> QED
    BY <1>1, <1>3, <1>7 DEF b, m

\* Nobody has looked at the boards.
LEMMA ParityStarts == ParityInit => ParityInv
  <1> SUFFICES ASSUME ParityInit
               PROVE  ParityInv
    OBVIOUS
  <1>1. Unprobed \in [{"api", "api1"} -> Seq(BoardRows)]
    <2>1. Unprobed = [h \in {"api", "api1"} |-> <<>>]
      BY DEF Unprobed
    <2>2. <<>> \in Seq(BoardRows)
      BY EmptySeq
    <2> QED
      BY <2>1, <2>2
  <1> QED
    BY <1>1, EmptySeq, ParityAssumption DEF ParityInit, ParityInv, ParityTypeOK

\* Each step of the boards' world and of `compareParity` keeps the invariant.
LEMMA ParityGoesOn == ParityInv /\ [ParityNext]_parity => ParityInv'
  <1> SUFFICES ASSUME ParityInv, [ParityNext]_parity
               PROVE  ParityInv'
    OBVIOUS
  <1>0. /\ ParityTypeOK
        /\ \A i, j \in 1 .. Len(timetable) : i < j => timetable[i] <= timetable[j]
    BY DEF ParityInv
  <1>1. ASSUME NEW d \in Minutes, Schedule(d)
        PROVE  ParityInv'
    <2>1. /\ boards = Unprobed /\ Len(timetable) < MAX_TRAINS
          /\ \A i \in 1 .. Len(timetable) : timetable[i] <= d
          /\ timetable' = Append(timetable, d)
          /\ boards' = boards /\ wrong' = wrong /\ verdict' = verdict
      BY <1>1 DEF Schedule
    <2>2. Len(timetable) \in Nat /\ MAX_TRAINS \in Nat
      BY <1>0, LenProperties, ParityAssumption DEF ParityTypeOK
    <2>3. /\ timetable' \in Seq(Minutes) /\ Len(timetable') = Len(timetable) + 1
          /\ \A i \in 1 .. Len(timetable) : timetable'[i] = timetable[i]
          /\ timetable'[Len(timetable) + 1] = d
      BY <1>0, <2>1, AppendProperties DEF ParityTypeOK
    <2>4. \A i, j \in 1 .. Len(timetable') : i < j => timetable'[i] <= timetable'[j]
      <3>1. \A i : i \in 1 .. Len(timetable')
                     <=> i \in 1 .. Len(timetable) \/ i = Len(timetable) + 1
        BY <2>2, <2>3
      <3>2. \A i, j \in 1 .. Len(timetable') : i < j => i \in 1 .. Len(timetable)
        BY <2>2, <2>3
      <3> QED
        BY <1>0, <2>1, <2>3, <3>1, <3>2
    <2>5. boards' = Unprobed /\ wrong' = -1
      <3>1. ASSUME NEW i \in 1 .. Len(timetable) + 1, NEW j \in 1 .. Len(timetable) + 1,
                   NEW spoilt \in 0 .. ROWS, Probed(i, j, spoilt)
            PROVE  wrong = -1
        <4>1. boards["api1"] = <<>>
          BY <2>1 DEF Unprobed
        <4>2. Len(Listing(j)) = 0
          BY <1>0, <3>1, <4>1, SpoiltRows, EmptySeq DEF Probed
        <4>3. DOMAIN Listing(j) = {}
          BY <1>0, <4>2, ListingRows
        <4> QED
          BY <3>1, <4>3 DEF Probed
      <3> QED
        BY <2>1, <3>1 DEF ParityInv
    <2>6. verdict' # "none" => verdict' = Verdict'
      <3>1. Verdict' = Verdict
        BY <2>1 DEF Verdict, Compared, Window
      <3> QED
        BY <2>1, <3>1 DEF ParityInv
    <2>7. ParityTypeOK'
      BY <1>0, <2>1, <2>2, <2>3 DEF ParityTypeOK
    <2> QED
      BY <2>4, <2>5, <2>6, <2>7 DEF ParityInv, Unprobed
  <1>2. ASSUME NEW i \in 1 .. Len(timetable) + 1, NEW j \in 1 .. Len(timetable) + 1,
               NEW spoilt \in 0 .. ROWS, Probes(i, j, spoilt)
        PROVE  ParityInv'
    <2>1. /\ boards' = [api |-> Listing(i),
                        api1 |-> SpoiltListing(j, spoilt)]
          /\ wrong' = IF spoilt \in DOMAIN Listing(j) THEN Listing(j)[spoilt].departure ELSE -1
          /\ timetable' = timetable /\ verdict' = verdict /\ verdict = "none"
      BY <1>2 DEF Probes, SpoiltListing
    <2>2. Listing(i)' = Listing(i) /\ Listing(j)' = Listing(j)
          /\ SpoiltListing(j, spoilt)' = SpoiltListing(j, spoilt)
      BY <2>1 DEF Listing, SpoiltListing
    <2>3. Probed(i, j, spoilt)'
      BY <2>1, <2>2 DEF Probed
    <2>4. boards' \in [{"api", "api1"} -> Seq(BoardRows)]
      <3>1. Listing(i) \in Seq(BoardRows)
        BY <1>0, ListingRows
      <3> HIDE DEF Listing
      <3> QED
        BY <1>0, <2>1, <3>1, SpoiltRows
    <2>5. wrong' \in Minutes \cup {-1}
      <3>1. ASSUME spoilt \in DOMAIN Listing(j)
            PROVE  Listing(j)[spoilt].departure \in Minutes
        <4>1. /\ timetable[j + spoilt - 1] \in Minutes
              /\ Listing(j)[spoilt] = [train |-> j + spoilt - 1,
                                       departure |-> timetable[j + spoilt - 1]]
          BY <1>0, <3>1, ListingRows
        <4> QED
          BY <4>1
      <3> QED
        BY <2>1, <3>1
    <2>6. ParityTypeOK'
      BY <1>0, <2>1, <2>4, <2>5 DEF ParityTypeOK
    <2> QED
      BY <1>0, <2>1, <2>3, <2>6 DEF ParityInv
  <1>3. CASE CompareParity
    <2>1. /\ verdict' = Verdict /\ timetable' = timetable /\ boards' = boards /\ wrong' = wrong
      BY <1>3 DEF CompareParity, Verdict
    <2>2. Verdict' = Verdict
      BY <2>1 DEF Verdict, Compared, Window
    <2>3. ParityTypeOK'
      BY <1>0, <2>1 DEF ParityTypeOK, Verdict
    <2>4. (boards = Unprobed /\ wrong = -1)'
          \/ (\E i, j \in 1 .. Len(timetable) + 1, s \in 0 .. ROWS : Probed(i, j, s))'
      <3>1. \A i, j, s : Probed(i, j, s)' <=> Probed(i, j, s)
        BY <2>1 DEF Probed, Listing, SpoiltListing
      <3> QED
        BY <2>1, <3>1 DEF ParityInv
    <2> QED
      BY <1>0, <2>1, <2>2, <2>3, <2>4 DEF ParityInv
  <1>4. CASE UNCHANGED parity
    <2>1. \A i, j, s : Probed(i, j, s)' <=> Probed(i, j, s)
      BY <1>4 DEF parity, Probed, Listing, SpoiltListing
    <2>2. Verdict' = Verdict
      BY <1>4 DEF parity, Verdict, Compared, Window
    <2> QED
      BY <1>4, <2>1, <2>2 DEF parity, ParityInv, ParityTypeOK
  <1> QED
    BY <1>1, <1>2, <1>3, <1>4 DEF ParityNext

\* If no two trains leave in the same minute, two boards differ inside the window both cover
\* exactly if the wrong row is in it.
LEMMA BoardsCompared ==
    ASSUME ParityTypeOK, \A k, l \in 1 .. Len(timetable) : k < l => timetable[k] < timetable[l],
           NEW i \in 1 .. Len(timetable) + 1, NEW j \in 1 .. Len(timetable) + 1,
           NEW spoilt \in 0 .. ROWS, Probed(i, j, spoilt),
           boards["api"] # <<>>, boards["api1"] # <<>>
    PROVE  LET a == boards["api"]
               b == boards["api1"]
           IN  Compared(a, Window(a, b)) = Compared(b, Window(a, b)) <=> wrong \notin Window(a, b)
  <1>1. PICK a : a = boards["api"]
    OBVIOUS
  <1>2. PICK b : b = boards["api1"]
    OBVIOUS
  <1>3. PICK L, t : L = Len(timetable) /\ t = timetable
    OBVIOUS
  <1>4. /\ L \in Nat /\ ROWS \in Nat /\ \A k \in 1 .. L : t[k] \in Minutes /\ t[k] \in Nat
        /\ \A k, l \in 1 .. L : k < l => t[k] < t[l]
    BY <1>3, LenProperties, ElementOfSeq, ParityAssumption DEF ParityTypeOK, Minutes
  <1>5. PICK m \in Nat :
          /\ m # 0 /\ Len(a) = m /\ i + m - 1 <= L
          /\ \A n \in 1 .. m : /\ i + n - 1 \in 1 .. L
                               /\ a[n] = [train |-> i + n - 1, departure |-> t[i + n - 1]]
    <2>1. a = Listing(i)
      BY <1>1 DEF Probed
    <2> QED
      BY <1>1, <1>3, <2>1, ListingRows, EmptySeq
  <1>6. PICK p \in Nat :
          /\ p # 0 /\ Len(b) = p /\ j + p - 1 <= L /\ DOMAIN Listing(j) = 1 .. p
          /\ \A n \in 1 .. p :
               /\ j + n - 1 \in 1 .. L /\ Listing(j)[n].departure = t[j + n - 1]
               /\ b[n] = [train |-> IF n = spoilt THEN 0 ELSE j + n - 1, departure |-> t[j + n - 1]]
    <2>1. b = SpoiltListing(j, spoilt)
      BY <1>2 DEF Probed
    <2>2. /\ b \in Seq(BoardRows) /\ Len(b) = Len(Listing(j))
          /\ \A n \in 1 .. Len(b) :
               b[n] = [train |-> IF n = spoilt THEN NoTrain ELSE j + n - 1,
                       departure |-> timetable[j + n - 1]]
      BY <2>1, SpoiltRows
    <2>3. LET q == Len(Listing(j)) IN
          /\ q \in Nat /\ j + q - 1 <= Len(timetable) /\ DOMAIN Listing(j) = 1 .. q
          /\ \A n \in 1 .. q :
               /\ j + n - 1 \in 1 .. Len(timetable)
               /\ Listing(j)[n] = [train |-> j + n - 1, departure |-> timetable[j + n - 1]]
      BY ListingRows
    <2>4. Len(b) # 0
      BY <1>2, <2>2, EmptySeq
    <2>5. \A n \in 1 .. Len(b) :
            /\ j + n - 1 \in 1 .. L /\ Listing(j)[n].departure = t[j + n - 1]
            /\ b[n] = [train |-> IF n = spoilt THEN 0 ELSE j + n - 1, departure |-> t[j + n - 1]]
      <3> SUFFICES ASSUME NEW n \in 1 .. Len(b)
                   PROVE  /\ j + n - 1 \in 1 .. L /\ Listing(j)[n].departure = t[j + n - 1]
                          /\ b[n] = [train |-> IF n = spoilt THEN 0 ELSE j + n - 1,
                                     departure |-> t[j + n - 1]]
        OBVIOUS
      <3>1. /\ j + n - 1 \in 1 .. L
            /\ Listing(j)[n] = [train |-> j + n - 1, departure |-> t[j + n - 1]]
        BY <1>3, <2>2, <2>3
      <3>2. Listing(j)[n].departure = t[j + n - 1]
        BY <3>1
      <3>3. b[n] = [train |-> IF n = spoilt THEN 0 ELSE j + n - 1, departure |-> t[j + n - 1]]
        BY <1>3, <2>2 DEF NoTrain
      <3> QED
        BY <3>1, <3>2, <3>3
    <2> QED
      BY <1>3, <2>2, <2>3, <2>4, <2>5
  <1>7. i \in Nat /\ j \in Nat /\ i >= 1 /\ j >= 1
    BY <1>3, <1>4
  <1>8. PICK w : w = Window(a, b)
    OBVIOUS
  \* A train leaves in the window exactly if both boards reach it.
  <1>9. \A k \in 1 .. L : t[k] \in w <=> i <= k /\ j <= k /\ k <= i + m - 1 /\ k <= j + p - 1
    <2>1. /\ a[1].departure = t[i] /\ a[m].departure = t[i + m - 1] /\ i \in 1 .. L
          /\ b[1].departure = t[j] /\ b[p].departure = t[j + p - 1] /\ j \in 1 .. L
          /\ i + m - 1 \in 1 .. L /\ j + p - 1 \in 1 .. L
      <3>1. 1 \in 1 .. m /\ m \in 1 .. m /\ 1 \in 1 .. p /\ p \in 1 .. p
        BY <1>5, <1>6
      <3>2. i + 1 - 1 = i /\ j + 1 - 1 = j
        BY <1>7
      <3>3. /\ a[1] = [train |-> i + 1 - 1, departure |-> t[i + 1 - 1]] /\ i + 1 - 1 \in 1 .. L
            /\ a[m] = [train |-> i + m - 1, departure |-> t[i + m - 1]] /\ i + m - 1 \in 1 .. L
        BY <1>5, <3>1
      <3>4. /\ b[1].departure = t[j + 1 - 1] /\ j + 1 - 1 \in 1 .. L
            /\ b[p].departure = t[j + p - 1] /\ j + p - 1 \in 1 .. L
        BY <1>6, <3>1
      <3> QED
        BY <3>2, <3>3, <3>4
    <2>2. w = Max({t[i], t[j]}) .. Min({t[i + m - 1], t[j + p - 1]})
      BY <1>5, <1>6, <1>8, <2>1 DEF Window
    <2>3. ASSUME NEW x \in Nat, NEW y \in Nat
          PROVE  /\ Max({x, y}) \in {x, y} /\ Max({x, y}) >= x /\ Max({x, y}) >= y
                 /\ Min({x, y}) \in {x, y} /\ Min({x, y}) <= x /\ Min({x, y}) <= y
      <3>1. /\ \E z \in {x, y} : \A v \in {x, y} : z >= v
            /\ \E z \in {x, y} : \A v \in {x, y} : z <= v
        <4>1. CASE x <= y
          BY <4>1
        <4>2. CASE y <= x
          BY <4>2
        <4> QED
          BY <4>1, <4>2
      <3>2. Max({x, y}) \in {x, y} /\ \A v \in {x, y} : Max({x, y}) >= v
        BY <3>1 DEF Max
      <3>3. Min({x, y}) \in {x, y} /\ \A v \in {x, y} : Min({x, y}) <= v
        BY <3>1 DEF Min
      <3> QED
        BY <3>2, <3>3
    <2>4. \A x, y, u, v, d \in Nat :
            d \in Max({x, y}) .. Min({u, v}) <=> x <= d /\ y <= d /\ d <= u /\ d <= v
      <3> SUFFICES ASSUME NEW x \in Nat, NEW y \in Nat, NEW u \in Nat, NEW v \in Nat, NEW d \in Nat
                   PROVE  d \in Max({x, y}) .. Min({u, v})
                            <=> x <= d /\ y <= d /\ d <= u /\ d <= v
        OBVIOUS
      <3>1. PICK f, g : f = Max({x, y}) /\ g = Min({u, v})
        OBVIOUS
      <3>2. /\ f \in Nat /\ f \in {x, y} /\ f >= x /\ f >= y
            /\ g \in Nat /\ g \in {u, v} /\ g <= u /\ g <= v
        BY <2>3, <3>1
      <3>3. d \in f .. g <=> x <= d /\ y <= d /\ d <= u /\ d <= v
        BY <3>2
      <3> QED
        BY <3>1, <3>3
    <2>5. \A k, l \in 1 .. L : t[k] <= t[l] <=> k <= l
      BY <1>4
    <2> SUFFICES ASSUME NEW k \in 1 .. L
                 PROVE  t[k] \in w <=> i <= k /\ j <= k /\ k <= i + m - 1 /\ k <= j + p - 1
      OBVIOUS
    <2>6. t[k] \in w <=> t[i] <= t[k] /\ t[j] <= t[k] /\ t[k] <= t[i + m - 1] /\ t[k] <= t[j + p - 1]
      <3>1. PICK x \in Nat, y \in Nat, u \in Nat, v \in Nat, d \in Nat :
              x = t[i] /\ y = t[j] /\ u = t[i + m - 1] /\ v = t[j + p - 1] /\ d = t[k]
        BY <1>4, <2>1
      <3>2. d \in Max({x, y}) .. Min({u, v}) <=> x <= d /\ y <= d /\ d <= u /\ d <= v
        BY <2>4
      <3>3. w = Max({x, y}) .. Min({u, v})
        BY <2>2, <3>1
      <3> QED
        BY <3>1, <3>2, <3>3
    <2> QED
      BY <2>1, <2>5, <2>6
  <1>10. wrong = IF spoilt \in 1 .. p THEN t[j + spoilt - 1] ELSE -1
    BY <1>6 DEF Probed
  <1>11. -1 \notin w
    <2>1. w \subseteq Nat \/ -1 \notin w
      <3>1. PICK f, g : f = Max({a[1].departure, b[1].departure})
                        /\ g = Min({a[Len(a)].departure, b[Len(b)].departure})
        OBVIOUS
      <3>2. f \in Nat
        <4>1. 1 \in 1 .. m /\ 1 \in 1 .. p
          BY <1>5, <1>6
        <4>2. a[1].departure \in Nat /\ b[1].departure \in Nat
          <5>1. /\ i + 1 - 1 \in 1 .. L /\ a[1] = [train |-> i + 1 - 1, departure |-> t[i + 1 - 1]]
                /\ j + 1 - 1 \in 1 .. L /\ b[1].departure = t[j + 1 - 1]
            BY <1>5, <1>6, <4>1
          <5> QED
            BY <1>4, <5>1
        <4>3. \E z \in {a[1].departure, b[1].departure} :
                \A v \in {a[1].departure, b[1].departure} : z >= v
          BY <4>2
        <4> QED
          BY <3>1, <4>2, <4>3 DEF Max
      <3>3. w = f .. g
        BY <1>8, <3>1 DEF Window
      <3> QED
        BY <3>2, <3>3
    <2> QED
      BY <2>1
  <1>12. ASSUME wrong \in w
         PROVE  Compared(a, w) # Compared(b, w)
    <2>1. spoilt \in 1 .. p /\ t[j + spoilt - 1] \in w
      BY <1>10, <1>11, <1>12
    <2>2. b[spoilt] = [train |-> 0, departure |-> t[j + spoilt - 1]]
      BY <1>6, <2>1
    <2>3. b[spoilt] \in Compared(b, w)
      BY <1>6, <2>1, <2>2 DEF Compared
    <2>4. \A n \in 1 .. m : a[n].train # 0
      BY <1>5, <1>7
    <2>5. b[spoilt] \notin Compared(a, w)
      BY <1>5, <2>2, <2>4 DEF Compared
    <2> QED
      BY <2>3, <2>5
  <1>13. ASSUME wrong \notin w
         PROVE  Compared(a, w) = Compared(b, w)
    <2>1. ASSUME NEW n \in 1 .. m, a[n].departure \in w
          PROVE  \E q \in 1 .. p : b[q] = a[n] /\ b[q].departure \in w
      <3>1. PICK k \in 1 .. L : k = i + n - 1
        BY <1>5
      <3>2. a[n] = [train |-> k, departure |-> t[k]] /\ t[k] \in w
        BY <1>5, <2>1, <3>1
      <3>3. PICK q \in 1 .. p : k = j + q - 1
        <4>1. j <= k /\ k <= j + p - 1
          BY <1>9, <3>2
        <4>2. k - j + 1 \in 1 .. p /\ k = j + (k - j + 1) - 1
          BY <1>4, <1>7, <4>1
        <4> QED
          BY <4>2
      <3>4. q # spoilt
        BY <1>10, <1>13, <3>2, <3>3
      <3>5. b[q] = [train |-> k, departure |-> t[k]]
        BY <1>6, <3>3, <3>4
      <3> QED
        BY <3>2, <3>5
    <2>2. ASSUME NEW q \in 1 .. p, b[q].departure \in w
          PROVE  \E n \in 1 .. m : a[n] = b[q] /\ a[n].departure \in w
      <3>1. PICK k \in 1 .. L : k = j + q - 1
        BY <1>6
      <3>2. b[q].departure = t[k] /\ t[k] \in w
        BY <1>6, <2>2, <3>1
      <3>3. PICK n \in 1 .. m : k = i + n - 1
        <4>1. i <= k /\ k <= i + m - 1
          BY <1>9, <3>2
        <4>2. k - i + 1 \in 1 .. m /\ k = i + (k - i + 1) - 1
          BY <1>4, <1>7, <4>1
        <4> QED
          BY <4>2
      <3>4. q # spoilt
        BY <1>10, <1>13, <3>1, <3>2
      <3>5. b[q] = [train |-> k, departure |-> t[k]] /\ a[n] = [train |-> k, departure |-> t[k]]
        BY <1>5, <1>6, <3>1, <3>3, <3>4
      <3> QED
        BY <3>2, <3>5
    <2>3. Compared(a, w) = {a[n] : n \in {x \in 1 .. m : a[x].departure \in w}}
          /\ Compared(b, w) = {b[n] : n \in {x \in 1 .. p : b[x].departure \in w}}
      BY <1>5, <1>6 DEF Compared
    <2>4. \A x : x \in Compared(a, w) => x \in Compared(b, w)
      BY <2>1, <2>3
    <2>5. \A x : x \in Compared(b, w) => x \in Compared(a, w)
      BY <2>2, <2>3
    <2> QED
      BY <2>4, <2>5
  <1> QED
    BY <1>1, <1>2, <1>8, <1>12, <1>13

\* As long as no two trains leave in the same minute, the parity check goes off exactly when a
\* row both hosts should show differs, however far apart their caches were filled
\* (`compareParity`, monitor/src/index.js:147-160): for any timetable and any number of rows.
THEOREM ParityIsRight == ParitySpec => []ParityRight
  <1>1. ParityInv => ParityRight
    <2> SUFFICES ASSUME ParityInv, verdict # "none",
                        \A i, j \in 1 .. Len(timetable) : i # j => timetable[i] # timetable[j]
                 PROVE  LET a == boards["api"]
                            b == boards["api1"]
                        IN  verdict = "differ" <=> a # <<>> /\ b # <<>> /\ wrong \in Window(a, b)
      BY DEF ParityRight
    <2>1. ParityTypeOK /\ verdict = Verdict
      BY DEF ParityInv
    <2>2. \A k, l \in 1 .. Len(timetable) : k < l => timetable[k] < timetable[l]
      <3> SUFFICES ASSUME NEW k \in 1 .. Len(timetable), NEW l \in 1 .. Len(timetable), k < l
                   PROVE  timetable[k] < timetable[l]
        OBVIOUS
      <3>1. timetable[k] \in Int /\ timetable[l] \in Int
        BY <2>1, ElementOfSeq, ParityAssumption DEF ParityTypeOK, Minutes
      <3>2. timetable[k] <= timetable[l] /\ timetable[k] # timetable[l]
        BY <2>1, LenProperties DEF ParityInv, ParityTypeOK
      <3> QED
        BY <3>1, <3>2
    <2>3. CASE boards["api"] = <<>> \/ boards["api1"] = <<>>
      BY <2>1, <2>3 DEF Verdict
    <2>4. CASE boards["api"] # <<>> /\ boards["api1"] # <<>>
      <3>1. boards # Unprobed
        BY <2>4 DEF Unprobed
      <3>2. PICK i \in 1 .. Len(timetable) + 1, j \in 1 .. Len(timetable) + 1, spoilt \in 0 .. ROWS :
              Probed(i, j, spoilt)
        BY <3>1 DEF ParityInv
      <3> QED
        BY <2>1, <2>2, <2>4, <3>2, BoardsCompared DEF Verdict
    <2> QED
      BY <2>3, <2>4
  <1> QED
    BY <1>1, ParityStarts, ParityGoesOn, PTL DEF ParitySpec

----
(* Journeys.                                                               *)

\* No event of its journey leaves later, or at the same time and was published before it.
Latest(a) ==
    \A b \in (1 .. Len(events)) \ {a} : SameJourney(a, b) =>
        Departure(b) < Departure(a) \/ (Departure(b) = Departure(a) /\ a < b)

\* The rows are the latest events of their journeys, each once.
KeptLatest ==
    /\ \A i \in 1 .. Len(kept) : Latest(kept[i])
    /\ \A a \in 1 .. Len(events) : Latest(a) => \E i \in 1 .. Len(kept) : kept[i] = a
    /\ \A i, j \in 1 .. Len(kept) : kept[i] = kept[j] => i = j

\* The place of a journey is that of a row of it; a journey without one has had no event.
PlacesKnown ==
    \A j \in JourneyRefs :
        IF seen[j] = 0 THEN \A a \in 1 .. Len(events) : events[a].journey # j
        ELSE seen[j] \in 1 .. Len(kept) /\ events[kept[seen[j]]].journey = j

InOrder == \A i, j \in 1 .. Len(kept) : i < j => Departure(kept[i]) <= Departure(kept[j])

\* What the favourites of an answer are to be.
ToldRight(pairs, favourites) ==
    LET Of(line)   == {row \in Rows : events[row].line = line}
        Told(line) == {i \in 1 .. Len(favourites) : events[favourites[i]].line = line}
        Named(line) == {i \in 1 .. Len(pairs) : pairs[i] = line}
    IN  /\ \A line \in Lines :
             /\ Cardinality(Told(line)) = IF Of(line) = {} THEN 0 ELSE Cardinality(Named(line))
             /\ \A i \in Told(line) : \A row \in Of(line) :
                    Departure(favourites[i]) <= Departure(row)
        /\ \A i, j \in 1 .. Len(favourites) :
             i < j => Departure(favourites[i]) <= Departure(favourites[j])

JourneysInv ==
    /\ JourneysTypeOK
    /\ KeptLatest
    /\ ~sorted => PlacesKnown /\ answer = <<>>
    /\ sorted => InOrder
    /\ answer # <<>> => ToldRight(answer.pairs, answer.favourites)

\* What the events and the rows are made of.
LEMMA RowsTyped ==
    ASSUME JourneysTypeOK
    PROVE  /\ Len(events) \in Nat /\ Len(kept) \in Nat
           /\ \A a \in 1 .. Len(events) :
                /\ events[a] \in Events /\ Departure(a) \in Nat
                /\ events[a].journey \in JourneyRefs \cup {NoJourney} /\ events[a].line \in Lines
           /\ \A i \in 1 .. Len(kept) : kept[i] \in 1 .. Len(events)
  <1>1. /\ Len(events) \in Nat /\ Len(kept) \in Nat
        /\ \A a \in 1 .. Len(events) : events[a] \in Events
        /\ \A i \in 1 .. Len(kept) : kept[i] \in 1 .. Len(events)
    BY LenProperties, ElementOfSeq DEF JourneysTypeOK
  <1>2. \A e \in Events : /\ e.departure \in Nat /\ e.line \in Lines
                          /\ e.journey \in JourneyRefs \cup {NoJourney}
    BY JourneysAssumption DEF Events
  <1> QED
    BY <1>1, <1>2 DEF Departure

\* No two events of a journey are both its latest.
LEMMA OneLatest ==
    ASSUME JourneysTypeOK, NEW a \in 1 .. Len(events), NEW b \in 1 .. Len(events),
           Latest(a), Latest(b), SameJourney(a, b)
    PROVE  a = b
  <1>1. Departure(a) \in Nat /\ Departure(b) \in Nat /\ a \in Nat /\ b \in Nat /\ SameJourney(b, a)
    BY RowsTyped DEF SameJourney
  <1>2. a # b => /\ Departure(b) < Departure(a) \/ (Departure(b) = Departure(a) /\ a < b)
                 /\ Departure(a) < Departure(b) \/ (Departure(a) = Departure(b) /\ b < a)
    BY <1>1 DEF Latest
  <1> QED
    BY <1>1, <1>2

\* What one more event (`keep_latest_per_journey`, core/src/ojp.rs:247) leaves as it is, and
\* what it can only change: its own journey.
LEMMA AnotherEvent ==
    ASSUME JourneysInv, NEW e \in Events, Another(e), NEW n, n = Len(events) + 1
    PROVE  /\ n \in Nat /\ n \notin 1 .. Len(events)
           /\ events' \in Seq(Events) /\ Len(events') = n /\ n <= MAX_EVENTS /\ events'[n] = e
           /\ 1 .. n = (1 .. Len(events)) \cup {n}
           /\ \A a \in 1 .. Len(events) :
                events'[a] = events[a] /\ Departure(a)' = Departure(a)
           /\ Departure(n)' = e.departure
           /\ \A a, b \in 1 .. Len(events) : SameJourney(a, b)' <=> SameJourney(a, b)
           /\ sorted' = sorted /\ ~sorted /\ answer' = answer /\ answer = <<>>
  <1>1. /\ ~sorted /\ Len(events) < MAX_EVENTS /\ events' = Append(events, e)
        /\ sorted' = sorted /\ answer' = answer /\ JourneysTypeOK /\ answer = <<>>
    BY DEF Another, JourneysInv
  <1>2. Len(events) \in Nat /\ MAX_EVENTS \in Nat
    BY <1>1, RowsTyped, JourneysAssumption
  <1>3. /\ events' \in Seq(Events) /\ Len(events') = n /\ events'[n] = e
        /\ \A a \in 1 .. Len(events) : events'[a] = events[a]
    BY <1>1, <1>2, AppendProperties DEF JourneysTypeOK
  <1>4. 1 .. n = (1 .. Len(events)) \cup {n} /\ n \notin 1 .. Len(events) /\ n \in Nat /\ n <= MAX_EVENTS
    BY <1>1, <1>2
  <1>5. Departure(n)' = e.departure /\ \A a \in 1 .. Len(events) : Departure(a)' = Departure(a)
    BY <1>3 DEF Departure
  <1>6. \A a, b \in 1 .. Len(events) : SameJourney(a, b)' <=> SameJourney(a, b)
    BY <1>3 DEF SameJourney
  <1> QED
    BY <1>1, <1>3, <1>4, <1>5, <1>6

\* An event of which no other is of the same journey is added as a row.
LEMMA PushKeeps ==
    ASSUME JourneysInv, NEW e \in Events, Another(e), Push,
           \A a \in 1 .. Len(events) : e.journey = NoJourney \/ events[a].journey # e.journey
    PROVE  /\ KeptLatest' /\ kept' \in Seq(1 .. Len(events'))
           /\ Len(kept') = Len(kept) + 1 /\ kept'[Len(kept) + 1] = Len(events) + 1
           /\ \A i \in 1 .. Len(kept) : kept'[i] = kept[i]
  <1>0. PICK n, L : n = Len(events) + 1 /\ L = Len(kept)
    OBVIOUS
  <1>1. JourneysTypeOK /\ KeptLatest /\ L \in Nat /\ \A i \in 1 .. L : kept[i] \in 1 .. Len(events)
    BY <1>0, RowsTyped DEF JourneysInv
  <1>2. /\ n \in Nat /\ n \notin 1 .. Len(events) /\ Len(events') = n /\ events'[n] = e
        /\ 1 .. n = (1 .. Len(events)) \cup {n}
        /\ \A a \in 1 .. Len(events) : events'[a] = events[a] /\ Departure(a)' = Departure(a)
        /\ \A a, b \in 1 .. Len(events) : SameJourney(a, b)' <=> SameJourney(a, b)
    BY <1>0, AnotherEvent
  <1>3. /\ kept' \in Seq(1 .. n) /\ Len(kept') = L + 1 /\ kept'[L + 1] = n
        /\ \A i \in 1 .. L : kept'[i] = kept[i]
    <2>1. kept \in Seq(1 .. n) /\ n \in 1 .. n
      BY <1>1, <1>2, SeqMonotonic DEF JourneysTypeOK
    <2> QED
      BY <1>0, <2>1, AppendProperties DEF Push
  <1>4. \A a \in 1 .. Len(events) : ~SameJourney(a, n)' /\ ~SameJourney(n, a)'
    BY <1>2 DEF SameJourney
  <1>5. Latest(n)'
    BY <1>2, <1>4 DEF Latest
  <1>6. \A a \in 1 .. Len(events) : Latest(a)' <=> Latest(a)
    BY <1>2, <1>4 DEF Latest
  <1>7. \A i : i \in 1 .. L + 1 <=> i \in 1 .. L \/ i = L + 1
    BY <1>1
  <1>8. (\A i \in 1 .. Len(kept) : Latest(kept[i]))'
    <2> SUFFICES ASSUME NEW i \in 1 .. L + 1
                 PROVE  Latest(kept[i])'
      BY <1>3
    <2>1. CASE i = L + 1
      BY <1>3, <1>5, <2>1
    <2>2. CASE i \in 1 .. L
      <3>1. PICK a \in 1 .. Len(events) : a = kept[i] /\ Latest(a)
        BY <1>0, <1>1, <2>2 DEF KeptLatest
      <3>2. kept'[i] = a /\ Latest(a)'
        BY <1>3, <1>6, <2>2, <3>1
      <3> QED
        BY <3>2
    <2> QED
      BY <1>7, <2>1, <2>2
  <1>9. (\A a \in 1 .. Len(events) : Latest(a) => \E i \in 1 .. Len(kept) : kept[i] = a)'
    <2> SUFFICES ASSUME NEW a \in 1 .. n, Latest(a)'
                 PROVE  \E i \in 1 .. L + 1 : kept'[i] = a
      BY <1>2, <1>3
    <2>1. CASE a = n
      BY <1>1, <1>3, <1>7, <2>1
    <2>2. CASE a \in 1 .. Len(events)
      <3>1. PICK i \in 1 .. L : kept[i] = a
        BY <1>0, <1>1, <1>6, <2>2 DEF KeptLatest
      <3> QED
        BY <1>3, <1>7, <3>1
    <2> QED
      BY <1>2, <2>1, <2>2
  <1>10. (\A i, j \in 1 .. Len(kept) : kept[i] = kept[j] => i = j)'
    <2> SUFFICES ASSUME NEW i \in 1 .. L + 1, NEW j \in 1 .. L + 1, kept'[i] = kept'[j]
                 PROVE  i = j
      BY <1>3
    <2>1. \A m \in 1 .. L : kept'[m] # n
      BY <1>1, <1>2, <1>3
    <2> QED
      BY <1>0, <1>1, <1>3, <1>7, <2>1 DEF KeptLatest
  <1> QED
    BY <1>0, <1>2, <1>3, <1>8, <1>9, <1>10 DEF KeptLatest

\* The row of a journey is taken over by an event of it that leaves later, and by no other.
LEMMA TwinKeeps ==
    ASSUME JourneysInv, NEW e \in Events, Twin(e)
    PROVE  KeptLatest' /\ PlacesKnown' /\ kept' \in Seq(1 .. Len(events')) /\ Len(kept') = Len(kept)
  <1>0. PICK n, L, place, r, j :
          /\ n = Len(events) + 1 /\ L = Len(kept)
          /\ place = seen[e.journey] /\ r = kept[place] /\ j = e.journey
    OBVIOUS
  <1>1. /\ JourneysTypeOK /\ KeptLatest /\ PlacesKnown /\ L \in Nat
        /\ \A i \in 1 .. L : kept[i] \in 1 .. Len(events)
        /\ \A a \in 1 .. Len(events) : Departure(a) \in Nat /\ a \in Nat
    BY <1>0, RowsTyped DEF JourneysInv, Twin, Another
  <1>2. /\ n \in Nat /\ n \notin 1 .. Len(events) /\ Len(events') = n /\ events'[n] = e
        /\ 1 .. n = (1 .. Len(events)) \cup {n}
        /\ \A a \in 1 .. Len(events) : events'[a] = events[a] /\ Departure(a)' = Departure(a)
        /\ \A a, b \in 1 .. Len(events) : SameJourney(a, b)' <=> SameJourney(a, b)
        /\ Departure(n)' = e.departure /\ events' \in Seq(Events)
    BY <1>0, AnotherEvent DEF Twin
  <1>3. /\ j # NoJourney /\ j \in JourneyRefs /\ place # 0 /\ seen' = seen
        /\ kept' = IF e.departure > Departure(r) THEN [kept EXCEPT ![place] = n] ELSE kept
    BY <1>0 DEF Twin, Events, Departure
  <1>4. place \in 1 .. L /\ events[r].journey = j /\ r \in 1 .. Len(events) /\ Latest(r)
    BY <1>0, <1>1, <1>3 DEF PlacesKnown, KeptLatest
  <1>5. e.departure \in Nat
    BY JourneysAssumption DEF Events
  <1>6. \A a \in 1 .. Len(events) : (SameJourney(a, n)' <=> events[a].journey = j)
                                    /\ (SameJourney(n, a)' <=> events[a].journey = j)
    BY <1>0, <1>2, <1>3 DEF SameJourney
  <1>7. \A a \in 1 .. Len(events) : events[a].journey = j => Departure(a) <= Departure(r)
    <2> SUFFICES ASSUME NEW a \in 1 .. Len(events), events[a].journey = j, a # r
                 PROVE  Departure(a) <= Departure(r)
      BY <1>1
    <2>1. SameJourney(r, a)
      BY <1>3, <1>4 DEF SameJourney
    <2> QED
      BY <1>1, <1>4, <2>1 DEF Latest
  <1>8. \A a \in 1 .. Len(events) : events[a].journey = j /\ Latest(a) => a = r
    BY <1>1, <1>3, <1>4, OneLatest DEF SameJourney
  <1>9. \A a \in 1 .. Len(events) : events[a].journey # j => (Latest(a)' <=> Latest(a))
    <2> SUFFICES ASSUME NEW a \in 1 .. Len(events), events[a].journey # j
                 PROVE  Latest(a)' <=> Latest(a)
      OBVIOUS
    <2> QED
      BY <1>2, <1>6 DEF Latest
  <1>10. \A a \in 1 .. Len(events) : events[a].journey = j /\ a # r => ~Latest(a)'
    <2> SUFFICES ASSUME NEW a \in 1 .. Len(events), events[a].journey = j, a # r, Latest(a)'
                 PROVE  FALSE
      OBVIOUS
    <2>1. ~Latest(a)
      BY <1>8
    <2>2. PICK b \in (1 .. Len(events)) \ {a} :
            SameJourney(a, b) /\ ~(Departure(b) < Departure(a) \/ (Departure(b) = Departure(a) /\ a < b))
      BY <2>1 DEF Latest
    <2> QED
      BY <1>2, <2>2 DEF Latest
  <1>11. CASE e.departure > Departure(r)
    <2>1. /\ kept' = [kept EXCEPT ![place] = n] /\ kept' \in Seq(1 .. n) /\ Len(kept') = L
          /\ kept'[place] = n /\ \A i \in 1 .. L : i # place => kept'[i] = kept[i]
      <3>1. kept \in Seq(1 .. n) /\ n \in 1 .. n
        BY <1>0, <1>1, <1>2, SeqMonotonic DEF JourneysTypeOK
      <3> QED
        BY <1>0, <1>3, <1>4, <1>11, <3>1, ExceptSeq
    <2>2. Latest(n)'
      <3> SUFFICES ASSUME NEW b \in 1 .. Len(events), SameJourney(n, b)'
                   PROVE  Departure(b)' < Departure(n)'
        BY <1>2 DEF Latest
      <3> QED
        BY <1>1, <1>2, <1>4, <1>5, <1>6, <1>7, <1>11
    <2>3. ~Latest(r)'
      <3>1. n # r /\ SameJourney(r, n)' /\ n \in 1 .. n
        BY <1>2, <1>4, <1>6
      <3>2. ~(Departure(n)' < Departure(r)') /\ Departure(n)' # Departure(r)'
        BY <1>1, <1>2, <1>4, <1>5, <1>11
      <3>3. n \in 1 .. Len(events')
        BY <1>2, <3>1
      <3>4. ~(Departure(n) < Departure(r) \/ (Departure(n) = Departure(r) /\ r < n))'
        BY <3>2
      <3> QED
        BY <3>1, <3>3, <3>4 DEF Latest
    <2>4. \A i \in 1 .. L : i # place => events[kept[i]].journey # j
      <3> SUFFICES ASSUME NEW i \in 1 .. L, i # place, events[kept[i]].journey = j
                   PROVE  FALSE
        OBVIOUS
      <3>1. kept[i] = r
        BY <1>0, <1>1, <1>8 DEF KeptLatest
      <3> QED
        BY <1>0, <1>1, <1>4, <3>1 DEF KeptLatest
    <2>5. (\A i \in 1 .. Len(kept) : Latest(kept[i]))'
      <3> SUFFICES ASSUME NEW i \in 1 .. L
                   PROVE  Latest(kept[i])'
        BY <2>1
      <3>1. CASE i = place
        BY <2>1, <2>2, <3>1
      <3>2. CASE i # place
        <4>1. PICK a \in 1 .. Len(events) : a = kept[i] /\ Latest(a)
          BY <1>0, <1>1 DEF KeptLatest
        <4>2. Latest(a)' /\ kept'[i] = a
          BY <1>9, <2>1, <2>4, <3>2, <4>1
        <4> QED
          BY <4>2
      <3> QED
        BY <3>1, <3>2
    <2>6. (\A a \in 1 .. Len(events) : Latest(a) => \E i \in 1 .. Len(kept) : kept[i] = a)'
      <3> SUFFICES ASSUME NEW a \in 1 .. n, Latest(a)'
                   PROVE  \E i \in 1 .. L : kept'[i] = a
        BY <1>2, <2>1
      <3>1. CASE a = n
        BY <1>4, <2>1, <3>1
      <3>2. CASE a \in 1 .. Len(events)
        <4>1. events[a].journey # j
          BY <1>10, <2>3, <3>2
        <4>2. PICK i \in 1 .. L : kept[i] = a
          BY <1>0, <1>1, <1>9, <3>2, <4>1 DEF KeptLatest
        <4>3. i # place
          BY <1>0, <1>4, <4>1, <4>2
        <4> QED
          BY <2>1, <4>2, <4>3
      <3> QED
        BY <1>2, <3>1, <3>2
    <2>7. (\A i, k \in 1 .. Len(kept) : kept[i] = kept[k] => i = k)'
      <3> SUFFICES ASSUME NEW i \in 1 .. L, NEW k \in 1 .. L, kept'[i] = kept'[k]
                   PROVE  i = k
        BY <2>1
      <3>1. \A m \in 1 .. L : m # place => kept'[m] # n
        BY <1>1, <1>2, <2>1
      <3> QED
        BY <1>0, <1>1, <2>1, <3>1 DEF KeptLatest
    <2>8. PlacesKnown'
      <3> SUFFICES ASSUME NEW k \in JourneyRefs
                   PROVE  (IF seen[k] = 0 THEN \A a \in 1 .. Len(events) : events[a].journey # k
                           ELSE seen[k] \in 1 .. Len(kept) /\ events[kept[seen[k]]].journey = k)'
        BY DEF PlacesKnown
      <3>1. CASE k = j
        BY <1>0, <1>2, <1>3, <1>4, <2>1, <3>1
      <3>2. CASE k # j /\ seen[k] = 0
        BY <1>0, <1>1, <1>2, <1>3, <3>2 DEF PlacesKnown
      <3>3. CASE k # j /\ seen[k] # 0
        <4>1. PICK i \in 1 .. L : i = seen[k] /\ events[kept[i]].journey = k /\ kept[i] \in 1 .. Len(events)
          BY <1>0, <1>1, <3>3 DEF PlacesKnown
        <4>2. i # place
          BY <1>0, <1>4, <3>3, <4>1
        <4>3. kept'[i] = kept[i] /\ events'[kept[i]].journey = k /\ seen'[k] = i /\ i # 0
          BY <1>2, <1>3, <2>1, <3>3, <4>1, <4>2
        <4> QED
          BY <2>1, <4>1, <4>3
      <3> QED
        BY <3>1, <3>2, <3>3
    <2> QED
      BY <1>0, <1>2, <2>1, <2>5, <2>6, <2>7, <2>8 DEF KeptLatest
  <1>12. CASE ~(e.departure > Departure(r))
    <2>1. kept' = kept /\ kept' \in Seq(1 .. n)
      <3>1. 1 .. Len(events) \subseteq 1 .. n
        BY <1>2
      <3>2. kept' = kept
        BY <1>3, <1>12
      <3> QED
        BY <1>1, <3>1, <3>2, SeqMonotonic DEF JourneysTypeOK
    <2>2. ~Latest(n)'
      <3>1. r # n /\ SameJourney(n, r)' /\ r \in 1 .. Len(events')
        BY <1>2, <1>4, <1>6
      <3>2. ~(Departure(r) < Departure(n) \/ (Departure(r) = Departure(n) /\ n < r))'
        <4>1. Departure(r)' = Departure(r) /\ Departure(n)' = e.departure /\ Departure(r) \in Nat
              /\ Len(events) \in Nat /\ r \in Nat /\ ~(n < r)
          BY <1>0, <1>1, <1>2, <1>4, RowsTyped
        <4> QED
          BY <1>5, <1>12, <4>1
      <3> QED
        BY <3>1, <3>2 DEF Latest
    <2>3. Latest(r)'
      <3> SUFFICES ASSUME NEW b \in (1 .. n) \ {r}, SameJourney(r, b)'
                   PROVE  (Departure(b) < Departure(r) \/ (Departure(b) = Departure(r) /\ r < b))'
        BY <1>2 DEF Latest
      <3>1. CASE b = n
        <4>1. Departure(r)' = Departure(r) /\ Departure(n)' = e.departure /\ Departure(r) \in Nat
              /\ r < n
          BY <1>0, <1>1, <1>2, <1>4, RowsTyped
        <4> QED
          BY <1>5, <1>12, <3>1, <4>1
      <3>2. CASE b \in 1 .. Len(events)
        <4>1. SameJourney(r, b) /\ Departure(b)' = Departure(b) /\ Departure(r)' = Departure(r)
          BY <1>2, <1>4, <3>2
        <4>2. Departure(b) < Departure(r) \/ (Departure(b) = Departure(r) /\ r < b)
          BY <1>4, <3>2, <4>1 DEF Latest
        <4> QED
          BY <4>1, <4>2
      <3> QED
        BY <1>2, <3>1, <3>2
    <2>4. \A a \in 1 .. Len(events) : Latest(a)' <=> Latest(a)
      BY <1>4, <1>8, <1>9, <1>10, <2>3
    <2>5. (\A i \in 1 .. Len(kept) : Latest(kept[i]))'
      <3> SUFFICES ASSUME NEW i \in 1 .. L
                   PROVE  Latest(kept[i])'
        BY <1>0, <2>1
      <3>1. PICK a \in 1 .. Len(events) : a = kept[i] /\ Latest(a)
        BY <1>0, <1>1 DEF KeptLatest
      <3>2. Latest(a)' /\ kept'[i] = a
        BY <2>1, <2>4, <3>1
      <3> QED
        BY <3>2
    <2>6. (\A a \in 1 .. Len(events) : Latest(a) => \E i \in 1 .. Len(kept) : kept[i] = a)'
      <3> SUFFICES ASSUME NEW a \in 1 .. n, Latest(a)'
                   PROVE  \E i \in 1 .. L : kept'[i] = a
        BY <1>0, <1>2, <2>1
      <3>1. a \in 1 .. Len(events)
        BY <1>2, <2>2
      <3> QED
        BY <1>0, <1>1, <2>1, <2>4, <3>1 DEF KeptLatest
    <2>7. (\A i, k \in 1 .. Len(kept) : kept[i] = kept[k] => i = k)'
      BY <1>1, <2>1 DEF KeptLatest
    <2>8. PlacesKnown'
      <3> SUFFICES ASSUME NEW k \in JourneyRefs
                   PROVE  (IF seen[k] = 0 THEN \A a \in 1 .. Len(events) : events[a].journey # k
                           ELSE seen[k] \in 1 .. Len(kept) /\ events[kept[seen[k]]].journey = k)'
        BY DEF PlacesKnown
      <3>1. CASE seen[k] = 0
        BY <1>0, <1>1, <1>2, <1>3, <3>1 DEF PlacesKnown
      <3>2. CASE seen[k] # 0
        <4>1. PICK i \in 1 .. L : i = seen[k] /\ events[kept[i]].journey = k /\ kept[i] \in 1 .. Len(events)
          BY <1>0, <1>1, <3>2 DEF PlacesKnown
        <4>2. kept'[i] = kept[i] /\ events'[kept[i]].journey = k /\ seen'[k] = i /\ Len(kept') = L
          BY <1>0, <1>2, <1>3, <2>1, <4>1
        <4> QED
          BY <3>2, <4>1, <4>2
      <3> QED
        BY <3>1, <3>2
    <2> QED
      BY <1>0, <1>2, <2>1, <2>5, <2>6, <2>7, <2>8 DEF KeptLatest
  <1> QED
    BY <1>11, <1>12

\* The sorted board has the rows it had, in the order of departure (ojp.rs:265).
LEMMA SortKeeps ==
    ASSUME JourneysInv, Sort
    PROVE  KeptLatest' /\ InOrder' /\ kept' \in Seq(1 .. Len(events)) /\ Len(kept') = Len(kept)
  <1>1. PICK L, key, order :
          /\ L = Len(kept) /\ key = [n \in DOMAIN kept |-> Departure(kept[n])]
          /\ order = SortByKey(key)
    OBVIOUS
  <1>2. /\ JourneysTypeOK /\ KeptLatest /\ L \in Nat /\ DOMAIN kept = 1 .. L
        /\ \A i \in 1 .. L : kept[i] \in 1 .. Len(events)
        /\ \A a \in 1 .. Len(events) : Departure(a) \in Nat
    BY <1>1, RowsTyped, LenProperties DEF JourneysInv, JourneysTypeOK
  <1>3. /\ DOMAIN key = 1 .. L
        /\ \A n \in 1 .. L : key[n] = Departure(kept[n]) /\ key[n] \in Nat
    BY <1>1, <1>2
  <1>4. Arranges(order, key) /\ Cardinality(DOMAIN key) = L
    BY <1>1, <1>2, <1>3, SortedList
  <1>5. /\ order \in [1 .. L -> 1 .. L]
        /\ \A n \in 1 .. L : \E i \in 1 .. L : order[i] = n
        /\ \A i, j \in 1 .. L : i < j => order[i] # order[j] /\ key[order[i]] <= key[order[j]]
    BY <1>3, <1>4 DEF Arranges
  <1>6. kept' = [i \in 1 .. L |-> kept[order[i]]] /\ events' = events
    BY <1>1, <1>5 DEF Sort, ByDeparture
  <1>7. \A i \in 1 .. L : /\ order[i] \in 1 .. L /\ kept'[i] = kept[order[i]]
                         /\ kept'[i] \in 1 .. Len(events)
    BY <1>2, <1>5, <1>6
  <1>8. kept' \in [1 .. L -> 1 .. Len(events)]
    BY <1>6, <1>7
  <1>9. kept' \in Seq(1 .. Len(events)) /\ Len(kept') = L
    BY <1>2, <1>8
  <1>10. \A a : (Latest(a)' <=> Latest(a)) /\ Departure(a)' = Departure(a)
    BY <1>6 DEF Latest, SameJourney, Departure
  <1>11. InOrder'
    <2> SUFFICES ASSUME NEW i \in 1 .. L, NEW j \in 1 .. L, i < j
                 PROVE  (Departure(kept[i]) <= Departure(kept[j]))'
      BY <1>9 DEF InOrder
    <2>1. PICK a, b : a = kept'[i] /\ b = kept'[j]
      OBVIOUS
    <2>2. Departure(a) <= Departure(b)
      <3>1. PICK n \in 1 .. L, m \in 1 .. L : n = order[i] /\ m = order[j] /\ key[n] <= key[m]
        BY <1>5, <1>7
      <3>2. a = kept[n] /\ b = kept[m]
        BY <1>7, <2>1, <3>1
      <3> QED
        BY <1>3, <3>1, <3>2
    <2> QED
      BY <1>10, <2>1, <2>2
  <1>12. (\A i \in 1 .. Len(kept) : Latest(kept[i]))'
    <2> SUFFICES ASSUME NEW i \in 1 .. L
                 PROVE  Latest(kept[i])'
      BY <1>9
    <2>1. PICK a : a = kept'[i] /\ Latest(a)
      BY <1>1, <1>2, <1>7 DEF KeptLatest
    <2> QED
      BY <1>10, <2>1
  <1>13. (\A a \in 1 .. Len(events) : Latest(a) => \E i \in 1 .. Len(kept) : kept[i] = a)'
    <2> SUFFICES ASSUME NEW a \in 1 .. Len(events), Latest(a)'
                 PROVE  \E i \in 1 .. L : kept'[i] = a
      BY <1>6, <1>9
    <2>1. PICK k \in 1 .. L : kept[k] = a
      BY <1>1, <1>2, <1>10 DEF KeptLatest
    <2>2. PICK i \in 1 .. L : order[i] = k
      BY <1>5
    <2> QED
      BY <1>7, <2>1, <2>2
  <1>14. (\A i, j \in 1 .. Len(kept) : kept[i] = kept[j] => i = j)'
    <2> SUFFICES ASSUME NEW i \in 1 .. L, NEW j \in 1 .. L, kept'[i] = kept'[j]
                 PROVE  i = j
      BY <1>9
    <2>1. order[i] = order[j]
      <3>1. PICK n \in 1 .. L, m \in 1 .. L : n = order[i] /\ m = order[j]
        BY <1>7
      <3>2. kept[n] = kept[m]
        BY <1>7, <3>1
      <3> QED
        BY <1>1, <1>2, <3>1, <3>2 DEF KeptLatest
    <2> QED
      BY <1>2, <1>5, <2>1
  <1> QED
    BY <1>1, <1>9, <1>11, <1>12, <1>13, <1>14 DEF KeptLatest

\* Nothing has been read.
LEMMA JourneysStarts == JourneysInit => JourneysInv
  <1> SUFFICES ASSUME JourneysInit
               PROVE  JourneysInv
    OBVIOUS
  <1>1. events = <<>> /\ kept = <<>> /\ Len(events) = 0 /\ Len(kept) = 0 /\ ~sorted /\ answer = <<>>
    <2>1. Len(<<>>) = 0
      OBVIOUS
    <2>2. events = <<>> /\ kept = <<>> /\ sorted = FALSE /\ answer = <<>>
      BY DEF JourneysInit
    <2>3. ~sorted
      BY <2>2, Zenon
    <2>4. Len(events) = 0
      BY <2>1, <2>2
    <2>5. Len(kept) = 0
      BY <2>1, <2>2
    <2> QED
      BY <2>2, <2>3, <2>4, <2>5
  <1>2. JourneysTypeOK
    <2>1. events \in Seq(Events) /\ kept \in Seq(1 .. Len(events))
      BY <1>1, EmptySeq
    <2>2. seen \in [JourneyRefs -> 0 .. Len(kept)]
      BY <1>1 DEF JourneysInit
    <2>3. sorted \in BOOLEAN
      BY DEF JourneysInit
    <2>4. Len(events) <= MAX_EVENTS
      BY <1>1, JourneysAssumption
    <2> QED
      BY <1>1, <2>1, <2>2, <2>3, <2>4 DEF JourneysTypeOK
  <1>3. KeptLatest /\ PlacesKnown
    BY <1>1 DEF JourneysInit, KeptLatest, PlacesKnown
  <1> QED
    BY <1>1, <1>2, <1>3 DEF JourneysInv

\* The first match of a favourite on a sorted board (`find`, core/src/favourites.rs:31) is the
\* next departure of its line.
LEMMA FirstMatchNext ==
    ASSUME JourneysInv, sorted, NEW line, Matches(line) # {}
    PROVE  /\ FirstMatch(line) \in Rows /\ events[FirstMatch(line)].line = line
           /\ \A row \in Rows : events[row].line = line => Departure(FirstMatch(line)) <= Departure(row)
  <1>1. /\ Len(kept) \in Nat /\ InOrder
        /\ \A i \in 1 .. Len(kept) : Departure(kept[i]) \in Nat
    BY RowsTyped DEF JourneysInv
  <1>2. Matches(line) \subseteq 1 .. Len(kept)
    BY DEF Matches
  <1>3. PICK i \in Matches(line) : \A j \in Matches(line) : i <= j
    BY <1>1, <1>2, FirstPlace
  <1>4. PICK k \in Matches(line) : k = (CHOOSE n \in Matches(line) : \A j \in Matches(line) : n <= j)
                                   /\ \A j \in Matches(line) : k <= j
    BY <1>3
  <1>5. FirstMatch(line) = kept[k] /\ k \in 1 .. Len(kept) /\ events[kept[k]].line = line
    BY <1>4 DEF FirstMatch, Matches
  <1>6. ASSUME NEW row \in Rows, events[row].line = line
        PROVE  Departure(kept[k]) <= Departure(row)
    <2>1. PICK j \in 1 .. Len(kept) : kept[j] = row
      BY DEF Rows
    <2>2. k < j \/ k = j
      <3>1. j \in Matches(line)
        BY <1>6, <2>1 DEF Matches
      <3>2. k <= j
        BY <1>4, <3>1
      <3>3. k \in 1 .. Len(kept) /\ j \in 1 .. Len(kept)
        BY <1>2
      <3> QED
        BY <3>2, <3>3
    <2> QED
      BY <1>1, <1>5, <2>1, <2>2 DEF InOrder
  <1> QED
    BY <1>5, <1>6 DEF Rows

\* `partition_favourites` (core/src/favourites.rs:22-40) tells each favourite that leaves at all
\* by its next departure, once per time it is named, in the order in which they leave.
LEMMA FavouritesTold ==
    ASSUME JourneysInv, sorted, NEW pairs \in Seq(Lines)
    PROVE  /\ ToldRight(pairs, Favourites(pairs))
           /\ Favourites(pairs) \in Seq(1 .. Len(events))
  <1>1. PICK P, Q, list, key, order :
          /\ P = Len(pairs) /\ Q = {m \in 1 .. P : Matches(pairs[m]) # {}}
          /\ list = [n \in Q |-> FirstMatch(pairs[n])]
          /\ key = [n \in DOMAIN list |-> Departure(list[n])]
          /\ order = SortByKey(key)
    OBVIOUS
  <1>2. P \in Nat /\ Q \subseteq 1 .. P /\ Q \subseteq Nat /\ IsFiniteSet(Q)
    <2>1. P \in Nat
      BY <1>1, LenProperties
    <2>2. Q \subseteq 1 .. P
      BY <1>1
    <2> QED
      BY <2>1, <2>2, Places
  <1>3. \A n \in Q : /\ list[n] \in Rows /\ events[list[n]].line = pairs[n]
                     /\ \A row \in Rows : events[row].line = pairs[n] =>
                          Departure(list[n]) <= Departure(row)
    BY <1>1, FirstMatchNext
  <1>4. \A row \in Rows : row \in 1 .. Len(events) /\ Departure(row) \in Nat
    BY RowsTyped DEF JourneysInv, Rows
  <1>5. DOMAIN key = Q /\ \A n \in Q : key[n] = Departure(list[n]) /\ key[n] \in Nat
    BY <1>1, <1>3, <1>4
  <1>6. Arranges(order, key)
    BY <1>1, <1>2, <1>5, Sorted
  <1>7. PICK N : N = Cardinality(Q)
    OBVIOUS
  <1>8. /\ N \in Nat /\ order \in [1 .. N -> Q]
        /\ \A n \in Q : \E i \in 1 .. N : order[i] = n
        /\ \A i, j \in 1 .. N : i < j => order[i] # order[j] /\ key[order[i]] <= key[order[j]]
    BY <1>5, <1>6, <1>7 DEF Arranges
  <1>9. PICK favourites : favourites = Favourites(pairs)
    OBVIOUS
  <1>10. favourites = [i \in 1 .. N |-> list[order[i]]]
    BY <1>1, <1>8, <1>9 DEF Favourites, ByDeparture
  <1>11. \A i \in 1 .. N : /\ order[i] \in Q /\ favourites[i] = list[order[i]]
                           /\ favourites[i] \in Rows /\ favourites[i] \in 1 .. Len(events)
    <2>1. \A i \in 1 .. N : order[i] \in Q /\ favourites[i] = list[order[i]]
      BY <1>8, <1>10
    <2> QED
      BY <1>3, <1>4, <2>1
  <1>12. favourites \in [1 .. N -> 1 .. Len(events)]
    BY <1>10, <1>11
  <1>13. favourites \in Seq(1 .. Len(events)) /\ Len(favourites) = N
    BY <1>8, <1>12
  <1>14. ASSUME NEW i \in 1 .. N, NEW j \in 1 .. N, i < j
         PROVE  Departure(favourites[i]) <= Departure(favourites[j])
    <2>1. PICK n \in Q, m \in Q : n = order[i] /\ m = order[j] /\ key[n] <= key[m]
      BY <1>8, <1>11, <1>14
    <2> QED
      BY <1>5, <1>11, <2>1
  <1>15. ASSUME NEW line \in Lines
         PROVE  LET Of    == {row \in Rows : events[row].line = line}
                    Told  == {i \in 1 .. N : events[favourites[i]].line = line}
                    Named == {i \in 1 .. P : pairs[i] = line}
                IN  /\ Cardinality(Told) = IF Of = {} THEN 0 ELSE Cardinality(Named)
                    /\ \A i \in Told : \A row \in Of : Departure(favourites[i]) <= Departure(row)
    <2>1. PICK Of, Told, Named :
            /\ Of = {row \in Rows : events[row].line = line}
            /\ Told = {i \in 1 .. N : events[favourites[i]].line = line}
            /\ Named = {i \in 1 .. P : pairs[i] = line}
      OBVIOUS
    <2>2. Told = {i \in 1 .. N : pairs[order[i]] = line}
      BY <1>3, <1>11, <2>1
    <2>3. \A i \in Told : \A row \in Of : Departure(favourites[i]) <= Departure(row)
      BY <1>3, <1>11, <2>1, <2>2
    <2>4. Of = {} <=> Matches(line) = {}
      BY <2>1 DEF Matches, Rows
    <2>5. CASE Of = {}
      <3>1. \A n \in Q : pairs[n] # line
        BY <1>1, <2>4, <2>5
      <3>2. Told = {}
        BY <1>11, <2>2, <3>1
      <3> QED
        BY <2>1, <2>3, <2>5, <3>2, FS_EmptySet
    <2>6. CASE Of # {}
      <3>1. Named \subseteq Q /\ \A n \in Q : n \in Named <=> pairs[n] = line
        BY <1>1, <2>1, <2>4, <2>6
      <3>2. PICK f : f = [i \in Told |-> order[i]]
        OBVIOUS
      <3>3. \A i \in Told : i \in 1 .. N /\ f[i] = order[i] /\ order[i] \in Named
        BY <1>11, <2>2, <3>1, <3>2
      <3>4. f \in [Told -> Named]
        BY <3>2, <3>3
      <3>5. \A i, j \in Told : f[i] = f[j] => i = j
        BY <1>8, <3>3
      <3>6. \A n \in Named : \E i \in Told : f[i] = n
        <4> SUFFICES ASSUME NEW n \in Named
                     PROVE  \E i \in Told : f[i] = n
          OBVIOUS
        <4>1. PICK i \in 1 .. N : order[i] = n
          BY <1>8, <3>1
        <4>2. i \in Told
          BY <2>2, <3>1, <4>1
        <4> QED
          BY <3>3, <4>1, <4>2
      <3>7. DOMAIN f = Told
        BY <3>2
      <3>8. f \in Bijection(Told, Named)
        BY <3>4, <3>5, <3>6, <3>7 DEF Bijection, Injection, Surjection, IsInjective
      <3>9. IsFiniteSet(Told)
        <4>1. Told \subseteq 1 .. N
          BY <2>1
        <4> QED
          BY <1>8, <4>1, Places
      <3>10. Cardinality(Told) = Cardinality(Named)
        BY <3>8, <3>9, FS_Bijection DEF ExistsBijection
      <3> QED
        BY <2>1, <2>3, <2>6, <3>10
    <2> QED
      BY <2>5, <2>6
  <1> QED
    BY <1>1, <1>9, <1>13, <1>14, <1>15 DEF ToldRight

\* Each step of `keep_latest_per_journey` and of `handle_departures` keeps the invariant.
LEMMA JourneysGoesOn == JourneysInv /\ [JourneysNext]_board => JourneysInv'
  <1> SUFFICES ASSUME JourneysInv, [JourneysNext]_board
               PROVE  JourneysInv'
    OBVIOUS
  <1>0. JourneysTypeOK /\ KeptLatest /\ (~sorted => PlacesKnown) /\ Len(events) \in Nat /\ Len(kept) \in Nat
    BY RowsTyped DEF JourneysInv
  <1>1. ASSUME NEW e \in Events, Anonymous(e)
        PROVE  JourneysInv'
    <2>1. Another(e) /\ Push /\ e.journey = NoJourney /\ seen' = seen
      BY <1>1 DEF Anonymous
    <2>2. PICK n : n = Len(events) + 1
      OBVIOUS
    <2>3. /\ Len(events') = n /\ events' \in Seq(Events) /\ n <= MAX_EVENTS /\ events'[n] = e
          /\ 1 .. n = (1 .. Len(events)) \cup {n}
          /\ \A a \in 1 .. Len(events) : events'[a] = events[a]
          /\ ~sorted /\ sorted' = sorted /\ answer' = answer /\ answer = <<>>
      BY <2>1, <2>2, AnotherEvent
    <2>4. /\ KeptLatest' /\ kept' \in Seq(1 .. Len(events')) /\ Len(kept') = Len(kept) + 1
          /\ \A i \in 1 .. Len(kept) : kept'[i] = kept[i]
      BY <2>1, PushKeeps
    <2>5. JourneysTypeOK'
      <3>1. 0 .. Len(kept) \subseteq 0 .. Len(kept')
        BY <1>0, <2>4
      <3> QED
        BY <1>0, <2>1, <2>3, <2>4, <3>1 DEF JourneysTypeOK
    <2>6. PlacesKnown'
      <3> SUFFICES ASSUME NEW k \in JourneyRefs
                   PROVE  (IF seen[k] = 0 THEN \A a \in 1 .. Len(events) : events[a].journey # k
                           ELSE seen[k] \in 1 .. Len(kept) /\ events[kept[seen[k]]].journey = k)'
        BY DEF PlacesKnown
      <3>1. CASE seen[k] = 0
        BY <1>0, <2>1, <2>3, <3>1, JourneysAssumption DEF PlacesKnown
      <3>2. CASE seen[k] # 0
        <4>1. PICK i \in 1 .. Len(kept) : i = seen[k] /\ events[kept[i]].journey = k
                                          /\ kept[i] \in 1 .. Len(events)
          BY <1>0, <2>3, <3>2, RowsTyped DEF PlacesKnown
        <4>2. kept'[i] = kept[i] /\ events'[kept[i]].journey = k /\ seen'[k] = i
              /\ i \in 1 .. Len(kept')
          BY <1>0, <2>1, <2>3, <2>4, <4>1
        <4> QED
          BY <3>2, <4>1, <4>2
      <3> QED
        BY <3>1, <3>2
    <2> QED
      BY <2>3, <2>4, <2>5, <2>6 DEF JourneysInv
  <1>2. ASSUME NEW e \in Events, First(e)
        PROVE  JourneysInv'
    <2>1. /\ Another(e) /\ Push /\ e.journey # NoJourney /\ e.journey \in JourneyRefs
          /\ seen[e.journey] = 0 /\ seen' = [seen EXCEPT ![e.journey] = Len(kept) + 1]
      BY <1>2 DEF First, Events
    <2>2. PICK n : n = Len(events) + 1
      OBVIOUS
    <2>3. /\ Len(events') = n /\ events' \in Seq(Events) /\ n <= MAX_EVENTS /\ events'[n] = e
          /\ 1 .. n = (1 .. Len(events)) \cup {n}
          /\ \A a \in 1 .. Len(events) : events'[a] = events[a]
          /\ ~sorted /\ sorted' = sorted /\ answer' = answer /\ answer = <<>>
      BY <2>1, <2>2, AnotherEvent
    <2>7. \A a \in 1 .. Len(events) : events[a].journey # e.journey
      BY <1>0, <2>1, <2>3 DEF PlacesKnown
    <2>4. /\ KeptLatest' /\ kept' \in Seq(1 .. Len(events')) /\ Len(kept') = Len(kept) + 1
          /\ \A i \in 1 .. Len(kept) : kept'[i] = kept[i]
          /\ kept'[Len(kept) + 1] = n
      BY <2>1, <2>2, <2>7, PushKeeps
    <2>5. JourneysTypeOK'
      <3>1. 0 .. Len(kept) \subseteq 0 .. Len(kept') /\ Len(kept) + 1 \in 0 .. Len(kept')
        BY <1>0, <2>4
      <3>2. seen' \in [JourneyRefs -> 0 .. Len(kept')]
        BY <1>0, <2>1, <3>1 DEF JourneysTypeOK
      <3> QED
        BY <1>0, <2>1, <2>3, <2>4, <3>2 DEF JourneysTypeOK
    <2>6. PlacesKnown'
      <3> SUFFICES ASSUME NEW k \in JourneyRefs
                   PROVE  (IF seen[k] = 0 THEN \A a \in 1 .. Len(events) : events[a].journey # k
                           ELSE seen[k] \in 1 .. Len(kept) /\ events[kept[seen[k]]].journey = k)'
        BY DEF PlacesKnown
      <3>0. seen'[e.journey] = Len(kept) + 1 /\ \A j \in JourneyRefs \ {e.journey} : seen'[j] = seen[j]
        BY <1>0, <2>1 DEF JourneysTypeOK
      <3>1. CASE k = e.journey
        <4>1. Len(kept) + 1 \in 1 .. Len(kept') /\ Len(kept) + 1 # 0
          BY <1>0, <2>4
        <4> QED
          BY <2>3, <2>4, <3>0, <3>1, <4>1
      <3>2. CASE k # e.journey /\ seen[k] = 0
        BY <1>0, <2>3, <3>0, <3>2 DEF PlacesKnown
      <3>3. CASE k # e.journey /\ seen[k] # 0
        <4>1. PICK i \in 1 .. Len(kept) : i = seen[k] /\ events[kept[i]].journey = k
                                          /\ kept[i] \in 1 .. Len(events)
          BY <1>0, <2>3, <3>3, RowsTyped DEF PlacesKnown
        <4>2. kept'[i] = kept[i] /\ events'[kept[i]].journey = k /\ seen'[k] = i
              /\ i \in 1 .. Len(kept')
          BY <1>0, <2>3, <2>4, <3>0, <3>3, <4>1
        <4> QED
          BY <3>3, <4>1, <4>2
      <3> QED
        BY <3>1, <3>2, <3>3
    <2> QED
      BY <2>3, <2>4, <2>5, <2>6 DEF JourneysInv
  <1>3. ASSUME NEW e \in Events, Twin(e)
        PROVE  JourneysInv'
    <2>1. KeptLatest' /\ PlacesKnown' /\ kept' \in Seq(1 .. Len(events')) /\ Len(kept') = Len(kept)
      BY <1>3, TwinKeeps
    <2>2. PICK n : n = Len(events) + 1
      OBVIOUS
    <2>3. /\ Len(events') = n /\ events' \in Seq(Events) /\ n <= MAX_EVENTS
          /\ ~sorted /\ sorted' = sorted /\ answer' = answer /\ answer = <<>> /\ seen' = seen
      BY <1>3, <2>2, AnotherEvent DEF Twin
    <2>4. JourneysTypeOK'
      BY <1>0, <2>1, <2>3 DEF JourneysTypeOK
    <2> QED
      BY <2>1, <2>3, <2>4 DEF JourneysInv
  <1>4. CASE Sort
    <2>1. KeptLatest' /\ InOrder' /\ kept' \in Seq(1 .. Len(events)) /\ Len(kept') = Len(kept)
      BY <1>4, SortKeeps
    <2>2. /\ sorted' = TRUE /\ events' = events /\ seen' = seen /\ answer' = answer /\ answer = <<>>
      BY <1>4 DEF Sort, JourneysInv
    <2>3. JourneysTypeOK'
      BY <1>0, <2>1, <2>2 DEF JourneysTypeOK
    <2> QED
      BY <2>1, <2>2, <2>3 DEF JourneysInv
  <1>5. ASSUME NEW pairs \in Pairs, HandleDepartures(pairs)
        PROVE  JourneysInv'
    <2>1. /\ sorted /\ events' = events /\ kept' = kept /\ seen' = seen /\ sorted' = sorted
          /\ answer' = [pairs |-> pairs, favourites |-> Favourites(pairs), departures |-> Limited(kept)]
      BY <1>5 DEF HandleDepartures
    <2>2. pairs \in Seq(Lines)
      <3>1. PICK n \in 0 .. MAX_PAIRS : pairs \in [1 .. n -> Lines]
        BY DEF Pairs
      <3>2. n \in Nat
        BY JourneysAssumption
      <3> QED
        BY <3>1, <3>2
    <2>3. /\ ToldRight(pairs, Favourites(pairs))
          /\ Favourites(pairs) \in Seq(1 .. Len(events))
      BY <2>1, <2>2, FavouritesTold
    <2>4. Limited(kept) \in Seq(1 .. Len(events))
      <3>1. PICK m \in Int : m = (IF Len(kept) < LIMIT THEN Len(kept) ELSE LIMIT) /\ m <= Len(kept)
        BY <1>0, JourneysAssumption
      <3>2. \A i \in 1 .. m : kept[i] \in 1 .. Len(events)
        BY <1>0, <3>1, RowsTyped
      <3> QED
        BY <3>1, <3>2, SubSeqProperties DEF Limited
    <2>5. JourneysTypeOK'
      BY <1>0, <2>1, <2>2, <2>3, <2>4 DEF JourneysTypeOK
    <2>6. KeptLatest' /\ InOrder'
      BY <1>0, <2>1 DEF JourneysInv, KeptLatest, Latest, SameJourney, Departure, InOrder
    <2>7. ToldRight(answer.pairs, answer.favourites)'
      <3>1. PICK fs : fs = Favourites(pairs) /\ ToldRight(pairs, fs)
        BY <2>3
      <3>2. ToldRight(pairs, fs)'
        BY <2>1, <3>1 DEF ToldRight, Rows, Departure
      <3>3. answer'.pairs = pairs /\ answer'.favourites = fs
        BY <2>1, <3>1
      <3> QED
        BY <3>2, <3>3
    <2> QED
      BY <2>1, <2>5, <2>6, <2>7 DEF JourneysInv
  <1>6. CASE UNCHANGED board
    <2>1. KeptLatest' /\ InOrder' = InOrder /\ PlacesKnown' = PlacesKnown /\ JourneysTypeOK'
      BY <1>0, <1>6 DEF board, KeptLatest, Latest, SameJourney, Departure, InOrder, PlacesKnown,
                        JourneysTypeOK
    <2>2. ToldRight(answer.pairs, answer.favourites)' <=> ToldRight(answer.pairs, answer.favourites)
      BY <1>6 DEF board, ToldRight, Rows, Departure
    <2> QED
      BY <1>6, <2>1, <2>2 DEF board, JourneysInv
  <1> QED
    BY <1>1, <1>2, <1>3, <1>4, <1>5, <1>6 DEF JourneysNext

\* The invariant holds throughout.
LEMMA JourneysHolds == JourneysSpec => []JourneysInv
  BY JourneysStarts, JourneysGoesOn, PTL DEF JourneysSpec

\* However often and in whatever order an answer repeats journeys, a row is on the board exactly
\* if it is the latest of its journey; it is there once, and in the end the rows are in the order
\* of departure (`keep_latest_per_journey`, core/src/ojp.rs:243-267).
THEOREM BoardIsRight == JourneysSpec => []BoardRight
  <1>1. JourneysInv => BoardRight
    <2> SUFFICES ASSUME JourneysInv
                 PROVE  BoardRight
      OBVIOUS
    <2>1. /\ KeptLatest /\ (sorted => InOrder) /\ Len(kept) \in Nat
          /\ \A i \in 1 .. Len(kept) : kept[i] \in 1 .. Len(events)
      BY RowsTyped DEF JourneysInv
    <2>2. Rows = {a \in 1 .. Len(events) : Latest(a)}
      BY <2>1 DEF Rows, KeptLatest
    <2>3. Cardinality(Rows) = Len(kept)
      BY <2>1, CountedOnce DEF Rows, KeptLatest
    <2> QED
      BY <2>1, <2>2, <2>3 DEF BoardRight, Latest, InOrder
  <1> QED
    BY <1>1, JourneysHolds, PTL

\* Each favourite that leaves at all is told by its next departure, once per time it is named, in
\* the order in which they leave (`partition_favourites`, core/src/favourites.rs:22-40), however
\* few rows are shown.
THEOREM FavouritesAreNext == JourneysSpec => []NextOfEach
  <1>1. JourneysInv => NextOfEach
    BY DEF JourneysInv, ToldRight, NextOfEach
  <1> QED
    BY <1>1, JourneysHolds, PTL

====
