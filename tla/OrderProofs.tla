--------------------------- MODULE OrderProofs ---------------------------
(***************************************************************************)
(* The two orders nodes are tried and offered in: the fallback walk, for   *)
(* every set of nodes, every preference and every length of a profile, is  *)
(* the walk Session uses, in the order promised; a node check, for every   *)
(* profile and any number of ports, attempts and requests, measures what   *)
(* it reports and ranks it as it says.                                     *)
(***************************************************************************)
EXTENDS Fallback, NodeCheck, TLAPS, FiniteSetTheorems, SequenceTheorems

\* R orders the members of S strictly and totally.
StrictOrder(R, S) ==
  /\ \A a \in S : <<a, a>> \notin R
  /\ \A a, b, c \in S : <<a, b>> \in R /\ <<b, c>> \in R => <<a, c>> \in R
  /\ \A a, b \in S : a # b => <<a, b>> \in R \/ <<b, a>> \in R

\* p lists the members of S, each once.
Lists(p, S) ==
  /\ p \in [1..Cardinality(S) -> S] /\ Cardinality(S) \in Nat
  /\ \A i, j \in 1..Cardinality(S) : p[i] = p[j] => i = j
  /\ \A a \in S : \E i \in 1..Cardinality(S) : p[i] = a

-----------------------------------------------------------------------------
\* A finite set has a listing in any strict order, and sorted() is one: the
\* place of a member is the number of those before it.
LEMMA SortedLists ==
  ASSUME NEW S, IsFiniteSet(S), NEW R, StrictOrder(R, S)
  PROVE  /\ Lists(sorted(S, R), S)
         /\ \A i, j \in 1..Cardinality(S) : i < j => <<sorted(S, R)[i], sorted(S, R)[j]>> \in R
<1> DEFINE n == Cardinality(S)
           earlier(a) == {b \in S : <<b, a>> \in R}
           place == [a \in S |-> Cardinality(earlier(a)) + 1]
           Sorts(p) == \A i, j \in 1..n : i < j => <<p[i], p[j]>> \in R
<1>1. n \in Nat
  BY FS_CardinalityType
<1>2. \A a \in S : /\ IsFiniteSet(earlier(a)) /\ Cardinality(earlier(a)) \in Nat
                   /\ Cardinality(earlier(a)) + 1 \in 1..n
  <2> SUFFICES ASSUME NEW a \in S
               PROVE  /\ IsFiniteSet(earlier(a)) /\ Cardinality(earlier(a)) \in Nat
                      /\ Cardinality(earlier(a)) + 1 \in 1..n
    OBVIOUS
  <2>1. earlier(a) \in SUBSET S /\ earlier(a) # S
    BY DEF StrictOrder
  <2> HIDE DEF earlier
  <2>2. /\ IsFiniteSet(earlier(a)) /\ Cardinality(earlier(a)) <= n
        /\ Cardinality(earlier(a)) # n
    BY <2>1, FS_Subset
  <2>3. Cardinality(earlier(a)) \in Nat
    BY <2>2, FS_CardinalityType
  <2> QED BY <1>1, <2>2, <2>3
<1>3. \A a, b \in S : <<a, b>> \in R => place[a] < place[b]
  <2> SUFFICES ASSUME NEW a \in S, NEW b \in S, <<a, b>> \in R
               PROVE  Cardinality(earlier(a)) + 1 < Cardinality(earlier(b)) + 1
    OBVIOUS
  <2>1. earlier(a) \in SUBSET earlier(b) /\ earlier(a) # earlier(b)
    BY DEF StrictOrder
  <2>2. /\ IsFiniteSet(earlier(b)) /\ Cardinality(earlier(a)) \in Nat
        /\ Cardinality(earlier(b)) \in Nat
    BY <1>2
  <2> HIDE DEF earlier
  <2>3. Cardinality(earlier(a)) <= Cardinality(earlier(b)) /\ Cardinality(earlier(a)) # Cardinality(earlier(b))
    BY <2>1, <2>2, FS_Subset
  <2> QED BY <2>2, <2>3
<1>4. place \in [S -> 1..n]
  BY <1>2
<1> HIDE DEF place
<1>5. \A a, b \in S : place[a] = place[b] => a = b
  <2> SUFFICES ASSUME NEW a \in S, NEW b \in S, a # b PROVE place[a] # place[b]
    OBVIOUS
  <2>1. place[a] \in 1..n /\ place[b] \in 1..n
    BY <1>4
  <2>2. place[a] < place[b] \/ place[b] < place[a]
    BY <1>3 DEF StrictOrder
  <2> QED BY <1>1, <2>1, <2>2
<1>6. IsFiniteSet(1..n) /\ Cardinality(1..n) = n
  BY <1>1, FS_Interval
<1>7. \A i \in 1..n : \E a \in S : place[a] = i
  <2>1. place \in Injection(S, 1..n)
    BY <1>4, <1>5 DEF Injection, IsInjective
  <2>2. place \in Surjection(S, 1..n)
    BY <1>6, <2>1, FS_Injection
  <2> QED BY <2>2 DEF Surjection
<1> DEFINE q == [i \in 1..n |-> CHOOSE a \in S : place[a] = i]
<1>8. q \in [1..n -> S] /\ \A i \in 1..n : place[q[i]] = i
  BY <1>7
<1> HIDE DEF q
<1>9. Sorts(q)
  <2> SUFFICES ASSUME NEW i \in 1..n, NEW j \in 1..n, i < j PROVE <<q[i], q[j]>> \in R
    OBVIOUS
  <2>1. q[i] \in S /\ q[j] \in S /\ place[q[i]] = i /\ place[q[j]] = j
    BY <1>8
  <2>2. q[i] # q[j] /\ ~(<<q[j], q[i]>> \in R)
    BY <1>3, <2>1
  <2> QED BY <2>1, <2>2 DEF StrictOrder
<1> DEFINE s == sorted(S, R)
<1>10. s \in [1..n -> S] /\ Sorts(s)
  <2>1. s = CHOOSE p \in [1..n -> S] : \A i, j \in DOMAIN p : i < j => <<p[i], p[j]>> \in R
    BY DEF sorted
  <2>2. \A i, j \in DOMAIN q : i < j => <<q[i], q[j]>> \in R
    BY <1>8, <1>9
  <2>3. s \in [1..n -> S] /\ \A i, j \in DOMAIN s : i < j => <<s[i], s[j]>> \in R
    <3> HIDE DEF s
    <3> QED BY <1>8, <2>1, <2>2
  <2> QED BY <2>3
<1> HIDE DEF s
<1>11. \A i, j \in 1..n : s[i] = s[j] => i = j
  <2> SUFFICES ASSUME NEW i \in 1..n, NEW j \in 1..n, s[i] = s[j], i < j PROVE FALSE
    BY <1>1
  <2> QED BY <1>10 DEF StrictOrder
<1>12. \A a \in S : \E i \in 1..n : s[i] = a
  <2>1. s \in Injection(1..n, S)
    BY <1>10, <1>11 DEF Injection, IsInjective
  <2>2. s \in Surjection(1..n, S)
    BY <1>6, <2>1, FS_Injection
  <2> QED BY <2>2 DEF Surjection
<1> QED BY <1>1, <1>10, <1>11, <1>12 DEF s, Lists

-----------------------------------------------------------------------------
\* Positions in the order of the input, and what dropCandidate() keeps.
LEMMA InputIsOrdered ==
  ASSUME NEW cand \in Profiles, NEW S \in SUBSET DOMAIN cand
  PROVE  IsFiniteSet(S) /\ StrictOrder(byInput(cand), S)
<1>1. PICK k \in 1..MaxServers : cand \in [1..k -> NodeIDs]
  BY DEF Profiles
<1>2. DOMAIN cand = 1..k /\ k \in Nat
  BY <1>1, FallbackAssumption
<1>3. IsFiniteSet(S)
  BY <1>2, FS_Interval, FS_Subset
<1>4. \A a, b \in S : <<a, b>> \in byInput(cand) <=> a < b
  BY DEF byInput, pairs
<1>5. \A a \in S : a \in Int
  BY <1>2
<1> QED BY <1>3, <1>4, <1>5 DEF StrictOrder

\* What is left of a profile is a profile, unless nothing is, and the node a
\* failover leaves is not in it.
LEMMA DropLeavesProfile ==
  ASSUME NEW cand \in Profiles, NEW n, dropCandidate(cand, n) # <<>>
  PROVE  /\ dropCandidate(cand, n) \in Profiles
         /\ n \notin Range(dropCandidate(cand, n))
<1> DEFINE K == {i \in DOMAIN cand : cand[i] # n}
           kept == sorted(K, byInput(cand))
           d == [i \in DOMAIN kept |-> cand[kept[i]]]
<1>1. PICK k \in 1..MaxServers : cand \in [1..k -> NodeIDs]
  BY DEF Profiles
<1>2. dropCandidate(cand, n) = d
  BY DEF dropCandidate
<1>3. Lists(kept, K)
  BY InputIsOrdered, SortedLists
<1>4. Cardinality(K) <= k /\ k \in Nat
  <2>1. k \in Nat /\ IsFiniteSet(1..k) /\ Cardinality(1..k) = k
    BY FallbackAssumption, FS_Interval
  <2>2. K \in SUBSET (1..k)
    BY <1>1
  <2> QED BY <2>1, <2>2, FS_Subset
<1>5. \A i \in K : cand[i] \in NodeIDs /\ cand[i] # n
  BY <1>1
<1> HIDE DEF K, kept
<1>6. d \in [1..Cardinality(K) -> NodeIDs] /\ \A i \in 1..Cardinality(K) : d[i] # n
  BY <1>3, <1>5 DEF Lists
<1>7. Cardinality(K) # 0
  <2>1. d = <<>> <=> DOMAIN d = {}
    OBVIOUS
  <2> QED BY <1>2, <1>6, <2>1
<1>8. Cardinality(K) \in 1..MaxServers
  BY <1>3, <1>4, <1>7, FallbackAssumption DEF Lists
<1> HIDE DEF d
<1> QED BY <1>2, <1>6, <1>8 DEF Profiles, Range

\* lastIdx() is where the last good node stands first, 0 when it does not.
LEMMA LastIdxFinds ==
  ASSUME NEW cand \in Profiles, NEW good
  PROVE  IF good \in Range(cand)
         THEN lastIdx(cand, good) \in DOMAIN cand /\ cand[lastIdx(cand, good)] = good
         ELSE lastIdx(cand, good) = 0
<1>1. CASE good \notin Range(cand)
  BY <1>1 DEF lastIdx
<1>2. CASE good \in Range(cand)
  <2> DEFINE F == {i \in DOMAIN cand : cand[i] = good}
             n == Cardinality(F)
             p == sorted(F, byInput(cand))
  <2>1. Lists(p, F) /\ \A i, j \in 1..n : i < j => <<p[i], p[j]>> \in byInput(cand)
    BY InputIsOrdered, SortedLists
  <2>2. F # {}
    BY <1>2 DEF Range
  <2>3. \A i \in F : i \in Int
    BY FallbackAssumption DEF Profiles
  <2>4. \E i \in F : \A j \in F : i <= j
    <3> HIDE DEF F, p
    <3>1. n \in Nat /\ 1 \in 1..n
      BY <2>1, <2>2 DEF Lists
    <3>2. p[1] \in F
      BY <2>1, <3>1 DEF Lists
    <3>3. ASSUME NEW j \in F PROVE p[1] <= j
      <4>1. PICK i \in 1..n : p[i] = j
        BY <2>1 DEF Lists
      <4>2. CASE i = 1
        BY <2>3, <4>1, <4>2
      <4>3. CASE i # 1
        <5>1. <<p[1], p[i]>> \in byInput(cand)
          BY <2>1, <3>1, <4>3
        <5>2. p[1] < p[i]
          BY <5>1 DEF byInput
        <5> QED BY <2>3, <3>2, <4>1, <5>2
      <4> QED BY <4>2, <4>3
    <3> QED BY <3>2, <3>3
  <2>5. lastIdx(cand, good) = Min(F)
    BY <1>2 DEF lastIdx
  <2> HIDE DEF F
  <2>6. Min(F) \in F
    BY <2>4 DEF Min
  <2> QED BY <1>2, <2>5, <2>6 DEF F
<1> QED BY <1>1, <1>2

-----------------------------------------------------------------------------
\* Every protocol has a rank.
LEMMA RankIsNat == \A p : rank(p) \in Nat
<1> SUFFICES ASSUME NEW p PROVE rank(p) \in Nat
  OBVIOUS
<1>1. DOMAIN DefaultOrder = 1..Len(DefaultOrder) /\ Len(DefaultOrder) \in Nat
  BY FallbackAssumption
<1>2. CASE p \in Range(DefaultOrder)
  <2>1. \E i \in DOMAIN DefaultOrder : DefaultOrder[i] = p
    BY <1>2 DEF Range
  <2>2. rank(p) \in DOMAIN DefaultOrder
    BY <1>2, <2>1 DEF rank
  <2> QED BY <1>1, <2>2
<1>3. CASE p \notin Range(DefaultOrder)
  BY <1>1, <1>3 DEF rank
<1> QED BY <1>2, <1>3

\* Every node has a round-trip to be ordered by, within the bound if measured.
LEMMA RttIsNat ==
  ASSUME NEW latency \in Latencies, NEW n \in NodeIDs
  PROVE  /\ rttOf(latency, n) \in 1..unreachableRTT
         /\ latency[n] \in 1..MaxRTT => rttOf(latency, n) = latency[n]
         /\ rttOf(latency, n) <= MaxRTT => latency[n] = rttOf(latency, n)
BY FallbackAssumption DEF Latencies, rttOf, Answered, unreachableRTT

\* Both orders of the machine are strict and total (the less functions of
\* rebuildByPreference and rebuildByLatency).
LEMMA OrdersAreStrict ==
  ASSUME NEW cand \in Profiles, NEW latency \in Latencies, NEW last
  PROVE  /\ IsFiniteSet(DOMAIN cand) /\ DOMAIN cand = 1..Len(cand) /\ Len(cand) \in 1..MaxServers
         /\ \A S \in SUBSET DOMAIN cand : StrictOrder(byPreference(cand), S)
         /\ StrictOrder(fastest(cand, latency, last), DOMAIN cand)
<1>1. PICK k \in 1..MaxServers : cand \in [1..k -> NodeIDs]
  BY DEF Profiles
<1>2. k \in Nat /\ DOMAIN cand = 1..k /\ Len(cand) = k
  BY <1>1, FallbackAssumption
<1>3. IsFiniteSet(DOMAIN cand)
  BY <1>2, FS_Interval
<1>4. \A S \in SUBSET DOMAIN cand : StrictOrder(byPreference(cand), S)
  <2> DEFINE r(a) == rank(Protocol[cand[a]])
  <2>1. \A a \in DOMAIN cand : r(a) \in Int /\ a \in Int
    BY <1>2, RankIsNat
  <2>2. \A a, b \in DOMAIN cand :
          <<a, b>> \in byPreference(cand) <=> r(a) < r(b) \/ (r(a) = r(b) /\ a < b)
    BY DEF byPreference, pairs, preferred
  <2> HIDE DEF r
  <2> QED BY <2>1, <2>2 DEF StrictOrder
<1>5. StrictOrder(fastest(cand, latency, last), DOMAIN cand)
  <2> DEFINE r(a) == rttOf(latency, cand[a])
  <2>1. \A a \in DOMAIN cand : r(a) \in Int /\ a \in Int
    BY <1>1, <1>2, RttIsNat, FallbackAssumption DEF unreachableRTT
  <2>2. \A a, b \in DOMAIN cand :
          <<a, b>> \in fastest(cand, latency, last) <=>
            \/ r(a) < r(b)
            \/ r(a) = r(b) /\ a = last /\ b # last
            \/ r(a) = r(b) /\ a # last /\ b # last /\ a < b
    BY DEF fastest, pairs, less
  <2> HIDE DEF r
  <2> QED BY <2>1, <2>2 DEF StrictOrder
<1> QED BY <1>2, <1>3, <1>4, <1>5

\* What the order of a walk promises, whatever it was built from.
Ordered(m, good) ==
  LET last == lastIdx(m.candidates, good)
      n == Cardinality(DOMAIN m.candidates)
  IN  /\ m.byLatency =>
           \A i, j \in 1..n : i < j => less(m.candidates, m.latency, last, m.order[i], m.order[j])
      /\ ~m.byLatency =>
           /\ last # 0 => m.order[1] = last
           /\ \A i, j \in 1..n : i < j /\ (i > 1 \/ last = 0) => preferred(m.candidates, m.order[i], m.order[j])

\* The last good node, then the others by protocol: every candidate, once.
LEMMA PreferenceIsListed ==
  ASSUME NEW cand \in Profiles, NEW good
  PROVE  LET o == rebuildByPreference(cand, good)
             last == lastIdx(cand, good)
         IN  /\ Lists(o, DOMAIN cand)
             /\ last # 0 => o[1] = last
             /\ \A i, j \in 1..Cardinality(DOMAIN cand) :
                  i < j /\ (i > 1 \/ last = 0) => preferred(cand, o[i], o[j])
<1> DEFINE o == rebuildByPreference(cand, good)
           last == lastIdx(cand, good)
           S == DOMAIN cand
           n == Cardinality(S)
           rest == sorted(S \ {last}, byPreference(cand))
           m == Cardinality(S \ {last})
<1>1. [a \in NodeIDs |-> NONE] \in Latencies
  BY DEF Latencies
<1>2. IsFiniteSet(S) /\ S = 1..Len(cand) /\ n \in Nat /\ \A T \in SUBSET S : StrictOrder(byPreference(cand), T)
  BY <1>1, OrdersAreStrict, FS_CardinalityType
<1>3. Lists(rest, S \ {last}) /\ \A i, j \in 1..m : i < j => preferred(cand, rest[i], rest[j])
  <2>1. IsFiniteSet(S \ {last})
    BY <1>2, FS_RemoveElement
  <2>2. StrictOrder(byPreference(cand), S \ {last})
    <3>1. S \ {last} \in SUBSET S
      OBVIOUS
    <3> HIDE DEF S, last
    <3> QED BY <1>2, <3>1
  <2>3. Lists(rest, S \ {last}) /\ \A i, j \in 1..m : i < j => <<rest[i], rest[j]>> \in byPreference(cand)
    BY <2>1, <2>2, SortedLists
  <2> QED BY <2>3 DEF byPreference
<1>4. last = 0 \/ last \in S
  BY LastIdxFinds
<1>5. o = IF last # 0 THEN <<last>> \o rest ELSE rest
  BY DEF rebuildByPreference
<1> DEFINE Promise == /\ Lists(o, S)
                      /\ last # 0 => o[1] = last
                      /\ \A i, j \in 1..n : i < j /\ (i > 1 \/ last = 0) => preferred(cand, o[i], o[j])
<1> SUFFICES Promise
  OBVIOUS
<1>6. CASE last = 0
  <2>1. 0 \notin S
    BY <1>2
  <2>2. S \ {last} = S /\ o = rest
    BY <1>5, <1>6, <2>1
  <2>3. n = m
    BY <2>2
  <2> HIDE DEF o, rest, last, S, n, m
  <2> QED BY <1>3, <1>6, <2>2, <2>3
<1>7. CASE last # 0
  <2>1. m = n - 1 /\ m \in Nat /\ last \in S
    BY <1>2, <1>4, <1>7, FS_RemoveElement, FS_CardinalityType
  <2>2. rest \in [1..m -> S \ {last}] /\ m = Cardinality(S \ {last})
    BY <1>3 DEF Lists
  <2> HIDE DEF S, rest, last, n, m, o
  <2>3. o = <<last>> \o rest
    BY <1>5, <1>7
  <2>4. <<last>> \in Seq(S) /\ Len(<<last>>) = 1 /\ <<last>>[1] = last
    BY <2>1
  <2>5. rest \in Seq(S) /\ Len(rest) = m
    BY <2>1, <2>2
  <2>6. Len(<<last>>) + Len(rest) = n
    BY <1>2, <2>1, <2>4, <2>5
  <2>7. /\ o \in Seq(S) /\ Len(o) = n
        /\ \A i \in 1..n : o[i] = IF i <= 1 THEN <<last>>[i] ELSE rest[i - 1]
    BY <2>3, <2>4, <2>5, <2>6, ConcatProperties
  <2>8. \A i \in 1..n : o[i] = IF i = 1 THEN last ELSE rest[i - 1]
    BY <1>2, <2>4, <2>7
  <2>9. o \in [1..n -> S]
    BY <2>7
  <2> HIDE <2>7
  <2>10. /\ 1 \in 1..n /\ o[1] = last
         /\ \A i \in 1..n : i # 1 => i - 1 \in 1..m /\ o[i] = rest[i - 1] /\ rest[i - 1] \in S \ {last}
    BY <1>2, <2>1, <2>2, <2>8
  <2>11. ASSUME NEW i \in 1..n, NEW j \in 1..n, o[i] = o[j] PROVE i = j
    <3>1. CASE i = 1 \/ j = 1
      BY <2>10, <2>11, <3>1
    <3>2. CASE i # 1 /\ j # 1
      <4>1. i - 1 \in 1..m /\ j - 1 \in 1..m /\ rest[i - 1] = rest[j - 1]
        BY <2>10, <2>11, <3>2
      <4>2. \A k, l \in 1..m : rest[k] = rest[l] => k = l
        BY <1>3, <2>2 DEF Lists
      <4>3. i - 1 = j - 1
        BY <4>1, <4>2
      <4> QED BY <1>2, <4>3
    <3> QED BY <3>1, <3>2
  <2>12. ASSUME NEW a \in S PROVE \E i \in 1..n : o[i] = a
    <3>1. CASE a = last
      BY <2>10, <3>1
    <3>2. CASE a # last
      <4>1. PICK k \in 1..m : rest[k] = a
        BY <1>3, <2>2, <3>2 DEF Lists
      <4>2. k + 1 \in 1..n /\ k + 1 # 1 /\ (k + 1) - 1 = k
        BY <1>2, <2>1
      <4> QED BY <2>10, <4>1, <4>2
    <3> QED BY <3>1, <3>2
  <2>13. ASSUME NEW i \in 1..n, NEW j \in 1..n, i < j, i > 1 PROVE preferred(cand, o[i], o[j])
    <3>1. i # 1 /\ j # 1 /\ i - 1 < j - 1
      BY <1>2, <2>13
    <3>2. o[i] = rest[i - 1] /\ o[j] = rest[j - 1] /\ i - 1 \in 1..m /\ j - 1 \in 1..m
      BY <2>10, <3>1
    <3>3. preferred(cand, rest[i - 1], rest[j - 1])
      BY <1>3, <3>1, <3>2
    <3> QED BY <3>2, <3>3
  <2>14. Lists(o, S)
    BY <1>2, <2>9, <2>11, <2>12 DEF Lists, n
  <2> QED BY <1>7, <2>10, <2>13, <2>14
<1> QED BY <1>6, <1>7

\* A machine as New, NewByLatency build it.
LEMMA RebuildIsOrdered ==
  ASSUME NEW cand \in Profiles, NEW latency \in Latencies, NEW fast \in BOOLEAN, NEW good,
         NEW old, NEW at
  PROVE  LET m == rebuild([candidates |-> cand, byLatency |-> fast, latency |-> latency,
                           order |-> old, cursor |-> at], good)
         IN  /\ Lists(m.order, DOMAIN cand) /\ Ordered(m, good)
             /\ m = [candidates |-> cand, byLatency |-> fast, latency |-> latency,
                     order |-> m.order, cursor |-> 1]
<1> DEFINE o == IF fast THEN rebuildByLatency(cand, latency, good)
                ELSE rebuildByPreference(cand, good)
           new == [candidates |-> cand, byLatency |-> fast, latency |-> latency,
                   order |-> o, cursor |-> 1]
           last == lastIdx(cand, good)
           n == Cardinality(DOMAIN cand)
<1>1. rebuild([candidates |-> cand, byLatency |-> fast, latency |-> latency,
               order |-> old, cursor |-> at], good) = new
  <2> DEFINE m0 == [candidates |-> cand, byLatency |-> fast, latency |-> latency,
                    order |-> old, cursor |-> at]
             o0 == IF m0.byLatency THEN rebuildByLatency(m0.candidates, m0.latency, good)
                   ELSE rebuildByPreference(m0.candidates, good)
  <2>1. rebuild(m0, good) = [m0 EXCEPT !.cursor = 1, !.order = o0]
    BY Zenon DEF rebuild
  <2>2. o0 = o
    OBVIOUS
  <2> HIDE DEF o0, o
  <2> DEFINE m1 == [candidates |-> cand, byLatency |-> fast, latency |-> latency,
                    order |-> old, cursor |-> 1]
  <2>3. \A x : [m0 EXCEPT !.cursor = 1, !.order = x] = [[m0 EXCEPT !.cursor = 1] EXCEPT !.order = x]
    OBVIOUS
  <2>4. [m0 EXCEPT !.cursor = 1] = m1
    OBVIOUS
  <2>5. \A x : [m1 EXCEPT !.order = x]
                = [candidates |-> cand, byLatency |-> fast, latency |-> latency,
                   order |-> x, cursor |-> 1]
    OBVIOUS
  <2>6. [m0 EXCEPT !.cursor = 1, !.order = o0] = [m1 EXCEPT !.order = o]
    <3> HIDE DEF m0, m1
    <3> QED BY <2>2, <2>3, <2>4
  <2>7. [m1 EXCEPT !.order = o] = new
    BY <2>5
  <2>8. rebuild(m0, good) = new
    <3> HIDE DEF m0, m1, new
    <3> QED BY <2>1, <2>6, <2>7
  <2> QED BY <2>8
<1>2. Lists(o, DOMAIN cand) /\ Ordered(new, good)
  <2>1. CASE fast
    <3>1. IsFiniteSet(DOMAIN cand) /\ StrictOrder(fastest(cand, latency, last), DOMAIN cand)
      BY OrdersAreStrict
    <3>2. /\ Lists(o, DOMAIN cand)
          /\ \A i, j \in 1..n : i < j => <<o[i], o[j]>> \in fastest(cand, latency, last)
      BY <2>1, <3>1, SortedLists DEF rebuildByLatency
    <3>3. \A i, j \in 1..n : i < j => less(cand, latency, last, o[i], o[j])
      BY <3>2 DEF fastest
    <3> HIDE DEF o
    <3> QED BY <2>1, <3>2, <3>3 DEF Ordered
  <2>2. CASE ~fast
    <3>1. o = rebuildByPreference(cand, good)
      BY <2>2
    <3> HIDE DEF o
    <3> QED BY <2>2, <3>1, PreferenceIsListed DEF Ordered
  <2> QED BY <2>1, <2>2
<1> HIDE DEF o
<1> QED BY <1>1, <1>2

-----------------------------------------------------------------------------
\* A machine in the middle of its walk.
IsMachine(m, good) ==
  /\ m \in [candidates : Profiles, byLatency : BOOLEAN, latency : Latencies,
            order : Seq(1..MaxServers), cursor : Nat \ {0}]
  /\ Lists(m.order, DOMAIN m.candidates) /\ Ordered(m, good)
  /\ Len(m.order) = Cardinality(DOMAIN m.candidates) /\ m.cursor <= Len(m.order) + 1

\* What New and NewByLatency return is such a machine, at its first candidate.
LEMMA NewIsMachine ==
  ASSUME NEW cand \in Profiles, NEW good, NEW rtt \in Latencies
  PROVE  \A m \in {newMachine(cand, good), newByLatency(cand, rtt, good)} :
           IsMachine(m, good) /\ m.cursor = 1 /\ m.candidates = cand
<1> DEFINE Fresh(m) == IsMachine(m, good) /\ m.cursor = 1 /\ m.candidates = cand
<1>1. Unmeasured \in Latencies
  BY DEF Unmeasured, Latencies
<1>2. \A fast, latency : \E old, at :
        unbuilt(cand, fast, latency) = [candidates |-> cand, byLatency |-> fast, latency |-> latency,
                                        order |-> old, cursor |-> at]
  BY Zenon DEF unbuilt
<1>3. \A fast \in BOOLEAN, latency \in Latencies : \A old, at :
        Fresh(rebuild([candidates |-> cand, byLatency |-> fast, latency |-> latency,
                       order |-> old, cursor |-> at], good))
  <2> HIDE DEF Fresh
  <2> SUFFICES ASSUME NEW fast \in BOOLEAN, NEW latency \in Latencies, NEW old, NEW at,
                      NEW m, m = rebuild([candidates |-> cand, byLatency |-> fast,
                                          latency |-> latency, order |-> old, cursor |-> at], good)
               PROVE  Fresh(m)
    BY Zenon
  <2> USE DEF Fresh
  <2>1. /\ Lists(m.order, DOMAIN cand) /\ Ordered(m, good)
        /\ m = [candidates |-> cand, byLatency |-> fast, latency |-> latency,
                order |-> m.order, cursor |-> 1]
    BY RebuildIsOrdered
  <2>2. DOMAIN cand = 1..Len(cand) /\ Len(cand) \in 1..MaxServers
    BY OrdersAreStrict
  <2> DEFINE o == m.order
  <2>3. m.cursor = 1 /\ m.candidates = cand /\ m.byLatency = fast /\ m.latency = latency
    BY <2>1
  <2>4. o \in Seq(1..MaxServers) /\ Len(o) = Cardinality(DOMAIN cand) /\ Len(o) \in Nat
    <3> DEFINE n == Cardinality(DOMAIN cand)
    <3>1. o \in [1..n -> 1..Len(cand)] /\ n \in Nat
      BY <2>1, <2>2 DEF Lists
    <3> HIDE DEF o, n
    <3>2. o \in Seq(1..MaxServers) /\ Len(o) = n
      BY <2>2, <3>1, FallbackAssumption
    <3> QED BY <3>1, <3>2 DEF n
  <2>5. m \in [candidates : Profiles, byLatency : BOOLEAN, latency : Latencies,
               order : Seq(1..MaxServers), cursor : Nat \ {0}]
    BY <2>1, <2>4
  <2> QED BY <2>1, <2>3, <2>4, <2>5 DEF IsMachine
<1>4. \A fast \in BOOLEAN, latency \in Latencies :
        Fresh(rebuild(unbuilt(cand, fast, latency), good))
  <2> HIDE DEF Fresh
  <2> TAKE fast \in BOOLEAN, latency \in Latencies
  <2>1. PICK old, at : unbuilt(cand, fast, latency) = [candidates |-> cand, byLatency |-> fast,
                                        latency |-> latency, order |-> old, cursor |-> at]
    BY <1>2
  <2>2. rebuild(unbuilt(cand, fast, latency), good)
          = rebuild([candidates |-> cand, byLatency |-> fast, latency |-> latency,
                     order |-> old, cursor |-> at], good)
    BY <2>1
  <2> QED BY <1>3, <2>2, Zenon
<1> QED BY <1>1, <1>4, Zenon DEF newMachine, newByLatency

\* A connect starts on such a machine, and not on the node it is leaving
\* (startConnect, dropCandidate).
LEMMA StartsOnMachine ==
  ASSUME NEW servers \in Profiles, NEW explicit \in NodeIDs \cup {NONE},
         NEW leaving \in NodeIDs \cup {NONE}, NEW auto \in BOOLEAN,
         StartConnect(servers, explicit, auto, leaving)
  PROVE  /\ IsMachine(machine', lastGood) /\ machine'.cursor = 1
         /\ avoid' \in NodeIDs \cup {NONE}
         /\ avoid' # NONE => avoid' \notin Range(machine'.candidates)
<1> DEFINE all == IF explicit = NONE THEN servers ELSE <<explicit>>
           cand == IF explicit = NONE /\ leaving # NONE THEN dropCandidate(all, leaving) ELSE all
<1>1. all \in Profiles
  <2>1. PICK k \in 1..MaxServers : servers \in [1..k -> NodeIDs]
    BY DEF Profiles
  <2>2. explicit # NONE => <<explicit>> \in [1..1 -> NodeIDs] /\ 1 \in 1..MaxServers
    BY <2>1, FallbackAssumption
  <2> QED BY <2>2 DEF Profiles
<1>2. /\ cand # <<>> /\ avoid' = (IF explicit = NONE THEN leaving ELSE NONE)
      /\ \/ machine' = newMachine(cand, lastGood)
         \/ \E rtt \in Latencies : machine' = newByLatency(cand, rtt, lastGood)
  BY DEF StartConnect
<1>3. cand \in Profiles /\ (avoid' # NONE => avoid' \notin Range(cand))
  <2> HIDE DEF all
  <2>1. CASE explicit = NONE /\ leaving # NONE
    BY <1>1, <1>2, <2>1, DropLeavesProfile
  <2>2. CASE ~(explicit = NONE /\ leaving # NONE)
    BY <1>1, <1>2, <2>2
  <2> QED BY <2>1, <2>2
<1>4. IsMachine(machine', lastGood) /\ machine'.cursor = 1 /\ machine'.candidates = cand
  <2> HIDE DEF cand
  <2>1. Unmeasured \in Latencies
    BY DEF Unmeasured, Latencies
  <2> QED BY <1>2, <1>3, <2>1, NewIsMachine
<1> HIDE DEF cand
<1> QED BY <1>2, <1>3, <1>4

-----------------------------------------------------------------------------
\* Between steps a walk has such a machine, built on what is remembered now, and
\* without the node to avoid.
WalkInv ==
  /\ walking \in BOOLEAN
  /\ ~walking => machine = NoMachine
  /\ walking => IsMachine(machine, lastGood)
  /\ walking /\ avoid # NONE => avoid \notin Range(machine.candidates)

\* A failed attempt moves the cursor and leaves the order alone (Machine.Failure).
LEMMA FailureAdvances ==
  ASSUME NEW m, NEW good, IsMachine(m, good), HasNext(m)
  PROVE  LET f == [m EXCEPT !.cursor = @ + 1]
         IN  /\ IsMachine(f, good) /\ f.candidates = m.candidates /\ f.order = m.order
             /\ f.cursor = m.cursor + 1
<1> DEFINE f == [m EXCEPT !.cursor = @ + 1]
<1>1. m \in [candidates : Profiles, byLatency : BOOLEAN, latency : Latencies,
             order : Seq(1..MaxServers), cursor : Nat \ {0}]
  BY DEF IsMachine
<1>2. m.order \in Seq(1..MaxServers) /\ Len(m.order) \in Nat
  BY <1>1
<1>3. /\ f.candidates = m.candidates /\ f.byLatency = m.byLatency /\ f.latency = m.latency
      /\ f.order = m.order /\ f.cursor = m.cursor + 1
      /\ f \in [candidates : Profiles, byLatency : BOOLEAN, latency : Latencies,
                order : Seq(1..MaxServers), cursor : Nat \ {0}]
  BY <1>1
<1>4. f.cursor <= Len(f.order) + 1
  BY <1>1, <1>2, <1>3 DEF HasNext
<1>5. Ordered(f, good) <=> Ordered(m, good)
  <2> HIDE DEF f
  <2> QED BY <1>3 DEF Ordered
<1> HIDE DEF f
<1>6. IsMachine(f, good)
  BY <1>3, <1>4, <1>5 DEF IsMachine
<1> QED BY <1>3, <1>6 DEF f

\* Every step of the daemon keeps it.
LEMMA WalkInvHolds == Spec => []WalkInv
<1>1. Init => WalkInv
  BY DEF Init, WalkInv
<1>2. WalkInv /\ [Next]_vars => WalkInv'
  <2> SUFFICES ASSUME WalkInv, [Next]_vars PROVE WalkInv'
    OBVIOUS
  <2>1. ASSUME NEW servers \in Profiles, NEW explicit \in NodeIDs \cup {NONE},
               NEW leaving \in NodeIDs \cup {NONE}, NEW auto \in BOOLEAN,
               StartConnect(servers, explicit, auto, leaving)
        PROVE  WalkInv'
    <3>1. /\ IsMachine(machine', lastGood)
          /\ avoid' # NONE => avoid' \notin Range(machine'.candidates)
      BY <2>1, StartsOnMachine
    <3>2. walking' = TRUE /\ lastGood' = lastGood
      BY <2>1 DEF StartConnect
    <3> QED BY <3>1, <3>2 DEF WalkInv
  <2>2. CASE Failure
    <3>1. /\ walking /\ HasNext(machine) /\ machine' = [machine EXCEPT !.cursor = @ + 1]
          /\ UNCHANGED <<lastGood, walking, avoid>>
      BY <2>2 DEF Failure
    <3>2. IsMachine(machine', lastGood) /\ machine'.candidates = machine.candidates
      BY <3>1, FailureAdvances DEF WalkInv
    <3> QED BY <3>1, <3>2 DEF WalkInv
  <2>3. CASE Success \/ Exhausted \/ Superseded
    BY <2>3 DEF Success, Exhausted, Superseded, WalkInv
  <2>4. ASSUME NEW n \in NodeIDs, CommitSwitch(n) PROVE WalkInv'
    BY <2>4 DEF CommitSwitch, WalkInv
  <2>5. CASE UNCHANGED vars
    BY <2>5 DEF vars, WalkInv
  <2> QED BY <2>1, <2>2, <2>3, <2>4, <2>5 DEF Next
<1> QED BY <1>1, <1>2, PTL DEF Spec

\* The three promises of the order follow from what the machine was built by.
LEMMA MachineIsOrdered ==
  ASSUME WalkInv
  PROVE  WalkIsOrdered
<1> SUFFICES ASSUME walking PROVE WalkIsOrdered
  BY DEF WalkIsOrdered, PreferredFirst, LastGoodLeads, FailoverMovesOn
<1> DEFINE cand == machine.candidates
           o == machine.order
           last == lastIdx(cand, lastGood)
           n == Cardinality(DOMAIN cand)
           r(i) == rttOf(machine.latency, cand[i])
<1>1. /\ cand \in Profiles /\ machine.latency \in Latencies /\ machine.byLatency \in BOOLEAN
      /\ o \in Seq(1..MaxServers) /\ Lists(o, DOMAIN cand) /\ Ordered(machine, lastGood) /\ Len(o) = n
  BY DEF WalkInv, IsMachine
<1>2. /\ DOMAIN cand = 1..Len(cand) /\ Len(cand) \in Nat /\ 1 \in DOMAIN cand /\ 0 \notin DOMAIN cand
      /\ \A i \in DOMAIN cand : cand[i] \in NodeIDs
  <2>1. Len(cand) \in 1..MaxServers /\ DOMAIN cand = 1..Len(cand)
    BY <1>1, OrdersAreStrict
  <2> QED BY <1>1, <2>1, FallbackAssumption DEF Profiles
<1>3. /\ n \in Nat /\ o \in [1..n -> DOMAIN cand]
      /\ \A a \in DOMAIN cand : \E i \in 1..n : o[i] = a
  BY <1>1 DEF Lists
<1>4. \A i \in DOMAIN o : i \in 1..n /\ o[i] \in DOMAIN cand /\ cand[o[i]] \in NodeIDs
  BY <1>2, <1>3
<1>5. /\ machine.byLatency =>
           \A i, j \in 1..n : i < j => less(cand, machine.latency, last, o[i], o[j])
      /\ ~machine.byLatency =>
           /\ last # 0 => o[1] = last
           /\ \A i, j \in 1..n : i < j /\ (i > 1 \/ last = 0) => preferred(cand, o[i], o[j])
  BY <1>1 DEF Ordered
<1>6. IF lastGood \in Range(cand) THEN last \in DOMAIN cand /\ cand[last] = lastGood ELSE last = 0
  BY <1>1, LastIdxFinds
<1>7. \A i \in DOMAIN cand : r(i) \in Int
  BY <1>1, <1>2, RttIsNat, FallbackAssumption DEF unreachableRTT
<1> HIDE DEF cand, o, last, n
<1>8. ASSUME NEW i \in DOMAIN o, NEW j \in DOMAIN o, i < j
      PROVE  IF machine.byLatency
             THEN machine.latency[cand[o[j]]] \in 1..MaxRTT
                    => /\ machine.latency[cand[o[i]]] \in 1..MaxRTT
                       /\ machine.latency[cand[o[i]]] <= machine.latency[cand[o[j]]]
             ELSE i > 1 \/ cand[o[i]] # lastGood => rank(Protocol[cand[o[i]]]) <= rank(Protocol[cand[o[j]]])
  <2>1. CASE machine.byLatency
    <3>1. r(o[i]) <= r(o[j])
      <4>1. less(cand, machine.latency, last, o[i], o[j])
        BY <1>4, <1>5, <1>8, <2>1
      <4>2. r(o[i]) \in Int /\ r(o[j]) \in Int
        BY <1>4, <1>7
      <4> QED BY <4>1, <4>2 DEF less
    <3>2. /\ r(o[i]) \in 1..unreachableRTT
          /\ machine.latency[cand[o[j]]] \in 1..MaxRTT => r(o[j]) = machine.latency[cand[o[j]]]
          /\ r(o[i]) <= MaxRTT => machine.latency[cand[o[i]]] = r(o[i])
      BY <1>1, <1>4, RttIsNat
    <3> HIDE DEF r
    <3> QED BY <2>1, <3>1, <3>2, FallbackAssumption
  <2>2. CASE ~machine.byLatency
    <3> SUFFICES ASSUME i > 1 \/ cand[o[i]] # lastGood
                 PROVE  rank(Protocol[cand[o[i]]]) <= rank(Protocol[cand[o[j]]])
      BY <2>2
    <3>1. i > 1 \/ last = 0
      <4> SUFFICES ASSUME ~(i > 1), last # 0 PROVE FALSE
        OBVIOUS
      <4>1. i = 1
        BY <1>3, <1>4
      <4>2. o[1] = last /\ cand[last] = lastGood
        BY <1>5, <1>6, <2>2
      <4> QED BY <4>1, <4>2
    <3>2. preferred(cand, o[i], o[j])
      BY <1>4, <1>5, <1>8, <2>2, <3>1
    <3> QED BY <3>2, RankIsNat DEF preferred
  <2> QED BY <2>1, <2>2
<1>9. PreferredFirst
  BY <1>8 DEF PreferredFirst, cand, o
<1>10. ASSUME lastGood \in Range(cand)
       PROVE  \/ cand[o[1]] = lastGood
              \/ /\ machine.byLatency
                 /\ \E k \in Range(cand) : rttOf(machine.latency, k) < rttOf(machine.latency, lastGood)
  <2>1. last \in DOMAIN cand /\ cand[last] = lastGood /\ last # 0
    BY <1>2, <1>6, <1>10
  <2>2. CASE ~machine.byLatency
    BY <1>5, <2>1, <2>2
  <2>3. CASE machine.byLatency
    <3>1. PICK k \in 1..n : o[k] = last
      BY <1>3, <2>1
    <3>2. CASE k = 1
      BY <2>1, <3>1, <3>2
    <3>3. CASE k # 1
      <4>1. 1 \in 1..n /\ 1 < k /\ o[1] \in DOMAIN cand
        BY <1>3, <3>3
      <4>2. less(cand, machine.latency, last, o[1], last)
        BY <1>5, <2>3, <3>1, <4>1
      <4>3. r(o[1]) < r(last)
        BY <4>2 DEF less
      <4>4. cand[o[1]] \in Range(cand)
        BY <4>1 DEF Range
      <4> QED BY <2>1, <2>3, <4>3, <4>4
    <3> QED BY <3>2, <3>3
  <2> QED BY <2>2, <2>3
<1>11. LastGoodLeads
  BY <1>10 DEF LastGoodLeads, cand, o
<1>12. FailoverMovesOn
  <2> SUFFICES ASSUME avoid # NONE
               PROVE  o # <<>> /\ \A i \in DOMAIN o : cand[o[i]] # avoid
    BY DEF FailoverMovesOn, cand, o
  <2>1. avoid \notin Range(cand)
    BY DEF WalkInv, cand
  <2>2. \A i \in DOMAIN o : cand[o[i]] \in Range(cand)
    BY <1>4 DEF Range
  <2>3. \E i \in 1..n : o[i] = 1
    BY <1>2, <1>3
  <2>4. o # <<>>
    BY <1>3, <2>3
  <2> QED BY <2>1, <2>2, <2>4
<1> QED BY <1>9, <1>11, <1>12 DEF WalkIsOrdered

\* Whatever was measured and remembered, the walk is the promised one: no better
\* candidate waits behind a worse one, what last worked leads unless another was
\* measured faster, and a failover does not return to the node it leaves.
THEOREM WalkAlwaysOrdered == Spec => []WalkIsOrdered
BY WalkInvHolds, MachineIsOrdered, PTL

-----------------------------------------------------------------------------
\* The candidates a machine has not given up on.
todo(m) == {m.order[i] : i \in m.cursor..Len(m.order)}

\* What Walk sees of the state.
walkVars == <<walking, DOMAIN machine.candidates, todo(machine), machine.cursor - 1, outcome>>

\* A machine at its first candidate has them all to try, one past its last has
\* none, and a failure takes away one (Machine.Next, Failure, Exhausted).
LEMMA TodoShrinks ==
  ASSUME NEW m, NEW good, IsMachine(m, good)
  PROVE  /\ DOMAIN m.candidates \in SUBSET (1..MaxServers) /\ DOMAIN m.candidates # {}
         /\ m.cursor \in Nat \ {0}
         /\ m.cursor = 1 => todo(m) = DOMAIN m.candidates
         /\ HasNext(m) => todo(m) # {}
         /\ ~HasNext(m) => todo(m) = {} /\ m.cursor > 1
         /\ HasNext(m) => \E a \in todo(m) :
              {m.order[i] : i \in (m.cursor + 1)..Len(m.order)} = todo(m) \ {a}
<1> DEFINE o == m.order
           k == m.cursor
           n == Cardinality(DOMAIN m.candidates)
<1>1. /\ k \in Nat \ {0} /\ m.candidates \in Profiles /\ m.latency \in Latencies
      /\ Lists(o, DOMAIN m.candidates) /\ Len(o) = n /\ k <= Len(o) + 1
  BY DEF IsMachine
<1>2. /\ o \in [1..n -> DOMAIN m.candidates] /\ n \in Nat
      /\ \A i, j \in 1..n : o[i] = o[j] => i = j
      /\ \A a \in DOMAIN m.candidates : \E i \in 1..n : o[i] = a
  BY <1>1 DEF Lists
<1>3. /\ DOMAIN m.candidates \in SUBSET (1..MaxServers) /\ 1 \in DOMAIN m.candidates
  <2>1. DOMAIN m.candidates = 1..Len(m.candidates) /\ Len(m.candidates) \in 1..MaxServers
    BY <1>1, OrdersAreStrict
  <2> QED BY <2>1, FallbackAssumption
<1>4. HasNext(m) <=> k <= n
  BY <1>1 DEF HasNext
<1>5. todo(m) = {o[i] : i \in k..n}
  BY <1>1 DEF todo
<1>6. {m.order[i] : i \in (m.cursor + 1)..Len(m.order)} = {o[i] : i \in (k + 1)..n}
  BY <1>1
<1> DEFINE D == DOMAIN m.candidates
<1> HIDE DEF o, k, n
<1>7. n # 0
  BY <1>2, <1>3
<1>8. k = 1 => todo(m) = D
  <2> SUFFICES ASSUME k = 1 PROVE {o[i] : i \in 1..n} = D
    BY <1>5
  <2> HIDE DEF D
  <2> QED BY <1>2 DEF D
<1>9. ASSUME k <= n
      PROVE  o[k] \in todo(m) /\ {o[i] : i \in (k + 1)..n} = todo(m) \ {o[k]}
  <2>1. k \in k..n /\ \A i \in k..n : i \in 1..n /\ (i # k => i \in (k + 1)..n)
    BY <1>1, <1>2, <1>9
  <2>2. \A i \in (k + 1)..n : i \in k..n /\ i # k /\ o[i] # o[k]
    BY <1>1, <1>2, <1>9
  <2> QED BY <1>5, <2>1, <2>2
<1>10. ~(k <= n) => todo(m) = {} /\ k > 1
  <2> SUFFICES ASSUME ~(k <= n) PROVE k..n = {} /\ k > 1
    BY <1>5
  <2> QED BY <1>1, <1>2, <1>7
<1> QED BY <1>1, <1>3, <1>4, <1>6, <1>8, <1>9, <1>10 DEF k

\* Walks that have an order walk their candidates as one without: each at most
\* once, none skipped, and the end only when none is left (runFallback).
THEOREM WalkRefined == Spec => ImplementsWalk
<1>1. Init => AbstractWalk!Init
  <2> SUFFICES ASSUME Init PROVE AbstractWalk!Init
    OBVIOUS
  <2>1. /\ machine.candidates = <<>> /\ machine.order = <<>> /\ machine.cursor = 1
        /\ walking = FALSE /\ outcome = "none"
    BY DEF Init, NoMachine, unbuilt
  <2> QED BY <2>1 DEF AbstractWalk!Init
<1>2. WalkInv /\ [Next]_vars
        => [AbstractWalk!Next]_walkVars
  <2> SUFFICES ASSUME WalkInv, [Next]_vars
               PROVE  AbstractWalk!Next \/ UNCHANGED walkVars
    OBVIOUS
  <2>0. NoMachine.candidates = <<>> /\ NoMachine.order = <<>> /\ NoMachine.cursor = 1
    BY DEF NoMachine, unbuilt
  <2>1. ASSUME NEW servers \in Profiles, NEW explicit \in NodeIDs \cup {NONE},
               NEW leaving \in NodeIDs \cup {NONE}, NEW auto \in BOOLEAN,
               StartConnect(servers, explicit, auto, leaving)
        PROVE  AbstractWalk!Next
    <3>1. IsMachine(machine', lastGood) /\ machine'.cursor = 1
      BY <2>1, StartsOnMachine
    <3>2. ~walking /\ walking' = TRUE /\ outcome' = "none"
      BY <2>1 DEF StartConnect
    <3>3. PICK S \in SUBSET (1..MaxServers) :
            /\ S = DOMAIN machine'.candidates /\ S # {}
            /\ {machine'.order[i] : i \in machine'.cursor..Len(machine'.order)} = S
      BY <3>1, TodoShrinks DEF todo
    <3>4. AbstractWalk!Start(S)
      BY <3>1, <3>2, <3>3 DEF AbstractWalk!Start
    <3>5. \E T \in SUBSET (1..MaxServers) : AbstractWalk!Start(T)
      BY <3>3, <3>4
    <3> QED BY <3>5 DEF AbstractWalk!Next
  <2>2. CASE Failure
    <3>1. /\ walking /\ HasNext(machine) /\ machine' = [machine EXCEPT !.cursor = @ + 1]
          /\ walking' = walking /\ outcome' = outcome /\ IsMachine(machine, lastGood)
      BY <2>2 DEF Failure, WalkInv
    <3>2. /\ machine'.candidates = machine.candidates /\ machine'.order = machine.order
          /\ machine'.cursor = machine.cursor + 1
      BY <3>1, FailureAdvances
    <3>3. PICK a \in todo(machine) :
            {machine.order[i] : i \in (machine.cursor + 1)..Len(machine.order)} = todo(machine) \ {a}
      BY <3>1, TodoShrinks
    <3>4. machine.cursor \in Nat
      BY <3>1, TodoShrinks
    <3>5. AbstractWalk!Drop
      <4>1. {machine'.order[i] : i \in machine'.cursor..Len(machine'.order)} = todo(machine) \ {a}
        BY <3>2, <3>3
      <4>2. machine'.cursor - 1 = (machine.cursor - 1) + 1
        BY <3>2, <3>4
      <4> QED BY <3>1, <3>2, <4>1, <4>2 DEF AbstractWalk!Drop, todo
    <3> QED BY <3>5 DEF AbstractWalk!Next
  <2>3. CASE Success \/ Exhausted \/ Superseded
    <3>1. /\ walking /\ walking' = FALSE /\ machine' = NoMachine
          /\ \/ HasNext(machine) /\ outcome' = "connected"
             \/ ~HasNext(machine) /\ outcome' = "exhausted"
             \/ outcome' = "superseded"
      BY <2>3 DEF Success, Exhausted, Superseded
    <3>2. /\ HasNext(machine) => todo(machine) # {}
          /\ ~HasNext(machine) => todo(machine) = {} /\ machine.cursor > 1
          /\ machine.cursor \in Nat
      BY <3>1, TodoShrinks DEF WalkInv
    <3>3. /\ DOMAIN machine'.candidates = {} /\ machine'.cursor - 1 = 0
          /\ {machine'.order[i] : i \in machine'.cursor..Len(machine'.order)} = {}
      BY <2>0, <3>1
    <3>4. AbstractWalk!End
      <4>1. CASE HasNext(machine) /\ outcome' = "connected"
        BY <3>1, <3>2, <3>3, <4>1 DEF AbstractWalk!End, todo
      <4>2. CASE ~HasNext(machine) /\ outcome' = "exhausted"
        <5>1. machine.cursor - 1 > 0
          BY <3>2, <4>2
        <5> QED BY <3>1, <3>2, <3>3, <4>2, <5>1 DEF AbstractWalk!End, todo
      <4>3. CASE outcome' = "superseded"
        BY <3>1, <3>3, <4>3 DEF AbstractWalk!End, todo
      <4> QED BY <3>1, <4>1, <4>2, <4>3
    <3> QED BY <3>4 DEF AbstractWalk!Next
  <2>4. ASSUME NEW n \in NodeIDs, CommitSwitch(n)
        PROVE  UNCHANGED walkVars
    BY <2>4 DEF CommitSwitch, walkVars, todo
  <2>5. CASE UNCHANGED vars
    BY <2>5 DEF vars, walkVars, todo
  <2> QED BY <2>1, <2>2, <2>3, <2>4, <2>5 DEF Next
<1>3. Spec => []WalkInv
  BY WalkInvHolds
<1> QED BY <1>1, <1>2, <1>3, PTL DEF Spec, ImplementsWalk, AbstractWalk!Spec, walkVars, todo

-----------------------------------------------------------------------------
(* Node checks: what an answer is worth.                                    *)

\* A non-empty set of naturals has a least member.
LEMMA LeastExists ==
  ASSUME NEW T \in SUBSET Nat, T # {}
  PROVE  \E x \in T : \A y \in T : x <= y
<1>1. PICK x \in T : \A y \in T : ~(<<y, x>> \in OpToRel(<, Nat))
  BY NatLessThanWellFounded, WFMin
<1>2. ASSUME NEW y \in T PROVE x <= y
  <2>1. x \in Nat /\ y \in Nat /\ <<y, x>> \in Nat \X Nat /\ <<y, x>>[1] = y /\ <<y, x>>[2] = x
    OBVIOUS
  <2>2. y < x => <<y, x>> \in OpToRel(<, Nat)
    BY <2>1, Zenon DEF OpToRel
  <2>3. ~(y < x)
    BY <1>1, <2>2, Zenon
  <2> QED BY <2>1, <2>3
<1> QED BY <1>2

\* The answers of a node are kept in ascending order.
LEMMA AnswersAscend ==
  ASSUME NEW a \in Answers
  PROVE  /\ a \in [1..Len(a) -> 1..fail] /\ Len(a) \in Nat /\ DOMAIN a = 1..Len(a)
         /\ fail \in Nat /\ fail = MaxAnswer + 1 /\ MaxAnswer \in Nat
         /\ \A i, j \in 1..Len(a) : i <= j => a[i] <= a[j]
<1>1. PICK k \in 0..Targets : a \in [1..k -> 1..fail]
  BY DEF Answers, BoundedSeq, SeqOf
<1>2. k \in Nat /\ fail \in Nat /\ fail = MaxAnswer + 1 /\ MaxAnswer \in Nat
  BY NodeCheckAssumption DEF fail
<1>3. Len(a) = k
  BY <1>1, <1>2
<1>4. ASSUME NEW i \in 1..k, NEW j0 \in 1..k, i <= j0, ~(a[i] <= a[j0]) PROVE FALSE
  <2> DEFINE T == {j \in 1..k : i <= j /\ a[j] < a[i]}
  <2>1. j0 \in T
    BY <1>1, <1>2, <1>4
  <2>2. T \in SUBSET Nat /\ T # {}
    BY <1>2, <2>1
  <2> HIDE DEF T
  <2>3. PICK j \in T : \A y \in T : j <= y
    BY <2>2, LeastExists
  <2>4. j \in 1..k /\ i <= j /\ a[j] < a[i]
    BY <2>3 DEF T
  <2>5. j # i /\ j - 1 \in 1..k /\ i <= j - 1 /\ j - 1 \in 1..(Len(a) - 1)
    BY <1>1, <1>2, <1>3, <2>4
  <2>6. a[j - 1] <= a[(j - 1) + 1] /\ (j - 1) + 1 = j
    BY <2>4, <2>5 DEF Answers
  <2>7. a[j - 1] < a[i]
    BY <1>1, <1>2, <2>4, <2>5, <2>6
  <2>8. j - 1 \in T
    BY <2>5, <2>7 DEF T
  <2> QED BY <2>3, <2>4, <2>8
<1> QED BY <1>1, <1>2, <1>3, <1>4

\* The targets that answered come first, and okCount() is how many they are.
LEMMA OksLead ==
  ASSUME NEW a \in Answers
  PROVE  /\ okCount(a) \in 0..Len(a)
         /\ {i \in DOMAIN a : a[i] # fail} = 1..okCount(a)
<1>1. /\ a \in [1..Len(a) -> 1..fail] /\ Len(a) \in Nat /\ DOMAIN a = 1..Len(a) /\ fail \in Nat
      /\ \A i, j \in 1..Len(a) : i <= j => a[i] <= a[j]
  BY AnswersAscend
<1> DEFINE ok == {i \in DOMAIN a : a[i] # fail}
           failed == {i \in 1..Len(a) : a[i] = fail}
<1>2. \E k \in 0..Len(a) : ok = 1..k
  <2>1. CASE failed = {}
    BY <1>1, <2>1
  <2>2. CASE failed # {}
    <3>1. PICK x \in failed : \A y \in failed : x <= y
      <4>1. failed \in SUBSET Nat
        BY <1>1
      <4> HIDE DEF failed
      <4> QED BY <2>2, <4>1, LeastExists
    <3>2. x \in 1..Len(a) /\ a[x] = fail
      BY <3>1
    <3>3. ASSUME NEW i \in 1..Len(a) PROVE i \in ok <=> i < x
      <4>1. CASE i < x
        BY <1>1, <3>1, <3>2, <4>1
      <4>2. CASE ~(i < x)
        <5>1. a[x] <= a[i] /\ a[i] \in 1..fail
          BY <1>1, <3>2, <4>2
        <5> QED BY <1>1, <3>2, <4>2, <5>1
      <4> QED BY <4>1, <4>2
    <3>4. ok = 1..(x - 1)
      BY <1>1, <3>2, <3>3
    <3> QED BY <1>1, <3>2, <3>4, SMTT(30)
  <2> QED BY <2>1, <2>2
<1>3. PICK k \in 0..Len(a) : ok = 1..k
  BY <1>2
<1>4. okCount(a) = Cardinality(ok)
  BY DEF okCount
<1> HIDE DEF ok
<1>5. Cardinality(ok) = k
  <2>1. k \in Int /\ 1 \in Int
    BY <1>1
  <2>2. Cardinality(1..k) = IF 1 > k THEN 0 ELSE k - 1 + 1
    BY <2>1, FS_Interval
  <2> QED BY <1>1, <1>3, <2>2
<1> QED BY <1>3, <1>4, <1>5 DEF ok

\* Score() is a median of the answers that came: at most half are below, at most half above.
LEMMA ScoreIsMedian ==
  ASSUME NEW a \in Answers, okCount(a) > 0
  PROVE  LET oks == {i \in DOMAIN a : a[i] <= MaxAnswer}
         IN  /\ Score(a) \in 1..MaxAnswer
             /\ 2 * Cardinality({i \in oks : a[i] < Score(a)}) < Cardinality(oks)
             /\ 2 * Cardinality({i \in oks : a[i] > Score(a)}) <= Cardinality(oks)
<1> DEFINE oks == {i \in DOMAIN a : a[i] <= MaxAnswer}
           k == okCount(a)
           h == ((k - 1) \div 2) + 1
           below == {i \in oks : a[i] < Score(a)}
           above == {i \in oks : a[i] > Score(a)}
<1>1. /\ a \in [1..Len(a) -> 1..fail] /\ Len(a) \in Nat /\ DOMAIN a = 1..Len(a)
      /\ fail \in Nat /\ fail = MaxAnswer + 1 /\ MaxAnswer \in Nat
      /\ \A i, j \in 1..Len(a) : i <= j => a[i] <= a[j]
  BY AnswersAscend
<1>2. k \in 1..Len(a) /\ {i \in DOMAIN a : a[i] # fail} = 1..k
  BY <1>1, OksLead
<1>3. oks = 1..k
  <2>1. \A i \in DOMAIN a : a[i] <= MaxAnswer <=> a[i] # fail
    BY <1>1
  <2> QED BY <1>2, <2>1
<1>4. h \in 1..k /\ 2 * (h - 1) < k /\ 2 * (k - h) <= k
  <2> HIDE DEF k
  <2> QED BY <1>1, <1>2
<1>5. Score(a) = a[h]
  <2>1. k # 0
    BY <1>1, <1>2
  <2> QED BY <2>1 DEF Score
<1> HIDE DEF k, h
<1>6. h \in oks
  BY <1>3, <1>4
<1>7. Score(a) \in 1..MaxAnswer
  BY <1>1, <1>5, <1>6
<1>8. \A i \in 1..k : i \in 1..Len(a)
  BY <1>1, <1>2
<1>9. below \in SUBSET (1..(h - 1))
  <2>1. ASSUME NEW i \in 1..k, a[i] < a[h] PROVE i < h
    <3>1. h <= i => a[h] <= a[i]
      BY <1>1, <1>4, <1>8
    <3>2. a[i] \in Int /\ a[h] \in Int
      BY <1>1, <1>4, <1>8
    <3> QED BY <1>2, <1>4, <2>1, <3>1, <3>2
  <2> QED BY <1>2, <1>3, <1>4, <1>5, <2>1
<1>10. above \in SUBSET ((h + 1)..k)
  <2>1. ASSUME NEW i \in 1..k, a[i] > a[h] PROVE i > h
    <3>1. i <= h => a[i] <= a[h]
      BY <1>1, <1>4, <1>8
    <3>2. a[i] \in Int /\ a[h] \in Int
      BY <1>1, <1>4, <1>8
    <3> QED BY <1>2, <1>4, <2>1, <3>1, <3>2
  <2> QED BY <1>2, <1>3, <1>4, <1>5, <2>1
<1> HIDE DEF below, above
<1>11. Cardinality(below) \in Nat /\ Cardinality(below) <= h - 1
  <2>1. IsFiniteSet(1..(h - 1)) /\ Cardinality(1..(h - 1)) = h - 1
    <3> DEFINE e == h - 1
    <3>1. 1 \in Int /\ e \in Int /\ e >= 0 /\ e = h - 1
      BY <1>1, <1>2, <1>4
    <3> HIDE DEF e
    <3>2. IsFiniteSet(1..e) /\ Cardinality(1..e) = IF 1 > e THEN 0 ELSE e - 1 + 1
      BY <3>1, FS_Interval
    <3>3. Cardinality(1..e) = e
      BY <3>1, <3>2
    <3> QED BY <3>1, <3>2, <3>3
  <2> QED BY <1>9, <2>1, FS_Subset, FS_CardinalityType
<1>12. Cardinality(above) \in Nat /\ Cardinality(above) <= k - h
  <2>1. IsFiniteSet((h + 1)..k) /\ Cardinality((h + 1)..k) = k - h
    <3> DEFINE e == h + 1
    <3>1. e \in Int /\ k \in Int /\ e - 1 <= k /\ e = h + 1 /\ h \in Int
      BY <1>1, <1>2, <1>4
    <3> HIDE DEF e
    <3>2. IsFiniteSet(e..k) /\ Cardinality(e..k) = IF e > k THEN 0 ELSE k - e + 1
      BY <3>1, FS_Interval
    <3>3. Cardinality(e..k) = k - h
      BY <3>1, <3>2
    <3> QED BY <3>1, <3>2, <3>3
  <2> QED BY <1>10, <2>1, FS_Subset, FS_CardinalityType
<1>13. Cardinality(oks) = k
  <2>1. 1 \in Int /\ k \in Int
    BY <1>2
  <2> HIDE DEF oks
  <2> QED BY <1>2, <1>3, <2>1, FS_Interval
<1>14. 2 * Cardinality(below) < Cardinality(oks) /\ 2 * Cardinality(above) <= Cardinality(oks)
  <2> HIDE DEF oks
  <2> QED BY <1>2, <1>4, <1>11, <1>12, <1>13
<1> QED BY <1>7, <1>14 DEF below, above

-----------------------------------------------------------------------------
(* Node checks: the ranking.                                                *)

\* The positions of the servers.
LEMMA NodesAreCounted ==
  /\ Len(Servers) \in Nat \ {0} /\ Nodes = 1..Len(Servers)
  /\ IsFiniteSet(Nodes) /\ Cardinality(Nodes) = Len(Servers) /\ 1 \in Nodes
<1>1. Len(Servers) \in Nat \ {0} /\ Nodes = 1..Len(Servers)
  BY NodeCheckAssumption DEF Nodes
<1> DEFINE n == Len(Servers)
<1>2. 1 \in Int /\ n \in Int /\ n >= 1
  BY <1>1
<1> HIDE DEF n
<1>3. IsFiniteSet(1..n) /\ Cardinality(1..n) = n
  BY <1>2, FS_Interval
<1> QED BY <1>1, <1>2, <1>3 DEF n

\* The first position of a server's id.
LEMMA FirstIndexIs ==
  ASSUME NEW n \in Nodes
  PROVE  firstIndex(n) \in Nodes
<1> DEFINE T == {m \in Nodes : Servers[m] = Servers[n]}
<1>1. T \in SUBSET Nat /\ T # {}
  BY NodesAreCounted
<1>2. firstIndex(n) = Min(T)
  BY DEF firstIndex
<1>3. T \subseteq Nodes
  OBVIOUS
<1> HIDE DEF T
<1>4. \E x \in T : \A y \in T : x <= y
  BY <1>1, LeastExists
<1>5. Min(T) \in T
  BY <1>4 DEF Min
<1> QED BY <1>2, <1>3, <1>5

\* What Rank() compares is comparable.
LEMMA ScoresAreNat ==
  ASSUME NEW a \in Answers
  PROVE  okCount(a) \in Nat /\ Score(a) \in Nat
<1>1. okCount(a) \in Nat
  BY AnswersAscend, OksLead
<1>2. CASE okCount(a) = 0
  BY <1>1, <1>2, AnswersAscend DEF Score, Unreachable
<1>3. CASE okCount(a) # 0
  <2>0. okCount(a) > 0
    BY <1>1, <1>3
  <2>1. Score(a) \in 1..MaxAnswer
    BY <2>0, ScoreIsMedian
  <2> QED BY <1>1, <2>1, AnswersAscend
<1> QED BY <1>1, <1>2, <1>3

\* Rank()'s comparison is a strict order of the positions.
LEMMA RankIsStrict ==
  ASSUME NEW as \in [Nodes -> Answers], NEW good
  PROVE  StrictOrder({p \in Nodes \X Nodes : before(as, good, p[1], p[2])}, Nodes)
<1> DEFINE R == {p \in Nodes \X Nodes : before(as, good, p[1], p[2])}
           c(n) == okCount(as[n])
           s(n) == Score(as[n])
           f(n) == firstIndex(n)
           u(n) == IF Usable(as[n]) THEN 1 ELSE 0
           g(n) == IF good # NoId /\ Servers[n] = good THEN 1 ELSE 0
           Better(m, n) ==
             \/ u(m) > u(n)
             \/ u(m) = u(n) /\ c(m) > c(n)
             \/ u(m) = u(n) /\ c(m) = c(n) /\ s(m) < s(n)
             \/ u(m) = u(n) /\ c(m) = c(n) /\ s(m) = s(n) /\ g(m) > g(n)
             \/ /\ u(m) = u(n) /\ c(m) = c(n) /\ s(m) = s(n) /\ g(m) = g(n)
                /\ f(m) < f(n) \/ (f(m) = f(n) /\ m < n)
<1>1. \A n \in Nodes : c(n) \in Nat /\ s(n) \in Nat /\ f(n) \in Nat /\ n \in Nat /\ u(n) \in Nat /\ g(n) \in Nat
  <2> SUFFICES ASSUME NEW n \in Nodes
               PROVE  c(n) \in Nat /\ s(n) \in Nat /\ f(n) \in Nat /\ n \in Nat /\ u(n) \in Nat /\ g(n) \in Nat
    OBVIOUS
  <2>1. as[n] \in Answers
    OBVIOUS
  <2>2. c(n) \in Nat /\ s(n) \in Nat
    BY <2>1, ScoresAreNat
  <2>3. f(n) \in Nat /\ n \in Nat
    BY FirstIndexIs, NodesAreCounted
  <2>4. u(n) \in Nat /\ g(n) \in Nat
    OBVIOUS
  <2> QED BY <2>2, <2>3, <2>4
<1>2. ASSUME NEW m \in Nodes, NEW n \in Nodes PROVE <<m, n>> \in R <=> Better(m, n)
  <2>1. <<m, n>> \in R <=> before(as, good, m, n)
    OBVIOUS
  <2>2. before(as, good, m, n) <=> Better(m, n)
    <3>1. c(m) \in Nat /\ c(n) \in Nat /\ s(m) \in Nat /\ s(n) \in Nat
      BY <1>1
    <3>2. /\ u(m) > u(n) <=> Usable(as[m]) /\ ~Usable(as[n])
          /\ u(m) = u(n) <=> (Usable(as[m]) <=> Usable(as[n]))
      <4>1. \A x : Usable(as[x]) => u(x) = 1
        BY Zenon
      <4>2. \A x : ~Usable(as[x]) => u(x) = 0
        BY Zenon
      <4> HIDE DEF u
      <4>3. CASE Usable(as[m]) /\ Usable(as[n])
        <5>1. u(m) = 1 /\ u(n) = 1
          BY <4>1, <4>3, Zenon
        <5>2. ~(u(m) > u(n)) /\ (u(m) = u(n))
          BY <5>1
        <5> QED BY <4>3, <5>2, Zenon
      <4>4. CASE Usable(as[m]) /\ ~Usable(as[n])
        <5>1. u(m) = 1 /\ u(n) = 0
          BY <4>1, <4>2, <4>4, Zenon
        <5>2. (u(m) > u(n)) /\ ~(u(m) = u(n))
          BY <5>1
        <5> QED BY <4>4, <5>2, Zenon
      <4>5. CASE ~Usable(as[m]) /\ Usable(as[n])
        <5>1. u(m) = 0 /\ u(n) = 1
          BY <4>1, <4>2, <4>5, Zenon
        <5>2. ~(u(m) > u(n)) /\ ~(u(m) = u(n))
          BY <5>1
        <5> QED BY <4>5, <5>2, Zenon
      <4>6. CASE ~Usable(as[m]) /\ ~Usable(as[n])
        <5>1. u(m) = 0 /\ u(n) = 0
          BY <4>2, <4>6, Zenon
        <5>2. ~(u(m) > u(n)) /\ (u(m) = u(n))
          BY <5>1
        <5> QED BY <4>6, <5>2, Zenon
      <4> QED BY <4>3, <4>4, <4>5, <4>6
    <3>3. /\ g(m) > g(n) <=> wasGood(good, m, n)
          /\ g(m) = g(n) <=> ~wasGood(good, m, n) /\ ~wasGood(good, n, m)
      BY DEF wasGood
    <3>4. wasGood(good, m, n) => ~wasGood(good, n, m)
      BY DEF wasGood
    <3>5. before(as, good, m, n) <=>
            \/ u(m) > u(n)
            \/ /\ u(m) = u(n)
               /\ \/ c(m) > c(n)
                  \/ c(m) = c(n) /\ s(m) < s(n)
                  \/ /\ c(m) = c(n) /\ s(m) = s(n)
                     /\ \/ g(m) > g(n)
                        \/ g(m) = g(n) /\ (f(m) < f(n) \/ (f(m) = f(n) /\ m < n))
      <4> HIDE DEF u, g
      <4> QED BY <3>2, <3>3, <3>4, Zenon DEF before
    <3> HIDE DEF u, c, s, f, g
    <3> QED BY <3>5
  <2> QED BY <2>1, <2>2
<1> HIDE DEF R, c, s, f, u, g
<1>3. \A a \in Nodes : ~Better(a, a)
  BY <1>1
<1>4. \A a, b, d \in Nodes : Better(a, b) /\ Better(b, d) => Better(a, d)
  BY <1>1
<1>5. \A a, b \in Nodes : a # b => Better(a, b) \/ Better(b, a)
  BY <1>1
<1> HIDE DEF Better
<1>6. StrictOrder(R, Nodes)
  BY <1>2, <1>3, <1>4, <1>5 DEF StrictOrder
<1> QED BY <1>6 DEF R

\* The first of the ranked positions is before every other.
LEMMA FirstIsBefore ==
  ASSUME NEW as \in [Nodes -> Answers], NEW good
  PROVE  LET first == Head(Rank(as, good))
         IN  first \in Nodes /\ \A n \in Nodes \ {first} : before(as, good, first, n)
<1> DEFINE R == {p \in Nodes \X Nodes : before(as, good, p[1], p[2])}
           k == Cardinality(Nodes)
           p == sorted(Nodes, R)
<1>1. Rank(as, good) = p
  BY DEF Rank
<1>2. Lists(p, Nodes) /\ \A i, j \in 1..k : i < j => <<p[i], p[j]>> \in R
  <2>1. StrictOrder(R, Nodes)
    BY RankIsStrict
  <2> HIDE DEF R
  <2> QED BY <2>1, NodesAreCounted, SortedLists
<1>3. \A m, n \in Nodes : <<m, n>> \in R => before(as, good, m, n)
  OBVIOUS
<1> HIDE DEF R, p
<1>4. k \in Nat \ {0} /\ p \in [1..k -> Nodes]
  BY <1>2, NodesAreCounted DEF Lists
<1>5. Head(p) = p[1]
  BY <1>4
<1>6. p[1] \in Nodes
  BY <1>4
<1>7. ASSUME NEW n \in Nodes \ {p[1]} PROVE before(as, good, p[1], n)
  <2>1. PICK i \in 1..k : p[i] = n
    BY <1>2 DEF Lists
  <2>2. i # 1 /\ 1 \in 1..k /\ 1 < i
    BY <1>4, <2>1
  <2> QED BY <1>2, <1>3, <1>6, <2>1, <2>2
<1> QED BY <1>1, <1>5, <1>6, <1>7

\* What a ranking offers is the best that was measured.
LEMMA BestIsMeasured ==
  ASSUME reply.answers \in [Nodes -> Answers], reply.best = Best(reply.answers, reply.good)
  PROVE  BestIsBest
<1> DEFINE As == reply.answers
           first == Head(Rank(As, reply.good))
           oks(a) == {i \in DOMAIN a : a[i] <= MaxAnswer}
           carries(a) == 2 * Cardinality({i \in DOMAIN a : a[i] <= MaxAnswer}) > Len(a)
           median(a, m) == /\ 2 * Cardinality({i \in oks(a) : a[i] < m}) < Cardinality(oks(a))
                           /\ 2 * Cardinality({i \in oks(a) : a[i] > m}) <= Cardinality(oks(a))
<1>1. ASSUME NEW a \in Answers
      PROVE  /\ okCount(a) = Cardinality(oks(a)) /\ okCount(a) \in Nat
             /\ carries(a) <=> Usable(a)
             /\ Usable(a) => okCount(a) > 0
             /\ okCount(a) > 0 => Score(a) \in 1..MaxAnswer /\ median(a, Score(a))
  <2>1. oks(a) = {i \in DOMAIN a : a[i] # fail}
    <3>1. \A i \in DOMAIN a : a[i] <= MaxAnswer <=> a[i] # fail
      BY AnswersAscend
    <3> QED BY <3>1
  <2>2. okCount(a) = Cardinality(oks(a))
    BY <2>1 DEF okCount
  <2>3. okCount(a) \in 0..Len(a) /\ Len(a) \in Nat
    BY OksLead, AnswersAscend
  <2>4. carries(a) <=> Usable(a)
    <3> HIDE DEF oks
    <3>1. carries(a) <=> 2 * okCount(a) > Len(a)
      BY <2>2 DEF oks
    <3> QED BY <2>3, <3>1 DEF Usable
  <2>5. okCount(a) > 0 => Score(a) \in 1..MaxAnswer /\ median(a, Score(a))
    BY ScoreIsMedian
  <2> QED BY <2>2, <2>3, <2>4, <2>5 DEF Usable
<1>2. first \in Nodes /\ \A n \in Nodes \ {first} : before(As, reply.good, first, n)
  BY FirstIsBefore
<1>3. \A n \in Nodes : As[n] \in Answers /\ n # 0
  BY NodesAreCounted
<1>4. reply.best = IF Usable(As[first]) THEN first ELSE 0
  BY DEF Best
<1> HIDE DEF carries, median, oks, first
<1>5. ASSUME NEW n \in Nodes, Usable(As[n])
      PROVE  /\ Usable(As[first])
             /\ \/ okCount(As[n]) < okCount(As[first])
                \/ /\ okCount(As[n]) = okCount(As[first])
                   /\ Score(As[first]) <= Score(As[n])
  <2>1. CASE n = first
    <3>1. Score(As[n]) \in Nat
      BY <1>3, ScoresAreNat
    <3> QED BY <1>5, <2>1, <3>1
  <2>2. CASE n # first
    <3>1. before(As, reply.good, first, n)
      BY <1>2, <2>2
    <3>2. /\ okCount(As[n]) \in Nat /\ okCount(As[first]) \in Nat
          /\ Score(As[n]) \in Nat /\ Score(As[first]) \in Nat
      BY <1>2, <1>3, ScoresAreNat
    <3>3. Usable(As[first])
      BY <1>5, <3>1 DEF before
    <3> QED BY <1>5, <3>1, <3>2, <3>3 DEF before
  <2> QED BY <2>1, <2>2
<1>6. CASE reply.best = 0
  <2>1. \A n \in Nodes : ~carries(As[n])
    BY <1>1, <1>2, <1>3, <1>4, <1>5, <1>6
  <2> QED BY <1>6, <2>1 DEF BestIsBest, carries
<1>7. CASE reply.best # 0
  <2>1. reply.best = first /\ Usable(As[first])
    BY <1>4, <1>7
  <2>2. carries(As[first])
    BY <1>1, <1>2, <1>3, <2>1
  <2>3. ASSUME NEW n \in Nodes, carries(As[n])
        PROVE  \/ Cardinality(oks(As[n])) < Cardinality(oks(As[first]))
               \/ /\ Cardinality(oks(As[n])) = Cardinality(oks(As[first]))
                  /\ \E x, y \in 1..MaxAnswer : /\ median(As[first], x) /\ median(As[n], y)
                                                /\ x <= y
    <3>1. Usable(As[n])
      BY <1>1, <1>3, <2>3
    <3>2. /\ Score(As[first]) \in 1..MaxAnswer /\ median(As[first], Score(As[first]))
          /\ Score(As[n]) \in 1..MaxAnswer /\ median(As[n], Score(As[n]))
          /\ Cardinality(oks(As[n])) = okCount(As[n])
          /\ Cardinality(oks(As[first])) = okCount(As[first])
      BY <1>1, <1>2, <1>3, <2>1, <3>1
    <3> QED BY <1>5, <3>1, <3>2
  <2> QED BY <1>7, <2>1, <2>2, <2>3, ZenonT(30) DEF BestIsBest, carries, median, oks
<1> QED BY <1>6, <1>7

-----------------------------------------------------------------------------
(* Node checks: the run.                                                    *)

\* A probe is kept from its launch to the return or the retry of its attempt; nodes are measured in
\* between, in order, and those started through a dead process carried nothing; and the exit named
\* is what Best() made of the answers that are reported.
CheckInv ==
  /\ CheckTypes
  /\ waiting <= asked
  /\ step = "none" <=> attempt = 0
  /\ step \in {"none", "launch"} => probes = {}
  /\ probes \subseteq {attempt}
  /\ inflight # {} => step = "measure"
  /\ inflight \subseteq 1..launched /\ late \subseteq 1..launched
  /\ \A n \in Nodes : n > launched => answers[n] = <<>>
  /\ \A n \in late : okCount(answers[n]) = 0
  /\ NoVerdictFromDeadProbe
  /\ reply.kind = "results" => reply.best = Best(reply.answers, reply.good)

\* What the constants are.
LEMMA Counts ==
  /\ Targets \in Nat \ {0} /\ checkFanout \in Nat \ {0} /\ probeStartAttempts \in Nat \ {0}
  /\ Ports \in Nat /\ MaxChecks \in Nat /\ Len(Servers) \in Nat \ {0}
BY NodeCheckAssumption

\* Before it was measured a node has no answers.
LEMMA UnprobedIs == Unprobed \in [Nodes -> Answers]
<1>1. <<>> \in Answers
  <2>1. <<>> \in [1..0 -> 1..fail] /\ 0 \in 0..Targets
    BY Counts
  <2>2. <<>> \in BoundedSeq(1..fail, Targets)
    BY <2>1 DEF BoundedSeq, SeqOf
  <2>3. Len(<<>>) = 0
    OBVIOUS
  <2> QED BY <2>2, <2>3 DEF Answers
<1> QED BY <1>1 DEF Unprobed

\* A reply that is not a ranking names no exit.
LEMMA RefusalsAre ==
  \A r \in {NoReply, Error} :
    /\ r.kind \in {"none", "error"} /\ r.answers \in [Nodes -> Answers] /\ r.best \in Nodes \cup {0}
BY UnprobedIs DEF NoReply, Error, Unprobed

\* A node without answers carried nothing.
LEMMA NothingCarried == okCount(<<>>) = 0
<1>1. {i \in DOMAIN <<>> : <<>>[i] # fail} = {}
  OBVIOUS
<1> QED BY <1>1, FS_EmptySet DEF okCount

\* Best() is a position some target was reached through, or none.
LEMMA BestIs ==
  ASSUME NEW as \in [Nodes -> Answers], NEW good
  PROVE  /\ Best(as, good) \in Nodes \cup {0}
         /\ Best(as, good) # 0 => okCount(as[Best(as, good)]) # 0
<1> DEFINE first == Head(Rank(as, good))
<1>1. first \in Nodes
  BY FirstIsBefore
<1>2. Best(as, good) = IF Usable(as[first]) THEN first ELSE 0
  BY DEF Best
<1> HIDE DEF first
<1>3. Usable(as[first]) => okCount(as[first]) # 0
  <2>1. Len(as[first]) \in Nat
    BY <1>1, AnswersAscend
  <2>2. Usable(as[first]) => Len(as[first]) > 0 /\ okCount(as[first]) * 2 > Len(as[first])
    BY DEF Usable
  <2>3. ASSUME okCount(as[first]) = 0 PROVE ~(okCount(as[first]) * 2 > Len(as[first]))
    <3>1. okCount(as[first]) * 2 = 0 * 2
      BY <2>3, Zenon
    <3>2. 0 * 2 = 0 /\ \A l \in Nat : ~(0 > l)
      OBVIOUS
    <3> QED BY <2>1, <3>1, <3>2, Zenon
  <2> QED BY <2>2, <2>3
<1>4. 0 \notin Nodes
  BY NodesAreCounted, Counts
<1> QED BY <1>1, <1>2, <1>3, <1>4

\* A block that is reserved has its first port in range.
LEMMA BlockIsInRange ==
  ASSUME NEW busy, NEW spans
  PROVE  reserveProbePortBlock(busy, spans) \in 0..Ports
<1> DEFINE free == {b \in 1..(Ports + 1 - Len(Servers)) :
                      /\ ~overlapsProbeSpan(b, spans)
                      /\ (b..(b + Len(Servers) - 1)) \cap busy = {}}
<1>1. free \subseteq 1..Ports
  BY Counts
<1>2. free \in SUBSET Nat
  BY <1>1, Counts
<1>3. reserveProbePortBlock(busy, spans) = IF free = {} THEN 0 ELSE Min(free)
  BY DEF reserveProbePortBlock
<1> HIDE DEF free
<1>4. CASE free = {}
  BY <1>3, <1>4, Counts
<1>5. CASE free # {}
  <2>1. \E x \in free : \A y \in free : x <= y
    BY <1>2, <1>5, LeastExists
  <2>2. Min(free) \in free
    BY <2>1 DEF Min
  <2>3. Min(free) \in 1..Ports
    BY <1>1, <2>2
  <2>4. reserveProbePortBlock(busy, spans) = Min(free)
    BY <1>3, <1>5
  <2> HIDE DEF Min
  <2> QED BY <2>3, <2>4, Counts
<1> QED BY <1>4, <1>5

\* A return stops the probe of the attempt, and what it reports is to be in order.
LEMMA ReturnKeeps ==
  ASSUME CheckInv, NEW r, Return(r), UNCHANGED requestVars,
         r.kind \in {"none", "error", "results"}, r.answers \in [Nodes -> Answers],
         r.best \in Nodes \cup {0},
         r.kind = "results" => /\ ~r.exited /\ r.best \notin r.late
                               /\ r.best = Best(r.answers, r.good)
  PROVE  CheckInv'
<1>1. /\ step' = "none" /\ attempt' = 0 /\ probes' = {} /\ inflight' = {} /\ tried' = {}
      /\ died' = FALSE /\ exited' = FALSE /\ budget' = FALSE
      /\ launched' = 0 /\ late' = {} /\ answers' = Unprobed /\ reply' = r
  BY DEF Return, CheckInv
<1>2. /\ 0 \in 0..probeStartAttempts /\ Cardinality({}) = 0 /\ 0 <= checkFanout
      /\ 0 \in 0..Len(Servers)
  BY Counts, FS_EmptySet
<1>3. CheckTypes'
  BY <1>1, <1>2, UnprobedIs DEF CheckInv, CheckTypes, requestVars
<1>4. NoVerdictFromDeadProbe'
  BY <1>1 DEF NoVerdictFromDeadProbe
<1>5. (reply.kind = "results" => reply.best = Best(reply.answers, reply.good))'
  BY <1>1
<1>6. \A n \in Nodes : Unprobed[n] = <<>>
  BY DEF Unprobed
<1> QED BY <1>1, <1>3, <1>4, <1>5, <1>6 DEF CheckInv, requestVars

\* So does one with an error.
LEMMA ErrorKeeps ==
  ASSUME CheckInv, Return(Error), UNCHANGED requestVars
  PROVE  CheckInv'
<1>1. Error.kind \in {"none", "error"} /\ Error.answers \in [Nodes -> Answers] /\ Error.best \in Nodes \cup {0}
  BY RefusalsAre
<1> QED BY <1>1, ReturnKeeps

\* A retry stops the probe before the next attempt begins.
LEMMA RetryKeeps ==
  ASSUME CheckInv, step \in {"launch", "ready"}, NEW spans \in SUBSET (1..Ports), Retry(spans),
         UNCHANGED requestVars
  PROVE  CheckInv'
<1>1. attempt \in 1..probeStartAttempts
  BY DEF CheckInv, CheckTypes
<1>2. attempt' \in 1..probeStartAttempts /\ attempt' # 0
  BY <1>1, Counts DEF Retry
<1>3. probes' = {} /\ step' = "launch" /\ tried' = spans
      /\ died' = FALSE /\ exited' = FALSE
  BY DEF Retry, CheckInv
<1>4. CheckTypes'
  <2>1. attempt' \in 0..probeStartAttempts /\ probes' \subseteq 1..probeStartAttempts
    BY <1>2, <1>3, Counts
  <2>2. UNCHANGED <<budget, poolVars, reply>>
    BY DEF Retry
  <2> QED BY <1>3, <2>1, <2>2 DEF CheckInv, CheckTypes, poolVars, requestVars
<1>5. inflight = {}
  BY DEF CheckInv
<1> QED BY <1>2, <1>3, <1>4, <1>5 DEF Retry, CheckInv, NoVerdictFromDeadProbe, poolVars, requestVars

\* Every step keeps it.
LEMMA CheckStep == CheckInv /\ [CheckNext]_checkVars => CheckInv'
<1> SUFFICES ASSUME CheckInv, [CheckNext]_checkVars PROVE CheckInv'
  OBVIOUS
<1>1. CASE Ask
  <2>1. waiting' \in 0..MaxChecks /\ asked' \in 0..MaxChecks /\ waiting' <= asked'
    BY <1>1, Counts DEF Ask, CheckInv, CheckTypes
  <2>2. CheckTypes'
    BY <1>1, <2>1 DEF Ask, CheckInv, CheckTypes, processVars, poolVars, requestVars
  <2> QED BY <1>1, <2>1, <2>2 DEF Ask, CheckInv, NoVerdictFromDeadProbe, processVars, poolVars, requestVars
<1>2. CASE Refuse
  <2>1. waiting' \in 0..MaxChecks /\ waiting' <= asked'
    BY <1>2, Counts DEF Refuse, CheckInv, CheckTypes
  <2>2. CheckTypes'
    BY <1>2, <2>1 DEF Refuse, CheckInv, CheckTypes, processVars, poolVars, requestVars
  <2> QED BY <1>2, <2>1, <2>2 DEF Refuse, CheckInv, NoVerdictFromDeadProbe, processVars, poolVars, requestVars
<1>3. CASE Begin
  <2>1. waiting' \in 0..MaxChecks /\ waiting' <= asked'
    BY <1>3, Counts DEF Begin, CheckInv, CheckTypes
  <2>2. 1 \in 0..probeStartAttempts
    BY Counts
  <2>3. /\ NoReply.kind \in {"none", "error"} /\ NoReply.answers \in [Nodes -> Answers]
        /\ NoReply.best \in Nodes \cup {0}
    BY RefusalsAre
  <2>4. CheckTypes'
    BY <1>3, <2>1, <2>2, <2>3, UnprobedIs DEF Begin, CheckInv, CheckTypes, processVars, poolVars
  <2>5. /\ step' = "launch" /\ attempt' = 1 /\ probes' = {} /\ inflight = {}
        /\ UNCHANGED poolVars /\ reply'.kind # "results"
    BY <1>3, <2>3 DEF Begin, CheckInv, processVars
  <2> QED BY <2>1, <2>4, <2>5 DEF CheckInv, NoVerdictFromDeadProbe, poolVars
<1>4. CASE BudgetEnds
  BY <1>4 DEF BudgetEnds, CheckInv, CheckTypes, NoVerdictFromDeadProbe,
        processVars, poolVars, requestVars
<1>5. CASE ProbeDies \/ PublishExit
  BY <1>5 DEF ProbeDies, PublishExit, poolVars, requestVars, CheckInv, CheckTypes, NoVerdictFromDeadProbe
<1>6. CASE Launch
  <2>0. step = "launch" /\ UNCHANGED requestVars
    BY <1>6 DEF Launch
  <2>1. PICK busy \in SUBSET (1..Ports) :
          LET base == reserveProbePortBlock(busy, tried)
          IN  \/ Return(Error)
              \/ base # 0 /\ Retry(tried \cup {base})
              \/ /\ base # 0
                 /\ probes' = probes \cup {attempt} /\ step' = "ready" /\ tried' = tried \cup {base}
                 /\ UNCHANGED <<attempt, died, exited, budget, poolVars, reply>>
    BY <1>6 DEF Launch
  <2> DEFINE base == reserveProbePortBlock(busy, tried)
  <2>2. base # 0 => tried \cup {base} \in SUBSET (1..Ports)
    <3>1. base \in 0..Ports /\ tried \in SUBSET (1..Ports)
      BY BlockIsInRange DEF CheckInv, CheckTypes
    <3> HIDE DEF base
    <3> QED BY <3>1, Counts
  <2> HIDE DEF base
  <2>3. CASE Return(Error)
    BY <2>0, <2>3, ErrorKeeps
  <2>4. CASE base # 0 /\ Retry(tried \cup {base})
    BY <2>0, <2>2, <2>4, RetryKeeps
  <2>5. CASE /\ base # 0
             /\ probes' = probes \cup {attempt} /\ step' = "ready" /\ tried' = tried \cup {base}
             /\ UNCHANGED <<attempt, died, exited, budget, poolVars, reply>>
    <3>1. attempt \in 1..probeStartAttempts
      BY <2>0 DEF CheckInv, CheckTypes
    <3> QED BY <2>0, <2>2, <2>5, <3>1 DEF CheckInv, CheckTypes, NoVerdictFromDeadProbe, processVars, poolVars, requestVars
  <2> QED BY <2>1, <2>3, <2>4, <2>5 DEF base
<1>7. CASE WaitForProbeListeners
  <2>0. step = "ready" /\ UNCHANGED requestVars
    BY <1>7 DEF WaitForProbeListeners
  <2>1. CASE Return(Error)
    BY <2>0, <2>1, ErrorKeeps
  <2>2. CASE Retry(tried)
    <3>1. tried \in SUBSET (1..Ports)
      BY DEF CheckInv, CheckTypes
    <3> QED BY <2>0, <2>2, <3>1, RetryKeeps
  <2>3. CASE /\ ~exited /\ step' = "measure"
             /\ UNCHANGED <<attempt, tried, processVars, budget, poolVars, reply>>
    BY <2>0, <2>3 DEF CheckInv, CheckTypes, NoVerdictFromDeadProbe, processVars, poolVars, requestVars
  <2> QED BY <1>7, <2>1, <2>2, <2>3 DEF WaitForProbeListeners
<1>8. CASE Finish
  <2>0. step = "measure" /\ UNCHANGED requestVars
    BY <1>8 DEF Finish
  <2>1. CASE exited
    BY <1>8, <2>0, <2>1, ErrorKeeps DEF Finish
  <2>2. CASE ~exited
    <3> DEFINE r == Ranked
    <3>1. Return(r)
      BY <1>8, <2>2 DEF Finish
    <3>2. answers \in [Nodes -> Answers]
      BY DEF CheckInv, CheckTypes
    <3>3. /\ Best(answers, connected) \in Nodes \cup {0}
          /\ Best(answers, connected) # 0 => okCount(answers[Best(answers, connected)]) # 0
      BY <3>2, BestIs
    <3>4. 0 \notin late /\ \A n \in late : okCount(answers[n]) = 0
      BY DEF CheckInv
    <3>5. Best(answers, connected) \notin late
      BY <3>3, <3>4
    <3>6. /\ r.kind = "results" /\ r.answers \in [Nodes -> Answers] /\ r.best \in Nodes \cup {0}
          /\ ~r.exited /\ r.best \notin r.late /\ r.best = Best(r.answers, r.good)
      BY <2>2, <3>2, <3>3, <3>5 DEF Ranked
    <3> HIDE DEF r
    <3> QED BY <2>0, <3>1, <3>6, ReturnKeeps
  <2> QED BY <2>1, <2>2
<1>9. ASSUME NEW n \in Nodes, LaunchNode(n) PROVE CheckInv'
  <2>1. inflight \in SUBSET Nodes /\ IsFiniteSet(inflight)
    BY NodesAreCounted, FS_Subset DEF CheckInv, CheckTypes
  <2>2. Cardinality(inflight \cup {n}) <= checkFanout
    <3>1. Cardinality(inflight) \in Nat /\ Cardinality(inflight) < checkFanout
      BY <1>9, <2>1, FS_CardinalityType DEF LaunchNode
    <3>2. Cardinality(inflight \cup {n}) = IF n \in inflight THEN Cardinality(inflight)
                                           ELSE Cardinality(inflight) + 1
      BY <2>1, FS_AddElement
    <3> QED BY <3>1, <3>2, Counts
  <2>3. /\ launched \in Nat /\ launched' = n /\ n = launched + 1 /\ n \in 0..Len(Servers)
        /\ Nodes = 1..Len(Servers)
    BY <1>9, Counts, NodesAreCounted DEF LaunchNode, CheckInv, CheckTypes
  <2>4. CheckTypes'
    BY <1>9, <2>2, <2>3 DEF LaunchNode, CheckInv, CheckTypes, processVars, requestVars
  <2>5. inflight' \subseteq 1..launched' /\ late' \subseteq 1..launched'
    <3>1. inflight' = inflight \cup {n} /\ late' \subseteq late \cup {n}
      BY <1>9 DEF LaunchNode
    <3>2. 1..launched \subseteq 1..launched' /\ n \in 1..launched'
      BY <2>3
    <3> QED BY <3>1, <3>2 DEF CheckInv
  <2>6. \A m \in Nodes : m > launched' => answers'[m] = <<>>
    BY <1>9, <2>3 DEF LaunchNode, CheckInv
  <2>7. \A m \in late' : okCount(answers'[m]) = 0
    <3>1. answers[n] = <<>>
      BY <2>3 DEF CheckInv
    <3>2. answers' = answers /\ late' \subseteq late \cup {n}
      BY <1>9 DEF LaunchNode
    <3> QED BY <3>1, <3>2, NothingCarried DEF CheckInv
  <2> QED BY <1>9, <2>4, <2>5, <2>6, <2>7 DEF LaunchNode, CheckInv, NoVerdictFromDeadProbe,
                                              processVars, requestVars
<1>10. ASSUME NEW n \in Nodes, ProbeNode(n) PROVE CheckInv'
  <2>1. inflight \in SUBSET Nodes /\ IsFiniteSet(inflight)
    BY NodesAreCounted, FS_Subset DEF CheckInv, CheckTypes
  <2>2. Cardinality(inflight \ {n}) <= checkFanout
    <3>1. Cardinality(inflight) \in Nat /\ Cardinality(inflight) <= checkFanout
      BY <2>1, FS_CardinalityType DEF CheckInv, CheckTypes
    <3>2. Cardinality(inflight \ {n}) = IF n \in inflight THEN Cardinality(inflight) - 1
                                        ELSE Cardinality(inflight)
      BY <2>1, FS_RemoveElement
    <3> QED BY <3>1, <3>2, Counts
  <2>3. PICK a \in Answers : (n \in late => okCount(a) = 0) /\ answers' = [answers EXCEPT ![n] = a]
    BY <1>10 DEF ProbeNode
  <2>4. answers \in [Nodes -> Answers]
    BY DEF CheckInv, CheckTypes
  <2>5. answers' \in [Nodes -> Answers]
    BY <2>3, <2>4
  <2>6. /\ inflight' = inflight \ {n} /\ UNCHANGED <<launched, late>> /\ n \in 1..launched
        /\ launched \in Nat /\ Nodes \subseteq Nat
    BY <1>10, Counts, NodesAreCounted DEF ProbeNode, CheckInv, CheckTypes
  <2>7. \A m \in Nodes : m > launched' => answers'[m] = <<>>
    BY <2>3, <2>4, <2>6 DEF CheckInv
  <2>8. \A m \in late' : okCount(answers'[m]) = 0
    <3>1. late \subseteq Nodes
      BY DEF CheckInv, CheckTypes
    <3> QED BY <2>3, <2>4, <2>6, <3>1 DEF CheckInv
  <2>9. CheckTypes'
    BY <1>10, <2>2, <2>5, <2>6 DEF ProbeNode, CheckInv, CheckTypes, processVars, requestVars
  <2> QED BY <1>10, <2>6, <2>7, <2>8, <2>9 DEF ProbeNode, CheckInv, NoVerdictFromDeadProbe,
                                               processVars, requestVars
<1>11. ASSUME NEW good \in Range(Servers) \cup {NoId}, StateChanges(good) PROVE CheckInv'
  BY <1>11 DEF StateChanges, CheckInv, CheckTypes, NoVerdictFromDeadProbe,
        processVars, poolVars, requestVars
<1>12. CASE UNCHANGED checkVars
  BY <1>12 DEF checkVars, CheckInv, CheckTypes, NoVerdictFromDeadProbe,
        processVars, poolVars, requestVars
<1> QED BY <1>1, <1>2, <1>3, <1>4, <1>5, <1>6, <1>7, <1>8, <1>9, <1>10, <1>11, <1>12 DEF CheckNext

\* A reported verdict was measured: one probe at a time and none left behind; no ranking past an exit
\* that could be read, and none that names a node started only after the process died; and no exit
\* better than the one named (nodecheck.go: handleCheckNodes, probeBindings, Rank, Best).
THEOREM ChecksAreMeasured == CheckSpec => []VerdictsAreMeasured
<1>1. CheckInit => CheckInv
  <2> SUFFICES ASSUME CheckInit PROVE CheckInv
    OBVIOUS
  <2>1. /\ 0 \in 0..probeStartAttempts /\ Cardinality({}) = 0 /\ 0 <= checkFanout
        /\ 0 \in 0..MaxChecks /\ 0 \in 0..Len(Servers) /\ \A n \in Nodes : Unprobed[n] = <<>>
    BY Counts, FS_EmptySet DEF Unprobed
  <2>2. /\ NoReply.kind \in {"none", "error"} /\ NoReply.answers \in [Nodes -> Answers]
        /\ NoReply.best \in Nodes \cup {0}
    BY RefusalsAre
  <2>3. CheckTypes
    BY <2>1, <2>2, UnprobedIs DEF CheckInit, CheckTypes
  <2> QED BY <2>1, <2>2, <2>3 DEF CheckInit, CheckInv, NoVerdictFromDeadProbe
<1>2. CheckInv => VerdictsAreMeasured
  <2> SUFFICES ASSUME CheckInv PROVE VerdictsAreMeasured
    OBVIOUS
  <2>1. ProbeIsStopped
    BY DEF CheckInv, ProbeIsStopped
  <2>2. reply.kind = "results" => BestIsBest
    BY BestIsMeasured DEF CheckInv, CheckTypes
  <2>3. BestIsBest
    BY <2>2 DEF BestIsBest
  <2> QED BY <2>1, <2>3 DEF CheckInv, VerdictsAreMeasured
<1> QED BY <1>1, <1>2, CheckStep, PTL DEF CheckSpec
=============================================================================
