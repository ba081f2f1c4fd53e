--------------------------- MODULE MetaListProofs ---------------------------
(***************************************************************************)
(* Theorems about MetaList: the client's queries and the pages of its      *)
(* list, for any finite set of servers, any size of pages and any number   *)
(* of queries, refreshes, changes of the register and faults.              *)
(***************************************************************************)
EXTENDS MetaList, Induction

-----------------------------------------------------------------------------
\* Types.

Requests == [kind : {"CLIENTKEEPALIVE", "LISTREQ"}, port : Nat, data : Seq(Nat)]

Responses == [kind : {"HANDSHAKE"}, port : Nat, data : Seq(Nat)]
                \cup [kind : {"LISTRESP"}, port : Nat, data : Seq(Nat) \ {<<>>}]

Datagrams == Requests \cup Responses

AllPieces == [what : {"HANDSHAKE", "LIST_RESP", "address"}, a : Nat, b : Nat]

Metas == [m_status : {"INVALID", "VALID", "GETTING_LIST", "QUERYING"},
          m_gameServers : Seq(Nat), m_lastValidList : Seq(Nat), m_totalServers : Nat,
          m_ipBuffer : Seq(Nat), packed : Nat,
          expects : {"nothing", "command", "addresses"},
          buffer : Seq(AllPieces), port : Nat, resolving : BOOLEAN, open : BOOLEAN,
          timer : BOOLEAN, m_activeQueries : SUBSET Nat, m_nextQuery : Nat,
          out : Seq(Requests), completed : BOOLEAN, done : BOOLEAN]

-----------------------------------------------------------------------------
\* The invariant.  The queries under way are queries of servers that the
\* client has, and not too many.
Queried(m) ==
    /\ m.m_nextQuery <= Len(m.m_gameServers)
    /\ m.m_activeQueries \subseteq 1 .. m.m_nextQuery
    /\ Cardinality(m.m_activeQueries) <= MaxQueries

\* What a handler leaves of the client, and with it gotData after each piece:
\* no slot is free while a server is left.
Busy == {m \in Metas : /\ Queried(m)
                       /\ m.m_nextQuery < Len(m.m_gameServers)
                                => Cardinality(m.m_activeQueries) = MaxQueries}

ListInv == meta \in Busy /\ DOMAIN net \subseteq Datagrams

-----------------------------------------------------------------------------
\* What the metaserver sends.

\* Of some numbers there is one that so many are less than.
LEMMA RanksExist ==
    ASSUME NEW S \in SUBSET Servers
    PROVE  \A i \in 1 .. Cardinality(S) : \E s \in S : Cardinality({t \in S : t < s}) = i - 1
<1> DEFINE Ranked(T) == \A i \in 1 .. Cardinality(T) :
                            \E s \in T : Cardinality({t \in T : t < s}) = i - 1
           Good == {n \in Nat : \A T \in SUBSET Servers : Cardinality(T) = n => Ranked(T)}
<1>1. Servers \subseteq Nat /\ \A T \in SUBSET Servers : IsFiniteSet(T) /\ Cardinality(T) \in Nat
  BY MetaListAssumption, FS_Subset, FS_CardinalityType
<1>2. 0 \in Good
  BY <1>1
<1>3. ASSUME NEW n \in Nat, n \in Good PROVE n + 1 \in Good
  <2> SUFFICES ASSUME NEW T \in SUBSET Servers, Cardinality(T) = n + 1 PROVE Ranked(T)
    <3> HIDE DEF Ranked
    <3> QED OBVIOUS
  <2>1. IsFiniteSet(T) /\ T \subseteq Nat
    BY <1>1
  <2>2. T # {}
    <3>1. Cardinality({}) = 0 /\ n + 1 # 0
      BY FS_EmptySet
    <3> QED BY <3>1
  <2>3. PICK x \in T : \A y \in T : y <= x
    BY <2>1, <2>2, FiniteHasMax
  <2>4. PICK U : U = T \ {x} /\ U \in SUBSET Servers
    OBVIOUS
  <2>5. Cardinality(U) = n
    <3>1. Cardinality(T \ {x}) = Cardinality(T) - 1
      BY <2>1, FS_RemoveElement
    <3> QED BY <2>4, <3>1
  <2>6. Ranked(U)
    <3> HIDE DEF Ranked
    <3> QED BY <1>3, <2>4, <2>5
  <2>7. ASSUME NEW i \in 1 .. Cardinality(T)
        PROVE  \E s \in T : Cardinality({t \in T : t < s}) = i - 1
    <3>1. CASE i = n + 1
      <4>1. {t \in T : t < x} = U
        <5>1. \A t \in T : t < x <=> t # x
          BY <2>1, <2>3
        <5> QED BY <2>4, <5>1
      <4> QED BY <2>5, <3>1, <4>1
    <3>2. CASE i # n + 1
      <4>1. i \in 1 .. Cardinality(U)
        BY <2>5, <3>2
      <4>2. PICK s \in U : Cardinality({t \in U : t < s}) = i - 1
        BY <2>6, <4>1
      <4>3. {t \in U : t < s} = {t \in T : t < s}
        BY <2>1, <2>3, <2>4
      <4> QED BY <2>4, <4>2, <4>3
    <3> QED BY <3>1, <3>2
  <2> QED BY <2>7
<1>4. \A n \in Nat : n \in Good
  <2> HIDE DEF Good
  <2> QED BY <1>2, <1>3, NumberInduction
<1>5. Ranked(S)
  <2> HIDE DEF Ranked
  <2> QED BY <1>1, <1>4
<1> QED BY <1>5

LEMMA AscendingType ==
    ASSUME NEW S \in SUBSET Servers
    PROVE  Ascending(S) \in Seq(S)
<1>1. Cardinality(S) \in Nat
  BY MetaListAssumption, FS_Subset, FS_CardinalityType
<1>2. ASSUME NEW i \in 1 .. Cardinality(S)
      PROVE  (CHOOSE s \in S : Cardinality({t \in S : t < s}) = i - 1) \in S
  BY RanksExist
<1>3. Ascending(S) \in [1 .. Cardinality(S) -> S]
  BY <1>2 DEF Ascending
<1> QED BY <1>1, <1>3

LEMMA PackedType ==
    ASSUME NEW page
    PROVE  Packed(page) \in Seq(Nat)
<1>1. PICK S : S = Range(page) \cap Known
  OBVIOUS
<1>2. S \in SUBSET Servers
  BY <1>1 DEF Known
<1>3. PICK alive \in Seq(S) : alive = Ascending(S)
  BY <1>2, AscendingType
<1> DEFINE full(i) == {j \in 1 .. i : sessions[alive[j]] = "full"}
           last(i) == CHOOSE j \in full(i) : \A k \in full(i) : k <= j
<1>4. S \subseteq Nat
  BY <1>2, MetaListAssumption
<1>5. ASSUME NEW i \in DOMAIN alive, full(i) # {} PROVE alive[last(i)] \in Nat
  <2>1. i \in Nat /\ i <= Len(alive) /\ full(i) \in SUBSET Nat /\ \A j \in full(i) : j <= i
    OBVIOUS
  <2>2. IsFiniteSet(full(i))
    <3> HIDE DEF full
    <3> QED BY <2>1, FS_BoundedSetOfNaturals
  <2>3. \E j \in full(i) : \A k \in full(i) : k <= j
    <3> HIDE DEF full
    <3> QED BY <1>5, <2>1, <2>2, FiniteHasMax
  <2>4. last(i) \in full(i)
    <3> HIDE DEF full
    <3> QED BY <2>3
  <2>5. last(i) \in 1 .. Len(alive)
    <3> HIDE DEF last
    <3> QED BY <2>1, <2>4
  <2>6. \A j \in 1 .. Len(alive) : alive[j] \in S
    OBVIOUS
  <2> HIDE DEF last
  <2> QED BY <1>4, <2>5, <2>6
<1>6. Packed(page) = [i \in DOMAIN alive |-> IF full(i) = {} THEN 0 ELSE alive[last(i)]]
  BY <1>1, <1>3 DEF Packed
<1>7. Packed(page) \in [DOMAIN alive -> Nat]
  <2> HIDE DEF full, last
  <2> QED BY <1>5, <1>6
<1> QED BY <1>7

-----------------------------------------------------------------------------
\* The client's handlers.

LEMMA BusyFacts ==
    ASSUME NEW m \in Metas, Queried(m)
    PROVE  /\ IsFiniteSet(m.m_activeQueries) /\ Cardinality(m.m_activeQueries) \in Nat
           /\ m.m_nextQuery \in Nat /\ Len(m.m_gameServers) \in Nat
           /\ MaxQueries \in Nat /\ MaxQueries > 0
<1>1. /\ m.m_nextQuery \in Nat /\ Len(m.m_gameServers) \in Nat
      /\ MaxQueries \in Nat /\ MaxQueries > 0
  BY MetaListAssumption DEF Metas
<1>2. IsFiniteSet(1 .. m.m_nextQuery)
  BY <1>1, FS_Interval
<1>3. m.m_activeQueries \in SUBSET (1 .. m.m_nextQuery)
  BY DEF Queried
<1> QED BY <1>1, <1>2, <1>3, FS_Subset, FS_CardinalityType

\* n[j] counts the slots that the servers after next, up to j, take.
Slots(n, next) ==
    /\ n \in [Nat -> Nat] /\ n[next] = 0
    /\ \A i, j \in Nat : i <= j => n[i] <= n[j]
    /\ \A i \in Nat : n[i + 1] <= n[i] + 1

\* The servers for which a slot is free.
Fitting(asked, n, next, all, free) ==
    /\ asked \subseteq next + 1 .. all
    /\ \A j \in next + 1 .. all : j \in asked <=> n[j - 1] < free

\* query() asks the servers up to the one that takes the last slot.
LEMMA AskedUpto ==
    ASSUME NEW next \in Nat, NEW all \in Nat, next <= all, NEW free \in Nat,
           NEW n, Slots(n, next), NEW asked, Fitting(asked, n, next, all, free)
    PROVE  \E k \in Nat : /\ next <= k /\ k <= all /\ asked = next + 1 .. k
                          /\ n[k] <= free
                          /\ k < all => n[k] = free
<1>0. n \in [Nat -> Nat] /\ n[next] = 0 /\ asked \subseteq next + 1 .. all
  BY DEF Slots, Fitting
<1>1. CASE asked = {}
  <2>1. asked = next + 1 .. next
    BY <1>1
  <2>2. next < all => free = 0
    <3>1. next < all => next + 1 \in next + 1 .. all /\ (next + 1) - 1 = next
      OBVIOUS
    <3>2. next < all => ~(n[next] < free)
      BY <1>1, <3>1 DEF Fitting
    <3> QED BY <1>0, <3>2
  <2>3. 0 <= free /\ next <= next
    OBVIOUS
  <2> QED BY <1>0, <2>1, <2>2, <2>3
<1>2. CASE asked # {}
  <2>1. IsFiniteSet(next + 1 .. all)
    BY FS_Interval
  <2>2. IsFiniteSet(asked)
    BY <1>0, <2>1, FS_Subset
  <2>3. asked \subseteq Nat
    BY <1>0
  <2>4. PICK k \in asked : \A j \in asked : j <= k
    BY <1>2, <2>2, <2>3, FiniteHasMax
  <2>5. PICK i \in Nat : k = i + 1 /\ next <= i /\ k <= all /\ k \in Nat /\ n[i] < free
    <3>1. PICK i : i = k - 1
      OBVIOUS
    <3>2. k \in next + 1 .. all
      BY <1>0, <2>4
    <3>3. n[k - 1] < free
      BY <2>4, <3>2 DEF Fitting
    <3> QED BY <3>1, <3>2, <3>3
  <2>6. asked = next + 1 .. k
    <3>1. ASSUME NEW j \in next + 1 .. k PROVE j \in asked
      <4>1. PICK h \in Nat : h = j - 1 /\ h <= i /\ j \in next + 1 .. all
        BY <2>5
      <4>2. n[h] < free
        <5>1. n[h] <= n[i] /\ n[h] \in Nat /\ n[i] \in Nat
          BY <4>1 DEF Slots
        <5> QED BY <2>5, <5>1
      <4> QED BY <4>1, <4>2 DEF Fitting
    <3>2. ASSUME NEW j \in asked PROVE j \in next + 1 .. k
      <4>1. j \in next + 1 .. all /\ j <= k /\ k \in Nat
        BY <1>0, <2>4, <2>5
      <4> QED BY <4>1
    <3> QED BY <3>1, <3>2
  <2>7. n[k] <= free
    <3>1. n[k] <= n[i] + 1 /\ n[i] \in Nat /\ n[k] \in Nat
      BY <2>5 DEF Slots
    <3> QED BY <2>5, <3>1
  <2>8. k < all => n[k] = free
    <3>1. k + 1 \notin asked
      BY <2>4, <2>5
    <3>2. k < all => k + 1 \in next + 1 .. all /\ (k + 1) - 1 = k
      BY <2>5
    <3>3. k < all => ~(n[k] < free)
      BY <3>1, <3>2 DEF Fitting
    <3>4. n[k] \in Nat
      BY <1>0, <2>5
    <3> QED BY <2>7, <3>3, <3>4
  <2>9. next <= k
    BY <2>5
  <2> QED BY <2>5, <2>6, <2>7, <2>8, <2>9
<1> QED BY <1>1, <1>2

\* The same, with the slots counted as query() does: servers in R take none.
Served(asked, next, all, free, R) ==
    /\ asked \subseteq next + 1 .. all
    /\ \A j \in next + 1 .. all :
            j \in asked <=> Cardinality((next + 1 .. j - 1) \ R) < free

LEMMA AskedServers ==
    ASSUME NEW next \in Nat, NEW all \in Nat, next <= all, NEW free \in Nat, NEW R,
           NEW asked, Served(asked, next, all, free, R)
    PROVE  \E k \in Nat :
              /\ next <= k /\ k <= all /\ asked = next + 1 .. k
              /\ Cardinality(asked \ R) <= free
              /\ k < all => Cardinality(asked \ R) = free
<1> DEFINE Upto(j) == (next + 1 .. j) \ R
<1>1. PICK n : n = [j \in Nat |-> Cardinality(Upto(j))]
  OBVIOUS
<1>2. \A j \in Nat : n[j] = Cardinality(Upto(j))
  BY <1>1
<1>3. \A j \in Nat : IsFiniteSet(Upto(j)) /\ Cardinality(Upto(j)) \in Nat
  <2> TAKE j \in Nat
  <2>1. IsFiniteSet(next + 1 .. j)
    BY FS_Interval
  <2>2. Upto(j) \in SUBSET (next + 1 .. j)
    OBVIOUS
  <2> HIDE DEF Upto
  <2> QED BY <2>1, <2>2, FS_Subset, FS_CardinalityType
<1>4. \A i, j \in Nat : i <= j => n[i] <= n[j]
  <2> TAKE i, j \in Nat
  <2> HAVE i <= j
  <2>1. Upto(i) \in SUBSET Upto(j)
    OBVIOUS
  <2> HIDE DEF Upto
  <2> QED BY <1>2, <1>3, <2>1, FS_Subset
<1>5. \A i \in Nat : n[i + 1] <= n[i] + 1
  <2> TAKE i \in Nat
  <2>1. Upto(i + 1) \in SUBSET (Upto(i) \cup {i + 1})
    OBVIOUS
  <2>2. PICK T, x : T = Upto(i) /\ x = i + 1
    OBVIOUS
  <2>3. IsFiniteSet(T) /\ Cardinality(T) \in Nat
    <3> HIDE DEF Upto
    <3> QED BY <1>3, <2>2
  <2>4. IsFiniteSet(T \cup {x}) /\ Cardinality(T \cup {x}) \in {Cardinality(T), Cardinality(T) + 1}
    BY <2>3, FS_AddElement
  <2>5. Cardinality(Upto(i + 1)) <= Cardinality(T \cup {x})
    <3> HIDE DEF Upto
    <3> QED BY <2>1, <2>2, <2>4, FS_Subset
  <2>6. n[i + 1] = Cardinality(Upto(i + 1)) /\ n[i] = Cardinality(T) /\ n[i + 1] \in Nat
    <3>1. i + 1 \in Nat
      OBVIOUS
    <3> HIDE DEF Upto
    <3> QED BY <1>2, <1>3, <2>2, <3>1
  <2> HIDE DEF Upto
  <2> QED BY <2>3, <2>4, <2>5, <2>6
<1>6. n[next] = 0
  <2>1. Upto(next) = {}
    OBVIOUS
  <2> HIDE DEF Upto
  <2> QED BY <1>2, <2>1, FS_EmptySet
<1>7. n \in [Nat -> Nat]
  <2> HIDE DEF Upto
  <2> QED BY <1>1, <1>3
<1>8. \A j \in next + 1 .. all : j \in asked <=> n[j - 1] < free
  <2> TAKE j \in next + 1 .. all
  <2>1. j - 1 \in Nat
    OBVIOUS
  <2>2. n[j - 1] = Cardinality((next + 1 .. j - 1) \ R)
    BY <1>2, <2>1
  <2> QED BY <2>2 DEF Served
<1>9. PICK k \in Nat : /\ next <= k /\ k <= all /\ asked = next + 1 .. k
                       /\ n[k] <= free
                       /\ k < all => n[k] = free
  <2> HIDE DEF Upto
  <2>1. Slots(n, next)
    BY <1>4, <1>5, <1>6, <1>7 DEF Slots
  <2>2. Fitting(asked, n, next, all, free)
    BY <1>8 DEF Fitting, Served
  <2> QED BY <2>1, <2>2, AskedUpto
<1>10. Cardinality(asked \ R) = n[k]
  BY <1>2, <1>9
<1> QED BY <1>9, <1>10

\* After query() every slot is used or every server asked.
LEMMA QueryKeeps ==
    ASSUME NEW m \in Metas, Queried(m)
    PROVE  Query(m) \in Busy
<1>1. PICK active, next, count, all :
        /\ active = m.m_activeQueries /\ next = m.m_nextQuery
        /\ count = Cardinality(m.m_activeQueries) /\ all = Len(m.m_gameServers)
  OBVIOUS
<1>2. /\ IsFiniteSet(active) /\ count \in Nat /\ next \in Nat /\ all \in Nat
      /\ MaxQueries \in Nat /\ MaxQueries > 0
      /\ next <= all /\ active \subseteq 1 .. next /\ count <= MaxQueries
  BY <1>1, BusyFacts DEF Queried
<1>3. PICK free \in Nat : free = MaxQueries - count
  BY <1>2
<1>4. PICK asked :
        asked = {j \in next + 1 .. all :
                    count + Cardinality((next + 1 .. j - 1) \ refused) < MaxQueries}
  OBVIOUS
<1>5. /\ asked \subseteq next + 1 .. all
      /\ \A j \in next + 1 .. all :
            j \in asked <=> Cardinality((next + 1 .. j - 1) \ refused) < free
  <2>1. ASSUME NEW j \in next + 1 .. all
        PROVE  j \in asked <=> Cardinality((next + 1 .. j - 1) \ refused) < free
    <3>1. PICK T : T = (next + 1 .. j - 1) \ refused
      OBVIOUS
    <3>2. IsFiniteSet(next + 1 .. j - 1)
      <4>1. next + 1 \in Int /\ j - 1 \in Int
        BY <1>2
      <4> QED BY <4>1, FS_Interval
    <3>3. Cardinality(T) \in Nat
      <4>1. T \in SUBSET (next + 1 .. j - 1)
        BY <3>1
      <4> QED BY <3>2, <4>1, FS_Subset, FS_CardinalityType
    <3>4. j \in asked <=> count + Cardinality(T) < MaxQueries
      BY <1>4, <3>1
    <3> QED BY <1>2, <1>3, <3>1, <3>3, <3>4
  <2> QED BY <1>4, <2>1
<1>6. PICK k \in Nat :
        /\ next <= k /\ k <= all /\ asked = next + 1 .. k
        /\ Cardinality(asked \ refused) <= free
        /\ k < all => Cardinality(asked \ refused) = free
  <2>1. PICK R : R = refused
    OBVIOUS
  <2>2. next \in Nat /\ all \in Nat /\ next <= all /\ Served(asked, next, all, free, R)
    BY <1>2, <1>5, <2>1 DEF Served
  <2>3. \E k \in Nat :
            /\ next <= k /\ k <= all /\ asked = next + 1 .. k
            /\ Cardinality(asked \ R) <= free
            /\ k < all => Cardinality(asked \ R) = free
    BY <1>3, <2>2, AskedServers
  <2> QED BY <2>1, <2>3
<1>7. PICK more : more = asked \ refused
  OBVIOUS
<1>8. IsFiniteSet(more) /\ Cardinality(more) \in Nat /\ Cardinality(asked) = k - next
  <2>1. IsFiniteSet(next + 1 .. k) /\ Cardinality(next + 1 .. k) = k - next
    <3>1. next + 1 \in Int /\ k \in Int /\ (next + 1 <= k \/ k = next)
      BY <1>2, <1>6
    <3>2. PICK a : a = next + 1
      OBVIOUS
    <3>3. IsFiniteSet(a .. k) /\ Cardinality(a .. k) = IF a > k THEN 0 ELSE k - a + 1
      BY <3>1, <3>2, FS_Interval
    <3> QED BY <1>2, <3>1, <3>2, <3>3
  <2>2. more \in SUBSET (next + 1 .. k)
    BY <1>6, <1>7
  <2> QED BY <1>6, <2>1, <2>2, FS_Subset, FS_CardinalityType
<1>9. Query(m) = [m EXCEPT !.m_activeQueries = active \cup more, !.m_nextQuery = k]
  <2>1. Query(m) = [m EXCEPT !.m_activeQueries = active \cup (asked \ refused),
                             !.m_nextQuery = next + Cardinality(asked)]
    BY <1>1, <1>4 DEF Query
  <2>2. next + Cardinality(asked) = k
    BY <1>2, <1>6, <1>8
  <2> QED BY <1>7, <2>1, <2>2
<1>10. /\ active \cup more \in SUBSET Nat /\ active \cup more \subseteq 1 .. k
       /\ active \cap more = {}
  <2>1. more \subseteq next + 1 .. k
    BY <1>6, <1>7
  <2>2. PICK low, high : low = 1 .. next /\ high = next + 1 .. k
    OBVIOUS
  <2>3. low \cup high \subseteq 1 .. k /\ low \cap high = {} /\ low \cup high \subseteq Nat
    BY <1>2, <1>6, <2>2
  <2> QED BY <1>2, <2>1, <2>2, <2>3
<1>11. Cardinality(active \cup more) = count + Cardinality(more)
  <2>1. Cardinality(active \cup more) = count + Cardinality(more) - Cardinality(active \cap more)
    BY <1>1, <1>2, <1>8, FS_Union
  <2>2. Cardinality(active \cap more) = 0
    BY <1>10, FS_EmptySet
  <2> QED BY <1>2, <1>8, <2>1, <2>2
<1>12. /\ Cardinality(active \cup more) <= MaxQueries
       /\ k < all => Cardinality(active \cup more) = MaxQueries
  BY <1>2, <1>3, <1>6, <1>7, <1>8, <1>11
<1>13. PICK v : v = Query(m)
  OBVIOUS
<1>14. /\ v \in Metas /\ v.m_activeQueries = active \cup more /\ v.m_nextQuery = k
       /\ v.m_gameServers = m.m_gameServers
  BY <1>9, <1>10, <1>13 DEF Metas
<1>15. v \in Busy
  BY <1>1, <1>6, <1>10, <1>12, <1>14 DEF Busy, Queried
<1> QED BY <1>13, <1>15

\* A client without queries, that has none to start.
LEMMA NothingToQuery ==
    ASSUME NEW m \in Metas, m.m_activeQueries = {}, m.m_nextQuery = Len(m.m_gameServers)
    PROVE  m \in Busy
<1>1. Cardinality({}) <= MaxQueries
  BY FS_EmptySet, MetaListAssumption
<1>2. PICK k \in Nat : k = m.m_nextQuery /\ k = Len(m.m_gameServers)
  BY DEF Metas
<1>3. m.m_nextQuery <= Len(m.m_gameServers) /\ ~(m.m_nextQuery < Len(m.m_gameServers))
  BY <1>2
<1> QED BY <1>1, <1>3 DEF Busy, Queried

\* A client that has cancelled has queried all of its last list.
LEMMA CancelledKeeps ==
    ASSUME NEW m \in Metas
    PROVE  Cancelled(m) \in Busy
<1>1. PICK v : v = Cancelled(m)
  OBVIOUS
<1>2. Disconnected(m) \in Metas
  BY DEF Disconnected, Metas
<1>3. v = [Disconnected(m) EXCEPT
             !.m_activeQueries = {}, !.m_gameServers = m.m_lastValidList,
             !.m_status = IF m.m_lastValidList # <<>> THEN "VALID" ELSE "INVALID",
             !.m_nextQuery = Len(m.m_lastValidList)]
  BY <1>1 DEF Cancelled
<1>4. m.m_lastValidList \in Seq(Nat) /\ Len(m.m_lastValidList) \in Nat
  BY DEF Metas
<1>5. /\ v \in Metas /\ v.m_activeQueries = {} /\ v.m_gameServers = m.m_lastValidList
      /\ v.m_nextQuery = Len(m.m_lastValidList)
  BY <1>2, <1>3, <1>4 DEF Metas
<1> QED BY <1>1, <1>5, NothingToQuery

\* A request leaves the queries alone.
LEMMA ListReqKeeps ==
    ASSUME NEW m \in Metas, NEW base \in Nat, NEW v, v = listReq(m, base)
    PROVE  /\ v \in Metas /\ v.m_status = m.m_status /\ v.m_gameServers = m.m_gameServers
           /\ v.m_activeQueries = m.m_activeQueries /\ v.m_nextQuery = m.m_nextQuery
<1>1. m.port \in Nat /\ m.out \in Seq(Requests)
  BY DEF Metas
<1>2. Datagram("LISTREQ", m.port, <<base>>) \in Requests
  BY <1>1 DEF Datagram, Requests
<1>3. PICK o : o = Append(m.out, Datagram("LISTREQ", m.port, <<base>>))
  OBVIOUS
<1>4. o \in Seq(Requests)
  <2>1. PICK s, d : s = m.out /\ d = Datagram("LISTREQ", m.port, <<base>>)
    OBVIOUS
  <2>2. s \in Seq(Requests) /\ d \in Requests
    BY <1>1, <1>2, <2>1
  <2>3. Append(s, d) \in Seq(Requests)
    BY <2>2
  <2> QED BY <1>3, <2>1, <2>3
<1>5. v = [m EXCEPT !.out = o, !.expects = "command", !.timer = TRUE]
  BY <1>3 DEF listReq
<1> QED BY <1>4, <1>5 DEF Metas

\* With a page come servers, of which query() asks some.
LEMMA PageReadKeeps ==
    ASSUME NEW m \in Busy
    PROVE  PageRead(m) \in Busy
<1>1. PICK servers : servers = m.m_gameServers \o m.m_ipBuffer
  OBVIOUS
<1>2. /\ m \in Metas /\ Queried(m) /\ m.m_gameServers \in Seq(Nat) /\ m.m_ipBuffer \in Seq(Nat)
  BY DEF Busy, Metas
<1>3. /\ servers \in Seq(Nat) /\ Len(servers) \in Nat
      /\ Len(servers) >= Len(m.m_gameServers) /\ Len(m.m_gameServers) \in Nat
  <2>1. PICK s, t : s = m.m_gameServers /\ t = m.m_ipBuffer
    OBVIOUS
  <2>2. s \in Seq(Nat) /\ t \in Seq(Nat)
    BY <1>2, <2>1
  <2>3. /\ s \o t \in Seq(Nat) /\ Len(s \o t) = Len(s) + Len(t)
        /\ Len(s) \in Nat /\ Len(t) \in Nat
    BY <2>2
  <2>4. servers = s \o t /\ m.m_gameServers = s
    BY <1>1, <2>1
  <2>5. Len(s \o t) \in Nat /\ Len(s \o t) >= Len(s)
    BY <2>3
  <2> QED BY <2>3, <2>4, <2>5
<1>4. PICK n : n = [m EXCEPT !.m_gameServers = servers, !.m_ipBuffer = <<>>,
                             !.expects = "nothing"]
  OBVIOUS
<1>5. /\ n \in Metas /\ n.m_gameServers = servers /\ n.m_status = m.m_status
      /\ n.m_activeQueries = m.m_activeQueries /\ n.m_nextQuery = m.m_nextQuery
  <2>1. <<>> \in Seq(Nat)
    OBVIOUS
  <2> QED BY <1>2, <1>3, <1>4, <2>1 DEF Metas
<1>6. PICK v : v = IF Len(servers) < m.m_totalServers
                   THEN listReq(n, Len(servers))
                   ELSE [Disconnected(n) EXCEPT !.m_status = "QUERYING", !.completed = TRUE]
  OBVIOUS
<1>7. /\ v \in Metas /\ v.m_gameServers = servers
      /\ v.m_activeQueries = m.m_activeQueries /\ v.m_nextQuery = m.m_nextQuery
  <2>1. CASE Len(servers) < m.m_totalServers
    BY <1>3, <1>5, <1>6, <2>1, ListReqKeeps
  <2>2. CASE ~(Len(servers) < m.m_totalServers)
    <3>1. PICK u : u = Disconnected(n)
      OBVIOUS
    <3>2. /\ u \in Metas /\ u.m_gameServers = servers
          /\ u.m_activeQueries = m.m_activeQueries /\ u.m_nextQuery = m.m_nextQuery
      BY <1>5, <3>1 DEF Disconnected, Metas
    <3>3. v = [u EXCEPT !.m_status = "QUERYING", !.completed = TRUE]
      BY <1>6, <2>2, <3>1
    <3> QED BY <3>2, <3>3 DEF Metas
  <2> QED BY <2>1, <2>2
<1>8. Queried(v)
  <2>1. m.m_nextQuery \in Nat /\ m.m_nextQuery <= Len(m.m_gameServers)
    BY <1>2, BusyFacts DEF Queried
  <2>2. m.m_nextQuery <= Len(servers)
    BY <1>3, <2>1
  <2>3. m.m_activeQueries \subseteq 1 .. m.m_nextQuery /\ Cardinality(m.m_activeQueries) <= MaxQueries
    BY <1>2 DEF Queried
  <2> QED BY <1>3, <1>7, <2>1, <2>2, <2>3 DEF Queried
<1>9. Query(v) \in Busy
  BY <1>7, <1>8, QueryKeeps
<1>10. PageRead(m) = Query(v)
  BY <1>1, <1>4, <1>6 DEF PageRead
<1> QED BY <1>9, <1>10

\* What leaves the list, the queries and the status leaves the client busy.
LEMMA SameQueries ==
    ASSUME NEW m \in Busy, NEW v \in Metas, v.m_status = m.m_status,
           v.m_gameServers = m.m_gameServers, v.m_activeQueries = m.m_activeQueries,
           v.m_nextQuery = m.m_nextQuery
    PROVE  v \in Busy
BY DEF Busy, Queried

LEMMA ReadKeeps ==
    ASSUME NEW m \in Busy, NEW p \in AllPieces
    PROVE  Read(m, p) \in Busy
<1>1. /\ m \in Metas /\ p.what \in {"HANDSHAKE", "LIST_RESP", "address"}
      /\ p.a \in Nat /\ p.b \in Nat
      /\ m.expects \in {"nothing", "command", "addresses"}
      /\ m.buffer \in Seq(AllPieces) /\ m.m_ipBuffer \in Seq(Nat)
  BY DEF Busy, Metas, AllPieces
<1>2. CASE m.expects = "nothing"
  <2>1. PICK s, v : s = m.buffer /\ v = [m EXCEPT !.buffer = Append(m.buffer, p)]
    OBVIOUS
  <2>2. s \in Seq(AllPieces)
    BY <1>1, <2>1
  <2>3. Append(s, p) \in Seq(AllPieces)
    BY <2>2
  <2>4. v = [m EXCEPT !.buffer = Append(s, p)]
    BY <2>1
  <2>5. /\ v \in Metas /\ v.m_status = m.m_status /\ v.m_gameServers = m.m_gameServers
        /\ v.m_activeQueries = m.m_activeQueries /\ v.m_nextQuery = m.m_nextQuery
    BY <1>1, <2>3, <2>4 DEF Metas
  <2>6. v \in Busy
    BY <2>5, SameQueries
  <2>7. Read(m, p) = v
    BY <1>2, <2>1 DEF Read
  <2> QED BY <2>6, <2>7
<1>3. CASE m.expects = "command" /\ p.what = "address"
  <2>1. PICK n : n = [m EXCEPT !.expects = "nothing"]
    OBVIOUS
  <2>2. n \in Metas
    BY <1>1, <2>1 DEF Metas
  <2>3. Read(m, p) = Cancelled(n)
    BY <1>3, <2>1 DEF Read
  <2> QED BY <2>2, <2>3, CancelledKeeps
<1>4. CASE m.expects = "command" /\ p.what # "address" /\ m.m_status # "GETTING_LIST"
  <2>1. PICK v : v = [m EXCEPT !.expects = "nothing"]
    OBVIOUS
  <2>2. /\ v \in Metas /\ v.m_status = m.m_status /\ v.m_gameServers = m.m_gameServers
        /\ v.m_activeQueries = m.m_activeQueries /\ v.m_nextQuery = m.m_nextQuery
    BY <1>1, <2>1 DEF Metas
  <2>3. v \in Busy
    BY <2>2, SameQueries
  <2>4. Read(m, p) = v
    BY <1>4, <2>1 DEF Read
  <2> QED BY <2>3, <2>4
<1>5. CASE m.expects = "command" /\ p.what = "HANDSHAKE" /\ m.m_status = "GETTING_LIST"
  <2>1. PICK v : v = listReq(m, 0)
    OBVIOUS
  <2>2. /\ v \in Metas /\ v.m_status = m.m_status /\ v.m_gameServers = m.m_gameServers
        /\ v.m_activeQueries = m.m_activeQueries /\ v.m_nextQuery = m.m_nextQuery
    BY <1>1, <2>1, ListReqKeeps
  <2>3. v \in Busy
    BY <2>2, SameQueries
  <2>4. Read(m, p) = v
    BY <1>5, <2>1 DEF Read
  <2> QED BY <2>3, <2>4
<1>6. CASE m.expects = "command" /\ p.what = "LIST_RESP" /\ m.m_status = "GETTING_LIST"
  <2>1. PICK total, then : /\ total = IF m.m_gameServers = <<>> THEN p.a ELSE m.m_totalServers
                           /\ then = IF p.b = 0 THEN "nothing" ELSE "addresses"
    OBVIOUS
  <2>2. total \in Nat /\ then \in {"nothing", "addresses"} /\ <<>> \in Seq(Nat)
    BY <1>1, <2>1 DEF Metas
  <2>3. PICK v : v = [m EXCEPT !.m_totalServers = total, !.packed = p.b, !.m_ipBuffer = <<>>,
                               !.expects = then]
    OBVIOUS
  <2>4. /\ v \in Metas /\ v.m_status = m.m_status /\ v.m_gameServers = m.m_gameServers
        /\ v.m_activeQueries = m.m_activeQueries /\ v.m_nextQuery = m.m_nextQuery
    BY <1>1, <2>2, <2>3 DEF Metas
  <2>5. v \in Busy
    BY <2>4, SameQueries
  <2>6. Read(m, p) = v
    BY <1>6, <2>1, <2>3 DEF Read
  <2> QED BY <2>5, <2>6
<1>7. CASE m.expects = "addresses"
  <2>1. PICK s, v : s = m.m_ipBuffer /\ v = [m EXCEPT !.m_ipBuffer = Append(m.m_ipBuffer, p.a)]
    OBVIOUS
  <2>2. s \in Seq(Nat) /\ p.a \in Nat
    BY <1>1, <2>1
  <2>3. Append(s, p.a) \in Seq(Nat) /\ Append(s, p.a) # <<>>
    BY <2>2
  <2>4. v = [m EXCEPT !.m_ipBuffer = Append(s, p.a)]
    BY <2>1
  <2>5. /\ v \in Metas /\ v.m_status = m.m_status /\ v.m_gameServers = m.m_gameServers
        /\ v.m_activeQueries = m.m_activeQueries /\ v.m_nextQuery = m.m_nextQuery
        /\ v.m_ipBuffer = Append(s, p.a)
    BY <1>1, <2>3, <2>4 DEF Metas
  <2>6. v \in Busy /\ v.m_ipBuffer # <<>>
    BY <2>3, <2>5, SameQueries
  <2>7. PageRead(v) \in Busy
    BY <2>6, PageReadKeeps
  <2>8. Read(m, p) = IF Len(v.m_ipBuffer) < m.packed THEN v ELSE PageRead(v)
    BY <1>7, <2>1 DEF Read
  <2> QED BY <2>6, <2>7, <2>8
<1> QED BY <1>1, <1>2, <1>3, <1>4, <1>5, <1>6, <1>7

LEMMA MaxIsIn ==
    ASSUME NEW n \in Nat, NEW t \in SUBSET (1 .. n), t # {}
    PROVE  Max(t) \in t
<1>1. t \in SUBSET Nat /\ \A y \in t : y <= n
  OBVIOUS
<1>2. IsFiniteSet(t)
  BY <1>1, FS_BoundedSetOfNaturals
<1>3. PICK x \in t : \A y \in t : y <= x
  BY <1>1, <1>2, FiniteHasMax
<1>4. x \in t /\ \A y \in t : x >= y
  BY <1>1, <1>3
<1> QED BY <1>4 DEF Max

LEMMA MaxFacts ==
    ASSUME NEW n \in Nat
    PROVE  \A i \in 1 .. n : Max(1 .. i) = i
<1> SUFFICES ASSUME NEW i \in 1 .. n PROVE Max(1 .. i) = i
  OBVIOUS
<1>1. i \in 1 .. i /\ \A y \in 1 .. i : i >= y
  OBVIOUS
<1>2. Max(1 .. i) \in 1 .. i /\ \A y \in 1 .. i : Max(1 .. i) >= y
  BY <1>1 DEF Max
<1> QED BY <1>1, <1>2

\* h[i] is the client that m becomes with the first i pieces of s.
Reads(h, m, s) ==
    /\ h \in [0 .. Len(s) -> Busy]
    /\ h[0] = m
    /\ \A i \in 1 .. Len(s) : h[i] = Read(h[i - 1], s[i])

LEMMA FoldReads ==
    ASSUME NEW m \in Busy, NEW s \in Seq(AllPieces)
    PROVE  \E h : Reads(h, m, s) /\ FoldLeft(Read, m, s) = h[Len(s)]
<1> DEFINE S == DOMAIN s
           P(g) == g = [t \in SUBSET S |-> IF t = {} THEN m
                                           ELSE Read(g[t \ {Max(t)}], s[Max(t)])]
           pick == [t \in SUBSET S |-> Max(t)]
           step == [z \in Busy \X S |-> Read(z[1], s[z[2]])]
<1>1. Len(s) \in Nat /\ S = 1 .. Len(s) /\ \A i \in S : s[i] \in AllPieces
  OBVIOUS
<1>2. IsFiniteSet(S)
  BY <1>1, FS_Interval
<1>3. \A t \in SUBSET S : t # {} => Max(t) \in t
  BY <1>1, MaxIsIn
<1>4. Picks(pick, S) /\ \A t \in SUBSET S : pick[t] = Max(t)
  BY <1>3 DEF Picks
<1>5. step \in [Busy \X S -> Busy] /\ \A z \in Busy \X S : step[z] = Read(z[1], s[z[2]])
  <2>1. \A z \in Busy \X S : Read(z[1], s[z[2]]) \in Busy
    BY <1>1, ReadKeeps
  <2> QED BY <2>1
<1>6. PICK f : Computes(f, S, pick, Busy, m, step)
  <2> HIDE DEF S, pick, step
  <2> QED BY <1>2, <1>4, <1>5, FoldExists
<1>7. f \in [SUBSET S -> Busy]
  BY <1>6 DEF Computes
<1>8. \A t \in SUBSET S : f[t] = IF t = {} THEN m ELSE Read(f[t \ {Max(t)}], s[Max(t)])
  <2>1. ASSUME NEW t \in SUBSET S, t # {}
        PROVE  f[t] = Read(f[t \ {Max(t)}], s[Max(t)])
    <3>1. Max(t) \in S /\ t \ {Max(t)} \in SUBSET S /\ pick[t] = Max(t)
      BY <1>3, <1>4, <2>1
    <3>2. <<f[t \ {Max(t)}], Max(t)>> \in Busy \X S
      BY <1>7, <3>1
    <3>3. step[<<f[t \ {Max(t)}], Max(t)>>] = Read(f[t \ {Max(t)}], s[Max(t)])
      <4> HIDE DEF step, S
      <4> QED BY <1>5, <3>2
    <3> HIDE DEF step, pick
    <3> QED BY <1>6, <2>1, <3>1, <3>3 DEF Computes
  <2> QED BY <1>6, <2>1 DEF Computes
<1>9. P(f)
  <2> HIDE DEF S
  <2> QED BY <1>7, <1>8
<1>10. PICK g : P(g) /\ g = (CHOOSE h : P(h))
  <2> HIDE DEF P
  <2> QED BY <1>9
<1>11. FoldLeft(Read, m, s) = g[DOMAIN s]
  BY <1>10 DEF FoldLeft, MapThenFoldSet
<1> DEFINE Good == {t \in SUBSET S : g[t] = f[t]}
<1>12. {} \in Good
  BY <1>8, <1>10
<1>13. ASSUME NEW t \in SUBSET S, t # {}, t \ {pick[t]} \in Good PROVE t \in Good
  <2>1. pick[t] = Max(t)
    BY <1>4, <1>13
  <2>2. g[t \ {Max(t)}] = f[t \ {Max(t)}]
    BY <1>13, <2>1
  <2>3. g[t] = Read(g[t \ {Max(t)}], s[Max(t)])
    BY <1>10, <1>13
  <2>4. f[t] = Read(f[t \ {Max(t)}], s[Max(t)])
    BY <1>8, <1>13
  <2> QED BY <2>2, <2>3, <2>4
<1>14. \A t \in SUBSET S : t \in Good
  <2>1. \A t \in SUBSET S : t # {} /\ t \ {pick[t]} \in Good => t \in Good
    BY <1>13
  <2> HIDE DEF Good, pick, S
  <2>2. Picks(pick, S)
    BY <1>4
  <2> QED BY <1>2, <1>12, <2>1, <2>2, SubsetInduction
<1>15. FoldLeft(Read, m, s) = f[DOMAIN s]
  <2>1. DOMAIN s \in Good
    <3> HIDE DEF Good
    <3> QED BY <1>14
  <2> QED BY <1>11, <2>1
<1> DEFINE h == [i \in 0 .. Len(s) |-> f[1 .. i]]
<1>16. \A i \in 0 .. Len(s) : (1 .. i) \in SUBSET S
  BY <1>1
<1>17. h \in [0 .. Len(s) -> Busy]
  BY <1>7, <1>16
<1>18. h[0] = m
  <2>1. h[0] = f[1 .. 0] /\ 1 .. 0 = {}
    BY <1>1
  <2> QED BY <1>8, <2>1
<1>19. ASSUME NEW i \in 1 .. Len(s) PROVE h[i] = Read(h[i - 1], s[i])
  <2>1. Max(1 .. i) = i /\ (1 .. i) \ {i} = 1 .. (i - 1) /\ 1 .. i # {}
    <3>1. i \in Nat /\ i >= 1
      BY <1>1
    <3>2. Max(1 .. i) = i
      BY <1>1, MaxFacts
    <3>3. (1 .. i) \ {i} = 1 .. (i - 1) /\ i \in 1 .. i
      BY <3>1
    <3> QED BY <3>2, <3>3
  <2>2. (1 .. i) \in SUBSET S
    BY <1>1
  <2>3. f[1 .. i] = Read(f[1 .. (i - 1)], s[i])
    BY <1>8, <2>1, <2>2
  <2> QED BY <1>1, <2>3
<1>20. FoldLeft(Read, m, s) = h[Len(s)]
  BY <1>1, <1>15
<1> QED BY <1>17, <1>18, <1>19, <1>20 DEF Reads

\* Reading any number of pieces.
LEMMA FoldKeeps ==
    ASSUME NEW m \in Busy, NEW s \in Seq(AllPieces)
    PROVE  FoldLeft(Read, m, s) \in Busy
<1>1. PICK h : Reads(h, m, s) /\ FoldLeft(Read, m, s) = h[Len(s)]
  BY FoldReads
<1>2. Len(s) \in 0 .. Len(s)
  OBVIOUS
<1> QED BY <1>1, <1>2 DEF Reads

\* The pieces of a response.
LEMMA PiecesType ==
    ASSUME NEW d \in Responses
    PROVE  Pieces(d) \in Seq(AllPieces)
<1>1. CASE d.kind = "HANDSHAKE"
  <2>1. Piece("HANDSHAKE", 0, 0) \in AllPieces
    BY DEF Piece, AllPieces
  <2>2. PICK x \in AllPieces : x = Piece("HANDSHAKE", 0, 0)
    BY <2>1
  <2>3. <<x>> \in Seq(AllPieces)
    OBVIOUS
  <2> QED BY <1>1, <2>2, <2>3 DEF Pieces
<1>2. CASE d.kind # "HANDSHAKE"
  <2>1. PICK s : s = d.data /\ s \in Seq(Nat) /\ s # <<>>
    BY <1>2 DEF Responses
  <2>2. PICK n : n = Len(s) - 1
    OBVIOUS
  <2>3. n \in Nat /\ s[1] \in Nat /\ \A i \in 1 .. n : s[i + 1] \in Nat
    BY <2>1, <2>2
  <2>4. PICK x, t : /\ x = Piece("LIST_RESP", s[1], n)
                    /\ t = [i \in 1 .. n |-> Piece("address", s[i + 1], 0)]
    OBVIOUS
  <2>5. x \in AllPieces
    BY <2>3, <2>4 DEF Piece, AllPieces
  <2>6. t \in Seq(AllPieces)
    <3>1. \A i \in 1 .. n : Piece("address", s[i + 1], 0) \in AllPieces
      BY <2>3 DEF Piece, AllPieces
    <3>2. t \in [1 .. n -> AllPieces]
      BY <2>4, <3>1
    <3> QED BY <2>3, <3>2
  <2>7. <<x>> \o t \in Seq(AllPieces)
    BY <2>5, <2>6
  <2>8. Pieces(d) = <<x>> \o t
    BY <1>2, <2>1, <2>2, <2>4 DEF Pieces
  <2> QED BY <2>7, <2>8
<1> QED BY <1>1, <1>2

LEMMA GotDataKeeps ==
    ASSUME NEW m \in Busy, NEW d \in Responses
    PROVE  gotData(m, d) \in Busy
<1>1. PICK v : v = [m EXCEPT !.buffer = <<>>]
  OBVIOUS
<1>2. m \in Metas /\ m.buffer \in Seq(AllPieces) /\ <<>> \in Seq(AllPieces)
  BY DEF Busy, Metas
<1>3. /\ v \in Metas /\ v.m_status = m.m_status /\ v.m_gameServers = m.m_gameServers
      /\ v.m_activeQueries = m.m_activeQueries /\ v.m_nextQuery = m.m_nextQuery
  BY <1>1, <1>2 DEF Metas
<1>4. v \in Busy
  BY <1>3, SameQueries
<1>5. PICK s, t : s = m.buffer /\ t = Pieces(d)
  OBVIOUS
<1>6. s \in Seq(AllPieces) /\ t \in Seq(AllPieces)
  BY <1>2, <1>5, PiecesType
<1>7. s \o t \in Seq(AllPieces)
  BY <1>6
<1>8. FoldLeft(Read, v, s \o t) \in Busy
  BY <1>4, <1>7, FoldKeeps
<1>9. gotData(m, d) = FoldLeft(Read, v, s \o t)
  BY <1>1, <1>5 DEF gotData
<1> QED BY <1>8, <1>9

\* The slot of a query that is over is used again.
LEMMA DeleteQueryKeeps ==
    ASSUME NEW m \in Busy, NEW i \in m.m_activeQueries
    PROVE  deleteQuery(m, i) \in Busy
<1>1. PICK active : active = m.m_activeQueries \ {i}
  OBVIOUS
<1>2. PICK n : n = [m EXCEPT !.m_activeQueries = active]
  OBVIOUS
<1>3. m \in Metas /\ Queried(m) /\ m.m_activeQueries \in SUBSET Nat
  BY DEF Busy, Metas
<1>4. /\ n \in Metas /\ n.m_activeQueries = active /\ n.m_nextQuery = m.m_nextQuery
      /\ n.m_gameServers = m.m_gameServers
  BY <1>1, <1>2, <1>3 DEF Metas
<1>5. Queried(n)
  <2>1. /\ IsFiniteSet(m.m_activeQueries) /\ Cardinality(m.m_activeQueries) \in Nat
        /\ MaxQueries \in Nat
    BY <1>3, BusyFacts
  <2>2. Cardinality(m.m_activeQueries \ {i}) = Cardinality(m.m_activeQueries) - 1
    BY <2>1, FS_RemoveElement
  <2>3. Cardinality(m.m_activeQueries) <= MaxQueries
    BY <1>3 DEF Queried
  <2>4. Cardinality(active) <= MaxQueries
    BY <1>1, <2>1, <2>2, <2>3
  <2>5. active \subseteq 1 .. m.m_nextQuery /\ m.m_nextQuery <= Len(m.m_gameServers)
    BY <1>1, <1>3 DEF Queried
  <2> QED BY <1>4, <2>4, <2>5 DEF Queried
<1>6. PICK v : v = IF n.m_activeQueries = {} /\ n.m_nextQuery = Len(n.m_gameServers)
                   THEN [n EXCEPT !.m_status = "VALID", !.done = TRUE] ELSE n
  OBVIOUS
<1>7. deleteQuery(m, i) = Query(v)
  BY <1>1, <1>2, <1>6 DEF deleteQuery
<1>8. /\ v \in Metas /\ v.m_activeQueries = n.m_activeQueries
      /\ v.m_nextQuery = n.m_nextQuery /\ v.m_gameServers = n.m_gameServers
  <2>1. v \in {n, [n EXCEPT !.m_status = "VALID", !.done = TRUE]}
    BY <1>6
  <2> QED BY <1>4, <2>1 DEF Metas
<1>9. Queried(v)
  BY <1>5, <1>8 DEF Queried
<1> QED BY <1>7, <1>8, <1>9, QueryKeeps

\* What the client becomes, and what it sends.
LEMMA BecomesKeeps ==
    ASSUME NEW m \in Busy, NEW left, DOMAIN left \subseteq Datagrams, Becomes(m, left)
    PROVE  ListInv'
<1>1. meta' = [m EXCEPT !.out = <<>>] /\ net' = left (+) ToBag(m.out)
  BY DEF Becomes
<1>2. PICK v : v = [m EXCEPT !.out = <<>>]
  OBVIOUS
<1>3. m \in Metas /\ m.out \in Seq(Requests) /\ <<>> \in Seq(Requests)
  BY DEF Busy, Metas
<1>4. /\ v \in Metas /\ v.m_status = m.m_status /\ v.m_gameServers = m.m_gameServers
      /\ v.m_activeQueries = m.m_activeQueries /\ v.m_nextQuery = m.m_nextQuery
  BY <1>2, <1>3 DEF Metas
<1>5. v \in Busy
  BY <1>4, SameQueries
<1>6. PICK s : s = m.out /\ s \in Seq(Requests)
  BY <1>3
<1>7. Range(s) \subseteq Requests
  BY <1>6 DEF Range
<1>8. DOMAIN (left (+) ToBag(s)) = DOMAIN left \cup Range(s)
  BY DEF (+), ToBag
<1>9. DOMAIN net' \subseteq Datagrams
  BY <1>1, <1>6, <1>7, <1>8 DEF Datagrams
<1> QED BY <1>1, <1>2, <1>5, <1>9 DEF ListInv

\* The bags of datagrams.
LEMMA BagDomains ==
    ASSUME NEW B, NEW d
    PROVE  /\ DOMAIN (B (-) SetToBag({d})) \subseteq DOMAIN B
           /\ DOMAIN (B (+) SetToBag({d})) = DOMAIN B \cup {d}
<1>1. DOMAIN (B (+) SetToBag({d})) = DOMAIN B \cup {d}
  BY DEF (+), SetToBag
<1>2. DOMAIN (B (-) SetToBag({d})) \subseteq DOMAIN B
  BY DEF (-), SetToBag
<1> QED BY <1>1, <1>2

-----------------------------------------------------------------------------
\* The steps.

LEMMA InitListInv == Init => ListInv
<1> SUFFICES ASSUME Init PROVE ListInv
  OBVIOUS
<1>1. <<>> \in Seq(Nat) /\ <<>> \in Seq(AllPieces) /\ <<>> \in Seq(Requests)
  OBVIOUS
<1>2. /\ meta \in Metas /\ meta.m_status = "INVALID" /\ meta.m_activeQueries = {}
      /\ meta.m_nextQuery = 0 /\ meta.m_gameServers = <<>>
  BY <1>1 DEF Init, Metas
<1>3. Len(<<>>) = 0
  OBVIOUS
<1>4. meta \in Busy
  BY <1>2, <1>3, NothingToQuery
<1>5. DOMAIN net = {}
  BY DEF Init, EmptyBag, SetToBag
<1> QED BY <1>4, <1>5 DEF ListInv

\* An answer of the metaserver.
LEMMA AnswerKeeps ==
    ASSUME ListInv, NEW d \in DOMAIN net, NEW kind, NEW data,
           Answer(d, kind, data), UNCHANGED meta, data \in Seq(Nat),
           \/ kind = "HANDSHAKE"
           \/ kind = "LISTRESP" /\ data # <<>>
    PROVE  ListInv'
<1>1. d \in Datagrams /\ d.port \in Nat
  BY DEF ListInv, Datagrams, Requests, Responses
<1>2. Datagram(kind, d.port, data) \in Datagrams
  BY <1>1 DEF Datagram, Datagrams, Responses
<1>3. PICK B, a : B = net (-) SetToBag({d}) /\ a = Datagram(kind, d.port, data)
  OBVIOUS
<1>4. DOMAIN B \subseteq DOMAIN net
  BY <1>3, BagDomains
<1>5. DOMAIN (B (+) SetToBag({a})) = DOMAIN B \cup {a}
  BY BagDomains
<1>6. net' = B (+) SetToBag({a})
  BY <1>3 DEF Answer
<1>7. DOMAIN net' \subseteq Datagrams
  BY <1>2, <1>3, <1>4, <1>5, <1>6 DEF ListInv
<1> QED BY <1>7 DEF ListInv

LEMMA ListReqAnswered ==
    ASSUME ListInv, NEW d \in DOMAIN net, processLISTREQ(d)
    PROVE  ListInv'
<1>1. PICK page, total, resp :
        /\ resp = Packed(page) /\ total = IF resp = <<>> THEN 0 ELSE Cardinality(Known)
        /\ Answer(d, "LISTRESP", <<total>> \o resp)
  BY DEF processLISTREQ
<1>2. resp \in Seq(Nat)
  BY <1>1, PackedType
<1>3. Cardinality(Known) \in Nat
  <2>1. Known \in SUBSET Servers
    BY DEF Known
  <2> QED BY <2>1, MetaListAssumption, FS_Subset, FS_CardinalityType
<1>4. total \in Nat
  BY <1>1, <1>3
<1>5. PICK data : data = <<total>> \o resp
  OBVIOUS
<1>6. data \in Seq(Nat) /\ data # <<>>
  BY <1>2, <1>4, <1>5
<1>7. Answer(d, "LISTRESP", data) /\ UNCHANGED meta
  BY <1>1, <1>5 DEF processLISTREQ
<1> QED BY <1>6, <1>7, AnswerKeeps

LEMMA Arrives ==
    ASSUME ListInv, NEW d \in DOMAIN net, Arrive(d)
    PROVE  ListInv'
<1>1. PICK v, left : /\ v = IF meta.open /\ d.port = meta.port THEN gotData(meta, d) ELSE meta
                     /\ left = net (-) SetToBag({d})
  OBVIOUS
<1>2. d \in Responses /\ meta \in Busy
  BY DEF Arrive, ListInv, Datagrams, Requests
<1>3. v \in Busy
  BY <1>1, <1>2, GotDataKeeps
<1>4. DOMAIN left \subseteq Datagrams
  <2>1. DOMAIN left \subseteq DOMAIN net
    BY <1>1, BagDomains
  <2> QED BY <2>1 DEF ListInv
<1>5. Becomes(v, left)
  BY <1>1 DEF Arrive
<1> QED BY <1>3, <1>4, <1>5, BecomesKeeps

LEMMA Refreshes ==
    ASSUME ListInv, refresh
    PROVE  ListInv'
<1>1. PICK m : m = meta
  OBVIOUS
<1>2. PICK last, u, v :
        /\ last = IF m.m_status = "VALID" THEN m.m_gameServers ELSE m.m_lastValidList
        /\ u = Disconnected(m)
        /\ v = [u EXCEPT !.m_lastValidList = last, !.m_gameServers = <<>>, !.m_nextQuery = 0,
                         !.port = u.port + 1, !.resolving = TRUE,
                         !.completed = FALSE, !.done = FALSE]
  OBVIOUS
<1>3. m \in Metas /\ m.m_activeQueries = {}
  BY <1>1 DEF refresh, ListInv, Busy
<1>4. last \in Seq(Nat) /\ <<>> \in Seq(Nat) /\ m.port \in Nat
  BY <1>2, <1>3 DEF Metas
<1>5. /\ u \in Metas /\ u.port = m.port /\ u.m_activeQueries = {} /\ u.m_status = m.m_status
      /\ u.m_lastValidList = m.m_lastValidList
  BY <1>2, <1>3 DEF Disconnected, Metas
<1>6. /\ v \in Metas /\ v.m_activeQueries = {} /\ v.m_nextQuery = 0 /\ v.m_gameServers = <<>>
  <2>1. PICK k, none : k = u.port + 1 /\ none = <<>>
    OBVIOUS
  <2>2. k \in Nat /\ none \in Seq(Nat) /\ 0 \in Nat
    BY <1>4, <1>5, <2>1
  <2>3. v = [u EXCEPT !.m_lastValidList = last, !.m_gameServers = none, !.m_nextQuery = 0,
                      !.port = k, !.resolving = TRUE, !.completed = FALSE, !.done = FALSE]
    BY <1>2, <2>1
  <2>4. v \in Metas
    BY <1>4, <1>5, <2>2, <2>3 DEF Metas
  <2>5. /\ v.m_activeQueries = {} /\ v.m_nextQuery = 0 /\ v.m_gameServers = none
        /\ v.m_status = m.m_status
    BY <1>5, <2>3 DEF Metas
  <2> QED BY <1>3, <2>1, <2>4, <2>5
<1>7. Len(<<>>) = 0
  OBVIOUS
<1>8. v \in Busy
  BY <1>6, <1>7, NothingToQuery
<1>9. Becomes(v, net)
  BY <1>1, <1>2, <1>5 DEF refresh
<1> QED BY <1>8, <1>9, BecomesKeeps DEF ListInv

LEMMA Connects ==
    ASSUME ListInv, connect
    PROVE  ListInv'
<1>1. PICK m : m = meta /\ m \in Busy /\ m \in Metas
  BY DEF ListInv, Busy
<1>2. PICK d, v :
        /\ d = Datagram("CLIENTKEEPALIVE", m.port, <<>>)
        /\ v = [m EXCEPT !.resolving = FALSE, !.open = TRUE, !.timer = TRUE,
                         !.m_status = "GETTING_LIST", !.expects = "command", !.out = <<d>>]
  OBVIOUS
<1>3. d \in Requests
  BY <1>1, <1>2 DEF Metas, Datagram, Requests
<1>4. <<d>> \in Seq(Requests)
  BY <1>3
<1>5. /\ v \in Metas /\ v.m_gameServers = m.m_gameServers
      /\ v.m_activeQueries = m.m_activeQueries /\ v.m_nextQuery = m.m_nextQuery
  BY <1>1, <1>2, <1>4 DEF Metas
<1>6. v \in Busy
  BY <1>1, <1>5 DEF Busy, Queried
<1>7. Becomes(v, net)
  BY <1>1, <1>2 DEF connect
<1> QED BY <1>6, <1>7, BecomesKeeps DEF ListInv

LEMMA FailsToResolve ==
    ASSUME ListInv, ResolveFails
    PROVE  ListInv'
<1>1. PICK m : m = meta /\ m \in Busy /\ m \in Metas
  BY DEF ListInv, Busy
<1>2. PICK v : v = [Disconnected(m) EXCEPT !.resolving = FALSE]
  OBVIOUS
<1>3. /\ v \in Metas /\ v.m_status = m.m_status /\ v.m_gameServers = m.m_gameServers
      /\ v.m_activeQueries = m.m_activeQueries /\ v.m_nextQuery = m.m_nextQuery
  BY <1>1, <1>2 DEF Disconnected, Metas
<1>4. v \in Busy
  BY <1>1, <1>3, SameQueries
<1>5. Becomes(v, net)
  BY <1>1, <1>2 DEF ResolveFails
<1> QED BY <1>4, <1>5, BecomesKeeps DEF ListInv

LEMMA ListStep ==
    ASSUME ListInv, [Next]_vars
    PROVE  ListInv'
<1>1. CASE RegisterStep \/ expireClientSessionCache \/ Resources \/ UNCHANGED vars
  BY <1>1 DEF RegisterStep, expireClientSessionCache, Resources, vars, ListInv
<1>2. ASSUME NEW d \in BagToSet(net), processCLIENTKEEPALIVE(d) \/ processLISTREQ(d) \/ Arrive(d)
      PROVE  ListInv'
  <2>1. d \in DOMAIN net
    BY DEF BagToSet
  <2>2. CASE processCLIENTKEEPALIVE(d)
    <3>1. PICK none, kind : none = <<>> /\ kind = "HANDSHAKE"
      OBVIOUS
    <3>2. none \in Seq(Nat)
      BY <3>1
    <3>3. Answer(d, kind, none) /\ UNCHANGED meta
      BY <2>2, <3>1 DEF processCLIENTKEEPALIVE
    <3> QED BY <2>1, <3>1, <3>2, <3>3, AnswerKeeps
  <2> QED BY <1>2, <2>1, <2>2, ListReqAnswered, Arrives
<1>3. CASE refresh \/ connect \/ ResolveFails
  BY <1>3, Refreshes, Connects, FailsToResolve
<1>4. CASE cancel \/ metaTimeout
  <2>1. PICK v : v = Cancelled(meta)
    OBVIOUS
  <2>2. v \in Busy
    BY <2>1, CancelledKeeps DEF ListInv, Busy
  <2>3. Becomes(v, net)
    BY <1>4, <2>1 DEF cancel, metaTimeout
  <2> QED BY <2>2, <2>3, BecomesKeeps DEF ListInv
<1>5. ASSUME NEW i \in meta.m_activeQueries, QueryEnds(i) PROVE ListInv'
  <2>1. PICK m, v : m = meta /\ v = deleteQuery(m, i)
    OBVIOUS
  <2>2. m \in Busy /\ i \in m.m_activeQueries
    BY <2>1 DEF ListInv
  <2>3. v \in Busy
    BY <2>1, <2>2, DeleteQueryKeeps
  <2>4. Becomes(v, net)
    BY <1>5, <2>1 DEF QueryEnds
  <2> QED BY <2>3, <2>4, BecomesKeeps DEF ListInv
<1>6. CASE Lose
  <2>1. PICK d : net' = net (-) SetToBag({d})
    BY <1>6 DEF Lose
  <2>2. DOMAIN net' \subseteq DOMAIN net
    BY <2>1, BagDomains
  <2> QED BY <1>6, <2>2 DEF Lose, ListInv
<1>7. CASE Duplicate
  <2>1. PICK d : d \in DOMAIN net /\ net' = net (+) SetToBag({d})
    BY <1>7 DEF Duplicate, BagToSet
  <2>2. DOMAIN net' = DOMAIN net \cup {d}
    BY <2>1, BagDomains
  <2> QED BY <1>7, <2>1, <2>2 DEF Duplicate, ListInv
<1> QED BY <1>1, <1>2, <1>3, <1>4, <1>5, <1>6, <1>7 DEF Next

(***************************************************************************)
(* A server waits to be asked only while m_maxActiveQueries queries are    *)
(* under way, of servers that the client has, and there are never more:    *)
(* whatever the metaserver answers, however datagrams are lost, doubled or *)
(* late, whatever bytes earlier exchanges left in the buffer and whichever *)
(* queries fail at once, since every handler that brings servers or frees  *)
(* a slot ends with query().                                               *)
(***************************************************************************)
THEOREM SlotsAreUsed == Spec => []QueriesUnderWay
<1>1. ListInv => QueriesUnderWay
  BY DEF ListInv, Busy, Queried, QueriesUnderWay
<1> QED BY <1>1, InitListInv, ListStep, PTL DEF Spec

-----------------------------------------------------------------------------
\* Lists of addresses in ascending order.

Sorted(s) == \A i, j \in DOMAIN s : i < j => s[i] < s[j]

LEMMA SortedIsOne ==
    ASSUME NEW p \in Seq(Servers), Sorted(p)
    PROVE  /\ Len(p) \in Nat /\ DOMAIN p = 1 .. Len(p)
           /\ \A i \in 1 .. Len(p) : p[i] \in Servers /\ p[i] \in Nat
           /\ \A i, j \in 1 .. Len(p) : /\ p[i] < p[j] <=> i < j
                                        /\ p[i] = p[j] <=> i = j
<1>1. /\ Len(p) \in Nat /\ DOMAIN p = 1 .. Len(p)
      /\ \A i \in 1 .. Len(p) : p[i] \in Servers /\ p[i] \in Nat
  <2>1. /\ Len(p) \in Nat /\ DOMAIN p = 1 .. Len(p)
        /\ \A i \in 1 .. Len(p) : p[i] \in Servers
    OBVIOUS
  <2>2. Servers \subseteq Nat
    BY MetaListAssumption
  <2> QED BY <2>1, <2>2
<1>2. \A i, j \in 1 .. Len(p) : i < j => p[i] < p[j]
  BY <1>1 DEF Sorted
<1>3. ASSUME NEW i \in 1 .. Len(p), NEW j \in 1 .. Len(p)
      PROVE  (p[i] < p[j] <=> i < j) /\ (p[i] = p[j] <=> i = j)
  <2>1. PICK x \in Nat, y \in Nat : x = p[i] /\ y = p[j]
    BY <1>1
  <2>2. i < j => x < y
    BY <1>2, <2>1
  <2>3. j < i => y < x
    BY <1>2, <2>1
  <2>4. i = j => x = y
    BY <2>1
  <2>5. i \in Nat /\ j \in Nat
    BY <1>1
  <2>6. (x < y <=> i < j) /\ (x = y <=> i = j)
    BY <2>1, <2>2, <2>3, <2>4, <2>5
  <2> QED BY <2>1, <2>6
<1> QED BY <1>1, <1>3

\* As many of its addresses as come before an address are less than it.
LEMMA RankIsPlace ==
    ASSUME NEW p \in Seq(Servers), Sorted(p)
    PROVE  /\ Cardinality(Range(p)) = Len(p)
           /\ \A i \in 1 .. Len(p) : Cardinality({t \in Range(p) : t < p[i]}) = i - 1
<1>1. /\ Len(p) \in Nat /\ DOMAIN p = 1 .. Len(p)
      /\ \A i \in 1 .. Len(p) : p[i] \in Servers /\ p[i] \in Nat
      /\ \A i, j \in 1 .. Len(p) : (p[i] < p[j] <=> i < j) /\ (p[i] = p[j] <=> i = j)
  BY SortedIsOne
<1> DEFINE First(n) == {p[j] : j \in 1 .. n}
           Good == {n \in Nat : n <= Len(p) => IsFiniteSet(First(n)) /\ Cardinality(First(n)) = n}
<1>2. 0 \in Good
  <2>1. First(0) = {}
    OBVIOUS
  <2> QED BY <2>1, FS_EmptySet
<1>3. ASSUME NEW n \in Nat, n \in Good PROVE n + 1 \in Good
  <2> SUFFICES ASSUME n + 1 <= Len(p)
               PROVE  IsFiniteSet(First(n + 1)) /\ Cardinality(First(n + 1)) = n + 1
    <3> HIDE DEF First
    <3> QED OBVIOUS
  <2>1. IsFiniteSet(First(n)) /\ Cardinality(First(n)) = n
    <3> HIDE DEF First
    <3> QED BY <1>1, <1>3
  <2>2. p[n + 1] \notin First(n)
    BY <1>1
  <2>3. First(n + 1) = First(n) \cup {p[n + 1]}
    <3>1. 1 .. (n + 1) = (1 .. n) \cup {n + 1}
      OBVIOUS
    <3> QED BY <3>1
  <2> HIDE DEF First
  <2> QED BY <2>1, <2>2, <2>3, FS_AddElement
<1>4. \A n \in Nat : n \in Good
  <2> HIDE DEF Good
  <2> QED BY <1>2, <1>3, NumberInduction
<1>5. \A n \in 0 .. Len(p) : Cardinality(First(n)) = n
  <2> HIDE DEF First
  <2> QED BY <1>1, <1>4
<1>6. Range(p) = First(Len(p))
  BY <1>1 DEF Range
<1>7. ASSUME NEW i \in 1 .. Len(p)
      PROVE  Cardinality({t \in Range(p) : t < p[i]}) = i - 1
  <2>1. {t \in Range(p) : t < p[i]} = First(i - 1)
    <3>1. ASSUME NEW t, t \in Range(p), t < p[i] PROVE t \in First(i - 1)
      <4>1. PICK j \in 1 .. Len(p) : t = p[j]
        BY <1>1, <3>1 DEF Range
      <4>2. j < i
        BY <1>1, <3>1, <4>1
      <4>3. j \in 1 .. (i - 1)
        BY <1>1, <4>2
      <4> QED BY <4>1, <4>3
    <3>2. ASSUME NEW j \in 1 .. (i - 1) PROVE p[j] \in Range(p) /\ p[j] < p[i]
      <4>1. j \in 1 .. Len(p) /\ j < i
        BY <1>1
      <4> QED BY <1>1, <4>1 DEF Range
    <3> QED BY <3>1, <3>2
  <2>2. i - 1 \in 0 .. Len(p)
    BY <1>1
  <2> HIDE DEF First
  <2> QED BY <1>5, <2>1, <2>2
<1>8. Cardinality(Range(p)) = Len(p)
  <2>1. Len(p) \in 0 .. Len(p)
    BY <1>1
  <2> HIDE DEF First
  <2> QED BY <1>5, <1>6, <2>1
<1> QED BY <1>7, <1>8

\* A list in ascending order is its addresses in ascending order.
LEMMA AscendingOfSorted ==
    ASSUME NEW p \in Seq(Servers), Sorted(p)
    PROVE  Ascending(Range(p)) = p
<1>1. /\ Len(p) \in Nat /\ DOMAIN p = 1 .. Len(p)
      /\ \A i, j \in 1 .. Len(p) : (p[i] < p[j] <=> i < j) /\ (p[i] = p[j] <=> i = j)
  BY SortedIsOne
<1>2. /\ Cardinality(Range(p)) = Len(p)
      /\ \A i \in 1 .. Len(p) : Cardinality({t \in Range(p) : t < p[i]}) = i - 1
  BY RankIsPlace
<1> DEFINE At(i) == CHOOSE s \in Range(p) : Cardinality({t \in Range(p) : t < s}) = i - 1
<1>3. ASSUME NEW i \in 1 .. Len(p) PROVE At(i) = p[i]
  <2>1. p[i] \in Range(p) /\ Cardinality({t \in Range(p) : t < p[i]}) = i - 1
    BY <1>1, <1>2 DEF Range
  <2>2. At(i) \in Range(p) /\ Cardinality({t \in Range(p) : t < At(i)}) = i - 1
    BY <2>1
  <2> HIDE DEF At
  <2>3. PICK j \in 1 .. Len(p) : At(i) = p[j]
    BY <1>1, <2>2 DEF Range
  <2>4. j - 1 = i - 1
    BY <1>2, <2>2, <2>3
  <2>5. j = i
    BY <1>1, <2>4
  <2> QED BY <2>3, <2>5
<1>4. Ascending(Range(p)) = [i \in 1 .. Len(p) |-> At(i)]
  BY <1>2 DEF Ascending
<1> HIDE DEF At
<1>5. [i \in 1 .. Len(p) |-> At(i)] = [i \in 1 .. Len(p) |-> p[i]]
  BY <1>3
<1> QED BY <1>1, <1>4, <1>5

LEMMA AscendingIsSorted ==
    ASSUME NEW S \in SUBSET Servers
    PROVE  /\ Ascending(S) \in Seq(Servers) /\ Sorted(Ascending(S))
           /\ Len(Ascending(S)) = Cardinality(S)
           /\ \A i \in DOMAIN Ascending(S) : Ascending(S)[i] \in S
<1>1. /\ Servers \subseteq Nat /\ Cardinality(S) \in Nat
      /\ \A T \in SUBSET S : IsFiniteSet(T) /\ Cardinality(T) \in Nat
  <2>1. IsFiniteSet(S)
    BY MetaListAssumption, FS_Subset
  <2> QED BY <2>1, MetaListAssumption, FS_Subset, FS_CardinalityType
<1>2. PICK p : p = Ascending(S)
  OBVIOUS
<1>3. p \in Seq(S)
  BY <1>2, AscendingType
<1>4. /\ DOMAIN p = 1 .. Cardinality(S)
      /\ \A i \in 1 .. Cardinality(S) :
            p[i] = CHOOSE s \in S : Cardinality({t \in S : t < s}) = i - 1
  BY <1>2 DEF Ascending
<1>5. \A i \in 1 .. Cardinality(S) : p[i] \in S /\ Cardinality({t \in S : t < p[i]}) = i - 1
  <2>1. ASSUME NEW i \in 1 .. Cardinality(S)
        PROVE  p[i] \in S /\ Cardinality({t \in S : t < p[i]}) = i - 1
    <3>1. \E s \in S : Cardinality({t \in S : t < s}) = i - 1
      BY RanksExist
    <3>2. PICK x : x = CHOOSE s \in S : Cardinality({t \in S : t < s}) = i - 1
      OBVIOUS
    <3>3. x \in S /\ Cardinality({t \in S : t < x}) = i - 1
      BY <3>1, <3>2
    <3>4. p[i] = x
      BY <1>4, <3>2
    <3> QED BY <3>3, <3>4
  <2> QED BY <2>1
<1>6. ASSUME NEW i \in 1 .. Cardinality(S), NEW j \in 1 .. Cardinality(S), i < j
      PROVE  p[i] < p[j]
  <2>1. PICK x \in S, y \in S : x = p[i] /\ y = p[j] /\ x \in Nat /\ y \in Nat
    BY <1>1, <1>5
  <2>2. SUFFICES ASSUME ~(x < y) PROVE FALSE
    BY <2>1
  <2>3. PICK T, U : T = {t \in S : t < y} /\ U = {t \in S : t < x}
    OBVIOUS
  <2>4. T \in SUBSET U
    <3>1. \A t \in S : t < y => t < x
      BY <1>1, <2>1, <2>2
    <3> QED BY <2>3, <3>1
  <2>5. IsFiniteSet(U)
    BY <1>1, <2>3
  <2>6. Cardinality(T) <= Cardinality(U)
    BY <2>4, <2>5, FS_Subset
  <2>7. Cardinality(T) = j - 1 /\ Cardinality(U) = i - 1
    BY <1>5, <2>1, <2>3
  <2> QED BY <1>1, <1>6, <2>6, <2>7
<1>7. Sorted(p)
  BY <1>4, <1>6 DEF Sorted
<1>8. Len(p) = Cardinality(S)
  BY <1>1, <1>3, <1>4
<1>9. p \in Seq(Servers)
  BY <1>3
<1> QED BY <1>2, <1>4, <1>5, <1>7, <1>8, <1>9

\* The pages of a list.
LEMMA PageFacts ==
    ASSUME NEW list \in Seq(Servers), Sorted(list), NEW k \in Nat, k <= Len(list),
           NEW p, p = Page(list, k)
    PROVE  /\ p \in Seq(Servers) /\ Sorted(p) /\ Len(p) \in Nat
           /\ k < Len(list) => p # <<>>
           /\ k + Len(p) <= Len(list)
           /\ \A i \in DOMAIN p : p[i] = list[k + i] /\ k + i \in DOMAIN list
           /\ SubSeq(list, 1, k) \o p = SubSeq(list, 1, k + Len(p))
<1>1. PageSize \in Nat /\ PageSize > 0 /\ Len(list) \in Nat /\ DOMAIN list = 1 .. Len(list)
  BY MetaListAssumption
<1>2. PICK end : end = IF Len(list) - k > PageSize THEN k + PageSize ELSE Len(list)
  OBVIOUS
<1>3. end \in Nat /\ k <= end /\ end <= Len(list) /\ (k < Len(list) => k < end)
  <2>1. PICK n \in Nat : n = Len(list)
    BY <1>1
  <2>2. k <= n /\ end = IF n - k > PageSize THEN k + PageSize ELSE n
    BY <1>2, <2>1
  <2>3. end \in Nat /\ k <= end /\ end <= n /\ (k < n => k < end)
    BY <1>1, <2>2
  <2> QED BY <2>1, <2>3
<1>4. p = SubSeq(list, k + 1, end)
  BY <1>2 DEF Page
<1>5. PICK n \in Nat : n = end - k /\ k + n = end
  BY <1>3
<1>6. p = [i \in 1 .. n |-> list[k + i]]
  <2>1. p = [i \in 1 .. (end - (k + 1) + 1) |-> list[(k + 1) + i - 1]]
    BY <1>1, <1>3, <1>4
  <2>2. end - (k + 1) + 1 = n
    BY <1>3, <1>5
  <2>3. \A i \in 1 .. n : (k + 1) + i - 1 = k + i
    OBVIOUS
  <2> QED BY <2>1, <2>2, <2>3
<1>7. \A i \in 1 .. n : k + i \in 1 .. Len(list) /\ list[k + i] \in Servers
  BY <1>1, <1>3, <1>5
<1>8. p \in Seq(Servers) /\ Len(p) = n /\ DOMAIN p = 1 .. n /\ \A i \in 1 .. n : p[i] = list[k + i]
  BY <1>6, <1>7
<1>9. Sorted(p)
  <2>1. ASSUME NEW i \in 1 .. n, NEW j \in 1 .. n, i < j PROVE p[i] < p[j]
    <3>1. k + i \in DOMAIN list /\ k + j \in DOMAIN list /\ k + i < k + j
      BY <1>1, <1>7, <2>1
    <3>2. list[k + i] < list[k + j]
      BY <3>1 DEF Sorted
    <3> QED BY <1>8, <3>2
  <2> QED BY <1>8, <2>1 DEF Sorted
<1>10. k < Len(list) => p # <<>>
  BY <1>3, <1>5, <1>8
<1>11. SubSeq(list, 1, k) \o p = SubSeq(list, 1, k + n)
  <2>1. PICK a, b : a = SubSeq(list, 1, k) /\ b = SubSeq(list, 1, k + n)
    OBVIOUS
  <2>2. a \in Seq(Servers) /\ Len(a) = k /\ \A i \in 1 .. k : a[i] = list[i]
    BY <1>1, <1>3, <2>1
  <2>3. b \in Seq(Servers) /\ Len(b) = k + n /\ \A i \in 1 .. (k + n) : b[i] = list[i]
    BY <1>1, <1>3, <1>5, <2>1
  <2>4. PICK c : c = a \o p
    OBVIOUS
  <2>5. /\ c \in Seq(Servers) /\ Len(c) = k + n
        /\ \A i \in 1 .. (k + n) : c[i] = IF i <= k THEN a[i] ELSE p[i - k]
    BY <1>8, <2>2, <2>4
  <2>6. ASSUME NEW i \in 1 .. (k + n) PROVE c[i] = b[i]
    <3>1. CASE i <= k
      <4>1. i \in 1 .. k
        BY <3>1
      <4> QED BY <2>2, <2>3, <2>5, <3>1, <4>1
    <3>2. CASE ~(i <= k)
      <4>1. i - k \in 1 .. n /\ k + (i - k) = i
        BY <3>2
      <4> QED BY <1>8, <2>3, <2>5, <3>2, <4>1
    <3> QED BY <3>1, <3>2
  <2>7. c = b
    BY <2>3, <2>5, <2>6
  <2> QED BY <2>1, <2>4, <2>7
<1>12. k + Len(p) <= Len(list) /\ Len(p) \in Nat
  BY <1>3, <1>5, <1>8
<1> QED BY <1>1, <1>7, <1>8, <1>9, <1>10, <1>11, <1>12

\* A page whose servers all have a session is sent as it is.
LEMMA PackedIsPage ==
    ASSUME NEW p \in Seq(Servers), Sorted(p), \A i \in DOMAIN p : sessions[p[i]] = "full"
    PROVE  Packed(p) = p
<1>1. Len(p) \in Nat /\ DOMAIN p = 1 .. Len(p)
  OBVIOUS
<1>2. Range(p) \cap Known = Range(p)
  BY DEF Range, Known
<1>3. Ascending(Range(p) \cap Known) = p
  BY <1>2, AscendingOfSorted
<1> DEFINE full(i) == {j \in 1 .. i : sessions[p[j]] = "full"}
           last(i) == CHOOSE j \in full(i) : \A k \in full(i) : k <= j
<1>4. Packed(p) = [i \in DOMAIN p |-> IF full(i) = {} THEN 0 ELSE p[last(i)]]
  <2>1. PICK alive : alive = Ascending(Range(p) \cap Known)
    OBVIOUS
  <2> DEFINE had(i) == {j \in 1 .. i : sessions[alive[j]] = "full"}
  <2>2. Packed(p) = [i \in DOMAIN alive |->
                        IF had(i) = {} THEN 0
                        ELSE alive[CHOOSE j \in had(i) : \A k \in had(i) : k <= j]]
    BY <2>1 DEF Packed
  <2>3. alive = p
    BY <1>3, <2>1
  <2> QED BY <2>2, <2>3
<1>5. ASSUME NEW i \in DOMAIN p PROVE full(i) # {} /\ p[last(i)] = p[i]
  <2>1. full(i) = 1 .. i
    BY <1>1
  <2> HIDE DEF full
  <2>2. i \in full(i) /\ \A k \in full(i) : k <= i
    BY <1>1, <2>1
  <2>3. last(i) \in full(i) /\ \A k \in full(i) : k <= last(i)
    BY <2>2
  <2> HIDE DEF last
  <2>4. last(i) = i
    BY <1>1, <2>1, <2>2, <2>3
  <2> QED BY <2>2, <2>4
<1> HIDE DEF full, last
<1>6. Packed(p) = [i \in DOMAIN p |-> p[i]]
  BY <1>4, <1>5
<1> QED BY <1>1, <1>6

-----------------------------------------------------------------------------
\* Reading, piece by piece.

\* The two clients differ at most in what they read and in their queries.
Alike(m, v) ==
    /\ v.m_status = m.m_status /\ v.m_gameServers = m.m_gameServers
    /\ v.m_totalServers = m.m_totalServers /\ v.completed = m.completed
    /\ v.port = m.port /\ v.resolving = m.resolving /\ v.open = m.open /\ v.out = m.out

LEMMA QueryIsAlike ==
    ASSUME NEW m \in Metas, NEW v, v = Query(m)
    PROVE  Alike(m, v) /\ v.expects = m.expects /\ v.buffer = m.buffer /\ v.timer = m.timer
<1>1. PICK a, b : v = [m EXCEPT !.m_activeQueries = a, !.m_nextQuery = b]
  BY DEF Query
<1> QED BY <1>1 DEF Metas, Alike

\* A client that expects nothing leaves all pieces in its buffer.
LEMMA IdleReads ==
    ASSUME NEW m \in Busy, NEW s \in Seq(AllPieces), NEW h, Reads(h, m, s),
           NEW j \in 0 .. Len(s), h[j].expects = "nothing"
    PROVE  Alike(h[j], h[Len(s)]) /\ h[Len(s)].expects = "nothing"
<1>1. /\ Len(s) \in Nat /\ \A i \in 1 .. Len(s) : s[i] \in AllPieces
      /\ \A i \in 0 .. Len(s) : h[i] \in Metas
      /\ \A i \in 1 .. Len(s) : h[i] = Read(h[i - 1], s[i])
  <2>1. Busy \subseteq Metas
    BY DEF Busy
  <2>2. /\ h \in [0 .. Len(s) -> Busy]
        /\ \A i \in 1 .. Len(s) : h[i] = Read(h[i - 1], s[i])
    BY DEF Reads
  <2>3. Len(s) \in Nat /\ \A i \in 1 .. Len(s) : s[i] \in AllPieces
    OBVIOUS
  <2>4. \A i \in 0 .. Len(s) : h[i] \in Metas
    BY <2>1, <2>2
  <2> QED BY <2>2, <2>3, <2>4
<1> DEFINE Fine(i) == Alike(h[j], h[i]) /\ h[i].expects = "nothing"
           Good == {n \in Nat : j + n <= Len(s) => Fine(j + n)}
<1>2. 0 \in Good
  <2>1. j + 0 = j
    OBVIOUS
  <2> QED BY <2>1 DEF Alike
<1>3. ASSUME NEW n \in Nat, n \in Good PROVE n + 1 \in Good
  <2> SUFFICES ASSUME j + (n + 1) <= Len(s) PROVE Fine(j + (n + 1))
    <3> HIDE DEF Fine
    <3> QED OBVIOUS
  <2>1. PICK i \in Nat : i = j + n
    OBVIOUS
  <2>2. i + 1 = j + (n + 1) /\ i \in 0 .. Len(s) /\ i + 1 \in 1 .. Len(s) /\ (i + 1) - 1 = i
    BY <1>1, <2>1
  <2>3. Fine(i)
    <3> HIDE DEF Fine
    <3> QED BY <1>3, <2>1, <2>2
  <2>4. PICK u, v : u = h[i] /\ v = h[i + 1]
    OBVIOUS
  <2>5. u \in Metas /\ v = Read(u, s[i + 1])
    BY <1>1, <2>2, <2>4
  <2>6. v = [u EXCEPT !.buffer = Append(u.buffer, s[i + 1])]
    BY <2>3, <2>4, <2>5 DEF Read
  <2>7. Alike(u, v) /\ v.expects = u.expects
    <3>1. PICK b : v = [u EXCEPT !.buffer = b]
      BY <2>6
    <3> QED BY <2>5, <3>1 DEF Metas, Alike
  <2>8. Fine(i + 1)
    BY <2>3, <2>4, <2>7 DEF Alike
  <2> QED BY <2>2, <2>8
<1>4. \A n \in Nat : n \in Good
  <2> HIDE DEF Good
  <2> QED BY <1>2, <1>3, NumberInduction
<1>5. PICK n \in Nat : j + n = Len(s)
  <2>1. Len(s) - j \in Nat /\ j + (Len(s) - j) = Len(s)
    BY <1>1
  <2> QED BY <2>1
<1>6. Fine(Len(s))
  <2>1. n \in Good /\ j + n <= Len(s)
    <3> HIDE DEF Good
    <3> QED BY <1>1, <1>4, <1>5
  <2> QED BY <1>5, <2>1
<1> QED BY <1>6

\* Whatever the client reads, its requests are its own.
Ported(m, port, resolving) ==
    /\ m.port = port /\ m.resolving = resolving
    /\ \A d \in Range(m.out) : d.port = port

LEMMA CancelledIsPorted ==
    ASSUME NEW m \in Metas, NEW v, v = Cancelled(m)
    PROVE  /\ v.port = m.port /\ v.resolving = m.resolving /\ v.out = m.out
           /\ ~v.open /\ ~v.timer /\ v.m_status # "QUERYING" /\ v.buffer = m.buffer
           /\ v.expects = m.expects /\ v.completed = m.completed
<1>0. PICK b : b = IF m.m_lastValidList # <<>> THEN "VALID" ELSE "INVALID"
  OBVIOUS
<1>1. PICK a, c : v = [Disconnected(m) EXCEPT !.m_activeQueries = {}, !.m_gameServers = a,
                                              !.m_status = b, !.m_nextQuery = c]
  BY <1>0 DEF Cancelled
<1>2. PICK u : u = Disconnected(m)
  OBVIOUS
<1>3. /\ u \in Metas /\ u.port = m.port /\ u.resolving = m.resolving /\ u.out = m.out
      /\ ~u.open /\ ~u.timer /\ u.buffer = m.buffer
      /\ u.expects = m.expects /\ u.completed = m.completed
  BY <1>2 DEF Disconnected, Metas
<1>4. b # "QUERYING"
  BY <1>0
<1> QED BY <1>1, <1>2, <1>3, <1>4 DEF Metas

LEMMA ListReqIs ==
    ASSUME NEW m \in Metas, NEW base, NEW v, v = listReq(m, base)
    PROVE  /\ v.port = m.port /\ v.resolving = m.resolving /\ v.open = m.open
           /\ v.out = Append(m.out, Datagram("LISTREQ", m.port, <<base>>))
           /\ v.m_status = m.m_status /\ v.m_gameServers = m.m_gameServers
           /\ v.m_totalServers = m.m_totalServers /\ v.completed = m.completed
           /\ v.expects = "command" /\ v.buffer = m.buffer
<1>1. PICK o : o = Append(m.out, Datagram("LISTREQ", m.port, <<base>>))
  OBVIOUS
<1>2. v = [m EXCEPT !.out = o, !.expects = "command", !.timer = TRUE]
  BY <1>1 DEF listReq
<1> QED BY <1>1, <1>2 DEF Metas

LEMMA ListReqPorted ==
    ASSUME NEW m \in Metas, NEW base \in Nat, NEW port, NEW resolving,
           Ported(m, port, resolving)
    PROVE  Ported(listReq(m, base), port, resolving)
<1>1. PICK v, s, d : v = listReq(m, base) /\ s = m.out /\ d = Datagram("LISTREQ", m.port, <<base>>)
  OBVIOUS
<1>2. s \in Seq(Requests) /\ m.port \in Nat
  BY <1>1 DEF Metas
<1>3. d \in Requests /\ d.port = m.port
  BY <1>1, <1>2 DEF Datagram, Requests
<1>4. Range(Append(s, d)) = Range(s) \cup {d}
  BY <1>2, <1>3, AppendRange
<1>5. v.port = m.port /\ v.resolving = m.resolving /\ v.out = Append(s, d)
  BY <1>1, ListReqIs
<1> QED BY <1>1, <1>3, <1>4, <1>5 DEF Ported

LEMMA PageReadPorted ==
    ASSUME NEW m \in Busy, NEW port, NEW resolving, Ported(m, port, resolving)
    PROVE  Ported(PageRead(m), port, resolving)
<1>1. PICK servers, n :
        /\ servers = m.m_gameServers \o m.m_ipBuffer
        /\ n = [m EXCEPT !.m_gameServers = servers, !.m_ipBuffer = <<>>, !.expects = "nothing"]
  OBVIOUS
<1>2. m \in Metas /\ servers \in Seq(Nat) /\ Len(servers) \in Nat
  <2>1. PICK s, t : s = m.m_gameServers /\ t = m.m_ipBuffer
    OBVIOUS
  <2>2. m \in Metas /\ s \in Seq(Nat) /\ t \in Seq(Nat)
    BY <2>1 DEF Busy, Metas
  <2>3. s \o t \in Seq(Nat) /\ Len(s \o t) \in Nat
    BY <2>2
  <2> QED BY <1>1, <2>1, <2>2, <2>3
<1>3. n \in Metas /\ n.port = m.port /\ n.resolving = m.resolving /\ n.out = m.out
  <2>1. <<>> \in Seq(Nat)
    OBVIOUS
  <2> QED BY <1>1, <1>2, <2>1 DEF Metas
<1>4. Ported(n, port, resolving)
  BY <1>3 DEF Ported
<1>5. PICK v : v = IF Len(servers) < m.m_totalServers
                   THEN listReq(n, Len(servers))
                   ELSE [Disconnected(n) EXCEPT !.m_status = "QUERYING", !.completed = TRUE]
  OBVIOUS
<1>6. v \in Metas /\ Ported(v, port, resolving)
  <2>1. CASE Len(servers) < m.m_totalServers
    <3>1. v = listReq(n, Len(servers))
      BY <1>5, <2>1
    <3> QED BY <1>2, <1>3, <1>4, <3>1, ListReqPorted, ListReqKeeps
  <2>2. CASE ~(Len(servers) < m.m_totalServers)
    <3>1. PICK u : u = Disconnected(n)
      OBVIOUS
    <3>2. u \in Metas /\ u.port = n.port /\ u.resolving = n.resolving /\ u.out = n.out
      BY <1>3, <3>1 DEF Disconnected, Metas
    <3>3. v = [u EXCEPT !.m_status = "QUERYING", !.completed = TRUE]
      BY <1>5, <2>2, <3>1
    <3>4. v \in Metas /\ v.port = n.port /\ v.resolving = n.resolving /\ v.out = n.out
      BY <3>2, <3>3 DEF Metas
    <3> QED BY <1>4, <3>4 DEF Ported
  <2> QED BY <2>1, <2>2
<1>7. PICK w : w = Query(v)
  OBVIOUS
<1>8. Ported(w, port, resolving)
  BY <1>6, <1>7, QueryIsAlike DEF Alike, Ported
<1>9. PageRead(m) = w
  BY <1>1, <1>5, <1>7 DEF PageRead
<1> QED BY <1>8, <1>9

LEMMA ReadPorted ==
    ASSUME NEW m \in Busy, NEW p \in AllPieces, NEW port, NEW resolving,
           Ported(m, port, resolving)
    PROVE  Ported(Read(m, p), port, resolving)
<1>1. /\ m \in Metas /\ p.what \in {"HANDSHAKE", "LIST_RESP", "address"}
      /\ m.expects \in {"nothing", "command", "addresses"} /\ m.m_ipBuffer \in Seq(Nat)
      /\ p.a \in Nat
  BY DEF Busy, Metas, AllPieces
<1>2. CASE m.expects = "nothing"
  <2>1. PICK b : Read(m, p) = [m EXCEPT !.buffer = b]
    BY <1>2 DEF Read
  <2> QED BY <1>1, <2>1 DEF Metas, Ported
<1>3. CASE m.expects = "command" /\ p.what = "address"
  <2>1. PICK n : n = [m EXCEPT !.expects = "nothing"]
    OBVIOUS
  <2>2. n \in Metas /\ n.port = m.port /\ n.resolving = m.resolving /\ n.out = m.out
    BY <1>1, <2>1 DEF Metas
  <2>3. Read(m, p) = Cancelled(n)
    BY <1>3, <2>1 DEF Read
  <2> QED BY <2>2, <2>3, CancelledIsPorted DEF Ported
<1>4. CASE m.expects = "command" /\ p.what # "address" /\ m.m_status # "GETTING_LIST"
  <2>1. Read(m, p) = [m EXCEPT !.expects = "nothing"]
    BY <1>4 DEF Read
  <2> QED BY <1>1, <2>1 DEF Metas, Ported
<1>5. CASE m.expects = "command" /\ p.what = "HANDSHAKE" /\ m.m_status = "GETTING_LIST"
  <2>1. Read(m, p) = listReq(m, 0)
    BY <1>5 DEF Read
  <2> QED BY <1>1, <2>1, ListReqPorted
<1>6. CASE m.expects = "command" /\ p.what = "LIST_RESP" /\ m.m_status = "GETTING_LIST"
  <2>1. PICK a, b, c, d : Read(m, p) = [m EXCEPT !.m_totalServers = a, !.packed = b,
                                                 !.m_ipBuffer = c, !.expects = d]
    BY <1>6 DEF Read
  <2> QED BY <1>1, <2>1 DEF Metas, Ported
<1>7. CASE m.expects = "addresses"
  <2>1. PICK s, v : s = m.m_ipBuffer /\ v = [m EXCEPT !.m_ipBuffer = Append(m.m_ipBuffer, p.a)]
    OBVIOUS
  <2>2. Append(s, p.a) \in Seq(Nat)
    BY <1>1, <2>1
  <2>3. v = [m EXCEPT !.m_ipBuffer = Append(s, p.a)]
    BY <2>1
  <2>4. /\ v \in Metas /\ v.port = m.port /\ v.resolving = m.resolving /\ v.out = m.out
        /\ v.m_status = m.m_status /\ v.m_gameServers = m.m_gameServers
        /\ v.m_activeQueries = m.m_activeQueries /\ v.m_nextQuery = m.m_nextQuery
    BY <1>1, <2>2, <2>3 DEF Metas
  <2>5. v \in Busy /\ Ported(v, port, resolving)
    BY <2>4, SameQueries DEF Ported
  <2>6. Read(m, p) = IF Len(v.m_ipBuffer) < m.packed THEN v ELSE PageRead(v)
    BY <1>7, <2>1 DEF Read
  <2> QED BY <2>5, <2>6, PageReadPorted
<1> QED BY <1>1, <1>2, <1>3, <1>4, <1>5, <1>6, <1>7

LEMMA FoldPorted ==
    ASSUME NEW m \in Busy, NEW s \in Seq(AllPieces), NEW port, NEW resolving,
           Ported(m, port, resolving)
    PROVE  Ported(FoldLeft(Read, m, s), port, resolving)
<1>1. PICK h : Reads(h, m, s) /\ FoldLeft(Read, m, s) = h[Len(s)]
  BY FoldReads
<1>2. Len(s) \in Nat /\ \A i \in 1 .. Len(s) : s[i] \in AllPieces
  OBVIOUS
<1> DEFINE Good == {i \in Nat : i <= Len(s) => Ported(h[i], port, resolving)}
<1>3. 0 \in Good
  BY <1>1 DEF Reads
<1>4. ASSUME NEW i \in Nat, i \in Good PROVE i + 1 \in Good
  <2> SUFFICES ASSUME i + 1 <= Len(s) PROVE Ported(h[i + 1], port, resolving)
    OBVIOUS
  <2>1. i \in 0 .. Len(s) /\ i + 1 \in 1 .. Len(s) /\ (i + 1) - 1 = i
    BY <1>2
  <2>2. h[i] \in Busy /\ h[i + 1] = Read(h[i], s[i + 1]) /\ s[i + 1] \in AllPieces
    BY <1>1, <1>2, <2>1 DEF Reads
  <2>3. Ported(h[i], port, resolving)
    BY <1>2, <1>4
  <2> QED BY <2>2, <2>3, ReadPorted
<1>5. \A i \in Nat : i \in Good
  <2> HIDE DEF Good
  <2> QED BY <1>3, <1>4, NumberInduction
<1> QED BY <1>1, <1>2, <1>5

LEMMA SameSeq ==
    ASSUME NEW T, NEW a \in Seq(T), NEW b \in Seq(T), Len(a) = Len(b),
           \A i \in 1 .. Len(b) : a[i] = b[i]
    PROVE  a = b
OBVIOUS

\* The pieces of a list.
LEMMA PiecesAre ==
    ASSUME NEW d \in Responses, d.kind = "LISTRESP",
           NEW q, q = d.data, NEW n, n = Len(q) - 1, NEW r, r = Pieces(d)
    PROVE  /\ n \in Nat /\ r \in Seq(AllPieces) /\ Len(r) = n + 1
           /\ r[1] = Piece("LIST_RESP", q[1], n)
           /\ \A i \in 1 .. n : r[i + 1] = Piece("address", q[i + 1], 0)
<1>1. q \in Seq(Nat) /\ q # <<>>
  BY DEF Responses
<1>2. n \in Nat /\ q[1] \in Nat /\ \A i \in 1 .. n : q[i + 1] \in Nat
  BY <1>1
<1>3. PICK x, t : /\ x = Piece("LIST_RESP", q[1], n)
                  /\ t = [i \in 1 .. n |-> Piece("address", q[i + 1], 0)]
  OBVIOUS
<1>4. r = <<x>> \o t
  BY <1>1, <1>3 DEF Pieces
<1>5. x \in AllPieces
  BY <1>2, <1>3 DEF Piece, AllPieces
<1>6. t \in Seq(AllPieces) /\ Len(t) = n
  <2>1. \A i \in 1 .. n : Piece("address", q[i + 1], 0) \in AllPieces
    BY <1>2 DEF Piece, AllPieces
  <2>2. t \in [1 .. n -> AllPieces]
    BY <1>3, <2>1
  <2> QED BY <1>2, <2>2
<1>7. /\ r \in Seq(AllPieces) /\ Len(r) = n + 1 /\ r[1] = x
      /\ \A i \in 1 .. n : r[i + 1] = t[i]
  BY <1>2, <1>4, <1>5, <1>6
<1>8. \A i \in 1 .. n : t[i] = Piece("address", q[i + 1], 0)
  BY <1>3
<1> QED BY <1>1, <1>2, <1>3, <1>7, <1>8

LEMMA NonePieces ==
    ASSUME NEW d \in Responses, d.kind = "LISTRESP",
           NEW q, q = d.data, Len(q) = 1, NEW r, r = Pieces(d)
    PROVE  r \in Seq(AllPieces) /\ Len(r) = 1 /\ r[1] = Piece("LIST_RESP", q[1], 0)
<1>1. PICK n : n = Len(q) - 1
  OBVIOUS
<1>2. r \in Seq(AllPieces) /\ Len(r) = n + 1 /\ r[1] = Piece("LIST_RESP", q[1], n)
  BY <1>1, PiecesAre
<1>3. n = 0
  BY <1>1
<1> QED BY <1>2, <1>3

LEMMA PagePieces ==
    ASSUME NEW d \in Responses, d.kind = "LISTRESP",
           NEW total, NEW p \in Seq(Nat), d.data = <<total>> \o p, NEW r, r = Pieces(d)
    PROVE  /\ r \in Seq(AllPieces) /\ Len(r) = Len(p) + 1
           /\ r[1] = Piece("LIST_RESP", total, Len(p))
           /\ \A i \in 1 .. Len(p) : r[i + 1] = Piece("address", p[i], 0)
<1>1. PICK q, n : q = d.data /\ n = Len(q) - 1
  OBVIOUS
<1>2. n = Len(p) /\ q[1] = total /\ \A i \in 1 .. Len(p) : q[i + 1] = p[i]
  BY <1>1
<1>3. /\ n \in Nat /\ r \in Seq(AllPieces) /\ Len(r) = n + 1
      /\ r[1] = Piece("LIST_RESP", q[1], n)
      /\ \A i \in 1 .. n : r[i + 1] = Piece("address", q[i + 1], 0)
  BY <1>1, PiecesAre
<1> QED BY <1>2, <1>3

\* What the client reads of a datagram.
LEMMA GotDataReads ==
    ASSUME NEW m \in Busy, NEW d \in Responses
    PROVE  \E u \in Busy, s \in Seq(AllPieces) :
              /\ Alike(m, u) /\ u.expects = m.expects /\ u.buffer = <<>>
              /\ s = m.buffer \o Pieces(d)
              /\ \E h : Reads(h, u, s) /\ gotData(m, d) = h[Len(s)]
<1>1. PICK u : u = [m EXCEPT !.buffer = <<>>]
  OBVIOUS
<1>2. m \in Metas /\ m.buffer \in Seq(AllPieces) /\ <<>> \in Seq(AllPieces)
  BY DEF Busy, Metas
<1>3. /\ u \in Metas /\ Alike(m, u) /\ u.expects = m.expects /\ u.buffer = <<>>
      /\ u.m_activeQueries = m.m_activeQueries /\ u.m_nextQuery = m.m_nextQuery
  BY <1>1, <1>2 DEF Metas, Alike
<1>4. u \in Busy
  BY <1>3, SameQueries DEF Alike
<1>5. PICK a, b : a = m.buffer /\ b = Pieces(d)
  OBVIOUS
<1>6. a \in Seq(AllPieces) /\ b \in Seq(AllPieces)
  BY <1>2, <1>5, PiecesType
<1>7. PICK s \in Seq(AllPieces) : s = a \o b
  <2>1. a \o b \in Seq(AllPieces)
    BY <1>6
  <2> QED BY <2>1
<1>8. PICK h : Reads(h, u, s) /\ FoldLeft(Read, u, s) = h[Len(s)]
  BY <1>4, FoldReads
<1>9. gotData(m, d) = h[Len(s)]
  BY <1>1, <1>5, <1>7, <1>8 DEF gotData
<1> QED BY <1>3, <1>4, <1>5, <1>7, <1>8, <1>9

\* A client that is not after the list takes no notice of it.
LEMMA ReadsOff ==
    ASSUME NEW m \in Busy, NEW d \in Responses,
           \/ m.expects = "nothing"
           \/ m.expects = "command" /\ m.buffer = <<>> /\ m.m_status # "GETTING_LIST"
    PROVE  Alike(m, gotData(m, d)) /\ gotData(m, d).expects = "nothing"
<1>0. PICK u \in Busy, s \in Seq(AllPieces) :
        /\ Alike(m, u) /\ u.expects = m.expects
        /\ s = m.buffer \o Pieces(d)
        /\ \E h : Reads(h, u, s) /\ gotData(m, d) = h[Len(s)]
  BY GotDataReads
<1>1. PICK h :
        /\ Alike(m, u) /\ u.expects = m.expects
        /\ s = m.buffer \o Pieces(d)
        /\ Reads(h, u, s) /\ gotData(m, d) = h[Len(s)]
  BY <1>0
<1>2. Len(s) \in Nat /\ h[0] = u
  BY <1>1 DEF Reads
<1>3. CASE m.expects = "nothing"
  <2>1. h[0].expects = "nothing" /\ 0 \in 0 .. Len(s)
    BY <1>1, <1>2, <1>3
  <2>2. Alike(h[0], h[Len(s)]) /\ h[Len(s)].expects = "nothing"
    BY <1>1, <2>1, IdleReads
  <2> QED BY <1>1, <1>2, <2>2 DEF Alike
<1>4. CASE m.expects = "command" /\ m.buffer = <<>> /\ m.m_status # "GETTING_LIST"
  <2>1. s = Pieces(d)
    <3>1. PICK t \in Seq(AllPieces) : t = Pieces(d)
      BY PiecesType
    <3>2. <<>> \o t = t
      OBVIOUS
    <3> QED BY <1>1, <1>4, <3>1, <3>2
  <2>2. Len(s) >= 1 /\ s[1].what # "address"
    <3>1. CASE d.kind = "HANDSHAKE"
      BY <2>1, <3>1 DEF Pieces, Piece
    <3>2. CASE d.kind # "HANDSHAKE"
      <4>1. d.kind = "LISTRESP"
        BY <3>2 DEF Responses
      <4>2. PICK q, n, r : q = d.data /\ n = Len(q) - 1 /\ r = Pieces(d)
        OBVIOUS
      <4>3. n \in Nat /\ Len(r) = n + 1 /\ r[1] = Piece("LIST_RESP", q[1], n)
        BY <4>1, <4>2, PiecesAre
      <4> QED BY <2>1, <4>2, <4>3 DEF Piece
    <3> QED BY <3>1, <3>2
  <2>3. 1 \in 1 .. Len(s) /\ 1 \in 0 .. Len(s) /\ 1 - 1 = 0
    BY <1>2, <2>2
  <2>4. h[1] = Read(u, s[1]) /\ s[1] \in AllPieces
    BY <1>1, <1>2, <2>3 DEF Reads
  <2>5. h[1] = [u EXCEPT !.expects = "nothing"]
    BY <1>1, <1>4, <2>2, <2>4 DEF Read, Alike
  <2>6. Alike(u, h[1]) /\ h[1].expects = "nothing"
    BY <2>5 DEF Alike, Busy, Metas
  <2>7. Alike(h[1], h[Len(s)]) /\ h[Len(s)].expects = "nothing"
    BY <1>1, <2>3, <2>6, IdleReads
  <2> QED BY <1>1, <2>6, <2>7 DEF Alike
<1> QED BY <1>3, <1>4

\* The handshake makes it ask for the first page.
LEMMA ReadsHandshake ==
    ASSUME NEW m \in Busy, NEW d \in Responses, d.kind = "HANDSHAKE",
           m.expects = "command", m.buffer = <<>>, m.m_status = "GETTING_LIST",
           NEW v, v = gotData(m, d)
    PROVE  /\ v.out = Append(m.out, Datagram("LISTREQ", m.port, <<0>>))
           /\ v.expects = "command" /\ v.buffer = <<>> /\ v.open = m.open
           /\ v.m_status = "GETTING_LIST" /\ v.m_gameServers = m.m_gameServers
           /\ v.m_totalServers = m.m_totalServers /\ v.completed = m.completed
<1>0. PICK u \in Busy, s \in Seq(AllPieces) :
        /\ Alike(m, u) /\ u.expects = m.expects /\ u.buffer = <<>>
        /\ s = m.buffer \o Pieces(d)
        /\ \E h : Reads(h, u, s) /\ v = h[Len(s)]
  BY GotDataReads
<1>1. PICK h :
        /\ Alike(m, u) /\ u.expects = m.expects /\ u.buffer = <<>>
        /\ s = m.buffer \o Pieces(d)
        /\ Reads(h, u, s) /\ v = h[Len(s)]
  BY <1>0
<1>2. s = <<Piece("HANDSHAKE", 0, 0)>>
  BY <1>1 DEF Pieces
<1>3. Len(s) = 1 /\ s[1] = Piece("HANDSHAKE", 0, 0)
  BY <1>2
<1>4. v = Read(u, s[1])
  <2>1. 1 \in 1 .. Len(s) /\ 1 - 1 = 0
    BY <1>3
  <2>2. h[1] = Read(h[1 - 1], s[1]) /\ h[0] = u
    BY <1>1, <2>1 DEF Reads
  <2> QED BY <1>1, <1>3, <2>1, <2>2
<1>5. v = listReq(u, 0)
  BY <1>1, <1>3, <1>4 DEF Read, Piece, Alike
<1>6. u \in Metas
  BY DEF Busy
<1> QED BY <1>1, <1>5, <1>6, ListReqIs DEF Alike

\* A list of none leaves it waiting for its timer.
LEMMA ReadsNone ==
    ASSUME NEW m \in Busy, NEW d \in Responses, d.kind = "LISTRESP",
           NEW total, d.data = <<total>>,
           m.expects = "command", m.buffer = <<>>, m.m_status = "GETTING_LIST",
           NEW v, v = gotData(m, d)
    PROVE  /\ v.expects = "nothing" /\ v.out = m.out /\ v.completed = m.completed
           /\ v.m_status = "GETTING_LIST"
<1>0. PICK u \in Busy, s \in Seq(AllPieces) :
        /\ Alike(m, u) /\ u.expects = m.expects
        /\ s = m.buffer \o Pieces(d)
        /\ \E h : Reads(h, u, s) /\ v = h[Len(s)]
  BY GotDataReads
<1>1. PICK h :
        /\ Alike(m, u) /\ u.expects = m.expects
        /\ s = m.buffer \o Pieces(d)
        /\ Reads(h, u, s) /\ v = h[Len(s)]
  BY <1>0
<1>2. PICK q, r : q = d.data /\ q = <<total>> /\ r = Pieces(d)
  OBVIOUS
<1>3. Len(s) = 1 /\ s[1] = Piece("LIST_RESP", total, 0)
  <2>1. Len(q) = 1 /\ q[1] = total
    BY <1>2
  <2>2. r \in Seq(AllPieces) /\ Len(r) = 1 /\ r[1] = Piece("LIST_RESP", q[1], 0)
    BY <1>2, <2>1, NonePieces
  <2>3. <<>> \o r = r
    BY <2>2
  <2> QED BY <1>1, <1>2, <2>1, <2>2, <2>3
<1>4. v = Read(u, s[1])
  <2>1. 1 \in 1 .. Len(s) /\ 1 - 1 = 0
    BY <1>3
  <2>2. h[1] = Read(h[1 - 1], s[1]) /\ h[0] = u
    BY <1>1, <2>1 DEF Reads
  <2> QED BY <1>1, <1>3, <2>1, <2>2
<1>5. /\ v.expects = "nothing" /\ v.out = u.out /\ v.completed = u.completed
      /\ v.m_status = u.m_status
  <2>1. PICK x : x = s[1] /\ x.what = "LIST_RESP" /\ x.b = 0
    BY <1>3 DEF Piece
  <2>2. u.expects = "command" /\ u.m_status = "GETTING_LIST"
    BY <1>1 DEF Alike
  <2>3. Read(u, x) = [u EXCEPT
            !.m_totalServers = IF u.m_gameServers = <<>> THEN x.a ELSE u.m_totalServers,
            !.packed = x.b, !.m_ipBuffer = <<>>,
            !.expects = IF x.b = 0 THEN "nothing" ELSE "addresses"]
    BY <2>1, <2>2 DEF Read
  <2>4. PICK a : a = IF u.m_gameServers = <<>> THEN x.a ELSE u.m_totalServers
    OBVIOUS
  <2>5. (IF x.b = 0 THEN "nothing" ELSE "addresses") = "nothing"
    BY <2>1
  <2>6. Read(u, x) = [u EXCEPT !.m_totalServers = a, !.packed = x.b, !.m_ipBuffer = <<>>,
                               !.expects = "nothing"]
    BY <2>3, <2>4, <2>5
  <2> QED BY <1>4, <2>1, <2>6 DEF Busy, Metas
<1> QED BY <1>1, <1>5 DEF Alike

\* The page that list continues with is appended: then it asks for the next
\* one, or has all of them.
LEMMA PageReadIs ==
    ASSUME NEW m \in Busy, NEW all, all = m.m_gameServers \o m.m_ipBuffer,
           NEW v, v = PageRead(m)
    PROVE  /\ v.m_gameServers = all /\ v.buffer = m.buffer
           /\ Len(all) < m.m_totalServers =>
                /\ v.out = Append(m.out, Datagram("LISTREQ", m.port, <<Len(all)>>))
                /\ v.expects = "command" /\ v.open = m.open /\ v.m_status = m.m_status
                /\ v.m_totalServers = m.m_totalServers /\ v.completed = m.completed
           /\ ~(Len(all) < m.m_totalServers) =>
                v.out = m.out /\ v.expects = "nothing" /\ ~v.open
<1>1. PICK n : n = [m EXCEPT !.m_gameServers = all, !.m_ipBuffer = <<>>, !.expects = "nothing"]
  OBVIOUS
<1>2. m \in Metas /\ all \in Seq(Nat) /\ Len(all) \in Nat
  <2>1. PICK s, t : s = m.m_gameServers /\ t = m.m_ipBuffer
    OBVIOUS
  <2>2. m \in Metas /\ s \in Seq(Nat) /\ t \in Seq(Nat)
    BY <2>1 DEF Busy, Metas
  <2>3. s \o t \in Seq(Nat) /\ Len(s \o t) \in Nat
    BY <2>2
  <2> QED BY <2>1, <2>2, <2>3
<1>3. /\ n \in Metas /\ n.port = m.port /\ n.out = m.out /\ n.m_gameServers = all
      /\ n.m_totalServers = m.m_totalServers /\ n.completed = m.completed
      /\ n.buffer = m.buffer /\ n.open = m.open /\ n.m_status = m.m_status
      /\ n.expects = "nothing"
  <2>1. <<>> \in Seq(Nat)
    OBVIOUS
  <2> QED BY <1>1, <1>2, <2>1 DEF Metas
<1>4. PICK w : w = IF Len(all) < m.m_totalServers
                   THEN listReq(n, Len(all))
                   ELSE [Disconnected(n) EXCEPT !.m_status = "QUERYING", !.completed = TRUE]
  OBVIOUS
<1>5. v = Query(w)
  BY <1>1, <1>4 DEF PageRead
<1>6. CASE Len(all) < m.m_totalServers
  <2>1. w = listReq(n, Len(all))
    BY <1>4, <1>6
  <2>2. w \in Metas
    BY <1>2, <1>3, <2>1, ListReqKeeps
  <2>3. /\ w.out = Append(m.out, Datagram("LISTREQ", m.port, <<Len(all)>>))
        /\ w.expects = "command" /\ w.open = m.open /\ w.m_status = m.m_status
        /\ w.m_totalServers = m.m_totalServers /\ w.completed = m.completed
        /\ w.m_gameServers = all /\ w.buffer = m.buffer
    <3>1. /\ w.port = n.port /\ w.open = n.open
          /\ w.out = Append(n.out, Datagram("LISTREQ", n.port, <<Len(all)>>))
          /\ w.m_status = n.m_status /\ w.m_gameServers = n.m_gameServers
          /\ w.m_totalServers = n.m_totalServers /\ w.completed = n.completed
          /\ w.expects = "command" /\ w.buffer = n.buffer
      <4>1. PICK base : base = Len(all)
        OBVIOUS
      <4>2. w = listReq(n, base)
        BY <2>1, <4>1
      <4>3. /\ w.port = n.port /\ w.open = n.open
            /\ w.out = Append(n.out, Datagram("LISTREQ", n.port, <<base>>))
            /\ w.m_status = n.m_status /\ w.m_gameServers = n.m_gameServers
            /\ w.m_totalServers = n.m_totalServers /\ w.completed = n.completed
            /\ w.expects = "command" /\ w.buffer = n.buffer
        <5>1. n \in Metas
          BY <1>3
        <5> QED BY <4>2, <5>1, ListReqIs
      <4> QED BY <4>1, <4>3
    <3> QED BY <1>3, <3>1
  <2> QED BY <1>5, <1>6, <2>2, <2>3, QueryIsAlike DEF Alike
<1>7. CASE ~(Len(all) < m.m_totalServers)
  <2>1. PICK u : u = Disconnected(n)
    OBVIOUS
  <2>2. /\ u \in Metas /\ u.out = m.out /\ u.m_gameServers = all /\ u.buffer = m.buffer
        /\ ~u.open /\ u.expects = "nothing"
    BY <1>3, <2>1 DEF Disconnected, Metas
  <2>3. w = [u EXCEPT !.m_status = "QUERYING", !.completed = TRUE]
    BY <1>4, <1>7, <2>1
  <2>4. /\ w \in Metas /\ w.out = m.out /\ w.m_gameServers = all /\ w.buffer = m.buffer
        /\ ~w.open /\ w.expects = "nothing"
    BY <2>2, <2>3 DEF Metas
  <2> QED BY <1>5, <1>7, <2>4, QueryIsAlike DEF Alike
<1> QED BY <1>6, <1>7

\* v is m with the page that makes its list all, out of need.
Taken(m, v, all, need) ==
    /\ v.m_gameServers = all
    /\ Len(all) < need =>
         /\ v.out = Append(m.out, Datagram("LISTREQ", m.port, <<Len(all)>>))
         /\ v.expects = "command" /\ v.buffer = <<>> /\ v.open = m.open
         /\ v.m_status = "GETTING_LIST" /\ v.m_totalServers = need
         /\ v.completed = m.completed
    /\ ~(Len(all) < need) => v.out = m.out /\ v.expects = "nothing" /\ ~v.open

LEMMA ReadsPage ==
    ASSUME NEW m \in Busy, NEW d \in Responses, d.kind = "LISTRESP",
           NEW total \in Nat, NEW p \in Seq(Nat), p # <<>>, d.data = <<total>> \o p,
           m.expects = "command", m.buffer = <<>>, m.m_status = "GETTING_LIST",
           NEW v, v = gotData(m, d),
           NEW need, need = IF m.m_gameServers = <<>> THEN total ELSE m.m_totalServers,
           NEW all, all = m.m_gameServers \o p
    PROVE  Taken(m, v, all, need)
<1>0. PICK u \in Busy, s \in Seq(AllPieces) :
        /\ Alike(m, u) /\ u.expects = m.expects /\ u.buffer = <<>>
        /\ s = m.buffer \o Pieces(d)
        /\ \E h : Reads(h, u, s) /\ v = h[Len(s)]
  BY GotDataReads
<1>1. PICK h :
        /\ Alike(m, u) /\ u.expects = m.expects /\ u.buffer = <<>>
        /\ s = m.buffer \o Pieces(d)
        /\ Reads(h, u, s) /\ v = h[Len(s)]
  BY <1>0
<1>2. PICK n \in Nat : n = Len(p) /\ n > 0 /\ \A i \in 1 .. n : p[i] \in Nat
  OBVIOUS
<1>3. /\ Len(s) = n + 1 /\ s[1] = Piece("LIST_RESP", total, n)
      /\ \A i \in 1 .. n : s[i + 1] = Piece("address", p[i], 0)
  <2>2. PICK r : r = Pieces(d)
    OBVIOUS
  <2>3. /\ r \in Seq(AllPieces) /\ Len(r) = n + 1
        /\ r[1] = Piece("LIST_RESP", total, n)
        /\ \A i \in 1 .. n : r[i + 1] = Piece("address", p[i], 0)
    BY <1>2, <2>2, PagePieces
  <2>4. s = r
    <3>1. <<>> \o r = r
      BY <2>3
    <3> QED BY <1>1, <2>2, <3>1
  <2> QED BY <2>3, <2>4
<1>4. /\ \A i \in 0 .. n + 1 : h[i] \in Busy /\ h[i] \in Metas
      /\ h[0] = u /\ \A i \in 1 .. n + 1 : h[i] = Read(h[i - 1], s[i])
  BY <1>1, <1>3 DEF Reads, Busy
\* Before the last address.
<1> DEFINE Halfway(w, i) ==
             /\ w.m_status = "GETTING_LIST" /\ w.m_gameServers = m.m_gameServers
             /\ w.m_totalServers = need /\ w.completed = m.completed
             /\ w.port = m.port /\ w.open = m.open /\ w.out = m.out
             /\ w.expects = "addresses" /\ w.buffer = <<>> /\ w.packed = n
             /\ Len(w.m_ipBuffer) = i /\ \A j \in 1 .. i : w.m_ipBuffer[j] = p[j]
           Good == {i \in Nat : i < n => Halfway(h[i + 1], i)}
<1>5. 0 \in Good
  <2>1. h[1] = Read(u, s[1])
    <3>1. 1 \in 1 .. n + 1 /\ 1 - 1 = 0
      BY <1>2
    <3>2. h[1] = Read(h[1 - 1], s[1]) /\ h[0] = u
      BY <1>4, <3>1
    <3> QED BY <3>1, <3>2
  <2>2. h[1] = [u EXCEPT !.m_totalServers = need, !.packed = n, !.m_ipBuffer = <<>>,
                         !.expects = "addresses"]
    BY <1>1, <1>2, <1>3, <2>1 DEF Read, Piece, Alike
  <2>3. Halfway(h[1], 0)
    BY <1>1, <2>2 DEF Busy, Metas, Alike
  <2> QED BY <2>3
\* One more address.
<1>6. ASSUME NEW i \in Nat, i < n, Halfway(h[i + 1], i)
      PROVE  \E w \in Busy :
                /\ Halfway(w, i + 1) 
                /\ h[i + 2] = IF i + 1 < n THEN w ELSE PageRead(w)
  <2>0. i + 1 \in 0 .. n + 1 /\ i + 2 \in 1 .. n + 1 /\ (i + 2) - 1 = i + 1
    BY <1>2, <1>6
  <2>1. PICK z : z = h[i + 1] /\ z \in Busy /\ z \in Metas /\ Halfway(z, i)
    <3> HIDE DEF Halfway
    <3> QED BY <1>4, <1>6, <2>0
  <2>2. h[i + 2] = Read(z, s[i + 2])
    <3>1. h[i + 2] = Read(h[(i + 2) - 1], s[i + 2])
      BY <1>4, <2>0
    <3> QED BY <2>0, <2>1, <3>1
  <2>3. s[i + 2] = Piece("address", p[i + 1], 0) /\ p[i + 1] \in Nat
    <3>1. i + 1 \in 1 .. n /\ (i + 1) + 1 = i + 2
      BY <1>2, <1>6
    <3> QED BY <1>2, <1>3, <3>1
  <2>4. PICK b, x : b = z.m_ipBuffer /\ x = p[i + 1] /\ b \in Seq(Nat) /\ x \in Nat
    BY <2>1, <2>3 DEF Metas
  <2>5. PICK c : c = Append(b, x) /\ c \in Seq(Nat)
    <3>1. Append(b, x) \in Seq(Nat)
      BY <2>4
    <3> QED BY <3>1
  <2>6. Len(c) = i + 1 /\ \A j \in 1 .. (i + 1) : c[j] = p[j]
    <3>1. Len(b) = i /\ \A j \in 1 .. i : b[j] = p[j]
      BY <2>1, <2>4
    <3>2. Len(c) = i + 1 /\ c[i + 1] = x /\ \A j \in 1 .. i : c[j] = b[j]
      BY <2>4, <2>5, <3>1
    <3>3. ASSUME NEW j \in 1 .. (i + 1) PROVE c[j] = p[j]
      <4>1. CASE j = i + 1
        BY <2>4, <3>2, <4>1
      <4>2. CASE j # i + 1
        <5>1. j \in 1 .. i
          BY <4>2
        <5> QED BY <3>1, <3>2, <5>1
      <4> QED BY <4>1, <4>2
    <3> QED BY <3>2, <3>3
  <2>7. PICK w : w = [z EXCEPT !.m_ipBuffer = c]
    OBVIOUS
  <2>8. /\ w \in Metas /\ Halfway(w, i + 1) /\ w.m_ipBuffer = c
        /\ w.m_activeQueries = z.m_activeQueries /\ w.m_nextQuery = z.m_nextQuery
        /\ w.m_status = z.m_status /\ w.m_gameServers = z.m_gameServers
    BY <2>1, <2>5, <2>6, <2>7 DEF Metas
  <2>9. w \in Busy
    BY <2>1, <2>8, SameQueries
  <2>10. Read(z, s[i + 2]) = IF Len(w.m_ipBuffer) < z.packed THEN w ELSE PageRead(w)
    BY <2>1, <2>3, <2>4, <2>5, <2>7 DEF Read, Piece
  <2>11. Len(w.m_ipBuffer) = i + 1 /\ z.packed = n
    BY <2>1, <2>6, <2>8
  <2> QED BY <2>2, <2>8, <2>9, <2>10, <2>11
<1>7. ASSUME NEW i \in Nat, i \in Good PROVE i + 1 \in Good
  <2> SUFFICES ASSUME i + 1 < n PROVE Halfway(h[(i + 1) + 1], i + 1)
    <3> HIDE DEF Halfway
    <3> QED OBVIOUS
  <2>1. i < n /\ Halfway(h[i + 1], i) /\ (i + 1) + 1 = i + 2
    <3> HIDE DEF Halfway
    <3> QED BY <1>2, <1>7
  <2> HIDE DEF Halfway
  <2> QED BY <1>6, <2>1
<1>8. \A i \in Nat : i \in Good
  <2> HIDE DEF Good
  <2> QED BY <1>5, <1>7, NumberInduction
<1>9. PICK w \in Busy : Halfway(w, n) /\ v = PageRead(w)
  <2>1. PICK i \in Nat : i + 1 = n /\ i < n /\ i + 2 = n + 1
    <3>1. n - 1 \in Nat /\ (n - 1) + 1 = n /\ n - 1 < n /\ (n - 1) + 2 = n + 1
      BY <1>2
    <3> QED BY <3>1
  <2>2. Halfway(h[i + 1], i)
    <3> HIDE DEF Halfway
    <3> QED BY <1>8, <2>1
  <2>3. v = h[i + 2] /\ ~(i + 1 < n)
    BY <1>1, <1>3, <2>1
  <2> HIDE DEF Halfway
  <2> QED BY <1>6, <2>1, <2>2, <2>3
<1>10. w.m_ipBuffer = p
  <2>1. PICK b : b = w.m_ipBuffer /\ b \in Seq(Nat)
    BY <1>9 DEF Busy, Metas
  <2>2. Len(b) = Len(p) /\ \A j \in 1 .. Len(p) : b[j] = p[j]
    BY <1>2, <1>9, <2>1
  <2>3. b = p
    BY <2>1, <2>2, SameSeq
  <2> QED BY <2>1, <2>3
<1>11. all = w.m_gameServers \o w.m_ipBuffer
  BY <1>9, <1>10
<1>12. /\ w.m_totalServers = need /\ w.buffer = <<>> /\ w.out = m.out /\ w.port = m.port
       /\ w.open = m.open /\ w.m_status = "GETTING_LIST" /\ w.completed = m.completed
  BY <1>9
<1> HIDE DEF Halfway
<1>13. /\ v.m_gameServers = all /\ v.buffer = w.buffer
       /\ Len(all) < w.m_totalServers =>
            /\ v.out = Append(w.out, Datagram("LISTREQ", w.port, <<Len(all)>>))
            /\ v.expects = "command" /\ v.open = w.open /\ v.m_status = w.m_status
            /\ v.m_totalServers = w.m_totalServers /\ v.completed = w.completed
       /\ ~(Len(all) < w.m_totalServers) => v.out = w.out /\ v.expects = "nothing" /\ ~v.open
  BY <1>9, <1>11, PageReadIs
<1> QED BY <1>12, <1>13 DEF Taken

-----------------------------------------------------------------------------
\* The datagrams of one socket.

\* C is in B, without d if that was there only once.
Less(B, d, C) ==
    /\ DOMAIN C \subseteq DOMAIN B
    /\ \A c \in DOMAIN C : B[c] = 1 => C[c] = 1 /\ c # d

LEMMA LessIs ==
    ASSUME NEW B, NEW d, NEW C, C = B (-) SetToBag({d})
    PROVE  Less(B, d, C)
<1>1. DOMAIN SetToBag({d}) = {d} /\ SetToBag({d})[d] = 1
  BY DEF SetToBag
<1>2. PICK D : D = [e \in DOMAIN B |-> IF e \in {d} THEN B[e] - SetToBag({d})[e] ELSE B[e]]
  OBVIOUS
<1>3. C = [e \in {c \in DOMAIN D : D[c] > 0} |-> D[e]]
  BY <1>1, <1>2 DEF (-)
<1>4. DOMAIN D = DOMAIN B /\ \A e \in DOMAIN B : D[e] = IF e = d THEN B[e] - 1 ELSE B[e]
  BY <1>1, <1>2
<1>5. ASSUME NEW c \in DOMAIN C, B[c] = 1 PROVE C[c] = 1 /\ c # d
  <2>1. c \in DOMAIN B /\ D[c] > 0 /\ C[c] = D[c]
    BY <1>3, <1>4
  <2> QED BY <1>4, <1>5, <2>1
<1> QED BY <1>3, <1>4, <1>5 DEF Less

\* D has a, the rest of it is in B, and what was there once still is.
More(B, a, D) ==
    /\ DOMAIN D = DOMAIN B \cup {a}
    /\ \A c \in DOMAIN B : c # a /\ B[c] = 1 => D[c] = 1
    /\ a \notin DOMAIN B => D[a] = 1

LEMMA MoreIs ==
    ASSUME NEW B, NEW a, NEW D, D = B (+) SetToBag({a})
    PROVE  More(B, a, D)
<1>1. DOMAIN SetToBag({a}) = {a} /\ SetToBag({a})[a] = 1
  BY DEF SetToBag
<1>2. D = [e \in DOMAIN B \cup {a} |-> (IF e \in DOMAIN B THEN B[e] ELSE 0)
                                        + (IF e \in {a} THEN SetToBag({a})[e] ELSE 0)]
  BY <1>1 DEF (+)
<1> QED BY <1>1, <1>2 DEF More

LEMMA ToBagIs ==
    /\ \A B : /\ DOMAIN (B (+) ToBag(<<>>)) = DOMAIN B
              /\ \A c \in DOMAIN B : B[c] = 1 => (B (+) ToBag(<<>>))[c] = 1
    /\ \A a : ToBag(<<a>>) = SetToBag({a})
<1>1. ASSUME NEW B
      PROVE  /\ DOMAIN (B (+) ToBag(<<>>)) = DOMAIN B
             /\ \A c \in DOMAIN B : B[c] = 1 => (B (+) ToBag(<<>>))[c] = 1
  <2>1. PICK N : N = ToBag(<<>>)
    OBVIOUS
  <2>2. DOMAIN N = {}
    BY <2>1 DEF ToBag, Range
  <2>3. B (+) N = [e \in DOMAIN B |-> B[e] + 0]
    BY <2>2 DEF (+)
  <2> QED BY <2>1, <2>3
<1>2. ASSUME NEW a PROVE ToBag(<<a>>) = SetToBag({a})
  <2>1. PICK s : s = <<a>> /\ DOMAIN s = {1} /\ s[1] = a
    <3>1. DOMAIN <<a>> = 1 .. 1 /\ <<a>>[1] = a
      OBVIOUS
    <3>2. 1 .. 1 = {1}
      OBVIOUS
    <3> QED BY <3>1, <3>2
  <2>2. Range(s) = {a} /\ {i \in DOMAIN s : s[i] = a} = {1}
    BY <2>1 DEF Range
  <2>3. Cardinality({1}) = 1
    BY FS_Singleton
  <2>4. ToBag(s) = [x \in {a} |-> Cardinality({i \in DOMAIN s : s[i] = x})]
    BY <2>2 DEF ToBag
  <2> QED BY <2>1, <2>2, <2>3, <2>4 DEF SetToBag
<1> QED BY <1>1, <1>2

\* At most one datagram of the socket is under way, once.
Lone(B, port) ==
    \A d \in DOMAIN B : d.port = port =>
        B[d] = 1 /\ \A c \in DOMAIN B : c.port = port => c = d

LEMMA FewerAreLone ==
    ASSUME NEW B, NEW port, Lone(B, port), NEW C, DOMAIN C \subseteq DOMAIN B,
           \A c \in DOMAIN C : B[c] = 1 => C[c] = 1
    PROVE  Lone(C, port)
BY DEF Lone

\* The only one is gone.
LEMMA NoneLeft ==
    ASSUME NEW B, NEW port, Lone(B, port), NEW d \in DOMAIN B, d.port = port,
           NEW C, C = B (-) SetToBag({d})
    PROVE  \A c \in DOMAIN C : c.port # port
<1>1. Less(B, d, C)
  BY LessIs
<1> QED BY <1>1 DEF Less, Lone

\* The only one is new.
LEMMA OneIsNew ==
    ASSUME NEW B, NEW port, \A c \in DOMAIN B : c.port # port,
           NEW a, a.port = port, NEW D, D = B (+) SetToBag({a})
    PROVE  Lone(D, port)
<1>1. More(B, a, D)
  BY MoreIs
<1> QED BY <1>1 DEF More, Lone

\* One of another socket is new.
LEMMA OthersAreNew ==
    ASSUME NEW B, NEW port, NEW a, a.port # port, NEW D, D = B (+) SetToBag({a})
    PROVE  /\ Lone(B, port) => Lone(D, port)
           /\ \A c \in DOMAIN D : c.port = port => c \in DOMAIN B
<1>1. More(B, a, D)
  BY MoreIs
<1> QED BY <1>1 DEF More, Lone

-----------------------------------------------------------------------------
\* The invariant of an exchange.

Ours == {d \in DOMAIN net : d.port = meta.port}

\* All servers of the stored list still have their sessions.
Fit ==
    /\ snapshot \in Seq(Servers) /\ Sorted(snapshot)
    /\ \A i \in DOMAIN snapshot : sessions[snapshot[i]] = "full"

Has == Len(meta.m_gameServers)

\* Either none or the page of the stored list that starts after k servers.
IsPage(data, k) ==
    \E total \in Nat :
        \/ data = <<total>>
        \/ /\ data = <<total>> \o Page(snapshot, k)
           /\ Page(snapshot, k) # <<>>
           /\ k = 0 => total = Len(snapshot)

\* A datagram for what the client has.
InFlight(d) ==
    \/ d.kind \in {"CLIENTKEEPALIVE", "HANDSHAKE"} /\ Has = 0
    \/ d.kind = "LISTREQ" /\ d.data = <<Has>>
    \/ d.kind = "LISTRESP" /\ Fit /\ IsPage(d.data, Has)

\* The client has the first servers of the stored list, and lacks others.
Begun ==
    Has # 0 => /\ Fit /\ Has < Len(snapshot)
               /\ meta.m_gameServers = SubSeq(snapshot, 1, Has)
               /\ meta.m_totalServers = Len(snapshot)

OnTrack == Lone(net, meta.port) /\ Begun /\ \A d \in Ours : InFlight(d)

Asking ==
    /\ meta.expects = "command" /\ meta.buffer = <<>> /\ ~meta.completed
    /\ meta.m_status = "GETTING_LIST" => OnTrack

Undisturbed ==
    /\ meta.resolving => meta.m_gameServers = <<>> /\ meta.buffer = <<>>
    /\ meta.open /\ meta.expects # "nothing" => Asking
    /\ meta.completed /\ meta.m_status = "QUERYING" =>
            ~meta.open /\ meta.m_gameServers = snapshot /\ Ours = {}

\* Disturbed or not.
Always ==
    /\ sessions \in [Servers -> {"none", "bare", "full"}]
    /\ m_serverListreq \in {NoList, snapshot}
    /\ \A d \in DOMAIN net : d.port <= meta.port /\ (meta.resolving => d.port < meta.port)
    /\ meta.resolving => ~meta.open /\ ~meta.timer /\ ~meta.completed
    /\ meta.out = <<>>

WholeInv == ListInv /\ Always /\ (~disturbed => Undisturbed)

LEMMA InitWholeInv == Init => WholeInv
<1> SUFFICES ASSUME Init PROVE WholeInv
  OBVIOUS
<1>1. ListInv
  BY InitListInv
<1>2. DOMAIN net = {}
  BY DEF Init, EmptyBag, SetToBag
<1>3. Always
  BY <1>2 DEF Init, Always
<1>4. Undisturbed
  BY DEF Init, Undisturbed
<1> QED BY <1>1, <1>3, <1>4 DEF WholeInv

\* The exchange goes on: datagrams may be gone, or be replaced by what is
\* not for this socket.
LEMMA StaysOnTrack ==
    ASSUME Undisturbed, snapshot' = snapshot, Fit => Fit',
           Lone(net, meta.port) => Lone(net', meta.port),
           \A c \in DOMAIN net' : c.port = meta.port => c \in DOMAIN net,
           meta'.m_status \in {meta.m_status, "VALID"},
           meta'.m_gameServers = meta.m_gameServers,
           meta'.m_totalServers = meta.m_totalServers, meta'.completed = meta.completed,
           meta'.port = meta.port, meta'.resolving = meta.resolving,
           meta'.open = meta.open, meta'.expects = meta.expects, meta'.buffer = meta.buffer
    PROVE  Undisturbed'
<1>1. Ours' \subseteq Ours /\ Has' = Has
  BY DEF Ours, Has
<1>2. ASSUME OnTrack PROVE OnTrack'
  <2>1. Lone(net', meta'.port)
    BY <1>2 DEF OnTrack
  <2>2. Begun'
    BY <1>1, <1>2 DEF OnTrack, Begun
  <2>3. ASSUME NEW d \in Ours' PROVE InFlight(d)'
    <3>1. InFlight(d)
      BY <1>1, <1>2 DEF OnTrack
    <3>2. IsPage(d.data, Has) => IsPage(d.data, Has)'
      BY <1>1 DEF IsPage
    <3> QED BY <1>1, <3>1, <3>2 DEF InFlight
  <2> QED BY <2>1, <2>2, <2>3 DEF OnTrack
<1>3. Asking => Asking'
  BY <1>2 DEF Asking
<1> QED BY <1>1, <1>3 DEF Undisturbed

LEMMA RegisterStepIsWhole ==
    ASSUME WholeInv, RegisterStep
    PROVE  Always' /\ (~disturbed' => Undisturbed')
<1>1. /\ sessions \in [Servers -> {"none", "bare", "full"}]
      /\ UNCHANGED <<m_serverListreq, net, meta, snapshot>>
  BY DEF WholeInv, Always, RegisterStep
<1>2. /\ sessions' \in [Servers -> {"none", "bare", "full"}]
      /\ \A s \in Servers : sessions[s] = "full" => sessions'[s] \in {"full", "none"}
  BY <1>1 DEF RegisterStep, Register!Next, Register!Shake, Register!Attribute,
              Register!Terminate, Register!Expire, Register!Restart
<1>3. Always'
  BY <1>1, <1>2 DEF WholeInv, Always
<1>4. ASSUME ~disturbed' PROVE Undisturbed'
  <2>1. Undisturbed /\ \A s \in Servers : sessions[s] # "none" => sessions'[s] # "none"
    BY <1>4 DEF WholeInv, RegisterStep, Known
  <2>2. Fit => Fit'
    <3> SUFFICES ASSUME Fit PROVE Fit'
      OBVIOUS
    <3>1. \A i \in DOMAIN snapshot : snapshot[i] \in Servers
      <4>1. PICK s \in Seq(Servers) : s = snapshot
        BY DEF Fit
      <4>2. \A i \in DOMAIN s : s[i] \in Servers
        OBVIOUS
      <4> QED BY <4>1, <4>2
    <3>2. \A i \in DOMAIN snapshot : sessions'[snapshot[i]] = "full"
      BY <1>2, <2>1, <3>1 DEF Fit
    <3> QED BY <1>1, <3>2 DEF Fit
  <2> QED BY <1>1, <2>1, <2>2, StaysOnTrack
<1> QED BY <1>3, <1>4

\* An answer of the metaserver takes the place of what it answers.
LEMMA AnswerIs ==
    ASSUME NEW d \in DOMAIN net, NEW kind, NEW data, Answer(d, kind, data),
           NEW a, a = Datagram(kind, d.port, data)
    PROVE  /\ a.port = d.port /\ a.kind = kind /\ a.data = data
           /\ \A c \in DOMAIN net' : c \in DOMAIN net \/ c = a
           /\ d.port # meta.port =>
                /\ Lone(net, meta.port) => Lone(net', meta.port)
                /\ \A c \in DOMAIN net' : c.port = meta.port => c \in DOMAIN net
           /\ d.port = meta.port /\ Lone(net, meta.port) =>
                /\ Lone(net', meta.port)
                /\ \A c \in DOMAIN net' : c.port = meta.port => c = a
<1>1. a.port = d.port /\ a.kind = kind /\ a.data = data
  BY DEF Datagram
<1>2. PICK C : C = net (-) SetToBag({d})
  OBVIOUS
<1>3. net' = C (+) SetToBag({a})
  BY <1>2 DEF Answer
<1>4. /\ DOMAIN C \subseteq DOMAIN net
      /\ \A c \in DOMAIN C : net[c] = 1 => C[c] = 1 /\ c # d
  <2>1. Less(net, d, C)
    BY <1>2, LessIs
  <2> QED BY <2>1 DEF Less
<1>5. DOMAIN net' = DOMAIN C \cup {a}
  <2>1. More(C, a, net')
    BY <1>3, MoreIs
  <2> QED BY <2>1 DEF More
<1>6. ASSUME d.port # meta.port
      PROVE  /\ Lone(net, meta.port) => Lone(net', meta.port)
             /\ \A c \in DOMAIN net' : c.port = meta.port => c \in DOMAIN net
  <2>1. Lone(net, meta.port) => Lone(C, meta.port)
    BY <1>4, FewerAreLone
  <2>2. /\ Lone(C, meta.port) => Lone(net', meta.port)
        /\ \A c \in DOMAIN net' : c.port = meta.port => c \in DOMAIN C
    BY <1>1, <1>3, <1>6, OthersAreNew
  <2> QED BY <1>4, <2>1, <2>2
<1>7. ASSUME d.port = meta.port, Lone(net, meta.port)
      PROVE  /\ Lone(net', meta.port)
             /\ \A c \in DOMAIN net' : c.port = meta.port => c = a
  <2>1. \A c \in DOMAIN C : c.port # meta.port
    BY <1>2, <1>7, NoneLeft
  <2>2. PICK port, D : port = meta.port /\ D = net' /\ a.port = port
    BY <1>1, <1>7
  <2>3. PICK b : b = a /\ b.port = port /\ D = C (+) SetToBag({b})
    BY <1>3, <2>2
  <2>4. \A c \in DOMAIN C : c.port # port
    BY <2>1, <2>2
  <2>5. Lone(D, port)
    BY <2>3, <2>4, OneIsNew
  <2> QED BY <1>5, <2>1, <2>2, <2>5
<1> QED BY <1>1, <1>4, <1>5, <1>6, <1>7

LEMMA AnswerIsWhole ==
    ASSUME WholeInv, NEW d \in DOMAIN net, NEW kind, NEW data, Answer(d, kind, data),
           NEW a, a = Datagram(kind, d.port, data), UNCHANGED <<sessions, meta>>,
           m_serverListreq' \in {NoList, snapshot'},
           ~disturbed' => ~disturbed /\ (d.port # meta.port => snapshot' = snapshot),
           ~disturbed' /\ d.port = meta.port /\ Begun /\ InFlight(d) => InFlight(a)' /\ Begun'
    PROVE  Always' /\ (~disturbed' => Undisturbed')
<1>1. /\ a.port = d.port /\ a.kind = kind /\ a.data = data
      /\ \A c \in DOMAIN net' : c \in DOMAIN net \/ c = a
  BY AnswerIs
<1>2. Always'
  BY <1>1 DEF WholeInv, Always
<1>3. ASSUME ~disturbed' PROVE Undisturbed'
  <2>1. Undisturbed
    BY <1>3 DEF WholeInv
  <2>2. CASE d.port # meta.port
    <3>1. /\ Lone(net, meta.port) => Lone(net', meta.port)
          /\ \A c \in DOMAIN net' : c.port = meta.port => c \in DOMAIN net
      BY <2>2, AnswerIs
    <3>2. snapshot' = snapshot /\ (Fit => Fit')
      BY <1>3, <2>2 DEF Fit
    <3> QED BY <2>1, <3>1, <3>2, StaysOnTrack
  <2>3. CASE d.port = meta.port
    <3>1. d \in Ours
      BY <2>3 DEF Ours
    <3>2. ASSUME OnTrack PROVE OnTrack'
      <4>1. Lone(net, meta.port) /\ Begun /\ InFlight(d)
        BY <3>1, <3>2 DEF OnTrack
      <4>2. /\ Lone(net', meta.port)
            /\ \A c \in DOMAIN net' : c.port = meta.port => c = a
        BY <2>3, <4>1, AnswerIs
      <4>3. InFlight(a)' /\ Begun'
        BY <1>3, <2>3, <4>1
      <4>4. \A c \in Ours' : InFlight(c)'
        BY <4>2, <4>3 DEF Ours
      <4> QED BY <4>2, <4>3, <4>4 DEF OnTrack
    <3>3. Asking => Asking'
      BY <3>2 DEF Asking
    <3> QED BY <2>1, <3>1, <3>3 DEF Undisturbed
  <2> QED BY <2>2, <2>3
<1> QED BY <1>2, <1>3

LEMMA HandshakeIsWhole ==
    ASSUME WholeInv, NEW d \in DOMAIN net, processCLIENTKEEPALIVE(d)
    PROVE  Always' /\ (~disturbed' => Undisturbed')
<1>1. PICK kind, data, a : kind = "HANDSHAKE" /\ data = <<>> /\ a = Datagram(kind, d.port, data)
  OBVIOUS
<1>2. Answer(d, kind, data) /\ a.kind = "HANDSHAKE" /\ d.kind = "CLIENTKEEPALIVE"
  BY <1>1 DEF processCLIENTKEEPALIVE, Datagram
<1>3. UNCHANGED <<sessions, meta, m_serverListreq, snapshot, disturbed>>
  BY DEF processCLIENTKEEPALIVE
<1>4. m_serverListreq' \in {NoList, snapshot'}
  BY <1>3 DEF WholeInv, Always
<1>5. Begun => Begun'
  BY <1>3 DEF Begun, Has, Fit
<1>6. InFlight(d) => InFlight(a)'
  BY <1>2, <1>3 DEF InFlight, Has
<1> QED BY <1>1, <1>2, <1>3, <1>4, <1>5, <1>6, AnswerIsWhole

\* The first request, when all entries have sessions.
LEMMA FirstListReq ==
    ASSUME WholeInv, \A s \in Servers : sessions[s] # "bare",
           snapshot' = Ascending(Known), sessions' = sessions,
           NEW resp, resp = Packed(Page(snapshot', 0)),
           NEW total, total = IF resp = <<>> THEN 0 ELSE Cardinality(Known)
    PROVE  Fit' /\ IsPage(<<total>> \o resp, 0)'
<1>1. PICK list, p : list = Ascending(Known) /\ p = Page(list, 0)
  OBVIOUS
<1>2. Known \in SUBSET Servers /\ \A s \in Known : sessions[s] = "full"
  BY DEF WholeInv, Always, Known
<1>3. /\ list \in Seq(Servers) /\ Sorted(list) /\ Len(list) = Cardinality(Known)
      /\ \A i \in DOMAIN list : list[i] \in Known
  BY <1>1, <1>2, AscendingIsSorted
<1>4. \A i \in DOMAIN list : sessions[list[i]] = "full"
  BY <1>2, <1>3
<1>5. Fit'
  BY <1>1, <1>3, <1>4 DEF Fit, Sorted
<1>6. 0 \in Nat /\ 0 <= Len(list) /\ Len(list) \in Nat
  BY <1>3
<1>7. /\ p \in Seq(Servers) /\ Sorted(p)
      /\ \A i \in DOMAIN p : p[i] = list[0 + i] /\ 0 + i \in DOMAIN list
  BY <1>1, <1>3, <1>6, PageFacts
<1>8. resp = p
  <2>1. \A i \in DOMAIN p : sessions[p[i]] = "full"
    BY <1>4, <1>7
  <2>2. Packed(p) = p
    BY <1>7, <2>1, PackedIsPage
  <2> QED BY <1>1, <2>2
<1>9. IsPage(<<total>> \o resp, 0)'
  <2>1. snapshot' = list /\ Page(snapshot', 0) = p
    BY <1>1
  <2>2. CASE resp = <<>>
    <3>1. total = 0 /\ <<total>> \o <<>> = <<total>>
      BY <2>2
    <3> QED BY <2>2, <3>1 DEF IsPage
  <2>3. CASE resp # <<>>
    <3>1. total = Len(list) /\ total \in Nat
      BY <1>3, <1>6, <2>3
    <3> QED BY <1>8, <2>1, <2>3, <3>1 DEF IsPage
  <2> QED BY <2>2, <2>3
<1> QED BY <1>5, <1>9

\* A later request.
LEMMA NextListReq ==
    ASSUME WholeInv, Begun, Has # 0, NEW list,
           list = IF m_serverListreq = NoList THEN <<>> ELSE m_serverListreq,
           NEW resp, resp = Packed(Page(list, Has)),
           NEW total, total = IF resp = <<>> THEN 0 ELSE Cardinality(Known)
    PROVE  IsPage(<<total>> \o resp, Has)
<1>1. PICK k : k = Has
  OBVIOUS
<1>2. k \in Nat /\ k # 0 /\ k < Len(snapshot) /\ Fit
  <2>1. PICK s \in Seq(Nat) : s = meta.m_gameServers
    BY DEF WholeInv, ListInv, Busy, Metas
  <2>2. Len(s) \in Nat
    OBVIOUS
  <2> QED BY <1>1, <2>1, <2>2 DEF Begun, Has
<1>3. snapshot \in Seq(Servers) /\ Sorted(snapshot) /\ Len(snapshot) \in Nat
  <2>1. PICK s \in Seq(Servers) : s = snapshot
    BY <1>2 DEF Fit
  <2>2. Len(s) \in Nat
    OBVIOUS
  <2> QED BY <1>2, <2>1, <2>2 DEF Fit
<1>4. CASE resp = <<>>
  <2>1. total = 0 /\ <<total>> \o <<>> = <<total>>
    BY <1>4
  <2> QED BY <1>4, <2>1 DEF IsPage
<1>5. CASE resp # <<>>
  <2>1. PICK p : p = Page(list, k)
    OBVIOUS
  <2>2. list = snapshot
    <3>1. CASE list = <<>>
      <4>1. p = <<>>
        <5>1. PICK none : none = <<>> /\ Len(none) = 0
          OBVIOUS
        <5>2. PICK end : end = IF Len(none) - k > PageSize THEN k + PageSize ELSE Len(none)
          OBVIOUS
        <5>3. p = SubSeq(none, k + 1, end)
          <6>1. p = Page(none, k)
            BY <2>1, <3>1, <5>1
          <6> QED BY <5>2, <6>1 DEF Page
        <5>4. end = 0
          BY <1>2, <5>1, <5>2, MetaListAssumption
        <5> QED BY <1>2, <5>1, <5>3, <5>4
      <4>2. PICK none : none = <<>> /\ none \in Seq(Servers) /\ DOMAIN none = {}
        <5>1. <<>> \in Seq(Servers) /\ DOMAIN <<>> = {}
          OBVIOUS
        <5> QED BY <5>1
      <4>3. Sorted(none)
        BY <4>2 DEF Sorted
      <4>4. Packed(none) = none
        BY <4>2, <4>3, PackedIsPage
      <4> QED BY <1>1, <1>5, <2>1, <4>1, <4>2, <4>4
    <3>2. CASE list # <<>>
      BY <3>2 DEF WholeInv, Always
    <3> QED BY <3>1, <3>2
  <2>3. /\ p \in Seq(Servers) /\ Sorted(p)
        /\ \A i \in DOMAIN p : p[i] = snapshot[k + i] /\ k + i \in DOMAIN snapshot
    <3>1. k <= Len(snapshot) /\ p = Page(snapshot, k)
      BY <1>2, <1>3, <2>1, <2>2
    <3> QED BY <1>2, <1>3, <3>1, PageFacts
  <2>4. \A i \in DOMAIN p : sessions[p[i]] = "full"
    BY <1>2, <2>3 DEF Fit
  <2>5. Packed(p) = p
    BY <2>3, <2>4, PackedIsPage
  <2>6. resp = p /\ Page(snapshot, k) = p
    BY <1>1, <2>1, <2>2, <2>5
  <2>7. total \in Nat
    <3>1. Known \in SUBSET Servers
      BY DEF Known
    <3>2. Cardinality(Known) \in Nat
      BY <3>1, MetaListAssumption, FS_Subset, FS_CardinalityType
    <3> QED BY <1>5, <3>2
  <2> QED BY <1>1, <1>2, <1>5, <2>6, <2>7 DEF IsPage
<1> QED BY <1>4, <1>5

LEMMA ListReqIsWhole ==
    ASSUME WholeInv, NEW d \in DOMAIN net, processLISTREQ(d)
    PROVE  Always' /\ (~disturbed' => Undisturbed')
<1>1. PICK index, list, resp, total, data, a :
        /\ index = d.data[1]
        /\ list = IF index = 0 THEN Ascending(Known)
                  ELSE IF m_serverListreq = NoList THEN <<>> ELSE m_serverListreq
        /\ resp = Packed(Page(list, index))
        /\ total = IF resp = <<>> THEN 0 ELSE Cardinality(Known)
        /\ data = <<total>> \o resp /\ a = Datagram("LISTRESP", d.port, data)
  OBVIOUS
<1>2. /\ d.kind = "LISTREQ" /\ Answer(d, "LISTRESP", data) /\ UNCHANGED <<sessions, meta>>
      /\ IF index = 0
         THEN /\ m_serverListreq' = list /\ snapshot' = list
              /\ disturbed' = \/ disturbed
                              \/ d.port # meta.port
                              \/ \E s \in Servers : sessions[s] = "bare"
         ELSE UNCHANGED <<m_serverListreq, snapshot, disturbed>>
  BY <1>1 DEF processLISTREQ
<1>3. m_serverListreq' \in {NoList, snapshot'}
  BY <1>2 DEF WholeInv, Always
<1>4. ~disturbed' => ~disturbed /\ (d.port # meta.port => snapshot' = snapshot)
  BY <1>2
<1>5. ASSUME ~disturbed', Begun, InFlight(d) PROVE InFlight(a)' /\ Begun'
  <2>1. d.data = <<Has>> /\ index = Has /\ Has' = Has
    <3>1. d.data = <<Has>>
      BY <1>2, <1>5 DEF InFlight
    <3> QED BY <1>1, <1>2, <3>1 DEF Has
  <2>2. a.kind = "LISTRESP" /\ a.data = data
    BY <1>1 DEF Datagram
  <2>3. CASE Has = 0
    <3>1. \A s \in Servers : sessions[s] # "bare"
      BY <1>2, <1>5, <2>1, <2>3
    <3>2. snapshot' = Ascending(Known) /\ resp = Packed(Page(snapshot', 0))
      BY <1>1, <1>2, <2>1, <2>3
    <3>3. Fit' /\ IsPage(<<total>> \o resp, 0)'
      BY <1>1, <1>2, <3>1, <3>2, FirstListReq
    <3>4. IsPage(data, 0)'
      BY <1>1, <3>3 DEF IsPage
    <3> QED BY <2>1, <2>2, <2>3, <3>3, <3>4 DEF InFlight, Begun
  <2>4. CASE Has # 0
    <3>1. UNCHANGED snapshot /\ list = IF m_serverListreq = NoList THEN <<>> ELSE m_serverListreq
      BY <1>1, <1>2, <2>1, <2>4
    <3>2. IsPage(<<total>> \o resp, Has)
      BY <1>1, <1>5, <2>1, <2>4, <3>1, NextListReq
    <3>3. IsPage(data, Has)'
      BY <1>1, <2>1, <3>1, <3>2 DEF IsPage
    <3>4. Fit /\ Fit' /\ Begun'
      BY <1>2, <1>5, <2>1, <2>4, <3>1 DEF Begun, Fit
    <3> QED BY <2>2, <3>3, <3>4 DEF InFlight
  <2> QED BY <2>3, <2>4
<1>6. PICK kind : kind = "LISTRESP"
  OBVIOUS
<1>7. Answer(d, kind, data) /\ a = Datagram(kind, d.port, data)
  BY <1>1, <1>2, <1>6
<1> QED BY <1>2, <1>3, <1>4, <1>5, <1>7, AnswerIsWhole

\* What a handler of the client leaves.
LEMMA BecomesIs ==
    ASSUME NEW m \in Busy, NEW left, Becomes(m, left)
    PROVE  /\ Alike([m EXCEPT !.out = <<>>], meta') /\ meta'.out = <<>>
           /\ meta'.m_status = m.m_status /\ meta'.m_gameServers = m.m_gameServers
           /\ meta'.m_totalServers = m.m_totalServers /\ meta'.completed = m.completed
           /\ meta'.port = m.port /\ meta'.resolving = m.resolving /\ meta'.open = m.open
           /\ meta'.expects = m.expects /\ meta'.buffer = m.buffer /\ meta'.timer = m.timer
           /\ UNCHANGED <<sessions, m_serverListreq, snapshot>>
           /\ net' = left (+) ToBag(m.out) /\ DOMAIN net' = DOMAIN left \cup Range(m.out)
           /\ m.out = <<>> => /\ DOMAIN net' = DOMAIN left
                              /\ \A c \in DOMAIN left : left[c] = 1 => net'[c] = 1
<1>1. /\ meta' = [m EXCEPT !.out = <<>>] /\ net' = left (+) ToBag(m.out)
      /\ UNCHANGED <<sessions, m_serverListreq, snapshot>>
  BY DEF Becomes
<1>2. PICK o, v : o = <<>> /\ v = [m EXCEPT !.out = o]
  OBVIOUS
<1>3. /\ v.m_status = m.m_status /\ v.m_gameServers = m.m_gameServers
      /\ v.m_totalServers = m.m_totalServers /\ v.completed = m.completed
      /\ v.port = m.port /\ v.resolving = m.resolving /\ v.open = m.open
      /\ v.expects = m.expects /\ v.buffer = m.buffer /\ v.timer = m.timer /\ v.out = o
  BY <1>2 DEF Busy, Metas
<1>4. DOMAIN (left (+) ToBag(m.out)) = DOMAIN left \cup Range(m.out)
  BY DEF (+), ToBag
<1>5. m.out = <<>> => /\ DOMAIN net' = DOMAIN left
                      /\ \A c \in DOMAIN left : left[c] = 1 => net'[c] = 1
  <2> SUFFICES ASSUME m.out = <<>>
               PROVE  /\ DOMAIN net' = DOMAIN left
                      /\ \A c \in DOMAIN left : left[c] = 1 => net'[c] = 1
    OBVIOUS
  <2>1. net' = left (+) ToBag(<<>>)
    BY <1>1
  <2> QED BY <2>1, ToBagIs
<1>6. meta' = v
  BY <1>1, <1>2
<1> QED BY <1>1, <1>2, <1>3, <1>4, <1>5, <1>6 DEF Alike

LEMMA BecomesIsAlways ==
    ASSUME WholeInv, NEW m \in Busy, NEW left, Becomes(m, left), DOMAIN left \subseteq DOMAIN net,
           meta.port <= m.port, \A d \in Range(m.out) : d.port = m.port,
           m.resolving => /\ ~m.open /\ ~m.timer /\ ~m.completed /\ m.out = <<>>
                          /\ meta.resolving \/ meta.port < m.port
    PROVE  Always'
<1>1. /\ meta'.out = <<>> /\ meta'.completed = m.completed /\ meta'.timer = m.timer
      /\ meta'.port = m.port /\ meta'.resolving = m.resolving /\ meta'.open = m.open
      /\ UNCHANGED <<sessions, m_serverListreq, snapshot>>
      /\ DOMAIN net' = DOMAIN left \cup Range(m.out)
      /\ m.out = <<>> => DOMAIN net' = DOMAIN left
  BY BecomesIs
<1>2. PICK p, q : p = meta.port /\ q = m.port /\ p \in Nat /\ q \in Nat /\ p <= q
  BY DEF WholeInv, ListInv, Busy, Metas
<1>3. \A d \in DOMAIN net : /\ d.port \in Nat /\ d.port <= p
                            /\ meta.resolving => d.port < p
  BY <1>2 DEF WholeInv, ListInv, Always, Datagrams, Requests, Responses
<1>4. ASSUME NEW d \in DOMAIN net' PROVE d.port <= q /\ (m.resolving => d.port < q)
  <2>1. CASE d \in DOMAIN left
    <3>1. d \in DOMAIN net
      BY <2>1
    <3> QED BY <1>2, <1>3, <3>1
  <2>2. CASE d \notin DOMAIN left
    BY <1>1, <1>2, <1>4, <2>2
  <2> QED BY <2>1, <2>2
<1> QED BY <1>1, <1>2, <1>4 DEF WholeInv, Always

LEMMA RefreshIsWhole ==
    ASSUME WholeInv, refresh
    PROVE  Always' /\ (~disturbed' => Undisturbed')
<1>1. PICK m, last, u, v :
        /\ m = meta
        /\ last = IF m.m_status = "VALID" THEN m.m_gameServers ELSE m.m_lastValidList
        /\ u = Disconnected(m)
        /\ v = [u EXCEPT !.m_lastValidList = last, !.m_gameServers = <<>>, !.m_nextQuery = 0,
                         !.port = u.port + 1, !.resolving = TRUE,
                         !.completed = FALSE, !.done = FALSE]
  OBVIOUS
<1>2. /\ m \in Metas /\ m.m_activeQueries = {} /\ m.out = <<>>
      /\ m.port \in Nat
  BY <1>1 DEF refresh, WholeInv, Always, ListInv, Busy, Metas
<1>3. /\ u \in Metas /\ u.port = m.port /\ u.m_activeQueries = {} /\ u.m_status = m.m_status
      /\ u.m_lastValidList = m.m_lastValidList /\ u.out = m.out /\ u.buffer = m.buffer
      /\ ~u.open /\ ~u.timer
  BY <1>1, <1>2 DEF Disconnected, Metas
<1>4. last \in Seq(Nat) /\ <<>> \in Seq(Nat) /\ m.port \in Nat
  BY <1>1, <1>2 DEF Metas
<1>5. /\ v \in Metas /\ v.m_activeQueries = {} /\ v.m_nextQuery = 0 /\ v.m_gameServers = <<>>
      /\ v.port = m.port + 1 /\ v.resolving /\ ~v.completed
      /\ v.out = <<>> /\ v.buffer = m.buffer /\ ~v.open /\ ~v.timer
  <2>1. PICK k, none : k = u.port + 1 /\ none = <<>>
    OBVIOUS
  <2>2. k \in Nat /\ none \in Seq(Nat) /\ 0 \in Nat
    BY <1>3, <1>4, <2>1
  <2>3. v = [u EXCEPT !.m_lastValidList = last, !.m_gameServers = none, !.m_nextQuery = 0,
                      !.port = k, !.resolving = TRUE, !.completed = FALSE, !.done = FALSE]
    BY <1>1, <2>1
  <2>4. v \in Metas
    BY <1>3, <1>4, <2>2, <2>3 DEF Metas
  <2>5. /\ v.m_activeQueries = {} /\ v.m_nextQuery = 0 /\ v.m_gameServers = none
        /\ v.m_status = m.m_status /\ v.port = k /\ v.resolving /\ ~v.completed
        /\ v.out = u.out /\ v.buffer = u.buffer /\ v.open = u.open /\ v.timer = u.timer
    BY <1>3, <2>3 DEF Metas
  <2> QED BY <1>2, <1>3, <2>1, <2>4, <2>5
<1>6. v \in Busy
  <2>1. Len(<<>>) = 0
    OBVIOUS
  <2> QED BY <1>5, <2>1, NothingToQuery
<1>7. Becomes(v, net) /\ disturbed' = (m.buffer # <<>>)
  BY <1>1, <1>3 DEF refresh
<1>8. Always'
  <2>1. Range(v.out) = {}
    BY <1>5 DEF Range
  <2>2. meta.port <= v.port /\ meta.port < v.port
    BY <1>1, <1>2, <1>5
  <2> QED BY <1>5, <1>6, <1>7, <2>1, <2>2, BecomesIsAlways
<1>9. /\ meta'.m_gameServers = v.m_gameServers /\ meta'.buffer = v.buffer
      /\ meta'.open = v.open /\ meta'.completed = v.completed
  BY <1>6, <1>7, BecomesIs
<1>10. ~disturbed' => Undisturbed'
  BY <1>5, <1>7, <1>9 DEF Undisturbed
<1> QED BY <1>8, <1>10

LEMMA ConnectIsWhole ==
    ASSUME WholeInv, connect
    PROVE  Always' /\ (~disturbed' => Undisturbed')
<1>1. PICK m : m = meta /\ m \in Busy /\ m \in Metas /\ m.resolving
  BY DEF WholeInv, ListInv, Busy, connect
<1>2. PICK d, v :
        /\ d = Datagram("CLIENTKEEPALIVE", m.port, <<>>)
        /\ v = [m EXCEPT !.resolving = FALSE, !.open = TRUE, !.timer = TRUE,
                         !.m_status = "GETTING_LIST", !.expects = "command", !.out = <<d>>]
  OBVIOUS
<1>3. d \in Requests /\ d.port = m.port /\ d.kind = "CLIENTKEEPALIVE"
  BY <1>1, <1>2 DEF Metas, Datagram, Requests
<1>4. <<d>> \in Seq(Requests) /\ Range(<<d>>) = {d}
  <2>1. <<d>> \in Seq(Requests)
    BY <1>3
  <2>2. PICK s : s = <<d>> /\ DOMAIN s = 1 .. 1 /\ s[1] = d
    <3>1. DOMAIN <<d>> = 1 .. 1 /\ <<d>>[1] = d
      OBVIOUS
    <3> QED BY <3>1
  <2>3. Range(s) = {d}
    BY <2>2 DEF Range
  <2> QED BY <2>1, <2>2, <2>3
<1>5. /\ v \in Metas /\ v.m_status = "GETTING_LIST" /\ v.m_gameServers = m.m_gameServers
      /\ v.m_activeQueries = m.m_activeQueries /\ v.m_nextQuery = m.m_nextQuery
      /\ v.port = m.port /\ ~v.resolving /\ v.expects = "command" /\ v.out = <<d>>
      /\ v.buffer = m.buffer /\ v.completed = m.completed
  BY <1>1, <1>2, <1>4 DEF Metas
<1>6. v \in Busy
  BY <1>1, <1>5 DEF Busy, Queried
<1>7. Becomes(v, net) /\ disturbed' = disturbed
  BY <1>1, <1>2 DEF connect
<1>8. Always'
  <2>1. \A c \in Range(v.out) : c.port = v.port
    BY <1>3, <1>4, <1>5
  <2>2. meta.port <= v.port
    BY <1>1, <1>5 DEF Metas
  <2> QED BY <1>5, <1>6, <1>7, <2>1, <2>2, BecomesIsAlways
<1>9. ASSUME ~disturbed PROVE Undisturbed'
  <2>1. /\ meta'.m_status = v.m_status /\ meta'.m_gameServers = v.m_gameServers
        /\ meta'.completed = v.completed /\ meta'.port = v.port /\ meta'.resolving = v.resolving
        /\ meta'.expects = v.expects /\ meta'.buffer = v.buffer
        /\ net' = net (+) ToBag(v.out) /\ DOMAIN net' = DOMAIN net \cup Range(v.out)
    BY <1>6, <1>7, BecomesIs
  <2>2. m.m_gameServers = <<>> /\ m.buffer = <<>> /\ ~m.completed
    BY <1>1, <1>9 DEF WholeInv, Always, Undisturbed
  <2>3. Has' = 0
    <3>1. Len(<<>>) = 0
      OBVIOUS
    <3> QED BY <1>5, <2>1, <2>2, <3>1 DEF Has
  <2>4. \A c \in DOMAIN net : c.port # m.port
    <3>1. \A c \in DOMAIN net : c.port < m.port /\ c.port \in Nat
      BY <1>1 DEF WholeInv, Always, ListInv, Datagrams, Requests, Responses
    <3> QED BY <1>1, <3>1 DEF Metas
  <2>5. Lone(net', meta'.port)
    <3>1. ToBag(<<d>>) = SetToBag({d})
      BY ToBagIs
    <3>2. PICK D, b : D = net' /\ b = d /\ b.port = m.port /\ D = net (+) SetToBag({b})
      BY <1>3, <1>5, <2>1, <3>1
    <3>3. Lone(D, m.port)
      BY <2>4, <3>2, OneIsNew
    <3> QED BY <1>5, <2>1, <3>2, <3>3
  <2>6. \A c \in Ours' : InFlight(c)'
    <3>1. \A c \in Ours' : c = d
      BY <1>4, <1>5, <2>1, <2>4 DEF Ours
    <3> QED BY <1>3, <2>3, <3>1 DEF InFlight
  <2>7. OnTrack'
    BY <2>3, <2>5, <2>6 DEF OnTrack, Begun
  <2> QED BY <1>5, <2>1, <2>2, <2>7 DEF Undisturbed, Asking
<1> QED BY <1>7, <1>8, <1>9

LEMMA ResolveFailsIsWhole ==
    ASSUME WholeInv, ResolveFails
    PROVE  Always' /\ (~disturbed' => Undisturbed')
<1>1. PICK m : m = meta /\ m \in Busy /\ m \in Metas /\ m.out = <<>> /\ m.port \in Nat
               /\ ~m.completed
  BY DEF WholeInv, ListInv, Always, Busy, Metas, ResolveFails
<1>2. PICK v : v = [Disconnected(m) EXCEPT !.resolving = FALSE]
  OBVIOUS
<1>3. /\ v \in Metas /\ v.m_status = m.m_status /\ v.m_gameServers = m.m_gameServers
      /\ v.m_activeQueries = m.m_activeQueries /\ v.m_nextQuery = m.m_nextQuery
      /\ ~v.resolving /\ ~v.open /\ ~v.completed /\ v.port = m.port /\ v.out = <<>>
  BY <1>1, <1>2 DEF Disconnected, Metas
<1>4. v \in Busy
  BY <1>1, <1>3, SameQueries
<1>5. Becomes(v, net)
  BY <1>1, <1>2 DEF ResolveFails
<1>6. Always'
  <2>1. Range(v.out) = {}
    BY <1>3 DEF Range
  <2>2. meta.port <= v.port
    BY <1>1, <1>3
  <2> QED BY <1>3, <1>4, <1>5, <2>1, <2>2, BecomesIsAlways
<1>7. /\ meta'.resolving = v.resolving /\ meta'.open = v.open /\ meta'.completed = v.completed
  BY <1>4, <1>5, BecomesIs
<1>8. Undisturbed'
  BY <1>3, <1>7 DEF Undisturbed
<1> QED BY <1>6, <1>8

LEMMA CancelledIsWhole ==
    ASSUME WholeInv, Becomes(Cancelled(meta), net),
           ~disturbed' => ~meta.resolving
    PROVE  Always' /\ (~disturbed' => Undisturbed')
<1>1. PICK m, v : /\ m = meta /\ v = Cancelled(m) /\ m \in Metas /\ m.out = <<>>
                  /\ m.port \in Nat
                  /\ m.resolving => ~m.completed
  BY DEF WholeInv, ListInv, Always, Busy, Metas
<1>2. v \in Busy
  BY <1>1, CancelledKeeps
<1>3. /\ v.port = m.port /\ v.resolving = m.resolving /\ v.out = m.out
      /\ ~v.open /\ ~v.timer /\ v.m_status # "QUERYING" /\ v.completed = m.completed
  BY <1>1, CancelledIsPorted
<1>4. Becomes(v, net)
  BY <1>1
<1>5. Always'
  <2>1. Range(v.out) = {}
    BY <1>1, <1>3 DEF Range
  <2>2. meta.port <= v.port
    BY <1>1, <1>3
  <2> QED BY <1>1, <1>2, <1>3, <1>4, <2>1, <2>2, BecomesIsAlways
<1>6. /\ meta'.resolving = v.resolving /\ meta'.open = v.open /\ meta'.m_status = v.m_status
  BY <1>2, <1>4, BecomesIs
<1>7. ~disturbed' => Undisturbed'
  BY <1>1, <1>3, <1>6 DEF Undisturbed
<1> QED BY <1>5, <1>7

LEMMA QueryEndsIsWhole ==
    ASSUME WholeInv, NEW i \in meta.m_activeQueries, QueryEnds(i)
    PROVE  Always' /\ (~disturbed' => Undisturbed')
<1>1. PICK m, v : /\ m = meta /\ v = deleteQuery(m, i) /\ m \in Busy /\ m \in Metas
                  /\ m.out = <<>> /\ m.port \in Nat
                  /\ m.resolving => ~m.open /\ ~m.timer /\ ~m.completed
  BY DEF WholeInv, ListInv, Always, Busy, Metas
<1>2. v \in Busy
  BY <1>1, DeleteQueryKeeps
<1>3. Becomes(v, net) /\ disturbed' = disturbed
  BY <1>1 DEF QueryEnds
<1>4. /\ v.m_status \in {m.m_status, "VALID"} /\ v.m_gameServers = m.m_gameServers
      /\ v.m_totalServers = m.m_totalServers /\ v.completed = m.completed
      /\ v.port = m.port /\ v.resolving = m.resolving /\ v.open = m.open /\ v.out = m.out
      /\ v.expects = m.expects /\ v.buffer = m.buffer /\ v.timer = m.timer
  <2>1. PICK a, n : a = m.m_activeQueries \ {i} /\ n = [m EXCEPT !.m_activeQueries = a]
    OBVIOUS
  <2>2. a \in SUBSET Nat
    BY <1>1, <2>1 DEF Metas
  <2>3. /\ n \in Metas /\ n.m_status = m.m_status /\ n.m_gameServers = m.m_gameServers
        /\ n.m_totalServers = m.m_totalServers /\ n.completed = m.completed
        /\ n.port = m.port /\ n.resolving = m.resolving /\ n.open = m.open /\ n.out = m.out
        /\ n.expects = m.expects /\ n.buffer = m.buffer /\ n.timer = m.timer
    BY <1>1, <2>1, <2>2 DEF Metas
  <2>4. PICK w : w = IF n.m_activeQueries = {} /\ n.m_nextQuery = Len(n.m_gameServers)
                     THEN [n EXCEPT !.m_status = "VALID", !.done = TRUE] ELSE n
    OBVIOUS
  <2>5. /\ w \in Metas /\ w.m_status \in {m.m_status, "VALID"}
        /\ w.m_gameServers = m.m_gameServers
        /\ w.m_totalServers = m.m_totalServers /\ w.completed = m.completed
        /\ w.port = m.port /\ w.resolving = m.resolving /\ w.open = m.open /\ w.out = m.out
        /\ w.expects = m.expects /\ w.buffer = m.buffer /\ w.timer = m.timer
    <3>1. w = n \/ w = [n EXCEPT !.m_status = "VALID", !.done = TRUE]
      BY <2>4
    <3> QED BY <2>3, <3>1 DEF Metas
  <2>6. v = Query(w)
    BY <1>1, <2>1, <2>4 DEF deleteQuery
  <2> QED BY <2>5, <2>6, QueryIsAlike DEF Alike
<1>5. Always'
  <2>1. Range(v.out) = {}
    BY <1>1, <1>4 DEF Range
  <2>2. meta.port <= v.port
    BY <1>1, <1>4
  <2> QED BY <1>1, <1>2, <1>3, <1>4, <2>1, <2>2, BecomesIsAlways
<1>6. /\ meta'.m_status = v.m_status /\ meta'.m_gameServers = v.m_gameServers
      /\ meta'.m_totalServers = v.m_totalServers /\ meta'.completed = v.completed
      /\ meta'.port = v.port /\ meta'.resolving = v.resolving /\ meta'.open = v.open
      /\ meta'.expects = v.expects /\ meta'.buffer = v.buffer
      /\ UNCHANGED <<sessions, snapshot>>
      /\ DOMAIN net' = DOMAIN net
      /\ \A c \in DOMAIN net : net[c] = 1 => net'[c] = 1
  <2>1. Becomes(v, net) /\ v.out = <<>>
    BY <1>1, <1>3, <1>4
  <2>2. /\ DOMAIN net' = DOMAIN net
        /\ \A c \in DOMAIN net : net[c] = 1 => net'[c] = 1
    BY <1>2, <2>1, BecomesIs
  <2> QED BY <1>2, <2>1, <2>2, BecomesIs
<1>7. ASSUME ~disturbed' PROVE Undisturbed'
  <2>1. Undisturbed
    BY <1>3, <1>7 DEF WholeInv
  <2>2. Lone(net, meta.port) => Lone(net', meta.port)
    BY <1>6 DEF Lone
  <2>3. Fit => Fit'
    BY <1>6 DEF Fit
  <2> QED BY <1>1, <1>4, <1>6, <2>1, <2>2, <2>3, StaysOnTrack
<1> QED BY <1>5, <1>7

LEMMA GotDataPorted ==
    ASSUME NEW m \in Busy, NEW d \in Responses, NEW port, NEW resolving,
           Ported(m, port, resolving)
    PROVE  Ported(gotData(m, d), port, resolving)
<1>1. PICK v, a, b : v = [m EXCEPT !.buffer = <<>>] /\ a = m.buffer /\ b = Pieces(d)
  OBVIOUS
<1>2. m \in Metas /\ a \in Seq(AllPieces) /\ b \in Seq(AllPieces) /\ <<>> \in Seq(AllPieces)
  BY <1>1, PiecesType DEF Busy, Metas
<1>3. /\ v \in Metas /\ v.m_status = m.m_status /\ v.m_gameServers = m.m_gameServers
      /\ v.m_activeQueries = m.m_activeQueries /\ v.m_nextQuery = m.m_nextQuery
      /\ v.port = m.port /\ v.resolving = m.resolving /\ v.out = m.out
  BY <1>1, <1>2 DEF Metas
<1>4. v \in Busy /\ Ported(v, port, resolving)
  BY <1>3, SameQueries DEF Ported
<1>5. PICK s \in Seq(AllPieces) : s = a \o b
  <2>1. a \o b \in Seq(AllPieces)
    BY <1>2
  <2> QED BY <2>1
<1>6. Ported(FoldLeft(Read, v, s), port, resolving)
  BY <1>4, FoldPorted
<1>7. gotData(m, d) = FoldLeft(Read, v, s)
  BY <1>1, <1>5 DEF gotData
<1> QED BY <1>6, <1>7

\* A client that is not reading the list.
LEMMA ArrivesIdly ==
    ASSUME WholeInv, Undisturbed, NEW d \in Responses, meta.open,
           meta.expects = "nothing" \/ meta.m_status # "GETTING_LIST",
           NEW v, v = gotData(meta, d)
    PROVE  v.expects = "nothing" /\ ~(v.completed /\ v.m_status = "QUERYING")
<1>1. PICK m : m = meta /\ m \in Busy
  BY DEF WholeInv, ListInv
<1>2. \/ m.expects = "nothing"
      \/ m.expects = "command" /\ m.buffer = <<>> /\ m.m_status # "GETTING_LIST"
  BY <1>1 DEF Undisturbed, Asking
<1>3. Alike(m, v) /\ v.expects = "nothing"
  BY <1>1, <1>2, ReadsOff
<1> QED BY <1>1, <1>3 DEF Alike, Undisturbed

\* What the client reads while it asks.
LEMMA ArrivesOnTrack ==
    ASSUME WholeInv, Undisturbed, NEW d \in Ours, d \in Responses, meta.open,
           meta.expects # "nothing", meta.m_status = "GETTING_LIST",
           NEW v, v = gotData(meta, d)
    PROVE  \/ v.expects = "nothing" /\ ~v.completed
           \/ ~v.open /\ v.m_gameServers = snapshot /\ v.out = <<>>
           \/ /\ v.expects = "command" /\ v.buffer = <<>> /\ ~v.completed
              /\ v.out = <<Datagram("LISTREQ", meta.port, <<Len(v.m_gameServers)>>)>>
              /\ Len(v.m_gameServers) # 0 =>
                    /\ Fit /\ Len(v.m_gameServers) < Len(snapshot)
                    /\ v.m_gameServers = SubSeq(snapshot, 1, Len(v.m_gameServers))
                    /\ v.m_totalServers = Len(snapshot)
<1>1. PICK m, s : /\ m = meta /\ m \in Busy /\ m.out = <<>> /\ m.port \in Nat
                  /\ s = m.m_gameServers /\ s \in Seq(Nat)
  BY DEF WholeInv, ListInv, Always, Busy, Metas
<1>2. /\ m.expects = "command" /\ m.buffer = <<>> /\ ~m.completed /\ OnTrack
      /\ Begun /\ InFlight(d) /\ m.m_status = "GETTING_LIST"
  BY <1>1 DEF Undisturbed, Asking, OnTrack
<1>3. PICK k \in Nat : k = Has /\ k = Len(s)
  <2>1. Len(s) \in Nat
    BY <1>1
  <2> QED BY <1>1, <2>1 DEF Has
<1>4. d.kind \in {"HANDSHAKE", "LISTRESP"}
  BY DEF Responses
<1>5. CASE d.kind = "HANDSHAKE"
  <2>1. k = 0
    BY <1>2, <1>3, <1>5 DEF InFlight
  <2>2. /\ v.out = Append(m.out, Datagram("LISTREQ", m.port, <<0>>))
        /\ v.expects = "command" /\ v.buffer = <<>> /\ v.m_gameServers = s
        /\ v.completed = m.completed
    BY <1>1, <1>2, <1>5, ReadsHandshake
  <2>3. PICK r : r = Datagram("LISTREQ", m.port, <<0>>)
    OBVIOUS
  <2>4. Append(<<>>, r) = <<r>>
    OBVIOUS
  <2>5. v.out = <<Datagram("LISTREQ", m.port, <<0>>)>>
    BY <1>1, <2>2, <2>3, <2>4
  <2> QED BY <1>1, <1>2, <1>3, <2>1, <2>2, <2>5
<1>6. CASE d.kind = "LISTRESP"
  <2>1. Fit /\ IsPage(d.data, k)
    BY <1>2, <1>3, <1>6 DEF InFlight
  <2>2. PICK p : p = Page(snapshot, k)
    OBVIOUS
  <2>5. PICK total \in Nat :
          \/ d.data = <<total>>
          \/ d.data = <<total>> \o p /\ p # <<>> /\ (k = 0 => total = Len(snapshot))
    BY <2>1, <2>2 DEF IsPage
  <2>3. CASE d.data = <<total>>
    BY <1>1, <1>2, <1>6, <2>3, ReadsNone
  <2>4. CASE d.data = <<total>> \o p /\ p # <<>> /\ (k = 0 => total = Len(snapshot))
    <3>1. PICK list \in Seq(Servers) : list = snapshot /\ Sorted(list) /\ Len(list) \in Nat
      BY <2>1 DEF Fit
    <3>2. s = SubSeq(list, 1, k) /\ k <= Len(list)
      <4>1. CASE k = 0
        <5>1. s = <<>>
          <6>1. s \in Seq(Nat) /\ Len(s) = 0
            BY <1>1, <1>3, <4>1
          <6> QED BY <6>1
        <5>2. SubSeq(list, 1, 0) = <<>>
          OBVIOUS
        <5> QED BY <3>1, <4>1, <5>1, <5>2
      <4>2. CASE k # 0
        BY <1>1, <1>2, <1>3, <3>1, <4>2 DEF Begun
      <4> QED BY <4>1, <4>2
    <3>3. /\ p \in Seq(Servers) /\ Len(p) \in Nat /\ k + Len(p) <= Len(list)
          /\ SubSeq(list, 1, k) \o p = SubSeq(list, 1, k + Len(p))
      BY <2>2, <3>1, <3>2, PageFacts
    <3>4. PICK n \in Nat : n = k + Len(p) /\ n # 0 /\ n <= Len(list)
      <4>1. Len(p) # 0
        BY <2>4, <3>3
      <4> QED BY <3>3, <4>1
    <3>5. PICK all : all = s \o p /\ all = SubSeq(list, 1, n)
      BY <3>2, <3>3, <3>4
    <3>6. Len(all) = n /\ (n = Len(list) => all = list)
      BY <3>1, <3>4, <3>5
    <3>7. PICK need : /\ need = IF m.m_gameServers = <<>> THEN total ELSE m.m_totalServers
                      /\ need = Len(list)
      <4>1. s = <<>> <=> k = 0
        BY <1>1, <1>3
      <4>2. k # 0 => m.m_totalServers = Len(list)
        BY <1>1, <1>2, <1>3, <3>1 DEF Begun
      <4> QED BY <1>1, <2>4, <3>1, <4>1, <4>2
    <3>8. p \in Seq(Nat)
      <4>1. Servers \subseteq Nat
        BY MetaListAssumption
      <4>2. p \in Seq(Servers)
        BY <3>3
      <4>3. p \in [1 .. Len(p) -> Servers] /\ Len(p) \in Nat
        BY <4>2
      <4>4. p \in [1 .. Len(p) -> Nat]
        BY <4>1, <4>3
      <4> QED BY <4>3, <4>4
    <3>9. all = m.m_gameServers \o p
      BY <1>1, <3>5
    <3>10. Taken(m, v, all, need)
      <4>1. v = gotData(m, d) /\ d.data = <<total>> \o p /\ p # <<>>
        BY <1>1, <2>4
      <4> QED BY <1>1, <1>2, <1>6, <3>7, <3>8, <3>9, <4>1, ReadsPage
    <3>11. CASE n < Len(list)
      <4>1. PICK r : r = Datagram("LISTREQ", m.port, <<n>>)
        OBVIOUS
      <4>2. Append(<<>>, r) = <<r>>
        OBVIOUS
      <4>3. v.out = Append(m.out, r)
        BY <3>6, <3>7, <3>10, <3>11, <4>1 DEF Taken
      <4>4. v.out = <<Datagram("LISTREQ", m.port, <<n>>)>>
        BY <1>1, <4>1, <4>2, <4>3
      <4>5. v.m_gameServers = all /\ Len(v.m_gameServers) = n
        BY <3>6, <3>10 DEF Taken
      <4>6. /\ v.expects = "command" /\ v.buffer = <<>> /\ ~v.completed
            /\ v.m_totalServers = Len(snapshot) /\ all = SubSeq(snapshot, 1, n)
            /\ n < Len(snapshot)
        BY <1>2, <3>1, <3>5, <3>6, <3>7, <3>10, <3>11 DEF Taken
      <4> QED BY <1>1, <2>1, <4>4, <4>5, <4>6
    <3>12. CASE ~(n < Len(list))
      <4>1. n = Len(list)
        BY <3>1, <3>4, <3>12
      <4>2. ~v.open /\ v.out = <<>> /\ v.m_gameServers = list
        BY <1>1, <3>6, <3>7, <3>10, <3>12, <4>1 DEF Taken
      <4> QED BY <3>1, <4>2
    <3> QED BY <3>11, <3>12
  <2> QED BY <2>5, <2>3, <2>4
<1> QED BY <1>4, <1>5, <1>6

LEMMA ArriveIsWhole ==
    ASSUME WholeInv, NEW d \in DOMAIN net, Arrive(d)
    PROVE  Always' /\ (~disturbed' => Undisturbed')
<1>1. PICK m, left : /\ m = meta /\ left = net (-) SetToBag({d}) /\ m \in Busy /\ m \in Metas
                     /\ m.out = <<>> /\ m.port \in Nat
                     /\ m.resolving => ~m.open /\ ~m.timer /\ ~m.completed
  BY DEF WholeInv, ListInv, Always, Busy, Metas
<1>2. d \in Responses /\ disturbed' = disturbed
  BY DEF Arrive, WholeInv, ListInv, Datagrams, Requests
<1>3. /\ DOMAIN left \subseteq DOMAIN net
      /\ \A c \in DOMAIN left : net[c] = 1 => left[c] = 1 /\ c # d
  <2>1. Less(net, d, left)
    BY <1>1, LessIs
  <2> QED BY <2>1 DEF Less
<1>4. CASE ~(m.open /\ d.port = m.port)
  <2>1. Becomes(m, left)
    BY <1>1, <1>4 DEF Arrive
  <2>2. Always'
    <3>1. Range(m.out) = {}
      BY <1>1 DEF Range
    <3>2. meta.port <= m.port
      BY <1>1
    <3> QED BY <1>1, <1>3, <2>1, <3>1, <3>2, BecomesIsAlways
  <2>3. /\ DOMAIN net' = DOMAIN left
        /\ \A c \in DOMAIN left : left[c] = 1 => net'[c] = 1
    BY <1>1, <2>1, BecomesIs
  <2>4. /\ meta'.m_status = m.m_status /\ meta'.m_gameServers = m.m_gameServers
        /\ meta'.m_totalServers = m.m_totalServers /\ meta'.completed = m.completed
        /\ meta'.port = m.port /\ meta'.resolving = m.resolving /\ meta'.open = m.open
        /\ meta'.expects = m.expects /\ meta'.buffer = m.buffer
        /\ UNCHANGED <<sessions, snapshot>>
    BY <1>1, <2>1, BecomesIs
  <2>5. ASSUME ~disturbed' PROVE Undisturbed'
    <3>1. Undisturbed
      BY <1>2, <2>5 DEF WholeInv
    <3>2. Lone(net, meta.port) => Lone(net', meta.port)
      BY <1>3, <2>3 DEF Lone
    <3>3. Fit => Fit'
      BY <2>4 DEF Fit
    <3>4. \A c \in DOMAIN net' : c.port = meta.port => c \in DOMAIN net
      BY <1>3, <2>3
    <3> QED BY <1>1, <2>4, <3>1, <3>2, <3>3, <3>4, StaysOnTrack
  <2> QED BY <2>2, <2>5
<1>5. CASE m.open /\ d.port = m.port
  <2>1. PICK v : v = gotData(m, d)
    OBVIOUS
  <2>2. v \in Busy
    BY <1>1, <1>2, <2>1, GotDataKeeps
  <2>3. Becomes(v, left)
    BY <1>1, <1>5, <2>1 DEF Arrive
  <2>4. v.port = m.port /\ v.resolving = m.resolving /\ \A c \in Range(v.out) : c.port = m.port
    <3>1. PICK port, resolving : port = m.port /\ resolving = m.resolving
      OBVIOUS
    <3>2. Ported(m, port, resolving)
      BY <1>1, <3>1 DEF Ported, Range
    <3>3. Ported(v, port, resolving)
      BY <1>1, <1>2, <2>1, <3>2, GotDataPorted
    <3> QED BY <3>1, <3>3 DEF Ported
  <2>5. Always'
    <3>1. ~v.resolving
      BY <1>1, <1>5, <2>4
    <3>2. meta.port <= v.port
      BY <1>1, <2>4
    <3> QED BY <1>3, <2>2, <2>3, <2>4, <3>1, <3>2, BecomesIsAlways
  <2>6. /\ meta'.m_status = v.m_status /\ meta'.m_gameServers = v.m_gameServers
        /\ meta'.m_totalServers = v.m_totalServers /\ meta'.completed = v.completed
        /\ meta'.port = v.port /\ meta'.resolving = v.resolving /\ meta'.open = v.open
        /\ meta'.expects = v.expects /\ meta'.buffer = v.buffer
        /\ UNCHANGED <<sessions, snapshot>>
        /\ net' = left (+) ToBag(v.out) /\ DOMAIN net' = DOMAIN left \cup Range(v.out)
    BY <2>2, <2>3, BecomesIs
  <2>7. ASSUME ~disturbed' PROVE Undisturbed'
    <3>1. Undisturbed /\ d \in Ours /\ ~v.resolving
      BY <1>1, <1>2, <1>5, <2>4, <2>7 DEF WholeInv, Ours
    <3>2. CASE m.expects = "nothing" \/ m.m_status # "GETTING_LIST"
      <4>1. v.expects = "nothing" /\ ~(v.completed /\ v.m_status = "QUERYING")
        BY <1>1, <1>2, <1>5, <2>1, <3>1, <3>2, ArrivesIdly
      <4> QED BY <2>6, <3>1, <4>1 DEF Undisturbed
    <3>3. CASE ~(m.expects = "nothing" \/ m.m_status # "GETTING_LIST")
      <4>1. \A c \in DOMAIN left : c.port # m.port
        <5>1. Lone(net, m.port)
          BY <1>1, <1>5, <3>1, <3>3 DEF Undisturbed, Asking, OnTrack
        <5> QED BY <1>1, <1>5, <5>1, NoneLeft
      <4>2. \/ v.expects = "nothing" /\ ~v.completed
            \/ ~v.open /\ v.m_gameServers = snapshot /\ v.out = <<>>
            \/ /\ v.expects = "command" /\ v.buffer = <<>> /\ ~v.completed
               /\ v.out = <<Datagram("LISTREQ", meta.port, <<Len(v.m_gameServers)>>)>>
               /\ Len(v.m_gameServers) # 0 =>
                    /\ Fit /\ Len(v.m_gameServers) < Len(snapshot)
                    /\ v.m_gameServers = SubSeq(snapshot, 1, Len(v.m_gameServers))
                    /\ v.m_totalServers = Len(snapshot)
        BY <1>1, <1>2, <1>5, <2>1, <3>1, <3>3, ArrivesOnTrack
      <4>3. CASE v.expects = "nothing" /\ ~v.completed
        BY <2>6, <3>1, <4>3 DEF Undisturbed
      <4>4. CASE ~v.open /\ v.m_gameServers = snapshot /\ v.out = <<>>
        <5>1. Ours' = {}
          <6>1. Range(v.out) = {}
            BY <4>4 DEF Range
          <6> QED BY <2>4, <2>6, <4>1, <6>1 DEF Ours
        <5> QED BY <2>6, <3>1, <4>4, <5>1 DEF Undisturbed
      <4>5. CASE /\ v.expects = "command" /\ v.buffer = <<>> /\ ~v.completed
                 /\ v.out = <<Datagram("LISTREQ", meta.port, <<Len(v.m_gameServers)>>)>>
                 /\ Len(v.m_gameServers) # 0 =>
                      /\ Fit /\ Len(v.m_gameServers) < Len(snapshot)
                      /\ v.m_gameServers = SubSeq(snapshot, 1, Len(v.m_gameServers))
                      /\ v.m_totalServers = Len(snapshot)
        <5>1. PICK r : r = Datagram("LISTREQ", meta.port, <<Len(v.m_gameServers)>>)
          OBVIOUS
        <5>2. /\ v.out = <<r>> /\ r.kind = "LISTREQ" /\ r.port = m.port
              /\ r.data = <<Len(v.m_gameServers)>>
          BY <1>1, <4>5, <5>1 DEF Datagram
        <5>3. net' = left (+) SetToBag({r})
          BY <2>6, <5>2, ToBagIs
        <5>4. Lone(net', m.port)
          <6>1. PICK D, port : D = net' /\ port = m.port
            OBVIOUS
          <6>2. D = left (+) SetToBag({r}) /\ r.port = port /\ \A c \in DOMAIN left : c.port # port
            BY <4>1, <5>2, <5>3, <6>1
          <6>3. Lone(D, port)
            BY <6>2, OneIsNew
          <6> QED BY <6>1, <6>3
        <5>5. DOMAIN net' = DOMAIN left \cup {r}
          BY <5>3, BagDomains
        <5>6. Has' = Len(v.m_gameServers)
          BY <2>6 DEF Has
        <5>7. \A c \in Ours' : InFlight(c)'
          <6>1. \A c \in Ours' : c = r
            BY <2>4, <2>6, <4>1, <5>5 DEF Ours
          <6>2. InFlight(r)'
            BY <5>2, <5>6 DEF InFlight
          <6> QED BY <6>1, <6>2
        <5>8. Begun'
          <6>1. Fit => Fit'
            BY <2>6 DEF Fit
          <6> QED BY <2>6, <4>5, <5>6, <6>1 DEF Begun
        <5>9. OnTrack'
          BY <2>4, <2>6, <5>4, <5>7, <5>8 DEF OnTrack
        <5> QED BY <2>6, <3>1, <4>5, <5>9 DEF Undisturbed, Asking
      <4> QED BY <4>2, <4>3, <4>4, <4>5
    <3> QED BY <3>2, <3>3
  <2> QED BY <2>5, <2>7
<1> QED BY <1>4, <1>5

LEMMA WholeStep ==
    ASSUME WholeInv, [Next]_vars
    PROVE  WholeInv'
<1>0. ListInv'
  BY ListStep DEF WholeInv
<1> SUFFICES Always' /\ (~disturbed' => Undisturbed')
  BY <1>0 DEF WholeInv
<1>1. CASE RegisterStep
  BY <1>1, RegisterStepIsWhole
<1>2. ASSUME NEW d \in BagToSet(net), processCLIENTKEEPALIVE(d) \/ processLISTREQ(d) \/ Arrive(d)
      PROVE  Always' /\ (~disturbed' => Undisturbed')
  <2>1. d \in DOMAIN net
    BY DEF BagToSet
  <2> QED BY <1>2, <2>1, HandshakeIsWhole, ListReqIsWhole, ArriveIsWhole
<1>3. CASE expireClientSessionCache \/ Resources \/ UNCHANGED vars
  <2>1. /\ UNCHANGED <<sessions, net, meta, snapshot, disturbed>>
        /\ m_serverListreq' \in {m_serverListreq, NoList}
    BY <1>3 DEF expireClientSessionCache, Resources, vars
  <2>2. Always'
    BY <2>1 DEF WholeInv, Always
  <2>3. ~disturbed' => Undisturbed'
    <3>1. Fit => Fit'
      BY <2>1 DEF Fit
    <3> QED BY <2>1, <3>1, StaysOnTrack DEF WholeInv
  <2> QED BY <2>2, <2>3
<1>4. CASE refresh \/ connect \/ ResolveFails
  BY <1>4, RefreshIsWhole, ConnectIsWhole, ResolveFailsIsWhole
<1>5. CASE cancel
  BY <1>5, CancelledIsWhole DEF cancel
<1>6. CASE metaTimeout
  <2>1. ~meta.resolving
    BY <1>6 DEF metaTimeout, WholeInv, Always
  <2> QED BY <1>6, <2>1, CancelledIsWhole DEF metaTimeout
<1>7. ASSUME NEW i \in meta.m_activeQueries, QueryEnds(i)
      PROVE  Always' /\ (~disturbed' => Undisturbed')
  BY <1>7, QueryEndsIsWhole
<1>8. CASE Lose
  <2>1. PICK d : net' = net (-) SetToBag({d})
    BY <1>8 DEF Lose
  <2>2. /\ DOMAIN net' \subseteq DOMAIN net
        /\ \A c \in DOMAIN net' : net[c] = 1 => net'[c] = 1 /\ c # d
    <3>1. Less(net, d, net')
      BY <2>1, LessIs
    <3> QED BY <3>1 DEF Less
  <2>3. UNCHANGED <<sessions, m_serverListreq, meta, snapshot, disturbed>>
    BY <1>8 DEF Lose
  <2>4. Always'
    BY <2>2, <2>3 DEF WholeInv, Always
  <2>5. ~disturbed' => Undisturbed'
    <3>1. Fit => Fit'
      BY <2>3 DEF Fit
    <3>2. Lone(net, meta.port) => Lone(net', meta.port)
      BY <2>2 DEF Lone
    <3> QED BY <2>2, <2>3, <3>1, <3>2, StaysOnTrack DEF WholeInv
  <2> QED BY <2>4, <2>5
<1>9. CASE Duplicate
  <2>1. PICK d : d \in DOMAIN net /\ net' = net (+) SetToBag({d})
    BY <1>9 DEF Duplicate, BagToSet
  <2>2. DOMAIN net' = DOMAIN net
    <3>1. DOMAIN net' = DOMAIN net \cup {d}
      BY <2>1, BagDomains
    <3> QED BY <2>1, <3>1
  <2> QED BY <1>9, <2>2 DEF Duplicate, WholeInv, Always
<1> QED BY <1>1, <1>2, <1>3, <1>4, <1>5, <1>6, <1>7, <1>8, <1>9 DEF Next

(***************************************************************************)
(* A list that nothing disturbed is whole: the client that has completed   *)
(* it holds each server of the list that the metaserver stored once, in    *)
(* order, however many pages it takes, and whatever is lost, late or       *)
(* expires at the metaserver meanwhile.  A response does not say which     *)
(* part of the list it holds; what makes the pages fit is that at most one *)
(* datagram of the socket is under way, and asks for, or holds, just what  *)
(* comes after the servers that the client has.                            *)
(***************************************************************************)
THEOREM ListIsWhole == Spec => []UndisturbedListIsWhole
<1>1. WholeInv => UndisturbedListIsWhole
  BY DEF WholeInv, Undisturbed, UndisturbedListIsWhole
<1> QED BY <1>1, InitWholeInv, WholeStep, PTL DEF Spec

=============================================================================
