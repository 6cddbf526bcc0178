----------------------- MODULE ServiceRegistryProofs -----------------------
(***************************************************************************)
(* What the registry and the discovery promise, proved for any servers and *)
(* goroutines and any of the timeouts.                                     *)
(***************************************************************************)
EXTENDS ServiceRegistry, FiniteSetTheorems, WellFoundedInduction, TLAPS

NumbersType ==
  /\ items \in SUBSET Servers
  /\ beatAge \in [Servers -> 0 .. MaxBeatAge]
  /\ beating \subseteq up /\ up \in SUBSET Servers
  /\ timer \in [Servers -> 0 .. HeartbeatPeriod]
  /\ index \in Nat
  /\ listAge \in 0 .. RefreshAfter
  /\ delay \in 0 .. MaxDelay
  /\ picks \in [Servers -> 0 .. MaxPicks]
  /\ reachable \in BOOLEAN /\ given \in BOOLEAN

\* A list of servers without repetition.
Distinct(q) == /\ q \in Seq(Servers)
               /\ \A i, j \in DOMAIN q : q[i] = q[j] => i = j

ListsInv == Distinct(list) /\ Distinct(answer)

\* The mutex belongs to the getter that asks; the answer is there once it is
\* told.
MutexInv ==
  /\ pc \in [Getters -> {"idle", "asking", "told", "get"}]
  /\ holder \in Getters \cup {Nobody}
  /\ \A c \in Getters : pc[c] \in {"asking", "told"} <=> holder = c
  /\ MutexIsFree => delay = 0
  /\ (\A c \in Getters : pc[c] # "told") => answer = <<>>

\* The next heartbeat of a server is no further off than what is left of the
\* period; so it is not removed before, if the period is short enough.
HeartbeatInv ==
  \A s \in beating : /\ beatAge[s] + timer[s] <= HeartbeatPeriod
                     /\ EnoughTime => s \in items

\* The servers of an answer were alive when it was given.
FreshInv ==
  /\ \A i \in DOMAIN answer : beatAge[answer[i]] < Timeout + delay
  /\ ListIsFresh

\* The servers picked once more than the next one are those from some place in
\* the list up to it, going round.
NextPlace == index % Len(list)
Counts == [i \in 0 .. (Len(list) - 1) |-> picks[list[i + 1]]]
Between(from, to, i) == IF from <= to THEN from <= i /\ i < to
                                      ELSE from <= i \/ i < to
Even(p, n, to) ==
  \E from \in 0 .. (n - 1) : \A i \in 0 .. (n - 1) :
    p[i] = IF Between(from, to, i) THEN p[to] + 1 ELSE p[to]
EvenInv == list # <<>> => Even(Counts, Len(list), NextPlace)

IInv == /\ NumbersType
        /\ ListsInv
        /\ MutexInv
        /\ HeartbeatInv
        /\ FreshInv
        /\ EvenInv

----------------------------------------------------------------------------
(* Lists in order *)

\* Every set of numbers has a least element.
LEMMA LeastNat ==
  ASSUME NEW T, T \subseteq Nat, T # {}
  PROVE  \E x \in T : \A y \in T : x <= y
<1> DEFINE R == {ss \in Nat \X Nat : ss[1] < ss[2]}
<1>1. IsWellFoundedOn(R, Nat)
  BY NatLessThanWellFounded DEF OpToRel
<1>2. PICK x \in T : \A y \in T : <<y, x>> \notin R
  <2> HIDE DEF R
  <2> QED BY <1>1, WFMin
<1>3. \A y \in T : ~(y < x)
  BY <1>2
<1> QED BY <1>3

\* A finite set of numbers can be put in order: a smallest one that could not
\* would be in order without its least element.
LEMMA OrderExists ==
  ASSUME NEW S \in SUBSET Nat, IsFiniteSet(S)
  PROVE  \E q \in [1 .. Cardinality(S) -> S] :
           \A i, j \in 1 .. Cardinality(S) : i < j => q[i] < q[j]
<1> DEFINE Ordered(U) == \E q \in [1 .. Cardinality(U) -> U] :
                           \A i, j \in 1 .. Cardinality(U) : i < j => q[i] < q[j]
           Bad == {n \in Nat : \E U \in SUBSET Nat : /\ IsFiniteSet(U)
                                                    /\ Cardinality(U) = n
                                                    /\ ~Ordered(U)}
<1> SUFFICES ASSUME Bad # {} PROVE FALSE
  <2> HIDE DEF Ordered
  <2>1. Cardinality(S) \in Nat
    BY FS_CardinalityType
  <2>2. ~Ordered(S) => Cardinality(S) \in Bad
    BY <2>1
  <2> QED
    BY <2>2 DEF Ordered
<1>1. PICK n \in Bad : \A m \in Bad : n <= m
  <2>1. Bad \subseteq Nat
    OBVIOUS
  <2> HIDE DEF Bad
  <2> QED BY <2>1, LeastNat
<1>2. PICK U \in SUBSET Nat : IsFiniteSet(U) /\ Cardinality(U) = n /\ ~Ordered(U)
  <2> HIDE DEF Ordered
  <2> QED OBVIOUS
<1>3. U # {}
  <2> SUFFICES ASSUME U = {} PROVE Ordered(U)
    BY <1>2
  <2>1. Cardinality(U) = 0
    BY FS_EmptySet
  <2>2. <<>> \in [1 .. Cardinality(U) -> U]
    BY <2>1
  <2> QED
    BY <2>1, <2>2
<1>4. PICK m \in U : \A y \in U : m <= y
  BY <1>3, LeastNat
<1> DEFINE V == U \ {m}
<1>5. V \in SUBSET Nat /\ IsFiniteSet(V) /\ Cardinality(V) = n - 1 /\ n \in Nat
  BY <1>2, FS_RemoveElement
<1>6. n - 1 \in Nat
  BY <1>5, FS_CardinalityType
<1>7. PICK q \in [1 .. (n - 1) -> V] :
        \A i, j \in 1 .. (n - 1) : i < j => q[i] < q[j]
  <2>1. Ordered(V)
    <3>1. n - 1 \notin Bad
      BY <1>1, <1>5, <1>6
    <3> HIDE DEF Ordered
    <3> QED
      BY <1>5, <1>6, <3>1
  <2> HIDE DEF V
  <2> QED BY <1>5, <2>1
<1> DEFINE g == [i \in 1 .. n |-> IF i = 1 THEN m ELSE q[i - 1]]
<1>8. ASSUME NEW i \in 1 .. (n - 1) PROVE q[i] \in U /\ q[i] \in Nat /\ m < q[i]
  <2>1. q[i] \in V
    BY <1>7, <1>8
  <2>2. q[i] \in U /\ q[i] # m /\ m <= q[i] /\ q[i] \in Nat /\ m \in Nat
    BY <1>4, <2>1
  <2> QED BY <2>2
<1>9. g \in [1 .. n -> U]
  BY <1>4, <1>8
<1>10. ASSUME NEW i \in 1 .. n, NEW j \in 1 .. n, i < j PROVE g[i] < g[j]
  <2>1. j - 1 \in 1 .. (n - 1) /\ g[j] = q[j - 1] /\ n \in Nat
    BY <1>5, <1>10
  <2>2. CASE i = 1
    BY <1>8, <2>1, <2>2
  <2>3. CASE i # 1
    <3>1. i - 1 \in 1 .. (n - 1) /\ g[i] = q[i - 1] /\ i - 1 < j - 1
      BY <1>5, <1>10, <2>3
    <3> QED
      BY <1>7, <2>1, <3>1
  <2> QED
    BY <2>2, <2>3
<1>11. Ordered(U)
  <2> HIDE DEF g
  <2> QED BY <1>2, <1>9, <1>10
<1> QED
  BY <1>2, <1>11

\* sort.Strings and the header give each server of the set once
\* (registry.go:50-64).
LEMMA InOrderOf ==
  ASSUME NEW S \in SUBSET Servers
  PROVE  Distinct(InOrder(S)) /\ \A i \in DOMAIN InOrder(S) : InOrder(S)[i] \in S
<1> DEFINE n == Cardinality(S)
           Sorted(q) == \A i, j \in 1 .. n : i < j => q[i] < q[j]
<1>1. IsFiniteSet(S) /\ S \in SUBSET Nat
  BY FS_Subset, RegistryAssumption
<1>2. n \in Nat
  BY <1>1, FS_CardinalityType
<1>3. \E q \in [1 .. n -> S] : Sorted(q)
  BY <1>1, OrderExists
<1>4. InOrder(S) \in [1 .. n -> S] /\ Sorted(InOrder(S))
  <2>1. InOrder(S) = CHOOSE q \in [1 .. n -> S] : Sorted(q)
    <3>1. \A q \in [1 .. n -> S] : DOMAIN q = 1 .. n
      OBVIOUS
    <3> QED BY <3>1 DEF InOrder
  <2> HIDE DEF Sorted, n
  <2> QED BY <1>3, <2>1
<1> DEFINE q == InOrder(S)
<1> HIDE DEF q
<1>5. q \in [1 .. n -> S] /\ \A i, j \in 1 .. n : i < j => q[i] < q[j]
  BY <1>4 DEF q
<1>6. q \in Seq(Servers) /\ DOMAIN q = 1 .. n /\ \A i \in 1 .. n : q[i] \in S /\ q[i] \in Nat
  <2> HIDE DEF n
  <2>1. DOMAIN q = 1 .. n /\ \A i \in 1 .. n : q[i] \in S /\ q[i] \in Nat
    BY <1>1, <1>5
  <2>2. q \in [1 .. n -> Servers]
    BY <1>5
  <2> QED
    BY <1>2, <2>1, <2>2
<1>7. \A i, j \in 1 .. n : q[i] = q[j] => i = j
  <2> HIDE DEF n
  <2> QED BY <1>2, <1>5, <1>6
<1> QED
  BY <1>6, <1>7 DEF Distinct, q

\* One step on, modulo n.
LEMMA NextModulo ==
  ASSUME NEW a \in Nat, NEW n \in Nat \ {0}
  PROVE  /\ a % n \in 0 .. (n - 1)
         /\ (a + 1) % n = IF a % n = n - 1 THEN 0 ELSE (a % n) + 1
<1> DEFINE q == a \div n
           r == a % n
           p == (a + 1) \div n
           s == (a + 1) % n
<1>1. q \in Nat /\ r \in 0 .. (n - 1) /\ a = n * q + r
  OBVIOUS
<1>2. p \in Nat /\ s \in 0 .. (n - 1) /\ a + 1 = n * p + s
  OBVIOUS
<1> HIDE DEF p, q, r, s
<1>3. n * p = n * q + (r + 1 - s)
  BY <1>1, <1>2
<1>4. CASE p = q
  BY <1>1, <1>2, <1>3, <1>4 DEF r, s
<1>5. CASE p >= q + 1
  <2>1. n * p >= n * (q + 1)
    BY <1>1, <1>2, <1>5
  <2>2. n * (q + 1) = n * q + n
    BY <1>1
  <2>3. r + 1 - s >= n
    BY <1>1, <1>2, <1>3, <2>1, <2>2
  <2> QED
    BY <1>1, <1>2, <2>3 DEF r, s
<1>6. CASE p + 1 <= q
  <2>1. n * q >= n * (p + 1)
    BY <1>1, <1>2, <1>6
  <2>2. n * (p + 1) = n * p + n
    BY <1>2
  <2> QED
    BY <1>1, <1>2, <1>3, <2>1, <2>2
<1> QED
  BY <1>1, <1>2, <1>4, <1>5, <1>6

USE RegistryAssumption DEF Nobody, MutexIsFree, registryVars, serverVars, listVars,
    askVars, vars

----------------------------------------------------------------------------
(* Helpers *)

\* The numbers that the timeouts give.
LEMMA TimeFacts ==
  /\ HeartbeatPeriod \in Nat
  /\ EnoughTime => HeartbeatPeriod < Timeout
  /\ MaxBeatAge \in Nat /\ MaxBeatAge = Timeout + MaxDelay + RefreshAfter
BY DEF HeartbeatPeriod, EnoughTime, MaxBeatAge

\* With a period short enough, a server with a running heartbeat is alive.
LEMMA BeatingAlive ==
  ASSUME NumbersType, HeartbeatInv, EnoughTime, NEW s \in beating
  PROVE  s \in items /\ Alive(s)
<1>1. s \in Servers /\ timer[s] \in Nat
  BY TimeFacts DEF NumbersType
<1>2. beatAge[s] \in Nat
  BY <1>1, TimeFacts DEF NumbersType
<1>3. s \in items /\ beatAge[s] + timer[s] <= HeartbeatPeriod
  BY DEF HeartbeatInv
<1> QED
  BY <1>1, <1>2, <1>3, TimeFacts DEF Alive

\* No answer yet is an answer without repetition.
LEMMA EmptyDistinct == Distinct(<<>>)
BY DEF Distinct

\* To hear of a server makes it younger than before.
LEMMA HeardFacts ==
  ASSUME NumbersType, NEW s \in Servers, Heard(s)
  PROVE  /\ beatAge' \in [Servers -> 0 .. MaxBeatAge] /\ items' \in SUBSET Servers
         /\ beatAge'[s] = 0 /\ s \in items' /\ items \subseteq items'
         /\ \A r \in Servers : beatAge'[r] <= beatAge[r] /\ (r # s => beatAge'[r] = beatAge[r])
<1>1. beatAge' = [beatAge EXCEPT ![s] = 0] /\ items' = items \cup {s}
  BY DEF Heard
<1>2. \A r \in Servers : beatAge[r] \in 0 .. MaxBeatAge /\ beatAge[r] \in Nat
  BY TimeFacts DEF NumbersType
<1>3. beatAge' \in [Servers -> 0 .. MaxBeatAge]
  BY <1>1, TimeFacts DEF NumbersType
<1> QED
  BY <1>1, <1>2, <1>3 DEF NumbersType

\* A list is as fresh as its servers are.
LEMMA YoungerIsFresh ==
  ASSUME IInv, beatAge' \in [Servers -> 0 .. MaxBeatAge],
         \A r \in Servers : beatAge'[r] <= beatAge[r],
         UNCHANGED <<list, listAge, given, answer, delay>>
  PROVE  FreshInv'
<1>1. \A r \in Servers : beatAge[r] \in Nat /\ beatAge'[r] \in Nat /\ beatAge'[r] <= beatAge[r]
  BY TimeFacts DEF IInv, NumbersType
<1>2. /\ \A i \in DOMAIN list : list[i] \in Servers
      /\ \A i \in DOMAIN answer : answer[i] \in Servers
  BY DEF IInv, ListsInv, Distinct
<1>3. delay \in Nat /\ listAge \in Nat
  BY DEF IInv, NumbersType
<1>4. ASSUME NEW i \in DOMAIN answer PROVE beatAge'[answer[i]] < Timeout + delay
  <2> DEFINE r == answer[i]
  <2>1. r \in Servers /\ beatAge[r] < Timeout + delay
    BY <1>2 DEF IInv, FreshInv
  <2> HIDE DEF r
  <2>2. beatAge'[r] < Timeout + delay
    BY <1>1, <1>3, <2>1
  <2> QED BY <2>2 DEF r
<1>5. ASSUME ListIsFresh, ~given, listAge < RefreshAfter, NEW i \in DOMAIN list
      PROVE  beatAge'[list[i]] < Timeout + MaxDelay + listAge
  <2> DEFINE r == list[i]
  <2>1. r \in Servers /\ beatAge[r] < Timeout + MaxDelay + listAge
    BY <1>2, <1>5 DEF ListIsFresh
  <2> HIDE DEF r
  <2>2. beatAge'[r] < Timeout + MaxDelay + listAge
    BY <1>1, <1>3, <2>1
  <2> QED BY <2>2 DEF r
<1> QED
  BY <1>4, <1>5 DEF IInv, FreshInv, ListIsFresh

\* Small numbers are what they are modulo n.
LEMMA SmallModulo ==
  ASSUME NEW n \in Nat \ {0}, NEW a \in 0 .. (n - 1)
  PROVE  a % n = a
<1> DEFINE q == a \div n
           r == a % n
<1>1. q \in Int /\ r \in 0 .. (n - 1) /\ a = n * q + r
  OBVIOUS
<1> HIDE DEF q, r
<1>2. CASE q = 0
  BY <1>1, <1>2 DEF r
<1>3. CASE q >= 1
  <2>1. n * q >= n * 1
    BY <1>1, <1>3
  <2> QED BY <1>1, <2>1
<1>4. CASE q <= -1
  <2>1. n * q <= n * (-1)
    BY <1>1, <1>4
  <2> QED BY <1>1, <2>1
<1> QED
  BY <1>1, <1>2, <1>3, <1>4

\* After one more pick the round has its next place, or is complete.
LEMMA RoundGoesOn ==
  ASSUME NEW n \in Nat \ {0}, NEW c \in 0 .. (n - 1), NEW d, NEW p, NEW q,
         \A i \in 0 .. (n - 1) : p[i] \in Nat,
         d = IF c = n - 1 THEN 0 ELSE c + 1,
         \A i \in 0 .. (n - 1) : q[i] = IF i = c THEN p[c] + 1 ELSE p[i],
         Even(p, n, c)
  PROVE  Even(q, n, d)
<1>1. PICK from \in 0 .. (n - 1) : \A i \in 0 .. (n - 1) :
             p[i] = IF Between(from, c, i) THEN p[c] + 1 ELSE p[c]
  BY DEF Even
<1>2. d \in 0 .. (n - 1) /\ p[c] \in Nat
  OBVIOUS
<1>3. CASE d = from
  <2>1. \A i \in 0 .. (n - 1) : i # c => Between(from, c, i)
    BY <1>3 DEF Between
  <2>2. \A i \in 0 .. (n - 1) : q[i] = p[c] + 1
    BY <1>1, <2>1
  <2>3. \A i \in 0 .. (n - 1) : ~Between(from, d, i)
    BY <1>2, <1>3 DEF Between
  <2> QED
    BY <1>2, <2>2, <2>3 DEF Even
<1>4. CASE d # from
  <2>1. \A i \in 0 .. (n - 1) : Between(from, d, i) <=> i = c \/ Between(from, c, i)
    BY <1>4 DEF Between
  <2>2. ~Between(from, d, d)
    BY <1>2 DEF Between
  <2>3. q[d] = p[c]
    BY <1>1, <1>2, <2>1, <2>2
  <2>4. \A i \in 0 .. (n - 1) : q[i] = IF Between(from, d, i) THEN q[d] + 1 ELSE q[d]
    BY <1>1, <2>1, <2>3
  <2> QED
    BY <2>4 DEF Even
<1> QED
  BY <1>3, <1>4

\* A new list has had no picks; the old one keeps its own.
LEMMA SetListEven ==
  ASSUME IInv, NEW new, Distinct(new), SetList(new), UNCHANGED index
  PROVE  EvenInv' /\ picks' \in [Servers -> 0 .. MaxPicks] /\ listAge' \in 0 .. RefreshAfter
<1>1. list' = new /\ listAge' = 0
      /\ picks' = IF new = list THEN picks ELSE [s \in Servers |-> 0]
  BY DEF SetList
<1>2. picks' \in [Servers -> 0 .. MaxPicks] /\ listAge' \in 0 .. RefreshAfter
  BY <1>1 DEF IInv, NumbersType
<1>3. CASE new = list
  <2>1. list' = list /\ picks' = picks /\ index' = index
    BY <1>1, <1>3
  <2>2. EvenInv' <=> EvenInv
    BY <2>1 DEF EvenInv, Counts, NextPlace
  <2> QED
    BY <1>2, <2>2 DEF IInv
<1>4. CASE new # list
  <2> SUFFICES ASSUME new # <<>> PROVE Even(Counts', Len(new), NextPlace')
    BY <1>1, <1>2 DEF EvenInv
  <2>1. /\ Len(new) \in Nat \ {0}
        /\ \A i \in 0 .. (Len(new) - 1) : new[i + 1] \in Servers
    BY DEF Distinct
  <2>2. index \in Nat
    BY DEF IInv, NumbersType
  <2> DEFINE n == Len(new)
             c == index % n
  <2>3. NextPlace' = c /\ c \in 0 .. (n - 1)
    BY <1>1, <2>1, <2>2, NextModulo DEF NextPlace
  <2>4. Counts' = [i \in 0 .. (n - 1) |-> 0]
    BY <1>1, <1>4, <2>1 DEF Counts
  <2> HIDE DEF n, c
  <2>5. \A i \in 0 .. (n - 1) : ~Between(c, c, i)
    BY <2>1, <2>3 DEF Between, n
  <2>6. Even([i \in 0 .. (n - 1) |-> 0], n, c)
    BY <2>3, <2>5 DEF Even
  <2> QED
    BY <2>3, <2>4, <2>6 DEF n
<1> QED
  BY <1>2, <1>3, <1>4

----------------------------------------------------------------------------
(* The steps *)

\* A server comes up and is heard of, or not.
LEMMA StartStep ==
  ASSUME IInv, NEW s \in Servers, Start(s)
  PROVE  IInv'
<1> USE DEF IInv, Start, Heard
<1>a. Heard(s) \/ UNCHANGED registryVars
  OBVIOUS
<1>b. \/ /\ beatAge' \in [Servers -> 0 .. MaxBeatAge] /\ items' \in SUBSET Servers
         /\ beatAge'[s] = 0 /\ s \in items' /\ items \subseteq items'
         /\ \A r \in Servers : /\ beatAge'[r] <= beatAge[r]
                               /\ r # s => beatAge'[r] = beatAge[r]
      \/ UNCHANGED registryVars
  BY <1>a, HeardFacts
<1>1. NumbersType'
  <2>1. HeartbeatPeriod \in 0 .. HeartbeatPeriod
    BY TimeFacts
  <2>2. timer' = [timer EXCEPT ![s] = HeartbeatPeriod]
    OBVIOUS
  <2>3. timer' \in [Servers -> 0 .. HeartbeatPeriod]
    BY <2>1, <2>2 DEF NumbersType
  <2> QED
    BY <1>b, <2>3 DEF NumbersType
<1>2. ListsInv'
  BY DEF ListsInv
<1>3. MutexInv'
  BY DEF MutexInv
<1>4. HeartbeatInv'
  <2> SUFFICES ASSUME NEW r \in beating'
               PROVE  beatAge'[r] + timer'[r] <= HeartbeatPeriod /\ (EnoughTime => r \in items')
    BY DEF HeartbeatInv
  <2>0. timer' = [timer EXCEPT ![s] = HeartbeatPeriod]
    OBVIOUS
  <2>1. r \in Servers /\ timer[r] \in Nat /\ HeartbeatPeriod \in Nat
    <3>1. r \in Servers
      BY <1>1 DEF NumbersType
    <3>2. timer \in [Servers -> 0 .. HeartbeatPeriod]
      BY DEF NumbersType
    <3> QED BY <3>1, <3>2, TimeFacts
  <2>2. CASE r = s
    BY <1>b, <2>0, <2>1, <2>2, HeardFacts DEF NumbersType
  <2>3. CASE r # s
    BY <1>b, <2>0, <2>1, <2>3 DEF HeartbeatInv, NumbersType
  <2> QED
    BY <2>2, <2>3
<1>5. FreshInv'
  <2>1. beatAge' \in [Servers -> 0 .. MaxBeatAge]
    BY <1>b DEF NumbersType
  <2>2. \A r \in Servers : beatAge'[r] <= beatAge[r]
    BY <1>b, TimeFacts DEF NumbersType
  <2> QED
    BY <2>1, <2>2, YoungerIsFresh
<1>6. EvenInv'
  BY DEF EvenInv, Counts, NextPlace
<1> QED
  BY <1>1, <1>2, <1>3, <1>4, <1>5, <1>6

\* A server ends.
LEMMA CrashStep ==
  ASSUME IInv, NEW s \in Servers, Crash(s)
  PROVE  IInv'
<1> USE DEF IInv, Crash
<1>1. NumbersType'
  BY DEF NumbersType, MaxBeatAge
<1>2. ListsInv'
  BY DEF ListsInv
<1>3. MutexInv'
  BY DEF MutexInv
<1>4. HeartbeatInv'
  BY DEF HeartbeatInv, NumbersType
<1>5. FreshInv'
  BY DEF FreshInv, ListIsFresh, ListsInv, Distinct, NumbersType, MutexInv
<1>6. EvenInv'
  BY DEF EvenInv, Counts, NextPlace
<1> QED
  BY <1>1, <1>2, <1>3, <1>4, <1>5, <1>6

\* A heartbeat, in time.
LEMMA BeatStep ==
  ASSUME IInv, NEW s \in Servers, Beat(s)
  PROVE  IInv'
<1> USE DEF IInv, Beat, Heard
<1>a. Heard(s) \/ UNCHANGED registryVars
  OBVIOUS
<1>b. \/ /\ beatAge' \in [Servers -> 0 .. MaxBeatAge] /\ items' \in SUBSET Servers
         /\ beatAge'[s] = 0 /\ s \in items' /\ items \subseteq items'
         /\ \A r \in Servers : /\ beatAge'[r] <= beatAge[r]
                               /\ r # s => beatAge'[r] = beatAge[r]
      \/ UNCHANGED registryVars
  BY <1>a, HeardFacts
<1>1. NumbersType'
  <2>1. HeartbeatPeriod \in 0 .. HeartbeatPeriod
    BY TimeFacts
  <2>2. timer' = [timer EXCEPT ![s] = HeartbeatPeriod]
    OBVIOUS
  <2>3. timer' \in [Servers -> 0 .. HeartbeatPeriod]
    BY <2>1, <2>2 DEF NumbersType
  <2> QED
    BY <1>b, <2>3 DEF NumbersType
<1>2. ListsInv'
  BY DEF ListsInv
<1>3. MutexInv'
  BY DEF MutexInv
<1>4. HeartbeatInv'
  <2> SUFFICES ASSUME NEW r \in beating'
               PROVE  beatAge'[r] + timer'[r] <= HeartbeatPeriod /\ (EnoughTime => r \in items')
    BY DEF HeartbeatInv
  <2>0. timer' = [timer EXCEPT ![s] = HeartbeatPeriod]
    OBVIOUS
  <2>1. r \in Servers /\ timer[r] \in Nat /\ HeartbeatPeriod \in Nat
    <3>1. r \in Servers
      BY <1>1 DEF NumbersType
    <3>2. timer \in [Servers -> 0 .. HeartbeatPeriod]
      BY DEF NumbersType
    <3> QED BY <3>1, <3>2, TimeFacts
  <2>2. CASE r = s
    BY <1>b, <2>0, <2>1, <2>2, HeardFacts DEF NumbersType
  <2>3. CASE r # s
    BY <1>b, <2>0, <2>1, <2>3 DEF HeartbeatInv, NumbersType
  <2> QED
    BY <2>2, <2>3
<1>5. FreshInv'
  <2>1. beatAge' \in [Servers -> 0 .. MaxBeatAge]
    BY <1>b DEF NumbersType
  <2>2. \A r \in Servers : beatAge'[r] <= beatAge[r]
    BY <1>b, TimeFacts DEF NumbersType
  <2> QED
    BY <2>1, <2>2, YoungerIsFresh
<1>6. EvenInv'
  BY DEF EvenInv, Counts, NextPlace
<1> QED
  BY <1>1, <1>2, <1>3, <1>4, <1>5, <1>6

\* The registry deletes what is dead.
LEMMA AliveServersStep ==
  ASSUME IInv, AliveServers
  PROVE  IInv'
<1> USE DEF IInv, AliveServers, AliveItems, Alive
<1>1. NumbersType'
  BY DEF NumbersType, MaxBeatAge
<1>2. ListsInv'
  BY DEF ListsInv
<1>3. MutexInv'
  BY DEF MutexInv
<1>4. HeartbeatInv'
  <2>1. items' = AliveItems /\ UNCHANGED <<beatAge, beating, timer>>
    OBVIOUS
  <2>2. EnoughTime => \A s \in beating : s \in AliveItems
    BY BeatingAlive
  <2> QED
    BY <2>1, <2>2 DEF HeartbeatInv
<1>5. FreshInv'
  BY DEF FreshInv, ListIsFresh, ListsInv, Distinct, NumbersType, MutexInv
<1>6. EvenInv'
  BY DEF EvenInv, Counts, NextPlace
<1> QED
  BY <1>1, <1>2, <1>3, <1>4, <1>5, <1>6

\* A getter has its list or asks for one.
LEMMA RefreshStep ==
  ASSUME IInv, NEW c \in Getters, Refresh(c)
  PROVE  IInv'
<1> USE DEF IInv, Refresh, RefreshSkipped
<1>1. NumbersType'
  BY DEF NumbersType, MaxBeatAge
<1>2. ListsInv'
  BY DEF ListsInv
<1>3. MutexInv'
  BY DEF MutexInv
<1>4. HeartbeatInv'
  BY DEF HeartbeatInv, NumbersType
<1>5. FreshInv'
  BY DEF FreshInv, ListIsFresh, ListsInv, Distinct, NumbersType, MutexInv
<1>6. EvenInv'
  BY DEF EvenInv, Counts, NextPlace
<1> QED
  BY <1>1, <1>2, <1>3, <1>4, <1>5, <1>6

\* The registry deletes what is dead and lists the rest.
LEMMA ToldStep ==
  ASSUME IInv, NEW c \in Getters, Told(c)
  PROVE  IInv'
<1> USE DEF IInv, Told, AliveItems, Alive
<1>1. NumbersType'
  BY DEF NumbersType, MaxBeatAge
<1>2. ListsInv'
  BY InOrderOf DEF ListsInv, NumbersType
<1>3. MutexInv'
  BY DEF MutexInv
<1>4. HeartbeatInv'
  <2>1. items' = AliveItems /\ UNCHANGED <<beatAge, beating, timer>>
    OBVIOUS
  <2>2. EnoughTime => \A s \in beating : s \in AliveItems
    BY BeatingAlive
  <2> QED
    BY <2>1, <2>2 DEF HeartbeatInv
<1>5. FreshInv'
  <2>1. \A i \in DOMAIN answer' : answer'[i] \in items /\ beatAge[answer'[i]] < Timeout
    BY InOrderOf DEF NumbersType
  <2>2. \A s \in items : beatAge[s] \in Nat
    BY TimeFacts DEF NumbersType
  <2>3. delay \in Nat
    BY DEF NumbersType
  <2>4. \A i \in DOMAIN answer' : beatAge'[answer'[i]] < Timeout + delay'
    BY <2>1, <2>2, <2>3
  <2> QED
    BY <2>4 DEF FreshInv, ListIsFresh
<1>6. EvenInv'
  BY DEF EvenInv, Counts, NextPlace
<1> QED
  BY <1>1, <1>2, <1>3, <1>4, <1>5, <1>6

\* Something else answers.
LEMMA ToldNothingStep ==
  ASSUME IInv, NEW c \in Getters, ToldNothing(c)
  PROVE  IInv'
<1> USE DEF IInv, ToldNothing
<1>1. NumbersType'
  BY DEF NumbersType, MaxBeatAge
<1>2. ListsInv'
  BY EmptyDistinct DEF ListsInv
<1>3. MutexInv'
  BY DEF MutexInv
<1>4. HeartbeatInv'
  BY DEF HeartbeatInv, NumbersType
<1>5. FreshInv'
  BY DEF FreshInv, ListIsFresh, ListsInv, Distinct, NumbersType, MutexInv
<1>6. EvenInv'
  BY DEF EvenInv, Counts, NextPlace
<1> QED
  BY <1>1, <1>2, <1>3, <1>4, <1>5, <1>6

\* The answer is the list.
LEMMA RefreshedStep ==
  ASSUME IInv, NEW c \in Getters, Refreshed(c)
  PROVE  IInv'
<1> USE DEF IInv, Refreshed, SetList, Unlock
<1>1. NumbersType'
  <2>1. picks' \in [Servers -> 0 .. MaxPicks] /\ listAge' \in 0 .. RefreshAfter
    BY SetListEven DEF ListsInv
  <2>2. delay' \in 0 .. MaxDelay /\ given' \in BOOLEAN
    <3>1. delay' = 0 /\ given' = FALSE
      OBVIOUS
    <3>2. 0 \in 0 .. MaxDelay
      BY RegistryAssumption
    <3> QED BY <3>1, <3>2
  <2> QED
    BY <2>1, <2>2 DEF NumbersType, MaxBeatAge, HeartbeatPeriod
<1>2. ListsInv'
  BY EmptyDistinct DEF ListsInv
<1>3. MutexInv'
  BY DEF MutexInv
<1>4. HeartbeatInv'
  BY DEF HeartbeatInv, NumbersType
<1>5. FreshInv'
  <2>1. list' = answer /\ listAge' = 0 /\ answer' = <<>> /\ beatAge' = beatAge
    OBVIOUS
  <2>2. delay \in Nat /\ delay <= MaxDelay
    BY DEF NumbersType
  <2>3. ASSUME NEW i \in DOMAIN answer PROVE beatAge[answer[i]] < Timeout + MaxDelay + 0
    <3> DEFINE r == answer[i]
    <3>1. r \in Servers /\ beatAge[r] < Timeout + delay
      BY DEF ListsInv, Distinct, FreshInv
    <3> HIDE DEF r
    <3>2. beatAge[r] \in Nat
      BY <3>1, TimeFacts DEF NumbersType
    <3>3. beatAge[r] < Timeout + MaxDelay + 0
      BY <2>2, <3>1, <3>2
    <3> QED BY <3>3 DEF r
  <2>4. \A i \in DOMAIN list' : beatAge'[list'[i]] < Timeout + MaxDelay + listAge'
    BY <2>1, <2>3
  <2> QED
    BY <2>1, <2>4 DEF FreshInv, ListIsFresh
<1>6. EvenInv'
  BY SetListEven DEF ListsInv
<1> QED
  BY <1>1, <1>2, <1>3, <1>4, <1>5, <1>6

\* There is no answer.
LEMMA RefreshFailsStep ==
  ASSUME IInv, NEW c \in Getters, RefreshFails(c)
  PROVE  IInv'
<1> USE DEF IInv, RefreshFails, Unlock
<1>1. NumbersType'
  BY DEF NumbersType, MaxBeatAge
<1>2. ListsInv'
  BY EmptyDistinct DEF ListsInv
<1>3. MutexInv'
  BY DEF MutexInv
<1>4. HeartbeatInv'
  BY DEF HeartbeatInv, NumbersType
<1>5. FreshInv'
  BY DEF FreshInv, ListIsFresh, ListsInv, Distinct, NumbersType, MutexInv
<1>6. EvenInv'
  BY DEF EvenInv, Counts, NextPlace
<1> QED
  BY <1>1, <1>2, <1>3, <1>4, <1>5, <1>6

\* A getter picks the next server.
LEMMA RoundRobinStep ==
  ASSUME IInv, NEW c \in Getters, RoundRobin(c)
  PROVE  IInv'
<1> USE DEF IInv, RoundRobin, NextIndex
<1> DEFINE n == Len(list)
           s == list[(index % n) + 1]
<1>a. /\ n \in Nat \ {0} /\ index \in Nat /\ DOMAIN list = 1 .. n
      /\ \A i \in 0 .. (n - 1) : list[i + 1] \in Servers
      /\ \A i, j \in 0 .. (n - 1) : list[i + 1] = list[j + 1] => i = j
  <2>1. /\ list \in Seq(Servers) /\ list # <<>> /\ index \in Nat
        /\ \A i, j \in DOMAIN list : list[i] = list[j] => i = j
    BY DEF NumbersType, ListsInv, Distinct
  <2> HIDE DEF IInv, RoundRobin
  <2>2. n \in Nat \ {0} /\ DOMAIN list = 1 .. n
    BY <2>1
  <2> HIDE DEF n
  <2>3. \A i \in 0 .. (n - 1) : i + 1 \in DOMAIN list
    BY <2>2
  <2>4. \A i \in 0 .. (n - 1) : list[i + 1] \in Servers
    BY <2>1, <2>3
  <2>5. \A i, j \in 0 .. (n - 1) : list[i + 1] = list[j + 1] => i = j
    BY <2>1, <2>2, <2>3
  <2> QED
    BY <2>1, <2>2, <2>4, <2>5
<1>b. /\ index % n \in 0 .. (n - 1)
      /\ (index + 1) % n = IF index % n = n - 1 THEN 0 ELSE (index % n) + 1
  BY <1>a, NextModulo
<1>c. s \in Servers /\ picks[s] \in Nat /\ picks[s] < MaxPicks
      /\ picks' = [picks EXCEPT ![s] = @ + 1] /\ index' = (index + 1) % n
  <2>1. /\ picks[s] < MaxPicks /\ index' = (index + 1) % n
        /\ picks' = [picks EXCEPT ![s] = @ + 1]
    OBVIOUS
  <2>2. picks \in [Servers -> 0 .. MaxPicks]
    BY DEF NumbersType
  <2> HIDE DEF IInv, RoundRobin, NextIndex
  <2>3. s \in Servers
    BY <1>a, <1>b
  <2> HIDE DEF n, s
  <2>4. picks[s] \in Nat
    BY <2>2, <2>3
  <2> QED
    BY <2>1, <2>3, <2>4
<1>1. NumbersType'
  <2> HIDE DEF n, s
  <2>1. picks[s] + 1 \in 0 .. MaxPicks /\ index' \in Nat
    <3> HIDE DEF IInv, RoundRobin, NextIndex
    <3>1. picks[s] + 1 \in 0 .. MaxPicks
      BY <1>c, RegistryAssumption
    <3>2. (index + 1) % n \in Nat
      BY <1>a, <1>b
    <3> QED
      BY <1>c, <3>1, <3>2
  <2>2. picks' \in [Servers -> 0 .. MaxPicks]
    BY <1>c, <2>1 DEF NumbersType
  <2> QED
    BY <2>1, <2>2 DEF NumbersType
<1>2. ListsInv'
  BY DEF ListsInv
<1>3. MutexInv'
  BY DEF MutexInv
<1>4. HeartbeatInv'
  BY DEF HeartbeatInv, NumbersType
<1>5. FreshInv'
  BY DEF FreshInv, ListIsFresh, ListsInv, Distinct, NumbersType, MutexInv
<1>6. EvenInv'
  <2> DEFINE to == index % n
             d == (index + 1) % n
             p == Counts
             q == Counts'
  <2>1. list' = list /\ list # <<>> /\ Even(p, n, to)
    BY DEF EvenInv, NextPlace
  <2>2. NextPlace' = d
    <3>1. d \in 0 .. (n - 1)
      BY <1>a, <1>b
    <3> HIDE DEF d
    <3>2. d % n = d
      BY <1>a, <3>1, SmallModulo
    <3>3. NextPlace' = d % n
      BY <1>c, <2>1 DEF NextPlace, d
    <3> QED
      BY <3>2, <3>3
  <2>3. ASSUME NEW i \in 0 .. (n - 1) PROVE p[i] = picks[list[i + 1]] /\ p[i] \in Nat
    <3> DEFINE r == list[i + 1]
    <3>1. r \in Servers /\ p[i] = picks[r]
      BY <1>a DEF Counts
    <3> HIDE DEF r
    <3>2. picks[r] \in Nat
      BY <3>1 DEF NumbersType
    <3> QED BY <3>1, <3>2 DEF r
  <2>4. \A i \in 0 .. (n - 1) : q[i] = IF i = to THEN p[to] + 1 ELSE p[i]
    <3> SUFFICES ASSUME NEW i \in 0 .. (n - 1)
                 PROVE  q[i] = IF i = to THEN p[to] + 1 ELSE p[i]
      OBVIOUS
    <3>1. q[i] = picks'[list[i + 1]]
      BY <2>1 DEF Counts
    <3>2. list[i + 1] \in Servers /\ (list[i + 1] = s <=> i = to)
      BY <1>a, <1>b
    <3>3. picks'[list[i + 1]] = IF list[i + 1] = s THEN picks[s] + 1 ELSE picks[list[i + 1]]
      BY <1>c, <3>2 DEF NumbersType
    <3>4. p[to] = picks[s] /\ p[i] = picks[list[i + 1]]
      BY <1>b, <2>3
    <3> HIDE DEF p, q, to, s
    <3> QED
      BY <3>1, <3>2, <3>3, <3>4
  <2> HIDE DEF n, s, to, d, p, q
  <2>5. n \in Nat \ {0} /\ to \in 0 .. (n - 1) /\ d = IF to = n - 1 THEN 0 ELSE to + 1
    BY <1>a, <1>b DEF to, d
  <2>6. Even(q, n, d)
    BY <2>1, <2>3, <2>4, <2>5, RoundGoesOn
  <2> QED
    BY <2>1, <2>2, <2>6 DEF EvenInv, n, q
<1> QED
  BY <1>1, <1>2, <1>3, <1>4, <1>5, <1>6

\* Somebody gives another list.
LEMMA UpdateStep ==
  ASSUME IInv, NEW S \in SUBSET Servers, Update(S)
  PROVE  IInv'
<1> USE DEF IInv, Update, SetList
<1>1. NumbersType'
  BY DEF NumbersType, MaxBeatAge
<1>2. ListsInv'
  BY InOrderOf DEF ListsInv
<1>3. MutexInv'
  BY DEF MutexInv
<1>4. HeartbeatInv'
  BY DEF HeartbeatInv, NumbersType
<1>5. FreshInv'
  BY DEF FreshInv, ListIsFresh, ListsInv, Distinct, NumbersType, MutexInv
<1>6. EvenInv'
  BY InOrderOf, SetListEven
<1> QED
  BY <1>1, <1>2, <1>3, <1>4, <1>5, <1>6

\* Time goes on.
LEMMA TickStep ==
  ASSUME IInv, Tick
  PROVE  IInv'
<1> USE DEF IInv, Tick, AtMost
<1>1. NumbersType'
  <2>1. beatAge' \in [Servers -> 0 .. MaxBeatAge]
    BY TimeFacts DEF NumbersType
  <2>2. timer' \in [Servers -> 0 .. HeartbeatPeriod]
    BY TimeFacts DEF NumbersType
  <2>3. listAge' \in 0 .. RefreshAfter
    BY DEF NumbersType
  <2>4. delay' \in 0 .. MaxDelay
    BY DEF NumbersType
  <2> QED
    BY <2>1, <2>2, <2>3, <2>4 DEF NumbersType
<1>2. ListsInv'
  BY DEF ListsInv
<1>3. MutexInv'
  BY DEF MutexInv
<1>4. HeartbeatInv'
  <2> SUFFICES ASSUME NEW r \in beating
               PROVE  beatAge'[r] + timer'[r] <= HeartbeatPeriod /\ (EnoughTime => r \in items)
    BY DEF HeartbeatInv
  <2>1. /\ r \in Servers /\ beatAge[r] \in Nat /\ timer[r] \in Nat \ {0}
        /\ HeartbeatPeriod \in Nat /\ MaxBeatAge \in Nat
    BY TimeFacts DEF NumbersType
  <2>2. timer'[r] = timer[r] - 1 /\ beatAge'[r] \in Nat /\ beatAge'[r] <= beatAge[r] + 1
    BY <2>1
  <2>3. beatAge[r] + timer[r] <= HeartbeatPeriod /\ (EnoughTime => r \in items)
    BY DEF HeartbeatInv
  <2> QED
    BY <2>1, <2>2, <2>3
<1>5. FreshInv'
  <2>1. \A r \in Servers : /\ beatAge[r] \in Nat /\ beatAge'[r] \in Nat
                          /\ beatAge'[r] <= beatAge[r] + 1
    BY TimeFacts DEF NumbersType
  <2>2. /\ \A i \in DOMAIN list : list[i] \in Servers
        /\ \A i \in DOMAIN answer : answer[i] \in Servers
    BY DEF ListsInv, Distinct
  <2>3. delay \in Nat /\ listAge \in Nat
    BY DEF NumbersType
  <2>4. \A i \in DOMAIN answer : beatAge'[answer[i]] < Timeout + delay'
    <3>1. CASE MutexIsFree
      <4>1. answer = <<>>
        BY <3>1 DEF MutexInv
      <4> QED BY <4>1
    <3>2. CASE ~MutexIsFree
      <4> SUFFICES ASSUME NEW i \in DOMAIN answer PROVE beatAge'[answer[i]] < Timeout + delay'
        OBVIOUS
      <4> DEFINE r == answer[i]
      <4>1. r \in Servers /\ beatAge[r] < Timeout + delay
        BY <2>2 DEF FreshInv
      <4>2. delay' = delay + 1
        BY <3>2
      <4> HIDE DEF r
      <4>3. beatAge'[r] < Timeout + delay'
        BY <2>1, <2>3, <4>1, <4>2
      <4> QED BY <4>3 DEF r
    <3> QED BY <3>1, <3>2
  <2>5. ListIsFresh'
    <3> SUFFICES ASSUME ~given, listAge' < RefreshAfter, NEW i \in DOMAIN list
                 PROVE  beatAge'[list[i]] < Timeout + MaxDelay + listAge'
      BY DEF ListIsFresh
    <3>1. listAge' = listAge + 1 /\ listAge < RefreshAfter
      BY <2>3
    <3> DEFINE r == list[i]
    <3>2. r \in Servers /\ beatAge[r] < Timeout + MaxDelay + listAge
      BY <2>2, <3>1 DEF FreshInv, ListIsFresh
    <3> HIDE DEF r
    <3>3. beatAge'[r] < Timeout + MaxDelay + listAge'
      BY <2>1, <2>2, <2>3, <3>1, <3>2
    <3> QED BY <3>3 DEF r
  <2> QED
    BY <2>4, <2>5 DEF FreshInv
<1>6. EvenInv'
  BY DEF EvenInv, Counts, NextPlace
<1> QED
  BY <1>1, <1>2, <1>3, <1>4, <1>5, <1>6

\* Nothing that matters here changes.
LEMMA OtherStep ==
  ASSUME IInv, (\E c \in Getters : OtherGet(c)) \/ NetworkFails \/ NetworkRecovers \/ UNCHANGED vars
  PROVE  IInv'
<1> USE DEF IInv, OtherGet, NetworkFails, NetworkRecovers
<1>1. NumbersType'
  BY DEF NumbersType, MaxBeatAge
<1>2. ListsInv'
  BY DEF ListsInv
<1>3. MutexInv'
  BY DEF MutexInv
<1>4. HeartbeatInv'
  BY DEF HeartbeatInv, NumbersType
<1>5. FreshInv'
  BY DEF FreshInv, ListIsFresh, ListsInv, Distinct, NumbersType, MutexInv
<1>6. EvenInv'
  BY DEF EvenInv, Counts, NextPlace
<1> QED
  BY <1>1, <1>2, <1>3, <1>4, <1>5, <1>6

----------------------------------------------------------------------------
(* The theorems *)

LEMMA InitInv == Init => IInv
<1> SUFFICES ASSUME Init PROVE IInv
  OBVIOUS
<1> USE DEF Init
<1>1. Cardinality(Servers) \in Nat
  BY FS_CardinalityType
<1>2. NumbersType
  <2>1. index \in Nat /\ listAge \in 0 .. RefreshAfter /\ delay \in 0 .. MaxDelay
    BY <1>1
  <2>2. /\ beatAge \in [Servers -> 0 .. MaxBeatAge]
        /\ timer \in [Servers -> 0 .. HeartbeatPeriod]
        /\ picks \in [Servers -> 0 .. MaxPicks]
    BY TimeFacts
  <2> QED
    BY <2>1, <2>2 DEF NumbersType
<1>3. ListsInv
  BY EmptyDistinct DEF ListsInv
<1>4. MutexInv
  BY DEF MutexInv
<1>5. HeartbeatInv
  BY DEF HeartbeatInv
<1>6. FreshInv
  BY DEF FreshInv, ListIsFresh
<1>7. EvenInv
  BY DEF EvenInv
<1> QED
  BY <1>2, <1>3, <1>4, <1>5, <1>6, <1>7 DEF IInv

LEMMA NextInv == IInv /\ [Next]_vars => IInv'
<1> SUFFICES ASSUME IInv, [Next]_vars PROVE IInv'
  OBVIOUS
<1>1. CASE \E s \in Servers : Start(s) \/ Crash(s) \/ Beat(s)
  BY <1>1, StartStep, CrashStep, BeatStep
<1>2. CASE AliveServers
  BY <1>2, AliveServersStep
<1>3. CASE \E c \in Getters : Refresh(c) \/ Told(c) \/ ToldNothing(c) \/ Refreshed(c)
                              \/ RefreshFails(c) \/ RoundRobin(c)
  BY <1>3, RefreshStep, ToldStep, ToldNothingStep, RefreshedStep, RefreshFailsStep,
     RoundRobinStep
<1>4. CASE \E S \in SUBSET Servers : Update(S)
  BY <1>4, UpdateStep
<1>5. CASE Tick
  BY <1>5, TickStep
<1>6. CASE (\E c \in Getters : OtherGet(c)) \/ NetworkFails \/ NetworkRecovers \/ UNCHANGED vars
  BY <1>6, OtherStep
<1> QED
  <2> HIDE DEF registryVars, serverVars, listVars, askVars, vars
  <2> QED
    BY <1>1, <1>2, <1>3, <1>4, <1>5, <1>6 DEF Next

\* The inductive invariant: the time to the next heartbeat, the age of the
\* servers in the list and in the answer, and how far round robin has come.
THEOREM IInvCorrect == Spec => []IInv
<1> HIDE DEF registryVars, serverVars, listVars, askVars, vars
<1> QED
  BY InitInv, NextInv, PTL DEF Spec

\* The state of the registry and the discovery has its type, and only the getter
\* that asks holds the mutex (registry.go:15-25, discovery_gee.go:8-13).
THEOREM TypeCorrect == Spec => []TypeOK
<1>1. IInv => TypeOK
  BY DEF IInv, NumbersType, ListsInv, Distinct, MutexInv, TypeOK
<1> QED
  BY <1>1, IInvCorrect, PTL

\* If the registry waits longer than the period of the heartbeats, a server with
\* a running heartbeat is in the registry, and alive there (registry.go:50-64,
\* 95-110).
THEOREM BeatingIsListedCorrect == Spec => []BeatingIsListed
<1>1. IInv => BeatingIsListed
  <2> SUFFICES ASSUME IInv, EnoughTime, NEW s \in beating
               PROVE  s \in items /\ Alive(s)
    BY DEF BeatingIsListed
  <2> QED
    BY BeatingAlive DEF IInv
<1> QED
  BY <1>1, IInvCorrect, PTL

\* A list from the registry that Refresh() leaves alone names only servers heard
\* of within the two timeouts (registry.go:50-64, discovery_gee.go:41-62).
THEOREM ListIsFreshCorrect == Spec => []ListIsFresh
<1>1. IInv => ListIsFresh
  BY DEF IInv, FreshInv
<1> QED
  BY <1>1, IInvCorrect, PTL

\* Round robin is fair to any number of servers whoever takes turns
\* (discovery.go:57-75).
THEOREM PicksAreEvenCorrect == Spec => []PicksAreEven
<1>1. IInv => PicksAreEven
  <2> SUFFICES ASSUME IInv, NEW i \in DOMAIN list, NEW j \in DOMAIN list
               PROVE  picks[list[i]] <= picks[list[j]] + 1
    BY DEF PicksAreEven
  <2> DEFINE n == Len(list)
             c == NextPlace
             p == Counts
  <2>1. n \in Nat \ {0} /\ i \in 1 .. n /\ j \in 1 .. n /\ list # <<>>
        /\ index \in Nat /\ \A k \in 1 .. n : list[k] \in Servers
    BY DEF IInv, NumbersType, ListsInv, Distinct
  <2>2. c \in 0 .. (n - 1)
    BY <2>1, NextModulo DEF NextPlace
  <2>3. ASSUME NEW k \in 1 .. n PROVE p[k - 1] = picks[list[k]] /\ p[k - 1] \in Nat
    <3> DEFINE r == list[k]
    <3>1. r \in Servers /\ p[k - 1] = picks[r]
      BY <2>1 DEF Counts
    <3> HIDE DEF r
    <3>2. picks[r] \in Nat
      BY <3>1 DEF IInv, NumbersType
    <3> QED BY <3>1, <3>2 DEF r
  <2>4. Even(p, n, c)
    BY <2>1 DEF IInv, EvenInv
  <2>5. p[c] \in Nat
    <3>1. c + 1 \in 1 .. n /\ (c + 1) - 1 = c
      BY <2>1, <2>2
    <3> HIDE DEF p, c, n
    <3> QED BY <2>3, <3>1
  <2> HIDE DEF n, c, p
  <2>6. \A k \in 1 .. n : p[k - 1] = p[c] \/ p[k - 1] = p[c] + 1
    BY <2>1, <2>4 DEF Even
  <2> QED
    BY <2>1, <2>3, <2>5, <2>6
<1> QED
  BY <1>1, IInvCorrect, PTL

=============================================================================
