--------------------------- MODULE LruCacheProofs ---------------------------
(***************************************************************************)
(* The list, the map and the byte count of lru.Cache agree, and what it    *)
(* holds is what was used last and fits, proved for any keys, values and   *)
(* bound.                                                                  *)
(***************************************************************************)
EXTENDS LruCache, SequenceTheorems, WellFoundedInduction, TLAPS

ListInv == TypeOK /\ Accounted

\* Only while Add purges is there too much.
FitsInv == purging \/ ~OverLimit

IInv == ListInv /\ FitsInv

----------------------------------------------------------------------------
(* The sum of sizes *)

\* Every set of numbers has a least element.
LEMMA LeastNat ==
  ASSUME NEW T, T \subseteq Nat, T # {}
  PROVE  \E x \in T : \A y \in T : x <= y
<1> DEFINE R == {ss \in Nat \X Nat : ss[1] < ss[2]}
<1>1. IsWellFoundedOn(R, Nat)
  BY NatLessThanWellFounded DEF OpToRel
<1>2. PICK x \in T : \A y \in T : <<y, x>> \notin R
  <2> HIDE DEF R
  <2> QED BY <1>1, WFMin
<1>3. \A y \in T : ~(y < x)
  BY <1>2
<1> QED BY <1>3

\* The function by which FoldLeft is defined.
More(sum, e) == sum + Size(e)
LastOf(t) == CHOOSE x \in t : \A y \in t : x >= y
IterOf(s, n, g) ==
  g = [t \in SUBSET (1 .. n) |->
         IF t = {} THEN 0 ELSE More(g[t \ {LastOf(t)}], s[LastOf(t)])]

LEMMA TotalIsIter ==
  ASSUME NEW s, NEW n, DOMAIN s = 1 .. n
  PROVE  Total(s) = (CHOOSE g : IterOf(s, n, g))[1 .. n]
BY DEF Total, FoldLeft, MapThenFoldSet, IterOf, LastOf, Max, More

\* There is such a function for each n: a least n without one would have it from
\* the function for n - 1.
LEMMA IterExists ==
  ASSUME NEW s, NEW n \in Nat
  PROVE  \E g : IterOf(s, n, g)
<1> DEFINE Bad == {m \in Nat : ~\E g : IterOf(s, m, g)}
<1> SUFFICES ASSUME Bad # {} PROVE FALSE
  OBVIOUS
<1>1. PICK m \in Bad : \A k \in Bad : m <= k
  <2>1. Bad \subseteq Nat
    OBVIOUS
  <2> HIDE DEF Bad
  <2> QED BY <2>1, LeastNat
<1>2. m # 0
  <2>1. IterOf(s, 0, [t \in SUBSET (1 .. 0) |-> 0])
    <3>1. \A t \in SUBSET (1 .. 0) : t = {}
      OBVIOUS
    <3> QED BY <3>1 DEF IterOf
  <2> QED BY <2>1
<1> DEFINE k == m - 1
<1>3. k \in Nat /\ k \notin Bad /\ m = k + 1 /\ k + 1 \in Nat
  BY <1>1, <1>2
<1>4. PICK g : IterOf(s, k, g)
  BY <1>3
<1> HIDE DEF k
<1> DEFINE h == [t \in SUBSET (1 .. (k + 1)) |->
                   IF k + 1 \in t THEN More(g[t \ {k + 1}], s[k + 1]) ELSE g[t]]
<1>5. ASSUME NEW t \in SUBSET (1 .. (k + 1))
      PROVE  h[t] = IF t = {} THEN 0 ELSE More(h[t \ {LastOf(t)}], s[LastOf(t)])
  <2>1. CASE k + 1 \in t
    <3>1. LastOf(t) = k + 1
      <4>1. \A x \in t : x \in Int /\ k + 1 >= x
        BY <1>3
      <4>2. \A x \in t : (\A y \in t : x >= y) => x = k + 1
        BY <1>3, <2>1, <4>1
      <4> QED BY <2>1, <4>1, <4>2 DEF LastOf
    <3>2. t \ {k + 1} \in SUBSET (1 .. k) /\ t \ {k + 1} \in SUBSET (1 .. (k + 1))
          /\ k + 1 \notin t \ {k + 1}
      BY <1>3
    <3>3. h[t \ {k + 1}] = g[t \ {k + 1}]
      BY <3>2
    <3> QED
      BY <2>1, <3>1, <3>3
  <2>2. CASE k + 1 \notin t
    <3>1. t \in SUBSET (1 .. k)
      BY <1>3, <2>2
    <3>2. g[t] = IF t = {} THEN 0 ELSE More(g[t \ {LastOf(t)}], s[LastOf(t)])
      <4> DEFINE body(u) == IF u = {} THEN 0
                                      ELSE More(g[u \ {LastOf(u)}], s[LastOf(u)])
      <4>1. g = [u \in SUBSET (1 .. k) |-> body(u)]
        BY <1>4 DEF IterOf
      <4> HIDE DEF body
      <4>2. g[t] = body(t)
        BY <3>1, <4>1
      <4> QED BY <4>2 DEF body
    <3>3. t \ {LastOf(t)} \in SUBSET (1 .. (k + 1)) /\ k + 1 \notin t \ {LastOf(t)}
      BY <2>2
    <3>4. h[t] = g[t] /\ h[t \ {LastOf(t)}] = g[t \ {LastOf(t)}]
      BY <2>2, <3>3
    <3> QED
      BY <3>2, <3>4
  <2> QED
    BY <2>1, <2>2
<1>6. IterOf(s, m, h)
  <2> DEFINE body(t) == IF t = {} THEN 0
                                  ELSE More(h[t \ {LastOf(t)}], s[LastOf(t)])
  <2>1. \A t \in SUBSET (1 .. (k + 1)) : h[t] = body(t)
    BY <1>5
  <2>2. h = [t \in SUBSET (1 .. (k + 1)) |-> h[t]]
    OBVIOUS
  <2> HIDE DEF h, body
  <2>3. h = [t \in SUBSET (1 .. (k + 1)) |-> body(t)]
    BY <2>1, <2>2
  <2> QED
    BY <1>3, <2>3 DEF IterOf, body
<1> QED
  BY <1>1, <1>6

\* It adds the sizes in order.
LEMMA IterValue ==
  ASSUME NEW s, NEW n \in Nat, NEW g, IterOf(s, n, g)
  PROVE  /\ g[{}] = 0
         /\ \A k \in 0 .. (n - 1) : g[1 .. (k + 1)] = More(g[1 .. k], s[k + 1])
<1> DEFINE body(t) == IF t = {} THEN 0 ELSE More(g[t \ {LastOf(t)}], s[LastOf(t)])
<1>1. g = [t \in SUBSET (1 .. n) |-> body(t)]
  BY DEF IterOf
<1>2. \A t \in SUBSET (1 .. n) : g[t] = body(t)
  <2> HIDE DEF body
  <2> QED BY <1>1
<1>3. g[{}] = 0
  BY <1>2
<1>4. ASSUME NEW k \in 0 .. (n - 1)
      PROVE  g[1 .. (k + 1)] = More(g[1 .. k], s[k + 1])
  <2>1. 1 .. (k + 1) \in SUBSET (1 .. n) /\ 1 .. (k + 1) # {}
    OBVIOUS
  <2>2. LastOf(1 .. (k + 1)) = k + 1
    BY DEF LastOf
  <2>3. (1 .. (k + 1)) \ {k + 1} = 1 .. k
    OBVIOUS
  <2> QED
    BY <1>2, <2>1, <2>2, <2>3
<1> QED
  BY <1>3, <1>4

\* Nothing has no size, and one more entry adds its own.
LEMMA TotalNone == Total(<<>>) = 0
<1> DEFINE g == CHOOSE g : IterOf(<<>>, 0, g)
<1>1. Total(<<>>) = g[1 .. 0]
  BY TotalIsIter
<1>2. IterOf(<<>>, 0, g)
  BY IterExists
<1> HIDE DEF g
<1>3. g[{}] = 0
  BY <1>2, IterValue
<1>4. 1 .. 0 = {}
  OBVIOUS
<1> QED
  BY <1>1, <1>3, <1>4

LEMMA IterAgree ==
  ASSUME NEW s, NEW r, NEW n \in Nat, NEW g, NEW h,
         IterOf(s, n, g), IterOf(r, n + 1, h), \A i \in 1 .. n : r[i] = s[i]
  PROVE  h[1 .. (n + 1)] = More(g[1 .. n], r[n + 1])
<1>1. g[{}] = 0 /\ \A k \in 0 .. (n - 1) : g[1 .. (k + 1)] = More(g[1 .. k], s[k + 1])
  BY IterValue
<1>2. h[{}] = 0 /\ \A k \in 0 .. n : h[1 .. (k + 1)] = More(h[1 .. k], r[k + 1])
  <2>1. (n + 1) - 1 = n /\ n + 1 \in Nat
    OBVIOUS
  <2>2. /\ h[{}] = 0
        /\ \A k \in 0 .. ((n + 1) - 1) : h[1 .. (k + 1)] = More(h[1 .. k], r[k + 1])
    <3> DEFINE m == n + 1
    <3>1. IterOf(r, m, h) /\ m \in Nat
      BY <2>1
    <3> HIDE DEF m
    <3>2. h[{}] = 0 /\ \A k \in 0 .. (m - 1) : h[1 .. (k + 1)] = More(h[1 .. k], r[k + 1])
      BY <3>1, IterValue
    <3> QED BY <3>2 DEF m
  <2> QED BY <2>1, <2>2
<1>3. \A k \in 0 .. n : g[1 .. k] = h[1 .. k]
  <2> DEFINE Bad == {k \in 0 .. n : g[1 .. k] # h[1 .. k]}
  <2> SUFFICES ASSUME Bad # {} PROVE FALSE
    OBVIOUS
  <2>1. PICK m \in Bad : \A k \in Bad : m <= k
    <3>1. Bad \subseteq Nat
      OBVIOUS
    <3> HIDE DEF Bad
    <3> QED BY <3>1, LeastNat
  <2>2. m # 0
    <3>1. 1 .. 0 = {}
      OBVIOUS
    <3> QED BY <1>1, <1>2, <3>1
  <2> DEFINE k == m - 1
  <2>3. k \in 0 .. (n - 1) /\ k \in 0 .. n /\ k + 1 = m /\ k + 1 \in 1 .. n
    BY <2>2
  <2>4. k \notin Bad
    BY <2>1, <2>3
  <2> HIDE DEF k
  <2>5. g[1 .. k] = h[1 .. k]
    BY <2>3, <2>4
  <2>6. g[1 .. (k + 1)] = h[1 .. (k + 1)]
    BY <1>1, <1>2, <2>3, <2>5
  <2> QED
    BY <2>3, <2>6
<1> QED
  BY <1>2, <1>3

LEMMA TotalOne ==
  ASSUME NEW S, NEW s \in Seq(S), NEW e \in S
  PROVE  Total(Append(s, e)) = Total(s) + Size(e)
<1> DEFINE n == Len(s)
           r == Append(s, e)
           g == CHOOSE g : IterOf(s, n, g)
           h == CHOOSE h : IterOf(r, n + 1, h)
<1>1. n \in Nat /\ DOMAIN s = 1 .. n /\ DOMAIN r = 1 .. (n + 1) /\ r[n + 1] = e
      /\ \A i \in 1 .. n : r[i] = s[i]
  OBVIOUS
<1> HIDE DEF n, r
<1>2. Total(s) = g[1 .. n] /\ Total(r) = h[1 .. (n + 1)]
  BY <1>1, TotalIsIter
<1>3. IterOf(s, n, g) /\ IterOf(r, n + 1, h)
  <2>1. n \in Nat /\ n + 1 \in Nat
    BY <1>1
  <2>2. (\E f : IterOf(s, n, f)) /\ (\E f : IterOf(r, n + 1, f))
    BY <2>1, IterExists
  <2> QED BY <2>2
<1> HIDE DEF g, h
<1> QED
  <2>1. h[1 .. (n + 1)] = More(g[1 .. n], r[n + 1])
    BY <1>1, <1>3, IterAgree
  <2>2. Total(r) = More(Total(s), e)
    BY <1>1, <1>2, <2>1
  <2> QED BY <2>2 DEF r, More

\* Sizes are numbers.
LEMMA SizeType == ASSUME NEW e \in Entries PROVE Size(e) \in Nat
<1>1. e.key \in Keys /\ e.len \in ValLens
  BY DEF Entries
<1>2. KeyLen[e.key] \in Nat /\ e.len \in Nat
  BY <1>1, LruAssumption
<1> QED
  BY <1>2 DEF Size

\* A shortest list without a total, or with one that is not the sum of its parts,
\* would be one entry longer than one that has it.
LEMMA TotalType ==
  ASSUME NEW s \in Seq(Entries)
  PROVE  Total(s) \in Nat
<1> DEFINE Bad == {n \in Nat : \E t \in Seq(Entries) : Len(t) = n /\ Total(t) \notin Nat}
<1> SUFFICES ASSUME Bad # {} PROVE FALSE
  <2>1. Len(s) \in Nat
    OBVIOUS
  <2> QED BY <2>1
<1>1. PICK n \in Bad : \A m \in Bad : n <= m
  <2>1. Bad \subseteq Nat
    OBVIOUS
  <2> HIDE DEF Bad
  <2> QED BY <2>1, LeastNat
<1>2. PICK t \in Seq(Entries) : Len(t) = n /\ Total(t) \notin Nat
  OBVIOUS
<1>3. t # <<>>
  BY <1>2, TotalNone
<1>4. PICK r \in Seq(Entries), e \in Entries : t = Append(r, e)
  BY <1>3, SequenceEmptyOrAppend
<1>5. Len(r) \in Nat /\ Len(r) = n - 1 /\ n \in Nat
  BY <1>2, <1>4
<1>6. Total(r) \in Nat
  <2>1. Len(r) \notin Bad
    BY <1>1, <1>5
  <2> QED BY <1>5, <2>1
<1>7. Total(t) = Total(r) + Size(e)
  BY <1>4, TotalOne
<1> QED
  BY <1>2, <1>6, <1>7, SizeType

LEMMA TotalConcat ==
  ASSUME NEW s \in Seq(Entries), NEW t \in Seq(Entries)
  PROVE  Total(s \o t) = Total(s) + Total(t)
<1> DEFINE Sums(u) == Total(s \o u) = Total(s) + Total(u)
           Bad == {n \in Nat : \E u \in Seq(Entries) : Len(u) = n /\ ~Sums(u)}
<1> SUFFICES ASSUME Bad # {} PROVE FALSE
  <2>1. Len(t) \in Nat
    OBVIOUS
  <2> QED BY <2>1
<1>1. PICK n \in Bad : \A m \in Bad : n <= m
  <2>1. Bad \subseteq Nat
    OBVIOUS
  <2> HIDE DEF Bad
  <2> QED BY <2>1, LeastNat
<1> HIDE DEF Sums
<1>2. PICK u \in Seq(Entries) : Len(u) = n /\ ~Sums(u)
  OBVIOUS
<1>3. u # <<>>
  <2>1. s \o <<>> = s
    OBVIOUS
  <2>2. Total(s) + 0 = Total(s)
    BY TotalType
  <2> QED BY <1>2, <2>1, <2>2, TotalNone DEF Sums
<1>4. PICK r \in Seq(Entries), e \in Entries : u = Append(r, e)
  BY <1>3, SequenceEmptyOrAppend
<1>5. Len(r) \in Nat /\ Len(r) = n - 1 /\ n \in Nat
  BY <1>2, <1>4
<1>6. Sums(r)
  <2>1. Len(r) \notin Bad
    BY <1>1, <1>5
  <2> QED BY <1>5, <2>1
<1>7. s \o u = Append(s \o r, e) /\ s \o r \in Seq(Entries)
  BY <1>4
<1>8. Total(s \o u) = Total(s \o r) + Size(e) /\ Total(u) = Total(r) + Size(e)
  BY <1>4, <1>7, TotalOne
<1>9. Total(s) \in Nat /\ Total(r) \in Nat /\ Size(e) \in Nat
  BY TotalType, SizeType
<1> QED
  BY <1>2, <1>6, <1>8, <1>9 DEF Sums

LEMMA TotalSingle == ASSUME NEW e \in Entries PROVE Total(<<e>>) = Size(e)
<1>1. <<e>> = Append(<<>>, e) /\ <<>> \in Seq(Entries)
  OBVIOUS
<1>2. Total(<<e>>) = Total(<<>>) + Size(e)
  BY <1>1, TotalOne
<1> QED
  BY <1>2, TotalNone, SizeType

----------------------------------------------------------------------------
(* What moving and removing an element does to the list *)

\* A list is what precedes an element, the element, and what follows it.
LEMMA Parts ==
  ASSUME NEW s \in Seq(Entries), NEW i \in 1 .. Len(s)
  PROVE  \E f, g \in Seq(Entries) : /\ Len(f) = i - 1
                                    /\ Len(g) = Len(s) - i
                                    /\ s = (f \o <<s[i]>>) \o g
                                    /\ RemoveAt(s, i) = f \o g
<1> DEFINE n == Len(s)
           f == SubSeq(s, 1, i - 1)
           g == SubSeq(s, i + 1, n)
<1>1. n \in Nat /\ i \in Int /\ 1 <= i /\ i <= n /\ i - 1 \in Int /\ i + 1 \in Int
      /\ \A j \in 1 .. n : s[j] \in Entries
  BY LenProperties
<1>2. f \in Seq(Entries) /\ Len(f) = i - 1
  <2> DEFINE m == i - 1
  <2>1. m \in Int /\ 1 \in Int /\ m >= 0 /\ \A j \in 1 .. m : s[j] \in Entries
    BY <1>1
  <2> HIDE DEF m
  <2>2. SubSeq(s, 1, m) \in Seq(Entries)
        /\ Len(SubSeq(s, 1, m)) = IF 1 <= m THEN m - 1 + 1 ELSE 0
    BY <2>1, SubSeqProperties
  <2>3. Len(SubSeq(s, 1, m)) = m
    BY <2>1, <2>2
  <2> QED BY <2>2, <2>3 DEF m
<1>3. g \in Seq(Entries) /\ Len(g) = n - i
  <2> DEFINE m == i + 1
  <2>1. m \in Int /\ m >= 1 /\ m <= n + 1 /\ \A j \in m .. n : s[j] \in Entries
    BY <1>1
  <2> HIDE DEF m, n
  <2>2. SubSeq(s, m, n) \in Seq(Entries)
        /\ Len(SubSeq(s, m, n)) = IF m <= n THEN n - m + 1 ELSE 0
    BY <1>1, <2>1, SubSeqProperties
  <2>3. Len(SubSeq(s, m, n)) = n - m + 1
    BY <1>1, <2>1, <2>2
  <2> QED BY <1>1, <2>2, <2>3 DEF m
<1>4. SubSeq(s, 1, i) = f \o <<s[i]>>
  BY <1>1, SubSeqRecursiveSecond
<1>5. SubSeq(s, 1, i) \o g = SubSeq(s, 1, n)
  BY <1>1, ConcatAdjacentSubSeq
<1>6. SubSeq(s, 1, n) = s
  BY SubSeqFull
<1>7. RemoveAt(s, i) = f \o g
  BY DEF RemoveAt
<1> HIDE DEF f, g
<1> QED
  BY <1>2, <1>3, <1>4, <1>5, <1>6, <1>7

\* An entry in front of the others, and one taken out, count once.
LEMMA TotalMoved ==
  ASSUME NEW s \in Seq(Entries), NEW i \in 1 .. Len(s), NEW e \in Entries
  PROVE  Total(<<e>> \o RemoveAt(s, i)) = Total(s) - Size(s[i]) + Size(e)
<1>1. PICK f, g \in Seq(Entries) : /\ s = (f \o <<s[i]>>) \o g
                                   /\ RemoveAt(s, i) = f \o g
  BY Parts
<1> DEFINE x == s[i]
<1>2. x \in Entries
  BY ElementOfSeq
<1> HIDE DEF x
<1>3. <<x>> \in Seq(Entries) /\ <<e>> \in Seq(Entries)
      /\ f \o <<x>> \in Seq(Entries) /\ f \o g \in Seq(Entries)
  BY <1>2
<1>4. Total((f \o <<x>>) \o g) = (Total(f) + Size(x)) + Total(g)
  <2>1. Total((f \o <<x>>) \o g) = Total(f \o <<x>>) + Total(g)
    BY <1>3, TotalConcat
  <2>2. Total(f \o <<x>>) = Total(f) + Total(<<x>>)
    BY <1>3, TotalConcat
  <2> QED BY <1>2, <2>1, <2>2, TotalSingle
<1>5. Total(<<e>> \o (f \o g)) = Size(e) + (Total(f) + Total(g))
  <2>1. Total(<<e>> \o (f \o g)) = Total(<<e>>) + Total(f \o g)
    BY <1>3, TotalConcat
  <2>2. Total(f \o g) = Total(f) + Total(g)
    BY TotalConcat
  <2>3. Total(<<e>>) = Size(e)
    BY TotalSingle
  <2> QED BY <2>1, <2>2, <2>3
<1>6. Total(f) \in Nat /\ Total(g) \in Nat /\ Size(e) \in Nat /\ Size(x) \in Nat
  BY <1>2, TotalType, SizeType
<1>7. Total(s) = (Total(f) + Size(x)) + Total(g)
  BY <1>1, <1>4 DEF x
<1>8. Total(<<e>> \o RemoveAt(s, i)) = Size(e) + (Total(f) + Total(g))
  BY <1>1, <1>5
<1> QED
  BY <1>6, <1>7, <1>8 DEF x

\* The others follow the moved entry in their order.
LEMMA MovedElements ==
  ASSUME NEW s \in Seq(Entries), NEW i \in 1 .. Len(s), NEW e \in Entries
  PROVE  /\ <<e>> \o RemoveAt(s, i) \in Seq(Entries)
         /\ Len(<<e>> \o RemoveAt(s, i)) = Len(s)
         /\ \A j \in 1 .. Len(s) :
              (<<e>> \o RemoveAt(s, i))[j] =
                IF j = 1 THEN e ELSE IF j <= i THEN s[j - 1] ELSE s[j]
<1>1. PICK f, g \in Seq(Entries) : /\ Len(f) = i - 1
                                   /\ Len(g) = Len(s) - i
                                   /\ s = (f \o <<s[i]>>) \o g
                                   /\ RemoveAt(s, i) = f \o g
  BY Parts
<1> DEFINE x == s[i]
           n == Len(s)
           r == <<e>> \o (f \o g)
<1>2. x \in Entries /\ n \in Nat /\ i \in 1 .. n
  BY ElementOfSeq, LenProperties
<1>3. s = (f \o <<x>>) \o g
  BY <1>1
<1>4. Len(f) = i - 1 /\ Len(g) = n - i
  BY <1>1
<1> HIDE DEF x
<1>5. r \in Seq(Entries) /\ Len(r) = n
  BY <1>2, <1>4
<1>6. \A j \in 1 .. n :
        r[j] = IF j = 1 THEN e
               ELSE IF j <= i THEN f[j - 1] ELSE g[j - i]
  BY <1>2, <1>4
<1>7. \A j \in 1 .. (i - 1) : s[j] = f[j]
  BY <1>2, <1>3, <1>4
<1>8. \A j \in (i + 1) .. n : s[j] = g[j - i]
  BY <1>2, <1>3, <1>4
<1> HIDE DEF n, r
<1>9. \A j \in 1 .. n :
        r[j] = IF j = 1 THEN e ELSE IF j <= i THEN s[j - 1] ELSE s[j]
  <2> TAKE j \in 1 .. n
  <2>1. CASE j = 1
    BY <1>6, <2>1
  <2>2. CASE j # 1 /\ j <= i
    <3>1. j - 1 \in 1 .. (i - 1)
      BY <1>2, <2>2
    <3>2. s[j - 1] = f[j - 1]
      BY <1>7, <3>1
    <3> QED BY <1>6, <2>2, <3>2
  <2>3. CASE j # 1 /\ ~(j <= i)
    <3>1. j \in (i + 1) .. n
      BY <1>2, <2>3
    <3>2. s[j] = g[j - i]
      BY <1>8, <3>1
    <3> QED BY <1>6, <2>3, <3>2
  <2> QED BY <2>1, <2>2, <2>3
<1> QED
  BY <1>1, <1>5, <1>9 DEF n, r

Distinct(s) == \A i, j \in DOMAIN s : s[i].key = s[j].key => i = j
KeysOf(s) == {s[i].key : i \in DOMAIN s}

\* Only the order of the keys changes.
LEMMA MovedKeys ==
  ASSUME NEW s \in Seq(Entries), NEW i \in 1 .. Len(s), NEW e \in Entries,
         e.key = s[i].key, Distinct(s),
         NEW r, r = <<e>> \o RemoveAt(s, i)
  PROVE  Distinct(r) /\ KeysOf(r) = KeysOf(s)
<1> DEFINE n == Len(s)
           From(j) == IF j = 1 THEN i ELSE IF j <= i THEN j - 1 ELSE j
           To(m) == IF m = i THEN 1 ELSE IF m < i THEN m + 1 ELSE m
<1>1. n \in Nat /\ i \in 1 .. n /\ DOMAIN s = 1 .. n
      /\ \A j, m \in 1 .. n : s[j].key = s[m].key => j = m
  BY LenProperties DEF Distinct
<1>2. /\ r \in Seq(Entries)
      /\ Len(r) = n
      /\ \A j \in 1 .. n : r[j] = IF j = 1 THEN e ELSE IF j <= i THEN s[j - 1] ELSE s[j]
  <2> DEFINE q == <<e>> \o RemoveAt(s, i)
  <2>1. /\ q \in Seq(Entries) /\ Len(q) = Len(s)
        /\ \A j \in 1 .. Len(s) :
             q[j] = IF j = 1 THEN e ELSE IF j <= i THEN s[j - 1] ELSE s[j]
    BY MovedElements
  <2>2. r = q
    OBVIOUS
  <2> HIDE DEF q
  <2> QED
    BY <2>1, <2>2
<1>3. DOMAIN r = 1 .. n
  BY <1>2
<1> HIDE DEF n
<1>4. \A j \in 1 .. n : From(j) \in 1 .. n /\ r[j].key = s[From(j)].key
  BY <1>1, <1>2
<1>5. \A j, m \in 1 .. n : From(j) = From(m) => j = m
  BY <1>1
<1>6. \A m \in 1 .. n : To(m) \in 1 .. n /\ From(To(m)) = m
  BY <1>1
<1> HIDE DEF From, To
<1>7. ASSUME NEW j \in 1 .. n, NEW m \in 1 .. n, r[j].key = r[m].key
      PROVE  j = m
  <2> DEFINE a == From(j)
             b == From(m)
  <2>1. a \in 1 .. n /\ b \in 1 .. n /\ r[j].key = s[a].key /\ r[m].key = s[b].key
    BY <1>4
  <2>2. a = b => j = m
    BY <1>5
  <2> HIDE DEF a, b
  <2> QED BY <1>1, <1>7, <2>1, <2>2
<1>8. \A m \in 1 .. n : \E j \in 1 .. n : r[j].key = s[m].key
  BY <1>4, <1>6
<1>9. \A j \in 1 .. n : \E m \in 1 .. n : r[j].key = s[m].key
  BY <1>4
<1>10. {r[j].key : j \in 1 .. n} = {s[j].key : j \in 1 .. n}
  <2> DEFINE A == {r[j].key : j \in 1 .. n}
             B == {s[j].key : j \in 1 .. n}
  <2>1. ASSUME NEW x \in A PROVE x \in B
    <3>1. PICK j \in 1 .. n : x = r[j].key
      OBVIOUS
    <3>2. PICK m \in 1 .. n : r[j].key = s[m].key
      BY <1>9
    <3> QED BY <3>1, <3>2
  <2>2. ASSUME NEW x \in B PROVE x \in A
    <3>1. PICK m \in 1 .. n : x = s[m].key
      OBVIOUS
    <3>2. PICK j \in 1 .. n : r[j].key = s[m].key
      BY <1>8
    <3> QED BY <3>1, <3>2
  <2> HIDE DEF A, B
  <2>3. A = B
    BY <2>1, <2>2
  <2> QED BY <2>3 DEF A, B
<1>11. \A j, m \in 1 .. n : r[j].key = r[m].key => j = m
  BY <1>7
<1> QED
  BY <1>1, <1>3, <1>10, <1>11 DEF Distinct, KeysOf

\* A new key in front of the others.
InFront(e, s) == <<e>> \o s

LEMMA AddedKeys ==
  ASSUME NEW s \in Seq(Entries), NEW e \in Entries,
         e.key \notin KeysOf(s), Distinct(s),
         NEW r, r = InFront(e, s)
  PROVE  r \in Seq(Entries) /\ Distinct(r) /\ KeysOf(r) = KeysOf(s) \cup {e.key}
<1> DEFINE n == Len(s)
<1>1. n \in Nat /\ DOMAIN s = 1 .. n
      /\ (\A j, m \in 1 .. n : s[j].key = s[m].key => j = m)
      /\ (\A j \in DOMAIN s : s[j].key # e.key)
  BY LenProperties DEF Distinct, KeysOf
<1>2. /\ r \in Seq(Entries)
      /\ DOMAIN r = 1 .. (n + 1)
      /\ r[1] = e
      /\ \A j \in 2 .. (n + 1) : r[j] = s[j - 1]
  BY DEF InFront
<1> HIDE DEF n
<1>3. \A j \in 2 .. (n + 1) : j - 1 \in 1 .. n /\ r[j] = s[j - 1]
  BY <1>1, <1>2
<1>4. \A j \in 1 .. n : j + 1 \in 2 .. (n + 1) /\ r[j + 1] = s[j]
  <2> TAKE j \in 1 .. n
  <2>1. j + 1 \in 2 .. (n + 1) /\ (j + 1) - 1 = j
    BY <1>1
  <2> QED BY <1>2, <2>1
<1>5. ASSUME NEW j \in 1 .. (n + 1), NEW m \in 1 .. (n + 1), r[j].key = r[m].key
      PROVE  j = m
  <2>1. CASE j = 1 /\ m # 1
    <3>1. m \in 2 .. (n + 1)
      BY <1>1, <2>1
    <3>2. m - 1 \in DOMAIN s /\ r[m].key = s[m - 1].key
      BY <1>1, <1>3, <3>1
    <3>3. s[m - 1].key = e.key
      BY <1>2, <1>5, <2>1, <3>2
    <3> QED BY <1>1, <3>2, <3>3
  <2>2. CASE j # 1 /\ m = 1
    <3>1. j \in 2 .. (n + 1)
      BY <1>1, <2>2
    <3>2. j - 1 \in DOMAIN s /\ r[j].key = s[j - 1].key
      BY <1>1, <1>3, <3>1
    <3>3. s[j - 1].key = e.key
      BY <1>2, <1>5, <2>2, <3>2
    <3> QED BY <1>1, <3>2, <3>3
  <2>3. CASE j # 1 /\ m # 1
    <3>1. j \in 2 .. (n + 1) /\ m \in 2 .. (n + 1)
      BY <1>1, <2>3
    <3>2. j - 1 = m - 1
      BY <1>1, <1>3, <1>5, <3>1
    <3> QED BY <1>1, <3>1, <3>2
  <2> QED BY <2>1, <2>2, <2>3
<1>6. 1 \in 1 .. (n + 1) /\ 2 .. (n + 1) \subseteq 1 .. (n + 1)
      /\ \A j \in 1 .. (n + 1) : j = 1 \/ j \in 2 .. (n + 1)
  BY <1>1
<1>7. {r[j].key : j \in 1 .. (n + 1)} = {s[j].key : j \in 1 .. n} \cup {e.key}
  <2>1. \A j \in 1 .. (n + 1) : r[j].key = e.key \/ \E m \in 1 .. n : r[j].key = s[m].key
    <3> TAKE j \in 1 .. (n + 1)
    <3>1. CASE j = 1
      BY <1>2, <3>1
    <3>2. CASE j \in 2 .. (n + 1)
      <4>1. j - 1 \in 1 .. n /\ r[j].key = s[j - 1].key
        BY <1>3, <3>2
      <4> QED BY <4>1
    <3> QED BY <1>6, <3>1, <3>2
  <2>2. \A m \in 1 .. n : \E j \in 1 .. (n + 1) : r[j].key = s[m].key
    <3> TAKE m \in 1 .. n
    <3>1. m + 1 \in 1 .. (n + 1) /\ r[m + 1].key = s[m].key
      BY <1>4, <1>6
    <3> QED BY <3>1
  <2>3. \E j \in 1 .. (n + 1) : r[j].key = e.key
    BY <1>2, <1>6
  <2> DEFINE A == {r[j].key : j \in 1 .. (n + 1)}
             B == {s[j].key : j \in 1 .. n} \cup {e.key}
  <2>4. ASSUME NEW x \in A PROVE x \in B
    <3>1. PICK j \in 1 .. (n + 1) : x = r[j].key
      OBVIOUS
    <3> QED BY <2>1, <3>1
  <2>5. ASSUME NEW x \in B PROVE x \in A
    <3>1. CASE x = e.key
      BY <2>3, <3>1
    <3>2. CASE x # e.key
      <4>1. PICK m \in 1 .. n : x = s[m].key
        BY <3>2
      <4>2. PICK j \in 1 .. (n + 1) : r[j].key = s[m].key
        BY <2>2
      <4> QED BY <4>1, <4>2
    <3> QED BY <3>1, <3>2
  <2> HIDE DEF A, B
  <2>6. A = B
    BY <2>4, <2>5
  <2> QED BY <2>6 DEF A, B
<1>8. \A j, m \in 1 .. (n + 1) : r[j].key = r[m].key => j = m
  BY <1>5
<1> QED
  BY <1>1, <1>2, <1>7, <1>8 DEF Distinct, KeysOf

\* The last element is taken off the end.
LEMMA FrontLast ==
  ASSUME NEW s \in Seq(Entries), s # <<>>
  PROVE  Front(s) \in Seq(Entries) /\ Last(s) \in Entries
         /\ s = Append(Front(s), Last(s))
<1>1. PICK r \in Seq(Entries), e \in Entries : s = Append(r, e)
  BY SequenceEmptyOrAppend
<1> DEFINE n == Len(r)
<1>2. n \in Nat /\ Len(s) = n + 1 /\ s[n + 1] = e /\ \A i \in 1 .. n : s[i] = r[i]
  BY <1>1
<1>3. Last(s) = e
  BY <1>2 DEF Last
<1>4. Front(s) = SubSeq(s, 1, n)
  BY <1>2 DEF Front
<1>5. SubSeq(s, 1, n) = r
  <2>1. \A i \in 1 .. n : s[i] \in Entries
    BY <1>2, ElementOfSeq
  <2> HIDE DEF n
  <2>2. /\ SubSeq(s, 1, n) \in Seq(Entries)
        /\ Len(SubSeq(s, 1, n)) = IF 1 <= n THEN n - 1 + 1 ELSE 0
        /\ \A i \in 1 .. (n - 1 + 1) : SubSeq(s, 1, n)[i] = s[1 + i - 1]
    BY <1>2, <2>1, SubSeqProperties
  <2>3. Len(SubSeq(s, 1, n)) = n
    BY <1>2, <2>2
  <2>4. \A i \in 1 .. n : SubSeq(s, 1, n)[i] = r[i]
    BY <1>2, <2>2
  <2> QED
    BY <2>2, <2>3, <2>4, SeqEqual DEF n
<1> QED
  BY <1>1, <1>3, <1>4, <1>5

----------------------------------------------------------------------------
(* The steps *)

\* The map finds the element of every key it has.
LEMMA ElementFound ==
  ASSUME ListInv, NEW k \in cache
  PROVE  ElementOf(k) \in 1 .. Len(dl) /\ EntryOf(k).key = k /\ EntryOf(k) \in Entries
<1>1. \E i \in DOMAIN dl : dl[i].key = k
  BY DEF ListInv, Accounted
<1>2. ElementOf(k) \in DOMAIN dl /\ dl[ElementOf(k)].key = k
  BY <1>1 DEF ElementOf
<1> QED
  BY <1>2, LenProperties, ElementOfSeq DEF ListInv, TypeOK, EntryOf

LEMMA InitInv == Init => ListInv
<1> SUFFICES ASSUME Init PROVE ListInv
  OBVIOUS
<1>1. dl = <<>> /\ cache = {} /\ nBytes = 0 /\ purging = FALSE
  BY DEF Init
<1>2. TypeOK
  <2>1. <<>> \in Seq(Entries)
    BY EmptySeq
  <2>2. dl \in Seq(Entries)
    BY <1>1, <2>1, Zenon
  <2>3. cache \subseteq Keys
    BY DEF Init
  <2>4. nBytes = 0 /\ purging = FALSE
    BY DEF Init
  <2>5. nBytes \in Int
    BY <2>4
  <2>6. purging \in BOOLEAN
    BY <2>4, Zenon
  <2> QED BY <2>2, <2>3, <2>5, <2>6 DEF TypeOK
<1>3. DOMAIN dl = {}
  BY <1>1
<1>4. nBytes = Total(dl)
  BY <1>1, TotalNone
<1>5. Accounted
  BY <1>1, <1>3, <1>4 DEF Accounted
<1> QED
  BY <1>2, <1>5 DEF ListInv

LEMMA StutterInv == ListInv /\ UNCHANGED vars => ListInv'
BY DEF ListInv, TypeOK, Accounted, vars

LEMMA MovedInv ==
  ASSUME ListInv, NEW e \in Entries, e.key \in cache, dl' = MovedToFront(e),
         nBytes' = nBytes + Growth(e), UNCHANGED cache, purging' \in BOOLEAN
  PROVE  ListInv'
<1> DEFINE i == ElementOf(e.key)
<1>1. i \in 1 .. Len(dl) /\ dl[i].key = e.key /\ dl[i] \in Entries
  BY ElementFound DEF EntryOf
<1>2. dl \in Seq(Entries) /\ dl' = <<e>> \o RemoveAt(dl, i)
      /\ Distinct(dl)
  BY DEF MovedToFront, ListInv, TypeOK, Accounted, Distinct
<1>3. Growth(e) = e.len - dl[i].len
  BY DEF Growth, EntryOf
<1> HIDE DEF i
<1>4. dl' \in Seq(Entries)
  BY <1>1, <1>2, MovedElements
<1>5. Distinct(dl') /\ KeysOf(dl') = KeysOf(dl)
  BY <1>1, <1>2, MovedKeys
<1>6. Total(dl') = Total(dl) - Size(dl[i]) + Size(e)
  BY <1>1, <1>2, TotalMoved
<1>7. nBytes' = Total(dl') /\ nBytes' \in Int
  <2>1. KeyLen[e.key] \in Nat /\ e.len \in Nat /\ dl[i].len \in Nat
    BY <1>1, LruAssumption DEF Entries
  <2>2. Size(e) = KeyLen[e.key] + e.len /\ Size(dl[i]) = KeyLen[e.key] + dl[i].len
    BY <1>1 DEF Size
  <2>3. nBytes = Total(dl) /\ nBytes \in Int
    BY DEF ListInv, TypeOK, Accounted
  <2> QED BY <1>3, <1>6, <2>1, <2>2, <2>3
<1> QED
  BY <1>4, <1>5, <1>7 DEF ListInv, TypeOK, Accounted, Distinct, KeysOf

LEMMA GetInv == ASSUME ListInv, NEW k \in Keys, Get(k) PROVE ListInv'
<1>1. k \in cache /\ dl' = MovedToFront(EntryOf(k))
      /\ UNCHANGED <<cache, nBytes, purging>>
  BY DEF Get
<1>2. EntryOf(k) \in Entries /\ EntryOf(k).key = k
  BY <1>1, ElementFound
<1>3. Growth(EntryOf(k)) = 0
  <2> DEFINE x == EntryOf(k)
  <2>1. x.len \in Nat /\ x.key = k
    BY <1>2, LruAssumption DEF Entries
  <2>2. Growth(x) = x.len - x.len
    BY <2>1 DEF Growth
  <2> HIDE DEF x
  <2>3. Growth(x) = 0
    BY <2>1, <2>2
  <2> QED BY <2>3 DEF x
<1>4. nBytes' = nBytes + Growth(EntryOf(k)) /\ purging' \in BOOLEAN
  BY <1>1, <1>3 DEF ListInv, TypeOK
<1> QED
  BY <1>1, <1>2, <1>4, MovedInv

LEMMA AddInv == ASSUME ListInv, NEW e \in Entries, Add(e) PROVE ListInv'
<1>0. purging' \in BOOLEAN
  BY DEF Add
<1>1. CASE e.key \in cache
  BY <1>0, <1>1, MovedInv DEF Add
<1>2. CASE e.key \notin cache
  <2>1. dl' = <<e>> \o dl /\ cache' = cache \cup {e.key} /\ nBytes' = nBytes + Size(e)
    BY <1>2 DEF Add
  <2>2. dl \in Seq(Entries) /\ cache \subseteq Keys
        /\ nBytes = Total(dl) /\ nBytes \in Int
        /\ cache = KeysOf(dl) /\ Distinct(dl)
    BY DEF ListInv, TypeOK, Accounted, Distinct, KeysOf
  <2>4. dl' \in Seq(Entries) /\ Distinct(dl') /\ KeysOf(dl') = KeysOf(dl) \cup {e.key}
    <3>1. dl' = InFront(e, dl) /\ e.key \notin KeysOf(dl)
      BY <1>2, <2>1, <2>2 DEF InFront
    <3> QED BY <2>2, <3>1, AddedKeys
  <2>5. nBytes' = Total(dl') /\ nBytes' \in Int
    <3>1. <<e>> \in Seq(Entries) /\ Size(e) \in Nat /\ Total(dl) \in Nat
      BY <2>2, SizeType, TotalType
    <3>2. Total(<<e>> \o dl) = Size(e) + Total(dl)
      BY <2>2, <3>1, TotalConcat, TotalSingle
    <3> QED BY <2>1, <2>2, <3>1, <3>2
  <2>6. e.key \in Keys
    BY DEF Entries
  <2> QED
    BY <1>0, <2>1, <2>2, <2>4, <2>5, <2>6 DEF ListInv, TypeOK, Accounted, Distinct, KeysOf
<1> QED
  BY <1>1, <1>2

LEMMA RemoveInv ==
  ASSUME ListInv, RemoveOldest, UNCHANGED purging
  PROVE  ListInv'
<1>1. CASE dl = <<>> /\ UNCHANGED <<dl, cache, nBytes>>
  BY <1>1, StutterInv DEF vars
<1>2. CASE dl # <<>>
  <2> DEFINE x == Last(dl)
             r == Front(dl)
  <2>1. dl' = r /\ cache' = cache \ {x.key} /\ nBytes' = nBytes - Size(x)
    BY <1>2 DEF RemoveOldest, Forgotten, Freed
  <2>2. dl \in Seq(Entries) /\ cache \subseteq Keys /\ purging \in BOOLEAN
        /\ nBytes = Total(dl) /\ nBytes \in Int
        /\ cache = {dl[j].key : j \in DOMAIN dl}
        /\ \A j, m \in DOMAIN dl : dl[j].key = dl[m].key => j = m
    BY DEF ListInv, TypeOK, Accounted
  <2>3. r \in Seq(Entries) /\ x \in Entries /\ dl = Append(r, x)
    BY <1>2, <2>2, FrontLast
  <2> HIDE DEF r, x
  <2> DEFINE n == Len(r)
  <2>4. /\ n \in Nat /\ DOMAIN r = 1 .. n /\ DOMAIN dl = 1 .. (n + 1)
        /\ dl[n + 1] = x /\ \A j \in 1 .. n : dl[j] = r[j]
    BY <2>3
  <2> HIDE DEF n
  <2>5. 1 .. (n + 1) = 1 .. n \cup {n + 1} /\ n + 1 \notin 1 .. n
    BY <2>4
  <2>6. \A j \in 1 .. n : r[j].key # x.key
    BY <2>2, <2>4, <2>5
  <2>7. cache' = {r[j].key : j \in 1 .. n}
    BY <2>1, <2>2, <2>4, <2>5, <2>6
  <2>8. \A j, m \in 1 .. n : r[j].key = r[m].key => j = m
    BY <2>2, <2>4, <2>5
  <2>9. nBytes' = Total(r) /\ nBytes' \in Int
    <3>1. Total(dl) = Total(r) + Size(x)
      BY <2>3, TotalOne
    <3> QED BY <2>1, <2>2, <2>3, <3>1, TotalType, SizeType
  <2> QED
    BY <2>1, <2>2, <2>3, <2>4, <2>7, <2>8, <2>9 DEF ListInv, TypeOK, Accounted
<1> QED
  BY <1>1, <1>2 DEF RemoveOldest

LEMMA NextListInv == ListInv /\ [Next]_vars => ListInv'
<1> SUFFICES ASSUME ListInv, [Next]_vars PROVE ListInv'
  OBVIOUS
<1>1. ASSUME NEW k \in Keys, Get(k) PROVE ListInv'
  BY <1>1, GetInv
<1>2. ASSUME NEW e \in Entries, Add(e) PROVE ListInv'
  BY <1>2, AddInv
<1>3. CASE Purge
  BY <1>3, RemoveInv DEF Purge
<1>4. CASE PurgeEnds
  BY <1>4 DEF PurgeEnds, ListInv, TypeOK, Accounted
<1>5. CASE RemoveAlone
  BY <1>5, RemoveInv DEF RemoveAlone
<1>6. CASE UNCHANGED vars
  BY <1>6, StutterInv
<1> QED
  BY <1>1, <1>2, <1>3, <1>4, <1>5, <1>6 DEF Next

\* A removal leaves the count no larger.
LEMMA RemoveFits ==
  ASSUME ListInv, RemoveOldest, ~OverLimit
  PROVE  ~OverLimit'
<1>1. CASE UNCHANGED nBytes
  BY <1>1 DEF OverLimit
<1>2. CASE dl # <<>> /\ nBytes' = nBytes - Size(Last(dl))
  <2>1. dl \in Seq(Entries) /\ nBytes \in Int
    BY DEF ListInv, TypeOK
  <2>2. Size(Last(dl)) \in Nat
    BY <1>2, <2>1, FrontLast, SizeType
  <2> QED
    BY <1>2, <2>1, <2>2, LruAssumption DEF OverLimit
<1> QED
  BY <1>1, <1>2 DEF RemoveOldest, Freed

LEMMA NextFitsInv == IInv /\ [Next]_vars => FitsInv'
<1> SUFFICES ASSUME IInv, [Next]_vars PROVE FitsInv'
  OBVIOUS
<1> USE DEF IInv
<1>1. ASSUME NEW k \in Keys, Get(k) PROVE FitsInv'
  BY <1>1 DEF Get, FitsInv, OverLimit
<1>2. ASSUME NEW e \in Entries, Add(e) PROVE FitsInv'
  BY <1>2 DEF Add, FitsInv
<1>3. CASE Purge
  BY <1>3 DEF Purge, FitsInv
<1>4. CASE PurgeEnds
  BY <1>4 DEF PurgeEnds, FitsInv, OverLimit
<1>5. CASE RemoveAlone
  BY <1>5, RemoveFits DEF RemoveAlone, FitsInv
<1>6. CASE UNCHANGED vars
  BY <1>6 DEF vars, FitsInv, OverLimit
<1> QED
  BY <1>1, <1>2, <1>3, <1>4, <1>5, <1>6 DEF Next

LEMMA InitFits == Init => FitsInv
BY LruAssumption DEF Init, FitsInv, OverLimit

----------------------------------------------------------------------------
(* The cache as one that keeps what was used last *)

Prefix(s, n) == SubSeq(s, 1, n)
Fitting(s) == {n \in 0 .. Len(s) : Total(Prefix(s, n)) <= MaxBytes}

\* There is a longest prefix that fits, since the empty one does.
LEMMA LongestFits ==
  ASSUME NEW s \in Seq(Entries)
  PROVE  Max(Fitting(s)) \in Fitting(s) /\ \A n \in Fitting(s) : Max(Fitting(s)) >= n
<1> DEFINE F == Fitting(s)
           l == Len(s)
<1>1. l \in Nat /\ F \subseteq 0 .. l
  BY LenProperties DEF Fitting
<1>2. 0 \in F
  <2>1. Prefix(s, 0) = <<>>
    BY SubSeqEmpty DEF Prefix
  <2>2. Total(Prefix(s, 0)) = 0
    BY <2>1, TotalNone
  <2>3. Total(Prefix(s, 0)) <= MaxBytes
    BY <2>2, LruAssumption
  <2> QED BY <1>1, <2>3 DEF Fitting
<1> HIDE DEF F, l
<1> DEFINE T == {l - n : n \in F}
<1>3. T \subseteq Nat /\ T # {}
  BY <1>1, <1>2
<1>4. PICK x \in T : \A y \in T : x <= y
  <2> HIDE DEF T
  <2> QED BY <1>3, LeastNat
<1>5. PICK m \in F : x = l - m
  OBVIOUS
<1>6. ASSUME NEW n \in F PROVE m >= n
  <2>1. l - n \in T
    OBVIOUS
  <2>2. x <= l - n
    BY <1>4, <2>1
  <2> HIDE DEF T
  <2> QED BY <1>1, <1>5, <2>2
<1>7. Max(F) \in F /\ \A n \in F : Max(F) >= n
  BY <1>6 DEF Max
<1> QED
  BY <1>7 DEF F

\* What fits is kept as it is.
LEMMA AllFits ==
  ASSUME NEW s \in Seq(Entries), MaxBytes = 0 \/ Total(s) <= MaxBytes
  PROVE  Fit(s) = s
<1>1. CASE MaxBytes = 0
  BY <1>1 DEF Fit
<1>2. CASE MaxBytes # 0
  <2> DEFINE m == Max(Fitting(s))
  <2>1. Len(s) \in Nat /\ Prefix(s, Len(s)) = s
    BY SubSeqFull, LenProperties DEF Prefix
  <2>2. Len(s) \in Fitting(s)
    BY <1>2, <2>1 DEF Fitting
  <2>3. m \in 0 .. Len(s) /\ m >= Len(s)
    BY <2>2, LongestFits DEF Fitting
  <2>4. m = Len(s)
    BY <2>1, <2>3
  <2>5. Fit(s) = Prefix(s, m)
    BY <1>2 DEF Fit, Fitting, Prefix
  <2> QED
    BY <2>1, <2>4, <2>5
<1> QED
  BY <1>1, <1>2

\* The last entry of a list that does not fit is not kept.
LEMMA LastDoesNotFit ==
  ASSUME NEW s \in Seq(Entries), s # <<>>, MaxBytes # 0, MaxBytes < Total(s)
  PROVE  Fit(Front(s)) = Fit(s)
<1> DEFINE r == Front(s)
           l == Len(r)
<1>1. r \in Seq(Entries) /\ Last(s) \in Entries /\ s = Append(r, Last(s))
  BY FrontLast
<1>2. l \in Nat /\ Len(s) = l + 1 /\ \A i \in 1 .. l : s[i] = r[i] /\ s[i] \in Entries
  BY <1>1, ElementOfSeq
<1> HIDE DEF r, l
<1>3. \A n \in 0 .. l : SubSeq(s, 1, n) = SubSeq(r, 1, n)
  <2> TAKE n \in 0 .. l
  <2>1. n \in Int /\ 1 \in Int /\ 1 .. n \subseteq 1 .. l /\ (n - 1) + 1 = n
    BY <1>2
  <2>2. \A i \in 1 .. n : s[i] = r[i] /\ s[i] \in Entries /\ r[i] \in Entries
    BY <1>2, <2>1
  <2>3. /\ SubSeq(s, 1, n) \in Seq(Entries) /\ SubSeq(r, 1, n) \in Seq(Entries)
        /\ Len(SubSeq(s, 1, n)) = IF 1 <= n THEN n - 1 + 1 ELSE 0
        /\ Len(SubSeq(r, 1, n)) = IF 1 <= n THEN n - 1 + 1 ELSE 0
        /\ \A i \in 1 .. (n - 1 + 1) : SubSeq(s, 1, n)[i] = s[1 + i - 1]
        /\ \A i \in 1 .. (n - 1 + 1) : SubSeq(r, 1, n)[i] = r[1 + i - 1]
    BY <2>1, <2>2, SubSeqProperties
  <2>4. Len(SubSeq(s, 1, n)) = n /\ Len(SubSeq(r, 1, n)) = n
    BY <1>2, <2>3
  <2>5. \A i \in 1 .. n : SubSeq(s, 1, n)[i] = SubSeq(r, 1, n)[i]
    BY <2>1, <2>2, <2>3
  <2> QED
    BY <2>3, <2>4, <2>5, SeqEqual
<1>4. Fitting(s) = Fitting(r)
  <2>1. l + 1 \notin Fitting(s)
    <3>1. Prefix(s, l + 1) = s
      BY <1>2, SubSeqFull DEF Prefix
    <3>2. Total(s) \in Nat
      BY TotalType
    <3> QED BY <3>1, <3>2, LruAssumption DEF Fitting
  <2>2. \A n \in 0 .. l : Total(Prefix(s, n)) = Total(Prefix(r, n))
    BY <1>3 DEF Prefix
  <2>3. \A n : n \in 0 .. (l + 1) <=> n \in 0 .. l \/ n = l + 1
    BY <1>2
  <2>4. \A n : n \in Fitting(s) <=> n \in 0 .. (l + 1) /\ Total(Prefix(s, n)) <= MaxBytes
    BY <1>2 DEF Fitting
  <2>5. \A n : n \in Fitting(r) <=> n \in 0 .. l /\ Total(Prefix(r, n)) <= MaxBytes
    BY DEF Fitting, l
  <2> QED
    BY <2>1, <2>2, <2>3, <2>4, <2>5
<1> DEFINE m == Max(Fitting(r))
<1>5. m \in 0 .. l
  BY <1>1, LongestFits DEF Fitting, l
<1>6. Fit(s) = SubSeq(s, 1, m) /\ Fit(r) = SubSeq(r, 1, m)
  BY <1>4 DEF Fit, Fitting, Prefix
<1> HIDE DEF m
<1>7. Fit(s) = Fit(r)
  BY <1>3, <1>5, <1>6
<1> QED
  BY <1>7 DEF r

\* Outside Add the list is what the abstract cache holds.
LEMMA HeldIsList == ASSUME IInv, ~purging PROVE Fit(dl) = dl
<1>1. dl \in Seq(Entries) /\ nBytes = Total(dl) /\ ~OverLimit
  BY DEF IInv, ListInv, FitsInv, TypeOK, Accounted
<1>2. MaxBytes = 0 \/ Total(dl) <= MaxBytes
  BY <1>1, TotalType, LruAssumption DEF OverLimit
<1> QED
  BY <1>1, <1>2, AllFits

\* To move an entry to the front is to use it.
LEMMA MovedRefines ==
  ASSUME IInv, ~purging, NEW e \in Entries, e.key \in cache, dl' = MovedToFront(e)
  PROVE  Abstract!Use(e)
<1> DEFINE i == ElementOf(e.key)
<1>1. i \in 1 .. Len(dl) /\ dl[i].key = e.key
  BY ElementFound DEF IInv, EntryOf
<1>2. i \in DOMAIN dl
  BY <1>1, LenProperties DEF IInv, ListInv, TypeOK
<1>3. dl' = <<e>> \o RemoveAt(dl, i)
  BY DEF MovedToFront
<1> HIDE DEF i
<1>4. Fit(dl) = dl
  BY HeldIsList
<1>5. Fit(dl') = Fit(<<e>> \o RemoveAt(dl, i))
  BY <1>3
<1>6. Abstract!RemoveAt(dl, i) = RemoveAt(dl, i)
  BY DEF Abstract!RemoveAt, RemoveAt
<1> QED
  BY <1>1, <1>2, <1>4, <1>5, <1>6 DEF Abstract!Use

LEMMA GetRefines == ASSUME IInv, NEW k \in Keys, Get(k) PROVE Abstract!Next
<1>1. ~purging /\ k \in cache /\ dl' = MovedToFront(EntryOf(k))
  BY DEF Get
<1>2. EntryOf(k) \in Entries /\ EntryOf(k).key = k
  BY <1>1, ElementFound DEF IInv
<1>3. Abstract!Use(EntryOf(k))
  BY <1>1, <1>2, MovedRefines
<1> QED
  BY <1>2, <1>3 DEF Abstract!Next

LEMMA AddRefines == ASSUME IInv, NEW e \in Entries, Add(e) PROVE Abstract!Next
<1>1. Abstract!Use(e)
  <2>1. ~purging
    BY DEF Add
  <2>2. CASE e.key \in cache
    BY <2>1, <2>2, MovedRefines DEF Add
  <2>3. CASE e.key \notin cache
    <3>1. dl' = <<e>> \o dl
      BY <2>3 DEF Add
    <3>2. Fit(dl) = dl
      BY <2>1, HeldIsList
    <3>3. \A i \in DOMAIN dl : dl[i].key # e.key
      BY <2>3 DEF IInv, ListInv, Accounted
    <3>4. Fit(dl') = Fit(<<e>> \o dl)
      BY <3>1
    <3> QED BY <3>2, <3>3, <3>4 DEF Abstract!Use
  <2> QED BY <2>2, <2>3
<1> QED
  BY <1>1 DEF Abstract!Next

\* What the purge evicts was not to be held any more.
LEMMA PurgeRefines == ASSUME IInv, Purge PROVE UNCHANGED Fit(dl)
<1>1. CASE UNCHANGED dl
  BY <1>1 DEF Fit
<1>2. CASE dl # <<>> /\ dl' = Front(dl)
  <2>1. dl \in Seq(Entries) /\ MaxBytes # 0 /\ MaxBytes < Total(dl)
    BY DEF IInv, ListInv, TypeOK, Accounted, Purge, OverLimit
  <2>2. Fit(Front(dl)) = Fit(dl)
    BY <1>2, <2>1, LastDoesNotFit
  <2>3. Fit(dl') = Fit(Front(dl))
    BY <1>2
  <2> QED BY <2>2, <2>3
<1> QED
  BY <1>1, <1>2 DEF Purge, RemoveOldest

LEMMA RemoveAloneRefines ==
  ASSUME IInv, RemoveAlone
  PROVE  Abstract!Next \/ UNCHANGED Fit(dl)
<1>1. CASE UNCHANGED dl
  BY <1>1 DEF Fit
<1>2. CASE dl # <<>> /\ dl' = Front(dl)
  <2>1. ~purging /\ dl \in Seq(Entries) /\ nBytes = Total(dl) /\ ~OverLimit
    BY DEF RemoveAlone, IInv, FitsInv, ListInv, TypeOK, Accounted
  <2>2. Fit(dl) = dl
    BY <2>1, HeldIsList
  <2>3. Fit(dl') = Front(dl)
    <3> DEFINE r == Front(dl)
    <3>1. r \in Seq(Entries) /\ Last(dl) \in Entries /\ dl = Append(r, Last(dl))
      BY <1>2, <2>1, FrontLast
    <3>2. Total(dl) = Total(r) + Size(Last(dl))
      BY <3>1, TotalOne
    <3>3. MaxBytes = 0 \/ Total(r) <= MaxBytes
      <4>1. Total(r) \in Nat /\ Size(Last(dl)) \in Nat
        BY <3>1, TotalType, SizeType
      <4> QED BY <2>1, <3>2, <4>1, LruAssumption DEF OverLimit
    <3>4. Fit(r) = r
      BY <3>1, <3>3, AllFits
    <3> QED BY <1>2, <3>4
  <2>4. Abstract!Front(dl) = Front(dl)
    BY DEF Abstract!Front, Front
  <2>5. Abstract!DropOldest
    BY <1>2, <2>2, <2>3, <2>4 DEF Abstract!DropOldest
  <2> QED BY <2>5 DEF Abstract!Next
<1> QED
  BY <1>1, <1>2 DEF RemoveAlone, RemoveOldest

LEMMA NextRefines == IInv /\ [Next]_vars => [Abstract!Next]_(Fit(dl))
<1> SUFFICES ASSUME IInv, [Next]_vars PROVE [Abstract!Next]_(Fit(dl))
  OBVIOUS
<1>1. ASSUME NEW k \in Keys, Get(k) PROVE Abstract!Next
  BY <1>1, GetRefines
<1>2. ASSUME NEW e \in Entries, Add(e) PROVE Abstract!Next
  BY <1>2, AddRefines
<1>3. CASE Purge
  BY <1>3, PurgeRefines
<1>4. CASE PurgeEnds
  BY <1>4 DEF PurgeEnds, Fit
<1>5. CASE RemoveAlone
  BY <1>5, RemoveAloneRefines
<1>6. CASE UNCHANGED vars
  BY <1>6 DEF vars, Fit
<1> QED
  BY <1>1, <1>2, <1>3, <1>4, <1>5, <1>6 DEF Next

LEMMA InitRefines == Init => Abstract!Init
<1> SUFFICES ASSUME Init PROVE Abstract!Init
  OBVIOUS
<1>1. dl = <<>>
  BY DEF Init
<1>2. Fit(<<>>) = <<>>
  <2> DEFINE s == <<>>
  <2>1. s \in Seq(Entries)
    BY EmptySeq
  <2>2. Total(s) = 0
    BY TotalNone
  <2> HIDE DEF s
  <2>3. Total(s) <= MaxBytes
    BY <2>2, LruAssumption
  <2>4. Fit(s) = s
    BY <2>1, <2>3, AllFits
  <2> QED BY <2>4 DEF s
<1>3. Fit(dl) = <<>>
  BY <1>1, <1>2
<1> QED
  BY <1>3 DEF Abstract!Init

----------------------------------------------------------------------------
(* The theorems *)

\* In every reachable state the list, the map and the byte count of the cache
\* (lru.go:7-81) are of their types and agree, and outside Add what is held fits.
THEOREM IInvCorrect == Spec => []IInv
<1>1. Init => IInv
  BY InitInv, InitFits DEF IInv
<1>2. IInv /\ [Next]_vars => IInv'
  BY NextListInv, NextFitsInv DEF IInv
<1> QED
  BY <1>1, <1>2, PTL DEF Spec

\* The state of Cache keeps its type (lru.go:7-15).
THEOREM TypeCorrect == Spec => []TypeOK
<1>1. IInv => TypeOK
  BY DEF IInv, ListInv
<1> QED
  BY IInvCorrect, <1>1, PTL

\* The list and the map hold the same keys, each once, and nBytes is the sum of
\* the sizes of what they hold, after any additions, replacements, hits and
\* removals (lru.go:41-81).
THEOREM AccountedCorrect == Spec => []Accounted
<1>1. IInv => Accounted
  BY DEF IInv, ListInv
<1> QED
  BY IInvCorrect, <1>1, PTL

\* However the purge of Add goes about it, the cache is one that holds the
\* entries used last, as many as fit, and evicts no other (lru.go:41-81).
THEOREM ImplementsRecencyCacheCorrect == Spec => ImplementsRecencyCache
<1>1. Init => Abstract!Init
  BY InitRefines
<1>2. IInv /\ [Next]_vars => [Abstract!Next]_(Fit(dl))
  BY NextRefines
<1> QED
  BY <1>1, <1>2, IInvCorrect, PTL DEF Spec, ImplementsRecencyCache, Abstract!Spec

=============================================================================
