-------------------------- MODULE GeeEngineProofs --------------------------
(***************************************************************************)
(* What GeeEngine promises of its chain of handlers and of its router,     *)
(* proved for any groups and middlewares, any routes and any nesting of    *)
(* Next.  The chain needs nothing of the router: any answer of it will do. *)
(* Of the router it is proved that its trie stays one the search can trust *)
(* and a route stays where it was put, and that the search of a path finds *)
(* the best of the routes that fit it.  Of groups it is proved that what   *)
(* serves a request runs behind the middlewares of all groups around it.   *)
(***************************************************************************)
EXTENDS GeeEngine, WellFoundedInduction, TLAPS

IsSeq(s) == s \in Seq(Range(s))

Used == {"user", "logger", "recovery"} \X Nat
Frame == [at : Nat, nexts : Nat]

\* The types the chain and the stack depend on.
ChainType ==
  /\ IsSeq(groups)
  /\ \A g \in DOMAIN groups : /\ groups[g].middlewares \in Seq(Used)
                              /\ "middlewares" \in DOMAIN groups[g]
  /\ IsSeq(chain)
  /\ index \in Nat
  /\ calls \in Seq(Frame)
  /\ entered \in Seq(Nat)
  /\ pc \in {"idle", "next", "handler", "aborted"}

\* A request begins with an empty history.
IdleInv ==
  pc = "idle" => /\ calls = <<>> /\ entered = <<>>
                 /\ failedAt = None /\ panicked = None

\* The index is at the last handler that began, or past the end.
IndexInv ==
  /\ Len(entered) <= Len(chain)
  /\ pc = "next" => index = Len(entered) \/ index >= Len(chain)
  /\ pc = "handler" => /\ calls # <<>>
                       /\ index + 1 = Len(entered) \/ index >= Len(chain)
                       /\ Top.nexts > 0 => index >= Len(chain)

\* The stack holds handlers in the order of the chain; one that always calls
\* Next leaves it only when the chain is at its end, or by a panic(nil).
OnStack(m) == \E k \in DOMAIN calls : calls[k].at = m
Left(m) == index >= Len(chain) /\ \A k \in DOMAIN calls : calls[k].at < m
StackInv ==
  /\ \A k \in DOMAIN calls : calls[k].at \in 1..Len(entered)
  /\ \A j, k \in DOMAIN calls : j < k => calls[j].at < calls[k].at
  /\ pc \in {"next", "handler"} /\ panicked # Silent =>
       \A m \in 1..Len(entered) :
         chain[m][1] = "recovery" => OnStack(m) \/ Left(m)

FailInv == failedAt # None => /\ Len(entered) = failedAt
                              /\ index >= Len(chain)

BehindRecovery(at) == \E i \in 1..(at - 1) : chain[i][1] = "recovery"
PanicInv ==
  panicked # None /\ BehindRecovery(panicked.at) =>
    /\ pc # "aborted"
    /\ sent = IF panicked.sent = None THEN 500 ELSE panicked.sent
    /\ sent # None

IInv == /\ ChainType
        /\ IdleInv
        /\ IndexInv
        /\ StackInv
        /\ FailInv
        /\ PanicInv
        /\ EnteredInOrder

----------------------------------------------------------------------------
(* Numbers and sequences *)

\* Every set of natural numbers has a least element.
LEMMA LeastNat ==
  ASSUME NEW T, T \subseteq Nat, T # {}
  PROVE  \E x \in T : \A y \in T : x <= y
<1> DEFINE R == {ss \in Nat \X Nat : ss[1] < ss[2]}
<1>1. IsWellFoundedOn(R, Nat)
  BY NatLessThanWellFounded DEF OpToRel
<1>2. PICK x \in T : \A y \in T : <<y, x>> \notin R
  <2> HIDE DEF R
  <2> QED BY <1>1, WFMin
<1>3. \A y \in T : ~(y < x)
  BY <1>2
<1> QED BY <1>3

\* Induction on a set of numbers.
LEMMA SetInduction ==
  ASSUME NEW S, 0 \in S, \A n \in Nat : n \in S => n + 1 \in S
  PROVE  Nat \subseteq S
<1> SUFFICES ASSUME Nat \ S # {} PROVE FALSE OBVIOUS
<1>1. PICK x \in Nat \ S : \A y \in Nat \ S : x <= y
  <2>1. Nat \ S \subseteq Nat
    OBVIOUS
  <2> QED
    BY <2>1, LeastNat
<1>2. x # 0 /\ x - 1 \in Nat
  BY <1>1
<1>3. x - 1 \in S
  BY <1>1, <1>2
<1>4. (x - 1) + 1 \in S
  BY <1>2, <1>3
<1> QED
  BY <1>1, <1>4

\* A bounded set of numbers has a greatest element.
LEMMA MaxOf ==
  ASSUME NEW n \in Nat, NEW T, T \subseteq 1..n, T # {}
  PROVE  Max(T) \in T /\ \A y \in T : Max(T) >= y
<1> DEFINE U == {n - x : x \in T}
<1>1. U \subseteq Nat /\ U # {}
  <2>1. \A x \in T : n - x \in Nat
    OBVIOUS
  <2> QED BY <2>1
<1>2. PICK u \in U : \A v \in U : u <= v
  <2> HIDE DEF U
  <2> QED BY <1>1, LeastNat
<1>3. PICK x \in T : u = n - x
  BY <1>2
<1>4. \A y \in T : x >= y
  <2> TAKE y \in T
  <2>1. n - x <= n - y
    BY <1>2, <1>3
  <2> QED
    BY <2>1
<1> QED
  BY <1>4 DEF Max

\* The sequence of all elements of sequences over S, one of them at a time.
LEMMA FlattenFacts ==
  ASSUME NEW S, NEW seqs \in Seq(Seq(S)), seqs # <<>>
  PROVE  \E f : /\ \A i \in 1..Len(seqs) :
                    /\ f[i] = IF i = 1 THEN seqs[i] ELSE f[i - 1] \o seqs[i]
                    /\ f[i] \in Seq(S)
               /\ FlattenSeq(seqs) = f[Len(seqs)]
<1> DEFINE n == Len(seqs)
           Step(f, i) == IF i = 1 THEN seqs[i] ELSE f[i - 1] \o seqs[i]
           Good(f, k) == /\ f \in [1..k -> Seq(S)]
                         /\ \A i \in 1..k : f[i] = Step(f, i)
           flatten == CHOOSE f : f = [i \in 1..n |-> Step(f, i)]
<1>t. n \in Nat /\ n # 0 /\ \A i \in 1..n : seqs[i] \in Seq(S)
  OBVIOUS
<1> DEFINE Exists(k) == k <= n => \E f : Good(f, k)
           Built == {k \in Nat : Exists(k)}
<1>1. Exists(0)
  <2>1. Good(<<>>, 0)
    OBVIOUS
  <2> QED BY <2>1
<1>2. ASSUME NEW k \in Nat, Exists(k) PROVE Exists(k + 1)
  <2> SUFFICES ASSUME k + 1 <= n PROVE \E f : Good(f, k + 1) OBVIOUS
  <2>1. PICK f : Good(f, k)
    <3>1. k <= n
      BY <1>t
    <3> HIDE DEF Good
    <3> QED BY <1>2, <3>1
  <2> DEFINE new == IF k = 0 THEN seqs[1] ELSE f[k] \o seqs[k + 1]
             g == [i \in 1..(k + 1) |-> IF i = k + 1 THEN new ELSE f[i]]
  <2>2. new \in Seq(S)
    BY <2>1, <1>t
  <2>3. g \in [1..(k + 1) -> Seq(S)]
    BY <2>1, <2>2
  <2>4. ASSUME NEW i \in 1..(k + 1) PROVE g[i] = Step(g, i)
    <3>1. CASE i = k + 1
      BY <2>1, <3>1
    <3>2. CASE i \in 1..k
      <4>1. g[i] = f[i] /\ (i # 1 => g[i - 1] = f[i - 1])
        BY <3>2
      <4> QED
        BY <2>1, <3>2, <4>1
    <3> QED
      BY <3>1, <3>2
  <2> QED
    BY <2>3, <2>4
<1>3. \E f : Good(f, n)
  <2>1. Exists(n)
    <3> HIDE DEF Exists
    <3>1. 0 \in Built /\ \A k \in Nat : k \in Built => k + 1 \in Built
      BY <1>1, <1>2
    <3>2. Nat \subseteq Built
      <4> HIDE DEF Built
      <4> QED BY <3>1, SetInduction
    <3> QED
      BY <1>t, <3>2
  <2> HIDE DEF Good
  <2> QED
    BY <1>t, <2>1
<1>4. \E f : f = [i \in 1..n |-> Step(f, i)]
  <2>1. PICK f : Good(f, n)
    BY <1>3
  <2>2. f = [i \in 1..n |-> Step(f, i)]
    BY <2>1
  <2> QED BY <2>2
<1>5. flatten = [i \in 1..n |-> Step(flatten, i)]
  BY <1>4, Zenon
<1> HIDE DEF flatten
<1> DEFINE Typed(k) == k + 1 <= n => flatten[k + 1] \in Seq(S)
           TypedTo == {k \in Nat : Typed(k)}
<1>6. Typed(0)
  BY <1>5, <1>t
<1>7. ASSUME NEW k \in Nat, Typed(k) PROVE Typed(k + 1)
  <2> SUFFICES ASSUME (k + 1) + 1 <= n PROVE flatten[(k + 1) + 1] \in Seq(S) OBVIOUS
  <2>1. flatten[k + 1] \in Seq(S)
    BY <1>7, <1>t
  <2>2. /\ (k + 1) + 1 \in 1..n /\ (k + 1) + 1 # 1 /\ ((k + 1) + 1) - 1 = k + 1
    BY <1>t
  <2>3. flatten[(k + 1) + 1] = flatten[k + 1] \o seqs[(k + 1) + 1]
    BY <1>5, <2>2
  <2> QED
    BY <2>1, <2>2, <2>3, <1>t
<1>8. ASSUME NEW i \in 1..n PROVE flatten[i] \in Seq(S)
  <2>1. i - 1 \in Nat /\ (i - 1) + 1 = i /\ i <= n
    BY <1>t
  <2>2. Typed(i - 1)
    <3> HIDE DEF Typed
    <3>1. 0 \in TypedTo /\ \A k \in Nat : k \in TypedTo => k + 1 \in TypedTo
      BY <1>6, <1>7
    <3>2. Nat \subseteq TypedTo
      <4> HIDE DEF TypedTo
      <4> QED BY <3>1, SetInduction
    <3> QED
      BY <2>1, <3>2
  <2> QED BY <2>1, <2>2
<1>9. FlattenSeq(seqs) = flatten[n]
  BY <1>t DEF FlattenSeq, flatten
<1>10. \A i \in 1..n : flatten[i] = IF i = 1 THEN seqs[i] ELSE flatten[i - 1] \o seqs[i]
  BY <1>5
<1> QED
  BY <1>8, <1>9, <1>10

\* So it is a sequence over S.
LEMMA FlattenType ==
  ASSUME NEW S, NEW seqs \in Seq(Seq(S))
  PROVE  FlattenSeq(seqs) \in Seq(S)
<1>1. CASE seqs = <<>>
  BY <1>1 DEF FlattenSeq
<1>2. CASE seqs # <<>>
  <2>1. PICK f : /\ \A i \in 1..Len(seqs) : f[i] \in Seq(S)
                 /\ FlattenSeq(seqs) = f[Len(seqs)]
    BY <1>2, FlattenFacts
  <2>2. Len(seqs) \in 1..Len(seqs)
    BY <1>2
  <2> QED BY <2>1, <2>2
<1> QED
  BY <1>1, <1>2

\* What IsSeq says, and that Append and the change of an element keep it.
LEMMA SeqFacts ==
  ASSUME NEW s, IsSeq(s)
  PROVE  /\ Len(s) \in Nat /\ DOMAIN s = 1..Len(s)
         /\ \A x : IsSeq(Append(s, x)) /\ Len(Append(s, x)) = Len(s) + 1
                   /\ \A i \in 1..(Len(s) + 1) :
                        Append(s, x)[i] = IF i = Len(s) + 1 THEN x ELSE s[i]
         /\ \A g, x : LET t == [s EXCEPT ![g] = x]
                     IN  IsSeq(t) /\ Len(t) = Len(s) /\ DOMAIN t = DOMAIN s
<1>s. s \in Seq(Range(s))
  BY DEF IsSeq
<1>1. Len(s) \in Nat /\ DOMAIN s = 1..Len(s)
  BY <1>s
<1>2. ASSUME NEW S, NEW t \in Seq(S) PROVE IsSeq(t)
  BY DEF IsSeq, Range
<1>3. ASSUME NEW x
      PROVE  /\ IsSeq(Append(s, x)) /\ Len(Append(s, x)) = Len(s) + 1
             /\ \A i \in 1..(Len(s) + 1) :
                  Append(s, x)[i] = IF i = Len(s) + 1 THEN x ELSE s[i]
  <2> DEFINE S == Range(s) \cup {x}
  <2>1. s \in Seq(S)
    BY <1>s
  <2>2. x \in S
    OBVIOUS
  <2> HIDE DEF S
  <2>3. Append(s, x) \in Seq(S)
    BY <2>1, <2>2
  <2>4. IsSeq(Append(s, x))
    BY <1>2, <2>3
  <2> QED
    BY <2>1, <2>2, <2>4
<1>4. ASSUME NEW g, NEW x
      PROVE  LET t == [s EXCEPT ![g] = x]
             IN  IsSeq(t) /\ Len(t) = Len(s) /\ DOMAIN t = DOMAIN s
  <2> DEFINE S == Range(s) \cup {x}
             t == [s EXCEPT ![g] = x]
  <2>1. t \in [1..Len(s) -> S]
    BY <1>1 DEF Range
  <2>2. t \in Seq(S) /\ Len(t) = Len(s)
    <3> HIDE DEF S, t
    <3> QED BY <1>1, <2>1
  <2>3. IsSeq(t)
    <3> HIDE DEF S, t
    <3> QED BY <1>2, <2>2
  <2> QED
    BY <2>2, <2>3
<1> QED
  BY <1>1, <1>3, <1>4

\* The first n elements of a sequence.
LEMMA FirstOf ==
  ASSUME NEW S, NEW s \in Seq(S), NEW n \in 0..Len(s)
  PROVE  /\ SubSeq(s, 1, n) \in Seq(S) /\ Len(SubSeq(s, 1, n)) = n
         /\ DOMAIN SubSeq(s, 1, n) = 1..n /\ 1..n \subseteq DOMAIN s
         /\ \A i \in 1..n : SubSeq(s, 1, n)[i] = s[i]
OBVIOUS

\* A sequence is one over its own elements; two elements make a sequence; and
\* an element may be replaced.
LEMMA SeqIsSeq ==
  ASSUME NEW S
  PROVE  /\ <<>> \in Seq(S)
         /\ \A x, y \in S : <<x, y>> \in Seq(S)
         /\ \A s \in Seq(S) : IsSeq(s)
         /\ \A s \in Seq(S), i, x \in S :
              i \in DOMAIN s => [s EXCEPT ![i] = x] \in Seq(S)
BY DEF IsSeq, Range

\* A call of Next is counted in the frame of the handler.
LEMMA FrameFacts ==
  ASSUME NEW f \in Frame
  PROVE  LET g == [f EXCEPT !.nexts = f.nexts + 1]
         IN  g \in Frame /\ g.at = f.at /\ g.nexts = f.nexts + 1
<1>1. f = [at |-> f.at, nexts |-> f.nexts] /\ f.at \in Nat /\ f.nexts \in Nat
  BY DEF Frame
<1> QED
  BY <1>1 DEF Frame

\* Sequences that agree everywhere are one.
LEMMA SameSeq ==
  ASSUME NEW S, NEW s \in Seq(S), NEW t \in Seq(S), Len(s) = Len(t),
         \A i \in 1..Len(s) : s[i] = t[i]
  PROVE  s = t
OBVIOUS

\* Two sequences that agree up to a place have the same beginning there.
LEMMA SameBeginning ==
  ASSUME NEW S, NEW s \in Seq(S), NEW t \in Seq(S), NEW n \in 0..Len(s), n <= Len(t),
         \A i \in 1..n : s[i] = t[i]
  PROVE  SubSeq(s, 1, n) = SubSeq(t, 1, n)
<1>1. n \in 0..Len(t)
  OBVIOUS
<1>2. /\ SubSeq(s, 1, n) \in Seq(S) /\ Len(SubSeq(s, 1, n)) = n
      /\ SubSeq(t, 1, n) \in Seq(S) /\ Len(SubSeq(t, 1, n)) = n
      /\ \A i \in 1..n : SubSeq(s, 1, n)[i] = SubSeq(t, 1, n)[i]
  BY <1>1, FirstOf
<1> DEFINE a == SubSeq(s, 1, n)
           b == SubSeq(t, 1, n)
<1> HIDE DEF a, b
<1>3. a \in Seq(S) /\ b \in Seq(S) /\ Len(a) = n /\ Len(b) = n /\ \A i \in 1..n : a[i] = b[i]
  BY <1>2 DEF a, b
<1>4. a = b
  BY <1>3
<1> QED
  BY <1>4 DEF a, b

\* A beginning of a sequence, and the one that is shorter by an element.
LEMMA BeginningFront ==
  ASSUME NEW S, NEW s \in Seq(S), NEW j \in 1..Len(s)
  PROVE  /\ SubSeq(s, 1, j) \in Seq(S) /\ SubSeq(s, 1, j) # <<>>
         /\ Front(SubSeq(s, 1, j)) = SubSeq(s, 1, j - 1)
         /\ Last(SubSeq(s, 1, j)) = s[j]
<1> DEFINE a == SubSeq(s, 1, j)
<1>1. /\ a \in Seq(S) /\ Len(a) = j /\ j \in Nat /\ j >= 1
      /\ \A i \in 1..j : a[i] = s[i]
  BY FirstOf
<1> HIDE DEF a
<1>2. a # <<>> /\ Last(a) = s[j]
  BY <1>1 DEF Last
<1>3. SubSeq(a, 1, j - 1) = SubSeq(s, 1, j - 1)
  <2>1. j - 1 \in 0..Len(a) /\ j - 1 <= Len(s) /\ \A i \in 1..(j - 1) : a[i] = s[i]
    BY <1>1
  <2> QED BY <1>1, <2>1, SameBeginning
<1> QED
  BY <1>1, <1>2, <1>3 DEF Front, a

\* Append and what it appends to.
LEMMA AppendFront ==
  ASSUME NEW S, NEW s \in Seq(S), NEW x \in S
  PROVE  /\ Append(s, x) \in Seq(S) /\ Append(s, x) # <<>>
         /\ Len(Append(s, x)) = Len(s) + 1 /\ Last(Append(s, x)) = x
         /\ Front(Append(s, x)) = s
<1> DEFINE a == Append(s, x)
<1>1. /\ a \in Seq(S) /\ Len(a) = Len(s) + 1 /\ a[Len(s) + 1] = x /\ Len(s) \in Nat
      /\ \A i \in 1..Len(s) : a[i] = s[i]
  OBVIOUS
<1> HIDE DEF a
<1>2. SubSeq(a, 1, Len(a) - 1) \in Seq(S) /\ Len(SubSeq(a, 1, Len(a) - 1)) = Len(s)
      /\ \A i \in 1..Len(s) : SubSeq(a, 1, Len(a) - 1)[i] = s[i]
  <2>1. Len(a) - 1 \in 0..Len(a) /\ Len(a) - 1 = Len(s)
    BY <1>1
  <2> QED BY <1>1, <2>1, FirstOf
<1> DEFINE f == SubSeq(a, 1, Len(a) - 1)
<1> HIDE DEF f
<1>3. f \in Seq(S) /\ Len(f) = Len(s) /\ \A i \in 1..Len(s) : f[i] = s[i]
  BY <1>2 DEF f
<1>4. f = s
  BY <1>3
<1>5. a # <<>> /\ Last(a) = x
  BY <1>1 DEF Last
<1> QED
  BY <1>1, <1>4, <1>5 DEF Front, f, a

\* What a concatenation holds.
LEMMA ConcatFacts ==
  ASSUME NEW S, NEW s \in Seq(S), NEW t \in Seq(S)
  PROVE  /\ s \o t \in Seq(S) /\ Len(s \o t) = Len(s) + Len(t)
         /\ \A j \in 1..(Len(s) + Len(t)) :
              (s \o t)[j] = IF j <= Len(s) THEN s[j] ELSE t[j - Len(s)]
OBVIOUS

\* A sequence grows by its next element, or by all that follow.
Grows(a, i) == /\ SubSeq(a, 1, i - 1) \o <<a[i]>> = SubSeq(a, 1, i)
               /\ SubSeq(a, 1, i - 1) \o SubSeq(a, i, Len(a)) = a

\* Every sequence grows so.
LEMMA Joined ==
  ASSUME NEW S, NEW a \in Seq(S), NEW i \in 1..Len(a)
  PROVE  /\ Grows(a, i)
         /\ <<a[1]>> = SubSeq(a, 1, 1) /\ SubSeq(a, 1, Len(a)) = a
         /\ <<a[i]>> \in Seq(S) /\ SubSeq(a, i, Len(a)) \in Seq(S)
<1> DEFINE l == Len(a)
           b == SubSeq(a, 1, i - 1)
           c == SubSeq(a, i, l)
           x == a[i]
           e == <<x>>
<1>n. l \in Nat /\ i \in 1..l /\ i - 1 \in 0..l /\ i \in 0..l /\ 1 \in 0..l /\ l \in 0..l
      /\ x \in S /\ a[1] \in S
  OBVIOUS
<1>1. b \in Seq(S) /\ Len(b) = i - 1 /\ \A j \in 1..(i - 1) : b[j] = a[j]
  BY <1>n, FirstOf
<1>2. c \in Seq(S) /\ Len(c) = l - i + 1 /\ \A j \in 1..(l - i + 1) : c[j] = a[i + j - 1]
  BY <1>n
<1>3. \A y \in S : <<y>> \in Seq(S) /\ Len(<<y>>) = 1 /\ <<y>>[1] = y
  OBVIOUS
<1> HIDE DEF b, c, l
<1>4. b \o e = SubSeq(a, 1, i)
  <2> DEFINE s == b \o e
             t == SubSeq(a, 1, i)
  <2>1. e \in Seq(S) /\ Len(e) = 1 /\ e[1] = x
    BY <1>n, <1>3
  <2> HIDE DEF e
  <2>2. s \in Seq(S) /\ Len(s) = i /\ \A j \in 1..i : s[j] = IF j = i THEN x ELSE a[j]
    <3>1. /\ s \in Seq(S) /\ Len(s) = Len(b) + Len(e)
          /\ \A j \in 1..(Len(b) + Len(e)) : s[j] = IF j <= Len(b) THEN b[j] ELSE e[j - Len(b)]
      BY <1>1, <2>1, ConcatFacts
    <3> HIDE DEF s
    <3>2. Len(s) = i
      BY <1>n, <1>1, <2>1, <3>1
    <3>3. ASSUME NEW j \in 1..i PROVE s[j] = IF j = i THEN x ELSE a[j]
      <4>1. CASE j = i
        <5>1. ~(j <= Len(b)) /\ j - Len(b) = 1
          BY <1>n, <1>1, <4>1
        <5> QED BY <1>n, <1>1, <2>1, <3>1, <4>1, <5>1
      <4>2. CASE j # i
        <5>1. j \in 1..(i - 1) /\ j <= Len(b)
          BY <1>n, <1>1, <4>2
        <5> QED BY <1>n, <1>1, <2>1, <3>1, <4>2, <5>1
      <4> QED BY <4>1, <4>2
    <3> QED BY <3>1, <3>2, <3>3
  <2>3. t \in Seq(S) /\ Len(t) = i /\ \A j \in 1..i : t[j] = a[j]
    BY <1>n, FirstOf DEF l
  <2> HIDE DEF s, t
  <2>4. s = t
    BY <2>2, <2>3, SameSeq
  <2> QED BY <2>4 DEF s, t
<1>5. b \o c = a
  <2> DEFINE s == b \o c
  <2>1. s \in Seq(S) /\ Len(s) = l
        /\ \A j \in 1..l : s[j] = IF j <= i - 1 THEN b[j] ELSE c[j - (i - 1)]
    <3>1. /\ s \in Seq(S) /\ Len(s) = Len(b) + Len(c)
          /\ \A j \in 1..(Len(b) + Len(c)) : s[j] = IF j <= Len(b) THEN b[j] ELSE c[j - Len(b)]
      BY <1>1, <1>2, ConcatFacts
    <3>2. Len(b) = i - 1 /\ Len(b) + Len(c) = l
      BY <1>n, <1>1, <1>2
    <3> HIDE DEF s
    <3> QED BY <3>1, <3>2
  <2> HIDE DEF s
  <2>2. \A j \in 1..l : s[j] = a[j]
    <3> TAKE j \in 1..l
    <3>1. CASE j <= i - 1
      <4>1. j \in 1..(i - 1)
        BY <1>n, <3>1
      <4> QED BY <1>1, <2>1, <3>1, <4>1
    <3>2. CASE ~(j <= i - 1)
      <4>1. j - (i - 1) \in 1..(l - i + 1) /\ i + (j - (i - 1)) - 1 = j
        BY <1>n, <3>2
      <4> QED BY <1>2, <2>1, <3>2, <4>1
    <3> QED BY <3>1, <3>2
  <2>3. s = a
    BY <2>1, <2>2, SameSeq DEF l
  <2> QED BY <2>3 DEF s
<1>6. <<a[1]>> = SubSeq(a, 1, 1)
  <2> DEFINE y == a[1]
             s == <<y>>
             t == SubSeq(a, 1, 1)
  <2>1. s \in Seq(S) /\ Len(s) = 1 /\ s[1] = y
    BY <1>n, <1>3
  <2>2. t \in Seq(S) /\ Len(t) = 1 /\ t[1] = y
    <3>1. 1 \in 1..1
      OBVIOUS
    <3> QED BY <1>n, <3>1, FirstOf DEF l
  <2> HIDE DEF s, t, y
  <2>3. \A j \in 1..Len(s) : s[j] = t[j]
    BY <2>1, <2>2
  <2>4. s = t
    BY <2>1, <2>2, <2>3, SameSeq
  <2> QED BY <2>4 DEF s, t, y
<1>7. SubSeq(a, 1, l) = a
  <2> DEFINE t == SubSeq(a, 1, l)
  <2>1. t \in Seq(S) /\ Len(t) = l /\ \A j \in 1..l : t[j] = a[j]
    BY <1>n, FirstOf DEF l
  <2> HIDE DEF t
  <2>2. t = a
    BY <2>1, SameSeq DEF l
  <2> QED BY <2>2 DEF t
<1> QED
  <2>1. Grows(a, i)
    BY <1>4, <1>5 DEF Grows, b, c, e, l
  <2> QED BY <1>n, <1>2, <1>3, <1>6, <1>7, <2>1 DEF c, l

----------------------------------------------------------------------------
(* The trie *)

\* The parts of paths and patterns; that they are strings is not needed.
Part == STRING

\* The least of a set of numbers.
LEMMA MinOf ==
  ASSUME NEW T, T \subseteq Nat, T # {}
  PROVE  Min(T) \in T /\ \A y \in T : Min(T) <= y
<1>1. \E x \in T : \A y \in T : x <= y
  BY LeastNat
<1> QED
  BY <1>1 DEF Min

\* The nodes are sequences of parts, and so are their children.
TrieType(T) ==
  /\ DOMAIN T \subseteq Seq(Part)
  /\ \A n \in DOMAIN T : T[n].children \in Seq(Part)

\* The part below which insert goes on is that of a child that matches, or new;
\* then no child is a wildcard.
LEMMA BelowFacts ==
  ASSUME NEW node, node.children \in Seq(Part), NEW part \in Part,
         NEW b, b = InsertBelow(node, part)
  PROVE  /\ b \in Part
         /\ b \notin Range(node.children) =>
              b = part /\ \A i \in DOMAIN node.children : node.children[i] \notin Wild
<1> DEFINE hits == MatchChildren(node, part)
<1>1. CASE hits = {}
  <2>1. b = part
    BY <1>1 DEF InsertBelow
  <2>2. \A i \in DOMAIN node.children : node.children[i] \notin Wild
    BY <1>1 DEF MatchChildren
  <2> QED BY <2>1, <2>2
<1>2. CASE hits # {}
  <2>1. hits \subseteq DOMAIN node.children /\ DOMAIN node.children \subseteq Nat
    BY DEF MatchChildren
  <2>2. Min(hits) \in DOMAIN node.children
    <3> HIDE DEF hits
    <3> QED BY <1>2, <2>1, MinOf
  <2>3. b = node.children[Min(hits)]
    BY <1>2 DEF InsertBelow
  <2>4. node.children[Min(hits)] \in Part /\ node.children[Min(hits)] \in Range(node.children)
    <3> DEFINE m == Min(hits)
    <3>1. m \in DOMAIN node.children
      BY <2>2
    <3> HIDE DEF m
    <3>2. node.children[m] \in Part /\ node.children[m] \in Range(node.children)
      BY <3>1 DEF Range
    <3> QED BY <3>2 DEF m
  <2> QED
    BY <2>3, <2>4
<1> QED
  BY <1>1, <1>2

\* A node that does not exist yet has no children.
LEMMA NodeType ==
  ASSUME NEW T, TrieType(T), NEW n
  PROVE  NodeOf(T, n).children \in Seq(Part)
BY SeqIsSeq DEF TrieType, NodeOf, NewNode

\* insert goes down by one part (trie.go:37-51).
StepOf(T, q, w, i) == Append(w, InsertBelow(NodeOf(T, w), q[i]))

\* It stays among sequences of parts.
LEMMA StepType ==
  ASSUME NEW T, TrieType(T), NEW q \in Seq(Part), NEW i \in 1..Len(q),
         NEW w \in Seq(Part)
  PROVE  /\ StepOf(T, q, w, i) \in Seq(Part)
         /\ Len(StepOf(T, q, w, i)) = Len(w) + 1
<1> DEFINE b == InsertBelow(NodeOf(T, w), q[i])
<1>1. q[i] \in Part
  OBVIOUS
<1>2. b \in Part
  BY <1>1, NodeType, BelowFacts
<1> HIDE DEF b
<1>3. \A x \in Part : Append(w, x) \in Seq(Part) /\ Len(Append(w, x)) = Len(w) + 1
  OBVIOUS
<1>4. Append(w, b) \in Seq(Part) /\ Len(Append(w, b)) = Len(w) + 1
  BY <1>2, <1>3
<1> QED
  BY <1>4 DEF b, StepOf

\* The way of a pattern begins at the root and goes down by a part at a time.
LEMMA WayFacts ==
  ASSUME NEW T, TrieType(T), NEW q \in Seq(Part), NEW way, way = WayOf(T, q)
  PROVE  /\ way[0] = <<>>
         /\ \A i \in 1..Len(q) : way[i] = StepOf(T, q, way[i - 1], i)
         /\ \A i \in 0..Len(q) : way[i] \in Seq(Part) /\ Len(way[i]) = i
<1> DEFINE n == Len(q)
           Step(f, i) == IF i = 0 THEN <<>> ELSE StepOf(T, q, f[i - 1], i)
           Good(f, k) == /\ f \in [0..k -> Seq(Part)]
                         /\ \A i \in 0..k : f[i] = Step(f, i)
           Exists(k) == k <= n => \E f : Good(f, k)
           Built == {k \in Nat : Exists(k)}
<1>n. n \in Nat
  OBVIOUS
<1>1. Exists(0)
  <2> DEFINE f == [i \in 0..0 |-> <<>>]
  <2>1. <<>> \in Seq(Part)
    BY SeqIsSeq
  <2>2. f \in [0..0 -> Seq(Part)]
    BY <2>1
  <2>3. \A i \in 0..0 : i = 0
    OBVIOUS
  <2>4. \A i \in 0..0 : f[i] = Step(f, i)
    BY <2>3
  <2> QED BY <2>2, <2>4
<1>2. ASSUME NEW k \in Nat, Exists(k) PROVE Exists(k + 1)
  <2> SUFFICES ASSUME k + 1 <= n PROVE \E f : Good(f, k + 1) OBVIOUS
  <2>1. PICK f : Good(f, k)
    <3>1. k <= n
      BY <1>n
    <3> HIDE DEF Good
    <3> QED BY <1>2, <3>1
  <2> DEFINE new == StepOf(T, q, f[k], k + 1)
             g == [i \in 0..(k + 1) |-> IF i = k + 1 THEN new ELSE f[i]]
  <2>2. new \in Seq(Part)
    <3>1. f[k] \in Seq(Part) /\ k + 1 \in 1..n
      BY <1>n, <2>1
    <3> QED BY <3>1, StepType
  <2> HIDE DEF new
  <2>3. g \in [0..(k + 1) -> Seq(Part)]
    BY <2>1, <2>2
  <2>4. ASSUME NEW i \in 0..(k + 1) PROVE g[i] = Step(g, i)
    <3>1. CASE i = k + 1
      <4>1. g[i] = new /\ g[i - 1] = f[k] /\ i # 0
        BY <3>1
      <4> QED BY <3>1, <4>1 DEF new
    <3>2. CASE i \in 0..k
      <4>1. g[i] = f[i] /\ (i # 0 => g[i - 1] = f[i - 1])
        BY <3>2
      <4>2. f[i] = Step(f, i)
        BY <2>1, <3>2
      <4> QED
        BY <3>2, <4>1, <4>2
    <3> QED
      BY <3>1, <3>2
  <2> QED
    BY <2>3, <2>4
<1>3. \E f : Good(f, n)
  <2>1. Exists(n)
    <3> HIDE DEF Exists
    <3>1. 0 \in Built /\ \A k \in Nat : k \in Built => k + 1 \in Built
      BY <1>1, <1>2
    <3>2. Nat \subseteq Built
      <4> HIDE DEF Built
      <4> QED BY <3>1, SetInduction
    <3> QED
      BY <1>n, <3>2
  <2> HIDE DEF Good
  <2> QED
    BY <1>n, <2>1
<1>4. \E f : f = [i \in 0..n |-> Step(f, i)]
  <2>1. PICK f : Good(f, n)
    BY <1>3
  <2>2. f = [i \in 0..n |-> Step(f, i)]
    BY <2>1
  <2> QED BY <2>2
<1> DEFINE chosen == CHOOSE f : f = [i \in 0..n |-> Step(f, i)]
<1>5. chosen = [i \in 0..n |-> Step(chosen, i)]
  BY <1>4
<1>6. way = chosen
  BY DEF WayOf, StepOf
<1> HIDE DEF chosen
<1>7. \A i \in 0..n : way[i] = Step(way, i)
  BY <1>5, <1>6
<1> DEFINE Typed(k) == k <= n => way[k] \in Seq(Part) /\ Len(way[k]) = k
           TypedTo == {k \in Nat : Typed(k)}
<1>8. way[0] = <<>>
  BY <1>7, <1>n
<1>9. Typed(0)
  BY <1>8, SeqIsSeq
<1>10. \A i \in 1..n : way[i] = StepOf(T, q, way[i - 1], i)
  BY <1>7
<1>11. ASSUME NEW k \in Nat, Typed(k) PROVE Typed(k + 1)
  <2> SUFFICES ASSUME k + 1 <= n
               PROVE  way[k + 1] \in Seq(Part) /\ Len(way[k + 1]) = k + 1
    OBVIOUS
  <2>1. way[k] \in Seq(Part) /\ Len(way[k]) = k /\ k + 1 \in 1..n /\ (k + 1) - 1 = k
    BY <1>11, <1>n
  <2>2. way[k + 1] = StepOf(T, q, way[k], k + 1)
    BY <1>10, <2>1
  <2> DEFINE w == way[k]
             i == k + 1
  <2>3. w \in Seq(Part) /\ Len(w) = k /\ i \in 1..Len(q)
    BY <2>1
  <2> HIDE DEF w, i
  <2>4. StepOf(T, q, w, i) \in Seq(Part) /\ Len(StepOf(T, q, w, i)) = Len(w) + 1
    BY <2>3, StepType
  <2> QED
    BY <2>2, <2>3, <2>4 DEF w, i
<1>12. \A i \in 0..n : way[i] \in Seq(Part) /\ Len(way[i]) = i
  <2> HIDE DEF Typed
  <2>1. 0 \in TypedTo /\ \A k \in Nat : k \in TypedTo => k + 1 \in TypedTo
    BY <1>9, <1>11
  <2>2. Nat \subseteq TypedTo
    <3> HIDE DEF TypedTo
    <3> QED BY <2>1, SetInduction
  <2>3. \A i \in 0..n : Typed(i)
    BY <1>n, <2>2
  <2> QED
    BY <1>n, <2>3 DEF Typed
<1> QED
  BY <1>8, <1>10, <1>12

\* Parts that end with a catch-all.
Caught(parts) == parts # <<>> /\ Last(parts) \in CatchAlls

\* The parts once one more piece of a pattern has been looked at.
Parsing(parts, piece) ==
  IF piece = Blank \/ Caught(parts) THEN parts ELSE Append(parts, piece)

\* What ParsePattern computes, piece by piece.
LEMMA ParseFacts ==
  ASSUME NEW p \in Seq(Part)
  PROVE  \E f : /\ f[0] = <<>>
                /\ \A i \in 1..Len(p) : f[i] = Parsing(f[i - 1], p[i])
                /\ \A i \in 0..Len(p) : f[i] \in Seq(Part)
                /\ ParsePattern(p) = f[Len(p)]
<1> DEFINE n == Len(p)
           Step(f, i) == IF i = 0 THEN <<>> ELSE Parsing(f[i - 1], p[i])
           Good(f, k) == /\ f \in [0..k -> Seq(Part)]
                         /\ \A i \in 0..k : f[i] = Step(f, i)
           Exists(k) == k <= n => \E f : Good(f, k)
           Built == {k \in Nat : Exists(k)}
<1>n. n \in Nat
  OBVIOUS
<1>p. \A s \in Seq(Part), x \in Part : Parsing(s, x) \in Seq(Part)
  BY DEF Parsing
<1>0. <<>> \in Seq(Part)
  BY SeqIsSeq
<1>1. Exists(0)
  <2> DEFINE f == [i \in 0..0 |-> <<>>]
  <2>1. f \in [0..0 -> Seq(Part)]
    BY <1>0
  <2>2. \A i \in 0..0 : i = 0
    OBVIOUS
  <2>3. \A i \in 0..0 : f[i] = Step(f, i)
    BY <2>2
  <2> QED BY <2>1, <2>3
<1>2. ASSUME NEW k \in Nat, Exists(k) PROVE Exists(k + 1)
  <2> SUFFICES ASSUME k + 1 <= n PROVE \E f : Good(f, k + 1) OBVIOUS
  <2>1. PICK f : Good(f, k)
    <3>1. k <= n
      BY <1>n
    <3> HIDE DEF Good
    <3> QED BY <1>2, <3>1
  <2> DEFINE new == Parsing(f[k], p[k + 1])
             g == [i \in 0..(k + 1) |-> IF i = k + 1 THEN new ELSE f[i]]
  <2>2. new \in Seq(Part)
    <3>1. f[k] \in Seq(Part) /\ p[k + 1] \in Part
      BY <1>n, <2>1
    <3> QED BY <1>p, <3>1
  <2> HIDE DEF new
  <2>3. g \in [0..(k + 1) -> Seq(Part)]
    BY <2>1, <2>2
  <2>4. ASSUME NEW i \in 0..(k + 1) PROVE g[i] = Step(g, i)
    <3>1. CASE i = k + 1
      <4>1. g[i] = new /\ g[i - 1] = f[k] /\ i # 0
        BY <3>1
      <4> QED BY <3>1, <4>1 DEF new
    <3>2. CASE i \in 0..k
      <4>1. g[i] = f[i] /\ (i # 0 => g[i - 1] = f[i - 1])
        BY <3>2
      <4>2. f[i] = Step(f, i)
        BY <2>1, <3>2
      <4> QED
        BY <3>2, <4>1, <4>2
    <3> QED
      BY <3>1, <3>2
  <2> QED
    BY <2>3, <2>4
<1>3. \E f : Good(f, n)
  <2>1. Exists(n)
    <3> HIDE DEF Exists
    <3>1. 0 \in Built /\ \A k \in Nat : k \in Built => k + 1 \in Built
      BY <1>1, <1>2
    <3>2. Nat \subseteq Built
      <4> HIDE DEF Built
      <4> QED BY <3>1, SetInduction
    <3> QED
      BY <1>n, <3>2
  <2> HIDE DEF Good
  <2> QED
    BY <1>n, <2>1
<1>4. \E f : f = [i \in 0..n |-> Step(f, i)]
  <2>1. PICK f : Good(f, n)
    BY <1>3
  <2>2. f = [i \in 0..n |-> Step(f, i)]
    BY <2>1
  <2> QED BY <2>2
<1> DEFINE chosen == CHOOSE f : f = [i \in 0..n |-> Step(f, i)]
<1>5. chosen = [i \in 0..n |-> Step(chosen, i)]
  BY <1>4
<1>6. ParsePattern(p) = chosen[n]
  BY DEF ParsePattern, Parsing, Caught
<1> HIDE DEF chosen
<1>7. chosen[0] = <<>> /\ \A i \in 1..n : chosen[i] = Parsing(chosen[i - 1], p[i])
  BY <1>5, <1>n
<1> DEFINE Typed(k) == k <= n => chosen[k] \in Seq(Part)
           TypedTo == {k \in Nat : Typed(k)}
<1>8. Typed(0)
  BY <1>7, <1>0
<1>9. ASSUME NEW k \in Nat, Typed(k) PROVE Typed(k + 1)
  <2> SUFFICES ASSUME k + 1 <= n PROVE chosen[k + 1] \in Seq(Part)
    OBVIOUS
  <2>1. chosen[k] \in Seq(Part) /\ k + 1 \in 1..n /\ (k + 1) - 1 = k
    BY <1>9, <1>n
  <2>2. chosen[k + 1] = Parsing(chosen[k], p[k + 1]) /\ p[k + 1] \in Part
    BY <1>7, <2>1
  <2> QED BY <1>p, <2>1, <2>2
<1>10. \A i \in 0..n : chosen[i] \in Seq(Part)
  <2> HIDE DEF Typed
  <2>1. 0 \in TypedTo /\ \A k \in Nat : k \in TypedTo => k + 1 \in TypedTo
    BY <1>8, <1>9
  <2>2. Nat \subseteq TypedTo
    <3> HIDE DEF TypedTo
    <3> QED BY <2>1, SetInduction
  <2>3. \A i \in 0..n : Typed(i)
    BY <1>n, <2>2
  <2> QED
    BY <1>n, <2>3 DEF Typed
<1> QED
  BY <1>6, <1>7, <1>10

\* A parsed pattern has a catch-all at its end only.
CaughtAtEnd(q) == \A j \in 1..Len(q) : q[j] \in CatchAlls => j = Len(q)

LEMMA ParseType ==
  ASSUME NEW p \in Seq(Part), NEW q, q = ParsePattern(p)
  PROVE  q \in Seq(Part) /\ Len(q) <= Len(p) /\ CaughtAtEnd(q)
<1> DEFINE n == Len(p)
<1>n. n \in Nat /\ \A i \in 1..n : p[i] \in Part
  OBVIOUS
<1>f. PICK f : /\ f[0] = <<>>
               /\ \A i \in 1..n : f[i] = Parsing(f[i - 1], p[i])
               /\ \A i \in 0..n : f[i] \in Seq(Part)
               /\ ParsePattern(p) = f[n]
  BY ParseFacts
<1> DEFINE Good(k) == k <= n => Len(f[k]) <= k /\ CaughtAtEnd(f[k])
           GoodTo == {k \in Nat : Good(k)}
<1>1. Good(0)
  BY <1>f DEF CaughtAtEnd
<1>2. ASSUME NEW k \in Nat, Good(k) PROVE Good(k + 1)
  <2> SUFFICES ASSUME k + 1 <= n PROVE Len(f[k + 1]) <= k + 1 /\ CaughtAtEnd(f[k + 1])
    OBVIOUS
  <2> DEFINE s == f[k]
             x == p[k + 1]
  <2>1. k \in 0..n /\ k + 1 \in 1..n /\ (k + 1) - 1 = k
    BY <1>n
  <2>2. s \in Seq(Part) /\ x \in Part /\ Len(s) <= k /\ CaughtAtEnd(s)
    BY <1>2, <1>f, <1>n, <2>1
  <2>3. f[k + 1] = Parsing(s, x)
    BY <1>f, <2>1
  <2> HIDE DEF s, x
  <2>4. CASE x = Blank \/ Caught(s)
    BY <2>2, <2>3, <2>4 DEF Parsing
  <2>5. CASE ~(x = Blank \/ Caught(s))
    <3>1. f[k + 1] = Append(s, x)
      BY <2>3, <2>5 DEF Parsing
    <3>2. \A j \in 1..Len(s) : s[j] \notin CatchAlls
      <4>1. ASSUME NEW j \in 1..Len(s), s[j] \in CatchAlls PROVE FALSE
        <5>1. j = Len(s) /\ s # <<>>
          BY <2>2, <4>1 DEF CaughtAtEnd
        <5> QED BY <2>5, <4>1, <5>1 DEF Caught, Last
      <4> QED BY <4>1
    <3>3. /\ Len(Append(s, x)) = Len(s) + 1 /\ Len(s) \in Nat
          /\ \A j \in 1..Len(s) : Append(s, x)[j] = s[j]
      BY <2>2
    <3>4. CaughtAtEnd(Append(s, x))
      <4>1. ASSUME NEW j \in 1..(Len(s) + 1), j # Len(s) + 1
            PROVE  Append(s, x)[j] \notin CatchAlls
        <5>1. j \in 1..Len(s)
          BY <3>3, <4>1
        <5> QED BY <3>2, <3>3, <5>1
      <4> QED BY <3>3, <4>1 DEF CaughtAtEnd
    <3> QED BY <2>2, <3>1, <3>3, <3>4
  <2> QED BY <2>4, <2>5
<1>3. Good(n)
  <2> HIDE DEF Good
  <2>1. 0 \in GoodTo /\ \A k \in Nat : k \in GoodTo => k + 1 \in GoodTo
    BY <1>1, <1>2
  <2>2. Nat \subseteq GoodTo
    <3> HIDE DEF GoodTo
    <3> QED BY <2>1, SetInduction
  <2> QED BY <1>n, <2>2
<1> QED
  BY <1>f, <1>n, <1>3

\* The first k parts of a pattern are its first k pieces, if none of them is
\* empty and none before the last a catch-all.
LEMMA ParsedHead ==
  ASSUME NEW p \in Seq(Part), NEW k \in 0..Len(p), NEW q, q = ParsePattern(p),
         \A j \in 1..k : p[j] # Blank /\ (j # k => p[j] \notin CatchAlls)
  PROVE  Len(q) >= k /\ \A j \in 1..k : q[j] = p[j]
<1> DEFINE n == Len(p)
<1>n. n \in Nat /\ k \in Nat /\ k <= n /\ \A i \in 1..n : p[i] \in Part
  OBVIOUS
<1>f. PICK f : /\ f[0] = <<>>
               /\ \A i \in 1..n : f[i] = Parsing(f[i - 1], p[i])
               /\ \A i \in 0..n : f[i] \in Seq(Part)
               /\ ParsePattern(p) = f[n]
  BY ParseFacts
<1> DEFINE Short(i) == i <= k => Len(f[i]) = i /\ \A j \in 1..i : f[i][j] = p[j]
           ShortTo == {i \in Nat : Short(i)}
<1>1. Short(0)
  BY <1>f
<1>2. ASSUME NEW i \in Nat, Short(i) PROVE Short(i + 1)
  <2> SUFFICES ASSUME i + 1 <= k
               PROVE  Len(f[i + 1]) = i + 1 /\ \A j \in 1..(i + 1) : f[i + 1][j] = p[j]
    OBVIOUS
  <2> DEFINE s == f[i]
             x == p[i + 1]
  <2>1. /\ i \in 0..n /\ i + 1 \in 1..n /\ (i + 1) - 1 = i /\ i <= k
        /\ i + 1 \in 1..k /\ (i # 0 => i \in 1..k /\ i # k)
    BY <1>n
  <2>2. s \in Seq(Part) /\ x \in Part /\ x # Blank /\ Len(s) = i /\ \A j \in 1..i : s[j] = p[j]
    BY <1>2, <1>f, <1>n, <2>1
  <2>3. f[i + 1] = Parsing(s, x)
    BY <1>f, <2>1
  <2>4. i # 0 => p[i] \notin CatchAlls
    BY <2>1
  <2> HIDE DEF s
  <2>5. ~Caught(s)
    <3>1. s # <<>> => i # 0 /\ i \in 1..i
      BY <2>2
    <3> QED BY <2>2, <2>4, <3>1 DEF Caught, Last
  <2>6. f[i + 1] = Append(s, x)
    BY <2>2, <2>3, <2>5 DEF Parsing
  <2>7. /\ Len(Append(s, x)) = i + 1 /\ Append(s, x)[i + 1] = x
        /\ \A j \in 1..i : Append(s, x)[j] = s[j]
    <3> HIDE DEF x
    <3> QED BY <2>2
  <2>8. \A j \in 1..(i + 1) : j = i + 1 \/ j \in 1..i
    OBVIOUS
  <2> QED BY <2>2, <2>6, <2>7, <2>8
<1>3. Short(k)
  <2> HIDE DEF Short
  <2>1. 0 \in ShortTo /\ \A i \in Nat : i \in ShortTo => i + 1 \in ShortTo
    BY <1>1, <1>2
  <2>2. Nat \subseteq ShortTo
    <3> HIDE DEF ShortTo
    <3> QED BY <2>1, SetInduction
  <2> QED BY <1>n, <2>2
<1> HIDE DEF Short
<1> DEFINE Keeps(d) == k + d <= n => Len(f[k + d]) >= k /\ \A j \in 1..k : f[k + d][j] = p[j]
           KeepsTo == {d \in Nat : Keeps(d)}
<1>4. Keeps(0)
  <2>1. k + 0 = k
    BY <1>n
  <2> QED BY <1>3, <1>n, <2>1 DEF Short
<1>5. ASSUME NEW d \in Nat, Keeps(d) PROVE Keeps(d + 1)
  <2> SUFFICES ASSUME k + (d + 1) <= n
               PROVE  /\ Len(f[k + (d + 1)]) >= k
                      /\ \A j \in 1..k : f[k + (d + 1)][j] = p[j]
    OBVIOUS
  <2> DEFINE s == f[k + d]
             i == k + (d + 1)
             x == p[i]
  <2>1. k + d \in 0..n /\ i \in 1..n /\ i - 1 = k + d /\ k + d <= n
    BY <1>n
  <2>2. s \in Seq(Part) /\ x \in Part /\ Len(s) >= k /\ \A j \in 1..k : s[j] = p[j]
    BY <1>5, <1>f, <1>n, <2>1
  <2>3. f[i] = Parsing(s, x)
    BY <1>f, <2>1
  <2> HIDE DEF s, i, x
  <2>4. f[i] \in {s, Append(s, x)}
    BY <2>3 DEF Parsing
  <2>5. Len(Append(s, x)) >= k /\ \A j \in 1..k : Append(s, x)[j] = p[j]
    <3>1. /\ Len(Append(s, x)) = Len(s) + 1 /\ Len(s) \in Nat
          /\ \A j \in 1..Len(s) : Append(s, x)[j] = s[j]
      BY <2>2
    <3>2. \A j \in 1..k : j \in 1..Len(s)
      BY <1>n, <2>2, <3>1
    <3> QED BY <1>n, <2>2, <3>1, <3>2
  <2>6. Len(f[i]) >= k /\ \A j \in 1..k : f[i][j] = p[j]
    BY <2>2, <2>4, <2>5
  <2> QED BY <2>6 DEF i
<1>6. Keeps(n - k)
  <2> HIDE DEF Keeps
  <2>1. 0 \in KeepsTo /\ \A d \in Nat : d \in KeepsTo => d + 1 \in KeepsTo
    BY <1>4, <1>5
  <2>2. Nat \subseteq KeepsTo
    <3> HIDE DEF KeepsTo
    <3> QED BY <2>1, SetInduction
  <2>3. n - k \in Nat
    BY <1>n
  <2> QED BY <2>2, <2>3
<1> QED
  <2>1. k + (n - k) = n
    BY <1>n
  <2> QED BY <1>f, <1>n, <1>6, <2>1

\* What Insert does to the nodes on the way, and to the others.
Inserted(T, p, q, way, R) ==
  /\ DOMAIN R = DOMAIN T \cup {way[i] : i \in 0..Len(q)}
  /\ \A n \in DOMAIN R :
       R[n].pattern = IF n = way[Len(q)] THEN Borne(p) ELSE NodeOf(T, n).pattern
  /\ \A i \in 0..(Len(q) - 1) :
       R[way[i]].children =
         ChildrenWith(NodeOf(T, way[i]), InsertBelow(NodeOf(T, way[i]), q[i + 1]))
  /\ \A n \in DOMAIN R :
       (\A i \in 0..(Len(q) - 1) : n # way[i]) =>
         R[n].children = NodeOf(T, n).children

\* This is what Insert computes.
LEMMA InsertFacts ==
  ASSUME NEW T, TrieType(T), NEW p \in Seq(Part),
         NEW q, q = ParsePattern(p), NEW way, way = WayOf(T, q),
         NEW R, R = Insert(T, p)
  PROVE  Inserted(T, p, q, way, R)
<1> DEFINE l == Len(q)
           end == way[l]
           added == {way[i] : i \in 0..l}
           Children(n) ==
             IF n \in added \ {end}
             THEN ChildrenWith(NodeOf(T, n), way[Len(n) + 1][Len(n) + 1])
             ELSE NodeOf(T, n).children
           Pattern(n) == IF n = end THEN Borne(p) ELSE NodeOf(T, n).pattern
<1>q. q \in Seq(Part) /\ l \in Nat
  BY ParseType
<1>1. R = [n \in DOMAIN T \cup added |-> [pattern |-> Pattern(n), children |-> Children(n)]]
  BY DEF Insert
<1>2. \A i \in 0..l : way[i] \in Seq(Part) /\ Len(way[i]) = i
  BY <1>q, WayFacts
<1>3. \A i \in 1..l : way[i] = StepOf(T, q, way[i - 1], i)
  BY <1>q, WayFacts
<1>4. DOMAIN R = DOMAIN T \cup added
  BY <1>1
<1>5. \A n \in DOMAIN R : R[n].pattern = Pattern(n) /\ R[n].children = Children(n)
  <2> HIDE DEF Pattern, Children, added
  <2> QED BY <1>1
<1>6. ASSUME NEW i \in 0..(l - 1)
      PROVE  R[way[i]].children =
               ChildrenWith(NodeOf(T, way[i]), InsertBelow(NodeOf(T, way[i]), q[i + 1]))
  <2> DEFINE n == way[i]
             b == InsertBelow(NodeOf(T, n), q[i + 1])
  <2>1. i \in 0..l /\ l \in 0..l /\ i # l /\ i + 1 \in 1..l /\ (i + 1) - 1 = i
    BY <1>q
  <2>2. Len(n) = i /\ Len(end) = l /\ n \in Seq(Part)
    BY <1>2, <2>1
  <2>3. n \in added \ {end}
    BY <2>1, <2>2
  <2>4. way[i + 1] = Append(n, b)
    BY <1>3, <2>1 DEF StepOf
  <2> HIDE DEF n, b
  <2>5. \A x : Append(n, x)[i + 1] = x
    BY <2>2
  <2>6. way[Len(n) + 1][Len(n) + 1] = b
    BY <2>2, <2>4, <2>5
  <2>7. R[n].children = Children(n)
    BY <1>4, <1>5, <2>3
  <2>8. R[n].children = ChildrenWith(NodeOf(T, n), b)
    <3> HIDE DEF added, end
    <3> QED BY <2>3, <2>6, <2>7
  <2> QED BY <2>8 DEF n, b
<1>7. ASSUME NEW n \in DOMAIN R, \A i \in 0..(l - 1) : n # way[i]
      PROVE  R[n].children = NodeOf(T, n).children
  <2>1. n \notin added \ {end}
    <3> SUFFICES ASSUME n \in added, n # end PROVE FALSE
      OBVIOUS
    <3>1. PICK i \in 0..l : n = way[i]
      OBVIOUS
    <3>2. i # l
      BY <3>1
    <3>3. i \in 0..(l - 1)
      BY <1>q, <3>2
    <3> QED BY <1>7, <3>1, <3>3
  <2>2. R[n].children = Children(n)
    BY <1>5
  <2> HIDE DEF added, end
  <2> QED BY <2>1, <2>2
<1> QED
  <2>1. \A n \in DOMAIN R :
          (\A i \in 0..(l - 1) : n # way[i]) => R[n].children = NodeOf(T, n).children
    BY <1>7
  <2> HIDE DEF Children
  <2> QED BY <1>4, <1>5, <1>6, <2>1 DEF Inserted

\* What the search relies on: the children of a node are nodes, a wildcard is
\* the last of them, and a node bears a route of P or none.
TrieInv(T, P) ==
  /\ TrieType(T)
  /\ T # NoTrie => <<>> \in DOMAIN T
  /\ \A n \in DOMAIN T : T[n].pattern \in P \cup {NoRoute}
  /\ \A n \in DOMAIN T : \A i \in DOMAIN T[n].children :
       /\ Append(n, T[n].children[i]) \in DOMAIN T
       /\ T[n].children[i] \in Wild => i = Len(T[n].children)

\* An insertion keeps the trie so (trie.go:13-51).
LEMMA InsertInv ==
  ASSUME NEW T, NEW P, TrieInv(T, P), NEW p \in Seq(Part)
  PROVE  TrieInv(Insert(T, p), P \cup {p})
<1> DEFINE q == ParsePattern(p)
           way == WayOf(T, q)
           R == Insert(T, p)
           l == Len(q)
           OnWay(n) == \E i \in 0..(l - 1) : n = way[i]
<1>t. TrieType(T)
  BY DEF TrieInv
<1>q. q \in Seq(Part) /\ l \in Nat
  BY ParseType
<1>w. /\ \A i \in 1..l : way[i] = StepOf(T, q, way[i - 1], i)
      /\ \A i \in 0..l : way[i] \in Seq(Part) /\ Len(way[i]) = i
  BY <1>t, <1>q, WayFacts
<1>r. way[0] = <<>>
  BY <1>t, <1>q, WayFacts
<1>e. q = ParsePattern(p) /\ way = WayOf(T, q) /\ R = Insert(T, p)
  OBVIOUS
<1> HIDE DEF q, way, R
<1>1. /\ DOMAIN R = DOMAIN T \cup {way[i] : i \in 0..l}
      /\ \A n \in DOMAIN R : R[n].pattern = IF n = way[l] THEN Borne(p) ELSE NodeOf(T, n).pattern
      /\ \A i \in 0..(l - 1) :
           R[way[i]].children =
             ChildrenWith(NodeOf(T, way[i]), InsertBelow(NodeOf(T, way[i]), q[i + 1]))
      /\ \A n \in DOMAIN R :
           (\A i \in 0..(l - 1) : n # way[i]) => R[n].children = NodeOf(T, n).children
  <2>1. Inserted(T, p, q, way, R)
    BY <1>t, <1>e, InsertFacts
  <2> QED
    BY <2>1 DEF Inserted
<1> HIDE DEF l
<1>2. DOMAIN R \subseteq Seq(Part)
  BY <1>1, <1>t, <1>w DEF TrieType
<1>3. \A n \in DOMAIN R : R[n].pattern \in P \cup {p} \cup {NoRoute}
  <2>1. \A n : NodeOf(T, n).pattern \in P \cup {NoRoute}
    BY DEF NodeOf, NewNode, TrieInv
  <2>2. Borne(p) \in {p, NoRoute}
    BY DEF Borne
  <2> QED BY <1>1, <2>1, <2>2
<1>4. ASSUME NEW n \in DOMAIN R
      PROVE  /\ R[n].children \in Seq(Part)
             /\ \A j \in DOMAIN R[n].children :
                  /\ Append(n, R[n].children[j]) \in DOMAIN R
                  /\ R[n].children[j] \in Wild => j = Len(R[n].children)
  <2> DEFINE old == NodeOf(T, n).children
             Fine(s) == /\ s \in Seq(Part)
                        /\ \A j \in DOMAIN s : /\ Append(n, s[j]) \in DOMAIN R
                                               /\ s[j] \in Wild => j = Len(s)
  <2>1. Fine(old)
    <3>1. CASE n \in DOMAIN T
      <4>1. /\ T[n].children \in Seq(Part)
            /\ \A j \in DOMAIN T[n].children :
                 /\ Append(n, T[n].children[j]) \in DOMAIN T
                 /\ T[n].children[j] \in Wild => j = Len(T[n].children)
        BY <3>1 DEF TrieInv, TrieType
      <4>2. old = T[n].children
        BY <3>1 DEF NodeOf
      <4> HIDE DEF old
      <4> QED BY <1>1, <4>1, <4>2
    <3>2. CASE n \notin DOMAIN T
      <4>1. old = <<>>
        BY <3>2 DEF NodeOf, NewNode
      <4> HIDE DEF old
      <4>2. old \in Seq(Part) /\ DOMAIN old = {}
        BY <4>1, SeqIsSeq
      <4> QED BY <4>2
    <3> QED BY <3>1, <3>2
  <2>2. CASE ~OnWay(n)
    <3>1. R[n].children = old
      BY <1>1, <2>2
    <3> HIDE DEF old
    <3> QED BY <2>1, <3>1
  <2>3. CASE OnWay(n)
    <3>1. PICK i \in 0..(l - 1) : n = way[i]
      BY <2>3
    <3> DEFINE b == InsertBelow(NodeOf(T, n), q[i + 1])
    <3>2. R[n].children = ChildrenWith(NodeOf(T, n), b)
      BY <1>1, <3>1
    <3>3. i + 1 \in 1..l /\ i + 1 \in 0..l /\ (i + 1) - 1 = i /\ q[i + 1] \in Part
      BY <1>q, <3>1 DEF l
    <3>4. Append(n, b) \in DOMAIN R
      <4>1. way[i + 1] = Append(n, b)
        BY <1>w, <3>1, <3>3 DEF StepOf
      <4> QED BY <1>1, <3>3, <4>1
    <3>5. /\ b \in Part
          /\ b \notin Range(old) => \A j \in DOMAIN old : old[j] \notin Wild
      BY <1>t, <3>3, NodeType, BelowFacts
    <3> HIDE DEF b, old
    <3>6. CASE b \in Range(old)
      <4>1. R[n].children = old
        BY <3>2, <3>6 DEF ChildrenWith, old
      <4> QED BY <2>1, <4>1
    <3>7. CASE b \notin Range(old)
      <4> DEFINE s == Append(old, b)
      <4>1. R[n].children = s
        BY <3>2, <3>7 DEF ChildrenWith, old
      <4>2. old \in Seq(Part) /\ \A j \in DOMAIN old : Append(n, old[j]) \in DOMAIN R
        BY <2>1
      <4>3. /\ s \in Seq(Part) /\ Len(s) = Len(old) + 1 /\ Len(old) \in Nat
            /\ DOMAIN s = 1..(Len(old) + 1) /\ DOMAIN old = 1..Len(old)
            /\ s[Len(old) + 1] = b /\ \A j \in 1..Len(old) : s[j] = old[j]
        BY <3>5, <4>2
      <4> HIDE DEF s
      <4>4. ASSUME NEW j \in DOMAIN s
            PROVE  Append(n, s[j]) \in DOMAIN R /\ (s[j] \in Wild => j = Len(s))
        <5>1. CASE j = Len(old) + 1
          BY <3>4, <4>3, <5>1
        <5>2. CASE j \in 1..Len(old)
          BY <3>5, <3>7, <4>2, <4>3, <5>2
        <5> QED BY <4>3, <5>1, <5>2
      <4>5. Fine(s)
        BY <4>3, <4>4
      <4> QED BY <4>1, <4>5
    <3> QED BY <3>6, <3>7
  <2> QED BY <2>2, <2>3
<1>5. TrieType(R)
  BY <1>2, <1>4 DEF TrieType
<1>6. <<>> \in DOMAIN R
  BY <1>1, <1>r, <1>q
<1> QED
  BY <1>3, <1>4, <1>5, <1>6 DEF TrieInv, R

\* The first route found below the children is one of those found.
LEMMA FirstRouteType ==
  ASSUME NEW V, NoRoute \in V, NEW f, DOMAIN f \subseteq Nat,
         \A i \in DOMAIN f : f[i] \in V
  PROVE  FirstRoute(f) \in V
<1> DEFINE hits == {i \in DOMAIN f : f[i] # NoRoute}
<1>1. CASE hits = {}
  BY <1>1 DEF FirstRoute
<1>2. CASE hits # {}
  <2>1. Min(hits) \in hits
    <3>1. hits \subseteq Nat
      OBVIOUS
    <3> HIDE DEF hits
    <3> QED BY <1>2, <3>1, MinOf
  <2>2. f[Min(hits)] \in V
    BY <2>1
  <2> QED
    BY <1>2, <2>2 DEF FirstRoute
<1> QED
  BY <1>1, <1>2

\* What the search of a path finds from a node, if f is what it finds from the
\* others (trie.go:54-73).
SearchEnds(p, n) ==
  Len(n) = Len(p) \/ (n # <<>> /\ Last(n) \in CatchAlls)
Searched(T, p, f, n) ==
  IF SearchEnds(p, n) THEN T[n].pattern
  ELSE FirstRoute([i \in MatchChildren(T[n], p[Len(n) + 1]) |->
                     f[Append(n, T[n].children[i])]])

\* There is such an f, though it is defined by itself: the search goes down.  It
\* finds a route that some node bears, or none.
LEMMA SearchFacts ==
  ASSUME NEW T, NEW P, TrieInv(T, P), NEW p \in Seq(Part)
  PROVE  \E f : /\ \A n \in DOMAIN T : Len(n) <= Len(p) =>
                      f[n] = Searched(T, p, f, n) /\ f[n] \in P \cup {NoRoute}
               /\ Search(T, p) = IF T = NoTrie THEN NoRoute ELSE f[<<>>]
<1> DEFINE L == Len(p)
           V == P \cup {NoRoute}
           D == {m \in DOMAIN T : Len(m) <= L}
           Within(k) == {m \in D : L - Len(m) <= k}
           Ends(n) == SearchEnds(p, n)
           Below(n) == MatchChildren(T[n], p[Len(n) + 1])
           Child(n, i) == Append(n, T[n].children[i])
           Kids(f, n) == [i \in Below(n) |-> f[Child(n, i)]]
           Body(f, n) == IF Ends(n) THEN T[n].pattern ELSE FirstRoute(Kids(f, n))
           Good(f, k) == /\ f \in [Within(k) -> V]
                         /\ \A n \in Within(k) : f[n] = Body(f, n)
           Exists(k) == \E f : Good(f, k)
           Built == {k \in Nat : Exists(k)}
<1> USE DEF SearchEnds
<1>n. L \in Nat /\ \A n \in D : Len(n) \in Nat /\ Len(n) <= L
  BY DEF TrieInv, TrieType
<1>c. ASSUME NEW n \in D, ~Ends(n)
      PROVE  /\ Below(n) \subseteq Nat
             /\ \A i \in Below(n) : Child(n, i) \in D /\ Len(Child(n, i)) = Len(n) + 1
  <2>1. n \in Seq(Part) /\ T[n].children \in Seq(Part) /\ Len(n) < L
    BY <1>n, <1>c DEF TrieInv, TrieType
  <2>2. Below(n) \subseteq DOMAIN T[n].children
    BY DEF MatchChildren
  <2>3. ASSUME NEW i \in Below(n)
        PROVE  Child(n, i) \in D /\ Len(Child(n, i)) = Len(n) + 1
    <3>1. i \in DOMAIN T[n].children
      BY <2>2
    <3>2. Child(n, i) \in DOMAIN T /\ T[n].children[i] \in Part
      BY <2>1, <3>1 DEF TrieInv
    <3>3. Len(Child(n, i)) = Len(n) + 1
      BY <2>1, <3>2
    <3> QED
      BY <1>n, <2>1, <3>2, <3>3
  <2> QED
    BY <2>1, <2>2, <2>3
<1>t. ASSUME NEW n \in D, NEW f, ~Ends(n) => \A i \in Below(n) : f[Child(n, i)] \in V
      PROVE  Body(f, n) \in V
  <2>1. CASE Ends(n)
    <3>1. T[n].pattern \in V
      BY DEF TrieInv
    <3> QED BY <2>1, <3>1
  <2>2. CASE ~Ends(n)
    <3>1. DOMAIN Kids(f, n) \subseteq Nat /\ \A i \in DOMAIN Kids(f, n) : Kids(f, n)[i] \in V
      <4>1. Below(n) \subseteq Nat
        BY <1>c, <2>2
      <4> HIDE DEF Below, Child, V, Ends
      <4> QED BY <1>t, <2>2, <4>1
    <3>2. FirstRoute(Kids(f, n)) \in V
      <4>1. NoRoute \in V
        OBVIOUS
      <4> HIDE DEF Kids, V
      <4> QED BY <3>1, <4>1, FirstRouteType
    <3> QED BY <2>2, <3>2
  <2> QED BY <2>1, <2>2
<1>e. ASSUME NEW n \in D, NEW f, NEW g,
             ~Ends(n) => \A i \in Below(n) : f[Child(n, i)] = g[Child(n, i)]
      PROVE  Body(f, n) = Body(g, n)
  <2>1. CASE Ends(n)
    BY <2>1
  <2>2. CASE ~Ends(n)
    <3>1. Kids(f, n) = Kids(g, n)
      <4> HIDE DEF Below, Child, Ends
      <4> QED BY <1>e, <2>2
    <3> HIDE DEF Kids
    <3> QED BY <2>2, <3>1
  <2> QED BY <2>1, <2>2
<1> HIDE DEF Body, Below, Child, V
<1>1. Exists(0)
  <2> DEFINE f == [n \in Within(0) |-> Body(p, n)]
  <2>1. ASSUME NEW n \in Within(0) PROVE Ends(n) /\ n \in D
    BY <1>n
  <2> HIDE DEF Ends, D
  <2>2. \A n \in Within(0) : Body(p, n) \in V /\ Body(f, n) = Body(p, n)
    BY <2>1, <1>t, <1>e
  <2>3. f \in [Within(0) -> V]
    <3> HIDE DEF Within
    <3> QED BY <2>2
  <2>4. \A n \in Within(0) : f[n] = Body(f, n)
    <3>1. \A n \in Within(0) : f[n] = Body(p, n)
      <4> HIDE DEF Within
      <4> QED OBVIOUS
    <3> HIDE DEF f, Within
    <3> QED BY <2>2, <3>1
  <2> HIDE DEF f, Within
  <2> QED BY <2>3, <2>4
<1>2. ASSUME NEW k \in Nat
      PROVE  /\ Within(k) \subseteq Within(k + 1) /\ Within(k + 1) \subseteq D
             /\ \A n \in Within(k + 1) :
                  ~Ends(n) => \A i \in Below(n) : Child(n, i) \in Within(k)
  <2>1. Within(k) \subseteq Within(k + 1) /\ Within(k + 1) \subseteq D
    BY <1>n
  <2>2. ASSUME NEW n \in Within(k + 1), ~Ends(n), NEW i \in Below(n)
        PROVE  Child(n, i) \in Within(k)
    <3>1. n \in D /\ Len(n) \in Nat /\ L - Len(n) <= k + 1
      BY <1>n
    <3>2. Child(n, i) \in D /\ Len(Child(n, i)) = Len(n) + 1
      <4> HIDE DEF Ends, D
      <4> QED BY <1>c, <2>2, <3>1
    <3> QED
      BY <1>n, <3>1, <3>2
  <2> QED
    BY <2>1, <2>2
<1> HIDE DEF Within, Ends, D
<1>3. ASSUME NEW k \in Nat, Exists(k) PROVE Exists(k + 1)
  <2>1. PICK f : Good(f, k)
    <3> HIDE DEF Good
    <3> QED BY <1>3
  <2> DEFINE g == [n \in Within(k + 1) |-> IF n \in Within(k) THEN f[n] ELSE Body(f, n)]
  <2>2. \A n \in Within(k) : f[n] \in V /\ f[n] = Body(f, n)
    BY <2>1
  <2>3. \A n \in Within(k + 1) : Body(f, n) \in V
    BY <1>2, <1>t, <2>2
  <2>4. \A n \in Within(k + 1) : g[n] = Body(f, n)
    BY <2>2
  <2>5. \A n \in Within(k) : g[n] = f[n]
    BY <1>2
  <2>6. g \in [Within(k + 1) -> V]
    BY <2>2, <2>3
  <2> HIDE DEF g
  <2>7. ASSUME NEW n \in Within(k + 1) PROVE Body(g, n) = Body(f, n)
    <3>1. n \in D
      BY <1>2
    <3>2. ~Ends(n) => \A i \in Below(n) : g[Child(n, i)] = f[Child(n, i)]
      BY <1>2, <2>5
    <3> QED
      BY <1>e, <3>1, <3>2
  <2> QED
    BY <2>4, <2>6, <2>7
<1>4. PICK h : Good(h, L)
  <2> HIDE DEF Good
  <2>1. Exists(L)
    <3> HIDE DEF Exists
    <3>1. 0 \in Built /\ \A k \in Nat : k \in Built => k + 1 \in Built
      BY <1>1, <1>3
    <3>2. Nat \subseteq Built
      <4> HIDE DEF Built
      <4> QED BY <3>1, SetInduction
    <3> QED BY <1>n, <3>2
  <2> QED BY <2>1
<1>5. Within(L) = D
  BY <1>n DEF Within
<1>6. h = [n \in D |-> Body(h, n)]
  BY <1>4, <1>5
<1> DEFINE found == CHOOSE f : f = [n \in D |-> Body(f, n)]
<1>7. found = [n \in D |-> Body(found, n)]
  BY <1>6
<1> HIDE DEF found
<1> DEFINE Typed(k) == \A n \in Within(k) : found[n] \in V
           TypedTo == {k \in Nat : Typed(k)}
<1>8. Typed(0)
  <2>1. \A n \in Within(0) : n \in D /\ Ends(n)
    BY <1>n DEF Within, Ends, D
  <2>2. \A n \in Within(0) : found[n] = Body(found, n)
    BY <1>7, <2>1
  <2> QED BY <1>t, <2>1, <2>2
<1>9. ASSUME NEW k \in Nat, Typed(k) PROVE Typed(k + 1)
  <2>1. \A n \in Within(k + 1) : found[n] = Body(found, n) /\ n \in D
    BY <1>2, <1>7
  <2> QED
    BY <1>2, <1>9, <1>t, <2>1
<1>10. \A n \in D : found[n] \in V
  <2> HIDE DEF Typed
  <2>1. 0 \in TypedTo /\ \A k \in Nat : k \in TypedTo => k + 1 \in TypedTo
    BY <1>8, <1>9
  <2>2. Nat \subseteq TypedTo
    <3> HIDE DEF TypedTo
    <3> QED BY <2>1, SetInduction
  <2>3. Typed(L)
    BY <1>n, <2>2
  <2> QED
    BY <1>5, <2>3 DEF Typed
<1>11. Search(T, p) = IF T = NoTrie THEN NoRoute ELSE found[<<>>]
  BY DEF Search, found, D, Body, Kids, Below, Child, Ends
<1>12. \A n \in D : found[n] = Searched(T, p, found, n)
  <2>1. ASSUME NEW f, NEW n PROVE Body(f, n) = Searched(T, p, f, n)
    BY Zenon DEF Searched, Body, Kids, Below, Child, Ends
  <2>2. \A n \in D : found[n] = Body(found, n)
    BY <1>7, Zenon
  <2> QED
    BY <2>1, <2>2, Zenon
<1> HIDE DEF Body
<1> QED
  BY <1>10, <1>11, <1>12 DEF V, D

\* The search finds one of the routes, or none.
LEMMA SearchType ==
  ASSUME NEW T, NEW P, TrieInv(T, P), NEW p \in Seq(Part)
  PROVE  Search(T, p) \in P \cup {NoRoute}
<1>1. PICK f : /\ \A n \in DOMAIN T : Len(n) <= Len(p) =>
                      f[n] = Searched(T, p, f, n) /\ f[n] \in P \cup {NoRoute}
               /\ Search(T, p) = IF T = NoTrie THEN NoRoute ELSE f[<<>>]
  BY SearchFacts
<1>2. T # NoTrie => <<>> \in DOMAIN T /\ Len(<<>>) <= Len(p)
  BY DEF TrieInv
<1> QED
  BY <1>1, <1>2

----------------------------------------------------------------------------
(* A trie on which routes stay where they are *)

\* Every node but the root is a child of the node before it.
ChildOf(T, n, x) == n \in DOMAIN T /\ x \in Range(T[n].children)
TreeInv(T) == \A m \in DOMAIN T : m # <<>> => ChildOf(T, Front(m), Last(m))

\* A route is at the end of its way.
Land(T, p) == WayOf(T, ParsePattern(p))[Len(ParsePattern(p))]
LandInv(T) == \A m \in DOMAIN T :
                T[m].pattern # NoRoute => m = Land(T, T[m].pattern)

\* All that leads to a node is in the trie.
LEMMA BeginningsIn ==
  ASSUME NEW T, TrieType(T), TreeInv(T), NEW q \in DOMAIN T
  PROVE  /\ \A j \in 0..Len(q) : SubSeq(q, 1, j) \in DOMAIN T
         /\ \A j \in 1..Len(q) : ChildOf(T, SubSeq(q, 1, j - 1), q[j])
<1> DEFINE l == Len(q)
           In(k) == k <= l => SubSeq(q, 1, l - k) \in DOMAIN T
           Found == {k \in Nat : In(k)}
<1>n. q \in Seq(Part) /\ l \in Nat
  BY DEF TrieType
<1>s. ASSUME NEW j \in 1..l, SubSeq(q, 1, j) \in DOMAIN T
      PROVE  ChildOf(T, SubSeq(q, 1, j - 1), q[j])
  <2>1. /\ SubSeq(q, 1, j) # <<>>
        /\ Front(SubSeq(q, 1, j)) = SubSeq(q, 1, j - 1)
        /\ Last(SubSeq(q, 1, j)) = q[j]
    BY <1>n, BeginningFront
  <2> QED BY <1>s, <2>1 DEF TreeInv
<1>1. In(0)
  <2>1. SubSeq(q, 1, l) = q
    <3>1. SubSeq(q, 1, l) \in Seq(Part) /\ Len(SubSeq(q, 1, l)) = l
          /\ \A i \in 1..l : SubSeq(q, 1, l)[i] = q[i]
      BY <1>n, FirstOf
    <3> DEFINE a == SubSeq(q, 1, l)
    <3> HIDE DEF a
    <3>2. a \in Seq(Part) /\ Len(a) = l /\ \A i \in 1..l : a[i] = q[i]
      BY <3>1 DEF a
    <3>3. a = q
      BY <1>n, <3>2
    <3> QED BY <3>3 DEF a
  <2>2. l - 0 = l
    BY <1>n
  <2> QED BY <2>1, <2>2
<1>2. ASSUME NEW k \in Nat, In(k) PROVE In(k + 1)
  <2> SUFFICES ASSUME k + 1 <= l PROVE SubSeq(q, 1, l - (k + 1)) \in DOMAIN T
    OBVIOUS
  <2>1. l - k \in 1..l /\ (l - k) - 1 = l - (k + 1) /\ k <= l
    BY <1>n
  <2>2. SubSeq(q, 1, l - k) \in DOMAIN T
    BY <1>2, <2>1
  <2>3. ChildOf(T, SubSeq(q, 1, (l - k) - 1), q[l - k])
    <3> HIDE DEF l
    <3> QED BY <1>s, <2>1, <2>2
  <2> QED
    BY <2>1, <2>3 DEF ChildOf
<1>3. \A j \in 0..l : SubSeq(q, 1, j) \in DOMAIN T
  <2>1. \A k \in Nat : In(k)
    <3> HIDE DEF In
    <3>1. 0 \in Found /\ \A k \in Nat : k \in Found => k + 1 \in Found
      BY <1>1, <1>2
    <3>2. Nat \subseteq Found
      <4> HIDE DEF Found
      <4> QED BY <3>1, SetInduction
    <3> QED BY <3>2
  <2> TAKE j \in 0..l
  <2>2. l - j \in Nat /\ l - (l - j) = j /\ l - j <= l
    BY <1>n
  <2>3. In(l - j)
    <3> HIDE DEF In
    <3> QED BY <2>1, <2>2
  <2> QED BY <2>2, <2>3
<1>4. \A j \in 1..l : ChildOf(T, SubSeq(q, 1, j - 1), q[j])
  <2> TAKE j \in 1..l
  <2>1. SubSeq(q, 1, j) \in DOMAIN T
    BY <1>3
  <2> QED BY <1>s, <2>1
<1> QED
  BY <1>3, <1>4

\* Where a part matches a child, or is the one just added, insert goes on below
\* the same child after an insertion.
LEMMA BelowStable ==
  ASSUME NEW node, node.children \in Seq(Part), NEW added \in Part,
         NEW part \in Part, NEW b, b = InsertBelow(node, part),
         NEW x, x = InsertBelow(node, added),
         NEW after, after.children = node.children \/ after.children = ChildrenWith(node, x),
         \/ b \in Range(node.children)
         \/ part = added /\ after.children = ChildrenWith(node, x)
  PROVE  InsertBelow(after, part) = b
<1> DEFINE s == node.children
           H(t) == {i \in DOMAIN t : t[i] \in {part} \cup Wild}
           hits == H(s)
           n == Len(s)
<1>n. n \in Nat /\ DOMAIN s = 1..n /\ s \in Seq(Part)
  OBVIOUS
<1>h. MatchChildren(node, part) = hits /\ MatchChildren(after, part) = H(after.children)
  BY DEF MatchChildren
<1>b. b = IF hits = {} THEN part ELSE s[Min(hits)]
  BY <1>h DEF InsertBelow
<1>a. InsertBelow(after, part) =
        IF H(after.children) = {} THEN part ELSE after.children[Min(H(after.children))]
  BY <1>h DEF InsertBelow
<1>1. CASE after.children = s
  BY <1>1, <1>a, <1>b
<1>2. CASE after.children = ChildrenWith(node, x) /\ after.children # s
  <2> DEFINE t == Append(s, x)
  <2>1. after.children = t
    BY <1>2 DEF ChildrenWith
  <2>x. x \in Part /\ x \notin Range(s)
    <3>1. x \notin Range(s)
      BY <1>2 DEF ChildrenWith
    <3> QED BY <3>1, BelowFacts
  <2>2. /\ DOMAIN t = 1..(n + 1) /\ t[n + 1] = x /\ \A i \in 1..n : t[i] = s[i]
    BY <1>n, <2>x
  <2> HIDE DEF t
  <2>3. hits \subseteq H(t) /\ H(t) \subseteq hits \cup {n + 1}
    BY <1>n, <2>2
  <2>4. CASE hits # {}
    <3>1. hits \subseteq Nat /\ hits \subseteq 1..n /\ H(t) \subseteq Nat /\ H(t) # {}
      BY <1>n, <2>2, <2>3, <2>4
    <3> HIDE DEF hits, H
    <3>2. Min(hits) \in hits /\ \A y \in hits : Min(hits) <= y
      BY <2>4, <3>1, MinOf
    <3>3. Min(H(t)) \in H(t) /\ \A y \in H(t) : Min(H(t)) <= y
      BY <3>1, MinOf
    <3> DEFINE k == Min(hits)
               j == Min(H(t))
    <3>4. k \in hits /\ j \in H(t) /\ (\A y \in hits : k <= y) /\ (\A y \in H(t) : j <= y)
      BY <3>2, <3>3
    <3> HIDE DEF k, j
    <3>5. k \in 1..n /\ k \in Nat /\ j \in Nat /\ j <= k
      BY <2>3, <3>1, <3>4
    <3>6. j \in hits
      BY <1>n, <2>3, <3>4, <3>5
    <3>7. j = k
      BY <3>4, <3>5, <3>6
    <3>8. t[j] = s[k]
      BY <2>2, <3>5, <3>7
    <3> QED
      BY <1>a, <1>b, <2>1, <2>4, <3>1, <3>8 DEF j, k
  <2>5. CASE hits = {}
    <3>1. b = part /\ part \notin Range(s)
      BY <1>b, <2>5 DEF Range
    <3>2. part = added /\ x = part
      BY <3>1, <1>b
    <3>3. H(t) = {n + 1}
      <4>1. n + 1 \in H(t)
        BY <1>n, <2>2, <3>2
      <4> HIDE DEF hits, H
      <4> QED BY <2>3, <2>5, <4>1
    <3>4. Min({n + 1}) = n + 1
      <4>1. {n + 1} \subseteq Nat /\ {n + 1} # {}
        BY <1>n
      <4> QED BY <4>1, MinOf
    <3> HIDE DEF H
    <3>5. InsertBelow(after, part) = t[Min(H(t))]
      BY <1>a, <2>1, <3>3
    <3> QED
      BY <2>2, <3>1, <3>2, <3>3, <3>4, <3>5
  <2> QED BY <2>4, <2>5
<1> QED
  BY <1>1, <1>2

\* The children of a node after an insertion.
LEMMA NodeAfter ==
  ASSUME NEW T, TrieType(T), NEW p \in Seq(Part),
         NEW pp, pp = ParsePattern(p), NEW wp, wp = WayOf(T, pp),
         NEW R, R = Insert(T, p), NEW n
  PROVE  /\ \A i \in 0..(Len(pp) - 1) : n = wp[i] =>
              NodeOf(R, n).children =
                ChildrenWith(NodeOf(T, n), InsertBelow(NodeOf(T, n), pp[i + 1]))
         /\ (\A i \in 0..(Len(pp) - 1) : n # wp[i]) =>
              NodeOf(R, n).children = NodeOf(T, n).children
<1>1. Inserted(T, p, pp, wp, R)
  BY InsertFacts
<1>p. Len(pp) \in Nat
  BY ParseType
<1>2. ASSUME NEW i \in 0..(Len(pp) - 1), n = wp[i]
      PROVE  NodeOf(R, n).children =
               ChildrenWith(NodeOf(T, n), InsertBelow(NodeOf(T, n), pp[i + 1]))
  <2>1. n \in DOMAIN R
    BY <1>1, <1>2, <1>p DEF Inserted
  <2>2. NodeOf(R, n) = R[n]
    BY <2>1 DEF NodeOf
  <2>3. R[wp[i]].children =
          ChildrenWith(NodeOf(T, wp[i]), InsertBelow(NodeOf(T, wp[i]), pp[i + 1]))
    BY <1>1 DEF Inserted
  <2> QED
    BY <1>2, <2>2, <2>3
<1>3. ASSUME \A i \in 0..(Len(pp) - 1) : n # wp[i]
      PROVE  NodeOf(R, n).children = NodeOf(T, n).children
  <2>1. CASE n \in DOMAIN R
    BY <1>1, <1>3, <2>1 DEF Inserted, NodeOf
  <2>2. CASE n \notin DOMAIN R
    <3>1. n \notin DOMAIN T
      BY <1>1, <2>2 DEF Inserted
    <3> QED BY <2>2, <3>1 DEF NodeOf
  <2> QED BY <2>1, <2>2
<1> QED
  BY <1>2, <1>3

\* A way that is in the trie, or has just been added, stays as it is.
LEMMA WayStable ==
  ASSUME NEW T, TrieType(T), NEW p \in Seq(Part),
         NEW pp, pp = ParsePattern(p), NEW wp, wp = WayOf(T, pp),
         NEW R, R = Insert(T, p), TrieType(R),
         NEW q \in Seq(Part), NEW way, way = WayOf(T, q),
         NEW way2, way2 = WayOf(R, q),
         \/ q = pp
         \/ \A i \in 0..(Len(q) - 1) : InsertBelow(NodeOf(T, way[i]), q[i + 1]) \in
                                         Range(NodeOf(T, way[i]).children)
  PROVE  \A i \in 0..Len(q) : way2[i] = way[i]
<1> DEFINE l == Len(q)
           Same(k) == k <= l => way2[k] = way[k]
           Found == {k \in Nat : Same(k)}
<1>n. l \in Nat /\ pp \in Seq(Part) /\ Len(pp) \in Nat
  BY ParseType
<1>t. /\ way[0] = <<>> /\ way2[0] = <<>>
      /\ \A i \in 1..l : way[i] = StepOf(T, q, way[i - 1], i)
      /\ \A i \in 1..l : way2[i] = StepOf(R, q, way2[i - 1], i)
      /\ \A i \in 0..l : way[i] \in Seq(Part) /\ Len(way[i]) = i
  BY WayFacts
<1>p. \A i \in 0..Len(pp) : wp[i] \in Seq(Part) /\ Len(wp[i]) = i
  BY <1>n, WayFacts
<1>1. Same(0)
  BY <1>t
<1>2. ASSUME NEW k \in Nat, Same(k) PROVE Same(k + 1)
  <2> SUFFICES ASSUME k + 1 <= l PROVE way2[k + 1] = way[k + 1]
    OBVIOUS
  <2> DEFINE w == way[k]
             node == NodeOf(T, w)
             after == NodeOf(R, w)
             part == q[k + 1]
             b == InsertBelow(node, part)
  <2>1. k \in 0..(l - 1) /\ k \in 0..l /\ k + 1 \in 1..l /\ (k + 1) - 1 = k /\ k <= l
    BY <1>n
  <2>2. way2[k] = w
    BY <1>2, <2>1
  <2>3. Len(w) = k
    BY <1>t, <2>1
  <2>4. node.children \in Seq(Part)
    BY NodeType
  <2>5. part \in Part
    BY <2>1
  <2>6. q = pp \/ b \in Range(node.children)
    BY <2>1
  <2>7. way[k + 1] = Append(w, b) /\ way2[k + 1] = Append(w, InsertBelow(after, part))
    BY <1>t, <2>1, <2>2 DEF StepOf
  <2>a. (\A i \in 0..(Len(pp) - 1) : w # wp[i]) => after.children = node.children
    <3> HIDE DEF w
    <3> QED BY NodeAfter
  <2>c. \A i \in 0..(Len(pp) - 1) : w = wp[i] =>
          after.children = ChildrenWith(node, InsertBelow(node, pp[i + 1]))
    <3> HIDE DEF w
    <3> QED BY NodeAfter
  <2>e. q = pp => way = wp
    OBVIOUS
  <2>8. CASE \E i \in 0..(Len(pp) - 1) : w = wp[i]
    <3>1. PICK i \in 0..(Len(pp) - 1) : w = wp[i]
      BY <2>8
    <3>2. i = k
      <4>1. i \in 0..Len(pp)
        BY <1>n
      <4> QED BY <1>p, <2>3, <3>1, <4>1
    <3> DEFINE added == pp[i + 1]
               x == InsertBelow(node, added)
    <3>3. added \in Part
      <4>1. i + 1 \in 1..Len(pp)
        BY <1>n
      <4> QED BY <1>n, <4>1
    <3>4. after.children = ChildrenWith(node, x)
      BY <2>c, <3>1
    <3>5. q = pp => part = added
      BY <3>2
    <3>6. b = InsertBelow(node, part) /\ x = InsertBelow(node, added)
      OBVIOUS
    <3> HIDE DEF b, x, added, part, after, node, w
    <3>7. InsertBelow(after, part) = b
      BY <2>4, <2>5, <2>6, <3>3, <3>4, <3>5, <3>6, BelowStable
    <3> QED BY <2>7, <3>7
  <2>9. CASE ~\E i \in 0..(Len(pp) - 1) : w = wp[i]
    <3>1. after.children = node.children
      BY <2>a, <2>9
    <3>2. InsertBelow(after, part) = b
      <4>1. MatchChildren(after, part) = MatchChildren(node, part)
        <5> HIDE DEF after, node
        <5> QED BY <3>1 DEF MatchChildren
      <4> HIDE DEF after, node
      <4> QED BY <3>1, <4>1 DEF InsertBelow
    <3> QED BY <2>7, <3>2
  <2> QED BY <2>8, <2>9
<1>3. \A k \in Nat : Same(k)
  <2> HIDE DEF Same
  <2>1. 0 \in Found /\ \A k \in Nat : k \in Found => k + 1 \in Found
    BY <1>1, <1>2
  <2>2. Nat \subseteq Found
    <3> HIDE DEF Found
    <3> QED BY <2>1, SetInduction
  <2> QED BY <2>2
<1> QED
  <2> TAKE i \in 0..l
  <2>1. i \in Nat /\ i <= l
    BY <1>n
  <2> QED BY <1>3, <2>1

\* A node in the trie at the end of a way has all of the way in the trie.
LEMMA WayIn ==
  ASSUME NEW T, TrieType(T), TreeInv(T), NEW q \in Seq(Part),
         NEW way, way = WayOf(T, q), way[Len(q)] \in DOMAIN T
  PROVE  \A i \in 0..(Len(q) - 1) : InsertBelow(NodeOf(T, way[i]), q[i + 1]) \in
                                      Range(NodeOf(T, way[i]).children)
<1> DEFINE l == Len(q)
           In(k) == k <= l => way[l - k] \in DOMAIN T
           Found == {k \in Nat : In(k)}
<1>n. l \in Nat
  OBVIOUS
<1>t. /\ \A i \in 1..l : way[i] = StepOf(T, q, way[i - 1], i)
      /\ \A i \in 0..l : way[i] \in Seq(Part) /\ Len(way[i]) = i
  BY WayFacts
<1>1. ASSUME NEW i \in 1..l, way[i] \in DOMAIN T
      PROVE  ChildOf(T, way[i - 1], InsertBelow(NodeOf(T, way[i - 1]), q[i]))
  <2> DEFINE b == InsertBelow(NodeOf(T, way[i - 1]), q[i])
  <2>1. way[i - 1] \in Seq(Part) /\ q[i] \in Part
    <3>1. i - 1 \in 0..l
      BY <1>n
    <3> QED BY <1>t, <3>1
  <2>2. b \in Part
    BY <2>1, NodeType, BelowFacts
  <2>3. way[i] = Append(way[i - 1], b)
    BY <1>t DEF StepOf
  <2> HIDE DEF b
  <2>4. way[i] # <<>> /\ Front(way[i]) = way[i - 1] /\ Last(way[i]) = b
    <3> DEFINE s == way[i - 1]
    <3>1. s \in Seq(Part)
      BY <2>1
    <3> HIDE DEF s
    <3>2. Append(s, b) # <<>> /\ Front(Append(s, b)) = s /\ Last(Append(s, b)) = b
      BY <2>2, <3>1, AppendFront
    <3>3. way[i] = Append(s, b)
      BY <2>3 DEF s
    <3> QED
      BY <3>2, <3>3 DEF s
  <2> QED BY <1>1, <2>4 DEF TreeInv, b
<1>2. In(0)
  <2>1. l - 0 = l
    BY <1>n
  <2> QED BY <2>1
<1>3. ASSUME NEW k \in Nat, In(k) PROVE In(k + 1)
  <2> SUFFICES ASSUME k + 1 <= l PROVE way[l - (k + 1)] \in DOMAIN T
    OBVIOUS
  <2>1. l - k \in 1..l /\ (l - k) - 1 = l - (k + 1) /\ k <= l
    BY <1>n
  <2>2. way[l - k] \in DOMAIN T
    BY <1>3, <2>1
  <2> HIDE DEF l
  <2> QED BY <1>1, <2>1, <2>2 DEF ChildOf
<1>4. \A k \in Nat : In(k)
  <2> HIDE DEF In
  <2>1. 0 \in Found /\ \A k \in Nat : k \in Found => k + 1 \in Found
    BY <1>2, <1>3
  <2>2. Nat \subseteq Found
    <3> HIDE DEF Found
    <3> QED BY <2>1, SetInduction
  <2> QED BY <2>2
<1> QED
  <2> TAKE i \in 0..(l - 1)
  <2>1. i + 1 \in 1..l /\ (i + 1) - 1 = i /\ l - (l - (i + 1)) = i + 1
        /\ l - (i + 1) \in Nat /\ l - (i + 1) <= l
    BY <1>n
  <2>2. In(l - (i + 1))
    <3> HIDE DEF In, l
    <3> QED BY <1>4, <2>1
  <2>3. way[i + 1] \in DOMAIN T
    <3> HIDE DEF l
    <3> QED BY <2>1, <2>2
  <2>4. ChildOf(T, way[i], InsertBelow(NodeOf(T, way[i]), q[i + 1]))
    <3> HIDE DEF l
    <3> QED BY <1>1, <2>1, <2>3
  <2> QED BY <2>4 DEF ChildOf, NodeOf

\* An insertion keeps every route where it is, and puts the new one there too.
LEMMA InsertTree ==
  ASSUME NEW T, NEW P, TrieInv(T, P), P \subseteq Seq(Part), TreeInv(T), LandInv(T),
         NEW p \in Seq(Part)
  PROVE  TreeInv(Insert(T, p)) /\ LandInv(Insert(T, p))
<1> DEFINE q == ParsePattern(p)
           way == WayOf(T, q)
           R == Insert(T, p)
<1>t. TrieType(T) /\ TrieType(R)
  BY InsertInv DEF TrieInv
<1>q. q \in Seq(Part) /\ Len(q) \in Nat
  BY ParseType
<1>e. q = ParsePattern(p) /\ way = WayOf(T, q) /\ R = Insert(T, p)
  OBVIOUS
<1> HIDE DEF q, way, R
<1>i. Inserted(T, p, q, way, R)
  BY <1>t, <1>e, InsertFacts
<1>w. /\ way[0] = <<>>
      /\ \A i \in 1..Len(q) : way[i] = StepOf(T, q, way[i - 1], i)
      /\ \A i \in 0..Len(q) : way[i] \in Seq(Part) /\ Len(way[i]) = i
  BY <1>t, <1>q, <1>e, WayFacts
<1>a. ASSUME NEW n
      PROVE  /\ \A i \in 0..(Len(q) - 1) : n = way[i] =>
                  NodeOf(R, n).children =
                    ChildrenWith(NodeOf(T, n), InsertBelow(NodeOf(T, n), q[i + 1]))
             /\ (\A i \in 0..(Len(q) - 1) : n # way[i]) =>
                  NodeOf(R, n).children = NodeOf(T, n).children
  BY <1>t, <1>e, NodeAfter
<1>d. DOMAIN R = DOMAIN T \cup {way[i] : i \in 0..Len(q)}
  BY <1>i DEF Inserted
<1>c. ASSUME NEW node, node.children \in Seq(Part), NEW x \in Part
      PROVE  x \in Range(ChildrenWith(node, x))
             /\ Range(node.children) \subseteq Range(ChildrenWith(node, x))
  <2> DEFINE s == node.children
             t == Append(s, x)
  <2>1. CASE x \in Range(s)
    BY <2>1 DEF ChildrenWith
  <2>2. CASE x \notin Range(s)
    <3>1. DOMAIN s = 1..Len(s) /\ Len(s) \in Nat /\ DOMAIN t = 1..(Len(s) + 1)
          /\ t[Len(s) + 1] = x /\ \A i \in 1..Len(s) : t[i] = s[i]
      BY <1>c
    <3>2. ChildrenWith(node, x) = t
      BY <2>2 DEF ChildrenWith
    <3> HIDE DEF t
    <3>3. x \in Range(t) /\ Range(s) \subseteq Range(t)
      BY <3>1 DEF Range
    <3> QED BY <3>2, <3>3
  <2> QED BY <2>1, <2>2
<1>1. ASSUME NEW m \in DOMAIN R, m # <<>> PROVE ChildOf(R, Front(m), Last(m))
  <2>1. CASE m \in DOMAIN T
    <3> DEFINE n == Front(m)
               x == Last(m)
    <3>1. n \in DOMAIN T /\ x \in Range(T[n].children)
      BY <1>1, <2>1 DEF TreeInv, ChildOf
    <3> HIDE DEF n, x
    <3>2. n \in DOMAIN R /\ NodeOf(T, n) = T[n] /\ NodeOf(R, n) = R[n]
      BY <1>d, <3>1 DEF NodeOf
    <3>3. x \in Range(R[n].children)
      <4>1. CASE \E i \in 0..(Len(q) - 1) : n = way[i]
        <5>1. PICK i \in 0..(Len(q) - 1) : n = way[i]
          BY <4>1
        <5> DEFINE b == InsertBelow(NodeOf(T, n), q[i + 1])
        <5>2. b \in Part /\ NodeOf(T, n).children \in Seq(Part)
          <6>1. q[i + 1] \in Part
            BY <1>q
          <6> QED BY <1>t, <6>1, NodeType, BelowFacts
        <5>3. R[n].children = ChildrenWith(NodeOf(T, n), b)
          BY <1>a, <3>2, <5>1
        <5> HIDE DEF b
        <5> QED BY <1>c, <3>1, <3>2, <5>2, <5>3
      <4>2. CASE ~\E i \in 0..(Len(q) - 1) : n = way[i]
        BY <1>a, <3>1, <3>2, <4>2
      <4> QED BY <4>1, <4>2
    <3> QED BY <3>2, <3>3 DEF ChildOf, n, x
  <2>2. CASE m \notin DOMAIN T
    <3>1. PICK i \in 0..Len(q) : m = way[i]
      BY <1>d, <2>2
    <3>2. i # 0
      BY <1>1, <1>w, <3>1
    <3>3. i \in 1..Len(q) /\ i - 1 \in 0..(Len(q) - 1) /\ i - 1 \in 0..Len(q) /\ (i - 1) + 1 = i
      BY <1>q, <3>2
    <3> DEFINE n == way[i - 1]
               b == InsertBelow(NodeOf(T, n), q[i])
    <3>4. n \in Seq(Part) /\ b \in Part /\ NodeOf(T, n).children \in Seq(Part)
      <4>1. q[i] \in Part
        BY <1>q, <3>3
      <4>2. way[i - 1] \in Seq(Part)
        BY <1>w, <3>3
      <4> QED BY <1>t, <4>1, <4>2, NodeType, BelowFacts
    <3>5. m = Append(n, b)
      BY <1>w, <3>1, <3>3 DEF StepOf
    <3>6. NodeOf(R, n).children = ChildrenWith(NodeOf(T, n), b)
      BY <1>a, <3>3
    <3>7. n \in DOMAIN R
      BY <1>d, <3>3
    <3> HIDE DEF b, n
    <3>8. Front(m) = n /\ Last(m) = b
      BY <3>4, <3>5, AppendFront
    <3>9. b \in Range(R[n].children)
      BY <1>c, <3>4, <3>6, <3>7 DEF NodeOf
    <3> QED BY <3>7, <3>8, <3>9 DEF ChildOf
  <2> QED BY <2>1, <2>2
<1>2. ASSUME NEW m \in DOMAIN R, R[m].pattern # NoRoute
      PROVE  m = Land(R, R[m].pattern)
  <2>1. R[m].pattern = IF m = way[Len(q)] THEN Borne(p) ELSE NodeOf(T, m).pattern
    BY <1>i DEF Inserted
  <2>2. CASE m = way[Len(q)]
    <3> DEFINE after == WayOf(R, q)
    <3>1. \A i \in 0..Len(q) : after[i] = way[i]
      BY <1>t, <1>q, <1>e, WayStable
    <3>2. after[Len(q)] = m
      BY <1>q, <2>2, <3>1
    <3>3. R[m].pattern = p
      BY <1>2, <2>1, <2>2 DEF Borne
    <3> QED BY <1>e, <3>2, <3>3 DEF Land
  <2>3. CASE m # way[Len(q)]
    <3> DEFINE r == R[m].pattern
               rr == ParsePattern(r)
               old == WayOf(T, rr)
               after == WayOf(R, rr)
    <3>1. m \in DOMAIN T /\ r = T[m].pattern
      BY <1>2, <2>1, <2>3 DEF NodeOf, NewNode
    <3>2. r \in P
      BY <1>2, <3>1 DEF TrieInv
    <3>3. rr \in Seq(Part) /\ Len(rr) \in Nat
      <4> HIDE DEF r
      <4> QED BY <3>2, ParseType
    <3>4. m = old[Len(rr)]
      BY <1>2, <3>1 DEF LandInv, Land
    <3>5. old = WayOf(T, rr) /\ after = WayOf(R, rr)
      OBVIOUS
    <3>6. Land(R, r) = after[Len(rr)]
      BY DEF Land
    <3> HIDE DEF r, rr, old, after
    <3>7. \A i \in 0..(Len(rr) - 1) : InsertBelow(NodeOf(T, old[i]), rr[i + 1]) \in
                                      Range(NodeOf(T, old[i]).children)
      BY <1>t, <3>1, <3>3, <3>4, <3>5, WayIn
    <3>8. \A i \in 0..Len(rr) : after[i] = old[i]
      BY <1>t, <1>e, <3>3, <3>5, <3>7, WayStable
    <3> QED BY <3>3, <3>4, <3>6, <3>8 DEF r
  <2> QED BY <2>2, <2>3
<1> QED
  BY <1>1, <1>2 DEF TreeInv, LandInv, R

----------------------------------------------------------------------------
(* What the search finds *)

\* A path begins as n says, and a pattern with the parts of n.
Fits(p, n) == /\ Len(n) <= Len(p)
              /\ \A i \in 1..Len(n) : n[i] = p[i] \/ n[i] \in Wild
StartsWith(q, n) == /\ Len(n) <= Len(q)
                    /\ \A i \in 1..Len(n) : q[i] = n[i]

\* A path is one that a pattern stands for if it begins so and the search would
\* end at the pattern.
LEMMA MatchFacts ==
  ASSUME NEW q \in Seq(Part), NEW p \in Seq(Part)
  PROVE  Matches(q, p) <=> Fits(p, q) /\ SearchEnds(p, q)
<1>1. Len(q) \in Nat /\ Len(p) \in Nat /\ DOMAIN q = 1..Len(q)
  OBVIOUS
<1> DEFINE caught == q # <<>> /\ Last(q) \in CatchAlls
           all == \A i \in 1..Len(q) : q[i] = p[i] \/ q[i] \in Wild
<1>2. Matches(q, p) <=>
        (IF caught THEN Len(p) >= Len(q) ELSE Len(p) = Len(q)) /\ all
  BY <1>1 DEF Matches
<1>3. Fits(p, q) <=> Len(q) <= Len(p) /\ all
  BY DEF Fits
<1>4. SearchEnds(p, q) <=> Len(q) = Len(p) \/ caught
  BY DEF SearchEnds
<1> HIDE DEF caught, all
<1> QED
  BY <1>1, <1>2, <1>3, <1>4

\* FirstRoute gives the first route there is.
LEMMA FirstRouteFacts ==
  ASSUME NEW f, DOMAIN f \subseteq Nat
  PROVE  \/ FirstRoute(f) = NoRoute /\ \A i \in DOMAIN f : f[i] = NoRoute
         \/ \E i \in DOMAIN f : /\ FirstRoute(f) = f[i] /\ f[i] # NoRoute
                                /\ \A j \in DOMAIN f : j < i => f[j] = NoRoute
<1> DEFINE hits == {i \in DOMAIN f : f[i] # NoRoute}
<1>1. CASE hits = {}
  BY <1>1 DEF FirstRoute
<1>2. CASE hits # {}
  <2> DEFINE m == Min(hits)
  <2>1. m \in hits /\ \A y \in hits : m <= y
    <3>1. hits \subseteq Nat
      OBVIOUS
    <3> HIDE DEF hits
    <3> QED BY <1>2, <3>1, MinOf
  <2>2. FirstRoute(f) = f[m]
    BY <1>2 DEF FirstRoute
  <2> HIDE DEF m
  <2>3. m \in DOMAIN f /\ f[m] # NoRoute
    BY <2>1
  <2>4. \A j \in DOMAIN f : j < m => f[j] = NoRoute
    BY <2>1, <2>3
  <2> QED BY <2>2, <2>3, <2>4
<1> QED
  BY <1>1, <1>2

\* A trie where each of the routes P is at its own node and no other is.
Parsed(P) == {ParsePattern(r) : r \in P}
Settled(T, P) ==
  /\ TrieInv(T, P) /\ TreeInv(T)
  /\ P \subseteq Seq(Part)
  /\ \A r \in P : ParsePattern(r) \in DOMAIN T /\ T[ParsePattern(r)].pattern = r
  /\ \A m \in DOMAIN T : T[m].pattern # NoRoute => m = ParsePattern(T[m].pattern)

\* The patterns at or below n that stand for the path p.
Below(P, p, n) == {q \in Parsed(P) : Matches(q, p) /\ StartsWith(q, n)}
FoundRight(P, p, f, n) ==
  /\ f[n] # NoRoute =>
       /\ f[n] \in P /\ ParsePattern(f[n]) \in Below(P, p, n)
       /\ \A q \in Below(P, p, n) \ {ParsePattern(f[n])} : Better(ParsePattern(f[n]), q)
  /\ f[n] = NoRoute => Below(P, p, n) = {}

\* Where the search ends there is one pattern, or none.
LEMMA EndStep ==
  ASSUME NEW T, NEW P, Settled(T, P), NEW p \in Seq(Part), NEW f,
         NEW n \in DOMAIN T, Fits(p, n), SearchEnds(p, n), f[n] = T[n].pattern,
         NoRoute \notin Seq(Part)
  PROVE  FoundRight(P, p, f, n)
<1>t. n \in Seq(Part) /\ Len(n) \in Nat /\ Len(p) \in Nat
  BY DEF Settled, TrieInv, TrieType
<1>1. ASSUME NEW q \in Below(P, p, n) PROVE q = n
  <2>1. PICK r \in P : q = ParsePattern(r)
    BY DEF Below, Parsed
  <2>2. q \in Seq(Part) /\ r \in Seq(Part) /\ Matches(q, p) /\ StartsWith(q, n)
    BY <2>1, ParseType DEF Settled, Below
  <2>3. Fits(p, q)
    BY <2>2, MatchFacts
  <2>4. Len(q) = Len(n)
    <3>1. CASE Len(n) = Len(p)
      BY <1>t, <2>2, <2>3, <3>1 DEF Fits, StartsWith
    <3>2. CASE n # <<>> /\ Last(n) \in CatchAlls
      <4>1. Len(n) \in 1..Len(q) /\ Len(n) \in 1..Len(n)
        BY <1>t, <2>2, <3>2 DEF StartsWith
      <4>2. q[Len(n)] \in CatchAlls
        BY <2>2, <3>2, <4>1 DEF StartsWith, Last
      <4> QED BY <2>1, <2>2, <4>1, <4>2, ParseType DEF CaughtAtEnd
    <3> QED BY <3>1, <3>2 DEF SearchEnds
  <2> QED
    BY <1>t, <2>2, <2>4, SameSeq DEF StartsWith
<1>2. CASE f[n] # NoRoute
  <2>1. T[n].pattern \in P /\ n = ParsePattern(f[n])
    BY <1>2 DEF Settled, TrieInv
  <2>2. Matches(n, p) /\ StartsWith(n, n)
    BY <1>t, MatchFacts DEF StartsWith
  <2>3. n \in Below(P, p, n)
    BY <2>1, <2>2 DEF Below, Parsed
  <2> QED
    BY <1>1, <1>2, <2>1, <2>3 DEF FoundRight
<1>3. CASE f[n] = NoRoute
  <2>1. ASSUME NEW q \in Below(P, p, n) PROVE FALSE
    <3>1. PICK r \in P : q = ParsePattern(r)
      BY DEF Below, Parsed
    <3>2. T[n].pattern = r /\ r \in Seq(Part)
      BY <1>1, <3>1 DEF Settled
    <3> QED BY <1>3, <3>2
  <2> QED BY <1>3, <2>1 DEF FoundRight
<1> QED
  BY <1>2, <1>3

\* Elsewhere it goes on below the children, a name before a wildcard.
LEMMA DescendStep ==
  ASSUME NEW T, NEW P, Settled(T, P), NEW p \in Seq(Part), NEW f,
         NEW n \in DOMAIN T, Fits(p, n), ~SearchEnds(p, n), f[n] = Searched(T, p, f, n),
         \A c \in DOMAIN T : Len(c) = Len(n) + 1 /\ Fits(p, c) => FoundRight(P, p, f, c)
  PROVE  FoundRight(P, p, f, n)
<1> DEFINE L == Len(n)
           kids == T[n].children
           part == p[L + 1]
           hits == MatchChildren(T[n], part)
           Child(i) == Append(n, kids[i])
           found == [i \in hits |-> f[Child(i)]]
<1>t. /\ n \in Seq(Part) /\ L \in Nat /\ Len(p) \in Nat /\ L < Len(p)
      /\ kids \in Seq(Part) /\ part \in Part
  <2>1. n \in Seq(Part) /\ L \in Nat /\ Len(p) \in Nat /\ kids \in Seq(Part)
    BY DEF Settled, TrieInv, TrieType
  <2>2. L < Len(p)
    BY <2>1 DEF Fits, SearchEnds
  <2> QED BY <2>1, <2>2
<1>h. hits = {i \in DOMAIN kids : kids[i] \in {part} \cup Wild} /\ DOMAIN kids \subseteq Nat
  BY <1>t DEF MatchChildren
<1>f. f[n] = FirstRoute(found)
  BY DEF Searched
\* A child that matches is a node, and of the patterns below n those that go on
\* with its part are below it.
<1>c. ASSUME NEW i \in hits
      PROVE  /\ Child(i) \in DOMAIN T /\ Child(i) \in Seq(Part)
             /\ kids[i] \in Part /\ kids[i] \in {part} \cup Wild
             /\ Len(Child(i)) = L + 1 /\ Child(i)[L + 1] = kids[i]
             /\ \A j \in 1..L : Child(i)[j] = n[j]
             /\ FoundRight(P, p, f, Child(i))
  <2>1. i \in DOMAIN kids /\ kids[i] \in Part /\ kids[i] \in {part} \cup Wild
    BY <1>t, <1>h
  <2>2. Child(i) \in DOMAIN T
    BY <2>1 DEF Settled, TrieInv
  <2>3. /\ Child(i) \in Seq(Part)
        /\ Len(Child(i)) = L + 1 /\ Child(i)[L + 1] = kids[i]
        /\ \A j \in 1..L : Child(i)[j] = n[j]
    BY <1>t, <2>1
  <2> HIDE DEF Child, kids
  <2>4. Fits(p, Child(i))
    <3>1. \A j \in 1..(L + 1) : Child(i)[j] = p[j] \/ Child(i)[j] \in Wild
      <4> TAKE j \in 1..(L + 1)
      <4>1. CASE j = L + 1
        BY <2>1, <2>3, <4>1
      <4>2. CASE j \in 1..L
        BY <2>3, <4>2 DEF Fits
      <4> QED BY <1>t, <4>1, <4>2
    <3> QED BY <1>t, <2>3, <3>1 DEF Fits
  <2> QED
    BY <2>1, <2>2, <2>3, <2>4
\* Every pattern below n is below a child that matches.
<1>b. ASSUME NEW q \in Below(P, p, n)
      PROVE  /\ q \in Seq(Part) /\ L + 1 \in 1..Len(q) /\ \A j \in 1..L : q[j] = n[j]
             /\ \E i \in hits : kids[i] = q[L + 1]
             /\ \A i \in hits : kids[i] = q[L + 1] => q \in Below(P, p, Child(i))
  <2>1. PICK r \in P : q = ParsePattern(r)
    BY DEF Below, Parsed
  <2>2. /\ q \in Seq(Part) /\ Matches(q, p) /\ StartsWith(q, n) /\ q \in Parsed(P)
        /\ q \in DOMAIN T
    BY <2>1, ParseType DEF Settled, Below
  <2>3. Fits(p, q) /\ SearchEnds(p, q)
    BY <2>2, MatchFacts
  <2>4. Len(q) # L
    <3> SUFFICES ASSUME Len(q) = L PROVE FALSE OBVIOUS
    <3>1. q = n
      BY <1>t, <2>2, SameSeq DEF StartsWith
    <3> QED BY <2>3, <3>1
  <2>5. L + 1 \in 1..Len(q) /\ \A j \in 1..L : q[j] = n[j]
    BY <1>t, <2>2, <2>4 DEF StartsWith
  <2>6. \E i \in hits : kids[i] = q[L + 1]
    <3>1. ChildOf(T, SubSeq(q, 1, L), q[L + 1])
      <4>1. (L + 1) - 1 = L
        BY <1>t
      <4>2. TrieType(T) /\ TreeInv(T)
        BY DEF Settled, TrieInv
      <4> HIDE DEF L
      <4> QED BY <2>2, <2>5, <4>1, <4>2, BeginningsIn
    <3>2. SubSeq(q, 1, L) = n
      <4>1. L \in 0..Len(q)
        BY <1>t, <2>2, <2>5
      <4>2. SubSeq(q, 1, L) \in Seq(Part) /\ Len(SubSeq(q, 1, L)) = L
            /\ \A j \in 1..L : SubSeq(q, 1, L)[j] = q[j]
        BY <2>2, <4>1, FirstOf
      <4> QED BY <1>t, <2>5, <4>2, SameSeq
    <3>3. q[L + 1] \in Range(kids)
      BY <3>1, <3>2 DEF ChildOf
    <3>4. PICK i \in DOMAIN kids : kids[i] = q[L + 1]
      <4> HIDE DEF kids, L
      <4> QED BY <3>3 DEF Range
    <3>5. q[L + 1] \in {part} \cup Wild
      BY <2>3, <2>5 DEF Fits
    <3> QED BY <1>h, <3>4, <3>5
  <2>7. ASSUME NEW i \in hits, kids[i] = q[L + 1] PROVE q \in Below(P, p, Child(i))
    <3>1. \A j \in 1..(L + 1) : q[j] = Child(i)[j]
      <4> TAKE j \in 1..(L + 1)
      <4>1. CASE j = L + 1
        BY <1>c, <2>7, <4>1
      <4>2. CASE j \in 1..L
        BY <1>c, <2>5, <4>2
      <4> QED BY <1>t, <4>1, <4>2
    <3>2. StartsWith(q, Child(i))
      <4>1. Len(Child(i)) = L + 1 /\ L + 1 <= Len(q)
        BY <1>c, <1>t, <2>2, <2>5
      <4> HIDE DEF Child
      <4> QED BY <3>1, <4>1 DEF StartsWith
    <3> HIDE DEF Child
    <3> QED BY <2>2, <3>2 DEF Below
  <2> QED BY <2>2, <2>5, <2>6, <2>7
<1>s. \A i \in hits : Below(P, p, Child(i)) \subseteq Below(P, p, n)
  <2> SUFFICES ASSUME NEW i \in hits, NEW q \in Below(P, p, Child(i))
               PROVE  StartsWith(q, n)
    BY DEF Below
  <2>1. StartsWith(q, Child(i))
    BY DEF Below
  <2>2. Len(Child(i)) = L + 1 /\ \A j \in 1..L : Child(i)[j] = n[j]
    BY <1>c
  <2>3. Len(q) \in Nat
    <3>1. PICK r \in P : q = ParsePattern(r)
      BY DEF Below, Parsed
    <3>2. r \in Seq(Part)
      BY DEF Settled
    <3>3. q \in Seq(Part)
      BY <3>1, <3>2, ParseType
    <3> QED BY <3>3
  <2> HIDE DEF Child
  <2>4. L + 1 <= Len(q) /\ \A j \in 1..(L + 1) : q[j] = Child(i)[j]
    BY <2>1, <2>2 DEF StartsWith
  <2> QED BY <1>t, <2>2, <2>3, <2>4 DEF StartsWith
<1>w. \A i \in hits : kids[i] \in Wild => i = Len(kids)
  BY <1>h DEF Settled, TrieInv
<1>d. DOMAIN found = hits /\ hits \subseteq Nat /\ \A i \in hits : found[i] = f[Child(i)]
  BY <1>h
<1> HIDE DEF found, hits, Child, kids, part, L
<1>1. CASE FirstRoute(found) = NoRoute /\ \A i \in hits : found[i] = NoRoute
  <2>1. ASSUME NEW q \in Below(P, p, n) PROVE FALSE
    <3>1. PICK i \in hits : kids[i] = q[L + 1]
      BY <1>b
    <3>2. q \in Below(P, p, Child(i)) /\ f[Child(i)] = NoRoute
      BY <1>1, <1>b, <1>d, <3>1
    <3> QED BY <1>c, <3>2 DEF FoundRight
  <2> QED BY <1>1, <1>f, <2>1 DEF FoundRight
<1>2. CASE \E i \in hits : /\ FirstRoute(found) = found[i] /\ found[i] # NoRoute
                           /\ \A j \in hits : j < i => found[j] = NoRoute
  <2>1. PICK i \in hits : /\ FirstRoute(found) = found[i] /\ found[i] # NoRoute
                          /\ \A j \in hits : j < i => found[j] = NoRoute
    BY <1>2
  <2> DEFINE m == ParsePattern(f[n])
  <2>2. f[n] = f[Child(i)] /\ f[n] # NoRoute
    BY <1>d, <1>f, <2>1
  <2>3. /\ f[n] \in P /\ m \in Below(P, p, Child(i))
        /\ \A q \in Below(P, p, Child(i)) \ {m} : Better(m, q)
    BY <1>c, <2>2 DEF FoundRight
  <2> HIDE DEF m
  <2>4. m \in Below(P, p, n)
    BY <1>s, <2>3
  <2>5. m \in Seq(Part) /\ L + 1 \in 1..Len(m) /\ m[L + 1] = kids[i]
        /\ \A j \in 1..L : m[j] = n[j]
    <3>1. m \in Seq(Part) /\ L + 1 \in 1..Len(m) /\ \A j \in 1..L : m[j] = n[j]
      BY <1>b, <2>4
    <3>2. StartsWith(m, Child(i))
      BY <2>3 DEF Below
    <3>3. L + 1 \in 1..Len(Child(i))
      BY <1>c, <1>t
    <3> QED BY <1>c, <3>1, <3>2, <3>3 DEF StartsWith
  <2>6. ASSUME NEW q \in Below(P, p, n), q # m PROVE Better(m, q)
    <3>1. PICK j \in hits : kids[j] = q[L + 1]
      BY <1>b
    <3>2. q \in Below(P, p, Child(j))
      BY <1>b, <3>1
    <3>3. CASE q[L + 1] = kids[i]
      BY <1>b, <2>3, <2>6, <3>3
    <3>4. CASE q[L + 1] # kids[i]
      <4>1. found[j] # NoRoute
        BY <1>c, <1>d, <3>2 DEF FoundRight
      <4>2. i < j
        BY <1>d, <2>1, <3>1, <3>4, <4>1
      <4>3. kids[i] \notin Wild
        <5> SUFFICES ASSUME kids[i] \in Wild PROVE FALSE OBVIOUS
        <5>1. i = Len(kids) /\ j \in DOMAIN kids
          BY <1>w, <1>h DEF hits
        <5> QED BY <1>t, <4>2, <5>1
      <4>4. q[L + 1] \in Wild
        BY <1>c, <3>1, <3>4, <4>3
      <4>5. SubSeq(m, 1, L) = SubSeq(q, 1, L)
        <5>1. q \in Seq(Part) /\ L + 1 \in 1..Len(q) /\ \A k \in 1..L : q[k] = n[k]
          BY <1>b
        <5>2. L \in 0..Len(m) /\ L <= Len(q) /\ \A k \in 1..L : m[k] = q[k]
          BY <1>t, <2>5, <5>1
        <5> QED BY <2>5, <5>1, <5>2, SameBeginning
      <4>6. L + 1 \in DOMAIN m \cap DOMAIN q /\ (L + 1) - 1 = L
        BY <1>b, <1>t, <2>5
      <4> QED
        BY <2>5, <4>3, <4>4, <4>5, <4>6 DEF Better
    <3> QED BY <3>3, <3>4
  <2> QED
    BY <2>2, <2>3, <2>4, <2>6 DEF FoundRight, m
<1> QED
  BY <1>1, <1>2, <1>d, FirstRouteFacts

\* So the search of a path finds the pattern that beats all others that stand
\* for it, if there is one.
LEMMA SearchRight ==
  ASSUME NEW T, NEW P, Settled(T, P), NEW p \in Seq(Part), NoRoute \notin Seq(Part),
         NEW r, r = Search(T, p)
  PROVE  /\ r # NoRoute =>
              /\ r \in P /\ Matches(ParsePattern(r), p)
              /\ \A q \in Parsed(P) \ {ParsePattern(r)} :
                   Matches(q, p) => Better(ParsePattern(r), q)
         /\ r = NoRoute => \A q \in Parsed(P) : ~Matches(q, p)
<1>1. PICK f : /\ \A n \in DOMAIN T : Len(n) <= Len(p) =>
                      f[n] = Searched(T, p, f, n) /\ f[n] \in P \cup {NoRoute}
               /\ Search(T, p) = IF T = NoTrie THEN NoRoute ELSE f[<<>>]
  BY SearchFacts DEF Settled
<1> DEFINE L == Len(p)
           Right(k) == \A n \in DOMAIN T :
                         Fits(p, n) /\ L - Len(n) <= k => FoundRight(P, p, f, n)
           All == {k \in Nat : Right(k)}
<1>n. L \in Nat /\ \A n \in DOMAIN T : Len(n) \in Nat /\ n \in Seq(Part)
  BY DEF Settled, TrieInv, TrieType
<1>2. ASSUME NEW n \in DOMAIN T, Fits(p, n), SearchEnds(p, n) PROVE FoundRight(P, p, f, n)
  <2>1. f[n] = T[n].pattern
    BY <1>1, <1>2 DEF Searched, Fits
  <2> QED BY <1>2, <2>1, EndStep
<1>3. Right(0)
  <2> SUFFICES ASSUME NEW n \in DOMAIN T, Fits(p, n), L - Len(n) <= 0 PROVE SearchEnds(p, n)
    BY <1>2
  <2> QED BY <1>n DEF Fits, SearchEnds
<1>4. ASSUME NEW k \in Nat, Right(k) PROVE Right(k + 1)
  <2> SUFFICES ASSUME NEW n \in DOMAIN T, Fits(p, n), L - Len(n) <= k + 1, ~SearchEnds(p, n)
               PROVE  FoundRight(P, p, f, n)
    BY <1>2
  <2>1. \A c \in DOMAIN T : Len(c) = Len(n) + 1 /\ Fits(p, c) => FoundRight(P, p, f, c)
    <3> SUFFICES ASSUME NEW c \in DOMAIN T, Len(c) = Len(n) + 1, Fits(p, c)
                 PROVE  L - Len(c) <= k
      BY <1>4
    <3> QED BY <1>n
  <2>2. f[n] = Searched(T, p, f, n)
    BY <1>1 DEF Fits
  <2> HIDE DEF Right
  <2> QED BY <2>1, <2>2, DescendStep
<1>5. \A n \in DOMAIN T : Fits(p, n) => FoundRight(P, p, f, n)
  <2>1. Right(L)
    <3> HIDE DEF Right
    <3>1. 0 \in All /\ \A k \in Nat : k \in All => k + 1 \in All
      BY <1>3, <1>4
    <3>2. Nat \subseteq All
      <4> HIDE DEF All
      <4> QED BY <3>1, SetInduction
    <3> QED BY <1>n, <3>2
  <2> QED BY <1>n, <2>1
<1>p. \A q \in Parsed(P) : q \in Seq(Part) /\ StartsWith(q, <<>>)
  <2> TAKE q \in Parsed(P)
  <2>1. PICK s \in P : q = ParsePattern(s)
    BY DEF Parsed
  <2>2. q \in Seq(Part)
    BY <2>1, ParseType DEF Settled
  <2> QED BY <2>2 DEF StartsWith
<1>6. CASE T = NoTrie
  <2>1. r = NoRoute
    BY <1>1, <1>6
  <2>2. P = {}
    BY <1>6 DEF Settled, NoTrie
  <2> QED BY <2>1, <2>2 DEF Parsed
<1>7. CASE T # NoTrie
  <2>1. <<>> \in DOMAIN T /\ Fits(p, <<>>)
    BY <1>7, <1>n DEF Settled, TrieInv, Fits
  <2>2. r = f[<<>>] /\ FoundRight(P, p, f, <<>>)
    BY <1>1, <1>5, <1>7, <2>1
  <2>3. Below(P, p, <<>>) = {q \in Parsed(P) : Matches(q, p)}
    BY <1>p DEF Below
  <2> QED
    BY <2>2, <2>3 DEF FoundRight
<1> QED
  BY <1>6, <1>7

\* Of two patterns at most one is better.
LEMMA BetterOnce ==
  ASSUME NEW p \in Seq(Part), NEW q \in Seq(Part), Better(p, q), Better(q, p)
  PROVE  FALSE
<1>1. PICK i \in DOMAIN p \cap DOMAIN q : /\ SubSeq(p, 1, i - 1) = SubSeq(q, 1, i - 1)
                                          /\ p[i] \notin Wild /\ q[i] \in Wild
  BY DEF Better
<1>2. PICK j \in DOMAIN q \cap DOMAIN p : /\ SubSeq(q, 1, j - 1) = SubSeq(p, 1, j - 1)
                                          /\ q[j] \notin Wild /\ p[j] \in Wild
  BY DEF Better
<1>n. i \in Nat /\ j \in Nat /\ i \in 1..Len(p) /\ i \in 1..Len(q) /\ j \in 1..Len(p) /\ j \in 1..Len(q)
  OBVIOUS
<1>s. ASSUME NEW k \in 1..Len(p), k \in 1..Len(q), SubSeq(p, 1, k - 1) = SubSeq(q, 1, k - 1),
             NEW h \in 1..(k - 1)
      PROVE  p[h] = q[h]
  <2>1. k - 1 \in 0..Len(p) /\ k - 1 \in 0..Len(q)
    BY <1>s
  <2>2. SubSeq(p, 1, k - 1)[h] = p[h] /\ SubSeq(q, 1, k - 1)[h] = q[h]
    BY <2>1, FirstOf
  <2> QED BY <1>s, <2>2
<1>3. CASE i = j
  BY <1>1, <1>2, <1>3
<1>4. CASE i < j
  <2>1. i \in 1..(j - 1)
    BY <1>n, <1>4
  <2> QED BY <1>n, <1>1, <1>2, <1>s, <2>1
<1>5. CASE j < i
  <2>1. j \in 1..(i - 1)
    BY <1>n, <1>5
  <2> QED BY <1>n, <1>1, <1>2, <1>s, <2>1
<1> QED
  BY <1>n, <1>3, <1>4, <1>5

\* So a pattern that is better than all others that fit is the best route.
LEMMA BestOne ==
  ASSUME NEW Q, Q \subseteq Seq(Part), NEW p, NEW m \in Q, Matches(m, p),
         \A q \in Q \ {m} : Matches(q, p) => Better(m, q)
  PROVE  BestRoute(Q, p) = m
<1> DEFINE fit == {q \in Q : Matches(q, p)}
           Wins(q) == \A o \in fit \ {q} : Better(q, o)
<1>1. m \in fit /\ Wins(m)
  OBVIOUS
<1>2. ASSUME NEW q \in fit, Wins(q) PROVE q = m
  <2> SUFFICES ASSUME q # m PROVE FALSE OBVIOUS
  <2>1. Better(q, m) /\ Better(m, q)
    BY <1>1, <1>2
  <2>2. q \in Seq(Part) /\ m \in Seq(Part)
    OBVIOUS
  <2> QED BY <2>1, <2>2, BetterOnce
<1>3. (CHOOSE q \in fit : Wins(q)) = m
  <2> HIDE DEF fit, Wins
  <2> QED BY <1>1, <1>2
<1>4. BestRoute(Q, p) = CHOOSE q \in fit : Wins(q)
  BY <1>1 DEF BestRoute
<1> QED
  BY <1>3, <1>4

\* A pattern whose wildcards have names of their own, filled with the parameters that a path
\* gives it, is the path.
LEMMA FilledIs ==
  ASSUME NEW r \in Seq(Part), NEW b, b = ParsePattern(r), NEW p, NEW a, a = ParsePattern(p),
         a \in Seq(Part), Matches(b, a), OwnNames(b)
  PROVE  Filled(b, ParamsOf(r, p)) = a
<1> DEFINE n == Len(b)
           params0 == ParamsOf(r, p)
           Value(i) == IF b[i] \in CatchAlls THEN SubSeq(a, i, Len(a)) ELSE <<a[i]>>
           s == [i \in DOMAIN b |-> IF b[i] \in Wild THEN params0[NameOf[b[i]]] ELSE <<b[i]>>]
<1>n. b \in Seq(Part) /\ n \in Nat /\ DOMAIN b = 1..n /\ Len(a) \in Nat
  BY ParseType
<1>m. Fits(a, b) /\ SearchEnds(a, b)
  BY <1>n, MatchFacts
<1>l. n <= Len(a) /\ \A i \in 1..n : i \in 1..Len(a)
  BY <1>n, <1>m DEF Fits
<1>v. ASSUME NEW i \in 1..n PROVE s[i] = Value(i) /\ Value(i) \in Seq(Part)
  <2>1. CASE b[i] \in Wild
    <3>3. i \in Named(b)
      BY <1>n, <2>1 DEF Named, OwnNames, Range
    <3>1. {j \in Named(b) : NameOf[b[j]] = NameOf[b[i]]} = {i}
      BY <3>3 DEF OwnNames
    <3>2. Max({i}) = i
      <4>1. i \in Nat /\ {i} \subseteq 1..i /\ {i} # {}
        BY <1>n
      <4> QED BY <4>1, MaxOf
    <3>4. params0[NameOf[b[i]]] = Value(Max({j \in Named(b) : NameOf[b[j]] = NameOf[b[i]]}))
      BY <3>3 DEF ParamsOf
    <3> QED
      BY <1>l, <1>n, <2>1, <3>1, <3>2, <3>4, Joined
  <2>2. CASE b[i] \notin Wild
    <3>1. b[i] = a[i] /\ b[i] \notin CatchAlls
      BY <1>m, <2>2 DEF Fits, Wild
    <3> QED BY <1>l, <1>n, <2>2, <3>1, Joined
  <2> QED BY <2>1, <2>2
<1>o. \A i \in 1..n : b[i] \in CatchAlls => i = n
  BY ParseType DEF CaughtAtEnd
<1>j. ASSUME NEW i \in 1..Len(a)
      PROVE  Grows(a, i)
  BY Joined
<1>f. Filled(b, ParamsOf(r, p)) = FlattenSeq(s)
  BY DEF Filled
<1> HIDE DEF params0
<1>1. CASE n = 0
  <2>1. Len(a) = 0
    <3>1. b = <<>>
      BY <1>n, <1>1
    <3> QED BY <1>m, <1>1, <3>1 DEF SearchEnds
  <2>2. s = <<>>
    <3>1. DOMAIN b = {}
      BY <1>n, <1>1
    <3> QED BY <3>1
  <2>3. a = <<>>
    BY <2>1
  <2>4. FlattenSeq(<<>>) = <<>>
    BY DEF FlattenSeq
  <2> HIDE DEF s
  <2> QED BY <1>f, <2>2, <2>3, <2>4
<1>2. CASE n # 0
  <2>1. s \in Seq(Seq(Part)) /\ Len(s) = n /\ s # <<>>
    <3>1. s \in [1..n -> Seq(Part)]
      <4>1. \A i \in 1..n : s[i] \in Seq(Part)
        <5> HIDE DEF s, Value
        <5> QED BY <1>v
      <4> QED BY <1>n, <4>1
    <3>2. n \in Nat \ {0}
      BY <1>n, <1>2
    <3> HIDE DEF s, n
    <3>3. s \in Seq(Seq(Part)) /\ Len(s) = n
      BY <3>1, <3>2
    <3> QED BY <3>2, <3>3
  <2> HIDE DEF s
  <2>2. PICK f : /\ \A i \in 1..n : f[i] = IF i = 1 THEN s[i] ELSE f[i - 1] \o s[i]
                 /\ FlattenSeq(s) = f[n]
    BY <2>1, FlattenFacts
  <2> DEFINE Done(k) == k + 1 <= n =>
               f[k + 1] = IF b[k + 1] \in CatchAlls THEN a ELSE SubSeq(a, 1, k + 1)
             All == {k \in Nat : Done(k)}
  <2>3. Done(0)
    <3>1. f[1] = Value(1) /\ 1 \in 1..n /\ 1 \in 1..Len(a)
      <4>1. 1 \in 1..n
        BY <1>n, <1>2
      <4> QED BY <1>l, <1>v, <2>2, <4>1
    <3>2. SubSeq(a, 1, Len(a)) = a /\ <<a[1]>> = SubSeq(a, 1, 1)
      BY <3>1, Joined
    <3>3. 0 + 1 = 1
      OBVIOUS
    <3> QED BY <3>1, <3>2, <3>3
  <2>4. ASSUME NEW k \in Nat, Done(k) PROVE Done(k + 1)
    <3> DEFINE i == (k + 1) + 1
    <3> SUFFICES ASSUME i <= n
                 PROVE  f[i] = IF b[i] \in CatchAlls THEN a ELSE SubSeq(a, 1, i)
      OBVIOUS
    <3>1. k + 1 <= n /\ k + 1 # n /\ k + 1 \in 1..n /\ i \in 1..n /\ i # 1 /\ i - 1 = k + 1
      <4> HIDE DEF n
      <4> QED BY <1>n
    <3> HIDE DEF i
    <3>2. b[i - 1] \notin CatchAlls
      BY <1>o, <3>1
    <3>3. f[i - 1] = SubSeq(a, 1, i - 1)
      BY <2>4, <3>1, <3>2
    <3>4. f[i] = SubSeq(a, 1, i - 1) \o Value(i)
      <4>1. f[i] = f[i - 1] \o s[i]
        BY <2>2, <3>1
      <4>2. s[i] = Value(i)
        BY <1>v, <3>1
      <4> HIDE DEF Value
      <4> QED BY <3>3, <4>1, <4>2
    <3>5. i \in 1..Len(a)
      BY <1>l, <3>1
    <3>6. /\ SubSeq(a, 1, i - 1) \o <<a[i]>> = SubSeq(a, 1, i)
          /\ SubSeq(a, 1, i - 1) \o SubSeq(a, i, Len(a)) = a
      BY <3>5, <1>j DEF Grows
    <3>7. CASE b[i] \in CatchAlls
      BY <3>4, <3>6, <3>7
    <3>8. CASE b[i] \notin CatchAlls
      BY <3>4, <3>6, <3>8
    <3> QED BY <3>7, <3>8
  <2>5. f[n] = IF b[n] \in CatchAlls THEN a ELSE SubSeq(a, 1, n)
    <3>1. \A k \in Nat : Done(k)
      <4> HIDE DEF Done
      <4>1. 0 \in All /\ \A k \in Nat : k \in All => k + 1 \in All
        BY <2>3, <2>4
      <4>2. Nat \subseteq All
        <5> HIDE DEF All
        <5> QED BY <4>1, SetInduction
      <4> QED BY <4>2
    <3>2. n - 1 \in Nat /\ (n - 1) + 1 = n /\ n <= n
      BY <1>n, <1>2
    <3>3. Done(n - 1)
      <4> HIDE DEF Done
      <4> QED BY <3>1, <3>2
    <3> HIDE DEF n
    <3> QED BY <3>2, <3>3
  <2> HIDE DEF Done, Value, n
  <2>6. CASE b[n] \in CatchAlls
    BY <1>f, <2>2, <2>5, <2>6
  <2>7. CASE b[n] \notin CatchAlls
    <3>1. Len(a) = n
      BY <1>m, <2>7 DEF SearchEnds, Last, n
    <3>2. 1 \in 1..Len(a)
      BY <1>n, <1>2, <3>1
    <3>3. SubSeq(a, 1, Len(a)) = a
      BY <3>2, Joined
    <3> QED BY <1>f, <2>2, <2>5, <2>7, <3>1, <3>3
  <2> QED BY <2>6, <2>7
<1> QED
  BY <1>1, <1>2

----------------------------------------------------------------------------
(* Types *)

USE DEF setupVars, contextVars, historyVars, requestVars, vars

\* The middlewares of a path are a sequence of them.
LEMMA MiddlewaresType ==
  ASSUME ChainType, NEW p
  PROVE  Middlewares(p) \in Seq(Used)
<1> DEFINE s == [g \in DOMAIN groups |-> IF HasPrefix(p, groups[g].prefix)
                                        THEN groups[g].middlewares ELSE <<>>]
           S == Seq(Used)
<1>1. Len(groups) \in Nat /\ DOMAIN groups = 1..Len(groups)
  BY SeqFacts DEF ChainType
<1>2. /\ <<>> \in S
      /\ \A g \in 1..Len(groups) : groups[g].middlewares \in S
  BY <1>1 DEF ChainType
<1>3. s \in [1..Len(groups) -> S]
  <2> HIDE DEF S
  <2> QED BY <1>1, <1>2
<1>4. s \in Seq(S)
  <2> HIDE DEF S, s
  <2> QED BY <1>1, <1>3
<1>5. FlattenSeq(s) \in Seq(Used)
  <2> HIDE DEF s
  <2> QED BY <1>4, FlattenType
<1> QED
  BY <1>5 DEF Middlewares

\* A new engine, or the default one, has the declared types (gee.go:17-40).
LEMMA InitType == Init => ChainType
<1> SUFFICES ASSUME Init PROVE ChainType OBVIOUS
<1>1. PICK default \in {<<>>, << <<"logger", 1>>, <<"recovery", 1>> >>} :
        groups = << [prefix |-> <<>>, parent |-> 0, middlewares |-> default] >>
  BY DEF Init
<1>2. default \in Seq(Used)
  <2>1. <<"logger", 1>> \in Used /\ <<"recovery", 1>> \in Used
    BY DEF Used
  <2>2. << <<"logger", 1>>, <<"recovery", 1>> >> \in Seq(Used) /\ <<>> \in Seq(Used)
    BY <2>1, SeqIsSeq
  <2> QED BY <1>1, <2>2
<1>3. IsSeq(groups)
  <2>1. \A x : <<x>> \in Seq({x})
    OBVIOUS
  <2> QED BY <1>1, <2>1, SeqIsSeq
<1>4. \A g \in DOMAIN groups : /\ groups[g].middlewares \in Seq(Used)
                             /\ "middlewares" \in DOMAIN groups[g]
  <2>1. \A x : DOMAIN <<x>> = {1} /\ <<x>>[1] = x
    OBVIOUS
  <2> DEFINE engine == [prefix |-> <<>>, parent |-> 0, middlewares |-> default]
  <2>2. engine.middlewares \in Seq(Used) /\ "middlewares" \in DOMAIN engine
    BY <1>2
  <2>3. DOMAIN groups = {1} /\ groups[1] = engine
    BY <1>1, <2>1
  <2> QED
    BY <2>2, <2>3
<1>5. IsSeq(chain) /\ index \in Nat /\ pc = "idle" /\ calls = <<>> /\ entered = <<>>
  BY DEF Init, IsSeq
<1> QED
  BY <1>3, <1>4, <1>5, SeqIsSeq DEF ChainType

\* Set-up, requests and handlers preserve them.
LEMMA NextType == ChainType /\ IndexInv /\ [Next]_vars => ChainType'
<1> SUFFICES ASSUME ChainType, IndexInv, [Next]_vars PROVE ChainType' OBVIOUS
<1> USE DEF ChainType
<1>g. /\ Len(groups) \in Nat /\ DOMAIN groups = 1..Len(groups)
      /\ Len(chain) \in Nat
  BY SeqFacts
<1>t. pc = "handler" => /\ calls # <<>> /\ Len(calls) \in DOMAIN calls
                        /\ Front(calls) \in Seq(Frame)
  <2> SUFFICES ASSUME pc = "handler" PROVE Len(calls) - 1 \in 0..Len(calls) /\ calls # <<>>
    BY FirstOf DEF Front
  <2> QED
    BY DEF IndexInv
<1>1. ASSUME NEW g \in DOMAIN groups, NEW prefix, Group(g, prefix) PROVE ChainType'
  <2> DEFINE new == [prefix |-> FullPrefix(g, prefix), parent |-> g, middlewares |-> <<>>]
  <2>1. /\ groups' = Append(groups, new) /\ UNCHANGED requestVars
        /\ new.middlewares = <<>> /\ "middlewares" \in DOMAIN new
    BY <1>1 DEF Group
  <2>2. IsSeq(groups') /\ Len(groups') = Len(groups) + 1
    BY <2>1, SeqFacts
  <2>3. \A h \in 1..(Len(groups) + 1) : groups'[h] = IF h = Len(groups) + 1 THEN new ELSE groups[h]
    BY <2>1, SeqFacts
  <2>4. DOMAIN groups' = 1..(Len(groups) + 1)
    BY <2>2, SeqFacts
  <2>5. ASSUME NEW h \in DOMAIN groups'
        PROVE  groups'[h].middlewares \in Seq(Used) /\ "middlewares" \in DOMAIN groups'[h]
    <3> HIDE DEF new
    <3>1. CASE h = Len(groups) + 1
      BY <2>1, <2>3, <2>4, <3>1, SeqIsSeq
    <3>2. CASE h \in DOMAIN groups
      BY <1>g, <2>3, <2>4, <3>2
    <3> QED
      BY <1>g, <2>4, <3>1, <3>2
  <2> QED
    BY <2>1, <2>2, <2>5
<1>2. ASSUME NEW g \in DOMAIN groups, NEW kind \in {"user", "recovery"}, Use(g, kind)
      PROVE  ChainType'
  <2> DEFINE new == [groups[g] EXCEPT !.middlewares = Append(@, <<kind, g>>)]
  <2>1. groups' = [groups EXCEPT ![g] = new] /\ UNCHANGED requestVars
    BY <1>2 DEF Use
  <2>2. Append(groups[g].middlewares, <<kind, g>>) \in Seq(Used)
    <3>1. <<kind, g>> \in Used
      BY <1>g DEF Used
    <3> QED BY <3>1
  <2>3. IsSeq(groups') /\ DOMAIN groups' = DOMAIN groups
    BY <2>1, SeqFacts
  <2>4. groups'[g].middlewares \in Seq(Used) /\ "middlewares" \in DOMAIN groups'[g]
    <3>1. new.middlewares = Append(groups[g].middlewares, <<kind, g>>)
          /\ DOMAIN new = DOMAIN groups[g]
      OBVIOUS
    <3> HIDE DEF new
    <3> QED BY <2>1, <2>2, <3>1
  <2>5. \A h \in DOMAIN groups : h # g => groups'[h] = groups[h]
    BY <2>1
  <2> QED
    BY <2>1, <2>3, <2>4, <2>5
<1>3. ASSUME NEW g \in DOMAIN groups, NEW suffix, GET(g, suffix) PROVE ChainType'
  BY <1>3 DEF GET
<1>4. ASSUME NEW p \in Paths, ServeHTTP(p) PROVE ChainType'
  <2>1. \A x : IsSeq(Append(Middlewares(p), x))
    <3>1. IsSeq(Middlewares(p))
      BY MiddlewaresType DEF IsSeq, Range
    <3> QED
      BY <3>1, SeqFacts
  <2> QED
    BY <1>4, <2>1 DEF ServeHTTP
<1>5. CASE CallHandler
  BY <1>5 DEF CallHandler, Frame
<1>6. CASE NextReturns
  BY <1>6 DEF NextReturns
<1>7. CASE NextCall
  <2>1. pc = "handler"
    BY <1>7 DEF NextCall, UserCode, Middleware
  <2> DEFINE top == [calls[Len(calls)] EXCEPT !.nexts = @ + 1]
  <2>2. calls' = [calls EXCEPT ![Len(calls)] = top]
    BY <1>7 DEF NextCall
  <2>3. calls[Len(calls)] \in Frame
    BY <1>t, <2>1
  <2>4. top \in Frame
    <3>1. top = [calls[Len(calls)] EXCEPT !.nexts = calls[Len(calls)].nexts + 1]
      OBVIOUS
    <3> HIDE DEF top
    <3> QED BY <2>3, <3>1, FrameFacts
  <2>5. calls' \in Seq(Frame)
    <3> HIDE DEF top
    <3> QED BY <1>t, <2>1, <2>2, <2>4, SeqIsSeq
  <2> QED
    BY <1>7, <2>5 DEF NextCall, Advanced
<1>8. CASE Return \/ NotFound
  <2>1. pc = "handler"
    BY <1>8 DEF Return, NotFound, UserCode, Middleware
  <2> QED
    BY <1>8, <1>t, <2>1 DEF Return, NotFound, EndHandler
<1>9. CASE Write \/ Fail
  BY <1>9, <1>g DEF Write, Fail, PastTheEnd
<1>10. CASE Panic
  <2>1. ASSUME Recoveries # {}
        PROVE  SubSeq(calls, 1, Max(Recoveries) - 1) \in Seq(Frame)
    <3>1. Recoveries \subseteq 1..Len(calls) /\ Len(calls) \in Nat
      BY DEF Recoveries
    <3>2. Max(Recoveries) \in 1..Len(calls)
      BY <2>1, <3>1, MaxOf
    <3>3. Max(Recoveries) - 1 \in 0..Len(calls)
      BY <3>2
    <3> QED
      BY <3>3, FirstOf
  <2>2. calls' \in Seq(Frame)
    BY <1>10, <2>1, SeqIsSeq DEF Panic
  <2>3. index' \in Nat /\ pc' \in {"next", "aborted"} /\ UNCHANGED <<groups, chain, entered>>
    BY <1>10, <1>g DEF Panic, PastTheEnd
  <2> QED
    BY <2>2, <2>3
<1>11. CASE Finish
  BY <1>11 DEF Finish, IsSeq
<1>12. CASE UNCHANGED vars
  BY <1>12
<1> QED
  BY <1>1, <1>2, <1>3, <1>4, <1>5, <1>6, <1>7, <1>8, <1>9, <1>10, <1>11, <1>12
     DEF Next, SetUp

----------------------------------------------------------------------------
(* The chain *)

ChainInv == /\ IdleInv
            /\ IndexInv
            /\ StackInv
            /\ FailInv
            /\ PanicInv
            /\ EnteredInOrder

\* The numbers of the chain and the stack.
LEMMA Numbers ==
  ASSUME ChainType
  PROVE  /\ Len(chain) \in Nat /\ DOMAIN chain = 1..Len(chain)
         /\ Len(entered) \in Nat /\ DOMAIN entered = 1..Len(entered)
         /\ Len(calls) \in Nat /\ DOMAIN calls = 1..Len(calls)
         /\ index \in Nat
         /\ \A k \in DOMAIN calls : calls[k] \in Frame
         /\ \A f \in Frame : f.at \in Nat /\ f.nexts \in Nat
<1>1. calls \in Seq(Frame) /\ entered \in Seq(Nat) /\ index \in Nat
  BY DEF ChainType
<1>2. \A f \in Frame : f.at \in Nat /\ f.nexts \in Nat
  BY DEF Frame
<1>3. Len(chain) \in Nat /\ DOMAIN chain = 1..Len(chain)
  BY SeqFacts DEF ChainType
<1> QED
  BY <1>1, <1>2, <1>3

\* Whoever runs is on top of the stack.
LEMMA TopFacts ==
  ASSUME ChainType, IndexInv, pc = "handler"
  PROVE  /\ Len(calls) \in DOMAIN calls /\ Len(calls) # 0
         /\ Top = calls[Len(calls)]
         /\ Top \in Frame /\ Top.at \in Nat /\ Top.nexts \in Nat
<1>1. Len(calls) \in DOMAIN calls /\ Len(calls) # 0
  BY DEF ChainType, IndexInv
<1> QED
  BY <1>1, Numbers DEF Top

\* The loop of Next begins the handler behind the last that began, if any is
\* left (context.go:37-44).
LEMMA CallHandlerStep ==
  ASSUME ChainType, ChainInv, CallHandler
  PROVE  ChainInv'
<1> DEFINE new == [at |-> index + 1, nexts |-> 0]
<1>n. /\ Len(chain) \in Nat /\ DOMAIN chain = 1..Len(chain)
      /\ Len(entered) \in Nat /\ DOMAIN entered = 1..Len(entered)
      /\ Len(calls) \in Nat /\ DOMAIN calls = 1..Len(calls)
      /\ index \in Nat
      /\ entered \in Seq(Nat) /\ calls \in Seq(Frame)
      /\ \A k \in DOMAIN calls : calls[k].at \in Nat
  BY Numbers DEF ChainType
<1>1. /\ pc = "next" /\ pc' = "handler" /\ index < Len(chain)
      /\ calls' = Append(calls, new) /\ entered' = Append(entered, index + 1)
      /\ UNCHANGED <<chain, index, sent, failedAt, panicked>>
  BY DEF CallHandler
<1>2. index = Len(entered)
  <2>1. index = Len(entered) \/ index >= Len(chain)
    BY <1>1 DEF ChainInv, IndexInv
  <2>2. index \in Nat /\ Len(chain) \in Nat /\ index < Len(chain)
    BY <1>n, <1>1
  <2> QED
    BY <2>1, <2>2
<1>3. new \in Frame /\ new.at = index + 1 /\ new.nexts = 0
  BY <1>n DEF Frame
<1> HIDE DEF new
<1>4. /\ Len(entered') = Len(entered) + 1
      /\ entered'[Len(entered) + 1] = Len(entered) + 1
      /\ \A i \in 1..Len(entered) : entered'[i] = entered[i]
      /\ DOMAIN entered' = 1..(Len(entered) + 1)
  BY <1>n, <1>1, <1>2
<1>5. /\ Len(calls') = Len(calls) + 1 /\ calls' # <<>>
      /\ calls'[Len(calls) + 1] = new
      /\ \A k \in 1..Len(calls) : calls'[k] = calls[k]
      /\ DOMAIN calls' = 1..(Len(calls) + 1)
  BY <1>n, <1>1, <1>3
<1>6. EnteredInOrder'
  <2>1. entered' = [i \in 1..Len(entered') |-> entered'[i]]
    BY <1>n, <1>1
  <2>2. \A i \in 1..Len(entered) : entered[i] = i
    BY <1>n DEF ChainInv, EnteredInOrder
  <2>3. \A i \in 1..(Len(entered) + 1) : entered'[i] = i
    <3>1. \A i \in 1..(Len(entered) + 1) : i \in 1..Len(entered) \/ i = Len(entered) + 1
      BY <1>n
    <3>2. /\ entered'[Len(entered) + 1] = Len(entered) + 1
          /\ \A i \in 1..Len(entered) : entered'[i] = i
      BY <1>4, <2>2
    <3> QED BY <3>1, <3>2
  <2>4. \A i \in 1..Len(entered') : entered'[i] = i
    BY <1>4, <2>3
  <2> QED
    BY <2>1, <2>4 DEF EnteredInOrder
<1>7. IndexInv'
  BY <1>n, <1>1, <1>2, <1>3, <1>4, <1>5 DEF IndexInv, Top
<1>8. \A m \in 1..Len(entered) : OnStack(m) => OnStack(m)'
  <2>1. \A m : OnStack(m) => \E k \in DOMAIN calls' : calls'[k].at = m
    BY <1>n, <1>5 DEF OnStack
  <2> QED BY <2>1 DEF OnStack
<1>9. StackInv'
  <2>1. \A k \in DOMAIN calls' : calls'[k].at \in 1..Len(entered')
    BY <1>n, <1>2, <1>3, <1>4, <1>5 DEF ChainInv, StackInv
  <2>2. ASSUME NEW j \in DOMAIN calls', NEW k \in DOMAIN calls', j < k
        PROVE  calls'[j].at < calls'[k].at
    <3>1. j \in DOMAIN calls /\ calls'[j] = calls[j]
      BY <1>n, <1>5, <2>2
    <3>2. CASE k = Len(calls) + 1
      <4>1. calls[j].at \in 1..Len(entered) /\ calls'[k].at = Len(entered) + 1
        BY <1>2, <1>3, <1>5, <3>1, <3>2 DEF ChainInv, StackInv
      <4> QED
        BY <1>n, <3>1, <4>1
    <3>3. CASE k \in DOMAIN calls /\ calls'[k] = calls[k]
      BY <2>2, <3>1, <3>3 DEF ChainInv, StackInv
    <3> QED
      BY <1>n, <1>5, <3>2, <3>3
  <2>3. ASSUME NEW m \in 1..Len(entered'), chain[m][1] = "recovery", panicked # Silent
        PROVE  OnStack(m)'
    <3>1. CASE m = Len(entered) + 1
      <4>1. Len(calls) + 1 \in DOMAIN calls' /\ calls'[Len(calls) + 1].at = index + 1
        BY <1>n, <1>3, <1>5
      <4> QED
        BY <1>2, <3>1, <4>1 DEF OnStack
    <3>2. CASE m \in 1..Len(entered)
      <4>1. OnStack(m)
        BY <1>n, <1>1, <2>3, <3>2 DEF ChainInv, StackInv, Left
      <4> QED
        BY <1>8, <3>2, <4>1
    <3> QED
      BY <1>4, <1>n, <3>1, <3>2
  <2> QED
    BY <1>1, <2>1, <2>2, <2>3 DEF StackInv
<1>10. FailInv'
  BY <1>n, <1>1 DEF ChainInv, FailInv
<1>11. IdleInv' /\ PanicInv'
  BY <1>1 DEF ChainInv, IdleInv, PanicInv, BehindRecovery
<1> QED
  BY <1>6, <1>7, <1>9, <1>10, <1>11 DEF ChainInv

\* Steps that move nothing but the place of the request: NextReturns and Write.
LEMMA QuietStep ==
  ASSUME ChainType, ChainInv, NextReturns \/ Write
  PROVE  ChainInv'
<1>n. /\ Len(chain) \in Nat /\ index \in Nat /\ Len(entered) \in Nat
      /\ (pc = "handler" => Top \in Frame)
  BY Numbers, TopFacts DEF ChainInv
<1>1. /\ UNCHANGED <<chain, index, calls, entered, failedAt, panicked>>
      /\ pc' = "handler" /\ pc \in {"next", "handler"} /\ calls # <<>>
      /\ pc = "next" => index >= Len(chain)
      /\ sent # None => sent' = sent
  BY DEF NextReturns, Write, UserCode, Status, ChainInv, IndexInv
<1>2. IndexInv'
  BY <1>n, <1>1 DEF ChainInv, IndexInv, Top
<1>3. StackInv' /\ FailInv' /\ EnteredInOrder' /\ IdleInv'
  BY <1>1 DEF ChainInv, StackInv, OnStack, Left, FailInv, EnteredInOrder, IdleInv
<1>4. PanicInv'
  BY <1>1 DEF ChainInv, PanicInv, BehindRecovery
<1> QED
  BY <1>2, <1>3, <1>4 DEF ChainInv

\* A handler calls Next: the index moves to the handler behind it.
LEMMA NextCallStep ==
  ASSUME ChainType, ChainInv, NextCall
  PROVE  ChainInv'
<1> DEFINE top == [Top EXCEPT !.nexts = Top.nexts + 1]
<1>1. /\ pc = "handler" /\ pc' = "next" /\ index' = index + 1
      /\ UNCHANGED <<chain, entered, sent, failedAt, panicked>>
      /\ calls' = [calls EXCEPT ![Len(calls)] = top]
  BY DEF NextCall, UserCode, Middleware, Advanced, Top
<1>n. /\ Len(chain) \in Nat /\ index \in Nat /\ Len(entered) \in Nat
      /\ Len(calls) \in DOMAIN calls /\ Top = calls[Len(calls)] /\ top.at = Top.at
  BY <1>1, Numbers, TopFacts, FrameFacts DEF ChainInv
<1> HIDE DEF top
<1>2. DOMAIN calls' = DOMAIN calls /\ \A k \in DOMAIN calls : calls'[k].at = calls[k].at
  BY <1>n, <1>1
<1>3. IndexInv'
  <2>1. index + 1 = Len(entered) \/ index >= Len(chain)
    BY <1>1 DEF ChainInv, IndexInv
  <2> QED
    BY <1>n, <1>1, <2>1 DEF ChainInv, IndexInv
<1>4. StackInv'
  <2>1. index >= Len(chain) => index' >= Len(chain')
    BY <1>n, <1>1
  <2> QED
    BY <1>1, <1>2, <2>1 DEF ChainInv, StackInv, OnStack, Left
<1>5. FailInv'
  BY <1>n, <1>1 DEF ChainInv, FailInv
<1>6. IdleInv' /\ EnteredInOrder' /\ PanicInv'
  BY <1>1 DEF ChainInv, IdleInv, EnteredInOrder, PanicInv, BehindRecovery
<1> QED
  BY <1>3, <1>4, <1>5, <1>6 DEF ChainInv

\* A handler returns: it leaves the stack, one that always calls Next only when
\* the chain is at its end (recovery.go:11-23, logger.go:8-17).
LEMMA ReturnStep ==
  ASSUME ChainType, ChainInv, Return \/ NotFound
  PROVE  ChainInv'
<1>1. /\ pc = "handler" /\ pc' = "next" /\ index' = index + 1
      /\ UNCHANGED <<chain, entered, failedAt, panicked>>
      /\ calls' = SubSeq(calls, 1, Len(calls) - 1)
      /\ sent # None => sent' = sent
      /\ chain[Top.at][1] = "recovery" => Top.nexts > 0
  BY DEF Return, NotFound, UserCode, Middleware, EndHandler, Front, Status, Kind, HasCalledNext
<1>n. /\ Len(chain) \in Nat /\ index \in Nat /\ Len(entered) \in Nat
      /\ Len(calls) \in DOMAIN calls /\ Top = calls[Len(calls)]
      /\ Len(calls) \in Nat /\ DOMAIN calls = 1..Len(calls) /\ Len(calls) # 0
      /\ calls \in Seq(Frame)
      /\ \A k \in DOMAIN calls : calls[k].at \in Nat
  BY <1>1, Numbers, TopFacts DEF ChainInv, ChainType
<1>2. /\ DOMAIN calls' = 1..(Len(calls) - 1)
      /\ \A k \in DOMAIN calls' : k \in DOMAIN calls /\ calls'[k] = calls[k]
  <2>1. Len(calls) - 1 \in 0..Len(calls)
    BY <1>n
  <2> QED
    BY <1>n, <1>1, <2>1, FirstOf
<1>3. index + 1 = Len(entered) \/ index >= Len(chain)
  BY <1>1 DEF ChainInv, IndexInv
<1>4. IndexInv'
  BY <1>n, <1>1, <1>3 DEF ChainInv, IndexInv
<1>5. StackInv'
  <2>1. ASSUME NEW m \in 1..Len(entered), chain[m][1] = "recovery", panicked # Silent
        PROVE  OnStack(m)' \/ Left(m)'
    <3>1. CASE m = Top.at
      <4>1. index >= Len(chain)
        BY <1>1, <2>1, <3>1 DEF ChainInv, IndexInv
      <4>2. \A k \in DOMAIN calls' : calls'[k].at < m
        BY <1>n, <1>2, <3>1 DEF ChainInv, StackInv
      <4> QED
        BY <1>n, <1>1, <4>1, <4>2 DEF Left
    <3>2. CASE OnStack(m) /\ m # Top.at
      <4>1. PICK k \in DOMAIN calls : calls[k].at = m
        BY <3>2 DEF OnStack
      <4>2. k \in DOMAIN calls'
        BY <1>n, <1>2, <3>2, <4>1
      <4> QED
        BY <1>2, <4>1, <4>2 DEF OnStack
    <3>3. CASE Left(m)
      BY <1>n, <1>1, <1>2, <3>3 DEF Left
    <3> QED
      BY <1>1, <2>1, <3>1, <3>2, <3>3 DEF ChainInv, StackInv
  <2>2. /\ \A k \in DOMAIN calls' : calls'[k].at \in 1..Len(entered')
        /\ \A j, k \in DOMAIN calls' : j < k => calls'[j].at < calls'[k].at
    BY <1>1, <1>2 DEF ChainInv, StackInv
  <2> QED
    BY <1>1, <2>1, <2>2 DEF StackInv
<1>6. FailInv'
  BY <1>n, <1>1 DEF ChainInv, FailInv
<1>7. IdleInv' /\ EnteredInOrder' /\ PanicInv'
  BY <1>1 DEF ChainInv, IdleInv, EnteredInOrder, PanicInv, BehindRecovery
<1> QED
  BY <1>4, <1>5, <1>6, <1>7 DEF ChainInv

\* Fail moves the index past the end (context.go:105-108).
LEMMA FailStep ==
  ASSUME ChainType, ChainInv, Fail
  PROVE  ChainInv'
<1>1. /\ pc = "handler" /\ UNCHANGED <<pc, chain, calls, entered, panicked>>
      /\ index' = Len(chain) /\ (sent # None => sent' = sent)
      /\ failedAt' = IF failedAt = None THEN Len(entered) ELSE failedAt
  BY DEF Fail, UserCode, PastTheEnd, FailedNow, Status
<1>n. Len(chain) \in Nat /\ Len(entered) \in Nat
  BY Numbers
<1>2. IndexInv'
  BY <1>n, <1>1 DEF ChainInv, IndexInv, Top
<1>3. StackInv'
  BY <1>n, <1>1 DEF ChainInv, StackInv, OnStack, Left
<1>4. FailInv'
  BY <1>n, <1>1 DEF ChainInv, FailInv
<1>5. IdleInv' /\ EnteredInOrder' /\ PanicInv'
  BY <1>1 DEF ChainInv, IdleInv, EnteredInOrder, PanicInv, BehindRecovery
<1> QED
  BY <1>2, <1>3, <1>4, <1>5 DEF ChainInv

\* A panic ends in the innermost Recovery under way; only without one does it
\* reach net/http (recovery.go:11-23).
LEMMA PanicStep ==
  ASSUME ChainType, ChainInv, Panic
  PROVE  ChainInv'
<1> DEFINE n == Max(Recoveries) - 1
<1>0. pc = "handler" /\ UNCHANGED <<chain, entered>>
  BY DEF Panic, UserCode
<1>s. PICK silently \in BOOLEAN :
        /\ panicked' = IF silently \/ panicked = Silent THEN Silent
                       ELSE [at |-> Top.at, sent |-> sent]
        /\ \/ /\ Recoveries # {}
              /\ IF silently THEN UNCHANGED <<sent, failedAt>>
                 ELSE Status(500) /\ FailedNow
              /\ pc' = "next"
              /\ index' = (IF silently THEN index ELSE Len(chain)) + 1
              /\ calls' = SubSeq(calls, 1, n)
           \/ /\ Recoveries = {}
              /\ pc' = "aborted"
              /\ calls' = <<>>
              /\ UNCHANGED <<index, sent, failedAt>>
  BY DEF Panic, PastTheEnd
<1>p. \/ panicked' = Silent
      \/ /\ ~silently /\ panicked # Silent
         /\ panicked' = [at |-> Top.at, sent |-> sent]
  BY <1>s
<1>n. /\ Len(chain) \in Nat /\ index \in Nat /\ Len(entered) \in Nat
      /\ Len(calls) \in DOMAIN calls /\ Top = calls[Len(calls)] /\ Top.at \in Nat
      /\ Len(calls) \in Nat /\ DOMAIN calls = 1..Len(calls)
      /\ calls \in Seq(Frame)
      /\ \A k \in DOMAIN calls : calls[k].at \in Nat
  BY <1>0, Numbers, TopFacts DEF ChainInv, ChainType
<1>2. \A k \in DOMAIN calls : chain[calls[k].at][1] = "recovery" => k \in Recoveries
  BY DEF Recoveries
<1>3. EnteredInOrder' /\ IdleInv'
  BY <1>0, <1>s DEF ChainInv, EnteredInOrder, IdleInv
<1>i. index + 1 = Len(entered) \/ index >= Len(chain)
  BY <1>0 DEF ChainInv, IndexInv
<1>f. /\ Len(entered) <= Len(chain)
      /\ failedAt # None => Len(entered) = failedAt /\ index >= Len(chain)
  BY DEF ChainInv, IndexInv, FailInv
<1>q. panicked' = Silent => PanicInv'
  <2> SUFFICES ASSUME panicked' = Silent, BehindRecovery(panicked.at)' PROVE FALSE
    BY DEF PanicInv
  <2>1. panicked'.at = 0
    BY DEF Silent
  <2> QED BY <2>1 DEF BehindRecovery
<1>4. CASE Recoveries # {}
  <2>1. /\ pc' = "next"
        /\ index' = (IF silently THEN index ELSE Len(chain)) + 1
        /\ calls' = SubSeq(calls, 1, n)
        /\ sent' = (IF silently \/ sent # None THEN sent ELSE 500)
        /\ failedAt' = (IF silently \/ failedAt # None THEN failedAt ELSE Len(entered))
    BY <1>4, <1>s DEF Status, FailedNow
  <2>2. Recoveries \subseteq 1..Len(calls)
    BY <1>n DEF Recoveries
  <2>3. Max(Recoveries) \in 1..Len(calls) /\ \A k \in Recoveries : Max(Recoveries) >= k
    BY <1>4, <1>n, <2>2, MaxOf
  <2>4. /\ n \in 0..Len(calls) /\ DOMAIN calls' = 1..n
        /\ \A k \in 1..n : k \in DOMAIN calls /\ calls'[k] = calls[k]
    <3>1. n \in 0..Len(calls)
      BY <1>n, <2>3
    <3> HIDE DEF n
    <3> QED
      BY <1>n, <2>1, <3>1, FirstOf
  <2>5. ~silently => index' >= Len(chain')
    BY <1>n, <1>0, <2>1
  <2>6. StackInv'
    <3>1. ASSUME NEW m \in 1..Len(entered), chain[m][1] = "recovery", panicked' # Silent
          PROVE  OnStack(m)' \/ Left(m)'
      <4>1. CASE OnStack(m)
        <5>1. PICK k \in DOMAIN calls : calls[k].at = m
          BY <4>1 DEF OnStack
        <5>2. k <= Max(Recoveries)
          BY <1>2, <2>3, <3>1, <5>1
        <5>3. CASE k = Max(Recoveries)
          <6>1. \A j \in DOMAIN calls' : j < k /\ calls'[j].at = calls[j].at
            BY <1>n, <2>3, <2>4, <5>3
          <6>2. \A j \in DOMAIN calls' : calls'[j].at < m
            BY <2>4, <5>1, <6>1 DEF ChainInv, StackInv
          <6> QED
            BY <1>p, <2>5, <3>1, <6>2 DEF Left
        <5>4. CASE k # Max(Recoveries)
          <6>1. k \in DOMAIN calls' /\ calls'[k].at = m
            BY <1>n, <2>3, <2>4, <5>1, <5>2, <5>4
          <6> QED
            BY <6>1 DEF OnStack
        <5> QED
          BY <5>3, <5>4
      <4>2. CASE Left(m)
        BY <1>p, <2>4, <2>5, <3>1, <4>2 DEF Left
      <4> QED
        BY <1>0, <1>p, <3>1, <4>1, <4>2 DEF ChainInv, StackInv
    <3>2. /\ \A k \in DOMAIN calls' : calls'[k].at \in 1..Len(entered')
          /\ \A j, k \in DOMAIN calls' : j < k => calls'[j].at < calls'[k].at
      BY <1>0, <2>4 DEF ChainInv, StackInv
    <3> QED
      BY <1>0, <3>1, <3>2 DEF StackInv
  <2>7. IndexInv'
    BY <1>0, <1>f, <1>i, <1>n, <2>1 DEF IndexInv
  <2>8. FailInv'
    BY <1>0, <1>f, <1>n, <2>1 DEF FailInv
  <2>9. PanicInv'
    <3>1. CASE panicked' # Silent
      <4>1. panicked'.sent = sent /\ ~silently
        BY <1>p, <3>1
      <4> QED
        BY <2>1, <4>1, StatusAssumption DEF PanicInv
    <3> QED BY <1>q, <3>1
  <2> QED
    BY <1>3, <2>6, <2>7, <2>8, <2>9 DEF ChainInv
<1>5. CASE Recoveries = {}
  <2>1. pc' = "aborted" /\ calls' = <<>> /\ UNCHANGED <<index, sent, failedAt>>
    BY <1>5, <1>s
  <2>2. ASSUME panicked' # Silent
        PROVE  ~\E i \in 1..(panicked'.at - 1) : chain'[i][1] = "recovery"
    <3>0. panicked'.at = Top.at /\ chain' = chain /\ panicked # Silent
      BY <1>0, <1>p, <2>2
    <3> SUFFICES ASSUME NEW i \in 1..(Top.at - 1), chain[i][1] = "recovery" PROVE FALSE
      BY <3>0
    <3>1. i \in 1..Len(entered) /\ i < Top.at
      BY <1>n DEF ChainInv, StackInv
    <3>2. OnStack(i)
      BY <1>0, <1>n, <3>0, <3>1 DEF ChainInv, StackInv, Left
    <3> QED
      BY <1>2, <1>5, <3>2 DEF OnStack
  <2>3. PanicInv'
    BY <1>q, <2>2 DEF PanicInv, BehindRecovery
  <2>4. IndexInv' /\ StackInv' /\ FailInv'
    BY <1>0, <2>1 DEF ChainInv, IndexInv, StackInv, FailInv
  <2> QED
    BY <1>3, <2>3, <2>4 DEF ChainInv
<1> QED
  BY <1>4, <1>5

\* A request begins with nothing behind it, and so does the next one
\* (gee.go:62-73).
LEMMA RequestStep ==
  ASSUME ChainType, ChainInv, ChainType',
         Finish \/ \E p \in Paths : ServeHTTP(p)
  PROVE  ChainInv'
<1>n. Len(chain') \in Nat
  BY SeqFacts DEF ChainType
<1>1. /\ pc' \in {"idle", "next"} /\ calls' = <<>> /\ entered' = <<>>
      /\ failedAt' = None /\ panicked' = None /\ index' = 0
  BY DEF Finish, ServeHTTP, ChainInv, IdleInv
<1>2. EnteredInOrder' /\ IndexInv' /\ StackInv'
  BY <1>n, <1>1 DEF EnteredInOrder, IndexInv, StackInv
<1>3. IdleInv' /\ FailInv' /\ PanicInv'
  BY <1>1 DEF IdleInv, FailInv, PanicInv
<1> QED
  BY <1>2, <1>3 DEF ChainInv

\* The invariant holds for a new engine.
LEMMA InitInv == Init => IInv
<1> SUFFICES ASSUME Init PROVE IInv OBVIOUS
<1>1. ChainType
  BY InitType
<1>2. pc = "idle" /\ calls = <<>> /\ entered = <<>> /\ failedAt = None /\ panicked = None
  BY DEF Init
<1>3. EnteredInOrder /\ StackInv /\ IdleInv /\ FailInv /\ PanicInv
  BY <1>2 DEF EnteredInOrder, StackInv, IdleInv, FailInv, PanicInv
<1>4. IndexInv
  <2>1. Len(chain) = 0 /\ Len(entered) = 0
    BY DEF Init
  <2> QED
    BY <1>2, <2>1 DEF IndexInv
<1> QED
  BY <1>1, <1>3, <1>4 DEF IInv

\* And every step preserves it.
LEMMA NextInv == IInv /\ [Next]_vars => IInv'
<1> SUFFICES ASSUME IInv, [Next]_vars PROVE IInv' OBVIOUS
<1>0. ChainType /\ ChainInv
  BY DEF IInv, ChainInv
<1>t. ChainType'
  BY <1>0, NextType DEF ChainInv
<1> SUFFICES ChainInv'
  BY <1>t DEF IInv, ChainInv
<1>1. CASE UNCHANGED requestVars
  <2>1. UNCHANGED <<pc, chain, index, calls, sent, entered, failedAt, panicked>>
    BY <1>1 DEF requestVars, contextVars, historyVars
  <2>2. IdleInv' /\ IndexInv' /\ FailInv' /\ PanicInv' /\ EnteredInOrder'
    BY <1>0, <2>1 DEF ChainInv, IdleInv, IndexInv, Top, FailInv, PanicInv, BehindRecovery,
       EnteredInOrder
  <2>3. StackInv'
    BY <1>0, <2>1 DEF ChainInv, StackInv, OnStack, Left
  <2> QED
    BY <2>2, <2>3 DEF ChainInv
<1>2. CASE SetUp
  <2>1. UNCHANGED requestVars
    BY <1>2 DEF SetUp, Group, Use, GET
  <2> QED BY <1>1, <2>1
<1> QED
  <2>1. CASE UNCHANGED vars
    BY <1>1, <2>1 DEF vars
  <2>2. CASE Next
    BY <1>0, <1>t, <1>2, <2>2, CallHandlerStep, QuietStep, NextCallStep, ReturnStep, FailStep,
       PanicStep, RequestStep DEF Next
  <2> QED BY <2>1, <2>2

----------------------------------------------------------------------------
(* What the router and a request hold *)

RouterGroup == [prefix : Seq(Part), parent : Nat, middlewares : Seq(Used)]

GroupsInv == \A g \in DOMAIN groups : /\ groups[g] \in RouterGroup
                                      /\ groups[g].parent \in 0..(g - 1)

RoutesInv == /\ DOMAIN handlers \subseteq Seq(Part)
             /\ TrieInv(trie, DOMAIN handlers)
             /\ route \in DOMAIN handlers \cup {NoRoute}
             /\ DOMAIN params \subseteq {NameOf[w] : w \in Wild}

NextsInv == \A k \in DOMAIN calls : calls[k].nexts <= MaxNexts

RouterInv == /\ GroupsInv
             /\ RoutesInv
             /\ NextsInv
             /\ sent \in {None, 200, 404, 500}

\* A new engine has no routes.
LEMMA InitRouter == Init => RouterInv
<1> SUFFICES ASSUME Init PROVE RouterInv OBVIOUS
<1>1. GroupsInv
  <2>1. PICK default \in {<<>>, << <<"logger", 1>>, <<"recovery", 1>> >>} :
          groups = << [prefix |-> <<>>, parent |-> 0, middlewares |-> default] >>
    BY DEF Init
  <2> DEFINE engine == [prefix |-> <<>>, parent |-> 0, middlewares |-> default]
  <2>2. default \in Seq(Used)
    <3>1. <<"logger", 1>> \in Used /\ <<"recovery", 1>> \in Used
      BY DEF Used
    <3>2. << <<"logger", 1>>, <<"recovery", 1>> >> \in Seq(Used) /\ <<>> \in Seq(Used)
      BY <3>1, SeqIsSeq
    <3> QED BY <2>1, <3>2
  <2>3. engine \in RouterGroup /\ engine.parent = 0
    BY <2>2, SeqIsSeq DEF RouterGroup
  <2>4. DOMAIN groups = {1} /\ groups[1] = engine
    <3>1. \A x : DOMAIN <<x>> = {1} /\ <<x>>[1] = x
      OBVIOUS
    <3> QED BY <2>1, <3>1
  <2> HIDE DEF engine
  <2> QED BY <2>3, <2>4 DEF GroupsInv
<1>2. RoutesInv
  <2>1. /\ trie = <<>> /\ handlers = <<>> /\ route = NoRoute /\ params = <<>>
    BY DEF Init, NoTrie
  <2>2. DOMAIN trie = {} /\ DOMAIN handlers = {} /\ DOMAIN params = {}
    BY <2>1
  <2>3. TrieInv(trie, DOMAIN handlers)
    BY <2>1, <2>2 DEF TrieInv, TrieType, NoTrie
  <2> QED BY <2>1, <2>2, <2>3 DEF RoutesInv
<1>3. NextsInv /\ sent = None
  <2>1. calls = <<>> /\ sent = None
    BY DEF Init
  <2> QED BY <2>1 DEF NextsInv
<1> QED
  BY <1>1, <1>2, <1>3 DEF RouterInv

\* A new group is the last one, and the others stay.
LEMMA GroupMade ==
  ASSUME ChainType, NEW g, NEW prefix, Group(g, prefix)
  PROVE  /\ DOMAIN groups' = 1..(Len(groups) + 1)
         /\ groups'[Len(groups) + 1] = [prefix |-> FullPrefix(g, prefix),
                                        parent |-> g, middlewares |-> <<>>]
         /\ \A h \in DOMAIN groups : h \in DOMAIN groups' /\ groups'[h] = groups[h]
<1> DEFINE new == [prefix |-> FullPrefix(g, prefix), parent |-> g, middlewares |-> <<>>]
           longer == Append(groups, new)
           n == Len(groups) + 1
<1>g. IsSeq(groups) /\ Len(groups) \in Nat /\ DOMAIN groups = 1..Len(groups)
  BY SeqFacts DEF ChainType
<1>1. groups' = longer
  BY DEF Group
<1> HIDE DEF new
<1>2. \A x : IsSeq(Append(groups, x)) /\ Len(Append(groups, x)) = n
  BY <1>g, SeqFacts
<1>3. \A x : \A h \in 1..n :
        Append(groups, x)[h] = IF h = Len(groups) + 1 THEN x ELSE groups[h]
  BY <1>g, SeqFacts
<1>4. \A h \in 1..n : longer[h] = IF h = Len(groups) + 1 THEN new ELSE groups[h]
  BY <1>3, Zenon
<1>5. IsSeq(groups') /\ Len(groups') = n
  BY <1>1, <1>2, Zenon
<1>6. DOMAIN groups' = 1..n
  BY <1>5, SeqFacts
<1> HIDE DEF longer
<1>7. groups'[n] = new
  <2>1. n \in 1..n
    BY <1>g
  <2>2. longer[n] = new
    BY <1>4, <2>1
  <2> QED BY <1>1, <2>2
<1>8. ASSUME NEW h \in DOMAIN groups PROVE h \in DOMAIN groups' /\ groups'[h] = groups[h]
  <2>1. h \in 1..n /\ h # Len(groups) + 1
    BY <1>g
  <2>2. longer[h] = groups[h]
    BY <1>4, <2>1
  <2> QED BY <1>1, <1>6, <2>1, <2>2
<1> QED
  BY <1>6, <1>7, <1>8 DEF new

\* What is used on a group is put behind what it has.
LEMMA UseMade ==
  ASSUME ChainType, GroupsInv, NEW g \in DOMAIN groups, NEW kind, Use(g, kind)
  PROVE  /\ DOMAIN groups' = DOMAIN groups
         /\ groups'[g].prefix = groups[g].prefix
         /\ groups'[g].parent = groups[g].parent
         /\ groups'[g].middlewares = Append(groups[g].middlewares, <<kind, g>>)
         /\ \A h \in DOMAIN groups : h # g => groups'[h] = groups[h]
<1> DEFINE more == Append(groups[g].middlewares, <<kind, g>>)
           new == [groups[g] EXCEPT !.middlewares = more]
<1>1. groups' = [groups EXCEPT ![g] = new]
  BY DEF Use
<1>2. groups[g] \in RouterGroup
  BY DEF GroupsInv
<1> HIDE DEF more
<1>3. new.prefix = groups[g].prefix /\ new.parent = groups[g].parent /\ new.middlewares = more
  BY <1>2 DEF RouterGroup
<1> HIDE DEF new
<1>4. /\ DOMAIN groups' = DOMAIN groups /\ groups'[g] = new
      /\ \A h \in DOMAIN groups : h # g => groups'[h] = groups[h]
  BY <1>1
<1> QED
  BY <1>3, <1>4 DEF more

\* A group takes the prefix of its parent and is made after it.
LEMMA GroupsStep ==
  ASSUME ChainType, GroupsInv, [Next]_vars
  PROVE  GroupsInv'
<1>g. IsSeq(groups) /\ Len(groups) \in Nat /\ DOMAIN groups = 1..Len(groups)
  BY SeqFacts DEF ChainType
<1>1. CASE UNCHANGED groups
  BY <1>1 DEF GroupsInv
<1>2. ASSUME NEW g \in DOMAIN groups, NEW prefix \in GroupPrefixes, Group(g, prefix)
      PROVE  GroupsInv'
  <2> DEFINE new == [prefix |-> FullPrefix(g, prefix), parent |-> g, middlewares |-> <<>>]
  <2>1. new \in RouterGroup /\ new.parent = g
    <3>1. groups[g].prefix \in Seq(Part) /\ prefix \in Seq(Part)
      BY PathAssumption DEF GroupsInv, RouterGroup, Part
    <3>2. FullPrefix(g, prefix) \in Seq(Part)
      BY <3>1 DEF FullPrefix
    <3>3. g \in Nat
      BY <1>g
    <3> QED
      BY <3>2, <3>3, SeqIsSeq DEF RouterGroup
  <2>2. /\ DOMAIN groups' = 1..(Len(groups) + 1) /\ groups'[Len(groups) + 1] = new
        /\ \A h \in DOMAIN groups : groups'[h] = groups[h]
    BY <1>2, GroupMade
  <2> HIDE DEF new
  <2>3. ASSUME NEW h \in DOMAIN groups'
        PROVE  groups'[h] \in RouterGroup /\ groups'[h].parent \in 0..(h - 1)
    <3>1. CASE h = Len(groups) + 1
      BY <1>g, <2>1, <2>2, <3>1
    <3>2. CASE h \in DOMAIN groups
      BY <1>g, <2>2, <3>2 DEF GroupsInv
    <3> QED
      BY <1>g, <2>2, <3>1, <3>2
  <2> QED BY <2>3 DEF GroupsInv
<1>3. ASSUME NEW g \in DOMAIN groups, NEW kind \in {"user", "recovery"}, Use(g, kind)
      PROVE  GroupsInv'
  <2> DEFINE middlewares == Append(groups[g].middlewares, <<kind, g>>)
             new == [groups[g] EXCEPT !.middlewares = middlewares]
  <2>1. groups' = [groups EXCEPT ![g] = new]
    BY <1>3 DEF Use
  <2>2. middlewares \in Seq(Used)
    <3>1. <<kind, g>> \in Used
      BY <1>g DEF Used
    <3>2. groups[g].middlewares \in Seq(Used)
      BY DEF GroupsInv, RouterGroup
    <3> QED BY <3>1, <3>2
  <2> HIDE DEF middlewares
  <2>3. new \in RouterGroup /\ new.parent = groups[g].parent
    <3>1. groups[g] \in RouterGroup
      BY DEF GroupsInv
    <3> QED BY <2>2, <3>1 DEF RouterGroup
  <2> HIDE DEF new
  <2> QED
    BY <2>1, <2>3 DEF GroupsInv
<1>4. CASE \E g \in DOMAIN groups, suffix \in RoutePaths : GET(g, suffix)
  BY <1>1, <1>4 DEF GET
<1>5. CASE ~SetUp
  BY <1>1, <1>5 DEF Next, ServeHTTP, CallHandler, NextReturns, NextCall, Return, NotFound,
     Write, Fail, Panic, Finish
<1> QED
  BY <1>2, <1>3, <1>4, <1>5 DEF SetUp

\* A route that is added stays in the trie, and a request gets one of them.
LEMMA RoutesStep ==
  ASSUME ChainType, GroupsInv, RoutesInv, [Next]_vars
  PROVE  RoutesInv'
<1>1. CASE UNCHANGED <<trie, handlers>> /\ route' = NoRoute /\ params' = <<>>
  <2>1. DOMAIN params' = {}
    BY <1>1
  <2> QED BY <1>1, <2>1 DEF RoutesInv
<1>2. CASE UNCHANGED <<trie, handlers, route, params>>
  BY <1>2 DEF RoutesInv
<1>3. ASSUME NEW g \in DOMAIN groups, NEW suffix \in RoutePaths, GET(g, suffix)
      PROVE  RoutesInv'
  <2> DEFINE pattern == groups[g].prefix \o suffix
             patterns == DOMAIN handlers \cup {pattern}
  <2>1. pattern \in Seq(Part)
    <3>1. groups[g].prefix \in Seq(Part) /\ suffix \in Seq(Part)
      BY PathAssumption DEF GroupsInv, RouterGroup, Part
    <3> QED BY <3>1
  <2>2. /\ trie' = Insert(trie, pattern) /\ UNCHANGED <<route, params>>
        /\ DOMAIN handlers' = patterns
    BY <1>3 DEF GET
  <2> HIDE DEF pattern
  <2>3. TrieInv(trie', DOMAIN handlers')
    BY <2>1, <2>2, InsertInv DEF RoutesInv
  <2> QED
    BY <2>1, <2>2, <2>3 DEF RoutesInv
<1>4. ASSUME NEW p \in Paths, ServeHTTP(p) PROVE RoutesInv'
  <2> DEFINE r == GetRoute(trie, p)
  <2>1. /\ UNCHANGED <<trie, handlers>> /\ route' = r
        /\ params' = IF r = NoRoute THEN <<>> ELSE ParamsOf(r, p)
    BY <1>4 DEF ServeHTTP
  <2>2. p \in Seq(Part)
    BY PathAssumption DEF Part
  <2>3. r \in DOMAIN handlers \cup {NoRoute}
    <3>1. ParsePattern(p) \in Seq(Part)
      BY <2>2, ParseType
    <3> QED BY <3>1, SearchType DEF RoutesInv, GetRoute
  <2>4. /\ DOMAIN <<>> \subseteq {NameOf[w] : w \in Wild}
        /\ DOMAIN ParamsOf(r, p) \subseteq {NameOf[w] : w \in Wild}
    BY DEF ParamsOf, Named
  <2> HIDE DEF r
  <2> QED
    BY <2>1, <2>3, <2>4 DEF RoutesInv
<1>5. CASE \E g \in DOMAIN groups : \/ \E prefix \in GroupPrefixes : Group(g, prefix)
                                    \/ \E kind \in {"user", "recovery"} : Use(g, kind)
  BY <1>2, <1>5 DEF Group, Use
<1>6. CASE Finish
  BY <1>1, <1>6 DEF Finish
<1>7. CASE \/ CallHandler \/ NextReturns \/ NextCall \/ Return \/ NotFound
           \/ Write \/ Fail \/ Panic \/ UNCHANGED vars
  BY <1>2, <1>7 DEF CallHandler, NextReturns, NextCall, Return, NotFound, Write, Fail, Panic
<1> QED
  BY <1>3, <1>4, <1>5, <1>6, <1>7 DEF Next, SetUp

\* Logger and Recovery call Next once, the others at most MaxNexts times.
LEMMA NextsStep ==
  ASSUME ChainType, IndexInv, NextsInv, [Next]_vars
  PROVE  NextsInv'
<1>n. Len(calls) \in Nat /\ DOMAIN calls = 1..Len(calls) /\ calls \in Seq(Frame)
  BY Numbers DEF ChainType
<1>t. pc = "handler" => /\ Len(calls) \in DOMAIN calls /\ Len(calls) # 0
                       /\ Top = calls[Len(calls)] /\ Top \in Frame
  BY TopFacts
<1>1. CASE UNCHANGED calls
  BY <1>1 DEF NextsInv
<1>2. CASE calls' = <<>>
  BY <1>2 DEF NextsInv
<1>3. ASSUME NEW n \in 0..Len(calls), calls' = SubSeq(calls, 1, n) PROVE NextsInv'
  <2>1. /\ DOMAIN calls' = 1..n
        /\ \A k \in 1..n : calls'[k] = calls[k]
    <3> DEFINE first == SubSeq(calls, 1, n)
    <3>1. DOMAIN first = 1..n /\ \A k \in 1..n : first[k] = calls[k]
      BY <1>n, FirstOf
    <3>2. calls' = first
      BY <1>3, Zenon
    <3> HIDE DEF first
    <3> QED BY <3>1, <3>2
  <2>2. \A k \in 1..n : k \in DOMAIN calls
    BY <1>n
  <2>3. ASSUME NEW k \in DOMAIN calls' PROVE calls'[k].nexts <= MaxNexts
    <3>1. k \in DOMAIN calls /\ calls'[k] = calls[k]
      BY <2>1, <2>2
    <3> QED BY <3>1 DEF NextsInv
  <2> QED
    BY <2>3 DEF NextsInv
<1>4. CASE CallHandler
  <2> DEFINE new == [at |-> index + 1, nexts |-> 0]
  <2>1. calls' = Append(calls, new) /\ new \in Frame /\ new.nexts = 0
    <3>1. calls' = Append(calls, new)
      BY <1>4 DEF CallHandler
    <3>2. index + 1 \in Nat
      BY DEF ChainType
    <3>3. new \in Frame /\ new.nexts = 0
      BY <3>2 DEF Frame
    <3> QED BY <3>1, <3>3
  <2> HIDE DEF new
  <2>2. /\ DOMAIN calls' = 1..(Len(calls) + 1) /\ calls'[Len(calls) + 1] = new
        /\ \A k \in 1..Len(calls) : calls'[k] = calls[k]
    <3>1. \A x \in Frame : LET s == Append(calls, x)
                           IN  /\ DOMAIN s = 1..(Len(calls) + 1) /\ s[Len(calls) + 1] = x
                               /\ \A k \in 1..Len(calls) : s[k] = calls[k]
      BY <1>n
    <3> QED BY <2>1, <3>1
  <2>3. 0 <= MaxNexts
    BY NextsAssumption
  <2>4. ASSUME NEW k \in DOMAIN calls' PROVE calls'[k].nexts <= MaxNexts
    <3>1. CASE k = Len(calls) + 1
      BY <2>1, <2>2, <2>3, <3>1
    <3>2. CASE k \in 1..Len(calls)
      BY <1>n, <2>2, <3>2 DEF NextsInv
    <3> QED BY <1>n, <2>2, <3>1, <3>2
  <2> QED BY <2>4 DEF NextsInv
<1>5. CASE NextCall
  <2> DEFINE top == [Top EXCEPT !.nexts = Top.nexts + 1]
  <2>1. /\ pc = "handler" /\ calls' = [calls EXCEPT ![Len(calls)] = top]
        /\ Top.nexts < MaxNexts \/ Top.nexts = 0
    BY <1>5 DEF NextCall, UserCode, Middleware, Top
  <2>2. top.nexts = Top.nexts + 1 /\ Top.nexts \in Nat
    BY <1>t, <2>1, FrameFacts, Numbers
  <2> HIDE DEF top
  <2>3. top.nexts <= MaxNexts
    BY <2>1, <2>2, NextsAssumption
  <2> QED
    BY <2>1, <2>3 DEF NextsInv
<1>6. CASE Return \/ NotFound
  <2>1. pc = "handler" /\ calls' = SubSeq(calls, 1, Len(calls) - 1)
    BY <1>6 DEF Return, NotFound, UserCode, Middleware, EndHandler, Front
  <2>2. Len(calls) - 1 \in 0..Len(calls)
    <3>1. Len(calls) # 0
      BY <1>t, <2>1
    <3> QED BY <1>n, <3>1
  <2> QED BY <1>3, <2>1, <2>2
<1>7. CASE Panic
  <2>1. CASE Recoveries # {}
    <3>1. Recoveries \subseteq 1..Len(calls)
      BY <1>n DEF Recoveries
    <3>2. Max(Recoveries) \in 1..Len(calls)
      BY <1>n, <2>1, <3>1, MaxOf
    <3>3. Max(Recoveries) - 1 \in 0..Len(calls)
      BY <1>n, <3>2
    <3>4. calls' = SubSeq(calls, 1, Max(Recoveries) - 1)
      BY <1>7, <2>1 DEF Panic
    <3> QED BY <1>3, <3>3, <3>4
  <2>2. CASE Recoveries = {}
    BY <1>2, <1>7, <2>2 DEF Panic
  <2> QED BY <2>1, <2>2
<1>8. CASE Finish
  BY <1>2, <1>8 DEF Finish
<1>9. CASE \/ SetUp \/ NextReturns \/ Write \/ Fail \/ UNCHANGED vars
           \/ \E p \in Paths : ServeHTTP(p)
  BY <1>1, <1>9 DEF SetUp, Group, Use, GET, NextReturns, Write, Fail, ServeHTTP
<1> QED
  BY <1>4, <1>5, <1>6, <1>7, <1>8, <1>9 DEF Next

\* Every step preserves what the router and a request hold.
LEMMA NextRouter == ChainType /\ IndexInv /\ RouterInv /\ [Next]_vars => RouterInv'
<1> SUFFICES ASSUME ChainType, IndexInv, RouterInv, [Next]_vars PROVE RouterInv'
  OBVIOUS
<1>1. GroupsInv' /\ RoutesInv' /\ NextsInv'
  BY GroupsStep, RoutesStep, NextsStep DEF RouterInv
<1>2. sent' \in {None, 200, 404, 500}
  <2>1. CASE NotFound \/ Write \/ Fail \/ Panic
    BY <2>1 DEF RouterInv, NotFound, Write, Fail, Panic, Status
  <2>2. CASE Finish
    BY <2>2 DEF Finish
  <2>3. CASE UNCHANGED sent
    BY <2>3 DEF RouterInv
  <2>4. CASE SetUp
    <3>1. UNCHANGED sent
      BY <2>4 DEF SetUp, Group, Use, GET
    <3> QED BY <2>3, <3>1
  <2>5. CASE \/ \E p \in Paths : ServeHTTP(p)
             \/ CallHandler \/ NextReturns \/ NextCall \/ Return \/ UNCHANGED vars
    <3>1. CASE \E p \in Paths : ServeHTTP(p)
      <4>1. UNCHANGED sent \/ sent' = None
        BY <3>1 DEF ServeHTTP
      <4> QED BY <2>3, <4>1
    <3>2. CASE \/ CallHandler \/ NextReturns \/ NextCall \/ Return \/ UNCHANGED vars
      <4>1. UNCHANGED sent
        BY <3>2 DEF CallHandler, NextReturns, NextCall, Return
      <4> QED BY <2>3, <4>1
    <3> QED BY <2>5, <3>1, <3>2
  <2> QED
    BY <2>1, <2>2, <2>4, <2>5 DEF Next
<1> QED
  BY <1>1, <1>2 DEF RouterInv

----------------------------------------------------------------------------
(* Every request goes where it should *)

TreesInv == TreeInv(trie) /\ LandInv(trie)

\* On a trie that lost no route the search of a path finds the best of them.
LEMMA RouteIsBest ==
  ASSUME RoutesInv, TreesInv, Distinct, NEW p \in Seq(Part),
         NEW r, r = GetRoute(trie, p), NEW asked, asked = ParsePattern(p),
         NEW best, best = BestRoute({ParsePattern(q) : q \in DOMAIN handlers}, asked)
  PROVE  IF best = NoRoute THEN r = NoRoute
         ELSE /\ r # NoRoute
              /\ ParsePattern(r) = best
              /\ OwnNames(best) => Filled(best, ParamsOf(r, p)) = asked
<1> DEFINE P == DOMAIN handlers
<1>a. asked \in Seq(Part)
  BY ParseType
<1>o. NoRoute \notin Seq(Part)
  BY PathAssumption DEF Part
<1>q. Parsed(P) \subseteq Seq(Part)
  <2> SUFFICES ASSUME NEW q \in Parsed(P) PROVE q \in Seq(Part) OBVIOUS
  <2>1. PICK s \in P : q = ParsePattern(s)
    BY DEF Parsed
  <2> QED BY <2>1, ParseType DEF RoutesInv
<1>1. Settled(trie, P)
  <2>1. ASSUME NEW m \in DOMAIN trie, trie[m].pattern # NoRoute
        PROVE  m = ParsePattern(trie[m].pattern)
    <3> DEFINE s == trie[m].pattern
               k == ParsePattern(s)
    <3>1. s \in P /\ m = Land(trie, s)
      BY <2>1 DEF RoutesInv, TrieInv, TreesInv, LandInv
    <3>2. k \in DOMAIN trie /\ trie[k].pattern = s
      BY <3>1 DEF Distinct
    <3> HIDE DEF s, k
    <3>3. s # NoRoute
      BY <2>1 DEF s
    <3>4. k = Land(trie, s)
      BY <3>2, <3>3 DEF TreesInv, LandInv
    <3> QED BY <3>1, <3>4 DEF k, s
  <2> QED BY <2>1 DEF Settled, RoutesInv, TreesInv, Distinct
<1>2. r = Search(trie, asked)
  BY DEF GetRoute
<1>3. best = BestRoute(Parsed(P), asked)
  BY DEF Parsed
<1> HIDE DEF P
<1>4. /\ r # NoRoute =>
           /\ r \in P /\ Matches(ParsePattern(r), asked)
           /\ \A q \in Parsed(P) \ {ParsePattern(r)} :
                Matches(q, asked) => Better(ParsePattern(r), q)
      /\ r = NoRoute => \A q \in Parsed(P) : ~Matches(q, asked)
  BY <1>a, <1>o, <1>1, <1>2, SearchRight
<1>5. CASE r = NoRoute
  <2>1. best = NoRoute
    BY <1>3, <1>4, <1>5 DEF BestRoute
  <2> QED BY <1>5, <2>1
<1>6. CASE r # NoRoute
  <2>1. ParsePattern(r) \in Parsed(P) /\ r \in Seq(Part)
    BY <1>4, <1>6 DEF Parsed, RoutesInv, P
  <2>2. best = ParsePattern(r)
    BY <1>3, <1>4, <1>6, <1>q, <2>1, BestOne
  <2>3. best # NoRoute
    BY <1>o, <1>q, <2>1, <2>2
  <2>4. OwnNames(best) => Filled(best, ParamsOf(r, p)) = asked
    BY <1>4, <1>6, <1>a, <2>1, <2>2, FilledIs
  <2> QED BY <1>6, <2>2, <2>3, <2>4
<1> QED
  BY <1>5, <1>6

\* Every request gets it, and keeps it.
LEMMA RoutedStep ==
  ASSUME RouterInv, TreesInv, RoutedAsDeclared, [Next]_vars
  PROVE  TreesInv' /\ RoutedAsDeclared'
<1> USE DEF RouterInv
<1>1. ASSUME UNCHANGED <<trie, handlers, path, route, params>>, pc # "idle" \/ pc' = "idle"
      PROVE  TreesInv' /\ RoutedAsDeclared'
  BY <1>1 DEF TreesInv, RoutedAsDeclared, Distinct
<1>2. ASSUME NEW g \in DOMAIN groups, NEW suffix \in RoutePaths, GET(g, suffix)
      PROVE  TreesInv' /\ RoutedAsDeclared'
  <2> DEFINE pattern == groups[g].prefix \o suffix
  <2>1. pattern \in Seq(Part)
    <3>1. groups[g].prefix \in Seq(Part) /\ suffix \in Seq(Part)
      BY PathAssumption DEF GroupsInv, RouterGroup, Part
    <3> QED BY <3>1
  <2>2. trie' = Insert(trie, pattern) /\ pc' = "idle"
    BY <1>2 DEF GET
  <2> HIDE DEF pattern
  <2>3. TreeInv(Insert(trie, pattern)) /\ LandInv(Insert(trie, pattern))
    BY <2>1, InsertTree DEF RoutesInv, TreesInv
  <2>4. TreesInv'
    BY <2>2, <2>3 DEF TreesInv
  <2> QED BY <2>2, <2>4 DEF RoutedAsDeclared
<1>3. ASSUME NEW p \in Paths, ServeHTTP(p) PROVE TreesInv' /\ RoutedAsDeclared'
  <2> DEFINE r == GetRoute(trie, p)
             asked == ParsePattern(p)
             best == BestRoute({ParsePattern(q) : q \in DOMAIN handlers}, asked)
  <2>1. /\ UNCHANGED <<trie, handlers>> /\ route' = r /\ path' = p
        /\ params' = IF r = NoRoute THEN <<>> ELSE ParamsOf(r, p)
    BY <1>3 DEF ServeHTTP
  <2>2. p \in Seq(Part)
    BY PathAssumption DEF Part
  <2>3. Distinct' => Distinct
    BY <2>1 DEF Distinct
  <2>4. Distinct =>
          IF best = NoRoute THEN r = NoRoute
          ELSE /\ r # NoRoute
               /\ ParsePattern(r) = best
               /\ OwnNames(best) => Filled(best, ParamsOf(r, p)) = asked
    BY <2>2, RouteIsBest
  <2>5. Distinct' =>
          IF best = NoRoute THEN route' = NoRoute
          ELSE /\ route' # NoRoute
               /\ ParsePattern(route') = best
               /\ OwnNames(best) => Filled(best, params') = asked
    <3> HIDE DEF r, best, asked
    <3> QED BY <2>1, <2>3, <2>4
  <2>6. asked = ParsePattern(path') /\ DOMAIN handlers' = DOMAIN handlers
    BY <2>1
  <2> QED
    BY <2>1, <2>5, <2>6 DEF TreesInv, RoutedAsDeclared
<1>4. CASE Finish
  <2>1. pc' = "idle" /\ UNCHANGED trie
    BY <1>4 DEF Finish
  <2> QED BY <2>1 DEF TreesInv, RoutedAsDeclared
<1>5. CASE \E g \in DOMAIN groups : \/ \E prefix \in GroupPrefixes : Group(g, prefix)
                                    \/ \E kind \in {"user", "recovery"} : Use(g, kind)
  BY <1>1, <1>5 DEF Group, Use
<1>6. CASE \/ CallHandler \/ NextReturns \/ NextCall \/ Return \/ NotFound
           \/ Write \/ Fail \/ Panic
  BY <1>1, <1>6 DEF CallHandler, NextReturns, NextCall, Return, NotFound, Write, Fail, Panic,
     UserCode, Middleware
<1>7. CASE UNCHANGED vars
  BY <1>7 DEF TreesInv, RoutedAsDeclared, Distinct
<1> QED
  BY <1>2, <1>3, <1>4, <1>5, <1>6, <1>7 DEF Next, SetUp

----------------------------------------------------------------------------
(* Every route runs behind its group *)

\* What is used is marked with its group; a group, and a route, begins with the
\* prefix of the group it is made in; a request takes the middlewares that fit.
GroupsBelong ==
  \A g \in DOMAIN groups :
    /\ \A i \in DOMAIN groups[g].middlewares : groups[g].middlewares[i][2] = g
    /\ \A i \in DOMAIN groups[g].prefix : groups[g].prefix[i] \in Begins[groups[g].prefix[i]]
    /\ groups[g].parent # 0 => StartsWith(groups[g].prefix, groups[groups[g].parent].prefix)

RoutesBelong ==
  \A p \in DOMAIN handlers : /\ handlers[p] \in DOMAIN groups
                             /\ StartsWith(p, groups[handlers[p]].prefix)

ChainBelongs ==
  pc # "idle" => /\ path \in Seq(Part)
                 /\ \E handler : chain = Append(Middlewares(path), handler)

BelongInv == GroupsBelong /\ RoutesBelong /\ ChainBelongs

\* A concatenation starts with its first part, and what that one starts with.
LEMMA StartsFacts ==
  ASSUME NEW p \in Seq(Part), NEW q \in Seq(Part), NEW n \in Seq(Part)
  PROVE  /\ StartsWith(p, p)
         /\ StartsWith(p \o q, p)
         /\ StartsWith(p, q) /\ StartsWith(q, n) => StartsWith(p, n)
<1>1. Len(p) \in Nat /\ Len(q) \in Nat /\ Len(n) \in Nat
  OBVIOUS
<1>2. StartsWith(p, p)
  BY <1>1 DEF StartsWith
<1>3. StartsWith(p \o q, p)
  <2>1. Len(p \o q) = Len(p) + Len(q) /\ \A i \in 1..Len(p) : (p \o q)[i] = p[i]
    BY <1>1, ConcatFacts
  <2> DEFINE r == p \o q
  <2> HIDE DEF r
  <2>2. Len(r) = Len(p) + Len(q) /\ \A i \in 1..Len(p) : r[i] = p[i]
    BY <2>1 DEF r
  <2>3. StartsWith(r, p)
    BY <1>1, <2>2 DEF StartsWith
  <2> QED BY <2>3 DEF r
<1>4. ASSUME StartsWith(p, q), StartsWith(q, n) PROVE StartsWith(p, n)
  BY <1>1, <1>4 DEF StartsWith
<1> QED
  BY <1>2, <1>3, <1>4

\* Blocks of a flat sequence: off[g] elements come before those of seqs[g].
Blocks(seqs, off, flat, n) ==
  /\ \A g \in 1..n : /\ off[g] \in Nat /\ off[g] + Len(seqs[g]) <= Len(flat)
                     /\ \A i \in 1..Len(seqs[g]) : flat[off[g] + i] = seqs[g][i]
  /\ \A i \in 1..Len(flat) : \E g \in 1..n : \E j \in 1..Len(seqs[g]) : i = off[g] + j

\* A further block is put behind the others.
LEMMA BlocksGrow ==
  ASSUME NEW S, NEW flat \in Seq(S), NEW seqs, NEW off, NEW n \in Nat,
         \A g \in 1..(n + 1) : seqs[g] \in Seq(S),
         Blocks(seqs, off, flat, n), off[n + 1] = Len(flat)
  PROVE  Blocks(seqs, off, flat \o seqs[n + 1], n + 1)
<1> DEFINE block == seqs[n + 1]
           all == flat \o block
<1>1. block \in Seq(S) /\ Len(block) \in Nat /\ Len(flat) \in Nat
  OBVIOUS
<1> HIDE DEF block
<1>2. Len(all) = Len(flat) + Len(block)
      /\ \A j \in 1..(Len(flat) + Len(block)) :
           all[j] = IF j <= Len(flat) THEN flat[j] ELSE block[j - Len(flat)]
  BY <1>1, ConcatFacts
<1> HIDE DEF all
<1>a. \A a, b, c \in Nat : a + b <= c => \A i \in 1..b : a + i \in 1..c
  OBVIOUS
<1>l. Len(all) = Len(flat) + Len(block)
  BY <1>2
<1>3. ASSUME NEW g \in 1..(n + 1)
      PROVE  /\ off[g] \in Nat /\ off[g] + Len(seqs[g]) <= Len(all)
             /\ \A i \in 1..Len(seqs[g]) : all[off[g] + i] = seqs[g][i]
  <2>1. CASE g = n + 1
    <3>1. off[g] = Len(flat) /\ seqs[g] = block
      BY <2>1 DEF block
    <3>2. off[g] \in Nat /\ off[g] + Len(seqs[g]) <= Len(all)
      BY <1>1, <1>l, <3>1
    <3>3. ASSUME NEW i \in 1..Len(block) PROVE all[Len(flat) + i] = block[i]
      <4> DEFINE k == Len(flat) + i
      <4>1. k \in 1..(Len(flat) + Len(block)) /\ ~(k <= Len(flat)) /\ k - Len(flat) = i
        BY <1>1
      <4> HIDE DEF k
      <4>2. all[k] = block[k - Len(flat)]
        BY <1>2, <4>1
      <4> QED BY <4>1, <4>2 DEF k
    <3> QED BY <3>1, <3>2, <3>3
  <2>2. CASE g \in 1..n
    <3>1. /\ off[g] \in Nat /\ off[g] + Len(seqs[g]) <= Len(flat)
          /\ \A i \in 1..Len(seqs[g]) : flat[off[g] + i] = seqs[g][i]
      BY <2>2 DEF Blocks
    <3>2. Len(seqs[g]) \in Nat
      BY <2>2
    <3>3. ASSUME NEW i \in 1..Len(seqs[g]) PROVE all[off[g] + i] = seqs[g][i]
      <4> DEFINE k == off[g] + i
      <4>1. k \in 1..Len(flat)
        BY <1>1, <1>a, <3>1, <3>2, Zenon
      <4>2. flat[k] = seqs[g][i]
        BY <3>1
      <4> HIDE DEF k
      <4>3. all[k] = flat[k]
        BY <1>1, <1>2, <4>1
      <4> QED BY <4>2, <4>3 DEF k
    <3>4. off[g] + Len(seqs[g]) <= Len(all)
      BY <1>1, <1>l, <3>1, <3>2
    <3> QED BY <3>1, <3>3, <3>4, Zenon
  <2> QED BY <2>1, <2>2
<1>4. ASSUME NEW i \in 1..Len(all)
      PROVE  \E g \in 1..(n + 1) : \E j \in 1..Len(seqs[g]) : i = off[g] + j
  <2>1. CASE i <= Len(flat)
    <3>1. i \in 1..Len(flat)
      BY <1>1, <1>2, <2>1
    <3>2. PICK g \in 1..n : \E j \in 1..Len(seqs[g]) : i = off[g] + j
      BY <3>1 DEF Blocks
    <3>3. g \in 1..(n + 1)
      OBVIOUS
    <3> QED BY <3>2, <3>3
  <2>2. CASE i > Len(flat)
    <3>1. i - Len(flat) \in 1..Len(block) /\ i = off[n + 1] + (i - Len(flat))
      BY <1>1, <1>2, <2>2
    <3>2. n + 1 \in 1..(n + 1)
      OBVIOUS
    <3> QED BY <3>1, <3>2 DEF block
  <2> QED BY <1>1, <1>2, <2>1, <2>2
<1>5. Blocks(seqs, off, all, n + 1)
  BY <1>3, <1>4 DEF Blocks
<1> QED
  BY <1>5 DEF all, block

\* A sequence made flat holds its elements as blocks, one behind the other.
LEMMA FlattenBlocks ==
  ASSUME NEW S, NEW seqs \in Seq(Seq(S)), seqs # <<>>
  PROVE  \E off : /\ Blocks(seqs, off, FlattenSeq(seqs), Len(seqs))
                  /\ \A g, h \in 1..Len(seqs) : g < h => off[g] + Len(seqs[g]) <= off[h]
<1> DEFINE N == Len(seqs)
<1>n. N \in Nat /\ N # 0 /\ \A g \in 1..N : seqs[g] \in Seq(S) /\ Len(seqs[g]) \in Nat
  OBVIOUS
<1>1. PICK f : /\ \A i \in 1..N : /\ f[i] = IF i = 1 THEN seqs[i] ELSE f[i - 1] \o seqs[i]
                                  /\ f[i] \in Seq(S)
               /\ FlattenSeq(seqs) = f[N]
  BY FlattenFacts
<1> HIDE DEF N
<1> DEFINE off == [g \in 1..N |-> IF g = 1 THEN 0 ELSE Len(f[g - 1])]
           Good == {n \in Nat : n \in 1..N => Blocks(seqs, off, f[n], n)}
<1>2. /\ off[1] = 0
      /\ \A n \in Nat : n \in 1..N /\ n + 1 \in 1..N => off[n + 1] = Len(f[n])
  BY <1>n
<1>3. 0 \in Good
  OBVIOUS
<1>4. ASSUME NEW n \in Nat, n \in Good PROVE n + 1 \in Good
  <2> SUFFICES ASSUME n + 1 \in 1..N PROVE Blocks(seqs, off, f[n + 1], n + 1)
    OBVIOUS
  <2>1. \A g \in 1..(n + 1) : seqs[g] \in Seq(S)
    BY <1>n
  <2>2. CASE n = 0
    <3>1. f[1] = seqs[1] /\ 1 \in 1..N
      BY <1>1, <2>2
    <3>2. Len(seqs[1]) \in Nat
      BY <1>n, <3>1
    <3> HIDE DEF off
    <3>3. Blocks(seqs, off, f[1], 1)
      <4>1. \A g \in 1..1 : g = 1
        OBVIOUS
      <4>2. \A i \in 1..Len(f[1]) : 1 \in 1..1 /\ i \in 1..Len(seqs[1]) /\ i = off[1] + i
        BY <1>2, <3>1, <3>2
      <4>3. /\ off[1] \in Nat /\ off[1] + Len(seqs[1]) <= Len(f[1])
            /\ \A i \in 1..Len(seqs[1]) : f[1][off[1] + i] = seqs[1][i]
        BY <1>2, <3>1, <3>2
      <4> QED BY <4>1, <4>2, <4>3 DEF Blocks
    <3> QED BY <2>2, <3>3
  <2>3. CASE n # 0
    <3>1. n \in 1..N
      BY <1>n, <2>3
    <3>2. Blocks(seqs, off, f[n], n) /\ off[n + 1] = Len(f[n]) /\ f[n] \in Seq(S)
      BY <1>1, <1>2, <1>4, <3>1
    <3>3. f[n + 1] = f[n] \o seqs[n + 1]
      <4>1. n + 1 # 1 /\ (n + 1) - 1 = n
        BY <2>3
      <4> QED BY <1>1, <4>1
    <3> HIDE DEF off
    <3> QED BY <2>1, <3>2, <3>3, BlocksGrow
  <2> QED BY <2>2, <2>3
<1>5. Nat \subseteq Good
  <2> HIDE DEF Good
  <2> QED BY <1>3, <1>4, SetInduction
<1>6. \A n \in 1..N : Blocks(seqs, off, f[n], n)
  <2> HIDE DEF off
  <2> QED BY <1>5
<1>7. ASSUME NEW g \in 1..N, NEW h \in 1..N, g < h PROVE off[g] + Len(seqs[g]) <= off[h]
  <2>1. h - 1 \in Nat /\ h - 1 \in 1..N /\ g \in 1..(h - 1) /\ (h - 1) + 1 = h
    BY <1>n, <1>7
  <2>2. off[h] = Len(f[h - 1])
    BY <1>2, <2>1
  <2>3. Blocks(seqs, off, f[h - 1], h - 1)
    BY <1>6, <2>1
  <2> HIDE DEF off
  <2> QED BY <2>1, <2>2, <2>3 DEF Blocks
<1> HIDE DEF off
<1>8. Blocks(seqs, off, FlattenSeq(seqs), N)
  <2>1. N \in 1..N
    BY <1>n
  <2>2. Blocks(seqs, off, f[N], N)
    BY <1>6, <2>1
  <2> QED BY <1>1, <2>2
<1> QED
  BY <1>7, <1>8 DEF N

\* Set-up makes groups longer and changes no prefix and no parent.
LEMMA GroupsKept ==
  ASSUME ChainType, GroupsInv, [Next]_vars
  PROVE  \A h \in DOMAIN groups : /\ h \in DOMAIN groups'
                                  /\ groups'[h].prefix = groups[h].prefix
                                  /\ groups'[h].parent = groups[h].parent
<1>1. CASE UNCHANGED groups
  BY <1>1
<1>2. ASSUME NEW g \in DOMAIN groups, NEW prefix, Group(g, prefix), NEW h \in DOMAIN groups
      PROVE  h \in DOMAIN groups' /\ groups'[h] = groups[h]
  BY <1>2, GroupMade
<1>3. ASSUME NEW g \in DOMAIN groups, NEW kind, Use(g, kind), NEW h \in DOMAIN groups
      PROVE  /\ h \in DOMAIN groups'
             /\ groups'[h].prefix = groups[h].prefix
             /\ groups'[h].parent = groups[h].parent
  <2>1. CASE h = g
    BY <1>3, <2>1, UseMade
  <2>2. CASE h # g
    BY <1>3, <2>2, UseMade
  <2> QED BY <2>1, <2>2
<1>4. CASE ~(\E g \in DOMAIN groups : \/ \E prefix \in GroupPrefixes : Group(g, prefix)
                                      \/ \E kind \in {"user", "recovery"} : Use(g, kind))
  <2>1. UNCHANGED groups
    BY <1>4 DEF Next, SetUp, GET, ServeHTTP, CallHandler, NextReturns, NextCall, Return,
       NotFound, Write, Fail, Panic, Finish
  <2> QED BY <1>1, <2>1
<1>5. CASE \E g \in DOMAIN groups, prefix \in GroupPrefixes : Group(g, prefix)
  <2>1. PICK g \in DOMAIN groups, prefix \in GroupPrefixes : Group(g, prefix)
    BY <1>5
  <2>2. \A h \in DOMAIN groups : h \in DOMAIN groups' /\ groups'[h] = groups[h]
    BY <1>2, <2>1
  <2> QED BY <2>2
<1>6. CASE \E g \in DOMAIN groups, kind \in {"user", "recovery"} : Use(g, kind)
  BY <1>3, <1>6, Zenon
<1> QED
  BY <1>4, <1>5, <1>6

\* A group begins with the prefix of its parent, and holds what was used on it
\* (router_group.go:22-43).
LEMMA GroupsBelongStep ==
  ASSUME ChainType, GroupsInv, GroupsBelong, [Next]_vars
  PROVE  GroupsBelong'
<1>g. Len(groups) \in Nat /\ DOMAIN groups = 1..Len(groups)
  BY SeqFacts DEF ChainType
<1>k. \A h \in DOMAIN groups : /\ h \in DOMAIN groups'
                               /\ groups'[h].prefix = groups[h].prefix
                               /\ groups'[h].parent = groups[h].parent
  BY GroupsKept
<1>1. ASSUME NEW h \in DOMAIN groups
      PROVE  /\ \A i \in DOMAIN groups'[h].prefix :
                  groups'[h].prefix[i] \in Begins[groups'[h].prefix[i]]
             /\ groups'[h].parent # 0 =>
                  StartsWith(groups'[h].prefix, groups'[groups'[h].parent].prefix)
  <2>1. groups[h].parent # 0 => groups[h].parent \in DOMAIN groups
    <3>1. groups[h].parent \in 0..(h - 1)
      BY DEF GroupsInv
    <3> QED BY <1>g, <3>1
  <2>2. \A i \in DOMAIN groups[h].prefix : groups[h].prefix[i] \in Begins[groups[h].prefix[i]]
    BY DEF GroupsBelong
  <2>3. groups[h].parent # 0 => StartsWith(groups[h].prefix, groups[groups[h].parent].prefix)
    BY DEF GroupsBelong
  <2>4. groups'[h].prefix = groups[h].prefix /\ groups'[h].parent = groups[h].parent
    BY <1>k
  <2>5. groups[h].parent # 0 =>
          groups'[groups[h].parent].prefix = groups[groups[h].parent].prefix
    BY <1>k, <2>1
  <2> QED BY <2>2, <2>3, <2>4, <2>5
<1>2. CASE DOMAIN groups' = DOMAIN groups
           /\ \A h \in DOMAIN groups : groups'[h].middlewares = groups[h].middlewares
  <2>1. ASSUME NEW h \in DOMAIN groups, NEW i \in DOMAIN groups'[h].middlewares
        PROVE  groups'[h].middlewares[i][2] = h
    <3>1. groups'[h].middlewares = groups[h].middlewares
      BY <1>2
    <3> QED BY <2>1, <3>1 DEF GroupsBelong
  <2> QED BY <1>1, <1>2, <2>1 DEF GroupsBelong
<1>3. ASSUME NEW g \in DOMAIN groups, NEW prefix \in GroupPrefixes, Group(g, prefix)
      PROVE  GroupsBelong'
  <2> DEFINE n == Len(groups) + 1
             p == groups[g].prefix
             new == [prefix |-> p \o prefix, parent |-> g, middlewares |-> <<>>]
  <2>1. /\ DOMAIN groups' = 1..n /\ groups'[n] = new
        /\ \A h \in DOMAIN groups : groups'[h] = groups[h]
    BY <1>3, GroupMade DEF FullPrefix
  <2>2. p \in Seq(Part) /\ prefix \in Seq(Part)
    BY PathAssumption DEF GroupsInv, RouterGroup, Part
  <2>3. \A i \in DOMAIN p : p[i] \in Begins[p[i]]
    BY DEF GroupsBelong
  <2>4. \A i \in DOMAIN prefix : prefix[i] \in Begins[prefix[i]]
    BY BeginsAssumption
  <2> HIDE DEF p
  <2> DEFINE q == p \o prefix
  <2>5. StartsWith(q, p) /\ q \in Seq(Part)
    BY <2>2, StartsFacts, ConcatFacts
  <2>6. ASSUME NEW i \in DOMAIN q PROVE q[i] \in Begins[q[i]]
    <3>1. /\ Len(p) \in Nat /\ DOMAIN p = 1..Len(p)
          /\ Len(prefix) \in Nat /\ DOMAIN prefix = 1..Len(prefix)
      BY <2>2
    <3>2. Len(q) = Len(p) + Len(prefix) /\ DOMAIN q = 1..Len(q)
      BY <2>2, <2>5, ConcatFacts
    <3>3. i \in 1..(Len(p) + Len(prefix))
      BY <3>2
    <3>4. q[i] = IF i <= Len(p) THEN p[i] ELSE prefix[i - Len(p)]
      BY <2>2, <3>3, ConcatFacts
    <3> HIDE DEF q
    <3>5. CASE i <= Len(p)
      <4>1. i \in DOMAIN p /\ q[i] = p[i]
        BY <3>1, <3>3, <3>4, <3>5
      <4> QED BY <2>3, <4>1
    <3>6. CASE ~(i <= Len(p))
      <4> DEFINE j == i - Len(p)
      <4>1. j \in DOMAIN prefix /\ q[i] = prefix[j]
        BY <3>1, <3>3, <3>4, <3>6
      <4> HIDE DEF j
      <4> QED BY <2>4, <4>1
    <3> QED BY <3>5, <3>6
  <2>7. new.prefix = q /\ new.parent = g /\ new.middlewares = <<>>
    OBVIOUS
  <2> HIDE DEF q, new
  <2>8. /\ \A i \in DOMAIN groups'[n].middlewares : groups'[n].middlewares[i][2] = n
        /\ \A i \in DOMAIN groups'[n].prefix : groups'[n].prefix[i] \in Begins[groups'[n].prefix[i]]
        /\ StartsWith(groups'[n].prefix, groups'[groups'[n].parent].prefix)
    <3>1. groups'[g].prefix = p
      BY <2>1 DEF p
    <3>2. DOMAIN <<>> = {}
      OBVIOUS
    <3> HIDE DEF n
    <3> QED BY <2>1, <2>5, <2>6, <2>7, <3>1, <3>2
  <2>9. \A h \in DOMAIN groups :
          \A i \in DOMAIN groups'[h].middlewares : groups'[h].middlewares[i][2] = h
    BY <2>1 DEF GroupsBelong
  <2>10. \A h \in DOMAIN groups' : h \in DOMAIN groups \/ h = n
    BY <1>g, <2>1
  <2> HIDE DEF n
  <2> QED BY <1>1, <2>8, <2>9, <2>10 DEF GroupsBelong
<1>4. ASSUME NEW g \in DOMAIN groups, NEW kind \in {"user", "recovery"}, Use(g, kind)
      PROVE  GroupsBelong'
  <2> DEFINE used == groups[g].middlewares
             more == Append(used, <<kind, g>>)
  <2>1. /\ DOMAIN groups' = DOMAIN groups /\ groups'[g].middlewares = more
        /\ \A h \in DOMAIN groups : h # g => groups'[h] = groups[h]
    BY <1>4, UseMade
  <2>2. used \in Seq(Used) /\ \A i \in DOMAIN used : used[i][2] = g
    BY DEF GroupsInv, RouterGroup, GroupsBelong
  <2> HIDE DEF used
  <2>3. \A i \in DOMAIN more : more[i][2] = g
    <3>1. /\ Len(used) \in Nat /\ DOMAIN used = 1..Len(used)
          /\ \A x : /\ Len(Append(used, x)) = Len(used) + 1 /\ IsSeq(Append(used, x))
                    /\ \A i \in 1..(Len(used) + 1) :
                         Append(used, x)[i] = IF i = Len(used) + 1 THEN x ELSE used[i]
      BY <2>2, SeqIsSeq, SeqFacts
    <3>2. DOMAIN more = 1..(Len(used) + 1)
      BY <3>1, SeqFacts
    <3>3. \A i \in 1..(Len(used) + 1) :
            more[i] = IF i = Len(used) + 1 THEN <<kind, g>> ELSE used[i]
      BY <3>1, Zenon
    <3>4. <<kind, g>>[2] = g
      OBVIOUS
    <3> HIDE DEF more
    <3>5. ASSUME NEW i \in 1..(Len(used) + 1) PROVE more[i][2] = g
      <4>1. CASE i = Len(used) + 1
        BY <3>3, <3>4, <4>1
      <4>2. CASE i \in DOMAIN used
        <5>1. more[i] = used[i]
          BY <3>1, <3>3, <4>2
        <5> QED BY <2>2, <4>2, <5>1
      <4> QED BY <3>1, <4>1, <4>2
    <3> QED BY <3>2, <3>5
  <2> HIDE DEF more
  <2>4. \A h \in DOMAIN groups :
          \A i \in DOMAIN groups'[h].middlewares : groups'[h].middlewares[i][2] = h
    BY <2>1, <2>3 DEF GroupsBelong
  <2> QED BY <1>1, <2>1, <2>4 DEF GroupsBelong
<1>5. CASE ~(\E g \in DOMAIN groups : \/ \E prefix \in GroupPrefixes : Group(g, prefix)
                                      \/ \E kind \in {"user", "recovery"} : Use(g, kind))
  <2>1. UNCHANGED groups
    BY <1>5 DEF Next, SetUp, GET, ServeHTTP, CallHandler, NextReturns, NextCall, Return,
       NotFound, Write, Fail, Panic, Finish
  <2> QED BY <1>2, <2>1
<1> QED
  BY <1>3, <1>4, <1>5

\* A route begins with the prefix of the group it is registered in
\* (router_group.go:45-57).
LEMMA RoutesBelongStep ==
  ASSUME ChainType, GroupsInv, RoutesInv, RoutesBelong, [Next]_vars
  PROVE  RoutesBelong'
<1>k. \A h \in DOMAIN groups : h \in DOMAIN groups' /\ groups'[h].prefix = groups[h].prefix
  BY GroupsKept
<1>1. CASE UNCHANGED handlers
  BY <1>k, <1>1 DEF RoutesBelong
<1>2. ASSUME NEW g \in DOMAIN groups, NEW suffix \in RoutePaths, GET(g, suffix)
      PROVE  RoutesBelong'
  <2> DEFINE pattern == groups[g].prefix \o suffix
  <2>1. UNCHANGED groups
        /\ handlers' = [p \in DOMAIN handlers \cup {pattern} |->
                          IF p = pattern THEN g ELSE handlers[p]]
    BY <1>2 DEF GET
  <2>2. StartsWith(pattern, groups[g].prefix)
    <3>1. groups[g].prefix \in Seq(Part) /\ suffix \in Seq(Part)
      BY PathAssumption DEF GroupsInv, RouterGroup, Part
    <3> QED BY <3>1, StartsFacts
  <2> HIDE DEF pattern
  <2>3. ASSUME NEW p \in DOMAIN handlers'
        PROVE  handlers'[p] \in DOMAIN groups /\ StartsWith(p, groups[handlers'[p]].prefix)
    <3>1. CASE p = pattern
      <4>1. handlers'[p] = g
        BY <2>1, <3>1
      <4> QED BY <2>2, <3>1, <4>1
    <3>2. CASE p # pattern
      <4>1. p \in DOMAIN handlers /\ handlers'[p] = handlers[p]
        BY <2>1, <3>2
      <4> QED BY <4>1 DEF RoutesBelong
    <3> QED BY <3>1, <3>2
  <2> QED BY <2>1, <2>3 DEF RoutesBelong
<1>3. CASE ~(\E g \in DOMAIN groups, suffix \in RoutePaths : GET(g, suffix))
  <2>1. UNCHANGED handlers
    BY <1>3 DEF Next, SetUp, Group, Use, ServeHTTP, CallHandler, NextReturns, NextCall, Return,
       NotFound, Write, Fail, Panic, Finish
  <2> QED BY <1>1, <2>1
<1> QED
  BY <1>2, <1>3

\* The chain of a request is put together once (gee.go:62-73).
LEMMA ChainBelongsStep ==
  ASSUME ChainBelongs, [Next]_vars
  PROVE  ChainBelongs'
<1>1. CASE UNCHANGED <<path, groups, chain>> /\ pc # "idle"
  <2>1. Middlewares(path)' = Middlewares(path)
    BY <1>1 DEF Middlewares
  <2> QED BY <1>1, <2>1 DEF ChainBelongs
<1>2. CASE pc' = "idle"
  BY <1>2 DEF ChainBelongs
<1>3. ASSUME NEW p \in Paths, ServeHTTP(p) PROVE ChainBelongs'
  <2>1. p \in Seq(Part)
    BY PathAssumption DEF Part
  <2>2. /\ path' = p /\ UNCHANGED groups
        /\ \E handler : chain' = Append(Middlewares(p), handler)
    BY <1>3 DEF ServeHTTP
  <2>3. Middlewares(path)' = Middlewares(p)
    BY <2>2 DEF Middlewares
  <2> QED BY <2>1, <2>2, <2>3 DEF ChainBelongs
<1>4. CASE SetUp \/ Finish
  <2>1. pc' = "idle"
    BY <1>4 DEF SetUp, Group, Use, GET, Finish
  <2> QED BY <1>2, <2>1
<1>5. CASE \/ CallHandler \/ NextReturns \/ NextCall \/ Return \/ NotFound
           \/ Write \/ Fail \/ Panic
  <2>1. UNCHANGED <<path, groups, chain>> /\ pc # "idle"
    BY <1>5 DEF CallHandler, NextReturns, NextCall, Return, NotFound, Write, Fail, Panic,
       UserCode, Middleware
  <2> QED BY <1>1, <2>1
<1>6. CASE UNCHANGED vars
  <2>1. UNCHANGED <<path, groups, chain, pc>>
    BY <1>6
  <2> QED BY <1>1, <1>2, <2>1
<1> QED
  BY <1>3, <1>4, <1>5, <1>6 DEF Next

\* A new engine has one group, without a prefix, and its middlewares.
LEMMA InitBelong == Init => BelongInv
<1> SUFFICES ASSUME Init PROVE BelongInv OBVIOUS
<1>1. PICK default \in {<<>>, << <<"logger", 1>>, <<"recovery", 1>> >>} :
        groups = << [prefix |-> <<>>, parent |-> 0, middlewares |-> default] >>
  BY DEF Init
<1> DEFINE engine == [prefix |-> <<>>, parent |-> 0, middlewares |-> default]
<1>2. DOMAIN groups = {1} /\ groups[1] = engine
  <2>1. \A x : DOMAIN <<x>> = {1} /\ <<x>>[1] = x
    OBVIOUS
  <2> QED BY <1>1, <2>1
<1>3. \A i \in DOMAIN default : default[i][2] = 1
  <2>1. CASE default = <<>>
    <3>1. DOMAIN <<>> = {}
      OBVIOUS
    <3> QED BY <2>1, <3>1
  <2>2. CASE default = << <<"logger", 1>>, <<"recovery", 1>> >>
    <3>1. DOMAIN default = {1, 2} /\ default[1] = <<"logger", 1>> /\ default[2] = <<"recovery", 1>>
      BY <2>2
    <3>2. default[1][2] = 1 /\ default[2][2] = 1
      BY <3>1
    <3> QED BY <3>1, <3>2
  <2> QED BY <1>1, <2>1, <2>2
<1>4. engine.middlewares = default /\ engine.prefix = <<>> /\ engine.parent = 0
  OBVIOUS
<1> HIDE DEF engine
<1>5. GroupsBelong
  <2>1. DOMAIN <<>> = {}
    OBVIOUS
  <2> QED BY <1>2, <1>3, <1>4, <2>1 DEF GroupsBelong
<1>6. RoutesBelong /\ ChainBelongs
  <2>1. DOMAIN handlers = {} /\ pc = "idle"
    BY DEF Init
  <2> QED BY <2>1 DEF RoutesBelong, ChainBelongs
<1> QED
  BY <1>5, <1>6 DEF BelongInv

\* A pattern that starts with names keeps them when it is parsed.
LEMMA ParseKeeps ==
  ASSUME NEW p \in Seq(Part), NEW n \in Seq(Part), StartsWith(p, n),
         \A i \in 1..Len(n) : n[i] \notin CatchAlls /\ n[i] # Blank
  PROVE  StartsWith(ParsePattern(p), n)
<1>1. /\ Len(n) \in 0..Len(p)
      /\ \A i \in 1..Len(n) : p[i] = n[i] /\ p[i] \notin CatchAlls /\ p[i] # Blank
  BY DEF StartsWith
<1>2. Len(ParsePattern(p)) >= Len(n) /\ \A i \in 1..Len(n) : ParsePattern(p)[i] = p[i]
  <2> DEFINE k == Len(n)
             q == ParsePattern(p)
  <2>1. k \in 0..Len(p) /\ q = ParsePattern(p) /\ \A i \in 1..k : p[i] # Blank /\ p[i] \notin CatchAlls
    BY <1>1
  <2> HIDE DEF k, q
  <2>2. Len(q) >= k /\ \A i \in 1..k : q[i] = p[i]
    BY <2>1, ParsedHead
  <2> QED BY <2>2 DEF k, q
<1>3. Len(ParsePattern(p)) \in Nat /\ Len(n) \in Nat
  BY ParseType
<1> QED
  BY <1>1, <1>2, <1>3 DEF StartsWith

\* A path has the prefix it starts with.
LEMMA PrefixIs ==
  ASSUME NEW p \in Seq(Part), NEW n \in Seq(Part), StartsWith(p, n),
         \A i \in DOMAIN n : n[i] \in Begins[n[i]]
  PROVE  HasPrefix(p, n)
<1>1. CASE n = <<>>
  BY <1>1 DEF HasPrefix
<1>2. CASE n # <<>>
  <2>1. Len(n) \in Nat /\ Len(n) # 0 /\ DOMAIN n = 1..Len(n) /\ Len(p) \in Nat
    BY <1>2
  <2>2. Len(n) <= Len(p) /\ \A i \in 1..Len(n) : p[i] = n[i]
    BY DEF StartsWith
  <2>3. p[Len(n)] \in Begins[Last(n)]
    <3>1. Len(n) \in 1..Len(n)
      BY <2>1
    <3> QED BY <2>1, <2>2, <3>1 DEF Last
  <2>4. SubSeq(p, 1, Len(n) - 1) = Front(n)
    <3> DEFINE k == Len(n) - 1
    <3>1. k \in 0..Len(p) /\ k <= Len(n) /\ \A i \in 1..k : p[i] = n[i]
      BY <2>1, <2>2
    <3> HIDE DEF k
    <3>2. SubSeq(p, 1, k) = SubSeq(n, 1, k)
      BY <3>1, SameBeginning
    <3> QED BY <3>2 DEF Front, k
  <2> QED BY <2>2, <2>3, <2>4 DEF HasPrefix
<1> QED
  BY <1>1, <1>2

\* The groups around a group are made before it, and its prefix starts with
\* theirs.
LEMMA AroundFacts ==
  ASSUME ChainType, GroupsInv, GroupsBelong, NEW g \in DOMAIN groups
  PROVE  \A h \in Around(g) : /\ h \in DOMAIN groups /\ h <= g
                              /\ StartsWith(groups[g].prefix, groups[h].prefix)
<1>g. DOMAIN groups \subseteq Nat /\ Len(groups) \in Nat /\ DOMAIN groups = 1..Len(groups)
  BY SeqFacts DEF ChainType
<1>p. \A h \in DOMAIN groups : groups[h].prefix \in Seq(Part)
  BY DEF GroupsInv, RouterGroup
<1>1. ASSUME NEW k \in DOMAIN groups
      PROVE  /\ groups[k].parent \in DOMAIN groups \cup {0} /\ groups[k].parent < k
             /\ groups[k].parent \in Nat
  <2>1. groups[k].parent \in 0..(k - 1)
    BY DEF GroupsInv
  <2> QED BY <1>g, <2>1
<1>2. ASSUME NEW S \in SUBSET DOMAIN groups, g \in S,
             \A k \in S : groups[k].parent \in S \cup {0}
      PROVE  Around(g) \subseteq S
  BY <1>2 DEF Around
<1> DEFINE A == {h \in DOMAIN groups : h <= g}
           B == {h \in DOMAIN groups : StartsWith(groups[g].prefix, groups[h].prefix)}
<1>3. Around(g) \subseteq A
  <2>1. g \in A
    BY <1>g
  <2>2. ASSUME NEW k \in A PROVE groups[k].parent \in A \cup {0}
    <3>1. k \in DOMAIN groups /\ k <= g /\ k \in Nat /\ g \in Nat
      BY <1>g
    <3>2. groups[k].parent <= g
      BY <1>1, <3>1
    <3> QED BY <1>1, <3>1, <3>2
  <2>3. A \in SUBSET DOMAIN groups
    OBVIOUS
  <2> HIDE DEF A
  <2> QED BY <1>2, <2>1, <2>2, <2>3
<1>4. Around(g) \subseteq B
  <2>1. g \in B
    BY <1>p, StartsFacts
  <2>2. ASSUME NEW k \in B PROVE groups[k].parent \in B \cup {0}
    <3> SUFFICES ASSUME groups[k].parent # 0 PROVE groups[k].parent \in B OBVIOUS
    <3> DEFINE up == groups[k].parent
    <3>1. k \in DOMAIN groups /\ StartsWith(groups[g].prefix, groups[k].prefix)
      OBVIOUS
    <3>2. up \in DOMAIN groups
      BY <1>1, <3>1
    <3>3. StartsWith(groups[k].prefix, groups[up].prefix)
      BY <3>1 DEF GroupsBelong
    <3> HIDE DEF up
    <3>4. StartsWith(groups[g].prefix, groups[up].prefix)
      BY <1>p, <3>1, <3>2, <3>3, StartsFacts
    <3>5. up \in B
      BY <3>2, <3>4
    <3> QED BY <3>5 DEF up
  <2>3. B \in SUBSET DOMAIN groups
    OBVIOUS
  <2> HIDE DEF B
  <2> QED BY <1>2, <2>1, <2>2, <2>3
<1> QED
  BY <1>3, <1>4

\* What is around a group around g is around g.
LEMMA AroundIn ==
  ASSUME NEW g, NEW h \in Around(g)
  PROVE  Around(h) \subseteq Around(g)
<1> SUFFICES ASSUME NEW k \in Around(h), NEW S \in SUBSET DOMAIN groups, g \in S,
                    \A l \in S : groups[l].parent \in S \cup {0}
             PROVE  k \in S
  BY DEF Around
<1>1. h \in S
  BY DEF Around
<1> QED
  BY <1>1 DEF Around

\* A path that fits a route has every prefix that the one of its group starts
\* with, if that holds no wildcard and neither of them an empty part there.
LEMMA PathHasPrefix ==
  ASSUME NEW p \in Seq(Part), NEW r \in Seq(Part), NEW m \in Seq(Part), NEW n \in Seq(Part),
         Matches(ParsePattern(r), ParsePattern(p)),
         StartsWith(r, m), StartsWith(m, n),
         \A i \in DOMAIN m : m[i] \notin Wild /\ m[i] # Blank /\ p[i] # Blank,
         \A i \in DOMAIN n : n[i] \in Begins[n[i]]
  PROVE  HasPrefix(p, n)
<1> DEFINE q == ParsePattern(r)
           a == ParsePattern(p)
           l == Len(m)
<1>1. q \in Seq(Part) /\ a \in Seq(Part) /\ Len(a) <= Len(p)
  BY ParseType
<1>2. Fits(a, q)
  BY <1>1, MatchFacts
<1>3. \A i \in 1..l : m[i] \notin Wild /\ m[i] \notin CatchAlls /\ m[i] # Blank /\ p[i] # Blank
  BY DEF Wild
<1>4. StartsWith(q, m)
  BY <1>3, ParseKeeps
<1>e. a = ParsePattern(p)
  OBVIOUS
<1> HIDE DEF q, a
<1>5. Len(a) \in Nat /\ Len(q) \in Nat /\ l \in Nat /\ Len(n) \in Nat /\ Len(p) \in Nat
  BY <1>1
<1>6. l <= Len(q) /\ Len(q) <= Len(a) /\ l <= Len(p)
  BY <1>1, <1>2, <1>4, <1>5 DEF Fits, StartsWith
<1>a. ASSUME NEW i \in 1..l PROVE a[i] = m[i]
  <2>1. i \in 1..Len(q)
    BY <1>5, <1>6
  <2>2. q[i] = m[i]
    BY <1>4 DEF StartsWith
  <2>3. q[i] = a[i] \/ q[i] \in Wild
    BY <1>2, <2>1 DEF Fits
  <2> QED BY <1>3, <2>2, <2>3
<1> DEFINE Same(k) == k <= l => \A i \in 1..k : p[i] = m[i]
           SameTo == {k \in Nat : Same(k)}
<1>b. Same(0)
  OBVIOUS
<1>c. ASSUME NEW k \in Nat, Same(k) PROVE Same(k + 1)
  <2> SUFFICES ASSUME k + 1 <= l PROVE \A i \in 1..(k + 1) : p[i] = m[i]
    OBVIOUS
  <2> DEFINE j == k + 1
  <2>1. j \in 0..Len(p) /\ j \in 1..l /\ k <= l
    BY <1>5, <1>6
  <2>2. \A i \in 1..j : i \in 1..l /\ (i # j => i \in 1..k)
    BY <1>5, <2>1
  <2>3. \A i \in 1..k : p[i] = m[i]
    BY <1>c, <2>1
  <2>4. \A i \in 1..j : p[i] # Blank /\ (i # j => p[i] \notin CatchAlls)
    BY <1>3, <2>2, <2>3
  <2>5. j \in 1..j
    BY <2>1
  <2> HIDE DEF j
  <2>6. a[j] = p[j]
    BY <1>e, <2>1, <2>4, <2>5, ParsedHead
  <2>7. p[j] = m[j]
    BY <1>a, <2>1, <2>6
  <2> QED BY <2>2, <2>3, <2>7 DEF j
<1>7. \A i \in 1..l : p[i] = m[i]
  <2> HIDE DEF Same
  <2>1. 0 \in SameTo /\ \A k \in Nat : k \in SameTo => k + 1 \in SameTo
    BY <1>b, <1>c
  <2>2. Nat \subseteq SameTo
    <3> HIDE DEF SameTo
    <3> QED BY <2>1, SetInduction
  <2>3. Same(l)
    BY <1>5, <2>2
  <2> QED BY <1>5, <2>3 DEF Same
<1>8. StartsWith(p, m)
  BY <1>6, <1>7 DEF StartsWith
<1>9. StartsWith(p, n)
  BY <1>8, StartsFacts
<1> QED
  BY <1>9, PrefixIs

\* So whoever serves a request runs behind its group.
LEMMA RunsBehind ==
  ASSUME IInv, RouterInv, BelongInv
  PROVE  BehindItsGroup
<1> DEFINE g == handlers[route]
           behind == 1..(Len(entered) - 1)
           UsedOn(h) == groups[h].middlewares
           Placed(before, h) ==
             /\ \A i \in DOMAIN UsedOn(h) : /\ before[h] + i \in behind
                                           /\ chain[entered[before[h] + i]] = UsedOn(h)[i]
             /\ \A i \in behind : chain[entered[i]][2] = h =>
                                    \E j \in DOMAIN UsedOn(h) : i = before[h] + j
             /\ \A k \in Around(h) \ {h} : before[k] + Len(UsedOn(k)) <= before[h]
<1> SUFFICES ASSUME route # NoRoute, entered # <<>>, Last(entered) = Len(chain),
                    Range(groups[g].prefix) \cap (Wild \cup {Blank}) = {},
                    Matches(ParsePattern(route), ParsePattern(path)),
                    \A i \in DOMAIN groups[g].prefix : path[i] # Blank
             PROVE  \E before \in [Around(g) -> 0..Len(entered)] :
                      \A h \in Around(g) : Placed(before, h)
  BY DEF BehindItsGroup
<1>t. ChainType /\ GroupsInv /\ RoutesInv /\ GroupsBelong /\ RoutesBelong
  BY DEF IInv, RouterInv, BelongInv
<1>g. Len(groups) \in Nat /\ DOMAIN groups = 1..Len(groups)
  BY <1>t, SeqFacts DEF ChainType
<1> DEFINE M == Middlewares(path)
<1>1. path \in Seq(Part) /\ \E handler : chain = Append(M, handler)
  BY DEF BelongInv, ChainBelongs, IInv, IdleInv
<1>2. M \in Seq(Used)
  BY <1>t, MiddlewaresType
<1>m. Len(M) \in Nat /\ DOMAIN M = 1..Len(M)
  BY <1>2
<1>3. Len(chain) = Len(M) + 1 /\ \A i \in 1..Len(M) : chain[i] = M[i]
  <2>1. IsSeq(M)
    BY <1>2, SeqIsSeq
  <2> HIDE DEF M
  <2>2. /\ \A x : Len(Append(M, x)) = Len(M) + 1
        /\ \A x : \A i \in 1..(Len(M) + 1) :
             Append(M, x)[i] = IF i = Len(M) + 1 THEN x ELSE M[i]
    BY <2>1, SeqFacts
  <2>3. PICK handler : chain = Append(M, handler)
    BY <1>1
  <2>4. Len(chain) = Len(M) + 1
    BY <2>2, <2>3
  <2>5. ASSUME NEW i \in 1..Len(M) PROVE chain[i] = M[i]
    <3>1. i \in 1..(Len(M) + 1) /\ i # Len(M) + 1
      BY <1>m
    <3>2. Append(M, handler)[i] = M[i]
      BY <2>2, <3>1
    <3> QED BY <2>3, <3>2
  <2> QED BY <2>4, <2>5
<1>4. Len(entered) = Len(M) + 1 /\ \A i \in 1..Len(entered) : entered[i] = i
  <2>1. Len(entered) \in Nat /\ Len(entered) # 0
    BY <1>t DEF ChainType
  <2>2. \A i \in 1..Len(entered) : entered[i] = i
    BY DEF IInv, EnteredInOrder
  <2>3. entered[Len(entered)] = Len(chain)
    BY DEF Last
  <2>4. Len(entered) \in 1..Len(entered)
    BY <2>1
  <2> QED BY <1>3, <2>2, <2>3, <2>4
<1>5. behind = 1..Len(M) /\ \A i \in 1..Len(M) : chain[entered[i]] = M[i]
  <2>1. \A i \in 1..Len(M) : i \in 1..Len(entered)
    BY <1>m, <1>4
  <2> QED BY <1>m, <1>3, <1>4, <2>1
<1>6. route \in DOMAIN handlers /\ route \in Seq(Part) /\ g \in DOMAIN groups
      /\ StartsWith(route, groups[g].prefix)
  BY <1>t DEF RoutesInv, RoutesBelong
<1>7. \A h \in Around(g) : /\ h \in DOMAIN groups /\ h <= g
                           /\ StartsWith(groups[g].prefix, groups[h].prefix)
  BY <1>t, <1>6, AroundFacts
<1>8. ASSUME NEW h \in Around(g) PROVE HasPrefix(path, groups[h].prefix)
  <2>1. groups[g].prefix \in Seq(Part) /\ groups[h].prefix \in Seq(Part)
    BY <1>t, <1>6, <1>7 DEF GroupsInv, RouterGroup
  <2>2. \A i \in DOMAIN groups[g].prefix :
          groups[g].prefix[i] \notin Wild /\ groups[g].prefix[i] # Blank /\ path[i] # Blank
    BY DEF Range
  <2>3. \A i \in DOMAIN groups[h].prefix : groups[h].prefix[i] \in Begins[groups[h].prefix[i]]
    BY <1>t, <1>7 DEF GroupsBelong
  <2> QED BY <1>1, <1>6, <1>7, <2>1, <2>2, <2>3, PathHasPrefix
<1> DEFINE N == Len(groups)
           seqs == [h \in DOMAIN groups |-> IF HasPrefix(path, groups[h].prefix)
                                            THEN groups[h].middlewares ELSE <<>>]
<1>9. /\ seqs \in Seq(Seq(Used)) /\ seqs # <<>> /\ Len(seqs) = N
      /\ \A h \in 1..N : seqs[h] \in {UsedOn(h), <<>>}
      /\ \A h \in Around(g) : seqs[h] = UsedOn(h)
  <2> DEFINE S == Seq(Used)
  <2>1. /\ <<>> \in S /\ \A h \in 1..N : UsedOn(h) \in S
    BY <1>g, <1>t DEF ChainType
  <2> HIDE DEF S
  <2>2. seqs \in [1..N -> S]
    BY <1>g, <2>1
  <2>3. \A h \in 1..N : seqs[h] \in {UsedOn(h), <<>>}
    BY <1>g
  <2>4. \A h \in Around(g) : seqs[h] = UsedOn(h)
    BY <1>7, <1>8
  <2> HIDE DEF seqs
  <2>5. seqs \in Seq(S) /\ Len(seqs) = N
    BY <1>g, <2>2
  <2>6. seqs # <<>>
    BY <1>g, <1>6, <2>5
  <2> QED BY <2>3, <2>4, <2>5, <2>6 DEF S
<1>10. M = FlattenSeq(seqs)
  BY DEF Middlewares
<1> HIDE DEF seqs, M, N
<1>11. PICK off : /\ Blocks(seqs, off, M, N)
                  /\ \A h, k \in 1..N : h < k => off[h] + Len(seqs[h]) <= off[k]
  BY <1>9, <1>10, FlattenBlocks
<1>12. ASSUME NEW h \in Around(g)
       PROVE  /\ h \in 1..N /\ h \in Nat /\ Len(UsedOn(h)) \in Nat
              /\ DOMAIN UsedOn(h) = 1..Len(UsedOn(h))
              /\ off[h] \in Nat /\ off[h] + Len(UsedOn(h)) <= Len(M)
              /\ \A i \in DOMAIN UsedOn(h) : M[off[h] + i] = UsedOn(h)[i]
  <2>1. h \in DOMAIN groups /\ h \in 1..N /\ h \in Nat
    BY <1>g, <1>7 DEF N
  <2>2. seqs[h] = UsedOn(h) /\ UsedOn(h) \in Seq(Used)
    BY <1>9, <1>t, <2>1 DEF ChainType
  <2>3. Len(UsedOn(h)) \in Nat /\ DOMAIN UsedOn(h) = 1..Len(UsedOn(h))
    BY <2>2
  <2>4. /\ off[h] \in Nat /\ off[h] + Len(seqs[h]) <= Len(M)
        /\ \A i \in 1..Len(seqs[h]) : M[off[h] + i] = seqs[h][i]
    BY <1>11, <2>1 DEF Blocks
  <2> QED BY <2>1, <2>2, <2>3, <2>4
<1> DEFINE before == [h \in Around(g) |-> off[h]]
<1>13. before \in [Around(g) -> 0..Len(entered)]
  <2>1. \A h \in Around(g) : off[h] \in 0..Len(entered)
    BY <1>m, <1>4, <1>12
  <2> QED BY <2>1
<1>14. ASSUME NEW h \in Around(g), NEW i \in DOMAIN UsedOn(h)
       PROVE  before[h] + i \in behind /\ chain[entered[before[h] + i]] = UsedOn(h)[i]
  <2> DEFINE k == off[h] + i
  <2>1. k \in 1..Len(M)
    BY <1>m, <1>12
  <2>2. M[k] = UsedOn(h)[i] /\ before[h] + i = k
    BY <1>12
  <2> HIDE DEF k, before, behind
  <2> QED BY <1>5, <2>1, <2>2
<1>15. ASSUME NEW h \in Around(g), NEW i \in behind, chain[entered[i]][2] = h
       PROVE  \E j \in DOMAIN UsedOn(h) : i = before[h] + j
  <2>1. i \in 1..Len(M) /\ M[i][2] = h
    BY <1>5, <1>15
  <2>2. PICK k \in 1..N : \E j \in 1..Len(seqs[k]) : i = off[k] + j
    BY <1>11, <2>1 DEF Blocks
  <2>3. PICK j \in 1..Len(seqs[k]) : i = off[k] + j
    BY <2>2
  <2>4. M[i] = seqs[k][j]
    BY <1>11, <2>3 DEF Blocks
  <2>5. seqs[k] = UsedOn(k) /\ j \in DOMAIN UsedOn(k)
    <3>1. Len(<<>>) = 0
      OBVIOUS
    <3>2. seqs[k] # <<>>
      BY <2>3, <3>1
    <3>3. seqs[k] = UsedOn(k)
      BY <1>9, <3>2
    <3>4. UsedOn(k) \in Seq(Used)
      BY <1>g, <1>t DEF ChainType, N
    <3> QED BY <2>3, <3>3, <3>4
  <2>6. seqs[k][j][2] = k
    BY <1>g, <1>t, <2>5 DEF GroupsBelong, N
  <2>7. k = h
    BY <2>1, <2>4, <2>6
  <2>8. before[h] = off[h]
    OBVIOUS
  <2> HIDE DEF before
  <2> QED BY <2>3, <2>5, <2>7, <2>8
<1>16. ASSUME NEW h \in Around(g), NEW k \in Around(h) \ {h}
       PROVE  before[k] + Len(UsedOn(k)) <= before[h]
  <2>1. k \in Around(g)
    BY <1>t, <1>6, AroundIn
  <2>2. k <= h /\ k # h
    BY <1>t, <1>7, AroundFacts
  <2>3. k < h
    BY <1>12, <2>1, <2>2
  <2>4. off[k] + Len(seqs[k]) <= off[h] /\ seqs[k] = UsedOn(k)
    BY <1>9, <1>11, <1>12, <2>1, <2>3
  <2> QED BY <2>1, <2>4
<1>17. ASSUME NEW h \in Around(g) PROVE Placed(before, h)
  <2> HIDE DEF before, behind
  <2> QED BY <1>14, <1>15, <1>16
<1> QED
  <2> HIDE DEF before, Placed
  <2> QED BY <1>13, <1>17

\* Every step preserves what the routes depend on.
LEMMA NextBelong == ChainType /\ RouterInv /\ BelongInv /\ [Next]_vars => BelongInv'
BY GroupsBelongStep, RoutesBelongStep, ChainBelongsStep DEF RouterInv, BelongInv

----------------------------------------------------------------------------
(* The theorems *)

\* In every reachable state the chain, the stack of handlers and the history of
\* the request fit together (context.go:37-44, recovery.go:11-23).
THEOREM IInvCorrect == Spec => []IInv
<1>1. Init => IInv
  BY InitInv
<1>2. IInv /\ [Next]_vars => IInv'
  BY NextInv
<1> QED
  BY <1>1, <1>2, PTL DEF Spec

\* However handlers nest their calls of Next, each begins once and in the order
\* of the chain (context.go:37-44).
THEOREM EnteredInOrderCorrect == Spec => []EnteredInOrder
<1>1. IInv => EnteredInOrder
  BY DEF IInv
<1> QED
  BY <1>1, IInvCorrect, PTL

\* No handler begins after a Fail or a panic that was caught
\* (context.go:105-108, recovery.go:11-23).
THEOREM FailEndsChainCorrect == Spec => []FailEndsChain
<1>1. IInv => FailEndsChain
  BY DEF IInv, FailInv, FailEndsChain
<1> QED
  BY <1>1, IInvCorrect, PTL

\* A panic behind Recovery is answered and never reaches net/http
\* (recovery.go:11-23).
THEOREM PanicAnsweredCorrect == Spec => []PanicAnswered
<1>1. IInv => PanicAnswered
  BY DEF IInv, PanicInv, BehindRecovery, PanicAnswered
<1> QED
  BY <1>1, IInvCorrect, PTL

\* In every reachable state a wildcard is the last child of its node, a child is
\* a node, a group is made after its parent, and a request has a route that was
\* added (trie.go:13-51, gee.go:44-56, router.go:66-92).
THEOREM TypeCorrect == Spec => []TypeOK
<1>1. Init => RouterInv
  BY InitRouter
<1>2. IInv /\ RouterInv /\ [Next]_vars => RouterInv'
  BY NextRouter DEF IInv
<1>3. IInv /\ RouterInv => TypeOK
  <2> SUFFICES ASSUME IInv, RouterInv PROVE TypeOK OBVIOUS
  <2> DEFINE F == [at : DOMAIN chain, nexts : 0..MaxNexts]
  <2>1. calls \in Seq(F)
    <3>n. /\ Len(chain) \in Nat /\ DOMAIN chain = 1..Len(chain)
          /\ Len(entered) \in Nat /\ Len(entered) <= Len(chain)
          /\ Len(calls) \in Nat /\ DOMAIN calls = 1..Len(calls)
      BY Numbers DEF IInv, IndexInv
    <3>1. ASSUME NEW k \in DOMAIN calls PROVE calls[k] \in F
      <4>1. calls[k] \in Frame /\ calls[k].at \in 1..Len(entered)
            /\ calls[k].nexts <= MaxNexts
        BY Numbers DEF IInv, StackInv, RouterInv, NextsInv
      <4>2. calls[k] = [at |-> calls[k].at, nexts |-> calls[k].nexts] /\ calls[k].nexts \in Nat
        BY <4>1 DEF Frame
      <4>3. calls[k].at \in DOMAIN chain /\ calls[k].nexts \in 0..MaxNexts
        BY <3>n, <4>1, <4>2, NextsAssumption
      <4> QED BY <4>2, <4>3
    <3>2. calls = [k \in 1..Len(calls) |-> calls[k]]
      BY DEF IInv, ChainType
    <3>3. calls \in [1..Len(calls) -> F]
      <4> HIDE DEF F
      <4> QED BY <3>n, <3>1, <3>2
    <3> HIDE DEF F
    <3> QED BY <3>n, <3>3
  <2>2. pc \in {"idle", "next", "handler", "aborted"} /\ index \in Nat
    BY DEF IInv, ChainType
  <2>3. \A g \in DOMAIN groups : groups[g].parent \in 0..(g - 1)
    BY DEF RouterInv, GroupsInv
  <2>4. \A n \in DOMAIN trie :
          LET children == trie[n].children IN
          /\ \A i \in DOMAIN children : Append(n, children[i]) \in DOMAIN trie
          /\ \A i \in DOMAIN children : children[i] \in Wild => i = Len(children)
    BY DEF RouterInv, RoutesInv, TrieInv
  <2> QED
    BY <2>1, <2>2, <2>3, <2>4 DEF TypeOK, RouterInv, RoutesInv
<1> QED
  BY <1>1, <1>2, <1>3, IInvCorrect, PTL DEF Spec

\* If no route was lost in another, a request goes to the route that fits its
\* path best, whatever the order in which routes were added, and its parameters
\* are the parts that the wildcards stand for (router.go:66-92, trie.go:54-73).
THEOREM RoutedAsDeclaredCorrect == Spec => []RoutedAsDeclared
<1> DEFINE I == IInv /\ RouterInv /\ TreesInv /\ RoutedAsDeclared
<1>1. Init => I
  <2> SUFFICES ASSUME Init PROVE I OBVIOUS
  <2>1. pc = "idle" /\ trie = <<>>
    BY DEF Init, NoTrie
  <2>2. DOMAIN trie = {}
    BY <2>1
  <2>3. TreesInv /\ RoutedAsDeclared
    BY <2>1, <2>2 DEF TreesInv, TreeInv, LandInv, RoutedAsDeclared
  <2> QED BY <2>3, InitInv, InitRouter
<1>2. I /\ [Next]_vars => I'
  BY NextInv, NextRouter, RoutedStep DEF IInv
<1>3. I => RoutedAsDeclared
  OBVIOUS
<1> QED
  BY <1>1, <1>2, <1>3, PTL DEF Spec

\* The handler of a route runs behind the middlewares of its group and of the
\* groups around it, the outer ones first (gee.go:44-56,
\* router_group.go:22-32).
THEOREM BehindItsGroupCorrect == Spec => []BehindItsGroup
<1> DEFINE I == IInv /\ RouterInv /\ BelongInv
<1>1. Init => I
  BY InitInv, InitRouter, InitBelong
<1>2. I /\ [Next]_vars => I'
  BY NextInv, NextRouter, NextBelong DEF IInv
<1>3. I => BehindItsGroup
  BY RunsBehind
<1> QED
  BY <1>1, <1>2, <1>3, PTL DEF Spec

=============================================================================
