-------------------------- MODULE OrmSessionProofs --------------------------
(***************************************************************************)
(* What sessions, transactions and migrations promise, proved for any      *)
(* goroutines, rows, model and earlier tables, and that they implement     *)
(* AtomicTransactions.                                                     *)
(***************************************************************************)
EXTENDS OrmSession, WellFoundedInduction, TLAPS

\* The content after the effects s.
After(base, s) == FoldLeft(Apply, base, s)

TypeInv ==
  /\ db \in Contents /\ work \in Contents
  /\ readers \in SUBSET Callers
  /\ writer \in readers \cup {None}
  /\ tx \in [Callers -> {"none", "open", "over"}]
  /\ refTable \in [Callers -> BOOLEAN]
  /\ where \in [Callers -> Wheres \cup {None}]
  /\ asked \in [Callers -> Wheres \cup {None}]
  /\ frame \in [Callers -> Frames]
  /\ columns \in [Callers -> Tables]
  /\ op \in [Callers -> Calls \cup {None}]
  /\ hooked \in [Callers -> BOOLEAN]
  /\ ending \in [Callers -> {"none", "ok", "err", "panic"}]
  /\ did \in [Callers -> Seq(Effects)]
  /\ result \in [Callers -> {"none", "ok", "err", "panic"}]

\* Locks belong to transactions that are open.
LockInv == /\ writer = None => work = db
           /\ \A c \in readers : tx[c] = "open"

\* What a goroutine runs, and the transaction it has.
FrameOf(c) ==
  /\ frame[c] = "none" => tx[c] = "none"
  /\ frame[c] \in {"transaction", "migrate"} => tx[c] = "open"
  /\ frame[c] = "migrated" => tx[c] # "open"
  /\ ending[c] # "none" => frame[c] \in {"transaction", "migrate"} /\ op[c] = None
  /\ frame[c] = "migrate" => op[c] \in MigrateCalls \/ ending[c] # "none"
  /\ op[c] \in MigrateCalls => frame[c] = "migrate"
  /\ op[c] # None => frame[c] \in {"session", "transaction", "migrate"}
  /\ hooked[c] => op[c] \in HookUses
FrameInv == \A c \in Callers : FrameOf(c)

\* Only a hook comes between a condition and its statement.
WhereInv == \A c \in Callers : op[c] \notin HookUses => where[c] = asked[c]

\* Migrate knows the columns of the table: it has read them, so that nobody
\* commits others, and it is done only with those of the model.
MigrateInv ==
  \A c \in Callers :
    /\ op[c] \in {"AddColumn", "Rebuild"} => c \in readers /\ columns[c] = View(c).columns
    /\ op[c] = "Return" \/ (frame[c] = "migrate" /\ ending[c] = "ok")
         => c \in readers /\ View(c).columns = Model

\* Who does not migrate leaves the columns alone.
ColumnsInv == /\ writer # None /\ frame[writer] # "migrate" => work.columns = db.columns
              /\ MigratedHasModel

\* What a transaction sees is what was committed and what it did.
EffectsInv ==
  \A c \in Callers :
    tx[c] = "open" => IF writer = c THEN work = After(db, did[c]) ELSE did[c] = <<>>

IInv == /\ TypeInv
        /\ LockInv
        /\ FrameInv
        /\ WhereInv
        /\ MigrateInv
        /\ ColumnsInv
        /\ EffectsInv

----------------------------------------------------------------------------
(* Effects one after the other *)

\* Every set of numbers has a least element.
LEMMA LeastNat ==
  ASSUME NEW T, T \subseteq Nat, T # {}
  PROVE  \E x \in T : \A y \in T : x <= y
<1> DEFINE R == {ss \in Nat \X Nat : ss[1] < ss[2]}
<1>1. IsWellFoundedOn(R, Nat)
  BY NatLessThanWellFounded DEF OpToRel
<1>2. PICK x \in T : \A y \in T : <<y, x>> \notin R
  <2> HIDE DEF R
  <2> QED BY <1>1, WFMin
<1>3. \A y \in T : ~(y < x)
  BY <1>2
<1> QED BY <1>3

\* The function by which FoldLeft is defined.
LastOf(t) == CHOOSE x \in t : \A y \in t : x >= y
IterOf(base, s, n, g) ==
  g = [t \in SUBSET (1 .. n) |->
         IF t = {} THEN base ELSE Apply(g[t \ {LastOf(t)}], s[LastOf(t)])]

LEMMA AfterIsIter ==
  ASSUME NEW base, NEW s, NEW n, DOMAIN s = 1 .. n
  PROVE  After(base, s) = (CHOOSE g : IterOf(base, s, n, g))[1 .. n]
BY DEF After, FoldLeft, MapThenFoldSet, IterOf, LastOf, Max

\* There is such a function for each n: a least n without one would have it from
\* the function for n - 1.
LEMMA IterExists ==
  ASSUME NEW base, NEW s, NEW n \in Nat
  PROVE  \E g : IterOf(base, s, n, g)
<1> DEFINE Bad == {m \in Nat : ~\E g : IterOf(base, s, m, g)}
<1> SUFFICES ASSUME Bad # {} PROVE FALSE
  OBVIOUS
<1>1. PICK m \in Bad : \A k \in Bad : m <= k
  <2>1. Bad \subseteq Nat
    OBVIOUS
  <2> HIDE DEF Bad
  <2> QED BY <2>1, LeastNat
<1>2. m # 0
  <2>1. IterOf(base, s, 0, [t \in SUBSET (1 .. 0) |-> base])
    <3>1. \A t \in SUBSET (1 .. 0) : t = {}
      OBVIOUS
    <3> QED BY <3>1 DEF IterOf
  <2> QED BY <2>1
<1> DEFINE k == m - 1
<1>3. k \in Nat /\ k \notin Bad /\ m = k + 1 /\ k + 1 \in Nat
  BY <1>1, <1>2
<1>4. PICK g : IterOf(base, s, k, g)
  BY <1>3
<1> HIDE DEF k
<1> DEFINE h == [t \in SUBSET (1 .. (k + 1)) |->
                   IF k + 1 \in t THEN Apply(g[t \ {k + 1}], s[k + 1]) ELSE g[t]]
<1>5. ASSUME NEW t \in SUBSET (1 .. (k + 1))
      PROVE  h[t] = IF t = {} THEN base ELSE Apply(h[t \ {LastOf(t)}], s[LastOf(t)])
  <2>1. CASE k + 1 \in t
    <3>1. LastOf(t) = k + 1
      <4>1. \A x \in t : x \in Int /\ k + 1 >= x
        BY <1>3
      <4>2. \A x \in t : (\A y \in t : x >= y) => x = k + 1
        BY <1>3, <2>1, <4>1
      <4> QED BY <2>1, <4>1, <4>2 DEF LastOf
    <3>2. t \ {k + 1} \in SUBSET (1 .. k) /\ t \ {k + 1} \in SUBSET (1 .. (k + 1))
          /\ k + 1 \notin t \ {k + 1}
      BY <1>3
    <3>3. h[t \ {k + 1}] = g[t \ {k + 1}]
      BY <3>2
    <3> QED
      BY <2>1, <3>1, <3>3
  <2>2. CASE k + 1 \notin t
    <3>1. t \in SUBSET (1 .. k)
      BY <1>3, <2>2
    <3>2. g[t] = IF t = {} THEN base ELSE Apply(g[t \ {LastOf(t)}], s[LastOf(t)])
      <4> DEFINE body(u) == IF u = {} THEN base
                                      ELSE Apply(g[u \ {LastOf(u)}], s[LastOf(u)])
      <4>1. g = [u \in SUBSET (1 .. k) |-> body(u)]
        BY <1>4 DEF IterOf
      <4> HIDE DEF body
      <4>2. g[t] = body(t)
        BY <3>1, <4>1
      <4> QED BY <4>2 DEF body
    <3>3. t \ {LastOf(t)} \in SUBSET (1 .. (k + 1)) /\ k + 1 \notin t \ {LastOf(t)}
      BY <2>2
    <3>4. h[t] = g[t] /\ h[t \ {LastOf(t)}] = g[t \ {LastOf(t)}]
      BY <2>2, <3>3
    <3> QED
      BY <3>2, <3>4
  <2> QED
    BY <2>1, <2>2
<1>6. IterOf(base, s, m, h)
  <2> DEFINE body(t) == IF t = {} THEN base
                                  ELSE Apply(h[t \ {LastOf(t)}], s[LastOf(t)])
  <2>1. \A t \in SUBSET (1 .. (k + 1)) : h[t] = body(t)
    BY <1>5
  <2>2. h = [t \in SUBSET (1 .. (k + 1)) |-> h[t]]
    OBVIOUS
  <2> HIDE DEF h, body
  <2>3. h = [t \in SUBSET (1 .. (k + 1)) |-> body(t)]
    BY <2>1, <2>2
  <2> QED
    BY <1>3, <2>3 DEF IterOf, body
<1> QED
  BY <1>1, <1>6

\* It applies the effects in order.
LEMMA IterValue ==
  ASSUME NEW base, NEW s, NEW n \in Nat, NEW g, IterOf(base, s, n, g)
  PROVE  /\ g[{}] = base
         /\ \A k \in 0 .. (n - 1) : g[1 .. (k + 1)] = Apply(g[1 .. k], s[k + 1])
<1> DEFINE body(t) == IF t = {} THEN base ELSE Apply(g[t \ {LastOf(t)}], s[LastOf(t)])
<1>1. g = [t \in SUBSET (1 .. n) |-> body(t)]
  BY DEF IterOf
<1>2. \A t \in SUBSET (1 .. n) : g[t] = body(t)
  <2> HIDE DEF body
  <2> QED BY <1>1
<1>3. g[{}] = base
  BY <1>2
<1>4. ASSUME NEW k \in 0 .. (n - 1)
      PROVE  g[1 .. (k + 1)] = Apply(g[1 .. k], s[k + 1])
  <2>1. 1 .. (k + 1) \in SUBSET (1 .. n) /\ 1 .. (k + 1) # {}
    OBVIOUS
  <2>2. LastOf(1 .. (k + 1)) = k + 1
    BY DEF LastOf
  <2>3. (1 .. (k + 1)) \ {k + 1} = 1 .. k
    OBVIOUS
  <2> QED
    BY <1>2, <2>1, <2>2, <2>3
<1> QED
  BY <1>3, <1>4

\* No effect leaves the content, and one more effect changes it last.
LEMMA AfterNone == ASSUME NEW base PROVE After(base, <<>>) = base
<1> DEFINE g == CHOOSE g : IterOf(base, <<>>, 0, g)
<1>1. After(base, <<>>) = g[1 .. 0]
  BY AfterIsIter
<1>2. IterOf(base, <<>>, 0, g)
  BY IterExists
<1> HIDE DEF g
<1>3. g[{}] = base
  BY <1>2, IterValue
<1>4. 1 .. 0 = {}
  OBVIOUS
<1> QED
  BY <1>1, <1>3, <1>4

LEMMA IterAgree ==
  ASSUME NEW base, NEW s, NEW r, NEW n \in Nat, NEW g, NEW h,
         IterOf(base, s, n, g), IterOf(base, r, n + 1, h), \A i \in 1 .. n : r[i] = s[i]
  PROVE  h[1 .. (n + 1)] = Apply(g[1 .. n], r[n + 1])
<1>1. g[{}] = base /\ \A k \in 0 .. (n - 1) : g[1 .. (k + 1)] = Apply(g[1 .. k], s[k + 1])
  BY IterValue
<1>2. h[{}] = base /\ \A k \in 0 .. n : h[1 .. (k + 1)] = Apply(h[1 .. k], r[k + 1])
  <2>1. (n + 1) - 1 = n /\ n + 1 \in Nat
    OBVIOUS
  <2>2. /\ h[{}] = base
        /\ \A k \in 0 .. ((n + 1) - 1) : h[1 .. (k + 1)] = Apply(h[1 .. k], r[k + 1])
    <3> DEFINE m == n + 1
    <3>1. IterOf(base, r, m, h) /\ m \in Nat
      BY <2>1
    <3> HIDE DEF m
    <3>2. h[{}] = base /\ \A k \in 0 .. (m - 1) : h[1 .. (k + 1)] = Apply(h[1 .. k], r[k + 1])
      BY <3>1, IterValue
    <3> QED BY <3>2 DEF m
  <2> QED BY <2>1, <2>2
<1>3. \A k \in 0 .. n : g[1 .. k] = h[1 .. k]
  <2> DEFINE Bad == {k \in 0 .. n : g[1 .. k] # h[1 .. k]}
  <2> SUFFICES ASSUME Bad # {} PROVE FALSE
    OBVIOUS
  <2>1. PICK m \in Bad : \A k \in Bad : m <= k
    <3>1. Bad \subseteq Nat
      OBVIOUS
    <3> HIDE DEF Bad
    <3> QED BY <3>1, LeastNat
  <2>2. m # 0
    <3>1. 1 .. 0 = {}
      OBVIOUS
    <3> QED BY <1>1, <1>2, <3>1
  <2> DEFINE k == m - 1
  <2>3. k \in 0 .. (n - 1) /\ k \in 0 .. n /\ k + 1 = m /\ k + 1 \in 1 .. n
    BY <2>2
  <2>4. k \notin Bad
    BY <2>1, <2>3
  <2> HIDE DEF k
  <2>5. g[1 .. k] = h[1 .. k]
    BY <2>3, <2>4
  <2>6. g[1 .. (k + 1)] = h[1 .. (k + 1)]
    BY <1>1, <1>2, <2>3, <2>5
  <2> QED
    BY <2>3, <2>6
<1> QED
  BY <1>2, <1>3

LEMMA AfterOne ==
  ASSUME NEW base, NEW S, NEW s \in Seq(S), NEW e \in S
  PROVE  After(base, Append(s, e)) = Apply(After(base, s), e)
<1> DEFINE n == Len(s)
           r == Append(s, e)
           g == CHOOSE g : IterOf(base, s, n, g)
           h == CHOOSE h : IterOf(base, r, n + 1, h)
<1>1. n \in Nat /\ DOMAIN s = 1 .. n /\ DOMAIN r = 1 .. (n + 1) /\ r[n + 1] = e
      /\ \A i \in 1 .. n : r[i] = s[i]
  OBVIOUS
<1> HIDE DEF n, r
<1>2. After(base, s) = g[1 .. n] /\ After(base, r) = h[1 .. (n + 1)]
  BY <1>1, AfterIsIter
<1>3. IterOf(base, s, n, g) /\ IterOf(base, r, n + 1, h)
  <2>1. n \in Nat /\ n + 1 \in Nat
    BY <1>1
  <2>2. (\E f : IterOf(base, s, n, f)) /\ (\E f : IterOf(base, r, n + 1, f))
    BY <2>1, IterExists
  <2> QED BY <2>2
<1> HIDE DEF g, h
<1> QED
  <2>1. h[1 .. (n + 1)] = Apply(g[1 .. n], r[n + 1])
    BY <1>1, <1>3, IterAgree
  <2>2. After(base, r) = Apply(After(base, s), e)
    BY <1>1, <1>2, <2>1
  <2> QED BY <2>2 DEF r

USE OrmAssumption DEF dbVars, sessionVars, callVars, Reads, Writes, MigrateCalls, Calls, Frames

----------------------------------------------------------------------------
(* The content of the database *)

\* An effect leaves a content of rows and columns; one on rows leaves the
\* columns, and one of Migrate the rows.
LEMMA ApplyType ==
  ASSUME NEW content \in Contents, NEW e \in Effects
  PROVE  Apply(content, e) \in Contents
<1>1. CASE e \in RowEffects
  <2>1. e.kind \in Writes /\ e.rows \in SUBSET Rows
    BY <1>1 DEF RowEffects
  <2>2. \A r \in Rows : RowAfter(content.rows[r], e) \in {"absent", "inserted", "updated"}
    BY DEF RowAfter
  <2>3. [r \in Rows |-> IF r \in e.rows THEN RowAfter(content.rows[r], e) ELSE content.rows[r]]
          \in [Rows -> {"absent", "inserted", "updated"}]
    BY <2>2 DEF Contents
  <2> QED
    BY <2>1, <2>3 DEF Apply, Contents
<1>2. CASE e \in TableEffects
  <2>1. e.kind \in {"AddColumn", "CreateTable", "Rebuild"}
        /\ (e.kind = "AddColumn" => e.column \in Model)
    BY <1>2 DEF TableEffects
  <2>2. content.columns \in Tables /\ Model \in Tables
    BY DEF Contents, Tables
  <2>3. (IF e.kind = "AddColumn" THEN content.columns \cup {e.column} ELSE Model) \in Tables
    BY <2>1, <2>2 DEF Tables
  <2> QED
    BY <2>1, <2>3 DEF Apply, Contents
<1> QED
  BY <1>1, <1>2 DEF Effects

LEMMA ApplyColumns ==
  ASSUME NEW content \in Contents, NEW e \in Effects
  PROVE  Apply(content, e).columns =
           CASE e.kind \in Writes -> content.columns
             [] e.kind = "AddColumn" -> content.columns \cup {e.column}
             [] OTHER -> Model
BY DEF Apply, Contents, Effects, RowEffects, TableEffects

\* Every content is one of rows and columns.
LEMMA ContentFacts ==
  ASSUME TypeInv, NEW c \in Callers
  PROVE  /\ View(c) \in Contents /\ View(c).columns \in Tables
         /\ db.columns \in Tables /\ work.columns \in Tables
BY DEF TypeInv, View, Contents

\* The end of a transaction: its locks are gone, and what it wrote is committed
\* only where nobody else reads, and then it is told so.
LEMMA EndFacts ==
  ASSUME IInv, NEW c \in Callers, NEW told \in {"err", "panic"},
         CommitOk(c) \/ CommitFails(c) \/ RollBack(c, told)
  PROVE  /\ tx[c] = "open" /\ tx' = [tx EXCEPT ![c] = "over"]
         /\ UNCHANGED <<did, refTable, where>>
         /\ db' \in Contents /\ work' \in Contents
         /\ readers' = readers \ {c} /\ writer' = IF writer = c THEN None ELSE writer
         /\ writer' = None => work' = db'
         /\ writer # c => db' = db /\ work' = work
         /\ \E r \in {"ok", "err", "panic"} : result' = [result EXCEPT ![c] = r]
         /\ \/ db' = db /\ result'[c] # "ok"
            \/ CommitOk(c) /\ db' = View(c) /\ (writer = c => readers = {c})
<1> USE DEF IInv, Close, Released
<1>1. CASE CommitOk(c)
  BY <1>1 DEF CommitOk, CanCommit, View, TypeInv, LockInv
<1>2. CASE CommitFails(c)
  BY <1>2 DEF CommitFails, TypeInv, LockInv
<1>3. CASE RollBack(c, told)
  BY <1>3 DEF RollBack, TypeInv, LockInv
<1> QED
  BY <1>1, <1>2, <1>3

\* The transactions of others see what they saw.
LEMMA EndInv ==
  ASSUME IInv, NEW c \in Callers, NEW told \in {"err", "panic"},
         CommitOk(c) \/ CommitFails(c) \/ RollBack(c, told)
  PROVE  /\ LockInv' /\ EffectsInv'
         /\ writer' \in readers' \cup {None} /\ readers' \in SUBSET Callers
         /\ tx' \in [Callers -> {"none", "open", "over"}]
         /\ result' \in [Callers -> {"none", "ok", "err", "panic"}]
         /\ \A d \in readers : d # c => d \in readers' /\ View(d)' = View(d)
<1> USE DEF IInv
<1>1. /\ tx[c] = "open" /\ tx' = [tx EXCEPT ![c] = "over"] /\ did' = did
      /\ readers' = readers \ {c} /\ writer' = IF writer = c THEN None ELSE writer
      /\ writer' = None => work' = db'
      /\ writer # c => db' = db /\ work' = work
      /\ \E r \in {"ok", "err", "panic"} : result' = [result EXCEPT ![c] = r]
      /\ db' = db \/ (writer = c => readers = {c})
  BY EndFacts
<1>2. /\ tx' \in [Callers -> {"none", "open", "over"}]
      /\ result' \in [Callers -> {"none", "ok", "err", "panic"}]
      /\ writer' \in readers' \cup {None} /\ readers' \in SUBSET Callers
  BY <1>1 DEF TypeInv
<1>3. LockInv'
  BY <1>1 DEF LockInv, TypeInv
<1>4. EffectsInv'
  <2> SUFFICES ASSUME NEW d \in Callers, tx'[d] = "open"
               PROVE  IF writer' = d THEN work' = After(db', did'[d]) ELSE did'[d] = <<>>
    BY DEF EffectsInv
  <2>1. d # c /\ tx[d] = "open"
    BY <1>1 DEF TypeInv
  <2>2. CASE writer = d
    BY <1>1, <2>1, <2>2 DEF EffectsInv, TypeInv
  <2>3. CASE writer # d
    BY <1>1, <2>1, <2>3 DEF EffectsInv, TypeInv
  <2> QED
    BY <2>2, <2>3
<1>5. \A d \in readers : d # c => d \in readers' /\ View(d)' = View(d)
  BY <1>1 DEF View, TypeInv
<1> QED
  BY <1>2, <1>3, <1>4, <1>5

\* A statement in a transaction: nobody else writes, and what it does comes last.
LEMMA WriteFacts ==
  ASSUME IInv, NEW c \in Callers, NEW e \in Effects, tx[c] = "open",
         WriteInTx(c, e), did' = [did EXCEPT ![c] = Append(@, e)], UNCHANGED tx
  PROVE  /\ db' = db /\ work' = Apply(View(c), e) /\ work' \in Contents
         /\ writer \in {c, None} /\ writer' = c
         /\ readers' = readers \cup {c} /\ readers' \in SUBSET Callers
         /\ did' \in [Callers -> Seq(Effects)]
         /\ LockInv' /\ EffectsInv'
         /\ \A d \in Callers : d # c => View(d)' = View(d)
<1> USE DEF IInv
<1>1. /\ db' = db /\ work' = Apply(View(c), e) /\ writer \in {c, None} /\ writer' = c
      /\ readers' = readers \cup {c}
  BY DEF WriteInTx
<1>2. work' \in Contents /\ readers' \in SUBSET Callers
  BY <1>1, ApplyType, ContentFacts DEF TypeInv
<1>3. did[c] \in Seq(Effects) /\ did'[c] = Append(did[c], e)
      /\ did' \in [Callers -> Seq(Effects)]
  BY DEF TypeInv
<1>4. LockInv'
  BY <1>1 DEF LockInv, TypeInv
<1>5. View(c) = After(db, did[c])
  BY <1>1, AfterNone DEF EffectsInv, View
<1>6. work' = After(db', did'[c])
  BY <1>1, <1>3, <1>5, AfterOne
<1>7. EffectsInv'
  BY <1>1, <1>6 DEF EffectsInv, TypeInv
<1>8. \A d \in Callers : d # c => View(d)' = View(d)
  BY <1>1 DEF View, LockInv
<1> QED
  BY <1>1, <1>2, <1>3, <1>4, <1>7, <1>8

\* A statement of Migrate in its transaction.
LEMMA AlterStep ==
  ASSUME IInv, NEW c \in Callers, NEW e \in TableEffects, Alter(c, e),
         NEW step \in {"AddColumn", "Rebuild", "Return"}, Goto(c, step),
         NEW known \in Tables, columns' = [columns EXCEPT ![c] = known],
         step # "Return" => known = Apply(View(c), e).columns,
         step = "Return" => Apply(View(c), e).columns = Model
  PROVE  IInv'
<1> USE DEF IInv
<1>a. /\ frame[c] = "migrate" /\ op[c] = e.kind /\ WriteInTx(c, e)
      /\ did' = [did EXCEPT ![c] = Append(@, e)] /\ op' = [op EXCEPT ![c] = step]
      /\ UNCHANGED <<tx, refTable, where, frame, hooked, calls, asked, result, ending>>
  BY DEF Alter, Migrating, Goto
<1>b. e \in Effects /\ tx[c] = "open" /\ op[c] \in MigrateCalls
  BY <1>a DEF FrameInv, FrameOf, Effects, TableEffects
<1>c. /\ db' = db /\ work' = Apply(View(c), e) /\ work' \in Contents
      /\ writer \in {c, None} /\ writer' = c
      /\ readers' = readers \cup {c} /\ readers' \in SUBSET Callers
      /\ did' \in [Callers -> Seq(Effects)]
      /\ LockInv' /\ EffectsInv'
      /\ \A d \in Callers : d # c => View(d)' = View(d)
  BY <1>a, <1>b, WriteFacts
<1>d. View(c)' = work' /\ op[c] # None /\ op[c] \notin HookUses /\ ending[c] = "none"
  BY <1>b, <1>c DEF View, FrameInv, FrameOf
<1>1. TypeInv'
  BY <1>a, <1>c DEF TypeInv
<1>2. LockInv'
  BY <1>c
<1>3. FrameInv'
  BY <1>a, <1>b, <1>d DEF FrameInv, FrameOf, TypeInv
<1>4. WhereInv'
  BY <1>a, <1>d DEF WhereInv, TypeInv
<1>5. MigrateInv'
  BY <1>a, <1>c, <1>d DEF MigrateInv, TypeInv
<1>6. ColumnsInv'
  BY <1>a, <1>c DEF ColumnsInv, MigratedHasModel
<1>7. EffectsInv'
  BY <1>c
<1> QED
  BY <1>1, <1>2, <1>3, <1>4, <1>5, <1>6, <1>7

\* The next thing to do with columns: it is done when they are those of the model.
LEMMA NextStepFacts ==
  ASSUME NEW known
  PROVE  /\ NextStep(known) \in {"AddColumn", "Rebuild", "Return"}
         /\ NextStep(known) = "Return" => known = Model
BY DEF NextStep, Added, Dropped

----------------------------------------------------------------------------
(* The steps *)

\* A session of one's own.
LEMMA NewSessionStep ==
  ASSUME IInv, NEW c \in Callers, NewSession(c)
  PROVE  IInv'
<1> USE DEF IInv, NewSession
<1>1. TypeInv'
  BY DEF TypeInv
<1>2. LockInv'
  BY DEF LockInv, TypeInv
<1>3. FrameInv'
  BY DEF FrameInv, FrameOf, TypeInv
<1>4. WhereInv'
  BY DEF WhereInv, TypeInv, FrameInv, FrameOf
<1>5. MigrateInv'
  BY DEF MigrateInv, TypeInv, FrameInv, FrameOf, LockInv, View
<1>6. ColumnsInv'
  BY DEF ColumnsInv, MigratedHasModel, TypeInv, FrameInv, FrameOf, LockInv
<1>7. EffectsInv'
  BY DEF EffectsInv, TypeInv, FrameInv, FrameOf, LockInv
<1> QED
  BY <1>1, <1>2, <1>3, <1>4, <1>5, <1>6, <1>7

\* A transaction begins, or cannot.
LEMMA TransactionStep ==
  ASSUME IInv, NEW c \in Callers, NEW f \in {"transaction", "migrate"}, Transaction(c, f)
  PROVE  IInv'
<1> USE DEF IInv, Transaction, Begin
<1>a. /\ tx[c] = "none" /\ op[c] = None /\ ending[c] = "none" /\ ~hooked[c]
      /\ c \notin readers /\ writer # c
  <2>1. frame[c] = "none"
    OBVIOUS
  <2> HIDE DEF Transaction
  <2>2. tx[c] = "none" /\ op[c] = None /\ ending[c] = "none"
    BY <2>1 DEF FrameInv, FrameOf
  <2>3. ~hooked[c]
    BY <2>2 DEF FrameInv, FrameOf
  <2>4. c \notin readers
    BY <2>2 DEF LockInv
  <2> QED
    BY <2>2, <2>3, <2>4 DEF TypeInv
<1>b. \/ /\ tx' = [tx EXCEPT ![c] = "open"]
         /\ did' = [did EXCEPT ![c] = <<>>]
         /\ result' = [result EXCEPT ![c] = "none"]
         /\ frame' = [frame EXCEPT ![c] = f]
         /\ op' = [op EXCEPT ![c] = IF f = "migrate" THEN "HasTable" ELSE None]
      \/ /\ result' = [result EXCEPT ![c] = "err"]
         /\ frame' = [frame EXCEPT ![c] = "done"]
         /\ UNCHANGED <<tx, did, op>>
  OBVIOUS
<1>c. UNCHANGED <<dbVars, refTable, where, columns, hooked, ending, calls, asked>>
  OBVIOUS
<1>1. TypeInv'
  <2>1. (IF f = "migrate" THEN "HasTable" ELSE None) \in Calls \cup {None}
    OBVIOUS
  <2>2. op' \in [Callers -> Calls \cup {None}]
    BY <1>b, <2>1 DEF TypeInv
  <2> HIDE DEF Transaction
  <2>3. /\ frame' \in [Callers -> Frames] /\ tx' \in [Callers -> {"none", "open", "over"}]
        /\ result' \in [Callers -> {"none", "ok", "err", "panic"}]
    <3>1. /\ f \in Frames /\ "done" \in Frames
          /\ \E v \in Frames : frame' = [frame EXCEPT ![c] = v]
      BY <1>b
    <3>2. \E v \in {"none", "ok", "err", "panic"} : result' = [result EXCEPT ![c] = v]
      BY <1>b
    <3>3. frame' \in [Callers -> Frames]
      BY <3>1 DEF TypeInv
    <3>4. result' \in [Callers -> {"none", "ok", "err", "panic"}]
      BY <3>2 DEF TypeInv
    <3>5. tx' \in [Callers -> {"none", "open", "over"}]
      BY <1>b DEF TypeInv
    <3> QED BY <3>3, <3>4, <3>5
  <2>4. did' \in [Callers -> Seq(Effects)]
    <3>1. did \in [Callers -> Seq(Effects)] /\ <<>> \in Seq(Effects)
      BY DEF TypeInv
    <3> QED BY <1>b, <3>1
  <2> QED
    BY <1>c, <2>2, <2>3, <2>4 DEF TypeInv
<1>2. LockInv'
  BY DEF LockInv, TypeInv
<1>3. FrameInv'
  <2> SUFFICES ASSUME NEW d \in Callers PROVE FrameOf(d)'
    BY DEF FrameInv
  <2>1. CASE d = c
    <3> HIDE DEF Transaction
    <3> QED
      BY <1>a, <1>b, <1>c, <2>1 DEF FrameInv, FrameOf, TypeInv
  <2>2. CASE d # c
    BY <1>b, <1>c, <2>2 DEF FrameInv, FrameOf, TypeInv
  <2> QED
    BY <2>1, <2>2
<1>4. WhereInv'
  <2> SUFFICES ASSUME NEW d \in Callers, op'[d] \notin HookUses PROVE where'[d] = asked'[d]
    BY DEF WhereInv
  <2>1. op[d] \notin HookUses
    <3>1. op[c] = None /\ op \in [Callers -> Calls \cup {None}]
      BY <1>a DEF TypeInv
    <3>2. None \notin HookUses
      BY OrmAssumption DEF Calls, Reads, Writes
    <3> HIDE DEF IInv, Transaction
    <3>3. d # c => op'[d] = op[d]
      BY <1>b, <3>1
    <3> QED
      BY <3>1, <3>2, <3>3
  <2> QED
    BY <1>c, <2>1 DEF WhereInv
<1>5. MigrateInv'
  BY DEF MigrateInv, TypeInv, FrameInv, FrameOf, LockInv, View
<1>6. ColumnsInv'
  <2>1. writer # None => frame'[writer] = frame[writer]
    BY <1>a, <1>b DEF TypeInv
  <2>2. \A d \in Callers : frame'[d] = "migrated" => frame[d] = "migrated" /\ result'[d] = result[d]
    BY <1>a, <1>b DEF TypeInv
  <2> HIDE DEF Transaction
  <2> QED
    BY <1>c, <2>1, <2>2 DEF ColumnsInv, MigratedHasModel
<1>7. EffectsInv'
  BY DEF EffectsInv, TypeInv, FrameInv, FrameOf, LockInv
<1> QED
  BY <1>1, <1>2, <1>3, <1>4, <1>5, <1>6, <1>7

\* A model is given.
LEMMA SetModelStep ==
  ASSUME IInv, NEW c \in Callers, SetModel(c)
  PROVE  IInv'
<1> USE DEF IInv, SetModel, Ready
<1>1. TypeInv'
  BY DEF TypeInv
<1>2. LockInv'
  BY DEF LockInv, TypeInv
<1>3. FrameInv'
  BY DEF FrameInv, FrameOf, TypeInv
<1>4. WhereInv'
  BY DEF WhereInv, TypeInv, FrameInv, FrameOf
<1>5. MigrateInv'
  BY DEF MigrateInv, TypeInv, FrameInv, FrameOf, LockInv, View
<1>6. ColumnsInv'
  BY DEF ColumnsInv, MigratedHasModel, TypeInv, FrameInv, FrameOf, LockInv
<1>7. EffectsInv'
  BY DEF EffectsInv, TypeInv, FrameInv, FrameOf, LockInv
<1> QED
  BY <1>1, <1>2, <1>3, <1>4, <1>5, <1>6, <1>7

\* A condition is given.
LEMMA WhereStep ==
  ASSUME IInv, NEW c \in Callers, Where(c)
  PROVE  IInv'
<1> USE DEF IInv, Where, Ready
<1>1. TypeInv'
  BY DEF TypeInv
<1>2. LockInv'
  BY DEF LockInv, TypeInv
<1>3. FrameInv'
  BY DEF FrameInv, FrameOf, TypeInv
<1>4. WhereInv'
  BY DEF WhereInv, TypeInv, FrameInv, FrameOf
<1>5. MigrateInv'
  BY DEF MigrateInv, TypeInv, FrameInv, FrameOf, LockInv, View
<1>6. ColumnsInv'
  BY DEF ColumnsInv, MigratedHasModel, TypeInv, FrameInv, FrameOf, LockInv
<1>7. EffectsInv'
  BY DEF EffectsInv, TypeInv, FrameInv, FrameOf, LockInv
<1> QED
  BY <1>1, <1>2, <1>3, <1>4, <1>5, <1>6, <1>7

\* A statement is called.
LEMMA CallStep ==
  ASSUME IInv, NEW c \in Callers, NEW kind \in Reads \cup Writes, Call(c, kind)
  PROVE  IInv'
<1> USE DEF IInv, Call, MayCall, Ready
<1>a. op[c] = None /\ ending[c] = "none" /\ frame[c] \in {"session", "transaction"}
      /\ op' = [op EXCEPT ![c] = kind] /\ hooked' = [hooked EXCEPT ![c] = kind \in HookUses]
      /\ UNCHANGED <<tx, frame, ending, where, asked>>
  OBVIOUS
<1>b. hooked \in [Callers -> BOOLEAN] /\ op \in [Callers -> Calls \cup {None}]
  BY DEF TypeInv
<1>d. hooked'[c] => kind \in HookUses
  BY <1>a, <1>b, Zenon
<1>1. TypeInv'
  BY DEF TypeInv
<1>2. LockInv'
  BY DEF LockInv, TypeInv
<1>3. FrameInv'
  <2> SUFFICES ASSUME NEW d \in Callers PROVE FrameOf(d)'
    BY DEF FrameInv
  <2> HIDE DEF Call
  <2>1. CASE d = c
    BY <1>a, <1>b, <1>d, <2>1 DEF FrameInv, FrameOf
  <2>2. CASE d # c
    BY <1>a, <1>b, <2>2 DEF FrameInv, FrameOf
  <2> QED
    BY <2>1, <2>2
<1>4. WhereInv'
  <2> HIDE DEF Call
  <2> QED
    BY <1>a, <1>b DEF WhereInv
<1>5. MigrateInv'
  BY DEF MigrateInv, TypeInv, FrameInv, FrameOf, LockInv, View
<1>6. ColumnsInv'
  BY DEF ColumnsInv, MigratedHasModel, TypeInv, FrameInv, FrameOf, LockInv
<1>7. EffectsInv'
  BY DEF EffectsInv, TypeInv, FrameInv, FrameOf, LockInv
<1> QED
  BY <1>1, <1>2, <1>3, <1>4, <1>5, <1>6, <1>7

\* A statement panics for want of a model.
LEMMA CallWithoutModelStep ==
  ASSUME IInv, NEW c \in Callers, NEW kind \in Reads \cup Writes, CallWithoutModel(c, kind)
  PROVE  IInv'
<1> USE DEF IInv, CallWithoutModel, MayCall, Ready, Panics
<1>1. TypeInv'
  <2>1. /\ op' = [op EXCEPT ![c] = None]
        /\ frame' = frame \/ frame' = [frame EXCEPT ![c] = "done"]
        /\ ending' = ending \/ ending' = [ending EXCEPT ![c] = "panic"]
        /\ UNCHANGED <<dbVars, sessionVars, columns, hooked, calls, asked, did, result>>
    OBVIOUS
  <2> HIDE DEF CallWithoutModel, MayCall, Ready, Panics
  <2>2. frame' \in [Callers -> Frames]
    BY <2>1 DEF TypeInv, Frames
  <2>3. ending' \in [Callers -> {"none", "ok", "err", "panic"}]
    BY <2>1 DEF TypeInv
  <2>4. op' \in [Callers -> Calls \cup {None}]
    BY <2>1 DEF TypeInv
  <2> QED
    BY <2>1, <2>2, <2>3, <2>4 DEF TypeInv, dbVars, sessionVars
<1>2. LockInv'
  BY DEF LockInv, TypeInv
<1>3. FrameInv'
  BY DEF FrameInv, FrameOf, TypeInv
<1>4. WhereInv'
  BY DEF WhereInv, TypeInv, FrameInv, FrameOf
<1>5. MigrateInv'
  BY DEF MigrateInv, TypeInv, FrameInv, FrameOf, LockInv, View
<1>6. ColumnsInv'
  BY DEF ColumnsInv, MigratedHasModel, TypeInv, FrameInv, FrameOf, LockInv
<1>7. EffectsInv'
  BY DEF EffectsInv, TypeInv, FrameInv, FrameOf, LockInv
<1> QED
  BY <1>1, <1>2, <1>3, <1>4, <1>5, <1>6, <1>7

\* The hook clears the session.
LEMMA HookRunsStep ==
  ASSUME IInv, NEW c \in Callers, HookRuns(c)
  PROVE  IInv'
<1> USE DEF IInv, HookRuns, Cleared
<1>1. TypeInv'
  BY DEF TypeInv
<1>2. LockInv'
  BY DEF LockInv, TypeInv
<1>3. FrameInv'
  BY DEF FrameInv, FrameOf, TypeInv
<1>4. WhereInv'
  BY DEF WhereInv, TypeInv, FrameInv, FrameOf
<1>5. MigrateInv'
  BY DEF MigrateInv, TypeInv, FrameInv, FrameOf, LockInv, View
<1>6. ColumnsInv'
  BY DEF ColumnsInv, MigratedHasModel, TypeInv, FrameInv, FrameOf, LockInv
<1>7. EffectsInv'
  BY DEF EffectsInv, TypeInv, FrameInv, FrameOf, LockInv
<1> QED
  BY <1>1, <1>2, <1>3, <1>4, <1>5, <1>6, <1>7

\* A statement that reads.
LEMMA ReadStep ==
  ASSUME IInv, NEW c \in Callers, Read(c)
  PROVE  IInv'
<1> USE DEF IInv, Read, Executed, UsesTx, Cleared
<1>1. TypeInv'
  BY DEF TypeInv
<1>2. LockInv'
  BY DEF LockInv, TypeInv
<1>3. FrameInv'
  BY DEF FrameInv, FrameOf, TypeInv
<1>4. WhereInv'
  BY DEF WhereInv, TypeInv, FrameInv, FrameOf
<1>5. MigrateInv'
  BY DEF MigrateInv, TypeInv, FrameInv, FrameOf, LockInv, View
<1>6. ColumnsInv'
  BY DEF ColumnsInv, MigratedHasModel, TypeInv, FrameInv, FrameOf, LockInv
<1>7. EffectsInv'
  BY DEF EffectsInv, TypeInv, FrameInv, FrameOf, LockInv
<1> QED
  BY <1>1, <1>2, <1>3, <1>4, <1>5, <1>6, <1>7

\* A statement that writes, in a transaction or in none.
LEMMA WriteStep ==
  ASSUME IInv, NEW c \in Callers, Write(c)
  PROVE  IInv'
<1> USE DEF IInv, Write, Executed, UsesTx, Cleared
<1>a. PICK e \in Effect(c) :
        \/ tx[c] = "open" /\ WriteInTx(c, e) /\ did' = [did EXCEPT ![c] = Append(@, e)]
        \/ tx[c] = "none" /\ WriteAlone(e) /\ UNCHANGED did
  BY DEF TypeInv
<1>b. e \in Effects /\ e.kind \in Writes
  BY DEF Effect, Effects, RowEffects
<1>c. /\ op[c] \in Writes /\ ~hooked[c] /\ op' = [op EXCEPT ![c] = None]
      /\ where' = [where EXCEPT ![c] = None] /\ asked' = [asked EXCEPT ![c] = None]
      /\ refTable' = [refTable EXCEPT ![c] = @ \/ op[c] = "Insert"]
      /\ UNCHANGED <<tx, frame, columns, hooked, ending, calls, result>>
  OBVIOUS
<1> HIDE DEF Write
<1>d. /\ db' \in Contents /\ work' \in Contents /\ readers' \in SUBSET Callers
      /\ writer' \in readers' \cup {None} /\ did' \in [Callers -> Seq(Effects)]
      /\ LockInv' /\ EffectsInv'
      /\ db'.columns = db.columns /\ readers \subseteq readers'
      /\ \A d \in readers : View(d)'.columns = View(d).columns
      /\ writer' # None /\ frame[writer'] # "migrate" => work'.columns = db'.columns
  <2>1. CASE /\ tx[c] = "open" /\ WriteInTx(c, e)
             /\ did' = [did EXCEPT ![c] = Append(@, e)]
    <3>1. /\ db' = db /\ work' = Apply(View(c), e) /\ work' \in Contents
          /\ writer \in {c, None} /\ writer' = c
          /\ readers' = readers \cup {c} /\ readers' \in SUBSET Callers
          /\ did' \in [Callers -> Seq(Effects)]
          /\ LockInv' /\ EffectsInv'
          /\ \A d \in Callers : d # c => View(d)' = View(d)
      BY <1>b, <1>c, <2>1, WriteFacts
    <3>2. work'.columns = View(c).columns
      BY <1>b, <3>1, ApplyColumns, ContentFacts
    <3>3. View(c)' = work' /\ db \in Contents
      BY <3>1 DEF View, TypeInv
    <3>4. frame[c] # "migrate"
      BY <1>c DEF FrameInv, FrameOf
    <3>5. View(c).columns = db.columns
      BY <3>1, <3>4 DEF ColumnsInv, View
    <3> QED
      BY <3>1, <3>2, <3>3, <3>5 DEF TypeInv
  <2>2. CASE tx[c] = "none" /\ WriteAlone(e) /\ UNCHANGED did
    <3>1. /\ writer = None /\ readers = {} /\ writer' = None /\ readers' = {}
          /\ db' = Apply(db, e) /\ work' = db' /\ did' = did
      BY <2>2 DEF WriteAlone
    <3>2. db' \in Contents /\ db'.columns = db.columns
      BY <1>b, <3>1, ApplyType, ApplyColumns DEF TypeInv
    <3>3. LockInv'
      BY <3>1 DEF LockInv
    <3>4. EffectsInv'
      BY <1>c, <3>1 DEF EffectsInv, TypeInv
    <3> QED
      BY <3>1, <3>2, <3>3, <3>4 DEF TypeInv
  <2> QED
    BY <1>a, <2>1, <2>2
<1>1. TypeInv'
  <2>1. /\ op' \in [Callers -> Calls \cup {None}]
        /\ where' \in [Callers -> Wheres \cup {None}] /\ asked' \in [Callers -> Wheres \cup {None}]
    BY <1>c DEF TypeInv
  <2>2. refTable' \in [Callers -> BOOLEAN]
    BY <1>c DEF TypeInv
  <2> QED
    BY <1>c, <1>d, <2>1, <2>2 DEF TypeInv
<1>2. LockInv'
  BY <1>d
<1>3. FrameInv'
  BY <1>c DEF FrameInv, FrameOf, TypeInv
<1>4. WhereInv'
  BY <1>c DEF WhereInv, TypeInv
<1>5. MigrateInv'
  <2> SUFFICES ASSUME NEW d \in Callers
               PROVE  /\ op'[d] \in {"AddColumn", "Rebuild"}
                           => d \in readers' /\ columns'[d] = View(d)'.columns
                      /\ op'[d] = "Return" \/ (frame'[d] = "migrate" /\ ending'[d] = "ok")
                           => d \in readers' /\ View(d)'.columns = Model
    BY DEF MigrateInv
  <2>1. op'[d] \in {"AddColumn", "Rebuild", "Return"} => op'[d] = op[d]
    BY <1>c DEF TypeInv
  <2>2. d \in readers => d \in readers' /\ View(d)'.columns = View(d).columns
    BY <1>d
  <2> QED
    BY <1>c, <2>1, <2>2 DEF MigrateInv
<1>6. ColumnsInv'
  BY <1>c, <1>d DEF ColumnsInv, MigratedHasModel
<1>7. EffectsInv'
  BY <1>d
<1> QED
  BY <1>1, <1>2, <1>3, <1>4, <1>5, <1>6, <1>7

\* A statement fails.
LEMMA StatementFailsStep ==
  ASSUME IInv, NEW c \in Callers, StatementFails(c)
  PROVE  IInv'
<1> USE DEF IInv, StatementFails, Executed, Cleared
<1>1. TypeInv'
  BY DEF TypeInv
<1>2. LockInv'
  BY DEF LockInv, TypeInv
<1>3. FrameInv'
  BY DEF FrameInv, FrameOf, TypeInv
<1>4. WhereInv'
  BY DEF WhereInv, TypeInv, FrameInv, FrameOf
<1>5. MigrateInv'
  BY DEF MigrateInv, TypeInv, FrameInv, FrameOf, LockInv, View
<1>6. ColumnsInv'
  BY DEF ColumnsInv, MigratedHasModel, TypeInv, FrameInv, FrameOf, LockInv
<1>7. EffectsInv'
  BY DEF EffectsInv, TypeInv, FrameInv, FrameOf, LockInv
<1> QED
  BY <1>1, <1>2, <1>3, <1>4, <1>5, <1>6, <1>7

\* A session begins a transaction.
LEMMA SessionBeginStep ==
  ASSUME IInv, NEW c \in Callers, SessionBegin(c)
  PROVE  IInv'
<1> USE DEF IInv, SessionBegin, MayCall, Ready, Begin
<1>1. TypeInv'
  BY DEF TypeInv
<1>2. LockInv'
  BY DEF LockInv, TypeInv
<1>3. FrameInv'
  BY DEF FrameInv, FrameOf, TypeInv
<1>4. WhereInv'
  BY DEF WhereInv, TypeInv, FrameInv, FrameOf
<1>5. MigrateInv'
  BY DEF MigrateInv, TypeInv, FrameInv, FrameOf, LockInv, View
<1>6. ColumnsInv'
  BY DEF ColumnsInv, MigratedHasModel, TypeInv, FrameInv, FrameOf, LockInv
<1>7. EffectsInv'
  BY DEF EffectsInv, TypeInv, FrameInv, FrameOf, LockInv
<1> QED
  BY <1>1, <1>2, <1>3, <1>4, <1>5, <1>6, <1>7

\* A session cannot begin one.
LEMMA SessionBeginFailsStep ==
  ASSUME IInv, NEW c \in Callers, SessionBeginFails(c)
  PROVE  IInv'
<1> USE DEF IInv, SessionBeginFails, MayCall, Ready
<1>1. TypeInv'
  BY DEF TypeInv
<1>2. LockInv'
  BY DEF LockInv, TypeInv
<1>3. FrameInv'
  BY DEF FrameInv, FrameOf, TypeInv
<1>4. WhereInv'
  BY DEF WhereInv, TypeInv, FrameInv, FrameOf
<1>5. MigrateInv'
  BY DEF MigrateInv, TypeInv, FrameInv, FrameOf, LockInv, View
<1>6. ColumnsInv'
  BY DEF ColumnsInv, MigratedHasModel, TypeInv, FrameInv, FrameOf, LockInv
<1>7. EffectsInv'
  BY DEF EffectsInv, TypeInv, FrameInv, FrameOf, LockInv
<1> QED
  BY <1>1, <1>2, <1>3, <1>4, <1>5, <1>6, <1>7

\* A session ends its transaction.
LEMMA SessionEndsStep ==
  ASSUME IInv, NEW c \in Callers, SessionEnds(c)
  PROVE  IInv'
<1> USE DEF IInv, SessionEnds, Ready
<1>a. PICK told \in {"err", "panic"} :
        CommitOk(c) \/ CommitFails(c) \/ RollBack(c, told)
  BY DEF TypeInv
<1>b. /\ tx[c] = "open" /\ tx' = [tx EXCEPT ![c] = "over"]
      /\ UNCHANGED <<did, refTable, where>>
      /\ db' \in Contents /\ work' \in Contents
      /\ readers' = readers \ {c} /\ writer' = IF writer = c THEN None ELSE writer
      /\ writer' = None => work' = db'
      /\ writer # c => db' = db /\ work' = work
      /\ \E r \in {"ok", "err", "panic"} : result' = [result EXCEPT ![c] = r]
      /\ \/ db' = db /\ result'[c] # "ok"
         \/ CommitOk(c) /\ db' = View(c) /\ (writer = c => readers = {c})
  BY <1>a, EndFacts
<1>c. /\ LockInv' /\ EffectsInv'
      /\ writer' \in readers' \cup {None} /\ readers' \in SUBSET Callers
      /\ tx' \in [Callers -> {"none", "open", "over"}]
      /\ result' \in [Callers -> {"none", "ok", "err", "panic"}]
      /\ \A d \in readers : d # c => d \in readers' /\ View(d)' = View(d)
  BY <1>a, EndInv
<1>1. TypeInv'
  BY <1>b, <1>c DEF TypeInv
<1>2. LockInv'
  BY <1>c
<1>3. FrameInv'
  BY <1>b DEF FrameInv, FrameOf, TypeInv
<1>4. WhereInv'
  BY <1>b DEF WhereInv, TypeInv
<1>5. MigrateInv'
  BY <1>b, <1>c DEF MigrateInv, TypeInv, FrameInv, FrameOf
<1>6. ColumnsInv'
  BY <1>b, <1>c DEF ColumnsInv, MigratedHasModel, MigrateInv, TypeInv, FrameInv, FrameOf, LockInv, View
<1>7. EffectsInv'
  BY <1>c
<1> QED
  BY <1>1, <1>2, <1>3, <1>4, <1>5, <1>6, <1>7

\* The function given to Transaction returns or panics.
LEMMA FunctionEndsStep ==
  ASSUME IInv, NEW c \in Callers, FunctionEnds(c)
  PROVE  IInv'
<1> USE DEF IInv, FunctionEnds, Ready
<1>1. TypeInv'
  BY DEF TypeInv
<1>2. LockInv'
  BY DEF LockInv, TypeInv
<1>3. FrameInv'
  BY DEF FrameInv, FrameOf, TypeInv
<1>4. WhereInv'
  BY DEF WhereInv, TypeInv, FrameInv, FrameOf
<1>5. MigrateInv'
  BY DEF MigrateInv, TypeInv, FrameInv, FrameOf, LockInv, View
<1>6. ColumnsInv'
  BY DEF ColumnsInv, MigratedHasModel, TypeInv, FrameInv, FrameOf, LockInv
<1>7. EffectsInv'
  BY DEF EffectsInv, TypeInv, FrameInv, FrameOf, LockInv
<1> QED
  BY <1>1, <1>2, <1>3, <1>4, <1>5, <1>6, <1>7

\* The deferred function ends the transaction.
LEMMA DeferredStep ==
  ASSUME IInv, NEW c \in Callers, Deferred(c)
  PROVE  IInv'
<1> USE DEF IInv, Deferred
<1>a. PICK told \in {"err", "panic"} :
        CommitOk(c) \/ CommitFails(c) \/ RollBack(c, told)
  <2>1. ending[c] \in {"ok", "err", "panic"}
    BY DEF TypeInv
  <2>2. ~Commits(ending[c]) => ending[c] \in {"err", "panic"}
    BY <2>1 DEF Commits
  <2> QED
    BY <2>2
<1>b. /\ tx[c] = "open" /\ tx' = [tx EXCEPT ![c] = "over"]
      /\ UNCHANGED <<did, refTable, where>>
      /\ db' \in Contents /\ work' \in Contents
      /\ readers' = readers \ {c} /\ writer' = IF writer = c THEN None ELSE writer
      /\ writer' = None => work' = db'
      /\ writer # c => db' = db /\ work' = work
      /\ \E r \in {"ok", "err", "panic"} : result' = [result EXCEPT ![c] = r]
      /\ \/ db' = db /\ result'[c] # "ok"
         \/ CommitOk(c) /\ db' = View(c) /\ (writer = c => readers = {c})
  BY <1>a, EndFacts
<1>c. /\ LockInv' /\ EffectsInv'
      /\ writer' \in readers' \cup {None} /\ readers' \in SUBSET Callers
      /\ tx' \in [Callers -> {"none", "open", "over"}]
      /\ result' \in [Callers -> {"none", "ok", "err", "panic"}]
      /\ \A d \in readers : d # c => d \in readers' /\ View(d)' = View(d)
  BY <1>a, EndInv
<1>1. TypeInv'
  BY <1>b, <1>c DEF TypeInv
<1>2. LockInv'
  BY <1>c
<1>3. FrameInv'
  BY <1>b DEF FrameInv, FrameOf, TypeInv
<1>4. WhereInv'
  BY <1>b DEF WhereInv, TypeInv
<1>5. MigrateInv'
  BY <1>b, <1>c DEF MigrateInv, TypeInv, FrameInv, FrameOf
<1>6. ColumnsInv'
  <2>1. frame[c] \in {"transaction", "migrate"} /\ op[c] = None
        /\ frame' = [frame EXCEPT ![c] = IF @ = "migrate" THEN "migrated" ELSE "done"]
    BY DEF FrameInv, FrameOf
  <2>2. CommitOk(c) => ending[c] = "ok"
    <3>1. CASE Commits(ending[c])
      BY <3>1 DEF Commits
    <3>2. CASE ~Commits(ending[c])
      <4>1. RollBack(c, ending[c]) /\ ending[c] # "ok"
        BY <3>2 DEF Commits
      <4> HIDE DEF Deferred
      <4>2. result'[c] # "ok"
        BY <4>1 DEF RollBack, TypeInv
      <4>3. CommitOk(c) => result'[c] = "ok"
        BY DEF CommitOk, TypeInv
      <4> QED BY <4>2, <4>3
    <3> QED BY <3>1, <3>2
  <2>3. writer' # None /\ frame'[writer'] # "migrate" => work'.columns = db'.columns
    BY <1>b, <2>1 DEF ColumnsInv, TypeInv
  <2>4. MigratedHasModel'
    <3> SUFFICES ASSUME NEW d \in Callers, frame'[d] = "migrated", result'[d] = "ok"
                 PROVE  db'.columns = Model
      BY DEF MigratedHasModel
    <3>1. d # c => frame[d] = "migrated" /\ result[d] = "ok"
      BY <1>b, <2>1 DEF TypeInv
    <3>2. CASE db' = db /\ result'[c] # "ok"
      BY <3>1, <3>2 DEF ColumnsInv, MigratedHasModel
    <3>3. CASE CommitOk(c) /\ db' = View(c)
      <4>1. CASE frame[c] = "migrate"
        BY <2>2, <3>3, <4>1 DEF MigrateInv
      <4>2. CASE frame[c] = "transaction"
        <5>1. d # c
          BY <2>1, <4>2 DEF TypeInv
        <5>2. View(c).columns = db.columns
          BY <4>2 DEF ColumnsInv, View
        <5> QED
          BY <3>1, <3>3, <5>1, <5>2 DEF ColumnsInv, MigratedHasModel
      <4> QED
        BY <2>1, <4>1, <4>2
    <3> QED
      BY <1>b, <3>2, <3>3
  <2> QED
    BY <2>3, <2>4 DEF ColumnsInv
<1>7. EffectsInv'
  BY <1>c
<1> QED
  BY <1>1, <1>2, <1>3, <1>4, <1>5, <1>6, <1>7

\* Migrate asks for the table.
LEMMA HasTableStep ==
  ASSUME IInv, NEW c \in Callers, HasTable(c)
  PROVE  IInv'
<1> USE DEF IInv, HasTable, Migrating, Reading, Goto
<1>a. op[c] \in {"HasTable", "Columns"} /\ op[c] \in MigrateCalls
  OBVIOUS
<1>b. frame[c] = "migrate" /\ tx[c] = "open"
  BY <1>a DEF FrameInv, FrameOf
<1>1. TypeInv'
  <2>1. /\ \E v \in {"CreateTable", "Columns"} : op' = [op EXCEPT ![c] = v]
        /\ readers' \in {readers, readers \cup {c}}
        /\ UNCHANGED <<db, writer, work, sessionVars, columns, frame, hooked, ending, calls,
                       asked, did, result>>
    BY <1>b
  <2> HIDE DEF HasTable
  <2>2. op' \in [Callers -> Calls \cup {None}]
    BY <2>1 DEF TypeInv, Calls, MigrateCalls
  <2> QED
    BY <2>1, <2>2 DEF TypeInv
<1>2. LockInv'
  BY <1>b DEF LockInv, TypeInv
<1>3. FrameInv'
  BY DEF FrameInv, FrameOf, TypeInv
<1>4. WhereInv'
  <2>1. /\ UNCHANGED <<where, asked>>
        /\ \A d \in Callers : d # c => op'[d] = op[d]
    BY DEF TypeInv
  <2>2. op[c] \notin HookUses
    BY <1>a, OrmAssumption DEF MigrateCalls
  <2> HIDE DEF HasTable
  <2> QED
    BY <2>1, <2>2 DEF WhereInv
<1>5. MigrateInv'
  BY DEF MigrateInv, TypeInv, FrameInv, FrameOf, LockInv, View
<1>6. ColumnsInv'
  BY DEF ColumnsInv, MigratedHasModel, TypeInv, FrameInv, FrameOf, LockInv
<1>7. EffectsInv'
  BY DEF EffectsInv, TypeInv, FrameInv, FrameOf, LockInv
<1> QED
  BY <1>1, <1>2, <1>3, <1>4, <1>5, <1>6, <1>7

\* Migrate reads the columns.
LEMMA ColumnsStep ==
  ASSUME IInv, NEW c \in Callers, Columns(c)
  PROVE  IInv'
<1> USE DEF IInv, Columns, Migrating, Reading, Goto, Panics
<1>a. op[c] \in {"HasTable", "Columns"} /\ op[c] \in MigrateCalls
  OBVIOUS
<1>b. frame[c] = "migrate" /\ tx[c] = "open"
  BY <1>a DEF FrameInv, FrameOf
<1>c. View(c).columns \in Tables
  BY ContentFacts
<1>d. \/ /\ readers' = readers \cup {c} /\ UNCHANGED <<db, writer, work, did>>
         /\ columns' = [columns EXCEPT ![c] = View(c).columns]
         /\ op' = [op EXCEPT ![c] = NextStep(View(c).columns)] /\ UNCHANGED ending
      \/ /\ op' = [op EXCEPT ![c] = None] /\ ending' = [ending EXCEPT ![c] = "panic"]
         /\ UNCHANGED <<dbVars, columns, did>>
  BY <1>b
<1>e. UNCHANGED <<tx, refTable, where, frame, hooked, calls, asked, result>>
  BY <1>b
<1>f. ending[c] = "none" /\ ~hooked[c] /\ op[c] \notin HookUses
  BY <1>a DEF FrameInv, FrameOf
<1> HIDE DEF Columns
<1>g. NextStep(View(c).columns) \in {"AddColumn", "Rebuild", "Return"}
      /\ (NextStep(View(c).columns) = "Return" => View(c).columns = Model)
  BY NextStepFacts
<1>1. TypeInv'
  <2>1. op' \in [Callers -> Calls \cup {None}] /\ ending' \in [Callers -> {"none", "ok", "err", "panic"}]
    <3>1. \E v \in Calls \cup {None} : op' = [op EXCEPT ![c] = v]
      BY <1>d, <1>g
    <3>2. ending' = ending \/ ending' = [ending EXCEPT ![c] = "panic"]
      BY <1>d
    <3>3. op' \in [Callers -> Calls \cup {None}]
      BY <3>1 DEF TypeInv
    <3>4. ending' \in [Callers -> {"none", "ok", "err", "panic"}]
      BY <3>2 DEF TypeInv
    <3> QED BY <3>3, <3>4
  <2>2. columns' \in [Callers -> Tables] /\ readers' \in SUBSET Callers /\ readers \subseteq readers'
    BY <1>c, <1>d DEF TypeInv
  <2> QED
    BY <1>d, <1>e, <2>1, <2>2 DEF TypeInv
<1>2. LockInv'
  BY <1>b, <1>d, <1>e DEF LockInv
<1>3. FrameInv'
  <2> SUFFICES ASSUME NEW d \in Callers PROVE FrameOf(d)'
    BY DEF FrameInv
  <2>1. CASE d = c
    BY <1>a, <1>b, <1>d, <1>e, <1>f, <1>g, <2>1 DEF FrameInv, FrameOf, TypeInv
  <2>2. CASE d # c
    BY <1>d, <1>e, <2>2 DEF FrameInv, FrameOf, TypeInv
  <2> QED
    BY <2>1, <2>2
<1>4. WhereInv'
  <2> SUFFICES ASSUME NEW d \in Callers, op'[d] \notin HookUses PROVE where'[d] = asked'[d]
    BY DEF WhereInv
  <2>1. CASE d = c
    BY <1>e, <1>f, <2>1 DEF WhereInv
  <2>2. CASE d # c
    <3>1. op'[d] = op[d]
      BY <1>d, <2>2 DEF TypeInv
    <3> QED
      BY <1>e, <3>1 DEF WhereInv
  <2> QED
    BY <2>1, <2>2
<1>5. MigrateInv'
  <2>1. \A d \in Callers : View(d)' = View(d) /\ (d \in readers => d \in readers')
    BY <1>d DEF View
  <2> SUFFICES ASSUME NEW d \in Callers
               PROVE  /\ op'[d] \in {"AddColumn", "Rebuild"}
                           => d \in readers' /\ columns'[d] = View(d)'.columns
                      /\ op'[d] = "Return" \/ (frame'[d] = "migrate" /\ ending'[d] = "ok")
                           => d \in readers' /\ View(d)'.columns = Model
    BY DEF MigrateInv
  <2>2. CASE d = c
    BY <1>a, <1>d, <1>f, <1>g, <2>1, <2>2 DEF TypeInv
  <2>3. CASE d # c
    BY <1>d, <1>e, <2>1, <2>3 DEF MigrateInv, TypeInv
  <2> QED
    BY <2>2, <2>3
<1>6. ColumnsInv'
  BY <1>d, <1>e DEF ColumnsInv, MigratedHasModel
<1>7. EffectsInv'
  BY <1>d, <1>e DEF EffectsInv
<1> QED
  BY <1>1, <1>2, <1>3, <1>4, <1>5, <1>6, <1>7

\* Migrate creates the table.
LEMMA CreateTableStep ==
  ASSUME IInv, NEW c \in Callers, CreateTable(c)
  PROVE  IInv'
<1> DEFINE e == [kind |-> "CreateTable"]
<1>1. e \in TableEffects /\ e \in Effects
  BY DEF TableEffects, Effects
<1>2. Alter(c, e) /\ Goto(c, "Return") /\ columns' = columns
  BY DEF CreateTable
<1>3. columns[c] \in Tables /\ columns' = [columns EXCEPT ![c] = columns[c]]
  BY <1>2 DEF IInv, TypeInv
<1>4. Apply(View(c), e).columns = Model
  BY <1>1, ApplyColumns, ContentFacts DEF IInv
<1> HIDE DEF e
<1> QED
  BY <1>1, <1>2, <1>3, <1>4, AlterStep

\* Migrate adds a column.
LEMMA AddColumnStep ==
  ASSUME IInv, NEW c \in Callers, AddColumn(c)
  PROVE  IInv'
<1>1. PICK col \in Added(columns[c]) :
        /\ Alter(c, [kind |-> "AddColumn", column |-> col])
        /\ columns' = [columns EXCEPT ![c] = columns[c] \cup {col}]
        /\ Goto(c, NextStep(columns[c] \cup {col}))
  BY DEF AddColumn
<1> DEFINE e == [kind |-> "AddColumn", column |-> col]
           known == columns[c] \cup {col}
<1>2. col \in Model /\ e \in TableEffects /\ e \in Effects
  BY DEF Added, TableEffects, Effects
<1>3. known \in Tables
  BY <1>2 DEF IInv, TypeInv, Tables
<1>4. op[c] = "AddColumn"
  BY <1>1 DEF Alter
<1>5. Apply(View(c), e).columns = known
  <2>1. columns[c] = View(c).columns
    BY <1>4 DEF IInv, MigrateInv
  <2>2. Apply(View(c), e).columns = View(c).columns \cup {col}
    BY <1>2, ApplyColumns, ContentFacts DEF IInv
  <2> QED BY <2>1, <2>2
<1>6. Alter(c, e) /\ columns' = [columns EXCEPT ![c] = known] /\ Goto(c, NextStep(known))
  BY <1>1
<1> HIDE DEF e, known
<1>7. NextStep(known) \in {"AddColumn", "Rebuild", "Return"}
      /\ (NextStep(known) = "Return" => known = Model)
  BY NextStepFacts
<1> QED
  BY <1>2, <1>3, <1>5, <1>6, <1>7, AlterStep

\* Migrate rebuilds the table.
LEMMA RebuildStep ==
  ASSUME IInv, NEW c \in Callers, Rebuild(c)
  PROVE  IInv'
<1> DEFINE e == [kind |-> "Rebuild"]
<1>1. e \in TableEffects /\ e \in Effects
  BY DEF TableEffects, Effects
<1>2. Alter(c, e) /\ Goto(c, "Return") /\ columns' = columns
  BY DEF Rebuild
<1>3. columns[c] \in Tables /\ columns' = [columns EXCEPT ![c] = columns[c]]
  BY <1>2 DEF IInv, TypeInv
<1>4. Apply(View(c), e).columns = Model
  BY <1>1, ApplyColumns, ContentFacts DEF IInv
<1> HIDE DEF e
<1> QED
  BY <1>1, <1>2, <1>3, <1>4, AlterStep

\* Migrate is done.
LEMMA MigrateReturnsStep ==
  ASSUME IInv, NEW c \in Callers, NEW told \in {"ok", "err"}, MigrateReturns(c, told)
  PROVE  IInv'
<1> USE DEF IInv, MigrateReturns, Migrating
<1>1. TypeInv'
  BY DEF TypeInv
<1>2. LockInv'
  BY DEF LockInv, TypeInv
<1>3. FrameInv'
  BY DEF FrameInv, FrameOf, TypeInv
<1>4. WhereInv'
  BY DEF WhereInv, TypeInv, FrameInv, FrameOf
<1>5. MigrateInv'
  BY DEF MigrateInv, TypeInv, FrameInv, FrameOf, LockInv, View
<1>6. ColumnsInv'
  BY DEF ColumnsInv, MigratedHasModel, TypeInv, FrameInv, FrameOf, LockInv
<1>7. EffectsInv'
  BY DEF EffectsInv, TypeInv, FrameInv, FrameOf, LockInv
<1> QED
  BY <1>1, <1>2, <1>3, <1>4, <1>5, <1>6, <1>7

\* Nothing happens.
LEMMA StutterStep ==
  ASSUME IInv, UNCHANGED vars
  PROVE  IInv'
<1> USE DEF IInv, vars
<1>1. TypeInv'
  BY DEF TypeInv
<1>2. LockInv'
  BY DEF LockInv, TypeInv
<1>3. FrameInv'
  BY DEF FrameInv, FrameOf, TypeInv
<1>4. WhereInv'
  BY DEF WhereInv, TypeInv, FrameInv, FrameOf
<1>5. MigrateInv'
  BY DEF MigrateInv, TypeInv, FrameInv, FrameOf, LockInv, View
<1>6. ColumnsInv'
  BY DEF ColumnsInv, MigratedHasModel, TypeInv, FrameInv, FrameOf, LockInv
<1>7. EffectsInv'
  BY DEF EffectsInv, TypeInv, FrameInv, FrameOf, LockInv
<1> QED
  BY <1>1, <1>2, <1>3, <1>4, <1>5, <1>6, <1>7

----------------------------------------------------------------------------
(* The theorems *)

LEMMA InitInv == Init => IInv
<1> SUFFICES ASSUME Init PROVE IInv
  OBVIOUS
<1> USE DEF Init
<1>1. TypeInv
  <2>1. db \in Contents
    BY DEF Starts, Contents, Tables
  <2>2. NoTable \in Tables
    BY DEF NoTable, Tables
  <2>3. <<>> \in Seq(Effects)
    OBVIOUS
  <2> QED
    BY <2>1, <2>2, <2>3 DEF TypeInv
<1>2. LockInv
  BY DEF LockInv
<1>3. FrameInv
  BY DEF FrameInv, FrameOf
<1>4. WhereInv
  BY DEF WhereInv
<1>5. MigrateInv
  BY DEF MigrateInv
<1>6. ColumnsInv
  BY DEF ColumnsInv, MigratedHasModel
<1>7. EffectsInv
  BY DEF EffectsInv
<1> QED
  BY <1>1, <1>2, <1>3, <1>4, <1>5, <1>6, <1>7 DEF IInv

LEMMA NextInv == IInv /\ [Next]_vars => IInv'
<1> SUFFICES ASSUME IInv, [Next]_vars PROVE IInv'
  OBVIOUS
<1>1. CASE UNCHANGED vars
  BY <1>1, StutterStep
<1>2. CASE Next
  <2>1. PICK c \in Callers :
          \/ NewSession(c)
          \/ \E f \in {"transaction", "migrate"} : Transaction(c, f)
          \/ SetModel(c) \/ Where(c)
          \/ \E kind \in Reads \cup Writes : Call(c, kind) \/ CallWithoutModel(c, kind)
          \/ HookRuns(c)
          \/ Read(c) \/ Write(c) \/ StatementFails(c)
          \/ SessionBegin(c) \/ SessionBeginFails(c) \/ SessionEnds(c)
          \/ FunctionEnds(c) \/ Deferred(c)
          \/ HasTable(c) \/ Columns(c) \/ CreateTable(c)
          \/ AddColumn(c) \/ Rebuild(c)
          \/ \E told \in {"ok", "err"} : MigrateReturns(c, told)
    BY <1>2 DEF Next
  <2>2. CASE NewSession(c) \/ (\E f \in {"transaction", "migrate"} : Transaction(c, f))
             \/ SetModel(c) \/ Where(c)
    BY <2>2, NewSessionStep, TransactionStep, SetModelStep, WhereStep
  <2>3. CASE (\E kind \in Reads \cup Writes : Call(c, kind) \/ CallWithoutModel(c, kind))
             \/ HookRuns(c) \/ Read(c) \/ Write(c) \/ StatementFails(c)
    BY <2>3, CallStep, CallWithoutModelStep, HookRunsStep, ReadStep, WriteStep,
       StatementFailsStep
  <2>4. CASE SessionBegin(c) \/ SessionBeginFails(c) \/ SessionEnds(c)
             \/ FunctionEnds(c) \/ Deferred(c)
    BY <2>4, SessionBeginStep, SessionBeginFailsStep, SessionEndsStep, FunctionEndsStep,
       DeferredStep
  <2>5. CASE HasTable(c) \/ Columns(c) \/ CreateTable(c) \/ AddColumn(c) \/ Rebuild(c)
             \/ \E told \in {"ok", "err"} : MigrateReturns(c, told)
    BY <2>5, HasTableStep, ColumnsStep, CreateTableStep, AddColumnStep, RebuildStep,
       MigrateReturnsStep
  <2> QED
    BY <2>1, <2>2, <2>3, <2>4, <2>5
<1> QED
  BY <1>1, <1>2

\* The inductive invariant: who holds which lock, what a transaction has done to
\* what it sees, and what Migrate has read of the columns.
THEOREM IInvCorrect == Spec => []IInv
  BY InitInv, NextInv, PTL DEF Spec

\* The session and the database have their types, and every lock belongs to a
\* transaction that is open (geeorm.go:62-79).
THEOREM TypeCorrect == Spec => []TypeOK
<1>1. IInv => TypeOK
  <2> SUFFICES ASSUME IInv PROVE TypeOK
    OBVIOUS
  <2>1. readers \subseteq {c \in Callers : tx[c] = "open"}
    BY DEF IInv, LockInv, TypeInv
  <2>2. \A c \in Callers : hooked[c] => op[c] # None
    BY DEF IInv, FrameInv, FrameOf
  <2>3. \A c \in Callers : ending[c] # "none" => op[c] = None
    BY DEF IInv, FrameInv, FrameOf
  <2> QED
    BY <2>1, <2>2, <2>3 DEF IInv, TypeInv, LockInv, TypeOK
<1> QED
  BY <1>1, IInvCorrect, PTL

\* Unless a hook of Find, Update or Delete runs statements of its own, every
\* statement acts on the condition it was given, whatever failed before
\* (raw.go:41-88, record.go:28-115).
THEOREM StatementsObeyWhereCorrect ==
  ASSUME HookUses \cap {"Find", "Update", "Delete"} = {}
  PROVE  Spec => []StatementsObeyWhere
<1>1. IInv => StatementsObeyWhere
  BY DEF IInv, WhereInv, StatementsObeyWhere
<1> QED
  BY <1>1, IInvCorrect, PTL

\* A Migrate that reports no error has left the columns of the model, however
\* many migrate and write (geeorm.go:97-132).
THEOREM MigratedHasModelCorrect == Spec => []MigratedHasModel
<1>1. IInv => MigratedHasModel
  BY DEF IInv, ColumnsInv
<1> QED
  BY <1>1, IInvCorrect, PTL

----------------------------------------------------------------------------
(* The abstract specification *)

Open == [c \in Callers |-> tx[c] = "open"]

\* What happens to a transaction happens to it in the abstract specification.
LEMMA OpenOpens ==
  ASSUME NEW c \in Callers, tx \in [Callers -> {"none", "open", "over"}],
         NEW v \in {"none", "open", "over"}, tx' = [tx EXCEPT ![c] = v]
  PROVE  /\ Open' = [Open EXCEPT ![c] = (v = "open")]
         /\ (v = "open" <=> tx[c] = "open") => Open' = Open
<1>1. \A d \in Callers : tx'[d] = "open" <=> IF d = c THEN v = "open" ELSE tx[d] = "open"
  OBVIOUS
<1>2. [Open EXCEPT ![c] = (v = "open")] = [d \in Callers |-> IF d = c THEN v = "open" ELSE tx[d] = "open"]
  BY Zenon DEF Open
<1>3. Open' = [d \in Callers |-> IF d = c THEN v = "open" ELSE tx[d] = "open"]
  BY <1>1, Zenon DEF Open
<1>4. (v = "open" <=> tx[c] = "open") => \A d \in Callers : tx'[d] = "open" <=> tx[d] = "open"
  BY <1>1
<1>5. (v = "open" <=> tx[c] = "open") => Open' = Open
  BY <1>4, Zenon DEF Open
<1> QED
  BY <1>2, <1>3, <1>5

LEMMA BeginRefines ==
  ASSUME IInv, NEW c \in Callers, Begin(c), tx[c] # "open", UNCHANGED ending
  PROVE  Abstract!Begin(c)
<1>1. db' = db /\ did' = [did EXCEPT ![c] = <<>>] /\ result' = [result EXCEPT ![c] = "none"]
  BY DEF Begin
<1>2. tx' = [tx EXCEPT ![c] = "open"]
  BY DEF Begin
<1>3. Open' = [Open EXCEPT ![c] = TRUE]
  <2>1. Open' = [Open EXCEPT ![c] = ("open" = "open")]
    BY <1>2, OpenOpens DEF IInv, TypeInv
  <2> QED BY <2>1
<1>4. ~Open[c]
  BY DEF Open
<1> QED
  BY <1>1, <1>3, <1>4 DEF Abstract!Begin, Open

LEMMA DoRefines ==
  ASSUME IInv, NEW c \in Callers, NEW e \in Effects, tx[c] = "open", ending[c] = "none",
         did' = [did EXCEPT ![c] = Append(@, e)], UNCHANGED <<db, tx, ending, result>>
  PROVE  Abstract!Do(c)
<1>1. Open[c] /\ Open' = Open
  BY DEF Open
<1> QED
  BY <1>1 DEF Abstract!Do, Open

LEMMA CommitRefines ==
  ASSUME IInv, NEW c \in Callers, CommitOk(c), ending[c] \in {"none", "ok"},
         ending' = [ending EXCEPT ![c] = "none"]
  PROVE  Abstract!Commit(c)
<1>1. db' = View(c) /\ tx[c] = "open" /\ tx' = [tx EXCEPT ![c] = "over"]
      /\ result' = [result EXCEPT ![c] = "ok"] /\ did' = did
  BY DEF CommitOk, Close
<1>2. View(c) = After(db, did[c])
  BY <1>1, AfterNone DEF IInv, EffectsInv, View
<1>3. Open[c] /\ Open' = [Open EXCEPT ![c] = FALSE]
  <2>1. Open' = [Open EXCEPT ![c] = ("over" = "open")]
    BY <1>1, OpenOpens DEF IInv, TypeInv
  <2>2. Open[c]
    BY <1>1 DEF Open
  <2> QED BY <2>1, <2>2
<1>4. Abstract!Close(c, "ok")
  BY <1>1, <1>3 DEF Abstract!Close, Open
<1>5. After(db, did[c]) = Abstract!FoldLeft(Apply, db, did[c])
  BY DEF After, FoldLeft, MapThenFoldSet, Max,
         Abstract!FoldLeft, Abstract!MapThenFoldSet, Abstract!Max
<1> QED
  BY <1>1, <1>2, <1>4, <1>5 DEF Abstract!Commit

LEMMA AbortRefines ==
  ASSUME IInv, NEW c \in Callers, NEW told,
         (CommitFails(c) /\ told = "err") \/ RollBack(c, told),
         told = IF ending[c] = "panic" THEN "panic" ELSE "err",
         ending' = [ending EXCEPT ![c] = "none"]
  PROVE  Abstract!Abort(c)
<1>1. db' = db /\ tx[c] = "open" /\ tx' = [tx EXCEPT ![c] = "over"]
      /\ result' = [result EXCEPT ![c] = told] /\ did' = did
  BY DEF CommitFails, RollBack, Close
<1>2. Open[c] /\ Open' = [Open EXCEPT ![c] = FALSE]
  <2>1. Open' = [Open EXCEPT ![c] = ("over" = "open")]
    BY <1>1, OpenOpens DEF IInv, TypeInv
  <2>2. Open[c]
    BY <1>1 DEF Open
  <2> QED BY <2>1, <2>2
<1>3. result' = [result EXCEPT ![c] = IF ending[c] = "panic" THEN "panic" ELSE "err"]
  BY <1>1
<1>4. Abstract!Close(c, IF ending[c] = "panic" THEN "panic" ELSE "err")
  BY <1>1, <1>2, <1>3 DEF Abstract!Close, Open
<1> QED
  BY <1>1, <1>4 DEF Abstract!Abort

LEMMA RefuseRefines ==
  ASSUME IInv, NEW c \in Callers, tx[c] # "open", NEW v \in {"none", "over"},
         tx' = [tx EXCEPT ![c] = v], result' = [result EXCEPT ![c] = "err"],
         UNCHANGED <<db, did, ending>>
  PROVE  Abstract!Refuse(c)
<1>1. Open' = Open
  <2>1. v = "open" <=> tx[c] = "open"
    OBVIOUS
  <2> QED BY <2>1, OpenOpens DEF IInv, TypeInv
<1>2. ~Open[c]
  BY DEF Open
<1> QED
  BY <1>1, <1>2 DEF Abstract!Refuse, Open

LEMMA EndRefines ==
  ASSUME IInv, NEW c \in Callers, tx[c] = "open", ending[c] = "none",
         NEW how \in {"ok", "err", "panic"}, ending' = [ending EXCEPT ![c] = how],
         UNCHANGED <<db, tx, did, result>>
  PROVE  Abstract!End(c)
<1>1. Open[c] /\ Open' = Open
  BY DEF Open
<1> QED
  BY <1>1 DEF Abstract!End, Open

LEMMA AloneRefines ==
  ASSUME IInv, NEW c \in Callers, tx[c] = "none", NEW e \in Effects, db' = Apply(db, e),
         UNCHANGED <<tx, did, ending, result>>
  PROVE  Abstract!Alone(c)
<1>1. ~Open[c] /\ Open' = Open
  BY DEF Open
<1> QED
  BY <1>1 DEF Abstract!Alone, Open

LEMMA StutterRefines ==
  ASSUME UNCHANGED <<db, tx, did, ending, result>>
  PROVE  UNCHANGED Abstract!vars
BY DEF Abstract!vars

\* Each action is a step of the abstract specification, or none.
LEMMA CallRefines ==
  ASSUME IInv, NEW c \in Callers,
         \/ NewSession(c) \/ SetModel(c) \/ Where(c)
         \/ \E kind \in Reads \cup Writes : Call(c, kind)
         \/ HookRuns(c) \/ Read(c) \/ StatementFails(c)
  PROVE  UNCHANGED Abstract!vars
<1>1. UNCHANGED <<db, tx, did, ending, result>>
  BY DEF NewSession, SetModel, Where, Call, HookRuns, Read, StatementFails, Executed
<1> QED
  BY <1>1, StutterRefines

LEMMA PanicRefines ==
  ASSUME IInv, NEW c \in Callers, Panics(c), ending[c] = "none",
         frame[c] \in {"session", "transaction", "migrate"}
  PROVE  Abstract!End(c) \/ UNCHANGED Abstract!vars
<1>1. UNCHANGED <<db, tx, did, result>>
  BY DEF Panics
<1>2. CASE frame[c] = "session"
  <2>1. UNCHANGED ending
    BY <1>2 DEF Panics
  <2> QED BY <1>1, <2>1, StutterRefines
<1>3. CASE frame[c] # "session"
  <2>1. ending' = [ending EXCEPT ![c] = "panic"]
    BY <1>3 DEF Panics
  <2>2. tx[c] = "open"
    BY <1>3 DEF IInv, FrameInv, FrameOf
  <2> QED BY <1>1, <2>1, <2>2, EndRefines
<1> QED
  BY <1>2, <1>3

LEMMA TransactionRefines ==
  ASSUME IInv, NEW c \in Callers, NEW f \in {"transaction", "migrate"}, Transaction(c, f)
  PROVE  Abstract!Begin(c) \/ Abstract!Refuse(c)
<1>1. tx[c] = "none" /\ ending' = ending
  BY DEF IInv, FrameInv, FrameOf, Transaction
<1>2. CASE Begin(c)
  BY <1>1, <1>2, BeginRefines
<1>3. CASE result' = [result EXCEPT ![c] = "err"] /\ UNCHANGED <<dbVars, sessionVars, did>>
  <2>1. tx' = [tx EXCEPT ![c] = "none"] /\ UNCHANGED <<db, did>>
    BY <1>1, <1>3 DEF IInv, TypeInv
  <2> QED BY <1>1, <1>3, <2>1, RefuseRefines
<1> QED
  BY <1>2, <1>3 DEF Transaction

LEMMA WriteRefines ==
  ASSUME IInv, NEW c \in Callers, Write(c)
  PROVE  Abstract!Do(c) \/ Abstract!Alone(c)
<1>1. PICK e \in Effect(c) :
        \/ tx[c] = "open" /\ WriteInTx(c, e) /\ did' = [did EXCEPT ![c] = Append(@, e)]
        \/ tx[c] = "none" /\ WriteAlone(e) /\ UNCHANGED did
  BY DEF Write, UsesTx, IInv, TypeInv
<1>2. e \in Effects /\ UNCHANGED <<tx, ending, result>> /\ ending[c] = "none"
  BY DEF Effect, Effects, Write, Executed, IInv, FrameInv, FrameOf
<1>3. CASE tx[c] = "open" /\ WriteInTx(c, e) /\ did' = [did EXCEPT ![c] = Append(@, e)]
  BY <1>2, <1>3, DoRefines DEF WriteInTx
<1>4. CASE tx[c] = "none" /\ WriteAlone(e) /\ UNCHANGED did
  BY <1>2, <1>4, AloneRefines DEF WriteAlone
<1> QED
  BY <1>1, <1>3, <1>4

LEMMA SessionRefines ==
  ASSUME IInv, NEW c \in Callers,
         SessionBegin(c) \/ SessionBeginFails(c) \/ SessionEnds(c)
  PROVE  Abstract!Begin(c) \/ Abstract!Refuse(c) \/ Abstract!Commit(c) \/ Abstract!Abort(c)
<1>1. CASE SessionBegin(c)
  BY <1>1, BeginRefines DEF SessionBegin
<1>2. CASE SessionBeginFails(c)
  BY <1>2, RefuseRefines DEF SessionBeginFails
<1>3. CASE SessionEnds(c)
  <2>1. /\ ending[c] = "none" /\ ending' = [ending EXCEPT ![c] = "none"]
        /\ CommitOk(c) \/ CommitFails(c) \/ RollBack(c, "err")
    BY <1>3 DEF SessionEnds, Ready, IInv, TypeInv
  <2> QED BY <2>1, CommitRefines, AbortRefines
<1> QED
  BY <1>1, <1>2, <1>3

LEMMA DeferredRefines ==
  ASSUME IInv, NEW c \in Callers, Deferred(c)
  PROVE  Abstract!Commit(c) \/ Abstract!Abort(c)
<1>1. /\ ending' = [ending EXCEPT ![c] = "none"]
      /\ \/ ending[c] = "ok" /\ (CommitOk(c) \/ CommitFails(c))
         \/ ending[c] \in {"err", "panic"} /\ RollBack(c, ending[c])
  BY DEF Deferred, Commits, IInv, TypeInv
<1>2. CASE ending[c] = "ok" /\ CommitOk(c)
  BY <1>1, <1>2, CommitRefines
<1>3. CASE ending[c] = "ok" /\ CommitFails(c)
  BY <1>1, <1>3, AbortRefines
<1>4. CASE ending[c] \in {"err", "panic"} /\ RollBack(c, ending[c])
  <2>1. ending[c] = IF ending[c] = "panic" THEN "panic" ELSE "err"
    BY <1>4
  <2> QED BY <1>1, <1>4, <2>1, AbortRefines
<1> QED
  BY <1>1, <1>2, <1>3, <1>4

LEMMA MigrateRefines ==
  ASSUME IInv, NEW c \in Callers,
         \/ HasTable(c) \/ Columns(c) \/ CreateTable(c) \/ AddColumn(c) \/ Rebuild(c)
         \/ \E told \in {"ok", "err"} : MigrateReturns(c, told)
  PROVE  Abstract!Do(c) \/ Abstract!End(c) \/ UNCHANGED Abstract!vars
<1>1. CASE HasTable(c)
  <2>1. UNCHANGED <<db, tx, did, ending, result>>
    BY <1>1 DEF HasTable, Migrating, Reading, Goto
  <2> QED BY <2>1, StutterRefines
<1>2. CASE Columns(c)
  <2>1. op[c] = "Columns" /\ op[c] \in MigrateCalls
    BY <1>2 DEF Columns
  <2>2. frame[c] = "migrate" /\ ending[c] = "none"
    BY <2>1 DEF IInv, FrameInv, FrameOf
  <2>3. Panics(c) \/ UNCHANGED <<db, tx, did, ending, result>>
    BY <1>2 DEF Columns, Migrating, Reading, Goto
  <2> QED BY <2>2, <2>3, PanicRefines, StutterRefines
<1>3. CASE CreateTable(c) \/ AddColumn(c) \/ Rebuild(c)
  <2>1. PICK e \in TableEffects : Alter(c, e)
    BY <1>3 DEF CreateTable, AddColumn, Rebuild, Added, TableEffects
  <2>2. e \in Effects /\ frame[c] = "migrate" /\ op[c] = e.kind /\ op[c] \in MigrateCalls
    BY <2>1 DEF Effects, TableEffects, Alter, Migrating
  <2>3. tx[c] = "open" /\ ending[c] = "none"
    BY <2>2 DEF IInv, FrameInv, FrameOf
  <2>4. UNCHANGED <<db, tx, result>> /\ did' = [did EXCEPT ![c] = Append(@, e)]
    BY <2>1 DEF Alter, Migrating, WriteInTx
  <2>5. UNCHANGED ending
    BY <1>3 DEF CreateTable, AddColumn, Rebuild, Goto
  <2> QED BY <2>2, <2>3, <2>4, <2>5, DoRefines
<1>4. CASE \E told \in {"ok", "err"} : MigrateReturns(c, told)
  <2>1. PICK told \in {"ok", "err"} : MigrateReturns(c, told)
    BY <1>4
  <2>2. /\ frame[c] = "migrate" /\ op[c] \in MigrateCalls
        /\ ending' = [ending EXCEPT ![c] = told] /\ UNCHANGED <<db, tx, did, result>>
    BY <2>1 DEF MigrateReturns, Migrating
  <2>3. tx[c] = "open" /\ ending[c] = "none"
    BY <2>2 DEF IInv, FrameInv, FrameOf
  <2> QED BY <2>2, <2>3, EndRefines
<1> QED
  BY <1>1, <1>2, <1>3, <1>4

LEMMA NextRefines == IInv /\ [Next]_vars => [Abstract!Next]_Abstract!vars
<1> SUFFICES ASSUME IInv, [Next]_vars PROVE [Abstract!Next]_Abstract!vars
  OBVIOUS
<1>1. CASE UNCHANGED vars
  BY <1>1, StutterRefines DEF vars
<1>2. CASE Next
  <2> SUFFICES ASSUME NEW c \in Callers,
          \/ NewSession(c)
          \/ \E f \in {"transaction", "migrate"} : Transaction(c, f)
          \/ SetModel(c) \/ Where(c)
          \/ \E kind \in Reads \cup Writes : Call(c, kind) \/ CallWithoutModel(c, kind)
          \/ HookRuns(c)
          \/ Read(c) \/ Write(c) \/ StatementFails(c)
          \/ SessionBegin(c) \/ SessionBeginFails(c) \/ SessionEnds(c)
          \/ FunctionEnds(c) \/ Deferred(c)
          \/ HasTable(c) \/ Columns(c) \/ CreateTable(c)
          \/ AddColumn(c) \/ Rebuild(c)
          \/ \E told \in {"ok", "err"} : MigrateReturns(c, told)
               PROVE \/ Abstract!Begin(c) \/ Abstract!Do(c) \/ Abstract!End(c)
                     \/ Abstract!Commit(c) \/ Abstract!Abort(c) \/ Abstract!Refuse(c)
                     \/ Abstract!Alone(c) \/ UNCHANGED Abstract!vars
    BY <1>2 DEF Next, Abstract!Next
  <2>1. CASE \/ NewSession(c) \/ SetModel(c) \/ Where(c)
             \/ \E kind \in Reads \cup Writes : Call(c, kind)
             \/ HookRuns(c) \/ Read(c) \/ StatementFails(c)
    BY <2>1, CallRefines
  <2>2. CASE \E f \in {"transaction", "migrate"} : Transaction(c, f)
    BY <2>2, TransactionRefines
  <2>3. CASE \E kind \in Reads \cup Writes : CallWithoutModel(c, kind)
    BY <2>3, PanicRefines DEF CallWithoutModel, MayCall, Ready
  <2>4. CASE Write(c)
    BY <2>4, WriteRefines
  <2>5. CASE SessionBegin(c) \/ SessionBeginFails(c) \/ SessionEnds(c)
    BY <2>5, SessionRefines
  <2>6. CASE FunctionEnds(c)
    <3>1. frame[c] = "transaction" /\ ending[c] = "none" /\ UNCHANGED <<db, tx, did, result>>
      BY <2>6 DEF FunctionEnds, Ready
    <3>2. PICK e \in {"ok", "err", "panic"} : ending' = [ending EXCEPT ![c] = e]
      BY <2>6 DEF FunctionEnds
    <3>3. tx[c] = "open"
      BY <3>1 DEF IInv, FrameInv, FrameOf
    <3> QED BY <3>1, <3>2, <3>3, EndRefines
  <2>7. CASE Deferred(c)
    BY <2>7, DeferredRefines
  <2>8. CASE \/ HasTable(c) \/ Columns(c) \/ CreateTable(c) \/ AddColumn(c) \/ Rebuild(c)
             \/ \E told \in {"ok", "err"} : MigrateReturns(c, told)
    BY <2>8, MigrateRefines
  <2> QED
    BY <2>1, <2>2, <2>3, <2>4, <2>5, <2>6, <2>7, <2>8
<1> QED
  BY <1>1, <1>2

LEMMA InitRefines == Init => Abstract!Init
<1> SUFFICES ASSUME Init PROVE Abstract!Init
  OBVIOUS
<1>1. Open = [c \in Callers |-> FALSE]
  BY DEF Init, Open
<1> QED
  BY <1>1 DEF Init, Abstract!Init, Open

\* Sessions and transactions implement the abstract specification: all the effects
\* of a transaction that is told to have succeeded, in order, and none of one that
\* is told to have failed (geeorm.go:62-79, transaction.go).
THEOREM ImplementsAtomicTransactionsCorrect == Spec => ImplementsAtomicTransactions
  BY InitRefines, NextRefines, IInvCorrect, PTL
     DEF Spec, ImplementsAtomicTransactions, Abstract!Spec

=============================================================================
