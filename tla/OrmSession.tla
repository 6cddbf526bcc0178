----------------------------- MODULE OrmSession -----------------------------
(***************************************************************************)
(* geeorm: goroutines that use a session of their own, run a function in   *)
(* Engine.Transaction, or call Engine.Migrate, on one database with the    *)
(* table of one model.  A session gathers clauses until a statement uses   *)
(* and clears them; Before hooks are called with the same session in       *)
(* between (After hooks find it cleared and are left out).  Any statement  *)
(* may fail.  Of the clauses WHERE stands for all; a session does not      *)
(* begin a transaction while its last one is open.                         *)
(*                                                                         *)
(* The database (external) is SQLite behind database/sql: a transaction    *)
(* that reads shares a lock until it ends, one writes at a time, and a     *)
(* commit that finds other readers fails and is rolled back.               *)
(***************************************************************************)
EXTENDS Naturals, FiniteSets, Sequences, SequencesExt

CONSTANTS Callers,
          Rows,
          Model,          \* the names of the fields of the model
          OldTables,      \* the columns the table may have at first
          Wheres,         \* what Where() may select
          HookUses,       \* the calls whose Before hook uses the session
          MaxStatements,  \* bound: calls of a caller
          None

Reads == {"Find", "Count"}
Writes == {"Insert", "Update", "Delete"}
MigrateCalls == {"HasTable", "Columns", "CreateTable", "AddColumn", "Rebuild", "Return"}
Calls == Reads \cup Writes \cup MigrateCalls

ASSUME OrmAssumption == /\ Wheres \subseteq SUBSET Rows
                        /\ HookUses \subseteq {"Insert", "Find", "Update", "Delete"}
                        /\ MaxStatements \in Nat
                        /\ None \notin Wheres /\ None \notin Callers /\ None \notin Calls

VARIABLES
  db,       \* what is committed, by row
  writer,   \* the caller whose transaction has written, or None
  work,     \* the content with what the writer wrote
  readers   \* the callers whose transactions hold the shared lock

dbVars == <<db, writer, work, readers>>

VARIABLES
  tx,       \* tx[c]: s.tx is nil, open, or over but still set
  refTable, \* refTable[c]: a model is set
  where     \* where[c]: the WHERE clause

sessionVars == <<tx, refTable, where>>

VARIABLES
  frame,    \* frame[c]: what c runs
  columns,  \* columns[c]: what Migrate knows of the columns of the table
  op,       \* op[c]: the call in progress, or None
  hooked,   \* hooked[c]: its Before hook is still to run
  ending,   \* ending[c]: how the function given to Transaction ended
  calls     \* calls[c]: statements called so far

callVars == <<frame, columns, op, hooked, ending, calls>>

VARIABLES
  asked,    \* asked[c]: the condition c gave for its next statement
  did,      \* did[c]: what the statements of its transaction did
  result    \* result[c]: what c was told of its last transaction

vars == <<dbVars, sessionVars, callVars, asked, did, result>>

----------------------------------------------------------------------------
(* The database *)

\* There is no table without columns.
NoTable == {}
Tables == SUBSET UNION (OldTables \cup {Model})
Contents == [rows : [Rows -> {"absent", "inserted", "updated"}],
             columns : Tables]
RowEffects == [kind : Writes, rows : SUBSET Rows]
TableEffects == [kind : {"AddColumn"}, column : Model]
                  \cup [kind : {"CreateTable", "Rebuild"}]
Effects == RowEffects \cup TableEffects

RowAfter(row, e) == CASE e.kind = "Insert" -> "inserted"
                      [] e.kind = "Update" /\ row # "absent" -> "updated"
                      [] OTHER -> "absent"

Apply(content, e) ==
  IF e.kind \in Writes
    THEN [content EXCEPT !.rows =
            [r \in Rows |-> IF r \in e.rows THEN RowAfter(@[r], e) ELSE @[r]]]
    ELSE [content EXCEPT !.columns =
            IF e.kind = "AddColumn" THEN @ \cup {e.column} ELSE Model]

\* The database accepts a statement only if the table is there, or is not, and
\* has the columns it names.
Accepts(content, kind) ==
  CASE kind = "CreateTable" -> content.columns = NoTable
    [] kind \in {"Insert", "Find", "Rebuild"} ->
         Model \subseteq content.columns
    [] OTHER -> content.columns # NoTable

View(c) == IF writer = c THEN work ELSE db

\* A statement in the transaction of c, and one in none.
WriteInTx(c, e) == /\ writer \in {c, None}
                   /\ writer' = c
                   /\ work' = Apply(View(c), e)
                   /\ readers' = readers \cup {c}
                   /\ UNCHANGED db

WriteAlone(e) == /\ writer = None /\ readers = {}
                 /\ db' = Apply(db, e)
                 /\ work' = db'
                 /\ UNCHANGED <<writer, readers>>

KeptOnPanic(c) == IF ending[c] = "panic" THEN readers ELSE readers \ {c}
Released(c) == readers \ {c}

\* The transaction of c leaves content behind.
Close(c, content) == /\ db' = content
                     /\ work' = IF writer = c THEN content ELSE work
                     /\ writer' = IF writer = c THEN None ELSE writer
                     /\ readers' = Released(c)

CanCommit(c) == writer = c => readers = {c}

----------------------------------------------------------------------------
(* A session *)

Ready(c) == /\ frame[c] \in {"session", "transaction"}
            /\ op[c] = None
            /\ ending[c] = "none"

MayCall(c) == Ready(c) /\ calls[c] < MaxStatements

\* A panic unwinds into the deferred function of Transaction; a goroutine with
\* a session of its own does not use it again.
Panics(c) ==
  /\ IF frame[c] = "session"
       THEN frame' = [frame EXCEPT ![c] = "done"] /\ UNCHANGED ending
       ELSE ending' = [ending EXCEPT ![c] = "panic"] /\ UNCHANGED frame
  /\ op' = [op EXCEPT ![c] = None]
  /\ UNCHANGED <<dbVars, sessionVars, columns, hooked, calls, asked, did, result>>

SetModel(c) ==
  /\ Ready(c)
  /\ ~refTable[c]
  /\ refTable' = [refTable EXCEPT ![c] = TRUE]
  /\ UNCHANGED <<dbVars, tx, where, callVars, asked, did, result>>

Where(c) == /\ Ready(c)
            /\ \E w \in Wheres : /\ where' = [where EXCEPT ![c] = w]
                                 /\ asked' = [asked EXCEPT ![c] = w]
            /\ UNCHANGED <<dbVars, tx, refTable, callVars, did, result>>

\* Insert is given the value with its model, the others need one to be set.
NeedsModel(kind) == kind # "Insert"

Call(c, kind) ==
  /\ MayCall(c)
  /\ NeedsModel(kind) => refTable[c]
  /\ op' = [op EXCEPT ![c] = kind]
  /\ hooked' = [hooked EXCEPT ![c] = kind \in HookUses]
  /\ calls' = [calls EXCEPT ![c] = @ + 1]
  /\ UNCHANGED <<dbVars, sessionVars, frame, columns, ending, asked, did, result>>

CallWithoutModel(c, kind) == /\ MayCall(c)
                             /\ NeedsModel(kind) /\ ~refTable[c]
                             /\ Panics(c)

ClauseKept(c) == where[c]
Cleared(c) == None

\* The hook runs a statement, which clears the session like any other.
HookRuns(c) ==
  /\ hooked[c]
  /\ hooked' = [hooked EXCEPT ![c] = FALSE]
  /\ where' = [where EXCEPT ![c] = Cleared(c)]
  /\ readers' = IF tx[c] = "open" THEN readers \cup {c} ELSE readers
  /\ UNCHANGED <<db, writer, work, tx, refTable, frame, columns, op, ending, calls,
                 asked, did, result>>

Selected(c) == IF where[c] = None THEN Rows ELSE where[c]

\* What the statement does: a row is inserted, those selected are changed.
Effect(c) ==
  {e \in RowEffects : /\ e.kind = op[c]
                      /\ IF op[c] = "Insert"
                           THEN \E r \in Rows : View(c).rows[r] = "absent" /\ e.rows = {r}
                           ELSE e.rows = Selected(c)}

\* Exec(), QueryRow() or QueryRows() returns; Clear() is deferred.  An insert
\* has set the model.
Executed(c) ==
  /\ op[c] \in Reads \cup Writes /\ ~hooked[c]
  /\ op' = [op EXCEPT ![c] = None]
  /\ where' = [where EXCEPT ![c] = Cleared(c)]
  /\ asked' = [asked EXCEPT ![c] = None]
  /\ refTable' = [refTable EXCEPT ![c] = @ \/ op[c] = "Insert"]
  /\ UNCHANGED <<tx, frame, columns, hooked, ending, calls, result>>

UsesTx(c) == tx[c] # "none"

Read(c) == /\ Executed(c)
           /\ op[c] \in Reads
           /\ Accepts(View(c), op[c])
           /\ tx[c] # "over"
           /\ readers' = IF UsesTx(c) THEN readers \cup {c} ELSE readers
           /\ UNCHANGED <<db, writer, work, did>>

Write(c) ==
  /\ Executed(c)
  /\ op[c] \in Writes
  /\ Accepts(View(c), op[c])
  /\ \E e \in Effect(c) :
       \/ /\ UsesTx(c)
          /\ tx[c] = "open"
          /\ WriteInTx(c, e)
          /\ did' = [did EXCEPT ![c] = Append(@, e)]
       \/ ~UsesTx(c) /\ WriteAlone(e) /\ UNCHANGED did

\* The database is busy, refuses the statement, or the transaction is over.
StatementFails(c) == Executed(c) /\ UNCHANGED <<dbVars, did>>

----------------------------------------------------------------------------
(* Transactions *)

Begin(c) == /\ tx' = [tx EXCEPT ![c] = "open"]
            /\ did' = [did EXCEPT ![c] = <<>>]
            /\ result' = [result EXCEPT ![c] = "none"]
            /\ UNCHANGED <<dbVars, refTable, where>>

CommitOk(c) == /\ tx[c] = "open"
               /\ CanCommit(c)
               /\ Close(c, View(c))
               /\ tx' = [tx EXCEPT ![c] = "over"]
               /\ result' = [result EXCEPT ![c] = "ok"]
               /\ UNCHANGED <<refTable, where, did>>

\* The transaction is over nevertheless: the driver rolls it back.
CommitFails(c) == /\ tx[c] = "open"
                  /\ Close(c, db)
                  /\ tx' = [tx EXCEPT ![c] = "over"]
                  /\ result' = [result EXCEPT ![c] = "err"]
                  /\ UNCHANGED <<refTable, where, did>>

RollBack(c, told) == /\ tx[c] = "open"
                     /\ Close(c, db)
                     /\ tx' = [tx EXCEPT ![c] = "over"]
                     /\ result' = [result EXCEPT ![c] = told]
                     /\ UNCHANGED <<refTable, where, did>>

NewSession(c) == /\ frame[c] = "none"
                 /\ frame' = [frame EXCEPT ![c] = "session"]
                 /\ UNCHANGED <<dbVars, sessionVars, columns, op, hooked, ending, calls,
                                asked, did, result>>

\* Commit() and Rollback() are called when Begin() has been.
SessionBegin(c) == /\ MayCall(c) /\ frame[c] = "session"
                   /\ tx[c] # "open"
                   /\ Begin(c)
                   /\ calls' = [calls EXCEPT ![c] = @ + 1]
                   /\ UNCHANGED <<frame, columns, op, hooked, ending, asked>>

\* s.tx is nil from then on.
SessionBeginFails(c) == /\ MayCall(c) /\ frame[c] = "session"
                        /\ tx[c] # "open"
                        /\ tx' = [tx EXCEPT ![c] = "none"]
                        /\ result' = [result EXCEPT ![c] = "err"]
                        /\ UNCHANGED <<dbVars, refTable, where, callVars, asked, did>>

SessionEnds(c) == /\ Ready(c) /\ frame[c] = "session"
                  /\ CommitOk(c) \/ CommitFails(c) \/ RollBack(c, "err")
                  /\ UNCHANGED <<callVars, asked>>

\* Transaction is given a function, or the one of Migrate.
Transaction(c, f) ==
  /\ frame[c] = "none"
  /\ \/ /\ Begin(c)
        /\ frame' = [frame EXCEPT ![c] = f]
        /\ op' = [op EXCEPT ![c] = IF f = "migrate" THEN "HasTable" ELSE None]
     \/ /\ result' = [result EXCEPT ![c] = "err"]
        /\ frame' = [frame EXCEPT ![c] = "done"]
        /\ UNCHANGED <<dbVars, sessionVars, op, did>>
  /\ UNCHANGED <<columns, hooked, ending, calls, asked>>

\* f returns, whatever its statements have returned, or panics.
FunctionEnds(c) ==
  /\ Ready(c) /\ frame[c] = "transaction"
  /\ \E e \in {"ok", "err", "panic"} : ending' = [ending EXCEPT ![c] = e]
  /\ UNCHANGED <<dbVars, sessionVars, frame, columns, op, hooked, calls, asked, did, result>>

ErrNotSeen(e) == e # "panic"
Commits(e) == e = "ok"

\* The deferred function.
Deferred(c) ==
  /\ ending[c] # "none"
  /\ \/ Commits(ending[c]) /\ (CommitOk(c) \/ CommitFails(c))
     \/ ~Commits(ending[c]) /\ RollBack(c, ending[c])
  /\ frame' = [frame EXCEPT ![c] = IF @ = "migrate" THEN "migrated" ELSE "done"]
  /\ ending' = [ending EXCEPT ![c] = "none"]
  /\ UNCHANGED <<columns, op, hooked, calls, asked>>

----------------------------------------------------------------------------
(* Migrate *)

Added(known) == Model \ known
AddedAgain(known) == Model \ known
Dropped(known) == known \ Model

NextStep(known) == CASE Added(known) # {} -> "AddColumn"
                     [] Dropped(known) # {} -> "Rebuild"
                     [] OTHER -> "Return"

Goto(c, step) == op' = [op EXCEPT ![c] = step] /\ UNCHANGED ending

Migrating(c) == /\ frame[c] = "migrate"
                /\ UNCHANGED <<sessionVars, frame, hooked, calls, asked, result>>

Reading(c) == /\ readers' = readers \cup {c}
              /\ UNCHANGED <<db, writer, work, did>>

\* Whatever keeps HasTable from reading the name, Migrate takes the table to be
\* missing.
HasTable(c) ==
  /\ Migrating(c) /\ op[c] = "HasTable"
  /\ \/ /\ Reading(c)
        /\ Goto(c, IF View(c).columns = NoTable THEN "CreateTable" ELSE "Columns")
     \/ /\ Goto(c, "CreateTable")
        /\ UNCHANGED <<dbVars, did>>
  /\ UNCHANGED columns

\* The error of the query is dropped too, but its rows are nil then.
Columns(c) ==
  /\ op[c] = "Columns"
  /\ \/ /\ Migrating(c)
        /\ Reading(c)
        /\ columns' = [columns EXCEPT ![c] = View(c).columns]
        /\ Goto(c, NextStep(View(c).columns))
     \/ Panics(c)

Alter(c, e) == /\ Migrating(c) /\ op[c] = e.kind
               /\ Accepts(View(c), e.kind)
               /\ WriteInTx(c, e)
               /\ did' = [did EXCEPT ![c] = Append(@, e)]

CreateTable(c) == /\ Alter(c, [kind |-> "CreateTable"])
                  /\ Goto(c, "Return")
                  /\ UNCHANGED columns

AddColumn(c) ==
  \E col \in Added(columns[c]) :
    LET known == columns[c] \cup {col} IN
    /\ Alter(c, [kind |-> "AddColumn", column |-> col])
    /\ columns' = [columns EXCEPT ![c] = known]
    /\ Goto(c, NextStep(known))

\* The table is copied without the columns the model lacks, dropped and its
\* copy renamed, by one Exec.
Rebuild(c) == /\ Alter(c, [kind |-> "Rebuild"])
              /\ Goto(c, "Return")
              /\ UNCHANGED columns

MigrateReturns(c, told) ==
  /\ Migrating(c)
  /\ \/ told = "ok" /\ op[c] = "Return"
     \/ told = "err" /\ op[c] \in {"CreateTable", "AddColumn", "Rebuild"}
  /\ op' = [op EXCEPT ![c] = None]
  /\ ending' = [ending EXCEPT ![c] = told]
  /\ UNCHANGED <<dbVars, columns, did>>

----------------------------------------------------------------------------

Starts == [rows : {[r \in Rows |-> "absent"]}, columns : OldTables]

Init == /\ db \in Starts
        /\ work = db
        /\ writer = None
        /\ readers = {}
        /\ tx = [c \in Callers |-> "none"]
        /\ refTable = [c \in Callers |-> FALSE]
        /\ where = [c \in Callers |-> None]
        /\ frame = [c \in Callers |-> "none"]
        /\ columns = [c \in Callers |-> NoTable]
        /\ op = [c \in Callers |-> None]
        /\ hooked = [c \in Callers |-> FALSE]
        /\ ending = [c \in Callers |-> "none"]
        /\ calls = [c \in Callers |-> 0]
        /\ asked = [c \in Callers |-> None]
        /\ did = [c \in Callers |-> <<>>]
        /\ result = [c \in Callers |-> "none"]

Next == \E c \in Callers :
          \/ NewSession(c)
          \/ \E f \in {"transaction", "migrate"} : Transaction(c, f)
          \/ SetModel(c) \/ Where(c)
          \/ \E kind \in Reads \cup Writes : Call(c, kind) \/ CallWithoutModel(c, kind)
          \/ HookRuns(c)
          \/ Read(c) \/ Write(c) \/ StatementFails(c)
          \/ SessionBegin(c) \/ SessionBeginFails(c) \/ SessionEnds(c)
          \/ FunctionEnds(c) \/ Deferred(c)
          \/ HasTable(c) \/ Columns(c) \/ CreateTable(c)
          \/ AddColumn(c) \/ Rebuild(c)
          \/ \E told \in {"ok", "err"} : MigrateReturns(c, told)

Spec == Init /\ [][Next]_vars

----------------------------------------------------------------------------
(* Properties *)

Frames == {"none", "session", "transaction", "migrate", "migrated", "done"}

\* Locks belong to transactions that are not over, one of which writes: none is
\* left behind by an error, a panic or a commit that fails (geeorm.go:62-79).
TypeOK == /\ db \in Contents /\ work \in Contents
          /\ writer \in readers \cup {None}
          /\ writer = None => work = db
          /\ readers \subseteq {c \in Callers : tx[c] = "open"}
          /\ where \in [Callers -> Wheres \cup {None}]
          /\ \A c \in Callers : /\ frame[c] \in Frames
                                /\ tx[c] \in {"none", "open", "over"}
                                /\ op[c] \in Calls \cup {None}
                                /\ columns[c] \in Tables
                                /\ hooked[c] => op[c] # None
                                /\ ending[c] # "none" => op[c] = None

\* A statement acts on the rows its caller asked for: not on those of an
\* earlier statement that failed, nor on all of them (raw.go:41-88,
\* record.go:28-115).
StatementsObeyWhere ==
  \A c \in Callers : op[c] \in {"Find", "Count", "Update", "Delete"} /\ ~hooked[c]
                       => where[c] = asked[c]

\* A Migrate that reports no error has left the table with the fields of the
\* model and no others, whoever else migrates or writes meanwhile
\* (geeorm.go:97-132).
MigratedHasModel ==
  \A c \in Callers :
    frame[c] = "migrated" /\ result[c] = "ok" => db.columns = Model

Abstract == INSTANCE AtomicTransactions WITH
              open <- [c \in Callers |-> tx[c] = "open"]

\* All of a transaction or nothing: what is told to have been committed is in
\* the database, with nothing of a transaction that failed, panicked or was
\* refused, whatever others do meanwhile (geeorm.go:62-79, transaction.go).
ImplementsAtomicTransactions == Abstract!Spec

=============================================================================
