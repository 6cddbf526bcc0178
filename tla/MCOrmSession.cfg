\* Two goroutines, two rows; the hooks of Insert use the session.
CONSTANTS
  c1 = c1
  c2 = c2
  r1 = r1
  r2 = r2
  None = None
  Model = {"Name", "Age"}
  OldTables <- Before
  Callers = {c1, c2}
  Rows = {r1, r2}
  Wheres <- OneRow
  HookUses = {"Insert"}
  MaxStatements = 2
SPECIFICATION Spec
CHECK_DEADLOCK FALSE
INVARIANTS
  TypeOK
  StatementsObeyWhere
  MigratedHasModel
PROPERTY ImplementsAtomicTransactions
