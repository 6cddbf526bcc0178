\* The hook of Delete uses the session it is called with.
CONSTANTS
  c1 = c1
  c2 = c2
  r1 = r1
  r2 = r2
  None = None
  Model = {"Name", "Age"}
  OldTables <- Before
  Callers = {c1}
  Rows = {r1, r2}
  Wheres <- OneRow
  HookUses = {"Delete"}
  MaxStatements = 2
SPECIFICATION Spec
CHECK_DEADLOCK FALSE
INVARIANTS
  StatementsObeyWhere
