---------------------------- MODULE MCOrmSession ----------------------------
EXTENDS OrmSession

CONSTANTS c1, c2, r1, r2

OneRow == {{r1}}

\* No table, the table of the model, or that of another version of it.
Before == {NoTable, Model, {"Name", "XXX"}}

=============================================================================
