------------------------------- MODULE Schema -------------------------------
(***************************************************************************)
(* The database schema as src/migrations/versions builds it, revision by   *)
(* revision, and as app/models declares it.  A revision is two sequences   *)
(* of Alembic operations, and an operation acts on one table: this module  *)
(* says which of them PostgreSQL carries out and what they leave.          *)
(*                                                                         *)
(* A foreign key is part of its column, whose type is then the table it    *)
(* points at.  Server defaults are left out where nothing depends on them. *)
(***************************************************************************)
EXTENDS SequencesExt, Naturals

Tables == {"users", "refresh_tokens", "batches", "categories", "expenses",
           "accounts", "account_interests", "balance_snapshots",
           "transactions", "account_keywords"}

Absent == [columns |-> <<>>, key |-> "", uniques |-> {}]
Empty == [t \in Tables |-> Absent]

(* Columns *)
Column(type, null) == [type |-> type, null |-> null]
Required(type, names) == [n \in names |-> Column(type, FALSE)]
Nullable(type, names) == [n \in names |-> Column(type, TRUE)]
ForeignKey(table, name) == Required(table, {name})
NullableKey(table, name) == Nullable(table, {name})

(* The tables a set of columns points at. *)
Targets(columns) == { columns[c].type : c \in DOMAIN columns } \cap Tables
-----------------------------------------------------------------------------
(* The operations of Alembic.                                               *)
CreateTable(t, key, columns, uniques) ==
    [op |-> "create_table", table |-> t,
     made |-> [columns |-> columns, key |-> key, uniques |-> uniques]]
DropTable(t) == [op |-> "drop_table", table |-> t]
AddColumn(t, c, type) ==
    [op |-> "add_column", table |-> t, column |-> c, to |-> Column(type, FALSE),
     default |-> FALSE]
AddColumnDefault(t, c, type) == [AddColumn(t, c, type) EXCEPT !.default = TRUE]
AddNullable(t, c, type) == [AddColumn(t, c, type) EXCEPT !.to.null = TRUE]
DropColumn(t, c) == [op |-> "drop_column", table |-> t, column |-> c]
AlterColumn(t, c, type, null) ==
    [op |-> "alter_column", table |-> t, column |-> c, to |-> Column(type, null)]
AddUnique(t, cs) == [op |-> "add_unique", table |-> t, columns |-> cs]
DropUnique(t, cs) == [op |-> "drop_unique", table |-> t, columns |-> cs]
DropUnnamed(t) == [op |-> "drop_unnamed", table |-> t]
AddForeignKey(t, c, target) ==
    [op |-> "add_foreign_key", table |-> t, column |-> c, to |-> Column(target, FALSE)]
DropForeignKey(t, c) ==
    [op |-> "drop_foreign_key", table |-> t, column |-> c, to |-> Column("uuid", FALSE)]

(* What an operation makes of its table. *)
Altered(table, o) ==
    CASE o.op = "create_table" ->
           \* A UNIQUE that repeats the PRIMARY KEY makes no constraint.
           [o.made EXCEPT !.uniques = @ \ {{o.made.key}}]
      [] o.op = "drop_table" -> Absent
      [] o.op \in {"add_column", "alter_column", "add_foreign_key", "drop_foreign_key"} ->
           [table EXCEPT !.columns = (o.column :> o.to) @@ @]
      [] o.op = "drop_column" ->
           \* and the constraints it is part of
           [table EXCEPT !.columns = Restrict(@, DOMAIN @ \ {o.column}),
                         !.uniques = { u \in @ : o.column \notin u }]
      [] o.op = "add_unique" -> [table EXCEPT !.uniques = @ \cup {o.columns}]
      [] o.op = "drop_unique" -> [table EXCEPT !.uniques = @ \ {o.columns}]
      [] o.op = "drop_unnamed" -> table

(* db.tables is the schema, db.filled the tables that hold rows.  The rows  *)
(* of a table go with it.                                                   *)
After(db, o) ==
    LET gone == IF o.op = "drop_table" THEN {o.table} ELSE {}
    IN  [tables |-> [db.tables EXCEPT ![o.table] = Altered(@, o)],
         filled |-> db.filled \ gone, odd |-> db.odd \ gone]

(* The changes of a column that its values may stand against: filling in a  *)
(* null, a longer merchant, and a time that is another in the session's     *)
(* zone, where two times of a unique key can become one.                    *)
Narrows(table, c, to) ==
    LET from == table.columns[c]
    IN  \/ from.null /\ ~to.null
        \/ from.type = "str150" /\ to.type = "str50"
        \/ {from.type, to.type} = {"time", "localtime"} /\ \E u \in table.uniques : c \in u

(* The tables a foreign key made by o points at. *)
MadeTargets(o) ==
    CASE o.op = "create_table" -> Targets(o.made.columns)
      [] o.op = "add_foreign_key" -> {o.to.type}
      [] OTHER -> {}

(* What PostgreSQL refuses, or SQLAlchemy before it.  db.odd are the filled *)
(* tables with a value that stands against a narrower column.               *)
Refused(db, o) ==
    LET table == db.tables[o.table]
        known == DOMAIN table.columns
    IN  \/ (o.op = "create_table") # (table = Absent)
        \/ \E t \in MadeTargets(o) : db.tables[t] = Absent
        \/ /\ o.op = "drop_table"
           /\ \E t \in Tables \ {o.table} : o.table \in Targets(db.tables[t].columns)
        \/ /\ o.op = "add_column"
           /\ o.column \in known \/ (~o.to.null /\ ~o.default /\ o.table \in db.filled)
        \/ /\ o.op \in {"drop_column", "alter_column", "add_foreign_key", "drop_foreign_key"}
           /\ o.column \notin known
        \/ /\ o.op = "alter_column"
           /\ o.table \in db.odd /\ Narrows(table, o.column, o.to)
        \/ o.op = "drop_foreign_key" /\ table.columns[o.column].type \notin Tables
        \/ o.op = "add_unique" /\ ~(o.columns \subseteq known)
        \/ o.op = "drop_unique" /\ o.columns \notin table.uniques
        \* A constraint without a name cannot be dropped.
        \/ o.op = "drop_unnamed"

(* The tables an operation locks: its own and those at the other end of a   *)
(* foreign key it makes or drops.                                           *)
Locks(tables, o) ==
    LET columns == tables[o.table].columns
    IN  {o.table} \cup MadeTargets(o) \cup
        CASE o.op = "drop_table" -> Targets(columns)
          [] o.op \in {"drop_column", "drop_foreign_key"} ->
               Targets(Restrict(columns, {o.column} \cap DOMAIN columns))
          [] OTHER -> {}

(* A revision's operations one after the other, up to the first refused.    *)
Step(run, o) ==
    IF run.refused THEN run
    ELSE [db |-> IF Refused(run.db, o) THEN run.db ELSE After(run.db, o),
          locks |-> run.locks \cup Locks(run.db.tables, o),
          refused |-> Refused(run.db, o)]
Result(db, ops) ==
    LET after[i \in 0..Len(ops)] ==
            IF i = 0 THEN [db |-> db, locks |-> {}, refused |-> FALSE]
            \* "run" is bound by a set, which TLC evaluates once.
            ELSE CHOOSE next \in { Step(run, ops[i]) : run \in {after[i - 1]} } : TRUE
    IN  after[Len(ops)]
=============================================================================
