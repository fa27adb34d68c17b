---------------------------- MODULE Migrations ------------------------------
(***************************************************************************)
(* The alembic command (src/migrations/env.py, run_migrations_online)      *)
(* taking a database from one version to another, one revision after the   *)
(* other in a single transaction: what it leaves when a revision is        *)
(* refused, when its connection is lost, when the tables hold rows and     *)
(* when two operators run it at once.                                      *)
(***************************************************************************)
EXTENDS Revisions

CONSTANTS
    Runners,       \* the operators' shells, each running one command at a time
    Usable,        \* the tables the application's users fill meanwhile
    Narrowed,      \* those among them that a revision narrows a column of
    Starts,        \* the versions a behaviour may begin at
    MaxCommands    \* bounds the commands of a behaviour

ASSUME UsableAssumption == Usable \subseteq Tables /\ Narrowed \subseteq Usable
ASSUME StartsAssumption == Starts \subseteq Versions /\ MaxCommands \in Nat

(* The operations between two neighbouring versions.                        *)
Between(v, n) == IF n > v THEN Upgrades[n] ELSE Downgrades[v]

IsOperation(o) == o.table \in Tables /\ MadeTargets(o) \subseteq Tables

Bare(tables) == [tables |-> tables, filled |-> {}, odd |-> {}]

(* The revision from v to n, run on the schema of version w and not refused *)
(* there.  If the tables it locks are those of v, it makes those of n, and  *)
(* the other tables are the same in both.                                   *)
Fits(v, n, w) ==
    LET made == Result(Bare(SchemaAt[w]), Between(v, n))
    IN  ~made.refused /\ (\A t \in made.locks : SchemaAt[w][t] = SchemaAt[v][t])
          => \A t \in Tables :
                SchemaAt[n][t] = IF t \in made.locks THEN made.db.tables[t] ELSE SchemaAt[v][t]

(* This speaks of the revisions only, not of a constant: TLC evaluates it.  *)
ASSUME RevisionsFit ==
    /\ \A v \in Versions : SchemaAt[v] = [t \in Tables |-> SchemaAt[v][t]]
    /\ \A v, n \in Versions : v - n \in {-1, 1} =>
          /\ Len(Between(v, n)) \in Nat
          /\ \A i \in 1..Len(Between(v, n)) : IsOperation(Between(v, n)[i])
          /\ \A w \in Versions : Fits(v, n, w)

VARIABLES
    version,   \* alembic_version.version_num; 0 before the first revision
    db,        \* the tables: their schema, and which hold rows
    runs,      \* each runner's command
    commands   \* how many were started

vars == <<version, db, runs, commands>>

Idle == [pc |-> "idle", from |-> 0, at |-> 0, to |-> 0, locked |-> {},
         seen |-> EmptyDatabase, stamped |-> FALSE, answer |-> "none"]

(* A database that upgrading an empty one to this version leaves. *)
Init ==
    /\ version \in Starts
    /\ db = [EmptyDatabase EXCEPT !.tables = SchemaAt[version]]
    /\ runs = [r \in Runners |-> Idle]
    /\ commands = 0
-----------------------------------------------------------------------------
Rises(run) == run.to > run.at
Ahead(run) == IF Rises(run) THEN run.at + 1 ELSE run.at - 1
Revision(run) == Between(run.at, Ahead(run))

(* What a runner's transaction sees: its own work on the tables it locked,  *)
(* and what is committed.                                                   *)
Merged(run) ==
    [tables |-> [t \in Tables |-> IF t \in run.locked THEN run.seen.tables[t] ELSE db.tables[t]],
     filled |-> (db.filled \ run.locked) \cup (run.seen.filled \cap run.locked),
     odd |-> (db.odd \ run.locked) \cup (run.seen.odd \cap run.locked)]

Applied(run) == Result(Merged(run), Revision(run))

(* The runners r's next statement waits for. *)
WaitsFor(r) ==
    LET others == { q \in Runners \ {r} : runs[q].pc # "idle" }
        locks == Applied(runs[r]).locks
    IN  CASE runs[r].pc = "apply" /\ others # {} -> { q \in others : runs[q].locked \cap locks # {} }
          [] runs[r].pc = "stamp" /\ ~runs[r].stamped -> { q \in others : runs[q].stamped }
          [] OTHER -> {}

InRing(r) == \E q \in WaitsFor(r) : r \in WaitsFor(q)

(* The transaction ends, and its locks with it. *)
Close(r, answer) == runs' = [runs EXCEPT ![r] = [Idle EXCEPT !.answer = answer]]
-----------------------------------------------------------------------------
(* alembic upgrade or downgrade: the version is read when the transaction   *)
(* begins, and the revisions to run follow from it.                         *)
Start(r) ==
    /\ runs[r].pc = "idle" /\ commands < MaxCommands
    /\ commands' = commands + 1
    /\ \E to \in {version - 1, version + 1, 0, Latest} \cap Versions :
          runs' = [runs EXCEPT ![r] =
              [Idle EXCEPT !.pc = IF to = version THEN "commit" ELSE "apply",
                           !.from = version, !.at = version, !.to = to]]
    /\ UNCHANGED <<version, db>>

(* One revision's operations. *)
Apply(r) ==
    LET run == runs[r]
        applied == Applied(run)
    IN  /\ run.pc = "apply" /\ WaitsFor(r) = {} /\ ~applied.refused
        /\ runs' = [runs EXCEPT ![r] =
              [run EXCEPT !.pc = "stamp", !.seen = applied.db,
                          !.locked = run.locked \cup applied.locks]]
        /\ UNCHANGED <<version, db, commands>>

(* Fault: no transaction around the revisions, each statement on its own. *)
RefuseKeepingPart(r) ==
    /\ runs[r].pc = "apply" /\ WaitsFor(r) = {} /\ Applied(runs[r]).refused
    /\ db' = Applied(runs[r]).db
    /\ version' = runs[r].at
    /\ Close(r, "refused")
    /\ UNCHANGED commands

(* An operation of the revision is refused: the transaction is rolled back. *)
Refuse(r) ==
    /\ runs[r].pc = "apply" /\ WaitsFor(r) = {} /\ Applied(runs[r]).refused
    /\ Close(r, "refused")
    /\ UNCHANGED <<version, db, commands>>

(* UPDATE alembic_version ... WHERE version_num = the revision left: alembic *)
(* raises when that is not one row, which only the first one can find out.  *)
IsStale(run) == ~run.stamped /\ version # run.from

(* Fault: a downgrade counts up. *)
StampUpwards(r) ==
    /\ runs[r].pc = "stamp" /\ WaitsFor(r) = {} /\ ~IsStale(runs[r])
    /\ runs' = [runs EXCEPT ![r] =
          [runs[r] EXCEPT !.pc = "apply", !.at = runs[r].at + 1, !.stamped = TRUE]]
    /\ UNCHANGED <<version, db, commands>>

(* Fault: the version is written whatever it was. *)
StampUnchecked(r) ==
    LET run == runs[r]
        next == Ahead(run)
    IN  /\ run.pc = "stamp" /\ WaitsFor(r) = {}
        /\ runs' = [runs EXCEPT ![r] =
              [run EXCEPT !.pc = IF next = run.to THEN "commit" ELSE "apply",
                          !.at = next, !.stamped = TRUE]]
        /\ UNCHANGED <<version, db, commands>>

Stamp(r) ==
    LET run == runs[r]
        next == Ahead(run)
    IN  /\ run.pc = "stamp" /\ WaitsFor(r) = {} /\ ~IsStale(run)
        /\ runs' = [runs EXCEPT ![r] =
              [run EXCEPT !.pc = IF next = run.to THEN "commit" ELSE "apply",
                          !.at = next, !.stamped = TRUE]]
        /\ UNCHANGED <<version, db, commands>>

StampStale(r) ==
    /\ runs[r].pc = "stamp" /\ WaitsFor(r) = {} /\ IsStale(runs[r])
    /\ Close(r, "stale")
    /\ UNCHANGED <<version, db, commands>>

(* context.begin_transaction() ends: everything at once. *)
Commit(r) ==
    /\ runs[r].pc = "commit"
    /\ db' = Merged(runs[r])
    /\ version' = IF runs[r].stamped THEN runs[r].at ELSE version
    /\ Close(r, "done")
    /\ UNCHANGED commands

(* The connection is lost or the process killed: PostgreSQL rolls back. *)
Lose(r) ==
    /\ runs[r].pc # "idle"
    /\ Close(r, "lost")
    /\ UNCHANGED <<version, db, commands>>

(* Fault: the statement is tried again in the transaction it had. *)
DeadlockRetried(r) == InRing(r) /\ UNCHANGED vars

(* PostgreSQL breaks a deadlock by refusing one of the statements in it. *)
Deadlock(r) ==
    /\ InRing(r)
    /\ Close(r, "deadlock")
    /\ UNCHANGED <<version, db, commands>>

(* The application inserts into a table that no runner has locked and whose  *)
(* foreign keys have rows to point at.                                      *)
Use(t, odd) ==
    /\ db.tables[t] # Absent
    /\ odd => t \in Narrowed
    /\ \A r \in Runners : t \notin runs[r].locked
    /\ LET columns == db.tables[t].columns
       IN  \A c \in DOMAIN columns :
              columns[c].type \in Tables /\ ~columns[c].null => columns[c].type \in db.filled
    /\ db' = [db EXCEPT !.filled = @ \cup {t}, !.odd = IF odd THEN @ \cup {t} ELSE @]
    /\ UNCHANGED <<version, runs, commands>>

RunnerStep(r) ==
    Apply(r) \/ Refuse(r) \/ Stamp(r) \/ StampStale(r) \/ Commit(r) \/ Deadlock(r)

Next ==
    \/ \E r \in Runners :
          \/ Start(r) \/ Apply(r) \/ Refuse(r) \/ Stamp(r) \/ StampStale(r)
          \/ Commit(r) \/ Lose(r) \/ Deadlock(r)
    \/ \E t \in Usable, odd \in BOOLEAN : Use(t, odd)

Spec == Init /\ [][Next]_vars
(* A started command is carried on: a runner that can take a step takes it. *)
FairSpec == Spec /\ \A r \in Runners : WF_vars(RunnerStep(r))
-----------------------------------------------------------------------------
TypeOK ==
    /\ version \in Versions
    /\ db.filled \subseteq Tables /\ db.odd \subseteq db.filled
    /\ commands \in 0..MaxCommands
    /\ \A r \in Runners :
          /\ runs[r].pc \in {"idle", "apply", "stamp", "commit"}
          /\ runs[r].at \in Versions /\ runs[r].from \in Versions /\ runs[r].to \in Versions
          /\ runs[r].locked \subseteq Tables
          /\ runs[r].answer \in {"none", "done", "refused", "stale", "lost", "deadlock"}

(* Whatever was refused, lost or run at once, the database has exactly the  *)
(* schema that the revisions up to its version make: env.py runs all of a   *)
(* command's revisions and their version in one transaction.                *)
VersionNamesSchema == db.tables = SchemaAt[version]

(* The upgrades run one after the other on an empty database, each finding  *)
(* the tables, columns and constraints it works on as the ones before left  *)
(* them, and at the last of them the tables are those app/models declares.  *)
LatestIsTheModels == version = Latest => db.tables = ModelTables

(* An upgrade that is carried out keeps the rows of every table the          *)
(* application still has, those inserted while it ran included.             *)
RowsOutliveUpgrades ==
    [][version' > version =>
          \A t \in db.filled : ModelTables[t] # Absent => t \in db'.filled]_vars

(* The schema changes only by the commit of a command that began at the     *)
(* version it replaces: of two commands that read the same version one at   *)
(* most takes effect, and one that is refused or lost has no effect.        *)
OneCommandPerVersion ==
    [][db'.tables # db.tables =>
          \E r \in Runners : /\ runs[r].pc = "commit" /\ runs[r].from = version
                             /\ version' = runs[r].to]_vars

(* The statements a command has still to make: two a revision, and COMMIT.  *)
Distance(run) == IF Rises(run) THEN run.to - run.at ELSE run.at - run.to
StatementsLeft(run) ==
    CASE run.pc = "apply" -> 2 * Distance(run) + 1
      [] run.pc = "stamp" -> 2 * Distance(run)
      [] run.pc = "commit" -> 1
      [] run.pc = "idle" -> 0

(* A command never turns away from the version it was asked for: each       *)
(* statement, up or down, leaves it fewer to make, and nothing another      *)
(* command or the application does sets it back (env.py:58-68).             *)
CommandsGoForward ==
    [][\A r \in Runners : runs[r].pc # "idle" =>
          runs'[r] = runs[r] \/ StatementsLeft(runs'[r]) < StatementsLeft(runs[r])]_vars

(* Every command ends, whichever other one holds the tables it needs.       *)
EveryCommandEnds == \A r \in Runners : runs[r].pc # "idle" ~> runs[r].pc = "idle"
=============================================================================
