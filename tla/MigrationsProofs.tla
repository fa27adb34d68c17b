-------------------------- MODULE MigrationsProofs --------------------------
(***************************************************************************)
(* The version names the schema, for every number of operators, every       *)
(* version to begin at and every number of commands.                        *)
(*                                                                          *)
(* First what a revision is, whatever its operations: the local function    *)
(* of Result is shown to exist by induction over the operations, and with   *)
(* it that a revision leaves alone what it does not lock and does the same  *)
(* to tables with rows and without.  Then the invariant: a command's view   *)
(* is the schema of the version it is at.  Its heart is the first revision  *)
(* of a command, which may be run on tables of a version that is not the    *)
(* one the command read: only the stamp finds that out, and RevisionsFit    *)
(* is the fact about the revisions that makes this early enough.            *)
(***************************************************************************)
EXTENDS Migrations, WellFoundedInduction, TLAPS

(* A set of numbers that has 0 and with each number the next has them all.  *)
LEMMA Induction ==
    ASSUME NEW S \in SUBSET Nat, 0 \in S, \A n \in S : n + 1 \in S
    PROVE  S = Nat
<1> DEFINE less == { p \in Nat \X Nat : p[1] < p[2] }
           T == Nat \ S
<1>1. SUFFICES ASSUME T # {} PROVE FALSE
  OBVIOUS
<1>2. IsWellFoundedOn(less, Nat)
  BY NatLessThanWellFounded DEF OpToRel
<1> HIDE DEF less
<1>3. PICK x \in T : \A y \in T : ~(<<y, x>> \in less)
  BY <1>1, <1>2, WFMin
<1>4. \A y \in T : ~(y < x)
  BY <1>3 DEF less
<1>5. x # 0 /\ x - 1 \in Nat /\ x - 1 \notin T
  BY <1>4
<1> QED BY <1>5

(* A revision before its first operation.                                   *)
Begun(base) == [db |-> base, locks |-> {}, refused |-> FALSE]

(* Result binds the run so far by a set of one, for TLC's sake.             *)
LEMMA OneOfOne ==
    ASSUME NEW run0, NEW o
    PROVE  (CHOOSE next \in { Step(run, o) : run \in {run0} } : TRUE) = Step(run0, o)
OBVIOUS

(* Result is what its operations make, one after the other: its local       *)
(* function exists, has the value of each step, and gives the result.       *)
LEMMA ResultIsAFold ==
    ASSUME NEW base, NEW ops, Len(ops) \in Nat
    PROVE  \E f : /\ f[0] = Begun(base)
                  /\ \A i \in 1..Len(ops) : f[i] = Step(f[i - 1], ops[i])
                  /\ Result(base, ops) = f[Len(ops)]
<1> DEFINE n == Len(ops)
           Value(g, i) ==
              IF i = 0 THEN [db |-> base, locks |-> {}, refused |-> FALSE]
              ELSE CHOOSE next \in { Step(run, ops[i]) : run \in {g[i - 1]} } : TRUE
           Computes(m, g) == g = [i \in 0..m |-> Value(g, i)]
           S == { m \in Nat : \E g : Computes(m, g) }
           after == CHOOSE g : Computes(n, g)
<1>1. Result(base, ops) = after[n]
  BY DEF Result
<1>2. /\ \A g : Value(g, 0) = Begun(base)
      /\ \A g, i : i # 0 => Value(g, i) = Step(g[i - 1], ops[i])
  BY OneOfOne DEF Begun
<1> HIDE DEF Value
<1>3. 0 \in S
  <2> DEFINE g0 == [i \in 0..0 |-> Begun(base)]
  <2>1. \A i \in 0..0 : g0[i] = Value(g0, i)
    BY <1>2
  <2>2. Computes(0, g0)
    BY <2>1
  <2> QED BY <2>2
<1>4. ASSUME NEW m \in S PROVE m + 1 \in S
  <2>1. PICK g : Computes(m, g)
    OBVIOUS
  <2> DEFINE h == [i \in 0..(m + 1) |-> IF i = m + 1 THEN Step(g[m], ops[m + 1]) ELSE g[i]]
  <2>2. \A i \in 0..m : h[i] = g[i] /\ g[i] = Value(g, i)
    BY <2>1
  <2>3. h[m + 1] = Step(g[m], ops[m + 1]) /\ m + 1 # 0
    OBVIOUS
  <2>4. ASSUME NEW i \in 0..(m + 1) PROVE h[i] = Value(h, i)
    <3>1. CASE i = 0
      <4>1. 0 \in 0..m /\ Value(g, 0) = Begun(base) /\ Value(h, 0) = Begun(base)
        BY <1>2
      <4> HIDE DEF h
      <4> QED BY <2>2, <3>1, <4>1
    <3>2. CASE i \in 1..m
      <4>1. i - 1 \in 0..m /\ i \in 0..m /\ i # 0
        BY <3>2
      <4>2. h[i] = Step(g[i - 1], ops[i])
        BY <1>2, <2>2, <4>1
      <4> HIDE DEF h
      <4>3. h[i] = Step(h[i - 1], ops[i])
        BY <2>2, <4>1, <4>2
      <4> QED BY <1>2, <4>1, <4>3
    <3>3. CASE i = m + 1
      <4>1. m \in 0..m /\ i - 1 = m /\ i # 0
        BY <3>3
      <4> HIDE DEF h
      <4>2. h[i] = Step(h[i - 1], ops[i])
        BY <2>2, <2>3, <3>3, <4>1
      <4> QED BY <1>2, <4>1, <4>2
    <3> QED BY <3>1, <3>2, <3>3
  <2>5. Computes(m + 1, h)
    <3> DEFINE v == [i \in 0..(m + 1) |-> Value(h, i)]
    <3>1. DOMAIN h = DOMAIN v /\ \A i \in DOMAIN v : h[i] = v[i]
      BY <2>4
    <3> QED BY <3>1
  <2> HIDE DEF h
  <2> QED BY <2>5
<1>5. S = Nat
  BY <1>3, <1>4, Induction
<1>6. Computes(n, after)
  BY <1>5
<1> HIDE DEF after
<1>7. \A i \in 0..n : after[i] = Value(after, i)
  BY <1>6
<1>8. after[0] = Begun(base)
  BY <1>2, <1>7
<1>9. \A i \in 1..n : after[i] = Step(after[i - 1], ops[i])
  BY <1>2, <1>7
<1> QED BY <1>1, <1>8, <1>9
-----------------------------------------------------------------------------
(* The shape of db and of what a command has seen.                          *)
IsDatabase(d) ==
    /\ d = [tables |-> d.tables, filled |-> d.filled, odd |-> d.odd]
    /\ d.tables = [t \in Tables |-> d.tables[t]]
    /\ d.filled \subseteq Tables /\ d.odd \subseteq d.filled

(* What the operations so far have made of base: nothing outside what they  *)
(* locked, and no rows are gone but those of the tables in drops.           *)
Follows(base, run, drops) ==
    /\ run.locks \subseteq Tables /\ IsDatabase(run.db)
    /\ \A t \in Tables : t \notin run.locks => run.db.tables[t] = base.tables[t]
    /\ run.db.filled \subseteq base.filled /\ base.filled \ drops \subseteq run.db.filled

(* The table whose rows an operation takes away.                            *)
Drops(o) == IF o.op = "drop_table" THEN {o.table} ELSE {}

(* An operation leaves the other tables and their rows alone, and makes the *)
(* same of its table whether there are rows in it or not.                   *)
LEMMA AfterFollows ==
    ASSUME NEW d, IsDatabase(d), NEW o, IsOperation(o)
    PROVE  /\ IsDatabase(After(d, o))
           /\ After(d, o).filled = d.filled \ Drops(o)
           /\ \A t \in Tables : t # o.table => After(d, o).tables[t] = d.tables[t]
           /\ After(Bare(d.tables), o) = Bare(After(d, o).tables)
<1> DEFINE made == Altered(d.tables[o.table], o)
           tables == [d.tables EXCEPT ![o.table] = made]
<1>1. /\ After(d, o).tables = tables
      /\ After(d, o) = [tables |-> tables, filled |-> d.filled \ Drops(o), odd |-> d.odd \ Drops(o)]
      /\ After(Bare(d.tables), o) = [tables |-> tables, filled |-> {}, odd |-> {}]
  BY DEF After, Drops, Bare
<1> HIDE DEF made
<1>2. /\ tables = [t \in Tables |-> tables[t]]
      /\ \A t \in Tables : t # o.table => tables[t] = d.tables[t]
  BY DEF IsDatabase
<1> HIDE DEF tables
<1> QED BY <1>1, <1>2 DEF IsDatabase, Bare

(* An operation locks tables of the schema, its own among them.             *)
LEMMA LocksAreTables ==
    ASSUME NEW tables, NEW o, IsOperation(o)
    PROVE  Locks(tables, o) \subseteq Tables /\ o.table \in Locks(tables, o)
BY DEF Locks, IsOperation, Targets

(* Rows are only ever a reason more to refuse an operation.                 *)
LEMMA MoreIsRefused ==
    ASSUME NEW d, NEW o, Refused(Bare(d.tables), o)
    PROVE  Refused(d, o)
BY DEF Refused, Bare

(* A step has three outcomes: nothing more is run, refused, carried out.    *)
LEMMA StepOutcomes ==
    ASSUME NEW run, NEW o
    PROVE  /\ run.refused => Step(run, o) = run
           /\ ~run.refused => Step(run, o).locks = run.locks \cup Locks(run.db.tables, o)
           /\ ~run.refused /\ Refused(run.db, o) =>
                 Step(run, o).db = run.db /\ Step(run, o).refused
           /\ ~run.refused /\ ~Refused(run.db, o) =>
                 Step(run, o).db = After(run.db, o) /\ ~Step(run, o).refused
<1> HIDE DEF Refused
<1> QED BY DEF Step

(* One operation more keeps what Follows says of those before it.           *)
LEMMA StepFollows ==
    ASSUME NEW base, NEW run, NEW drops, Follows(base, run, drops), NEW o, IsOperation(o)
    PROVE  Follows(base, Step(run, o), drops \cup Drops(o))
<1>1. CASE run.refused
  BY <1>1, StepOutcomes DEF Follows
<1>2. CASE ~run.refused /\ Refused(run.db, o)
  BY <1>2, StepOutcomes, LocksAreTables DEF Follows
<1>3. CASE ~run.refused /\ ~Refused(run.db, o)
  <2> DEFINE d == After(run.db, o)
             locks == run.locks \cup Locks(run.db.tables, o)
  <2>1. Step(run, o).db = d /\ Step(run, o).locks = locks
    BY <1>3, StepOutcomes
  <2>2. /\ IsDatabase(d) /\ d.filled = run.db.filled \ Drops(o)
        /\ \A t \in Tables : t # o.table => d.tables[t] = run.db.tables[t]
    BY AfterFollows DEF Follows
  <2>3. locks \subseteq Tables /\ o.table \in locks /\ run.locks \subseteq locks
    BY LocksAreTables DEF Follows
  <2> HIDE DEF d, locks
  <2> QED BY <2>1, <2>2, <2>3 DEF Follows
<1> QED BY <1>1, <1>2, <1>3

(* The same operations on the same tables without rows.                     *)
Twin(run, bare) ==
    ~bare.refused /\ bare.locks = run.locks /\ bare.db = Bare(run.db.tables)

(* One operation more, not refused, does the same with rows and without.    *)
LEMMA StepTwins ==
    ASSUME NEW run, NEW bare, Twin(run, bare), IsDatabase(run.db), NEW o, IsOperation(o),
           ~Step(run, o).refused
    PROVE  ~run.refused /\ Twin(Step(run, o), Step(bare, o))
<1>1. ~run.refused /\ ~Refused(run.db, o)
  BY StepOutcomes
<1>2. /\ Step(run, o).locks = run.locks \cup Locks(run.db.tables, o)
      /\ Step(run, o).db = After(run.db, o)
  BY <1>1, StepOutcomes
<1>3. ~bare.refused /\ ~Refused(bare.db, o)
  BY <1>1, MoreIsRefused DEF Twin
<1>4. /\ ~Step(bare, o).refused /\ Step(bare, o).db = After(bare.db, o)
      /\ Step(bare, o).locks = bare.locks \cup Locks(bare.db.tables, o)
  BY <1>3, StepOutcomes
<1>5. After(bare.db, o) = Bare(After(run.db, o).tables)
  BY AfterFollows DEF Twin
<1>6. bare.db.tables = run.db.tables /\ bare.locks = run.locks
  BY DEF Twin, Bare
<1> QED BY <1>1, <1>2, <1>4, <1>5, <1>6 DEF Twin

(* All that the lemmas need of a revision's operations.                     *)
AreOperations(ops) ==
    Len(ops) \in Nat /\ \A i \in 1..Len(ops) : IsOperation(ops[i])
Dropped(ops) == UNION { Drops(ops[i]) : i \in 1..Len(ops) }

(* Before the first operation the base is as it was.                        *)
LEMMA BegunFollows ==
    ASSUME NEW base, IsDatabase(base), NEW drops
    PROVE  /\ Follows(base, Begun(base), drops) /\ ~Begun(base).refused
           /\ Begun(base).locks = {} /\ Begun(base).db = base
BY DEF Follows, Begun

(* Whatever a revision's operations are, refused or not: the tables it does *)
(* not lock are as they were, and no rows are lost but those of the tables it *)
(* drops.                                                                   *)
LEMMA ResultFollows ==
    ASSUME NEW base, IsDatabase(base), NEW ops, AreOperations(ops)
    PROVE  Follows(base, Result(base, ops), Dropped(ops))
<1> DEFINE n == Len(ops)
           all == Dropped(ops)
<1>1. n \in Nat /\ \A i \in 1..n : IsOperation(ops[i]) /\ Drops(ops[i]) \subseteq all
  BY DEF AreOperations, Dropped
<1>2. PICK f : /\ f[0] = Begun(base)
               /\ \A i \in 1..n : f[i] = Step(f[i - 1], ops[i])
               /\ Result(base, ops) = f[n]
  BY <1>1, ResultIsAFold
<1> HIDE DEF n, all
<1> DEFINE S == { m \in Nat : m <= n => Follows(base, f[m], all) }
<1>3. 0 \in S
  BY <1>2, BegunFollows
<1>4. ASSUME NEW m \in S PROVE m + 1 \in S
  <2> SUFFICES ASSUME m + 1 <= n PROVE Follows(base, f[m + 1], all)
    OBVIOUS
  <2>1. m + 1 \in 1..n /\ (m + 1) - 1 = m
    BY <1>1
  <2>2. f[m + 1] = Step(f[m], ops[m + 1]) /\ IsOperation(ops[m + 1])
    BY <1>1, <1>2, <2>1
  <2>3. Follows(base, f[m], all)
    BY <1>1
  <2>4. Follows(base, Step(f[m], ops[m + 1]), all \cup Drops(ops[m + 1]))
    BY <2>2, <2>3, StepFollows
  <2>5. all \cup Drops(ops[m + 1]) = all
    BY <1>1, <2>1
  <2> QED BY <2>2, <2>4, <2>5
<1>5. S = Nat
  BY <1>3, <1>4, Induction
<1> QED BY <1>1, <1>2, <1>5 DEF all

(* What is carried out on tables with rows is carried out without them, and *)
(* makes the same tables of them.                                           *)
LEMMA ResultTwins ==
    ASSUME NEW base, IsDatabase(base), NEW ops, AreOperations(ops),
           ~Result(base, ops).refused
    PROVE  Twin(Result(base, ops), Result(Bare(base.tables), ops))
<1> DEFINE n == Len(ops)
           all == Dropped(ops)
           bare == Bare(base.tables)
<1>1. n \in Nat /\ \A i \in 1..n : IsOperation(ops[i]) /\ Drops(ops[i]) \subseteq all
  BY DEF AreOperations, Dropped
<1>2. PICK f : /\ f[0] = Begun(base)
               /\ \A i \in 1..n : f[i] = Step(f[i - 1], ops[i])
               /\ Result(base, ops) = f[n]
  BY <1>1, ResultIsAFold
<1>3. PICK g : /\ g[0] = Begun(bare)
               /\ \A i \in 1..n : g[i] = Step(g[i - 1], ops[i])
               /\ Result(bare, ops) = g[n]
  BY <1>1, ResultIsAFold
<1> HIDE DEF n, all
<1> DEFINE Holds(m) == /\ Follows(base, f[m], all)
                       /\ ~f[m].refused => Twin(f[m], g[m])
           S == { m \in Nat : m <= n => Holds(m) }
<1>4. 0 \in S
  <2>1. Follows(base, f[0], all) /\ Twin(f[0], g[0])
    BY <1>2, <1>3, BegunFollows DEF Begun, Twin
  <2>2. Holds(0)
    BY <2>1
  <2> HIDE DEF Holds
  <2> QED BY <2>2
<1>5. ASSUME NEW m \in S PROVE m + 1 \in S
  <2> HIDE DEF Holds
  <2> SUFFICES ASSUME m + 1 <= n PROVE Holds(m + 1)
    OBVIOUS
  <2>0. Holds(m)
    BY <1>1
  <2> USE DEF Holds
  <2>1. m + 1 \in 1..n /\ (m + 1) - 1 = m
    BY <1>1
  <2>2. /\ f[m + 1] = Step(f[m], ops[m + 1]) /\ g[m + 1] = Step(g[m], ops[m + 1])
        /\ IsOperation(ops[m + 1])
    BY <1>1, <1>2, <1>3, <2>1
  <2>3. Follows(base, f[m], all) /\ (~f[m].refused => Twin(f[m], g[m]))
    BY <2>0
  <2>4. Follows(base, Step(f[m], ops[m + 1]), all \cup Drops(ops[m + 1]))
    BY <2>2, <2>3, StepFollows
  <2>5. all \cup Drops(ops[m + 1]) = all
    BY <1>1, <2>1
  <2>6. ASSUME ~f[m + 1].refused PROVE Twin(f[m + 1], g[m + 1])
    <3>1. ~Step(f[m], ops[m + 1]).refused /\ IsDatabase(f[m].db)
      BY <2>2, <2>3, <2>6 DEF Follows
    <3>2. ~f[m].refused
      BY <3>1, StepOutcomes
    <3>3. Twin(f[m], g[m])
      BY <2>3, <3>2
    <3> QED BY <2>2, <3>1, <3>3, StepTwins
  <2> QED BY <2>2, <2>4, <2>5, <2>6
<1>6. S = Nat
  BY <1>4, <1>5, Induction
<1> HIDE DEF Holds
<1>7. Holds(n)
  BY <1>1, <1>6
<1> QED BY <1>2, <1>3, <1>7 DEF Holds
-----------------------------------------------------------------------------
Neighbours(v, n) == v \in Versions /\ n \in Versions /\ v - n \in {-1, 1}

(* The revisions between neighbouring versions are sequences of operations  *)
(* and fit the schemas of those versions (RevisionsFit).                    *)
LEMMA RevisionsAreOperations ==
    ASSUME NEW v, NEW n, Neighbours(v, n)
    PROVE  AreOperations(Between(v, n)) /\ \A w \in Versions : Fits(v, n, w)
BY RevisionsFit DEF Neighbours, AreOperations

(* A version's schema has every table.                                      *)
LEMMA SchemasAreTables ==
    ASSUME NEW v \in Versions
    PROVE  SchemaAt[v] = [t \in Tables |-> SchemaAt[v][t]]
BY RevisionsFit

(* The versions are counted from 0.                                         *)
LEMMA LatestIsANumber == Latest \in Nat
BY DEF Latest, Upgrades
-----------------------------------------------------------------------------
(* The tables the application still has.                                    *)
Modelled == { t \in Tables : ModelTables[t] # Absent }

(* What a transaction sees of a database d, as Merged has it of db.         *)
View(d, run) ==
    [tables |-> [t \in Tables |-> IF t \in run.locked THEN run.seen.tables[t] ELSE d.tables[t]],
     filled |-> (d.filled \ run.locked) \cup (run.seen.filled \cap run.locked),
     odd |-> (d.odd \ run.locked) \cup (run.seen.odd \cap run.locked)]

(* The fields of a command and what they hold.                              *)
IsRecord(c) ==
    c = [pc |-> c.pc, from |-> c.from, at |-> c.at, to |-> c.to, locked |-> c.locked,
         seen |-> c.seen, stamped |-> c.stamped, answer |-> c.answer]
IsCommand(c) ==
    /\ IsRecord(c) /\ c.pc \in {"idle", "apply", "stamp", "commit"}
    /\ c.from \in Versions /\ c.at \in Versions /\ c.to \in Versions
    /\ c.locked \subseteq Tables /\ IsDatabase(c.seen)
    /\ c.answer \in {"none", "done", "refused", "stale", "lost", "deadlock"}

(* A first revision was run on tables that had the schema of some version   *)
(* when they were locked, and have it still.                                *)
Ran(d, run) ==
    \E w \in Versions :
        LET made == Result(Bare(SchemaAt[w]), Revision(run))
        IN  /\ ~made.refused /\ run.locked = made.locks
            /\ \A t \in run.locked :
                  run.seen.tables[t] = made.db.tables[t] /\ d.tables[t] = SchemaAt[w][t]

(* Where a command stands: without a stamp it has at most one revision run, *)
(* and after its stamp, which no other can have beside it, its view is the  *)
(* schema of a version while the database stays at the one it began at.     *)
Steady(d, v, run) ==
    /\ run.pc = "idle" => run.locked = {} /\ ~run.stamped
    /\ run.pc \in {"apply", "stamp"} => run.at # run.to
    /\ run.pc = "commit" => run.at = run.to
    /\ run.stamped => v = run.from
    /\ ~run.stamped => run.at = run.from
    /\ ~run.stamped /\ run.pc # "stamp" => run.locked = {}
    /\ run.stamped /\ run.pc # "stamp" => View(d, run).tables = SchemaAt[run.at]
    /\ run.stamped /\ run.pc = "stamp" => View(d, run).tables = SchemaAt[Ahead(run)]
    /\ ~run.stamped /\ run.pc = "stamp" => Ran(d, run)

(* A command that upgrades has kept the rows of the application's tables.   *)
Keeps(d, run) ==
    run.from < run.to =>
        /\ run.at <= run.to
        /\ \A t \in run.locked \cap d.filled \cap Modelled : t \in run.seen.filled

(* The inductive invariant.                                                 *)
AtVersion(d, v) == IsDatabase(d) /\ v \in Versions /\ d.tables = SchemaAt[v]
Sound(d, v, run) == IsCommand(run) /\ Steady(d, v, run) /\ Keeps(d, run)
Apart(c, e) == c.locked \cap e.locked = {} /\ ~(c.stamped /\ e.stamped)

MInv ==
    /\ AtVersion(db, version) /\ commands \in 0..MaxCommands
    /\ runs = [r \in Runners |-> runs[r]]
    /\ \A r \in Runners : Sound(db, version, runs[r])
    /\ \A r, q \in Runners : r # q => Apart(runs[r], runs[q])
-----------------------------------------------------------------------------
(* The view of the database as it is now is the one of the model.           *)
LEMMA MergedIsView == \A run : Merged(run) = View(db, run)
BY DEF Merged, View

(* The view is a database: the command's own work on what it locked, the    *)
(* database's tables and rows elsewhere.                                    *)
LEMMA ViewIsADatabase ==
    ASSUME NEW d, IsDatabase(d), NEW run, IsDatabase(run.seen), run.locked \subseteq Tables
    PROVE  /\ IsDatabase(View(d, run))
           /\ \A t \in Tables : View(d, run).tables[t] =
                 IF t \in run.locked THEN run.seen.tables[t] ELSE d.tables[t]
           /\ \A t \in Tables : t \in View(d, run).filled <=>
                 IF t \in run.locked THEN t \in run.seen.filled ELSE t \in d.filled
<1> DEFINE tables == [t \in Tables |-> IF t \in run.locked THEN run.seen.tables[t] ELSE d.tables[t]]
           filled == (d.filled \ run.locked) \cup (run.seen.filled \cap run.locked)
           odd == (d.odd \ run.locked) \cup (run.seen.odd \cap run.locked)
<1>1. View(d, run) = [tables |-> tables, filled |-> filled, odd |-> odd]
  BY DEF View
<1>2. /\ tables = [t \in Tables |-> tables[t]]
      /\ \A t \in Tables : tables[t] = IF t \in run.locked THEN run.seen.tables[t] ELSE d.tables[t]
  OBVIOUS
<1>3. /\ filled \subseteq Tables /\ odd \subseteq filled
      /\ \A t \in Tables : t \in filled <=>
            IF t \in run.locked THEN t \in run.seen.filled ELSE t \in d.filled
  BY DEF IsDatabase
<1> HIDE DEF tables, filled, odd
<1> QED BY <1>1, <1>2, <1>3 DEF IsDatabase

(* The next version of a command that is not there yet is a neighbour of the *)
(* one it is at, and not beyond the one it goes to.                         *)
LEMMA AheadIsNear ==
    ASSUME NEW run, run.at \in Versions, run.to \in Versions, run.at # run.to
    PROVE  /\ Neighbours(run.at, Ahead(run))
           /\ run.at < run.to => Ahead(run) = run.at + 1 /\ Ahead(run) <= run.to
BY LatestIsANumber DEF Neighbours, Ahead, Rises, Versions

(* A command that has ended is sound whatever the database has become.      *)
LEMMA ClosedIsSound ==
    ASSUME NEW answer \in {"none", "done", "refused", "stale", "lost", "deadlock"},
           NEW d, NEW v
    PROVE  LET c == [Idle EXCEPT !.answer = answer]
           IN  Sound(d, v, c) /\ c.locked = {} /\ ~c.stamped
<1> DEFINE c == [Idle EXCEPT !.answer = answer]
<1>0. Idle = [pc |-> Idle.pc, from |-> Idle.from, at |-> Idle.at, to |-> Idle.to,
              locked |-> Idle.locked, seen |-> Idle.seen, stamped |-> Idle.stamped,
              answer |-> Idle.answer]
  BY DEF Idle
<1>1. /\ c = [pc |-> "idle", from |-> 0, at |-> 0, to |-> 0, locked |-> {},
              seen |-> EmptyDatabase, stamped |-> Idle.stamped, answer |-> answer]
      /\ ~Idle.stamped
  <2>1. c = [pc |-> Idle.pc, from |-> Idle.from, at |-> Idle.at, to |-> Idle.to,
             locked |-> Idle.locked, seen |-> Idle.seen, stamped |-> Idle.stamped,
             answer |-> answer]
    BY <1>0
  <2> HIDE DEF c
  <2> QED BY <2>1 DEF Idle
<1>2. 0 \in Versions
  BY LatestIsANumber DEF Versions
<1>3. IsDatabase(EmptyDatabase)
  BY DEF IsDatabase, EmptyDatabase, Empty
<1> HIDE DEF c
<1>4. IsCommand(c)
  BY <1>1, <1>2, <1>3 DEF IsCommand, IsRecord
<1>5. Steady(d, v, c)
  BY <1>1 DEF Steady
<1>6. Keeps(d, c)
  BY <1>1 DEF Keeps
<1>7. Sound(d, v, c) /\ c.locked = {} /\ ~c.stamped
  BY <1>1, <1>4, <1>5, <1>6 DEF Sound
<1> QED BY <1>7 DEF c

-----------------------------------------------------------------------------
(* The records that Start, Apply and Stamp make, field by field.            *)
Begin(c, p, f, a, t) == [c EXCEPT !.pc = p, !.from = f, !.at = a, !.to = t]
(* Start: a transaction at the version that was read.                       *)
LEMMA Began ==
    ASSUME NEW c, IsRecord(c), NEW p, NEW f, NEW a, NEW t
    PROVE  Begin(c, p, f, a, t)
             = [pc |-> p, from |-> f, at |-> a, to |-> t, locked |-> c.locked,
                seen |-> c.seen, stamped |-> c.stamped, answer |-> c.answer]
<1> DEFINE d == [c EXCEPT !.pc = p]
           e == [d EXCEPT !.from = f]
           g == [e EXCEPT !.at = a]
           h == [g EXCEPT !.to = t]
<1>1. Begin(c, p, f, a, t) = h
  BY DEF IsRecord, Begin
<1>2. d = [pc |-> p, from |-> c.from, at |-> c.at, to |-> c.to, locked |-> c.locked,
           seen |-> c.seen, stamped |-> c.stamped, answer |-> c.answer]
  BY DEF IsRecord
<1> HIDE DEF d
<1>3. IsRecord(d)
  BY <1>2 DEF IsRecord
<1>4. e = [pc |-> p, from |-> f, at |-> c.at, to |-> c.to, locked |-> c.locked,
           seen |-> c.seen, stamped |-> c.stamped, answer |-> c.answer]
  BY <1>2, <1>3 DEF IsRecord
<1> HIDE DEF e
<1>5. IsRecord(e)
  BY <1>4 DEF IsRecord
<1>6. g = [pc |-> p, from |-> f, at |-> a, to |-> c.to, locked |-> c.locked,
           seen |-> c.seen, stamped |-> c.stamped, answer |-> c.answer]
  BY <1>4, <1>5 DEF IsRecord
<1> HIDE DEF g
<1>7. IsRecord(g)
  BY <1>6 DEF IsRecord
<1>8. h = [pc |-> p, from |-> f, at |-> a, to |-> t, locked |-> c.locked,
           seen |-> c.seen, stamped |-> c.stamped, answer |-> c.answer]
  BY <1>6, <1>7 DEF IsRecord
<1> QED BY <1>1, <1>8

Work(c, p, s, l) == [c EXCEPT !.pc = p, !.seen = s, !.locked = l]
(* Apply: what was made and what was locked.                                *)
LEMMA Worked ==
    ASSUME NEW c, IsRecord(c), NEW p, NEW s, NEW l
    PROVE  Work(c, p, s, l) = [pc |-> p, from |-> c.from, at |-> c.at, to |-> c.to, locked |-> l,
                seen |-> s, stamped |-> c.stamped, answer |-> c.answer]
<1> DEFINE d == [c EXCEPT !.pc = p]
           e == [d EXCEPT !.seen = s]
           g == [e EXCEPT !.locked = l]
<1>1. Work(c, p, s, l) = g
  BY DEF IsRecord, Work
<1>2. d = [pc |-> p, from |-> c.from, at |-> c.at, to |-> c.to, locked |-> c.locked,
           seen |-> c.seen, stamped |-> c.stamped, answer |-> c.answer]
  BY DEF IsRecord
<1> HIDE DEF d
<1>3. IsRecord(d)
  BY <1>2 DEF IsRecord
<1>4. e = [pc |-> p, from |-> c.from, at |-> c.at, to |-> c.to, locked |-> c.locked,
           seen |-> s, stamped |-> c.stamped, answer |-> c.answer]
  BY <1>2, <1>3 DEF IsRecord
<1> HIDE DEF e
<1>5. IsRecord(e)
  BY <1>4 DEF IsRecord
<1>6. g = [pc |-> p, from |-> c.from, at |-> c.at, to |-> c.to, locked |-> l,
           seen |-> s, stamped |-> c.stamped, answer |-> c.answer]
  BY <1>4, <1>5 DEF IsRecord
<1> QED BY <1>1, <1>6

Mark(c, p, a, s) == [c EXCEPT !.pc = p, !.at = a, !.stamped = s]
(* Stamp: the version moved on.                                             *)
LEMMA Stamped ==
    ASSUME NEW c, IsRecord(c), NEW p, NEW a, NEW s
    PROVE  Mark(c, p, a, s)
             = [pc |-> p, from |-> c.from, at |-> a, to |-> c.to, locked |-> c.locked,
                seen |-> c.seen, stamped |-> s, answer |-> c.answer]
<1> DEFINE d == [c EXCEPT !.pc = p]
           e == [d EXCEPT !.at = a]
           g == [e EXCEPT !.stamped = s]
<1>1. Mark(c, p, a, s) = g
  BY DEF IsRecord, Mark
<1>2. d = [pc |-> p, from |-> c.from, at |-> c.at, to |-> c.to, locked |-> c.locked,
           seen |-> c.seen, stamped |-> c.stamped, answer |-> c.answer]
  BY DEF IsRecord
<1> HIDE DEF d
<1>3. IsRecord(d)
  BY <1>2 DEF IsRecord
<1>4. e = [pc |-> p, from |-> c.from, at |-> a, to |-> c.to, locked |-> c.locked,
           seen |-> c.seen, stamped |-> c.stamped, answer |-> c.answer]
  BY <1>2, <1>3 DEF IsRecord
<1> HIDE DEF e
<1>5. IsRecord(e)
  BY <1>4 DEF IsRecord
<1>6. g = [pc |-> p, from |-> c.from, at |-> a, to |-> c.to, locked |-> c.locked,
           seen |-> c.seen, stamped |-> s, answer |-> c.answer]
  BY <1>4, <1>5 DEF IsRecord
<1> QED BY <1>1, <1>6

(* What another commits or the application inserts leaves a command sound: it *)
(* holds no lock on what they change, and if it has stamped no other version *)
(* was committed.                                                           *)
LEMMA Undisturbed ==
    ASSUME NEW d, NEW v, NEW run, IsDatabase(d), Sound(d, v, run),
           NEW d2, NEW v2, IsDatabase(d2),
           run.stamped => v2 = v /\ d2.tables = d.tables,
           \A t \in run.locked : d2.tables[t] = d.tables[t] /\ (t \in d2.filled => t \in d.filled)
    PROVE  Sound(d2, v2, run)
<1>1. IsCommand(run) /\ Steady(d, v, run) /\ Keeps(d, run)
  BY DEF Sound
<1>2. Keeps(d2, run)
  BY <1>1 DEF Keeps
<1>3. run.stamped => View(d2, run).tables = View(d, run).tables
  BY DEF View
<1>4. Ran(d, run) => Ran(d2, run)
  BY DEF Ran
<1>5. Steady(d2, v2, run)
  BY <1>1, <1>3, <1>4 DEF Steady
<1> QED BY <1>1, <1>2, <1>5 DEF Sound

(* A step of one command, the others sound where it leaves the database.    *)
LEMMA OneMoves ==
    ASSUME MInv, NEW r \in Runners, NEW c, runs' = [runs EXCEPT ![r] = c],
           AtVersion(db', version'), commands' \in 0..MaxCommands,
           Sound(db', version', c),
           \A q \in Runners \ {r} : Apart(c, runs[q]) /\ Sound(db', version', runs[q])
    PROVE  MInv'
<1>1. /\ runs' = [q \in Runners |-> runs'[q]] /\ runs'[r] = c
      /\ \A q \in Runners \ {r} : runs'[q] = runs[q]
  BY DEF MInv
<1>2. \A q \in Runners : Sound(db', version', runs'[q])
  BY <1>1
<1>3. \A p, q \in Runners : p # q => Apart(runs'[p], runs'[q])
  BY <1>1 DEF MInv, Apart
<1> QED BY <1>1, <1>2, <1>3 DEF MInv

(* Refuse, StampStale, Lose and Deadlock: the transaction ends in nothing.  *)
LEMMA CloseKeeps ==
    ASSUME MInv, NEW r \in Runners, UNCHANGED <<version, db, commands>>,
           NEW answer \in {"none", "done", "refused", "stale", "lost", "deadlock"},
           Close(r, answer)
    PROVE  MInv'
<1> DEFINE c == [Idle EXCEPT !.answer = answer]
<1>1. runs' = [runs EXCEPT ![r] = c]
  BY DEF Close
<1>2. Sound(db', version', c) /\ c.locked = {} /\ ~c.stamped
  BY ClosedIsSound
<1> HIDE DEF c
<1>3. \A q \in Runners \ {r} : Apart(c, runs[q]) /\ Sound(db', version', runs[q])
  BY <1>2 DEF MInv, Apart
<1>4. AtVersion(db', version') /\ commands' \in 0..MaxCommands
  BY DEF MInv
<1> QED BY <1>1, <1>2, <1>3, <1>4, OneMoves
-----------------------------------------------------------------------------
(* Operations that leave the rows of the application's tables alone.        *)
Harmless(o) == Drops(o) \cap Modelled = {}
AllHarmless(ops) == \A i \in 1..Len(ops) : Harmless(ops[i])

(* No operation but drop_table takes a table's rows away.                   *)
LEMMA OnlyDropTableDrops ==
    /\ \A t, k, c, u : Harmless(CreateTable(t, k, c, u))
    /\ \A t, c, type : Harmless(AddColumn(t, c, type))
    /\ \A t, c, type : Harmless(AddColumnDefault(t, c, type))
    /\ \A t, c : Harmless(DropColumn(t, c))
    /\ \A o : o.op # "drop_table" => Harmless(o)
    /\ \A t, cs : Harmless(AddUnique(t, cs)) /\ Harmless(DropUnique(t, cs))
    /\ \A t, c, x : Harmless(AddForeignKey(t, c, x))
    /\ \A t, c : Harmless(DropForeignKey(t, c))
<1>1. \A o : o.op # "drop_table" => Harmless(o)
  BY DEF Harmless, Drops
<1>2. \A t, c, type : AddColumnDefault(t, c, type).op = "add_column"
  BY DEF AddColumnDefault, AddColumn
<1> HIDE DEF Harmless
<1> QED BY <1>1, <1>2 DEF CreateTable, AddColumn, DropColumn, AddUnique,
                         DropUnique, AddForeignKey, DropForeignKey

(* The tables that upgrades drop are not among app/models.                  *)
LEMMA DropsOfOldTables ==
    ASSUME NEW t \in {"expenses", "batches", "account_interests", "balance_snapshots",
                      "account_keywords"}
    PROVE  Harmless(DropTable(t))
<1>1. ModelTables[t] = Absent
  <2> HIDE DEF Absent
  <2> DEFINE known == {"users", "refresh_tokens", "accounts", "categories", "transactions"}
  <2>1. t \in Tables /\ t \notin known
    BY DEF Tables
  <2> QED BY <2>1 DEF ModelTables
<1>2. Drops(DropTable(t)) = {t}
  BY DEF Drops, DropTable
<1> QED BY <1>1, <1>2 DEF Harmless, Modelled

(* Making a table takes none away.                                          *)
LEMMA TablesMade ==
    /\ Harmless(Users) /\ Harmless(RefreshTokens) /\ Harmless(Categories) /\ Harmless(Expenses)
    /\ Harmless(Accounts) /\ Harmless(Transactions) /\ Harmless(Snapshots)
    /\ Harmless(Interests) /\ Harmless(Keywords) /\ \A more : Harmless(Batches(more))
BY OnlyDropTableDrops, Zenon DEF Users, RefreshTokens, Categories, Expenses, Accounts,
    Transactions, Snapshots, Interests, Keywords, Batches

(* Each of the fifteen upgrades, operation by operation.                    *)
LEMMA UpgradesAreHarmless ==
    ASSUME NEW n \in 1..Latest PROVE AllHarmless(Upgrades[n])
<1> USE OnlyDropTableDrops, DropsOfOldTables, TablesMade DEF AllHarmless
<1>1. AllHarmless(Up_299b97ac3d78)
  BY DEF Up_299b97ac3d78
<1>2. AllHarmless(Up_b2654272dfbc)
  BY DEF Up_b2654272dfbc
<1>3. AllHarmless(Up_8ecae98b85c1)
  BY DEF Up_8ecae98b85c1
<1>4. AllHarmless(Up_051d81a4b93c)
  BY DEF Up_051d81a4b93c
<1>5. AllHarmless(Up_9d5e9eeaab7c)
  BY DEF Up_9d5e9eeaab7c
<1>6. AllHarmless(Up_5ecce3539d66)
  BY DEF Up_5ecce3539d66
<1>7. AllHarmless(Up_867459fabb58)
  BY DEF Up_867459fabb58
<1>8. AllHarmless(Up_a097e92edde4)
  BY DEF Up_a097e92edde4
<1>9. AllHarmless(Up_3b9fb9f704a4)
  BY DEF Up_3b9fb9f704a4
<1>10. AllHarmless(Up_356d11c8efb4)
  BY DEF Up_356d11c8efb4, AlterColumn, Column
<1>11. AllHarmless(Up_f628b664017d)
  BY DEF Up_f628b664017d, AlterColumn, Column
<1>12. AllHarmless(Up_45cd9dd90817)
  BY DEF Up_45cd9dd90817
<1>13. AllHarmless(Up_64e8f390a112)
  BY DEF Up_64e8f390a112
<1>14. AllHarmless(Up_bcca1c55be76)
  BY DEF Up_bcca1c55be76
<1>15. AllHarmless(Up_34f1173cb0c8)
  BY DEF Up_34f1173cb0c8, AlterColumn, Column
<1> HIDE OnlyDropTableDrops, DropsOfOldTables, TablesMade DEF AllHarmless
<1>16. Latest = 15
  BY DEF Latest, Upgrades
<1> QED BY <1>1, <1>2, <1>3, <1>4, <1>5, <1>6, <1>7, <1>8, <1>9, <1>10, <1>11, <1>12,
           <1>13, <1>14, <1>15, <1>16 DEF Upgrades

(* What an upgrade drops is no table of app/models.                         *)
LEMMA UpgradesKeep ==
    ASSUME NEW v \in Versions, v + 1 \in Versions
    PROVE  Dropped(Between(v, v + 1)) \cap Modelled = {}
<1>1. v \in Nat /\ v + 1 > v /\ v + 1 \in 1..Latest
  BY LatestIsANumber DEF Versions
<1>2. Between(v, v + 1) = Upgrades[v + 1]
  BY <1>1 DEF Between
<1>3. AllHarmless(Upgrades[v + 1])
  BY <1>1, UpgradesAreHarmless
<1> QED BY <1>2, <1>3 DEF Dropped, AllHarmless, Harmless
-----------------------------------------------------------------------------
(* A database at one of its versions and no command.                        *)
LEMMA InitHolds == Init => MInv
<1> SUFFICES ASSUME Init PROVE MInv
  OBVIOUS
<1>1. version \in Versions
  BY StartsAssumption DEF Init
<1>2. AtVersion(db, version)
  <2> DEFINE e == EmptyDatabase
             t == SchemaAt[version]
  <2>1. e = [tables |-> e.tables, filled |-> {}, odd |-> {}]
    BY DEF EmptyDatabase
  <2>2. t = [x \in Tables |-> t[x]]
    BY <1>1, SchemasAreTables
  <2> HIDE DEF e, t
  <2>3. db = [tables |-> t, filled |-> {}, odd |-> {}]
    BY <2>1 DEF Init, e, t
  <2>4. IsDatabase(db) /\ db.tables = t
    BY <2>2, <2>3 DEF IsDatabase
  <2> QED BY <1>1, <2>4 DEF AtVersion, t
<1>3. commands \in 0..MaxCommands
  BY StartsAssumption DEF Init
<1>4. runs = [r \in Runners |-> Idle]
  BY DEF Init
<1>5. Sound(db, version, Idle) /\ Apart(Idle, Idle)
  <2>0. IsRecord(Idle) /\ Idle.answer = "none"
    BY DEF Idle, IsRecord
  <2> HIDE DEF Idle
  <2>1. Idle = [Idle EXCEPT !.answer = "none"]
    BY <2>0 DEF IsRecord
  <2>2. Sound(db, version, Idle) /\ Idle.locked = {} /\ ~Idle.stamped
    BY <2>1, ClosedIsSound
  <2> QED BY <2>2 DEF Apart
<1> HIDE DEF Idle
<1> QED BY <1>2, <1>3, <1>4, <1>5 DEF MInv

(* A command begins at the version that is committed.                       *)
LEMMA StartKeeps ==
    ASSUME MInv, NEW r \in Runners, Start(r)
    PROVE  MInv'
<1>1. PICK to \in {version - 1, version + 1, 0, Latest} \cap Versions :
         runs' = [runs EXCEPT ![r] =
              [Idle EXCEPT !.pc = IF to = version THEN "commit" ELSE "apply",
                           !.from = version, !.at = version, !.to = to]]
  BY DEF Start
<1> DEFINE pc == IF to = version THEN "commit" ELSE "apply"
           c == [Idle EXCEPT !.pc = pc, !.from = version, !.at = version, !.to = to]
<1>2. UNCHANGED <<version, db>> /\ commands' \in 0..MaxCommands
  BY StartsAssumption DEF Start, MInv
<1>3. to \in Versions /\ version \in Versions /\ version' = version /\ db' = db
  BY <1>2 DEF MInv, AtVersion
<1>4. pc \in {"commit", "apply"} /\ (pc = "commit" <=> to = version)
  OBVIOUS
<1>5. runs' = [runs EXCEPT ![r] = c]
  BY <1>1
<1>6. IsRecord(Idle) /\ ~Idle.stamped /\ Idle.locked = {} /\ Idle.seen = EmptyDatabase
      /\ Idle.answer = "none"
  BY DEF IsRecord, Idle
<1> HIDE DEF pc, Idle
<1>0. c = Begin(Idle, pc, version, version, to)
  BY DEF Begin
<1> HIDE DEF c
<1>7. c = [pc |-> pc, from |-> version, at |-> version, to |-> to, locked |-> Idle.locked,
           seen |-> Idle.seen, stamped |-> Idle.stamped, answer |-> Idle.answer]
  BY <1>0, <1>6, Began
<1>8. IsDatabase(EmptyDatabase)
  BY DEF IsDatabase, EmptyDatabase, Empty
<1>9. IsCommand(c) /\ c.locked = {} /\ ~c.stamped
  BY <1>3, <1>4, <1>6, <1>7, <1>8 DEF IsCommand, IsRecord
<1>10. Steady(db', version', c)
  BY <1>3, <1>4, <1>6, <1>7 DEF Steady
<1>11. Keeps(db', c)
  BY <1>3, <1>6, <1>7, LatestIsANumber DEF Keeps, Versions
<1>12. \A q \in Runners \ {r} : Apart(c, runs[q]) /\ Sound(db', version', runs[q])
  BY <1>3, <1>9 DEF MInv, Apart
<1>13. AtVersion(db', version') /\ Sound(db', version', c)
  BY <1>3, <1>9, <1>10, <1>11 DEF MInv, Sound
<1> QED BY <1>2, <1>5, <1>12, <1>13, OneMoves

-----------------------------------------------------------------------------
(* A revision that is carried out on a transaction's tables.                *)
LEMMA Carried ==
    ASSUME NEW base, IsDatabase(base), NEW v, NEW n, Neighbours(v, n),
           NEW w \in Versions, base.tables = SchemaAt[w],
           ~Result(base, Between(v, n)).refused
    PROVE  LET done == Result(base, Between(v, n))
               made == Result(Bare(SchemaAt[w]), Between(v, n))
           IN  /\ done.locks \subseteq Tables /\ IsDatabase(done.db)
               /\ \A t \in Tables : t \notin done.locks => done.db.tables[t] = base.tables[t]
               /\ base.filled \ Dropped(Between(v, n)) \subseteq done.db.filled
               /\ ~made.refused /\ made.locks = done.locks /\ made.db.tables = done.db.tables
<1> DEFINE ops == Between(v, n)
           done == Result(base, ops)
           made == Result(Bare(SchemaAt[w]), ops)
<1>1. AreOperations(ops)
  BY RevisionsAreOperations
<1> HIDE DEF ops
<1>2. Follows(base, done, Dropped(ops))
  BY <1>1, ResultFollows
<1>3. ~done.refused
  BY DEF ops
<1>4. Twin(done, made)
  BY <1>1, <1>3, ResultTwins
<1> HIDE DEF done, made
<1>5. /\ done.locks \subseteq Tables /\ IsDatabase(done.db)
      /\ \A t \in Tables : t \notin done.locks => done.db.tables[t] = base.tables[t]
      /\ base.filled \ Dropped(ops) \subseteq done.db.filled
      /\ ~made.refused /\ made.locks = done.locks /\ made.db.tables = done.db.tables
  BY <1>2, <1>4 DEF Follows, Twin, Bare
<1> QED BY <1>5 DEF done, made, ops

(* The tables of a transaction that has stamped, after one revision more.   *)
LEMMA StampedWork ==
    ASSUME NEW d, IsDatabase(d), NEW run, IsDatabase(run.seen), run.locked \subseteq Tables,
           NEW v, NEW n, Neighbours(v, n), View(d, run).tables = SchemaAt[v],
           NEW done, done = Result(View(d, run), Between(v, n)), ~done.refused,
           NEW c, c.seen = done.db, c.locked = run.locked \cup done.locks
    PROVE  View(d, c).tables = SchemaAt[n]
<1> DEFINE base == View(d, run)
           made == Result(Bare(SchemaAt[v]), Between(v, n))
<1>1. /\ IsDatabase(base)
      /\ \A t \in Tables : base.tables[t] =
                 IF t \in run.locked THEN run.seen.tables[t] ELSE d.tables[t]
  BY ViewIsADatabase
<1>2. v \in Versions /\ n \in Versions /\ base.tables = SchemaAt[v]
  BY DEF Neighbours
<1> HIDE DEF base
<1>3. /\ done.locks \subseteq Tables /\ IsDatabase(done.db)
      /\ \A t \in Tables : t \notin done.locks => done.db.tables[t] = base.tables[t]
      /\ ~made.refused /\ made.locks = done.locks /\ made.db.tables = done.db.tables
  <2>1. done = Result(base, Between(v, n))
    BY DEF base
  <2>2. ~Result(base, Between(v, n)).refused
    BY <2>1
  <2> QED BY <1>1, <1>2, <2>1, <2>2, Carried
<1>4. Fits(v, n, v)
  BY <1>2, RevisionsAreOperations
<1>5. \A t \in Tables :
         SchemaAt[n][t] = IF t \in done.locks THEN done.db.tables[t] ELSE SchemaAt[v][t]
  BY <1>3, <1>4 DEF Fits
<1>6. IsDatabase(View(d, c))
      /\ \A t \in Tables : View(d, c).tables[t] =
            IF t \in c.locked THEN c.seen.tables[t] ELSE d.tables[t]
  <2>1. IsDatabase(c.seen) /\ c.locked \subseteq Tables
    BY <1>3
  <2> QED BY <2>1, ViewIsADatabase
<1>7. \A t \in Tables : View(d, c).tables[t] = SchemaAt[n][t]
  BY <1>1, <1>2, <1>3, <1>5, <1>6
<1>8. SchemaAt[n] = [t \in Tables |-> SchemaAt[n][t]]
  BY <1>2, SchemasAreTables
<1> QED BY <1>6, <1>7, <1>8 DEF IsDatabase

(* A revision is run. The first of a command sees committed tables of the   *)
(* version they are at now, which another command may still change until it *)
(* stamps: Ran remembers that version by what it made of the tables it      *)
(* locked. Those after it see the tables of the version the command is at.  *)
LEMMA ApplyKeeps ==
    ASSUME MInv, NEW r \in Runners, Apply(r)
    PROVE  MInv'
<1> DEFINE run == runs[r]
           base == View(db, run)
           n == Ahead(run)
           done == Result(base, Between(run.at, n))
           locked == run.locked \cup done.locks
           c == Work(run, "stamp", done.db, locked)
<1>1. Applied(run) = done
  BY MergedIsView DEF Applied, Revision
<1>2. /\ run.pc = "apply" /\ WaitsFor(r) = {} /\ ~done.refused
      /\ runs' = [runs EXCEPT ![r] = c]
      /\ UNCHANGED <<version, db, commands>>
  BY <1>1 DEF Apply, Work
<1>3. /\ IsCommand(run) /\ Steady(db, version, run) /\ Keeps(db, run)
      /\ IsDatabase(db) /\ version \in Versions /\ db.tables = SchemaAt[version]
  BY DEF MInv, Sound, AtVersion
<1>4. \A q \in Runners \ {r} : runs[q].locked \cap done.locks = {}
  <2> SUFFICES ASSUME NEW q \in Runners \ {r}, runs[q].locked # {}
               PROVE  runs[q].locked \cap done.locks = {}
    OBVIOUS
  <2>1. runs[q].pc # "idle"
    BY DEF MInv, Sound, Steady
  <2>2. q \in { p \in Runners \ {r} : runs[p].pc # "idle" }
    BY <2>1
  <2> HIDE DEF done
  <2> QED BY <1>1, <1>2, <2>2 DEF WaitsFor
<1> HIDE DEF run
<1>5. Neighbours(run.at, n) /\ (run.at < run.to => n = run.at + 1 /\ n <= run.to)
  BY <1>2, <1>3, AheadIsNear DEF IsCommand, Steady
<1>6. /\ IsDatabase(base)
      /\ \A t \in Tables : base.tables[t] =
                 IF t \in run.locked THEN run.seen.tables[t] ELSE db.tables[t]
      /\ \A t \in Tables : t \in base.filled <=>
                 IF t \in run.locked THEN t \in run.seen.filled ELSE t \in db.filled
  BY <1>3, ViewIsADatabase DEF IsCommand
<1>7. PICK w \in Versions : base.tables = SchemaAt[w] /\ w = IF run.stamped THEN run.at ELSE version
  <2>1. CASE run.stamped
    BY <1>2, <1>3, <2>1 DEF Steady, IsCommand
  <2>2. CASE ~run.stamped
    <3>1. run.locked = {}
      BY <1>2, <1>3, <2>2 DEF Steady
    <3>2. base.tables = db.tables
      BY <1>3, <1>6, <3>1 DEF IsDatabase
    <3> QED BY <1>3, <2>2, <3>2
  <2> QED BY <2>1, <2>2
<1> DEFINE made == Result(Bare(SchemaAt[w]), Between(run.at, n))
<1> HIDE DEF n, base
<1>8. /\ done.locks \subseteq Tables /\ IsDatabase(done.db)
      /\ \A t \in Tables : t \notin done.locks => done.db.tables[t] = base.tables[t]
      /\ base.filled \ Dropped(Between(run.at, n)) \subseteq done.db.filled
      /\ ~made.refused /\ made.locks = done.locks /\ made.db.tables = done.db.tables
  BY <1>2, <1>5, <1>6, <1>7, Carried
<1>9. c = [pc |-> "stamp", from |-> run.from, at |-> run.at, to |-> run.to, locked |-> locked,
           seen |-> done.db, stamped |-> run.stamped, answer |-> run.answer]
  <2>1. IsRecord(run)
    BY <1>3 DEF IsCommand
  <2> DEFINE seen == done.db
  <2> HIDE DEF seen, locked
  <2>2. Work(run, "stamp", seen, locked)
          = [pc |-> "stamp", from |-> run.from, at |-> run.at, to |-> run.to, locked |-> locked,
             seen |-> seen, stamped |-> run.stamped, answer |-> run.answer]
    BY <2>1, Worked
  <2> QED BY <2>2 DEF seen
<1> HIDE DEF c
<1>10. IsCommand(c)
  BY <1>3, <1>8, <1>9 DEF IsCommand, IsRecord
<1>11. Rises(c) = Rises(run) /\ Ahead(c) = n /\ Revision(c) = Between(run.at, n)
  BY <1>9 DEF Rises, Ahead, Revision, n
<1>12. ASSUME ~run.stamped PROVE Ran(db, c)
  <2>1. run.locked = {} /\ w = version
    BY <1>2, <1>3, <1>7, <1>12 DEF Steady
  <2>2. /\ c.locked = made.locks /\ c.seen.tables = made.db.tables
        /\ made = Result(Bare(SchemaAt[w]), Revision(c))
    BY <1>8, <1>9, <1>11, <2>1
  <2>3. db.tables = SchemaAt[w]
    BY <1>3, <2>1
  <2> HIDE DEF made
  <2> QED BY <1>8, <2>2, <2>3 DEF Ran
<1>13. ASSUME run.stamped PROVE View(db, c).tables = SchemaAt[n]
  <2>1. View(db, run).tables = SchemaAt[run.at]
    BY <1>2, <1>3, <1>13 DEF Steady
  <2>2. done = Result(View(db, run), Between(run.at, n)) /\ ~done.refused
    BY <1>2 DEF base
  <2>3. c.seen = done.db /\ c.locked = run.locked \cup done.locks
    BY <1>9
  <2>4. IsDatabase(run.seen) /\ run.locked \subseteq Tables
    BY <1>3 DEF IsCommand
  <2> HIDE DEF done
  <2> QED BY <1>3, <1>5, <2>1, <2>2, <2>3, <2>4, StampedWork
<1>14. Steady(db, version, c)
  BY <1>2, <1>3, <1>9, <1>11, <1>12, <1>13 DEF Steady
<1>15. Keeps(db, c)
  <2> SUFFICES ASSUME run.from < run.to,
                      NEW t \in c.locked \cap db.filled \cap Modelled
               PROVE  t \in done.db.filled
    BY <1>3, <1>9 DEF Keeps
  <2>1. run.at < run.to
    BY <1>2, <1>3, LatestIsANumber DEF Keeps, Steady, IsCommand, Versions
  <2>2. t \notin Dropped(Between(run.at, n))
    <3>1. n = run.at + 1 /\ run.at \in Versions /\ n \in Versions
      BY <1>5, <2>1 DEF Neighbours
    <3> QED BY <3>1, UpgradesKeep
  <2>3. t \in base.filled
    BY <1>3, <1>6 DEF Keeps, Modelled
  <2> QED BY <1>8, <2>2, <2>3
<1>16. \A q \in Runners \ {r} : Apart(c, runs[q]) /\ Sound(db', version', runs[q])
  BY <1>2, <1>4, <1>9 DEF MInv, Apart, run
<1>17. AtVersion(db', version') /\ commands' \in 0..MaxCommands /\ Sound(db', version', c)
  BY <1>2, <1>10, <1>14, <1>15 DEF MInv, Sound
<1> QED BY <1>2, <1>16, <1>17, OneMoves
-----------------------------------------------------------------------------
(* The version is moved on. The first stamp finds the version that was read, *)
(* so that what was locked since had that version's tables and the rest still *)
(* has: the view is the next version's schema.                              *)
LEMMA StampKeeps ==
    ASSUME MInv, NEW r \in Runners, Stamp(r)
    PROVE  MInv'
<1> DEFINE run == runs[r]
           n == Ahead(run)
           pc == IF n = run.to THEN "commit" ELSE "apply"
           c == Mark(run, pc, n, TRUE)
<1>1. /\ run.pc = "stamp" /\ WaitsFor(r) = {} /\ ~IsStale(run)
      /\ runs' = [runs EXCEPT ![r] = c]
      /\ UNCHANGED <<version, db, commands>>
  BY DEF Stamp, Mark
<1>2. /\ IsCommand(run) /\ Steady(db, version, run) /\ Keeps(db, run)
      /\ IsDatabase(db) /\ version \in Versions /\ db.tables = SchemaAt[version]
  BY DEF MInv, Sound, AtVersion
<1>3. ASSUME NEW q \in Runners \ {r} PROVE ~runs[q].stamped
  <2>1. CASE run.stamped
    BY <2>1 DEF MInv, Apart
  <2>2. CASE ~run.stamped /\ runs[q].pc # "idle"
    BY <1>1, <2>2 DEF WaitsFor
  <2>3. CASE runs[q].pc = "idle"
    BY <2>3 DEF MInv, Sound, Steady
  <2> QED BY <2>1, <2>2, <2>3
<1>4. version = run.from
  BY <1>1, <1>2 DEF Steady, IsStale
<1>5. pc \in {"commit", "apply"} /\ (pc = "commit" <=> n = run.to)
  OBVIOUS
<1> HIDE DEF run, n, pc
<1>6. Neighbours(run.at, n) /\ (run.at < run.to => n = run.at + 1 /\ n <= run.to)
  BY <1>1, <1>2, AheadIsNear DEF IsCommand, Steady, n
<1>7. c = [pc |-> pc, from |-> run.from, at |-> n, to |-> run.to, locked |-> run.locked,
           seen |-> run.seen, stamped |-> TRUE, answer |-> run.answer]
  <2>1. IsRecord(run)
    BY <1>2 DEF IsCommand
  <2> DEFINE yes == TRUE
  <2> HIDE DEF yes
  <2>2. Mark(run, pc, n, yes)
          = [pc |-> pc, from |-> run.from, at |-> n, to |-> run.to, locked |-> run.locked,
             seen |-> run.seen, stamped |-> yes, answer |-> run.answer]
    BY <2>1, Stamped
  <2> QED BY <2>2 DEF yes
<1> HIDE DEF c
<1>8. IsCommand(c)
  BY <1>2, <1>5, <1>6, <1>7 DEF IsCommand, IsRecord, Neighbours
<1>9. View(db, run).tables = SchemaAt[n]
  <2>1. CASE run.stamped
    BY <1>1, <1>2, <2>1 DEF Steady, n
  <2>2. CASE ~run.stamped
    <3>1. run.at = version
      BY <1>2, <1>4, <2>2 DEF Steady
    <3>2. PICK w \in Versions :
            LET made == Result(Bare(SchemaAt[w]), Between(run.at, n))
            IN  /\ ~made.refused /\ run.locked = made.locks
                /\ \A t \in run.locked :
                      run.seen.tables[t] = made.db.tables[t] /\ db.tables[t] = SchemaAt[w][t]
      BY <1>1, <1>2, <2>2 DEF Steady, Ran, Revision, n
    <3>3. Fits(run.at, n, w)
      BY <1>6, RevisionsAreOperations
    <3>4. \A t \in Tables : SchemaAt[n][t] =
            IF t \in run.locked THEN run.seen.tables[t] ELSE db.tables[t]
      BY <1>2, <3>1, <3>2, <3>3 DEF Fits
    <3>5. /\ IsDatabase(View(db, run))
          /\ \A t \in Tables : View(db, run).tables[t] =
                 IF t \in run.locked THEN run.seen.tables[t] ELSE db.tables[t]
      BY <1>2, ViewIsADatabase DEF IsCommand
    <3>6. SchemaAt[n] = [t \in Tables |-> SchemaAt[n][t]]
      BY <1>6, SchemasAreTables DEF Neighbours
    <3>7. \A t \in Tables : View(db, run).tables[t] = SchemaAt[n][t]
      BY <3>4, <3>5
    <3> QED BY <3>5, <3>6, <3>7 DEF IsDatabase
  <2> QED BY <2>1, <2>2
<1>10. View(db, c) = View(db, run)
  BY <1>7 DEF View
<1>11. Steady(db, version, c)
  BY <1>4, <1>5, <1>7, <1>9, <1>10 DEF Steady
<1>12. Keeps(db, c)
  BY <1>1, <1>2, <1>6, <1>7, LatestIsANumber DEF Keeps, Steady, IsCommand, Versions
<1>13. \A q \in Runners \ {r} : Apart(c, runs[q]) /\ Sound(db', version', runs[q])
  BY <1>1, <1>3, <1>7 DEF MInv, Apart, run
<1>14. AtVersion(db', version') /\ commands' \in 0..MaxCommands /\ Sound(db', version', c)
  BY <1>1, <1>8, <1>11, <1>12 DEF MInv, Sound
<1> QED BY <1>1, <1>13, <1>14, OneMoves

(* A commit's tables, and what of them is as it was.                        *)
LEMMA Committed ==
    ASSUME MInv, NEW r \in Runners, Commit(r)
    PROVE  LET run == runs[r]
           IN  /\ AtVersion(db', version')
               /\ version' = IF run.stamped THEN run.to ELSE version
               /\ ~run.stamped => db' = db
               /\ run.stamped => version = run.from
               /\ \A t \in Tables \ run.locked :
                     db'.tables[t] = db.tables[t] /\ (t \in db'.filled <=> t \in db.filled)
               /\ \A t \in run.locked : t \in db'.filled <=> t \in run.seen.filled
<1> DEFINE run == runs[r]
<1>1. /\ run.pc = "commit" /\ db' = View(db, run)
      /\ version' = IF run.stamped THEN run.at ELSE version
  BY MergedIsView DEF Commit
<1>2. /\ IsCommand(run) /\ Steady(db, version, run)
      /\ IsDatabase(db) /\ version \in Versions /\ db.tables = SchemaAt[version]
  BY DEF MInv, Sound, AtVersion
<1> HIDE DEF run
<1>3. /\ IsDatabase(db')
      /\ \A t \in Tables : db'.tables[t] =
                 IF t \in run.locked THEN run.seen.tables[t] ELSE db.tables[t]
      /\ \A t \in Tables : t \in db'.filled <=>
                 IF t \in run.locked THEN t \in run.seen.filled ELSE t \in db.filled
  <2>1. IsDatabase(run.seen) /\ run.locked \subseteq Tables
    BY <1>2 DEF IsCommand
  <2>2. /\ IsDatabase(View(db, run))
        /\ \A t \in Tables : View(db, run).tables[t] =
                 IF t \in run.locked THEN run.seen.tables[t] ELSE db.tables[t]
        /\ \A t \in Tables : t \in View(db, run).filled <=>
                 IF t \in run.locked THEN t \in run.seen.filled ELSE t \in db.filled
    BY <1>2, <2>1, ViewIsADatabase
  <2> QED BY <1>1, <2>2
<1>4. run.at = run.to /\ run.to \in Versions /\ run.locked \subseteq Tables
  BY <1>1, <1>2 DEF Steady, IsCommand
<1>5. CASE run.stamped
  <2>1. db'.tables = SchemaAt[run.at] /\ version = run.from
    BY <1>1, <1>2, <1>5 DEF Steady
  <2>2. version' = run.at
    BY <1>1, <1>5
  <2>3. AtVersion(db', version')
    BY <1>3, <1>4, <2>1, <2>2 DEF AtVersion
  <2> QED BY <1>3, <1>4, <1>5, <2>1, <2>2, <2>3 DEF run
<1>6. CASE ~run.stamped
  <2>1. run.locked = {}
    BY <1>1, <1>2, <1>6 DEF Steady
  <2>2. View(db, run) = db
    <3>1. /\ View(db, run) = [tables |-> View(db, run).tables, filled |-> View(db, run).filled,
                              odd |-> View(db, run).odd]
          /\ View(db, run).tables = [t \in Tables |-> db.tables[t]]
          /\ View(db, run).filled = db.filled /\ View(db, run).odd = db.odd
      BY <2>1 DEF View
    <3> QED BY <1>2, <3>1 DEF IsDatabase
  <2>3. db' = db /\ version' = version
    BY <1>1, <1>6, <2>2
  <2>4. AtVersion(db', version')
    BY <1>2, <2>3 DEF AtVersion
  <2> QED BY <1>6, <2>1, <2>3, <2>4 DEF run
<1> QED BY <1>5, <1>6

(* A commit leaves every other command sound.                               *)
LEMMA CommitKeeps ==
    ASSUME MInv, NEW r \in Runners, Commit(r)
    PROVE  MInv'
<1> DEFINE run == runs[r]
           c == [Idle EXCEPT !.answer = "done"]
<1>1. runs' = [runs EXCEPT ![r] = c] /\ UNCHANGED commands
  BY DEF Commit, Close
<1>2. Sound(db', version', c) /\ c.locked = {} /\ ~c.stamped
  BY ClosedIsSound
<1> HIDE DEF c
<1>3. /\ AtVersion(db', version')
      /\ ~run.stamped => db' = db /\ version' = version
      /\ \A t \in Tables \ run.locked :
            db'.tables[t] = db.tables[t] /\ (t \in db'.filled <=> t \in db.filled)
  BY Committed
<1>4. ASSUME NEW q \in Runners \ {r}
      PROVE  Apart(c, runs[q]) /\ Sound(db', version', runs[q])
  <2>1. Apart(run, runs[q]) /\ Sound(db, version, runs[q]) /\ IsDatabase(db)
    BY DEF MInv, Apart, AtVersion
  <2> DEFINE other == runs[q]
  <2> HIDE DEF run, other
  <2>2. other.stamped => ~run.stamped
    BY <2>1 DEF Apart, other
  <2>3. other.stamped => version' = version /\ db'.tables = db.tables
    BY <1>3, <2>2
  <2>4. \A t \in other.locked :
            db'.tables[t] = db.tables[t] /\ (t \in db'.filled => t \in db.filled)
    BY <1>3, <2>1 DEF Apart, Sound, IsCommand, other
  <2>5. IsDatabase(db') /\ Sound(db, version, other)
    BY <1>3, <2>1 DEF AtVersion, other
  <2>6. Sound(db', version', other)
    BY <2>1, <2>3, <2>4, <2>5, Undisturbed
  <2>7. Apart(c, other)
    BY <1>2 DEF Apart
  <2> QED BY <2>6, <2>7 DEF other
<1>5. commands' \in 0..MaxCommands
  BY <1>1 DEF MInv
<1> QED BY <1>1, <1>2, <1>3, <1>4, <1>5, OneMoves

(* The application inserts rows into a table that no command has locked.    *)
LEMMA UseKeeps ==
    ASSUME MInv, NEW t \in Usable, NEW odd \in BOOLEAN, Use(t, odd)
    PROVE  MInv'
<1> DEFINE filled == db.filled \cup {t}
           odds == IF odd THEN db.odd \cup {t} ELSE db.odd
<1>1. /\ db' = [db EXCEPT !.filled = filled, !.odd = odds]
      /\ \A r \in Runners : t \notin runs[r].locked
      /\ UNCHANGED <<version, runs, commands>> /\ t \in Tables
  BY UsableAssumption DEF Use
<1>2. AtVersion(db, version)
  BY DEF MInv
<1>3. filled \subseteq Tables /\ odds \subseteq filled
  BY <1>1, <1>2 DEF AtVersion, IsDatabase
<1> HIDE DEF odds
<1>4. db' = [tables |-> db.tables, filled |-> filled, odd |-> odds]
  <2> DEFINE one == [db EXCEPT !.filled = filled]
             two == [one EXCEPT !.odd = odds]
  <2> HIDE DEF filled
  <2>1. db' = two
    BY <1>1, <1>2 DEF AtVersion, IsDatabase
  <2>2. one = [tables |-> db.tables, filled |-> filled, odd |-> db.odd]
    BY <1>2 DEF AtVersion, IsDatabase
  <2> HIDE DEF one
  <2>3. two = [tables |-> one.tables, filled |-> one.filled, odd |-> odds]
    BY <2>2
  <2> QED BY <2>1, <2>2, <2>3
<1>5. AtVersion(db', version')
  BY <1>1, <1>2, <1>3, <1>4 DEF AtVersion, IsDatabase
<1>6. ASSUME NEW r \in Runners PROVE Sound(db', version', runs[r])
  <2>1. Sound(db, version, runs[r]) /\ IsDatabase(db) /\ IsDatabase(db')
    BY <1>2, <1>5 DEF MInv, AtVersion
  <2>2. \A x \in runs[r].locked :
           db'.tables[x] = db.tables[x] /\ (x \in db'.filled => x \in db.filled)
    BY <1>1, <1>4
  <2>3. version' = version /\ db'.tables = db.tables
    BY <1>1, <1>4
  <2> QED BY <2>1, <2>2, <2>3, Undisturbed
<1> QED BY <1>1, <1>5, <1>6 DEF MInv

(* Every step keeps the invariant.                                          *)
LEMMA StepKeeps == MInv /\ [Next]_vars => MInv'
<1> SUFFICES ASSUME MInv, [Next]_vars PROVE MInv'
  OBVIOUS
<1>1. ASSUME NEW r \in Runners,
             Start(r) \/ Apply(r) \/ Refuse(r) \/ Stamp(r) \/ StampStale(r)
               \/ Commit(r) \/ Lose(r) \/ Deadlock(r)
      PROVE  MInv'
  <2>1. CASE Start(r)
    BY <2>1, StartKeeps
  <2>2. CASE Apply(r)
    BY <2>2, ApplyKeeps
  <2>3. CASE Stamp(r)
    BY <2>3, StampKeeps
  <2>4. CASE Commit(r)
    BY <2>4, CommitKeeps
  <2>5. CASE Refuse(r) \/ StampStale(r) \/ Lose(r) \/ Deadlock(r)
    <3>1. PICK answer \in {"none", "done", "refused", "stale", "lost", "deadlock"} :
             Close(r, answer)
      BY <2>5 DEF Refuse, StampStale, Lose, Deadlock
    <3>2. UNCHANGED <<version, db, commands>>
      BY <2>5 DEF Refuse, StampStale, Lose, Deadlock
    <3> QED BY <3>1, <3>2, CloseKeeps
  <2> QED BY <1>1, <2>1, <2>2, <2>3, <2>4, <2>5
<1>2. ASSUME NEW t \in Usable, NEW odd \in BOOLEAN, Use(t, odd) PROVE MInv'
  BY <1>2, UseKeeps
<1>3. CASE UNCHANGED vars
  BY <1>3 DEF vars, MInv
<1> QED BY <1>1, <1>2, <1>3 DEF Next

(* The inductive invariant.                                                 *)
THEOREM MigrationsInvariant == Spec => []MInv
BY InitHolds, StepKeeps, PTL DEF Spec

(* TypeOK: the versions, tables and answers a command can have.             *)
THEOREM MigrationsWellFormed == Spec => []TypeOK
<1>1. MInv => TypeOK
  BY DEF MInv, AtVersion, Sound, IsCommand, IsDatabase, TypeOK
<1> QED BY <1>1, MigrationsInvariant, PTL

(* alembic_version names the schema the database has, whatever was refused, *)
(* lost or run at once, for any number of operators and commands:           *)
(* do_migrations runs all of a command's revisions and their version in one *)
(* transaction.                                                             *)
THEOREM TheVersionNamesTheSchema == Spec => []VersionNamesSchema
<1>1. MInv => VersionNamesSchema
  BY DEF MInv, AtVersion, VersionNamesSchema
<1> QED BY <1>1, MigrationsInvariant, PTL

(* At the last version the database has the tables that app/models declares: *)
(* the premise speaks of the revisions only and is one equality of values,  *)
(* which TLC evaluates; the theorem takes it to every reachable state.      *)
THEOREM TheLatestIsTheModels ==
    ASSUME SchemaAt[Latest] = ModelTables
    PROVE  Spec => []LatestIsTheModels
<1>1. MInv => LatestIsTheModels
  BY DEF MInv, AtVersion, LatestIsTheModels
<1> QED BY <1>1, MigrationsInvariant, PTL

(* A step that changes the tables or the version is a stamped commit.       *)
LEMMA OnlyCommits ==
    ASSUME MInv, [Next]_vars, db'.tables # db.tables \/ version' # version
    PROVE  \E r \in Runners : Commit(r) /\ runs[r].stamped
<1>1. ASSUME NEW t \in Usable, NEW odd \in BOOLEAN, Use(t, odd) PROVE FALSE
  <2>1. db'.tables = db.tables /\ version' = version
    BY <1>1 DEF Use, MInv, AtVersion, IsDatabase
  <2> QED BY <2>1
<1>2. ASSUME NEW r \in Runners, UNCHANGED <<version, db>> PROVE FALSE
  BY <1>2
<1>3. ASSUME NEW r \in Runners, Commit(r) PROVE runs[r].stamped
  BY <1>3, Committed
<1> QED BY <1>1, <1>2, <1>3 DEF Next, vars, Start, Apply, Refuse, Stamp, StampStale, Lose, Deadlock

(* Of two commands that read the same version one at most takes effect: the *)
(* schema changes only by the commit of a command that began at the version *)
(* it replaces.                                                             *)
THEOREM OneCommandTakesEffect == Spec => OneCommandPerVersion
<1>1. MInv /\ [Next]_vars =>
        [db'.tables # db.tables =>
          \E r \in Runners : /\ runs[r].pc = "commit" /\ runs[r].from = version
                             /\ version' = runs[r].to]_vars
  <2> SUFFICES ASSUME MInv, [Next]_vars, db'.tables # db.tables
               PROVE  \E r \in Runners : /\ runs[r].pc = "commit" /\ runs[r].from = version
                                         /\ version' = runs[r].to
    OBVIOUS
  <2>1. PICK r \in Runners : Commit(r) /\ runs[r].stamped
    BY OnlyCommits
  <2>2. runs[r].pc = "commit" /\ version = runs[r].from /\ version' = runs[r].to
    BY <2>1, Committed DEF Commit
  <2> QED BY <2>2
<1> QED BY <1>1, MigrationsInvariant, PTL DEF Spec, OneCommandPerVersion

(* An upgrade that is carried out keeps the rows of every table of          *)
(* app/models, with those inserted while it ran.                            *)
THEOREM UpgradesKeepRows == Spec => RowsOutliveUpgrades
<1>1. MInv /\ [Next]_vars =>
        [version' > version =>
           \A t \in db.filled : ModelTables[t] # Absent => t \in db'.filled]_vars
  <2> SUFFICES ASSUME MInv, [Next]_vars, version' > version,
                      NEW t \in db.filled, ModelTables[t] # Absent
               PROVE  t \in db'.filled
    OBVIOUS
  <2>1. version \in Versions /\ t \in Modelled
    BY DEF MInv, AtVersion, IsDatabase, Modelled
  <2>2. version' # version
    BY <2>1, LatestIsANumber DEF Versions
  <2>3. PICK r \in Runners : Commit(r) /\ runs[r].stamped
    BY <2>2, OnlyCommits
  <2>4. /\ version' = runs[r].to /\ version = runs[r].from
        /\ \A x \in Tables \ runs[r].locked : x \in db'.filled <=> x \in db.filled
        /\ \A x \in runs[r].locked : x \in db'.filled <=> x \in runs[r].seen.filled
    BY <2>3, Committed
  <2>5. runs[r].from < runs[r].to /\ Keeps(db, runs[r])
    BY <2>4 DEF MInv, Sound
  <2> QED BY <2>1, <2>4, <2>5 DEF Keeps, Modelled
<1> QED BY <1>1, MigrationsInvariant, PTL DEF Spec, RowsOutliveUpgrades
-----------------------------------------------------------------------------
(* The commands that run.                                                   *)
Running == { r \in Runners : runs[r].pc # "idle" }

(* Of any number of commands one can go on, or two wait for each other and  *)
(* PostgreSQL refuses one of them.                                          *)
SomeoneGoesOn == Running # {} => \E r \in Running : WaitsFor(r) = {} \/ InRing(r)

(* A command without its stamp that is about to apply holds no lock, so all *)
(* waiting is between the command that has stamped and those before their   *)
(* first stamp: a deadlock, of however many commands, is one of two, which  *)
(* is what InRing looks for (env.py:64-66: one transaction, from the first  *)
(* revision to the last).                                                   *)
THEOREM DeadlocksAreOfTwo == Spec => []SomeoneGoesOn
<1>1. MInv => SomeoneGoesOn
  <2> SUFFICES ASSUME MInv, Running # {},
                      \A r \in Running : WaitsFor(r) # {} /\ ~InRing(r)
               PROVE  FALSE
    BY DEF SomeoneGoesOn
  <2>1. \A r \in Runners : IsCommand(runs[r]) /\ Steady(db, version, runs[r])
    BY DEF MInv, Sound
  <2>2. \A r \in Runners : runs[r].pc \in {"idle", "apply", "stamp", "commit"}
    BY <2>1 DEF IsCommand
  <2>3. \A r \in Running : \/ runs[r].pc = "apply"
                           \/ runs[r].pc = "stamp" /\ ~runs[r].stamped
    BY <2>2 DEF Running, WaitsFor
  <2>4. \A r \in Running : runs[r].pc = "apply" =>
           \E q \in Running : q # r /\ runs[q].locked # {}
    BY DEF Running, WaitsFor
  <2>5. \A r \in Running : runs[r].pc = "stamp" =>
           \E q \in Running : q # r /\ runs[q].stamped
    BY <2>3 DEF Running, WaitsFor
  <2>6. PICK s \in Running : runs[s].stamped
    <3>1. PICK r \in Running : TRUE
      OBVIOUS
    <3>2. CASE runs[r].pc = "stamp"
      BY <2>5, <3>2
    <3>3. CASE runs[r].pc = "apply"
      <4>1. PICK q \in Running : runs[q].locked # {}
        BY <2>4, <3>3
      <4>2. q \in Runners
        BY DEF Running
      <4>3. runs[q].stamped \/ runs[q].pc = "stamp"
        BY <2>1, <4>1, <4>2 DEF Steady
      <4> QED BY <2>5, <4>1, <4>3
    <3> QED BY <2>3, <3>2, <3>3
  <2>7. runs[s].pc = "apply" /\ s \in Runners
    BY <2>3, <2>6 DEF Running
  <2>8. PICK q \in WaitsFor(s) : TRUE
    BY <2>6
  <2>9. q \in Running /\ q \in Runners /\ q # s /\ runs[q].locked # {}
    BY <2>7, <2>8 DEF WaitsFor, Running
  <2>10. ~runs[q].stamped
    BY <2>6, <2>7, <2>9 DEF MInv, Apart
  <2>11. runs[q].pc = "stamp"
    BY <2>1, <2>3, <2>9, <2>10 DEF Steady
  <2>12. s \in WaitsFor(q)
    BY <2>6, <2>7, <2>9, <2>10, <2>11 DEF WaitsFor, Running
  <2>13. InRing(s)
    BY <2>8, <2>12 DEF InRing
  <2> QED BY <2>6, <2>13
<1> QED BY <1>1, MigrationsInvariant, PTL

(* What is left of a revision to run and to stamp.                          *)
LEMMA DistanceFalls ==
    ASSUME NEW run, NEW c, run.at \in Versions, run.to \in Versions,
           run.at # run.to, c.to = run.to, c.at = Ahead(run)
    PROVE  /\ Distance(run) \in Nat \ {0} /\ Distance(c) = Distance(run) - 1
           /\ c.at = c.to <=> Distance(c) = 0
BY LatestIsANumber DEF Distance, Ahead, Rises, Versions

(* Every statement of a command brings it nearer to its end.                *)
LEMMA CommandsComeNearer ==
    ASSUME MInv, [Next]_vars, NEW q \in Runners, runs[q].pc # "idle", runs'[q] # runs[q]
    PROVE  StatementsLeft(runs'[q]) < StatementsLeft(runs[q])
<1> DEFINE run == runs[q]
           new == runs'[q]
<1>1. /\ runs = [r \in Runners |-> runs[r]]
      /\ IsCommand(run) /\ Steady(db, version, run) /\ IsRecord(run)
  BY DEF MInv, Sound, IsCommand
<1>2. /\ run.at \in Versions /\ run.to \in Versions
      /\ run.pc \in {"apply", "stamp", "commit"}
      /\ run.pc # "commit" => run.at # run.to
  BY <1>1 DEF IsCommand, Steady
<1>3. run.pc # "commit" => Distance(run) \in Nat \ {0}
  BY <1>2, LatestIsANumber DEF Distance, Rises, Versions
<1>4. /\ run.pc = "apply" => StatementsLeft(run) = 2 * Distance(run) + 1
      /\ run.pc = "stamp" => StatementsLeft(run) = 2 * Distance(run)
      /\ run.pc = "commit" => StatementsLeft(run) = 1
  BY DEF StatementsLeft
<1>5. StatementsLeft(run) > 0
  BY <1>2, <1>3, <1>4
<1>6. ASSUME NEW answer, Close(q, answer) PROVE StatementsLeft(new) < StatementsLeft(run)
  <2>1. new.pc = "idle"
    BY <1>1, <1>6 DEF Close, Idle
  <2>2. StatementsLeft(new) = 0
    BY <2>1 DEF StatementsLeft
  <2> QED BY <1>5, <2>2
<1>7. CASE Apply(q)
  <2>1. new = Work(run, "stamp", Applied(run).db, run.locked \cup Applied(run).locks)
        /\ run.pc = "apply"
    BY <1>1, <1>7 DEF Apply, Work
  <2>2. new.pc = "stamp" /\ new.at = run.at /\ new.to = run.to
    BY <1>1, <2>1, Worked
  <2>3. StatementsLeft(new) = 2 * Distance(run)
    BY <2>2 DEF StatementsLeft, Distance, Rises
  <2> QED BY <1>3, <1>4, <2>1, <2>3
<1>8. CASE Stamp(q)
  <2> DEFINE yes == TRUE
             pc == IF Ahead(run) = run.to THEN "commit" ELSE "apply"
  <2>1. new = Mark(run, pc, Ahead(run), yes) /\ run.pc = "stamp"
    BY <1>1, <1>8 DEF Stamp, Mark
  <2>2. pc \in {"commit", "apply"} /\ (pc = "commit" <=> Ahead(run) = run.to)
    OBVIOUS
  <2> HIDE DEF yes, pc
  <2>3. new.pc = pc /\ new.at = Ahead(run) /\ new.to = run.to
    BY <1>1, <2>1, Stamped
  <2>4. /\ Distance(run) \in Nat \ {0} /\ Distance(new) = Distance(run) - 1
        /\ new.at = new.to <=> Distance(new) = 0
    <3> HIDE DEF run, new
    <3> QED BY <1>2, <2>1, <2>3, DistanceFalls
  <2>5. StatementsLeft(run) = 2 * Distance(run)
    BY <1>4, <2>1
  <2>6. CASE pc = "commit"
    <3>1. StatementsLeft(new) = 1
      BY <2>3, <2>6 DEF StatementsLeft
    <3> QED BY <2>4, <2>5, <3>1
  <2>7. CASE pc = "apply"
    <3>1. StatementsLeft(new) = 2 * Distance(new) + 1
      BY <2>3, <2>7 DEF StatementsLeft
    <3> QED BY <2>4, <2>5, <3>1
  <2> QED BY <2>2, <2>6, <2>7
<1>9. ASSUME NEW r \in Runners, r # q,
             Start(r) \/ Apply(r) \/ Refuse(r) \/ Stamp(r) \/ StampStale(r)
               \/ Commit(r) \/ Lose(r) \/ Deadlock(r)
      PROVE  FALSE
  <2>1. \E c : runs' = [runs EXCEPT ![r] = c]
    BY <1>9 DEF Start, Apply, Refuse, Stamp, StampStale, Commit, Lose, Deadlock, Close
  <2> QED BY <1>1, <1>9, <2>1
<1>10. CASE Refuse(q) \/ StampStale(q) \/ Commit(q) \/ Lose(q) \/ Deadlock(q)
  BY <1>6, <1>10 DEF Refuse, StampStale, Commit, Lose, Deadlock
<1>11. ~Start(q)
  BY DEF Start
<1>12. runs' # runs
  OBVIOUS
<1>13. \A t, odd : Use(t, odd) => runs' = runs
  BY DEF Use
<1> HIDE DEF run, new
<1> QED BY <1>7, <1>8, <1>9, <1>10, <1>11, <1>12, <1>13 DEF Next, vars, run, new

(* From any version to any other a command goes straight and makes at most  *)
(* two statements a revision and a COMMIT, whichever others run beside it.  *)
THEOREM NoCommandTurnsBack == Spec => CommandsGoForward
<1>1. MInv /\ [Next]_vars =>
        [\A r \in Runners : runs[r].pc # "idle" =>
            runs'[r] = runs[r] \/ StatementsLeft(runs'[r]) < StatementsLeft(runs[r])]_vars
  BY CommandsComeNearer
<1> QED BY <1>1, MigrationsInvariant, PTL DEF Spec, CommandsGoForward
=============================================================================
