# CategoristAI: a verification project

TLA+ models of the CategoristAI backend (FastAPI, SQLAlchemy async sessions,
PostgreSQL), the TLC configurations that check them, and machine-checked proofs
about them. Paths such as `transaction_service.py:229` are relative to the
repository's `app/` tree (`services/`, `api/`, `models/` ...).

## The system

| part | state it keeps | operations | talks to |
|---|---|---|---|
| transactions (`services/transaction_service.py`, `api/v1/upload.py`, `api/v1/transactions.py`) | table `transactions`, unique on (account, start date, merchant, amount, fee, occurrence) | upload a statement, edit one row, list | accounts, categories, CSV import |
| CSV import (`services/csv_service.py`) | none; one outcome per request | read the file, number look-alike rows | institution parser |
| institution parser (`services/institution_parser/`) | none | decide the format, parse or skip or fail each row | the caller's account names |
| refresh tokens (`services/token_service.py`, `api/v1/auth.py`) | table `refresh_tokens`; the token is the key | login, refresh, logout, register | users |
| users (`services/user_service.py`, `api/v1/users.py`) | table `users`, unique login | register, create, update, list | passwords |
| accounts (`services/account_service.py`) | table `accounts`, unique (user, name) | create, update, list | users |
| categories (`services/category_service.py`) | table `categories` | lookup only | users |
| session, configuration (`core/database.py`, `core/config.py`) | one session per request | | PostgreSQL |
| request path: middleware, authentication, error envelope, logging (`api/middleware.py`, `api/dependencies.py`, `api/errors.py`, `core/exceptions.py`, `core/logging.py`) | the contextvars of each server task | give a request its id, find its user, run the endpoint, turn an exception into an answer, log | users; every endpoint |
| passwords, access tokens (`core/security.py`) | none | hash and verify in a thread, encode, decode | users, refresh tokens |
| migrations (`src/migrations`) | the schema, `alembic_version` | upgrade, downgrade, run by hand | PostgreSQL; the models |

All requests share one event loop and can be suspended at every `await`; each
has a session of its own, i.e. at most one READ COMMITTED transaction at a
time. So the components interact through the tables alone, and what is hard is
what happens between two statements of a request: another request's commit, a
unique index that makes a statement wait, a deadlock, a lost connection, a lost
acknowledgement of a COMMIT, a crash of the process.

What makes each part correct:

- transactions: the identity of a row is unique at all times; an upload is
  stored whole or not at all and as its answer says; a statement is *merged*,
  each transaction being held as often as the fullest statement lists it;
  nobody but the owner changes a row; edits do not undo each other; every
  request is answered.
- CSV import and parser: each row ends in exactly one list; the numbering is
  the position among look-alikes; a row's identity depends on the bank's data
  only; the counters are exact when the lists are cut.
- refresh tokens: a token that was rotated or logged out never works again;
  only its owner ends a session; a logout never strands a row.
- users and accounts: names unique under races, partial updates touch what
  they were asked to.
- request path: log lines of overlapping requests stay apart; only a user of
  the right role reaches an endpoint; what a caller is told can be found in the
  log, with the true reason and a traceback when the failure is ours.
- migrations: the version names the schema, whatever was refused, lost or run
  at once; the last version is what the models declare; upgrades keep rows.

`PROJECT.json` lists, under `hazards`, where each of these could go wrong and
the properties that would show it.

## Modules

| module | models |
|---|---|
| `Statements` | the abstract specification of uploads: a ledger of counts, and statements merged into it in one step |
| `Ledger` | the `transactions` table with concurrent uploads (`save_transactions`) and edits (`update_transaction`), one SQL statement a step |
| `LedgerProperties` | the properties of `Ledger`, and the refinement mapping to `Statements` |
| `CsvImport` | one file from its bytes to the answer: `read_csv`, the parse loop, the Revolut formats, the numbering, the counters and capped lists |
| `Sessions` | the `refresh_tokens` table with concurrent logins, refreshes and logouts, expiry, crashes |
| `Directory` | the `users` and `accounts` tables with concurrent registrations, creations and partial updates |
| `Requests` | the path of a request through middleware, dependencies, endpoint and exception handlers, and the log lines it leaves |
| `Schema` | Alembic's operations on a schema: what PostgreSQL refuses, what they lock and what they leave |
| `Revisions` | the fifteen revisions, up and down, as sequences of those operations, and the tables `app/models` declares |
| `Migrations` | `alembic upgrade` and `downgrade` run by several operators on a database in use |
| `MCLedger`, `MCCsvImport`, `MCSessions`, `MCDirectory`, `MCRequests` | values of the constants for TLC |
| `LedgerProofs`, `LedgerPromiseProofs` | theorems and proofs about `Ledger`: its safety; that it implements `Statements` |
| `RequestsProofs`, `RequestsLogProofs` | about `Requests`: its safety; what its log tells |
| `SessionsProofs`, `DirectoryProofs`, `CsvImportProofs`, `MigrationsProofs` | about the module each is named after |

An operator whose comment begins with "Fault" is no part of a specification. It
is a version of the operator below it with a slip in it, and the `mutants` of
`PROJECT.json` show that each property notices such a slip.

### Ledger

`rows` is the committed table, `cats` the categories that exist, `up[u]` and
`ed[e]` the local state of each request, with a `pc` that names the statement it
is at. `StartUpload` is everything before the first statement whose result can
depend on other requests (the account lookup, parsing, numbering and the batch
check); `SelectExisting` is the SELECT and the split into duplicates and new
rows; `InsertRow` the flush of one row; `CommitUpload` the COMMIT, whose
acknowledgement may get lost. `StartEdit`, `CheckCategory`, `LockRow`,
`WriteRow`, `RefreshRow` are the statements of a PATCH.

PostgreSQL is modelled by what the code relies on. `Holds` and `Needs` are the
index keys an open transaction has written and the one its current statement
has to write; a statement waits (`Blocked`) while another open transaction
holds its key, fails (`Taken`) if a committed row has it, and one request of a
ring of waiting ones is ended by the deadlock detector (`InRing`). An UPDATE
waits for the row lock of another (`RowLocked`); a category is protected by its
foreign key. Nothing else makes a request wait (`OnlyTheStuckWait`); how
many statements it has left is `UploadStatements` and `EditStatements`.

Data: `Facts` stands for (start date, amount, fee) as parsed, `Rounded` for what
the columns make of them, `Merchants` for merchant strings. The other editable
column, `status`, takes part in no constraint and is left out; so are the
columns no decision reads. An edit that does not fit its column ends as a lost
connection does, in a plain 500 with nothing written.

### CsvImport

Sequential: between reading a file and saving its rows there is no `await`. A
cell is one of the cases the code tells apart, a row a record of cells, a file a
header case and a sequence of rows. `ParseRow` is one turn of
`InstitutionParserBase.parse`; `AbortOnRow` the turn that raises out of its own
handler; `NumberRow` one turn of the numbering loop; `SaveRow` one turn of the
loop of `save_transactions` that sorts the rows into duplicates and new ones,
any row being known or not; `Respond` the rest of `upload_batch`. `outcome` are
the lists the parser made, `report` those of `save_transactions`.

### Sessions

`table` is the committed table, `call[c]` a request, `now` the clock. Each call
mints its own token, so a token is named after the call (`Seeds` are tokens from
before). Every statement here touches one row by primary key and is followed by
its COMMIT, so the two are one step; a DELETE that finds nothing goes on, as
SQLAlchemy only warns. Clients present tokens they were given.

### Directory

`users` and `accounts` are the committed tables, `tokens` the registered users
whose first refresh token was saved, `req[c]` a request with the body it brought
and, for an update, the row as it was read. A row has a `name` (the login, the
account's name) and a `detail`: the password of a user, which is hashed anew and
so always written, or the rest of an account, written when it differs from what
was read. A uuid is the name of the request that minted it.

| action | code |
|---|---|
| `StartRegister`, `StartCreateUser`, `StartUpdateUser` | the endpoint up to its first suspension that others can matter to: authentication, the admin check, the look-up of the login, the fetch of the row |
| `StartCreateAccount`, `StartUpdateAccount` | the same for accounts, with the two early returns of an update |
| `HashPassword` | bcrypt in a thread, while other requests run |
| `LockRow` | the UPDATE takes the lock of its row; none is emitted when nothing changed |
| `NameRefused` | or its name does not fit the column: a DataError, a plain 500 |
| `InsertUser`, `UpdateUser`, `InsertAccount`, `UpdateAccount` | the entry in the unique index and COMMIT; a conflict is answered |
| `Deadlock` | PostgreSQL ends one of a ring of requests that wait for each other: a plain 500 |
| `RefreshRow`, `SaveToken`, `HandOut` | reading the row back; a registration's second transaction and its answer |
| `Disconnected`, `Crash` | a plain 500; no answer at all |

A commit here flushes one statement. An UPDATE in flight holds the lock of its
row (`RowLocked`) and decides whether its row's name is given up (`Holds`); who
needs that name meanwhile (`Needs`) waits (`Blocked`). An INSERT in flight has
nothing left to do but wait and commit, so the wait's end, the verdict and the
COMMIT are one step, and nobody waits for it. Two updates that swap names wait for
each other (`InRing`, as in `Ledger`). The lock that the INSERT of an account or
of a token takes on its user's row delays it and closes no ring, as nobody waits
for such an INSERT; it is left out. An account's name is validated when it is
created but not when it is changed (`schemas/accounts.py`), so an update may bring
one that does not fit its column. No request sets a role, so `Admins` is a
constant.

### Requests

`req[q]` is a request with its `pc`, the server task it runs on, the id it was
given, the context of its child task and its answer; `context[t]` are the
contextvars of a task, `log[q]` the lines written while `q` was served, each
with the id and user that `merge_contextvars` found. What was asked is a record
of route, bearer and body, of which the code tells these cases apart.

| action | code |
|---|---|
| `Receive` | `dispatch` up to `call_next`, which copies the context for the child task |
| `NotFound`, `Garbled`, `Unparsable`, `NoBearer`, `RejectToken` | what ends a request before any `await`: no such path, a body that cannot be decoded or is no form (400), one that is no JSON (422), a bearer that is missing or no good |
| `UserGone`, `Admit`, `Deny` | `get_current_user` after its SELECT, `check_admin_permission` |
| `Invalid`, `EnterEndpoint`, `Succeed`, `Fail`, `FailToPersist` | validation, and the endpoint with the ways it ends |
| `RowCrashed` | tier 3 of the import loop: `csv.row.crashed` with its traceback, and the import goes on |
| `Break`, `Crashed` | an exception no handler takes: the middleware logs it and raises on, `handle_unexpected` answers outside of it |
| `Finish` | the rest of `dispatch` |
| `ChangeUser` | an operator deletes a user or changes a role |

No request waits for another here, so every request with a step left can take
it: the run's check for deadlock is all there is to liveness.

A traceback and a failure are not the same thing: a row that crashes the parser
keeps its traceback while the upload is answered 200 (section 6 of
`docs/logging_and_errors.md` asks for both), so `LogTellsWhy` counts the
tracebacks that are not a row's. `AnswersCarryTheId` says what the code keeps of
every answer, that the id is in its header or its envelope; that each answer has
the header and each error the envelope (`EveryAnswerHasTheHeader`,
`EveryErrorHasTheEnvelope`) is what the documentation says, as it says that an
incident has one traceback (`OneIncidentOneTraceback`); the code keeps none of the
three, which the run `requests_rules` shows.

### Schema, Revisions, Migrations

A table is its columns (type and nullability; a foreign key is a column whose
type is the table it points at), its key and its unique constraints. `Refused`
says which operations fail on a schema, and which over the rows that are
stored: a NOT NULL column without a default on a filled table, a column made
narrower over a value that needs the width (`db.odd`). `Result` folds a
revision over a database up to the first refused operation.

`version` and `db` are committed, `runs[r]` is a runner's command: its
transaction's own view of the tables it locked, and the locks. `Start` reads
the version and fixes the revisions to run, `Apply` runs one of them or waits
for a lock (`Between` is the revision from one version to the next), `Stamp` is the UPDATE of `alembic_version`, `Commit` everything at
once; `Refuse`, `StampStale`, `Deadlock`, `Lose` are the ways a command fails.
Meanwhile `Use` fills tables. Server defaults and index names are left out where
no operation depends on them.

## Runs

Twelve runs: the seven below must pass, and five more, further down, each find
a sentence of the repository violated.

All runs check for deadlock, but those of `Migrations`, which may come to rest
once the commands are used up: a state in which every request is answered may
stutter, any other must have a step.

| run | bounds | shows |
|---|---|---|
| `ledger_uploads` | 1 account, 2 merchants, an amount out of range, 3 uploads of up to 2 rows | uniqueness, atomicity, contiguous numbering, conflicts only in races, who waits and for what, some request always able to go on, none sent back, and that uploads implement `Statements` |
| `ledger_edits` | 2 users, 2 categories, an upload of up to 2 rows, 2 edits, an amount out of range | ownership, categories, no lost edits, with renames, swapped keys and deletions of categories; every request is answered, deadlocks of edits included |
| `csv_import` | every row of the cell cases, alone in a file; every refused file; files of up to 4 rows out of 5 kinds; one issue per list | each row is accounted for; identity does not depend on account names or state; numbering; exact counters |
| `sessions` | 2 users, an old token about to expire, 3 calls, clock 0..2 | revocation is final and the owner's; every call is answered |
| `directory` | an admin, a user with one account, 2 requests of any kind, 3 names that fit and one that does not, 2 details | names stay unique, updates merge, only the entitled write and only as they commit, answers are true, every request is answered, deadlocks included |
| `requests` | 2 requests of 11 kinds, 2 tasks, an admin and a user, one change of a user, one crashed row of an upload | log lines stay apart, one closing line, the id in every answer, the entitled only, true reasons and tracebacks |
| `migrations` | every version to begin at, 2 runners, 2 commands, 3 tables in use | the version names the schema, the last one is the models', rows survive upgrades, one command takes effect per version, every command goes straight to its version and ends |

Why the bounds are enough: a hazard of `Ledger` needs two racing requests and a
third that met the result (three uploads; two uploads that supply two rows and
two edits that swap them), two equal rows and two different ones (two rows, two
merchants). A deadlock in the index needs two requests and two keys. In
`CsvImport` rows are parsed independently of each other, so single rows suffice
for what a row means, and look-alikes with something in between need three rows
and a fourth for the truncation of a list. In `Sessions` two calls race and a
third sees the result; tokens expire at once or later within the clock's range.
In `Directory` a clash needs two requests or one and an old row, and each table
has one; three names let two requests swap theirs, which is a deadlock, or meet
at a free one.
In `Requests` two requests can overlap or follow each other on one task, which
is all that a context can be mixed up by; one crashed row (`MaxCrashedRows`) tells
an upload that has some from one that has none. In `Migrations` two commands race
from each of the sixteen versions, over one revision, down one, or all the way;
users, accounts and transactions are the tables whose rows a revision trips
over. Symmetry is used in safety runs only, so that in `ledger_uploads` liveness
shows as what it is made of: a request has a step unless it is stuck
(`OnlyTheStuckWait`), some request in flight is not (`SomeoneMoves`), and every
step is one of the few that a request has (`EachStepIsProgress`). With fairness
per request that means that each upload is answered.

Fairness: `FairSpec` asks that a request whose statement can complete is
eventually served (weak fairness per request), which the event loop and
PostgreSQL give: a statement returns, is ended by a constraint or by the deadlock
detector, or its connection breaks. For `Migrations` it asks that a command
that can go on goes on. Nothing is assumed about new requests or commands, lost
connections, crashes, deletions or the clock.

### Where code and documentation disagree

Each run marked `violation` refutes what the repository says of itself: one
sentence, or in `requests_rules` three that one trace breaks together:

- `ledger_dropped`: "no chance of a collision silently dropping a real
  transaction" (`models/transaction.py:60`) fails when an edited merchant equals
  another transaction's. (An edit of a merchant, being part of a row's identity,
  also makes a re-upload of the same file import the unedited row again.)
- `ledger_rounding`: the numbering is "stable on re-upload"
  (`models/transaction.py:86`), but a file that was uploaded and answered 200
  conflicts when it is uploaded again, if an amount has more than two decimals:
  the SELECT does not find the rounded row and the constraint then refuses it.
- `csv_ragged`: "A single bad row never aborts the import" (`base.py:53`) fails
  for a row with more cells than the header.
- `sessions_replay`: a refresh token can be used twice by two refreshes at once,
  though a used one is rejected (`exceptions.py:200`).
- `requests_rules`: three rules, each a sentence of the repository. To violate
  their disjunction (`SomeRuleIsKept`) a behaviour has to break them all, and one
  of three requests does:
  - "Every error response has the same envelope"
    (`docs/logging_and_errors.md:300`), but an unknown path or method is answered
    by the framework: the handler is registered for FastAPI's `HTTPException`
    (`errors.py:110`), the router raises Starlette's;
  - "The traceback belongs to the outermost handler ... Every layer below it logs
    without" (lines 228-230, section 4), but a failed import leaves one of the
    service (`transaction_service.py:261`) and one of the handler
    (`errors.py:95`);
  - the middleware "wraps everything, including the exception handlers"
    (`main.py:32`) and "echoes `X-Request-ID` on the response" (line 394), but the
    500 of an exception that no handler takes is made outside of it.

Two more are facts about one place each, which need no search and have no run:

- "One bad row must not cost the other 2000" (`docs/logging_and_errors.md:25`): an
  amount outside Numeric(12, 2) parses, and its INSERT then fails the whole batch
  (`InsertRefused`). `ledger_uploads` has such amounts, so `AllOrNothing` covers
  the batch that is lost.
- "Downgrade schema." (`bcca1c55be76`, line 41): the downgrades of four revisions
  drop a constraint without naming it, which SQLAlchemy refuses to compile, and
  that of `356d11c8efb4` makes a foreign key to a table it has not made yet. The
  model refuses them too, and `VersionNamesSchema` covers what that leaves.

## Proofs

Checked by TLAPS for every value of the constants that satisfies the named
assumptions: `ConstantsAssumption` (`Ledger`), `SessionConstants`,
`DirectoryConstants`, `RequestConstants` and `TokensDiffer` (a user's token is
not one of the bad ones), `CsvConstants`, `UsableAssumption` and
`StartsAssumption` (`Migrations`). TLC evaluates each of them in the runs.
`RevisionsFit` speaks of no constant: it is a fact about the fifteen revisions,
which TLC evaluates once and for all, and `MigrationsProofs` starts from it.

Every module's type invariant is a theorem; the runs check those of `Ledger`,
`Sessions` and `Directory`, on whose record types the other properties lean.

`LedgerProofs`. `NumberingSound` is about data alone: of two look-alike rows the
later one has more predecessors, so keys of one file differ. The invariant
`IInv` conjoins the properties with two facts that make them inductive:
`UploadsInv` (what is inserted was selected as new, and fits the columns) and
`EditsInv` (an edit past its fetch is about a row of the caller's, and past the
category check carries the caller's category). `NoTwoRowsAlike` is stated of
committed *and* in-flight rows: of committed rows alone it is not inductive,
since a COMMIT makes rows visible that only the waiting of `InsertRow` kept
apart. `IInv` holds in `Init`, each action keeps it (one lemma per action), and
`TypeCorrect`, `RowsStayApart`, `UploadsAreAtomic`, `CategoriesStayOwn` and
`BatchesNeverRepeatAKey` are its parts. The action properties `OwnersEdit` and
`EditsDoNotUndoEachOther` follow from it and `WhoWritesRows`: only a COMMIT of an
upload and an UPDATE touch the table.

That requests do not stop each other is proved as far as this prover goes.
`NobodyStopsEveryone`: in a set of waiting requests in which each waits for one
of the set there is a smallest such subset, by the well-foundedness of finite
sets, and it is a ring (`WaitersFormARing`); a ring is ended by the deadlock
detector, and whoever is waited for holds a key, so is in flight itself
(`HoldersAreInFlight`). That needs finitely many requests in flight, not finitely
many requests: a step starts one at most (`OneMoreInFlight`).
`NoRequestGoesBack`: the statements a request has left, five at most for an edit
and for an upload three more than a file has rows, fall with each of its steps,
and what its rivals do leaves them alone.

`LedgerPromiseProofs`. That uploads implement `Statements`
(`UploadsKeepTheirPromise`) is proved by mapping each step: a COMMIT of new rows
merges its statement, one that a conflict or a lost connection ended gives its
statement up, every other step is unseen. The invariant `PInv` has what the
COMMIT needs. Copies of one transaction are numbered from 0 without a gap
(`CopiesHaveNoGap`), so their number is one more than the greatest; a file's
numbering is the position among look-alikes, so a file with n copies brings the
numbers below n, and the rows that are not there yet make up the greater of the
two counts. The counting lemmas at the head of the module are about finite sets
of numbers and nothing else. Two named premises are true of what the promise is
about and false of what it is not: `ColumnsAreExact`, since an amount with more
decimals than its column is another one when it is read back (`ledger_rounding`
finds that promise broken), and `NothingIsRenamed`, since an edit that renames a
merchant moves a row to another identity (`ledger_dropped`). `ConflictsAreRaces`
needs the first only. Its invariant `RaceInv`, which TLC found no counterexample
to on two instances, says of an upload between SELECT and COMMIT that the rows it
found absent still are, or another request has finished since or is under way.

`SessionsProofs`. `CallsInv` says that a call presents only tokens whose minting
is over, so none of them is inserted again; that a call's own token exists only
once it is past its INSERT; and that a logout deletes a token of its caller's.
With it `RevocationIsFinal`, `LogoutIsTolerant` and `OwnersEndTheirSessions`
follow.

`DirectoryProofs`. The invariant `IInv` adds to types and unique names what each
request may rely on (`Sound(c)`): a row it is about to insert is not there yet, a
row it updates is there and, of an account, its caller's, and its new name fits;
an admin asked for what only admins may; and what was answered is so. Uniqueness needs no more than the
check at the write itself: the look-up before hashing decides nothing. `TypeCorrect`,
`NamesStayUnique`, `AnswersStayTrue` are parts of it; `RefusalsAreTrue`,
`UpdatesDoNotUndoEachOther` and `EntitledWritersOnly` follow for each step.

`RequestsProofs`. `IInv` speaks of each request by itself (`ReqInv`), and requests
meet in one place only, the context of a server task: `OwnContexts` says that
while a request is served its task's context holds its id and no user, and the
child's context its id and, once admitted, its caller. That is kept because a
task takes its next request when the one before is done (`ReceiveKeepsIInv`).
`Admission` says that past `get_current_user` the role read was a sufficient one;
`Closed` that a final line is the last of a log that is done, or the last two.
A step serves one request, appends lines (`Appended`) and leaves the others
(`OthersKeep`), so each action's lemma only says which lines it appends.
`LinesStayApart`, `EachClosedOnce`, `AnswersAreTraceable` and
`OnlyTheEntitledEnter` follow; the counts of the properties come from
`NoLineCounts` and `OneLineCounts`.

`RequestsLogProofs`. `LogInv` rests on that invariant and is kept separately:
until a request ends its log has no reason and no traceback but those of crashed
rows; after, it has those that its end calls for. An action's lines either bring
no reason (`NoReasons`), or are the first to (`TheLogTellsWhy`).

`CsvImportProofs`. The import is sequential, and the invariant says how far it is
in its lists. `Accounted(n)`: the rows before n are in the three lists, each once
and in file order. `Numbered(n)`: of the parsed rows before n each has as many
look-alikes before it as its number says; that the counter of the code, which is
the number of (key, number) pairs `seen`, agrees with it is `Counting`.
`Identified`: a row's identity is what its cells alone determine, which rests on
lemmas about each of the three Revolut formats. `EveryRowIsAccountedFor`,
`NumberingIsByPosition`, `IdentityIsTheBanksAlone` and `TheAnswerIsExact` follow
for files of any length and any limit on the lists.

`MigrationsProofs`. First the revisions, whatever their operations.
The lemma `ResultIsAFold` shows by induction over the operations (well-founded
induction on a set of numbers, as the prover takes no predicate for a parameter) that
`Result` is what one operation after the other makes; then `ResultFollows`, that
tables it does not lock are as they were, and `ResultTwins`, that a revision
that is carried out does the same with rows in the tables and without. Then the
commands. A command reads the version without a lock, so that its first revision
may run on tables another command has changed since, or some of them. The
invariant `MInv` does not claim otherwise: `Ran` only remembers that the tables
were those of *some* version when they were locked. At most one command has
stamped, and its view (`View`) is exactly the schema of the version it is at,
while the others cannot commit anything. The step in between is `StampKeeps`: the
UPDATE finds the version that was read, therefore the locked tables had its
schema after all, and `RevisionsFit` turns that into the next version's schema.
Locks are kept from the first revision to the COMMIT, but a command that has not
stamped and is about to apply holds none (`Apply` and `Stamp` alternate), so one
waits only for the one that stamped or is about to, and a deadlock of however
many commands is one of two (`DeadlocksAreOfTwo`): `InRing` of `Migrations`,
which looks for pairs, misses none. `NoCommandTurnsBack` is the measure of what
a command has left.
`TheVersionNamesTheSchema` is then a part of `MInv`, and `OneCommandTakesEffect`
and `UpgradesKeepRows` follow for each step, the latter from `UpgradesKeep`: the
fifteen upgrades, operation by operation, drop no table of `app/models`.
`TheLatestIsTheModels` has one premise, `SchemaAt[Latest] = ModelTables`; the run
`migrations` evaluates both sides when it begins at the last version. TLC checked
`MInv` on two runners and nine versions to begin at before it was proved.

Only model-checked:

- the liveness properties (`EveryCommandEnds`, and that every request, call and
  edit is answered): proofs under fairness are beyond this prover. Of what they
  rest on in `Ledger` and `Migrations`, that somebody can go on and that every
  step counts, both halves are proved; the step from there to "eventually" is not;
- `OnlyTheStuckWait`, which speaks of ENABLED: it ties the waiting that
  `SomeoneMoves` is about to the steps the model allows;
- what the fifteen revisions compute: `RevisionsFit` and the premise of
  `TheLatestIsTheModels` are evaluated, not derived.

## Not modelled

The cryptography of bcrypt and JWT, and the equal timing of failed logins; the
redaction of credentials in logged validation errors, a recursion over JSON
values; log formats, levels and third-party loggers; Alembic's offline mode,
which prints SQL; listing endpoints, which only read. No endpoint writes
categories, and none deletes users, accounts, transactions or categories; the deletion of a category (`Ledger`) and of a user
(`Requests`) by an operator is modelled, because the code provides for it.

## Plan

1. `Statements`, `Ledger`, `CsvImport`, `Sessions` with their runs - done.
2. `Ledger` and `Sessions`: type correctness, safety and action properties
   proved - done.
3. `Directory`: users and accounts, checked and proved - done.
4. `Schema`, `Revisions`, `Migrations`: every revision and the command - done.
5. `Requests`: authentication, middleware, error handlers and log, checked and
   proved - done.
6. Proofs: that `Ledger` implements `Statements`, gapless numbering, conflicts
   only in races; `LogTellsWhy` of `Requests`; all of `CsvImport`; the safety of
   `Migrations` for any number of runners - done.
   Then what stands between those and liveness: that nobody is stuck for good,
   and that every step is progress, in `Ledger` and `Migrations` - done.
7. A login that verifies a password while it is being changed: `Sessions`
   composed with the users of `Directory`. Changes of accounts against uploads in
   flight: the names a parser sees, from `Directory`.
8. `CsvImport` composed with `Ledger`: the rows an upload carries are those the
   parser produced, so that a re-upload of the same *file* is covered end to end.
