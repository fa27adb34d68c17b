------------------------------ MODULE Requests ------------------------------
(***************************************************************************)
(* The path of an HTTP request through the application: the middleware     *)
(* that gives it a request id (api/middleware.py), the dependencies that   *)
(* say whose it is (api/dependencies.py), an endpoint, and the handlers    *)
(* that turn an exception into an answer (api/errors.py); and the log      *)
(* lines it leaves, each with what structlog's contextvars hold then.      *)
(*                                                                         *)
(* Starlette nests them: ServerErrorMiddleware, with the handler of bare   *)
(* Exception; RequestContextMiddleware, which runs the rest in a child     *)
(* task with a copy of its context; the other handlers; the router.        *)
(***************************************************************************)
EXTENDS Naturals, SequencesExt

CONSTANTS
    Requests,
    Tasks,       \* of the server; a task may serve requests one after another
    Users,
    Admins,      \* the users whose role is admin at first
    ClientIds,   \* what a client may send as X-Request-ID
    Asks,        \* the requests made, of those below
    Statuses,    \* the statuses tried of those an endpoint can raise
    MaxChanges,  \* bounds how often an operator changes a user
    MaxCrashedRows   \* bounds the rows of an upload that crash the parser

None == "none"
BadTokens == {"expired", "decode_failed", "missing_subject", "malformed_subject"}
UnreadBodies == {"garbled", "unparsable"}
AllAsks == [route  : {"unknown", "open", "user", "admin"},
            bearer : {None} \cup BadTokens \cup Users,
            body   : {"good", "garbled", "unparsable", "invalid"}]

ASSUME RequestConstants ==
    /\ Asks \subseteq AllAsks /\ Admins \subseteq Users
    /\ MaxChanges \in Nat /\ MaxCrashedRows \in Nat
(* A token is a user's, or one of the bad ones, or missing. *)
ASSUME TokensDiffer == Users \cap ({None} \cup BadTokens) = {}

VARIABLES
    roles,     \* each user's row: its role, or "gone"
    changes,   \* how often one was changed
    context,   \* the contextvars of each server task
    req,       \* each request
    log        \* the lines written while serving each request, in order

vars == <<roles, changes, context, req, log>>

NoContext == [id |-> None, user |-> None]
NoAnswer == [status |-> 0, envelope |-> None, challenge |-> FALSE, header |-> None]
NoRequest == [pc |-> "idle", task |-> None, ask |-> None, id |-> None,
              child |-> NoContext, admitted |-> None, answer |-> NoAnswer]

Init ==
    /\ roles = [u \in Users |-> IF u \in Admins THEN "admin" ELSE "user"]
    /\ changes = 0
    /\ context = [t \in Tasks |-> NoContext]
    /\ req = [q \in Requests |-> NoRequest]
    /\ log = [q \in Requests |-> <<>>]
-----------------------------------------------------------------------------
(* merge_contextvars: a line carries the context it is written in. *)
Line(event, ctx, trace) == [event |-> event, id |-> ctx.id, user |-> ctx.user, trace |-> trace]

Writes(q, lines) == log' = [log EXCEPT ![q] = @ \o lines]
Count(q, events) == Cardinality({ i \in DOMAIN log[q] : log[q][i].event \in events })

(* What only an endpoint writes: lines of its own, and of a row it imports. *)
RowCrash == "csv.row.crashed"
EndpointEvents == {"endpoint", RowCrash}

(* Fault: the id is taken from the request's headers. *)
AnsweredFromHeaders(status, q) ==
    [NoAnswer EXCEPT !.status = status,
                     !.envelope = IF req[q].id \in ClientIds THEN req[q].id ELSE None]
Answered(status, q) == [NoAnswer EXCEPT !.status = status, !.envelope = req[q].id]

(* An answer that leaves the child task, for the middleware to close. *)
Closing(q, answer) == req' = [req EXCEPT ![q].pc = "closing", ![q].answer = answer]

(* handle_app_error: the level, and with it the traceback, and the          *)
(* challenge follow from the status.                                        *)
IsOurs(status) == status >= 500
AppErrorLine(q, ctx, status) == Line("http.app_error", ctx, IsOurs(status))
AppError(q, ctx, status, before) ==
    /\ Writes(q, Append(before, AppErrorLine(q, ctx, status)))
    /\ Closing(q, [Answered(status, q) EXCEPT !.challenge = (status = 401)])

(* handle_validation_error *)
ValidationError(q) ==
    /\ Writes(q, << Line("http.request_invalid", req[q].child, FALSE) >>)
    /\ Closing(q, Answered(422, q))

(* handle_http_exception *)
HttpError(q, status) ==
    /\ Writes(q, << Line("http.error", req[q].child, FALSE) >>)
    /\ Closing(q, Answered(status, q))

(* What the endpoints raise, by status: of the file, of authentication, of  *)
(* everything else that is named.  Row errors never leave the import loop.  *)
UploadErrors == {400, 413, 422}
AuthErrors == {401}
OtherErrors == {404, 409, 422}
InvariantErrors == {500}
Raisable == UploadErrors \cup AuthErrors \cup OtherErrors \cup InvariantErrors

IsProtected(q) == req[q].ask.route \in {"user", "admin"}
-----------------------------------------------------------------------------
(* The client's id, or a new one, which is named after the request. *)
IdsOf(q) == {q} \cup ClientIds
Bound(id) == [NoContext EXCEPT !.id = id]
(* Fault: the fields are bound in a dictionary of the module. *)
ReceiveInOneContext(q, t) ==
    /\ req[q].pc = "idle"
    /\ \A p \in Requests : req[p].task = t => req[p].pc = "done"
    /\ \E id \in IdsOf(q), ask \in Asks :
          LET bound == Bound(id)
          IN  /\ context' = [s \in Tasks |-> bound]
              /\ req' = [req EXCEPT ![q] = [NoRequest EXCEPT
                    !.pc = "routing", !.task = t, !.ask = ask, !.id = id, !.child = bound]]
    /\ UNCHANGED <<roles, changes, log>>

(* dispatch: clear_contextvars and bind_contextvars; call_next copies the   *)
(* context into the child task.                                             *)
Receive(q, t) ==
    /\ req[q].pc = "idle"
    /\ \A p \in Requests : req[p].task = t => req[p].pc = "done"
    /\ \E id \in IdsOf(q), ask \in Asks :
          LET bound == Bound(id)
          IN  /\ context' = [context EXCEPT ![t] = bound]
              /\ req' = [req EXCEPT ![q] = [NoRequest EXCEPT
                    !.pc = "routing", !.task = t, !.ask = ask, !.id = id, !.child = bound]]
    /\ UNCHANGED <<roles, changes, log>>

(* No such path or method: Starlette's own HTTPException, which FastAPI     *)
(* answers by itself.                                                       *)
NotFound(q) ==
    /\ req[q].pc = "routing" /\ req[q].ask.route = "unknown"
    /\ Closing(q, [NoAnswer EXCEPT !.status = 404])
    /\ UNCHANGED <<roles, changes, context, log>>

(* A body that is no text, or no form, is refused before any dependency     *)
(* runs, by FastAPI's HTTPException: handle_http_exception.                 *)
Garbled(q) ==
    /\ req[q].pc = "routing" /\ req[q].ask.route # "unknown"
    /\ req[q].ask.body = "garbled"
    /\ HttpError(q, 400)
    /\ UNCHANGED <<roles, changes, context>>

(* So is one that is no JSON at all. *)
Unparsable(q) ==
    /\ req[q].pc = "routing" /\ req[q].ask.route # "unknown"
    /\ req[q].ask.body = "unparsable"
    /\ ValidationError(q)
    /\ UNCHANGED <<roles, changes, context>>

IsRead(q) ==
    /\ req[q].pc = "routing" /\ req[q].ask.route # "unknown"
    /\ req[q].ask.body \notin UnreadBodies

(* HTTPBearer raises FastAPI's HTTPException too. *)
NoBearer(q) ==
    /\ IsRead(q) /\ IsProtected(q) /\ req[q].ask.bearer = None
    /\ HttpError(q, 401)
    /\ UNCHANGED <<roles, changes, context>>

(* Fault: every reason reads the same. *)
RejectedAlike(q, reason) == << Line("decode_failed", req[q].child, FALSE) >>
(* auth.token.rejected, told apart by its reason. *)
Rejected(q, reason) == << Line(reason, req[q].child, FALSE) >>

(* get_current_user up to its await: a token that cannot name a user. *)
RejectToken(q) ==
    /\ IsRead(q) /\ IsProtected(q) /\ req[q].ask.bearer \in BadTokens
    /\ AppError(q, req[q].child, 401, Rejected(q, req[q].ask.bearer))
    /\ UNCHANGED <<roles, changes, context>>

(* The dependencies left to wait for: the user's row, or none. *)
Proceed(q) ==
    /\ IsRead(q) /\ (IsProtected(q) => req[q].ask.bearer \in Users)
    /\ req' = [req EXCEPT ![q].pc = IF IsProtected(q) THEN "loading" ELSE "checking"]
    /\ UNCHANGED <<roles, changes, context, log>>

UserGone(q) ==
    /\ req[q].pc = "loading" /\ roles[req[q].ask.bearer] = "gone"
    /\ AppError(q, req[q].child, 401, Rejected(q, "user_not_found"))
    /\ UNCHANGED <<roles, changes, context>>

(* get_current_user binds the user for all that runs in this task after it. *)
WithUser(ctx, u) == [ctx EXCEPT !.user = u]
(* Fault: the role is not looked at. *)
MayUseAnything(q) == TRUE
MayUse(q) == req[q].ask.route = "admin" => roles[req[q].ask.bearer] = "admin"

Admit(q) ==
    LET u == req[q].ask.bearer
        ctx == WithUser(req[q].child, u)
    IN  /\ req[q].pc = "loading" /\ roles[u] # "gone" /\ MayUse(q)
        /\ req' = [req EXCEPT ![q].pc = "checking", ![q].admitted = roles[u], ![q].child = ctx]
        /\ Writes(q, << Line("auth.authenticated", ctx, FALSE) >>)
        /\ UNCHANGED <<roles, changes, context>>

(* check_admin_permission *)
Deny(q) ==
    LET ctx == WithUser(req[q].child, req[q].ask.bearer)
    IN  /\ req[q].pc = "loading" /\ roles[req[q].ask.bearer] # "gone" /\ ~MayUse(q)
        /\ AppError(q, ctx, 403, << Line("auth.authenticated", ctx, FALSE),
                                   Line("auth.permission.denied", ctx, FALSE) >>)
        /\ UNCHANGED <<roles, changes, context>>

(* Fields that do not validate are reported once every dependency is there. *)
Invalid(q) ==
    /\ req[q].pc = "checking" /\ req[q].ask.body = "invalid"
    /\ ValidationError(q)
    /\ UNCHANGED <<roles, changes, context>>

(* The endpoint writes its first line and works, awaiting the database. *)
EnterEndpoint(q) ==
    /\ req[q].pc = "checking" /\ req[q].ask.body = "good"
    /\ req' = [req EXCEPT ![q].pc = "working"]
    /\ Writes(q, << Line("endpoint", req[q].child, FALSE) >>)
    /\ UNCHANGED <<roles, changes, context>>

(* Its context when it ends: login, register and refresh bind the user they *)
(* found, if they found one.                                                *)
EndContexts(q) ==
    IF IsProtected(q) THEN {req[q].child}
    ELSE {req[q].child} \cup { WithUser(req[q].child, u) : u \in Users }

(* Tier 3 of the import loop: a row that none of our errors describes keeps *)
(* its traceback, and the import goes on.                                   *)
RowCrashed(q) ==
    /\ req[q].pc = "working" /\ req[q].ask.route = "user"
    /\ Count(q, {RowCrash}) < MaxCrashedRows
    /\ Writes(q, << Line(RowCrash, req[q].child, TRUE) >>)
    /\ UNCHANGED <<roles, changes, context, req>>

Succeed(q) ==
    /\ req[q].pc = "working"
    /\ \E ctx \in EndContexts(q) : Writes(q, << Line("endpoint", ctx, FALSE) >>)
    /\ Closing(q, [NoAnswer EXCEPT !.status = 200])
    /\ UNCHANGED <<roles, changes, context>>

(* A service logs why, and raises.  A file is refused before its rows are   *)
(* read: after them there are only failures of ours.                        *)
Fail(q) ==
    /\ req[q].pc = "working"
    /\ \E ctx \in EndContexts(q), status \in Raisable \cap Statuses :
          /\ Count(q, {RowCrash}) > 0 => status \in InvariantErrors
          /\ AppError(q, ctx, status, << Line("endpoint", ctx, FALSE) >>)
    /\ UNCHANGED <<roles, changes, context>>

(* save_transactions logs the traceback itself before it raises. *)
FailToPersist(q) ==
    /\ req[q].pc = "working" /\ req[q].ask.route = "user"
    /\ AppError(q, req[q].child, 500, << Line("endpoint", req[q].child, TRUE) >>)
    /\ UNCHANGED <<roles, changes, context>>

(* Anything else that is raised passes the handlers by. *)
Break(q) ==
    /\ req[q].pc \in {"loading", "working"}
    /\ req' = [req EXCEPT ![q].pc = "broken"]
    /\ UNCHANGED <<roles, changes, context, log>>

(* dispatch ends, in its own context, and sets the header. *)
FinishedLine(q) == << Line("http.request.finished", context[req[q].task], FALSE) >>

Finish(q) ==
    /\ req[q].pc = "closing"
    /\ Writes(q, FinishedLine(q))
    /\ req' = [req EXCEPT ![q].pc = "done", ![q].answer.header = req[q].id]
    /\ UNCHANGED <<roles, changes, context>>

(* Fault: the closing line is in a finally. *)
CrashedAndFinishedLine(q) ==
    << Line("http.request.crashed", context[req[q].task], FALSE),
       Line("http.request.finished", context[req[q].task], FALSE) >>
(* dispatch logs and raises on; handle_unexpected answers, outside of it.   *)
CrashedLine(q) == << Line("http.request.crashed", context[req[q].task], FALSE) >>

Crashed(q) ==
    /\ req[q].pc = "broken"
    /\ Writes(q, Append(CrashedLine(q),
                        Line("http.unhandled_exception", context[req[q].task], TRUE)))
    /\ req' = [req EXCEPT ![q].pc = "done", ![q].answer = Answered(500, q)]
    /\ UNCHANGED <<roles, changes, context>>

(* An operator deletes a user or changes a role, which no endpoint does. *)
ChangeUser(u) ==
    /\ changes < MaxChanges /\ roles[u] # "gone"
    /\ changes' = changes + 1
    /\ \E role \in {"user", "admin", "gone"} \ {roles[u]} : roles' = [roles EXCEPT ![u] = role]
    /\ UNCHANGED <<context, req, log>>

Serve(q) ==
    \/ NotFound(q) \/ Garbled(q) \/ Unparsable(q) \/ NoBearer(q) \/ RejectToken(q)
    \/ Proceed(q) \/ UserGone(q) \/ Admit(q) \/ Deny(q) \/ Invalid(q) \/ EnterEndpoint(q)
    \/ RowCrashed(q) \/ Succeed(q) \/ Fail(q) \/ FailToPersist(q) \/ Break(q)
    \/ Finish(q) \/ Crashed(q)

Next ==
    \/ \E q \in Requests : (\E t \in Tasks : Receive(q, t)) \/ Serve(q)
    \/ \E u \in Users : ChangeUser(u)
    \/ (\A q \in Requests : req[q].pc = "done") /\ UNCHANGED vars

Spec == Init /\ [][Next]_vars
-----------------------------------------------------------------------------
TypeOK ==
    /\ roles \in [Users -> {"user", "admin", "gone"}]
    /\ changes \in 0..MaxChanges
    /\ context \in [Tasks -> [id : {None} \cup Requests \cup ClientIds, user : {None} \cup Users]]
    /\ \A q \in Requests :
          /\ req[q].pc \in {"idle", "routing", "loading", "checking", "working",
                            "closing", "broken", "done"}
          /\ req[q].task \in {None} \cup Tasks
          /\ req[q].pc # "idle" => req[q].id \in {q} \cup ClientIds
          /\ req[q].answer.status \in {0, 200, 401, 403} \cup Raisable

Done(q) == req[q].pc = "done"
Closings == {"http.request.finished", "http.request.crashed"}
Reasons == BadTokens \cup {"user_not_found"}

(* docs/logging_and_errors.md:394-397, "Everything logged during the        *)
(* request inherits them": every line written while a request is served     *)
(* carries that request's id, and a protected endpoint's lines its caller,   *)
(* whichever other requests run meanwhile or used the task before; no line  *)
(* names a user other than the one whose token it was.                      *)
LinesNameTheirRequest ==
    \A q \in Requests : \A i \in DOMAIN log[q] :
        LET line == log[q][i]
        IN  /\ line.id = req[q].id
            /\ IsProtected(q) => line.user \in {None, req[q].ask.bearer}
            /\ IsProtected(q) /\ line.event \in EndpointEvents =>
                  line.user = req[q].ask.bearer

(* A request leaves one closing line and no other request's: crashed when   *)
(* an exception passed the handlers by, and then the last word is the       *)
(* handler's outside; finished otherwise (middleware.py:43-57).             *)
ClosedOnce ==
    \A q \in Requests :
        /\ Count(q, Closings) = (IF Done(q) THEN 1 ELSE 0)
        /\ Done(q) => Last(log[q]).event = IF Count(q, {"http.request.crashed"}) = 1
                                           THEN "http.unhandled_exception"
                                           ELSE "http.request.finished"

(* What the caller can quote is what the log can be searched for, docs/     *)
(* logging_and_errors.md:312-314: every answer has the id of its request in *)
(* its header or in its envelope, and no other request's in either; a       *)
(* failure of ours has it in its envelope.                                  *)
AnswersCarryTheId ==
    \A q \in Requests : Done(q) =>
        LET answer == req[q].answer
        IN  /\ req[q].id \in {answer.header, answer.envelope}
            /\ {answer.header, answer.envelope} \subseteq {None, req[q].id}
            /\ IsOurs(answer.status) => answer.envelope = req[q].id

(* Who get_current_user or check_admin_permission may have let in. *)
Entitled(q) == CASE req[q].ask.route = "admin" -> {"admin"}
                 [] req[q].ask.route = "user" -> {"user", "admin"}
                 [] OTHER -> {None}

(* An endpoint runs only for a user whose row had, when it was read, the    *)
(* role its route asks for (users.py:27-75, dependencies.py:73-85); anybody *)
(* else is told no more than that, or that the body cannot be read.         *)
AuthenticationComesFirst ==
    \A q \in Requests :
        req[q].pc # "idle" /\ req[q].admitted \notin Entitled(q) =>
            /\ Count(q, EndpointEvents) = 0
            /\ \/ req[q].answer.status \in {0, 401, 403, 500}
               \/ req[q].ask.body \in UnreadBodies

(* The tracebacks of a request, but those of rows, each of which is an      *)
(* incident of its own that ends where it is logged (docs/                  *)
(* logging_and_errors.md:241-244, base.py:108-118).                         *)
Tracebacks(q) == { i \in DOMAIN log[q] : log[q][i].trace /\ log[q][i].event # RowCrash }

(* The log tells why a request failed.  dependencies.py:28-31, "Every       *)
(* rejection is logged with a specific reason": a rejected token leaves one *)
(* reason, which is the true one, and its bearer is challenged; any other   *)
(* answer, be it a failed login's, leaves none.  A failure of ours leaves a *)
(* traceback, docs/logging_and_errors.md:200-210, a caller's leaves none,   *)
(* and rows that crashed make no failure of an upload.                      *)
LogTellsWhy ==
    \A q \in Requests : Done(q) =>
        LET answer == req[q].answer
            bearer == req[q].ask.bearer
            rejected == answer.status = 401 /\ IsProtected(q) /\ bearer # None
                        /\ req[q].admitted = None
            reason == IF bearer \in BadTokens THEN bearer ELSE "user_not_found"
        IN  /\ Count(q, Reasons) = (IF rejected THEN 1 ELSE 0)
            /\ rejected => Count(q, {reason}) = 1 /\ answer.challenge
            /\ IsOurs(answer.status) <=> Tracebacks(q) # {}
-----------------------------------------------------------------------------
(* Three rules of the repository about answers and logs.                    *)

(* docs/logging_and_errors.md:221-236, "One incident, one traceback": it    *)
(* belongs to the outermost handler, and every layer below logs without.    *)
OneIncidentOneTraceback ==
    \A q \in Requests : Done(q) => Cardinality(Tracebacks(q)) <= 1

(* main.py:32, the middleware "wraps everything, including the exception    *)
(* handlers", so that each answer echoes X-Request-ID.                      *)
EveryAnswerHasTheHeader ==
    \A q \in Requests : Done(q) => req[q].answer.header = req[q].id

(* docs/logging_and_errors.md:300-301, "Every error response has the same   *)
(* envelope".                                                               *)
EveryErrorHasTheEnvelope ==
    \A q \in Requests :
        Done(q) /\ req[q].answer.status >= 400 => req[q].answer.envelope = req[q].id

(* Each rule implies this, so that one behaviour which violates it refutes  *)
(* all three: a failed import, a broken request, an unknown path.           *)
SomeRuleIsKept ==
    OneIncidentOneTraceback \/ EveryAnswerHasTheHeader \/ EveryErrorHasTheEnvelope
=============================================================================
