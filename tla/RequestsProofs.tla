--------------------------- MODULE RequestsProofs ---------------------------
(***************************************************************************)
(* Proofs, for any number of requests, server tasks and users, that the    *)
(* log lines of requests stay apart, that each request is closed once and  *)
(* quotes its own id, and that nobody reaches an endpoint unentitled.      *)
(***************************************************************************)
EXTENDS Requests, FiniteSetTheorems, TLAPS

Ids == {None} \cup Requests \cup ClientIds
Contexts == [id : Ids, user : {None} \cup Users]
Answers == [status : Nat, envelope : Ids, challenge : BOOLEAN, header : Ids]
Pcs == {"idle", "routing", "loading", "checking", "working", "closing", "broken", "done"}
Records == [pc : Pcs, task : {None} \cup Tasks, ask : {None} \cup AllAsks, id : Ids,
            child : Contexts, admitted : {None, "user", "admin"}, answer : Answers]
Events == Reasons \cup Closings
          \cup {"http.app_error", "http.request_invalid", "http.error",
                "http.unhandled_exception", "auth.authenticated",
                "auth.permission.denied"} \cup EndpointEvents
Lines == [event : Events, id : Ids, user : {None} \cup Users, trace : BOOLEAN]

Typed ==
    /\ roles \in [Users -> {"user", "admin", "gone"}]
    /\ changes \in 0..MaxChanges
    /\ context \in [Tasks -> Contexts]
    /\ req \in [Requests -> Records]
    /\ log \in [Requests -> Seq(Lines)]

(* The lines that end a request's log. *)
Final == Closings \cup {"http.unhandled_exception"}

(* The log of request q has no line of these events before its n-th. *)
NoneBefore(q, events, n) ==
    \A i \in DOMAIN log[q] : i < n => log[q][i].event \notin events
Lacks(q, events) == \A i \in DOMAIN log[q] : log[q][i].event \notin events

Asked(q) ==
    /\ req[q].pc = "idle" => log[q] = <<>>
    /\ req[q].pc # "idle" => req[q].ask \in AllAsks /\ req[q].id \in {q} \cup ClientIds

(* What the two contexts of a request hold while it is served. *)
OwnContexts(q) ==
    /\ req[q].pc # "idle" =>
          /\ req[q].child.id = req[q].id
          /\ IsProtected(q) => req[q].child.user \in {None, req[q].ask.bearer}
          /\ IsProtected(q) /\ req[q].pc \in {"checking", "working"} =>
                req[q].child.user = req[q].ask.bearer
    /\ req[q].pc \notin {"idle", "done"} =>
          /\ req[q].task \in Tasks
          /\ context[req[q].task] = Bound(req[q].id)

(* A line that names the request it was written for. *)
NamesIt(q, line) ==
    /\ line.id = req[q].id
    /\ IsProtected(q) => line.user \in {None, req[q].ask.bearer}
    /\ IsProtected(q) /\ line.event \in EndpointEvents => line.user = req[q].ask.bearer
OwnLines(q) == \A i \in DOMAIN log[q] : NamesIt(q, log[q][i])

Admission(q) ==
    /\ req[q].pc \in {"routing", "loading"} => req[q].admitted = None
    /\ req[q].pc = "loading" => IsProtected(q) /\ req[q].ask.bearer \in Users
    /\ req[q].pc \in {"checking", "working"} => req[q].admitted \in Entitled(q)
    /\ req[q].pc # "idle" /\ req[q].admitted \notin Entitled(q) =>
          /\ Lacks(q, EndpointEvents)
          /\ \/ req[q].answer.status \in {0, 401, 403, 500}
             \/ req[q].ask.body \in UnreadBodies

(* A log is closed by its last line, or by its last two. *)
FinishedLog(q) ==
    /\ Len(log[q]) >= 1
    /\ log[q][Len(log[q])].event = "http.request.finished"
    /\ NoneBefore(q, Final, Len(log[q]))
CrashedLog(q) ==
    /\ Len(log[q]) >= 2
    /\ log[q][Len(log[q])].event = "http.unhandled_exception"
    /\ log[q][Len(log[q]) - 1].event = "http.request.crashed"
    /\ NoneBefore(q, Final, Len(log[q]) - 1)
Closed(q) ==
    /\ req[q].pc # "done" => Lacks(q, Final)
    /\ req[q].pc = "done" => FinishedLog(q) \/ CrashedLog(q)

Quoted(q) ==
    /\ req[q].answer.header \in {None, req[q].id}
    /\ req[q].answer.envelope \in {None, req[q].id}
    /\ req[q].pc \in {"closing", "done"} /\ req[q].answer.status >= 500 =>
          req[q].answer.envelope = req[q].id
    /\ req[q].pc = "done" /\ req[q].answer.header # req[q].id =>
          req[q].answer.status = 500
    /\ req[q].answer.status \in {0, 200, 401, 403} \cup Raisable

ReqInv(q) ==
    Asked(q) /\ OwnContexts(q) /\ OwnLines(q) /\ Admission(q) /\ Closed(q) /\ Quoted(q)

(* The inductive invariant: what holds of each request, by itself. *)
IInv == Typed /\ \A q \in Requests : ReqInv(q)
-----------------------------------------------------------------------------
(* The lines written are appended to the request's log and to no other. *)
LEMMA Appended ==
    ASSUME log \in [Requests -> Seq(Lines)], NEW q \in Requests,
           NEW lines \in Seq(Lines), Writes(q, lines)
    PROVE  /\ log' \in [Requests -> Seq(Lines)]
           /\ \A p \in Requests \ {q} : log'[p] = log[p]
           /\ Len(log'[q]) = Len(log[q]) + Len(lines)
           /\ DOMAIN log'[q] = 1..Len(log'[q])
           /\ DOMAIN log[q] = 1..Len(log[q])
           /\ \A i \in DOMAIN log[q] : log'[q][i] = log[q][i]
           /\ \A i \in DOMAIN log'[q] \ DOMAIN log[q] :
                 \E j \in DOMAIN lines : i = Len(log[q]) + j /\ log'[q][i] = lines[j]
           /\ \A j \in DOMAIN lines : log'[q][Len(log[q]) + j] = lines[j]
<1>1. log[q] \in Seq(Lines) /\ log[q] \o lines \in Seq(Lines)
  OBVIOUS
<1>2. log' = [log EXCEPT ![q] = log[q] \o lines]
  BY DEF Writes
<1>3. log' \in [Requests -> Seq(Lines)] /\ log'[q] = log[q] \o lines
  BY <1>1, <1>2
<1>4. \A p \in Requests \ {q} : log'[p] = log[p]
  BY <1>2
<1> DEFINE old == log[q]
<1>5. /\ Len(old \o lines) = Len(old) + Len(lines)
      /\ DOMAIN (old \o lines) = 1..(Len(old) + Len(lines))
      /\ DOMAIN old = 1..Len(old) /\ DOMAIN lines = 1..Len(lines)
      /\ \A i \in 1..(Len(old) + Len(lines)) :
            (old \o lines)[i] = IF i <= Len(old) THEN old[i] ELSE lines[i - Len(old)]
      /\ Len(old) \in Nat /\ Len(lines) \in Nat
  BY <1>1
<1> HIDE DEF old
<1>6. \A i \in DOMAIN (old \o lines) \ DOMAIN old :
         \E j \in DOMAIN lines : i = Len(old) + j /\ (old \o lines)[i] = lines[j]
  <2> TAKE i \in DOMAIN (old \o lines) \ DOMAIN old
  <2> WITNESS i - Len(old) \in DOMAIN lines
  <2> QED BY <1>5
<1>7. \A i \in DOMAIN old : (old \o lines)[i] = old[i]
  BY <1>5
<1>8. \A j \in DOMAIN lines : (old \o lines)[Len(old) + j] = lines[j]
  BY <1>5
<1> QED BY <1>3, <1>4, <1>5, <1>6, <1>7, <1>8 DEF old

(* A log has lines of given events only as it had, or was given, such lines. *)
LEMMA LacksKept ==
    ASSUME log \in [Requests -> Seq(Lines)], NEW q \in Requests,
           NEW lines \in Seq(Lines), Writes(q, lines), NEW events,
           Lacks(q, events), \A j \in DOMAIN lines : lines[j].event \notin events
    PROVE  Lacks(q, events)'
BY Appended DEF Lacks

(* A step for one request leaves what holds of the others. *)
LEMMA OthersKeep ==
    ASSUME NEW p \in Requests, ReqInv(p), req'[p] = req[p], log'[p] = log[p],
           req[p].pc \notin {"idle", "done"} =>
              context'[req[p].task] = context[req[p].task]
    PROVE  ReqInv(p)'
<1>1. Asked(p)' /\ OwnContexts(p)'
  BY DEF ReqInv, Asked, OwnContexts, IsProtected
<1>2. OwnLines(p)' /\ Admission(p)'
  BY DEF ReqInv, OwnLines, NamesIt, Admission, Lacks, Entitled, IsProtected
<1>3. Closed(p)' /\ Quoted(p)'
  BY DEF ReqInv, Closed, Quoted, Lacks, FinishedLog, CrashedLog, NoneBefore
<1> QED BY <1>1, <1>2, <1>3 DEF ReqInv

(* A step that serves request q: what it may append and change.             *)
Serves(q, lines) ==
    /\ lines \in Seq(Lines) /\ Writes(q, lines)
    /\ \A j \in DOMAIN lines : NamesIt(q, lines[j])
    /\ req' \in [Requests -> Records]
    /\ \A p \in Requests \ {q} : req'[p] = req[p]
    /\ req[q].pc \notin {"idle", "done"} /\ req'[q].pc # "idle"
    /\ req'[q].ask = req[q].ask /\ req'[q].id = req[q].id /\ req'[q].task = req[q].task
    /\ UNCHANGED <<roles, changes, context>>

(* One that does not close it. *)
GoesOn(q, lines) ==
    /\ req'[q].pc # "done"
    /\ \A j \in DOMAIN lines : lines[j].event \notin Final

(* The contexts and the admission after the step. *)
StaysItself(q) ==
    /\ req'[q].child.id = req[q].id
    /\ IsProtected(q) => req'[q].child.user \in {None, req[q].ask.bearer}
    /\ IsProtected(q) /\ req'[q].pc \in {"checking", "working"} =>
          req'[q].child.user = req[q].ask.bearer
StaysEntitled(q, lines) ==
    /\ req'[q].pc \in {"routing", "loading"} => req'[q].admitted = None
    /\ req'[q].pc = "loading" => IsProtected(q) /\ req[q].ask.bearer \in Users
    /\ req'[q].pc \in {"checking", "working"} => req'[q].admitted \in Entitled(q)
    /\ req'[q].admitted \notin Entitled(q) =>
          /\ req[q].admitted \notin Entitled(q)
          /\ \A j \in DOMAIN lines : lines[j].event \notin EndpointEvents
          /\ \/ req'[q].answer.status \in {0, 401, 403, 500}
             \/ req[q].ask.body \in UnreadBodies

LEMMA ServiceKeeps ==
    ASSUME IInv, NEW q \in Requests, NEW lines, Serves(q, lines),
           StaysItself(q), StaysEntitled(q, lines)
    PROVE  /\ Typed'
           /\ \A p \in Requests \ {q} : ReqInv(p)'
           /\ Asked(q)' /\ OwnContexts(q)' /\ OwnLines(q)' /\ Admission(q)'
<1>1. Typed'
  BY Appended DEF IInv, Typed, Serves
<1>2. \A p \in Requests \ {q} : ReqInv(p)'
  BY OthersKeep, Appended DEF IInv, Typed, Serves
<1>3. Asked(q)' /\ OwnContexts(q)'
  BY DEF IInv, ReqInv, Asked, OwnContexts, Serves, StaysItself, IsProtected
<1>4. OwnLines(q)'
  <2> SUFFICES ASSUME NEW i \in DOMAIN log'[q] PROVE NamesIt(q, log'[q][i])
    BY DEF OwnLines, NamesIt, Serves, IsProtected
  <2>1. CASE i \in DOMAIN log[q]
    BY <2>1, Appended DEF IInv, Typed, Serves, ReqInv, OwnLines
  <2>2. CASE i \notin DOMAIN log[q]
    BY <2>2, Appended DEF IInv, Typed, Serves
  <2> QED BY <2>1, <2>2
<1>5. Admission(q)'
  <2>1. Entitled(q)' = Entitled(q)
    BY DEF Entitled, Serves
  <2>2. ASSUME req'[q].admitted \notin Entitled(q) PROVE Lacks(q, EndpointEvents)'
    <3>1. Lacks(q, EndpointEvents)
      BY <2>2 DEF IInv, ReqInv, Admission, Serves, StaysEntitled
    <3> QED BY <2>2, <3>1, LacksKept DEF IInv, Typed, Serves, StaysEntitled
  <2> QED BY <2>1, <2>2 DEF Admission, Serves, StaysEntitled, IsProtected
<1> QED BY <1>1, <1>2, <1>3, <1>4, <1>5

(* Of a step that does not close the request, only the answer is left.      *)
LEMMA GoingOnKeeps ==
    ASSUME IInv, NEW q \in Requests, NEW lines, Serves(q, lines),
           StaysItself(q), StaysEntitled(q, lines), GoesOn(q, lines), Quoted(q)'
    PROVE  IInv'
<1>1. Closed(q)'
  <2>1. Lacks(q, Final)
    BY DEF IInv, ReqInv, Closed, Serves
  <2>2. Lacks(q, Final)'
    BY <2>1, LacksKept DEF IInv, Typed, Serves, GoesOn
  <2> QED BY <2>2 DEF Closed, GoesOn
<1> QED BY <1>1, ServiceKeeps DEF IInv, ReqInv
-----------------------------------------------------------------------------
(* The invariant holds before any request. *)
LEMMA InitIInv == Init => IInv
<1> SUFFICES ASSUME Init PROVE IInv
  OBVIOUS
<1>1. Typed
  <2>1. NoContext \in Contexts
    BY DEF NoContext, Contexts, Ids
  <2>2. NoAnswer \in Answers
    BY DEF NoAnswer, Answers, Ids
  <2>3. NoRequest \in Records
    BY <2>1, <2>2 DEF NoRequest, Records, Pcs, Ids
  <2>4. roles \in [Users -> {"user", "admin", "gone"}] /\ changes \in 0..MaxChanges
    BY RequestConstants DEF RequestConstants, Init
  <2>5. log \in [Requests -> Seq(Lines)]
    BY DEF Init
  <2> QED BY <2>1, <2>3, <2>4, <2>5 DEF Init, Typed
<1>2. ASSUME NEW q \in Requests PROVE ReqInv(q)
  <2>1. req[q] = NoRequest /\ log[q] = <<>>
    BY <1>2 DEF Init
  <2> QED BY <2>1 DEF NoRequest, NoAnswer, ReqInv, Asked, OwnContexts, OwnLines,
       Admission, Closed, Quoted, Lacks
<1> QED BY <1>1, <1>2 DEF IInv

(* A new request starts with an empty log, in a task no other is served by. *)
LEMMA ReceiveKeepsIInv ==
    ASSUME IInv, NEW q \in Requests, NEW t \in Tasks, Receive(q, t)
    PROVE  IInv'
<1>1. PICK id \in IdsOf(q), ask \in Asks :
         /\ context' = [context EXCEPT ![t] = Bound(id)]
         /\ req' = [req EXCEPT ![q] = [NoRequest EXCEPT
               !.pc = "routing", !.task = t, !.ask = ask, !.id = id, !.child = Bound(id)]]
  BY DEF Receive
<1>2. UNCHANGED <<roles, changes, log>> /\ req[q].pc = "idle"
  BY DEF Receive
<1>3. ask \in AllAsks /\ id \in Ids /\ id \in {q} \cup ClientIds
  BY RequestConstants DEF RequestConstants, IdsOf, Ids
<1>4. Bound(id) \in Contexts /\ Bound(id).id = id /\ Bound(id).user = None
  BY <1>3 DEF Bound, NoContext, Contexts
<1>5. /\ req'[q] = [NoRequest EXCEPT
               !.pc = "routing", !.task = t, !.ask = ask, !.id = id, !.child = Bound(id)]
      /\ \A p \in Requests \ {q} : req'[p] = req[p]
      /\ context'[t] = Bound(id)
      /\ \A s \in Tasks \ {t} : context'[s] = context[s]
  BY <1>1 DEF IInv, Typed
<1>6. Typed'
  <2>1. NoAnswer \in Answers
    BY DEF NoAnswer, Answers, Ids
  <2>2. req'[q] \in Records
    BY <1>3, <1>4, <1>5, <2>1 DEF NoRequest, Records, Pcs
  <2> QED BY <1>1, <1>2, <1>4, <1>5, <2>2 DEF IInv, Typed
<1>7. ReqInv(q)'
  <2>1. log'[q] = <<>>
    BY <1>2 DEF IInv, ReqInv, Asked
  <2> QED BY <1>3, <1>4, <1>5, <2>1 DEF NoRequest, NoAnswer, ReqInv, Asked,
       OwnContexts, OwnLines, Admission, Closed, Quoted, Lacks, IsProtected
<1>8. ASSUME NEW p \in Requests \ {q} PROVE ReqInv(p)'
  <2>1. req[p].task = t => req[p].pc = "done"
    BY DEF Receive
  <2>2. req[p].pc \notin {"idle", "done"} => context'[req[p].task] = context[req[p].task]
    BY <1>5, <2>1 DEF IInv, ReqInv, OwnContexts
  <2> QED BY <1>2, <1>5, <2>2, OthersKeep DEF IInv
<1> QED BY <1>6, <1>7, <1>8 DEF IInv

(* A line is of the known ones, and names the request of whose child task   *)
(* it has the context.                                                      *)
LEMMA LineOfRequest ==
    ASSUME NEW q \in Requests, NEW event \in Events, NEW ctx \in Contexts,
           NEW trace \in BOOLEAN
    PROVE  /\ Line(event, ctx, trace) \in Lines
           /\ Line(event, ctx, trace).event = event
           /\ ctx.id = req[q].id
              /\ (IsProtected(q) => ctx.user \in {None, req[q].ask.bearer})
              /\ (IsProtected(q) /\ event \in EndpointEvents => ctx.user = req[q].ask.bearer)
                 => NamesIt(q, Line(event, ctx, trace))
BY DEF Line, Lines, NamesIt, Contexts

(* An answer the handlers make quotes the request's id. *)
LEMMA AnsweredQuotes ==
    ASSUME IInv, NEW q \in Requests, NEW status \in Nat
    PROVE  /\ Answered(status, q) \in Answers
           /\ Answered(status, q).status = status
           /\ Answered(status, q).envelope = req[q].id
           /\ Answered(status, q).header = None
<1>1. req[q].id \in Ids
  BY DEF IInv, Typed, Records
<1>2. NoAnswer \in Answers
  BY DEF NoAnswer, Answers, Ids
<1>3. NoAnswer.header = None
  BY DEF NoAnswer
<1> QED BY <1>1, <1>2, <1>3 DEF Answered, Answers

(* A request leaves its child task with an answer and the lines that go     *)
(* with it, and its contexts as they were.                                  *)
LEMMA ClosingServes ==
    ASSUME IInv, NEW q \in Requests, req[q].pc \notin {"idle", "done"},
           NEW lines \in Seq(Lines), Writes(q, lines),
           \A j \in DOMAIN lines : NamesIt(q, lines[j]) /\ lines[j].event \notin Final,
           NEW answer \in Answers, Closing(q, answer),
           answer.header = None, answer.envelope \in {None, req[q].id},
           answer.status >= 500 => answer.envelope = req[q].id,
           answer.status \in {0, 200, 401, 403} \cup Raisable,
           UNCHANGED <<roles, changes, context>>,
           req[q].admitted \notin Entitled(q) =>
              /\ \A j \in DOMAIN lines : lines[j].event \notin EndpointEvents
              /\ \/ answer.status \in {0, 401, 403, 500}
                 \/ req[q].ask.body \in UnreadBodies
    PROVE  IInv'
<1>1. req'[q] = [req[q] EXCEPT !.pc = "closing", !.answer = answer]
      /\ \A p \in Requests \ {q} : req'[p] = req[p]
  BY DEF Closing, IInv, Typed
<1>2. req' \in [Requests -> Records]
  <2>1. req[q] \in Records /\ answer \in Answers /\ "closing" \in Pcs
    BY DEF IInv, Typed, Pcs
  <2>2. [req[q] EXCEPT !.pc = "closing", !.answer = answer] \in Records
    BY <2>1 DEF Records
  <2>3. req'[q] \in Records
    BY <1>1, <2>2
  <2> QED BY <1>1, <2>3 DEF IInv, Typed, Closing
<1>3. /\ req'[q].pc = "closing" /\ req'[q].answer = answer
      /\ req'[q].ask = req[q].ask /\ req'[q].id = req[q].id /\ req'[q].task = req[q].task
      /\ req'[q].child = req[q].child /\ req'[q].admitted = req[q].admitted
  BY <1>1 DEF IInv, Typed, Records
<1>4. Serves(q, lines) /\ GoesOn(q, lines)
  BY <1>1, <1>2, <1>3 DEF Serves, GoesOn
<1>5. StaysItself(q)
  BY <1>3 DEF IInv, ReqInv, OwnContexts, StaysItself
<1>6. StaysEntitled(q, lines)
  BY <1>3 DEF StaysEntitled
<1>7. Quoted(q)'
  BY <1>3 DEF Quoted
<1> QED BY <1>4, <1>5, <1>6, <1>7, GoingOnKeeps

(* An error of the application's own adds the handler's line to the others. *)
LEMMA AppErrorKeeps ==
    ASSUME IInv, NEW q \in Requests, req[q].pc \notin {"idle", "done"},
           NEW ctx \in Contexts, ctx.id = req[q].id,
           IsProtected(q) => ctx.user \in {None, req[q].ask.bearer},
           NEW status \in {401, 403} \cup Raisable,
           NEW before \in Seq(Lines),
           \A j \in DOMAIN before : NamesIt(q, before[j]) /\ before[j].event \notin Final,
           AppError(q, ctx, status, before), UNCHANGED <<roles, changes, context>>,
           req[q].admitted \notin Entitled(q) =>
              /\ \A j \in DOMAIN before : before[j].event \notin EndpointEvents
              /\ status \in {401, 403, 500}
    PROVE  IInv'
<1> DEFINE line == AppErrorLine(q, ctx, status)
           lines == Append(before, line)
           answer == [Answered(status, q) EXCEPT !.challenge = (status = 401)]
<1>1. status \in Nat /\ (status = 401) \in BOOLEAN /\ IsOurs(status) \in BOOLEAN
  BY DEF Raisable, UploadErrors, AuthErrors, OtherErrors, InvariantErrors, IsOurs
<1>2. line \in Lines /\ line.event = "http.app_error" /\ NamesIt(q, line)
  <2>1. "http.app_error" \in Events /\ "http.app_error" \notin EndpointEvents
    BY DEF Events, EndpointEvents, RowCrash
  <2> QED BY <1>1, <2>1, LineOfRequest DEF AppErrorLine
<1>3. "http.app_error" \notin Final /\ "http.app_error" \notin EndpointEvents
  BY DEF Final, Closings, EndpointEvents, RowCrash
<1>4. answer \in Answers /\ answer.status = status /\ answer.envelope = req[q].id
      /\ answer.header = None
  <2> DEFINE plain == Answered(status, q)
  <2>1. /\ plain \in Answers /\ plain.status = status
        /\ plain.envelope = req[q].id /\ plain.header = None
    BY <1>1, AnsweredQuotes
  <2> HIDE DEF plain
  <2>2. answer = [plain EXCEPT !.challenge = (status = 401)]
    BY DEF plain
  <2>3. ASSUME NEW challenge \in BOOLEAN, answer = [plain EXCEPT !.challenge = challenge]
        PROVE  answer \in Answers /\ answer.status = status /\ answer.envelope = req[q].id
      /\ answer.header = None
    BY <2>1, <2>3 DEF Answers
  <2>4. CASE status = 401
    <3>1. answer = [plain EXCEPT !.challenge = TRUE]
      BY <2>2, <2>4, ZenonT(60)
    <3> QED BY <2>3, <3>1, ZenonT(60)
  <2>5. CASE status # 401
    <3>1. answer = [plain EXCEPT !.challenge = FALSE]
      BY <2>2, <2>5, ZenonT(60)
    <3> QED BY <2>3, <3>1, ZenonT(60)
  <2> QED BY <2>4, <2>5
<1>5. Writes(q, lines) /\ Closing(q, answer)
  BY DEF AppError
<1> HIDE DEF line, answer
<1>6. /\ lines \in Seq(Lines)
      /\ \A j \in DOMAIN lines : lines[j] = line \/ \E i \in DOMAIN before : lines[j] = before[i]
  <2>1. lines \in Seq(Lines) /\ DOMAIN lines = 1..(Len(before) + 1)
        /\ DOMAIN before = 1..Len(before) /\ Len(before) \in Nat
    BY <1>2
  <2>2. ASSUME NEW j \in DOMAIN lines
        PROVE  IF j = Len(before) + 1 THEN lines[j] = line
               ELSE j \in DOMAIN before /\ lines[j] = before[j]
    BY <1>2, <2>1
  <2> HIDE DEF lines
  <2> QED BY <2>1, <2>2
<1> HIDE DEF lines
<1>7. \A j \in DOMAIN lines : NamesIt(q, lines[j]) /\ lines[j].event \notin Final
  BY <1>2, <1>3, <1>6
<1>8. req[q].admitted \notin Entitled(q) =>
         /\ \A j \in DOMAIN lines : lines[j].event \notin EndpointEvents
         /\ answer.status \in {401, 403, 500}
  BY <1>2, <1>3, <1>4, <1>6
<1> QED BY <1>4, <1>5, <1>6, <1>7, <1>8, ClosingServes

(* Logs of one line and of two. *)
LEMMA OneLine ==
    ASSUME NEW line \in Lines
    PROVE  /\ << line >> \in Seq(Lines)
           /\ \A j \in DOMAIN << line >> : << line >>[j] = line
OBVIOUS

LEMMA TwoLines ==
    ASSUME NEW first \in Lines, NEW second \in Lines
    PROVE  /\ << first, second >> \in Seq(Lines)
           /\ \A j \in DOMAIN << first, second >> :
                 << first, second >>[j] \in {first, second}
OBVIOUS

(* The context a request has in its child task names it. *)
LEMMA ChildIsOwn ==
    ASSUME IInv, NEW q \in Requests, req[q].pc # "idle"
    PROVE  /\ req[q].child \in Contexts /\ req[q].child.id = req[q].id
           /\ IsProtected(q) => req[q].child.user \in {None, req[q].ask.bearer}
           /\ IsProtected(q) /\ req[q].pc \in {"checking", "working"} =>
                 req[q].child.user = req[q].ask.bearer
           /\ req[q].ask \in AllAsks
BY DEF IInv, Typed, Records, ReqInv, OwnContexts, Asked

(* A line of the child task that is no endpoint's and ends nothing. *)
LEMMA ChildLine ==
    ASSUME IInv, NEW q \in Requests, req[q].pc # "idle", NEW event \in Events,
           event \notin Final, event \notin EndpointEvents, NEW trace \in BOOLEAN
    PROVE  LET line == Line(event, req[q].child, trace)
           IN  /\ << line >> \in Seq(Lines)
               /\ \A j \in DOMAIN << line >> :
                     /\ NamesIt(q, << line >>[j])
                     /\ << line >>[j].event \notin Final \cup EndpointEvents
<1> DEFINE line == Line(event, req[q].child, trace)
<1>1. line \in Lines /\ line.event = event /\ NamesIt(q, line)
  BY ChildIsOwn, LineOfRequest
<1> HIDE DEF line
<1>2. << line >> \in Seq(Lines) /\ \A j \in DOMAIN << line >> : << line >>[j] = line
  BY <1>1, OneLine
<1>3. \A j \in DOMAIN << line >> :
        NamesIt(q, << line >>[j]) /\ << line >>[j].event \notin Final \cup EndpointEvents
  BY <1>1, <1>2
<1> QED BY <1>2, <1>3 DEF line

(* To write nothing is to append the empty sequence. *)
LEMMA Silent ==
    ASSUME IInv, NEW q \in Requests, UNCHANGED log
    PROVE  \E lines \in Seq(Lines) : Writes(q, lines) /\ DOMAIN lines = {}
<1>1. log \in [Requests -> Seq(Lines)] /\ log[q] \o <<>> = log[q]
  BY DEF IInv, Typed
<1>2. Writes(q, <<>>) /\ <<>> \in Seq(Lines) /\ DOMAIN <<>> = {}
  BY <1>1 DEF Writes
<1> QED BY <1>2

(* Requests that are turned away before a dependency has run. *)
LEMMA NotFoundKeepsIInv ==
    ASSUME IInv, NEW q \in Requests, NotFound(q)
    PROVE  IInv'
<1> DEFINE answer == [NoAnswer EXCEPT !.status = 404]
<1>1. /\ answer \in Answers /\ answer.status = 404 /\ 404 \in Raisable
      /\ answer.header = None /\ answer.envelope = None
  <2>1. NoAnswer \in Answers
    BY DEF NoAnswer, Answers, Ids
  <2>2. 404 \in Raisable
    BY DEF Raisable, OtherErrors
  <2>3. NoAnswer.header = None /\ NoAnswer.envelope = None
    BY DEF NoAnswer
  <2> QED BY <2>1, <2>2, <2>3 DEF Answers
<1>2. req[q].pc = "routing" /\ req[q].ask.route = "unknown" /\ Closing(q, answer)
      /\ UNCHANGED <<roles, changes, context>> /\ UNCHANGED log
  BY DEF NotFound
<1>3. req[q].admitted \in Entitled(q)
  BY <1>2 DEF IInv, ReqInv, Admission, Entitled
<1>4. PICK lines \in Seq(Lines) : Writes(q, lines) /\ DOMAIN lines = {}
  BY <1>2, Silent
<1> HIDE DEF answer
<1>5. \A j \in DOMAIN lines : NamesIt(q, lines[j]) /\ lines[j].event \notin Final
  BY <1>4
<1>6. req[q].pc \notin {"idle", "done"} /\ answer.status \in {0, 200, 401, 403} \cup Raisable
  BY <1>1, <1>2
<1>7. answer.status >= 500 => answer.envelope = req[q].id
  BY <1>1
<1>8. req[q].admitted \notin Entitled(q) =>
         /\ \A j \in DOMAIN lines : lines[j].event \notin EndpointEvents
         /\ \/ answer.status \in {0, 401, 403, 500}
            \/ req[q].ask.body \in UnreadBodies
  BY <1>3
<1> QED BY <1>1, <1>2, <1>4, <1>5, <1>6, <1>7, <1>8, ClosingServes, ZenonT(60)

(* A line of the handler of validation errors, and its answer. *)
LEMMA ValidationErrorKeeps ==
    ASSUME IInv, NEW q \in Requests, req[q].pc \notin {"idle", "done"},
           ValidationError(q), UNCHANGED <<roles, changes, context>>,
           req[q].admitted \in Entitled(q) \/ req[q].ask.body \in UnreadBodies
    PROVE  IInv'
<1> DEFINE lines == << Line("http.request_invalid", req[q].child, FALSE) >>
           answer == Answered(422, q)
<1>1. "http.request_invalid" \in Events
      /\ "http.request_invalid" \notin Final /\ "http.request_invalid" \notin EndpointEvents
  BY DEF Events, Final, Closings, EndpointEvents, RowCrash
<1>2. lines \in Seq(Lines) /\ \A j \in DOMAIN lines :
         NamesIt(q, lines[j]) /\ lines[j].event \notin Final \cup EndpointEvents
  BY <1>1, ChildLine
<1>3. /\ answer \in Answers /\ answer.status = 422
      /\ answer.envelope = req[q].id /\ answer.header = None
  BY AnsweredQuotes
<1>4. 422 \in Raisable
  BY DEF Raisable, OtherErrors
<1>5. Writes(q, lines) /\ Closing(q, answer)
  BY DEF ValidationError
<1> HIDE DEF lines, answer
<1> QED BY <1>2, <1>3, <1>4, <1>5, ClosingServes

LEMMA RefusedBodyKeepsIInv ==
    ASSUME IInv, NEW q \in Requests, Unparsable(q) \/ Invalid(q)
    PROVE  IInv'
<1>1. CASE Unparsable(q)
  BY <1>1, ValidationErrorKeeps DEF Unparsable, UnreadBodies
<1>2. CASE Invalid(q)
  <2>1. req[q].admitted \in Entitled(q)
    BY <1>2 DEF Invalid, IInv, ReqInv, Admission
  <2> QED BY <1>2, <2>1, ValidationErrorKeeps DEF Invalid
<1> QED BY <1>1, <1>2

(* The line of the handler of FastAPI's own errors, and its answer. *)
LEMMA HttpErrorKeepsIInv ==
    ASSUME IInv, NEW q \in Requests, NoBearer(q) \/ Garbled(q)
    PROVE  IInv'
<1> DEFINE lines == << Line("http.error", req[q].child, FALSE) >>
<1>1. "http.error" \in Events
      /\ "http.error" \notin Final /\ "http.error" \notin EndpointEvents
  BY DEF Events, Final, Closings, EndpointEvents, RowCrash
<1>2. req[q].pc = "routing" /\ UNCHANGED <<roles, changes, context>>
  BY DEF NoBearer, Garbled, IsRead
<1>3. lines \in Seq(Lines) /\ \A j \in DOMAIN lines :
         NamesIt(q, lines[j]) /\ lines[j].event \notin Final \cup EndpointEvents
  BY <1>1, <1>2, ChildLine
<1>4. PICK status \in {400, 401} :
        HttpError(q, status) /\ (status = 401 \/ req[q].ask.body \in UnreadBodies)
  BY DEF NoBearer, Garbled, UnreadBodies
<1>5. Writes(q, lines) /\ Closing(q, Answered(status, q))
  BY <1>4 DEF HttpError
<1> HIDE DEF lines
<1> DEFINE answer == Answered(status, q)
<1>6. /\ answer \in Answers /\ answer.status = status
      /\ answer.envelope = req[q].id /\ answer.header = None
  BY AnsweredQuotes
<1>7. Closing(q, answer)
  BY <1>5
<1>8. status \in {401} \cup Raisable
  BY DEF Raisable, UploadErrors
<1> HIDE DEF answer
<1> QED BY <1>2, <1>3, <1>4, <1>5, <1>6, <1>7, <1>8, ClosingServes

(* A token that names no user, or one whose row is gone. *)
LEMMA RejectionKeepsIInv ==
    ASSUME IInv, NEW q \in Requests, RejectToken(q) \/ UserGone(q)
    PROVE  IInv'
<1>1. PICK reason \in Reasons : AppError(q, req[q].child, 401, Rejected(q, reason))
  <2>1. CASE RejectToken(q)
    BY <2>1 DEF RejectToken, Reasons
  <2>2. CASE UserGone(q)
    BY <2>2 DEF UserGone, Reasons
  <2> QED BY <2>1, <2>2
<1>2. req[q].pc \in {"routing", "loading"} /\ UNCHANGED <<roles, changes, context>>
  BY DEF RejectToken, UserGone, IsRead
<1>3. reason \in Events /\ reason \notin Final /\ reason \notin EndpointEvents
  BY DEF Events, Reasons, BadTokens, Final, Closings, EndpointEvents, RowCrash
<1> DEFINE before == << Line(reason, req[q].child, FALSE) >>
<1>4. before \in Seq(Lines) /\ \A j \in DOMAIN before :
         NamesIt(q, before[j]) /\ before[j].event \notin Final \cup EndpointEvents
  BY <1>2, <1>3, ChildLine
<1>5. AppError(q, req[q].child, 401, before)
  BY <1>1 DEF Rejected
<1>6. req[q].child \in Contexts /\ req[q].child.id = req[q].id
      /\ (IsProtected(q) => req[q].child.user \in {None, req[q].ask.bearer})
  BY <1>2, ChildIsOwn
<1> HIDE DEF before
<1> QED BY <1>2, <1>4, <1>5, <1>6, AppErrorKeeps

(* A request goes from one await to the next, and writes or does not.       *)
LEMMA MovingOnKeeps ==
    ASSUME IInv, NEW q \in Requests, req[q].pc \notin {"idle", "done"},
           NEW pc \in {"loading", "checking", "working", "broken"},
           req' = [req EXCEPT ![q].pc = pc],
           NEW lines \in Seq(Lines), Writes(q, lines),
           \A j \in DOMAIN lines : NamesIt(q, lines[j]) /\ lines[j].event \notin Final,
           UNCHANGED <<roles, changes, context>>,
           pc \in {"checking", "working"} =>
              /\ req[q].admitted \in Entitled(q)
              /\ IsProtected(q) => req[q].child.user = req[q].ask.bearer,
           pc = "loading" =>
              req[q].admitted = None /\ IsProtected(q) /\ req[q].ask.bearer \in Users,
           req[q].admitted \notin Entitled(q) =>
              \A j \in DOMAIN lines : lines[j].event \notin EndpointEvents
    PROVE  IInv'
<1>1. req[q] \in Records /\ pc \in Pcs
  BY DEF IInv, Typed, Pcs
<1>2. req'[q] = [req[q] EXCEPT !.pc = pc] /\ \A p \in Requests \ {q} : req'[p] = req[p]
  BY DEF IInv, Typed
<1>3. req'[q] \in Records
  <2>1. [req[q] EXCEPT !.pc = pc] \in Records
    BY <1>1 DEF Records
  <2> QED BY <1>2, <2>1
<1>4. /\ req'[q].pc = pc /\ req'[q].answer = req[q].answer
      /\ req'[q].ask = req[q].ask /\ req'[q].id = req[q].id /\ req'[q].task = req[q].task
      /\ req'[q].child = req[q].child /\ req'[q].admitted = req[q].admitted
  BY <1>1, <1>2 DEF Records
<1>5. Serves(q, lines) /\ GoesOn(q, lines)
  BY <1>2, <1>3, <1>4 DEF Serves, GoesOn, IInv, Typed
<1>6. StaysItself(q)
  BY <1>4, ChildIsOwn DEF StaysItself
<1>7. StaysEntitled(q, lines)
  BY <1>4 DEF StaysEntitled, IInv, ReqInv, Admission
<1>8. Quoted(q)'
  BY <1>4 DEF Quoted, IInv, ReqInv
<1> QED BY <1>5, <1>6, <1>7, <1>8, GoingOnKeeps

(* An endpoint open to all is left with no user admitted; the others with   *)
(* the user still to be read.                                               *)
LEMMA ProceedKeepsIInv ==
    ASSUME IInv, NEW q \in Requests, Proceed(q)
    PROVE  IInv'
<1>1. req[q].pc = "routing" /\ req[q].admitted = None
  BY DEF Proceed, IsRead, IInv, ReqInv, Admission
<1>2. ~IsProtected(q) => req[q].admitted \in Entitled(q)
  BY <1>1 DEF IsProtected, Entitled
<1>3. PICK lines \in Seq(Lines) : Writes(q, lines) /\ DOMAIN lines = {}
  BY Silent DEF Proceed
<1>4. \A j \in DOMAIN lines : NamesIt(q, lines[j]) /\ lines[j].event \notin Final \cup EndpointEvents
  BY <1>3
<1>5. UNCHANGED <<roles, changes, context>>
  BY DEF Proceed
<1>6. CASE IsProtected(q)
  <2>1. req' = [req EXCEPT ![q].pc = "loading"] /\ req[q].ask.bearer \in Users
    BY <1>6 DEF Proceed
  <2> QED BY <1>1, <1>6, <1>3, <1>4, <1>5, <2>1, MovingOnKeeps
<1>7. CASE ~IsProtected(q)
  <2>1. req' = [req EXCEPT ![q].pc = "checking"]
    BY <1>7 DEF Proceed
  <2> QED BY <1>1, <1>2, <1>3, <1>4, <1>5, <1>7, <2>1, MovingOnKeeps
<1> QED BY <1>6, <1>7

LEMMA BreakKeepsIInv ==
    ASSUME IInv, NEW q \in Requests, Break(q)
    PROVE  IInv'
<1>1. req[q].pc \in {"loading", "working"} /\ req' = [req EXCEPT ![q].pc = "broken"]
      /\ UNCHANGED <<roles, changes, context>> /\ UNCHANGED log
  BY DEF Break
<1>2. PICK lines \in Seq(Lines) : Writes(q, lines) /\ DOMAIN lines = {}
  BY <1>1, Silent
<1>3. \A j \in DOMAIN lines : NamesIt(q, lines[j]) /\ lines[j].event \notin Final \cup EndpointEvents
  BY <1>2
<1> QED BY <1>1, <1>2, <1>3, MovingOnKeeps

(* The endpoint's first line names the caller that was admitted. *)
LEMMA EnterEndpointKeepsIInv ==
    ASSUME IInv, NEW q \in Requests, EnterEndpoint(q)
    PROVE  IInv'
<1> DEFINE line == Line("endpoint", req[q].child, FALSE)
<1>1. /\ req[q].pc = "checking" /\ req' = [req EXCEPT ![q].pc = "working"]
      /\ UNCHANGED <<roles, changes, context>> /\ Writes(q, << line >>)
  BY DEF EnterEndpoint
<1>2. req[q].admitted \in Entitled(q)
  BY <1>1 DEF IInv, ReqInv, Admission
<1>3. "endpoint" \in Events /\ "endpoint" \notin Final
  BY DEF Events, Final, Closings, EndpointEvents, RowCrash
<1>4. IsProtected(q) => req[q].child.user = req[q].ask.bearer
  BY <1>1, ChildIsOwn
<1>5. line \in Lines /\ line.event = "endpoint" /\ NamesIt(q, line)
  BY <1>1, <1>3, <1>4, ChildIsOwn, LineOfRequest
<1> HIDE DEF line
<1> DEFINE lines == << line >>
<1>6. lines \in Seq(Lines) /\ \A j \in DOMAIN lines : lines[j] = line
  BY <1>5, OneLine
<1>7. Writes(q, lines)
  BY <1>1
<1> HIDE DEF lines
<1>8. \A j \in DOMAIN lines : NamesIt(q, lines[j]) /\ lines[j].event \notin Final
  BY <1>3, <1>5, <1>6
<1> QED BY <1>1, <1>2, <1>4, <1>6, <1>7, <1>8, MovingOnKeeps

(* Whatever user an open endpoint binds, the id in its context stays.       *)
LEMMA EndpointLine ==
    ASSUME IInv, NEW q \in Requests, req[q].pc = "working", NEW ctx \in EndContexts(q),
           NEW event \in EndpointEvents, NEW trace \in BOOLEAN
    PROVE  LET line == Line(event, ctx, trace)
           IN  /\ ctx \in Contexts /\ ctx.id = req[q].id
               /\ IsProtected(q) => ctx.user = req[q].ask.bearer
               /\ << line >> \in Seq(Lines)
               /\ \A j \in DOMAIN << line >> :
                     NamesIt(q, << line >>[j]) /\ << line >>[j].event \notin Final
<1> DEFINE line == Line(event, ctx, trace)
<1>1. /\ req[q].child \in Contexts /\ req[q].child.id = req[q].id
      /\ IsProtected(q) => req[q].child.user = req[q].ask.bearer
  BY ChildIsOwn
<1>2. /\ ctx \in Contexts /\ ctx.id = req[q].id
      /\ IsProtected(q) => ctx.user = req[q].ask.bearer
  BY <1>1 DEF EndContexts, WithUser, Contexts
<1>3. event \in Events /\ event \notin Final
  BY DEF Events, Final, Closings, EndpointEvents, RowCrash
<1>4. line \in Lines /\ line.event = event /\ NamesIt(q, line)
  BY <1>2, <1>3, LineOfRequest
<1> HIDE DEF line
<1>5. << line >> \in Seq(Lines) /\ \A j \in DOMAIN << line >> : << line >>[j] = line
  BY <1>4, OneLine
<1>6. \A j \in DOMAIN << line >> : NamesIt(q, << line >>[j]) /\ << line >>[j].event \notin Final
  BY <1>3, <1>4, <1>5
<1> QED BY <1>2, <1>5, <1>6 DEF line

(* A row that crashed leaves a line of the endpoint and nothing else. *)
LEMMA RowCrashedKeepsIInv ==
    ASSUME IInv, NEW q \in Requests, RowCrashed(q)
    PROVE  IInv'
<1> DEFINE lines == << Line(RowCrash, req[q].child, TRUE) >>
<1>1. /\ req[q].pc = "working" /\ Writes(q, lines)
      /\ UNCHANGED <<roles, changes, context>> /\ UNCHANGED req
  BY DEF RowCrashed
<1>2. req[q].child \in EndContexts(q) /\ RowCrash \in EndpointEvents
  BY DEF EndContexts, EndpointEvents
<1>3. lines \in Seq(Lines) /\ \A j \in DOMAIN lines :
         NamesIt(q, lines[j]) /\ lines[j].event \notin Final
  BY <1>1, <1>2, EndpointLine
<1>4. req' = [req EXCEPT ![q].pc = "working"]
  <2>1. [req[q] EXCEPT !.pc = "working"] = req[q]
    BY <1>1 DEF IInv, Typed, Records
  <2>2. [req EXCEPT ![q] = req[q]] = req
    BY DEF IInv, Typed
  <2> QED BY <1>1, <2>1, <2>2
<1>5. req[q].admitted \in Entitled(q) /\ (IsProtected(q) => req[q].child.user = req[q].ask.bearer)
  BY <1>1, ChildIsOwn DEF IInv, ReqInv, Admission
<1> HIDE DEF lines
<1> QED BY <1>1, <1>3, <1>4, <1>5, MovingOnKeeps

LEMMA SucceedKeepsIInv ==
    ASSUME IInv, NEW q \in Requests, Succeed(q)
    PROVE  IInv'
<1> DEFINE answer == [NoAnswer EXCEPT !.status = 200]
<1>1. PICK ctx \in EndContexts(q) : Writes(q, << Line("endpoint", ctx, FALSE) >>)
  BY DEF Succeed
<1>2. req[q].pc = "working" /\ Closing(q, answer) /\ UNCHANGED <<roles, changes, context>>
  BY DEF Succeed
<1>3. /\ answer \in Answers /\ answer.status = 200
      /\ answer.header = None /\ answer.envelope = None
  <2>1. NoAnswer \in Answers
    BY DEF NoAnswer, Answers, Ids
  <2> QED BY <2>1 DEF Answers, NoAnswer
<1> DEFINE lines == << Line("endpoint", ctx, FALSE) >>
<1>4. lines \in Seq(Lines) /\ \A j \in DOMAIN lines :
         NamesIt(q, lines[j]) /\ lines[j].event \notin Final
  BY <1>2, EndpointLine DEF EndpointEvents
<1>5. req[q].admitted \in Entitled(q)
  BY <1>2 DEF IInv, ReqInv, Admission
<1>6. Writes(q, lines)
  BY <1>1
<1> HIDE DEF answer, lines
<1> QED BY <1>2, <1>3, <1>4, <1>5, <1>6, ClosingServes

LEMMA FailureKeepsIInv ==
    ASSUME IInv, NEW q \in Requests, Fail(q) \/ FailToPersist(q)
    PROVE  IInv'
<1>1. req[q].pc = "working" /\ UNCHANGED <<roles, changes, context>>
  BY DEF Fail, FailToPersist
<1>2. PICK ctx \in EndContexts(q), status \in Raisable, trace \in BOOLEAN :
         AppError(q, ctx, status, << Line("endpoint", ctx, trace) >>)
  <2>1. CASE Fail(q)
    BY <2>1 DEF Fail
  <2>2. CASE FailToPersist(q)
    <3>1. AppError(q, req[q].child, 500, << Line("endpoint", req[q].child, TRUE) >>)
      BY <2>2 DEF FailToPersist
    <3>2. req[q].child \in EndContexts(q) /\ 500 \in Raisable
      BY DEF EndContexts, Raisable, InvariantErrors
    <3> QED BY <3>1, <3>2
  <2> QED BY <2>1, <2>2
<1> DEFINE before == << Line("endpoint", ctx, trace) >>
<1>3. /\ ctx \in Contexts /\ ctx.id = req[q].id
      /\ IsProtected(q) => ctx.user = req[q].ask.bearer
      /\ before \in Seq(Lines)
      /\ \A j \in DOMAIN before : NamesIt(q, before[j]) /\ before[j].event \notin Final
  BY <1>1, EndpointLine DEF EndpointEvents
<1>4. req[q].admitted \in Entitled(q)
  BY <1>1 DEF IInv, ReqInv, Admission
<1>5. AppError(q, ctx, status, before)
  BY <1>2
<1> HIDE DEF before
<1>6. req[q].pc \notin {"idle", "done"} /\ status \in {401, 403} \cup Raisable
  BY <1>1
<1>7. IsProtected(q) => ctx.user \in {None, req[q].ask.bearer}
  BY <1>3
<1>8. \A j \in DOMAIN before : NamesIt(q, before[j]) /\ before[j].event \notin Final
  BY <1>3
<1> QED BY <1>1, <1>3, <1>4, <1>5, <1>6, <1>7, <1>8, AppErrorKeeps, ZenonT(60)

(* The context of a caller whose row was found. *)
LEMMA WithUserIsOwn ==
    ASSUME IInv, NEW q \in Requests, req[q].pc = "loading"
    PROVE  LET ctx == WithUser(req[q].child, req[q].ask.bearer)
           IN  ctx \in Contexts /\ ctx.id = req[q].id /\ ctx.user = req[q].ask.bearer
<1>1. req[q].ask.bearer \in Users
  BY DEF IInv, ReqInv, Admission
<1> QED BY <1>1, ChildIsOwn DEF WithUser, Contexts

(* The row read is what admits a caller, or keeps it out. *)
LEMMA AdmitKeepsIInv ==
    ASSUME IInv, NEW q \in Requests, Admit(q)
    PROVE  IInv'
<1> DEFINE u == req[q].ask.bearer
           ctx == WithUser(req[q].child, u)
           line == Line("auth.authenticated", ctx, FALSE)
           lines == << line >>
<1>1. /\ req[q].pc = "loading" /\ roles[u] # "gone" /\ MayUse(q)
      /\ req' = [req EXCEPT ![q].pc = "checking", ![q].admitted = roles[u], ![q].child = ctx]
      /\ Writes(q, lines) /\ UNCHANGED <<roles, changes, context>>
  BY DEF Admit
<1>2. u \in Users /\ IsProtected(q)
  BY <1>1 DEF IInv, ReqInv, Admission
<1>3. ctx \in Contexts /\ ctx.id = req[q].id /\ ctx.user = u
  BY <1>1, WithUserIsOwn
<1>4. roles[u] \in {"user", "admin"} /\ roles[u] \in Entitled(q)
  <2>1. roles[u] \in {"user", "admin"}
    BY <1>1, <1>2 DEF IInv, Typed
  <2> QED BY <1>1, <1>2, <2>1 DEF MayUse, Entitled, IsProtected
<1>5. "auth.authenticated" \in Events /\ "auth.authenticated" \notin Final
      /\ "auth.authenticated" \notin EndpointEvents
  BY DEF Events, Final, Closings, EndpointEvents, RowCrash
<1> HIDE DEF ctx
<1>6. line \in Lines /\ line.event = "auth.authenticated" /\ NamesIt(q, line)
  BY <1>3, <1>5, LineOfRequest
<1> HIDE DEF line
<1>7. lines \in Seq(Lines) /\ \A j \in DOMAIN lines : lines[j] = line
  BY <1>6, OneLine
<1> HIDE DEF lines
<1>8. req[q] \in Records /\ "checking" \in Pcs
  BY DEF IInv, Typed, Pcs
<1>9. /\ req'[q] = [req[q] EXCEPT !.pc = "checking", !.admitted = roles[u], !.child = ctx]
      /\ \A p \in Requests \ {q} : req'[p] = req[p]
  BY <1>1 DEF IInv, Typed
<1>10. /\ req'[q] \in Records /\ req'[q].pc = "checking" /\ req'[q].answer = req[q].answer
       /\ req'[q].ask = req[q].ask /\ req'[q].id = req[q].id /\ req'[q].task = req[q].task
       /\ req'[q].child = ctx /\ req'[q].admitted = roles[u]
  <2> DEFINE r == [req[q] EXCEPT !.pc = "checking", !.admitted = roles[u], !.child = ctx]
  <2>1. r \in Records
    BY <1>3, <1>4, <1>8 DEF Records
  <2>2. /\ r.pc = "checking" /\ r.answer = req[q].answer
        /\ r.ask = req[q].ask /\ r.id = req[q].id /\ r.task = req[q].task
        /\ r.child = ctx /\ r.admitted = roles[u]
    BY <1>8 DEF Records
  <2> HIDE DEF r
  <2>3. req'[q] = r
    BY <1>9 DEF r
  <2> QED BY <2>1, <2>2, <2>3
<1>11. Serves(q, lines) /\ GoesOn(q, lines)
  BY <1>1, <1>5, <1>6, <1>7, <1>9, <1>10 DEF Serves, GoesOn, IInv, Typed
<1>12. StaysItself(q)
  BY <1>3, <1>10 DEF StaysItself
<1>13. StaysEntitled(q, lines)
  BY <1>4, <1>10 DEF StaysEntitled
<1>14. Quoted(q)'
  BY <1>10 DEF Quoted, IInv, ReqInv
<1> QED BY <1>11, <1>12, <1>13, <1>14, GoingOnKeeps

LEMMA DenyKeepsIInv ==
    ASSUME IInv, NEW q \in Requests, Deny(q)
    PROVE  IInv'
<1> DEFINE ctx == WithUser(req[q].child, req[q].ask.bearer)
           known == Line("auth.authenticated", ctx, FALSE)
           denied == Line("auth.permission.denied", ctx, FALSE)
           before == << known, denied >>
<1>1. req[q].pc = "loading" /\ AppError(q, ctx, 403, before)
      /\ UNCHANGED <<roles, changes, context>>
  BY DEF Deny
<1>2. ctx \in Contexts /\ ctx.id = req[q].id /\ ctx.user = req[q].ask.bearer
  BY <1>1, WithUserIsOwn
<1> HIDE DEF ctx
<1>3. \A event \in {"auth.authenticated", "auth.permission.denied"} :
         event \in Events /\ event \notin Final /\ event \notin EndpointEvents
  BY DEF Events, Final, Closings, EndpointEvents, RowCrash
<1>4. /\ known \in Lines /\ NamesIt(q, known) /\ known.event \notin Final \cup EndpointEvents
      /\ denied \in Lines /\ NamesIt(q, denied) /\ denied.event \notin Final \cup EndpointEvents
  BY <1>2, <1>3, LineOfRequest
<1> HIDE DEF known, denied
<1>5. before \in Seq(Lines) /\ \A j \in DOMAIN before : before[j] \in {known, denied}
  BY <1>4, TwoLines
<1> HIDE DEF before
<1>6. \A j \in DOMAIN before :
         NamesIt(q, before[j]) /\ before[j].event \notin Final \cup EndpointEvents
  BY <1>4, <1>5
<1>7. req[q].pc \notin {"idle", "done"} /\ 403 \in {401, 403} \cup Raisable
  BY <1>1
<1>8. \A j \in DOMAIN before : NamesIt(q, before[j]) /\ before[j].event \notin Final
  BY <1>6
<1>9. req[q].admitted \notin Entitled(q) => \A j \in DOMAIN before : before[j].event \notin EndpointEvents
  BY <1>6
<1>10. IsProtected(q) => ctx.user \in {None, req[q].ask.bearer}
  BY <1>2
<1> QED BY <1>1, <1>2, <1>5, <1>7, <1>8, <1>9, <1>10, AppErrorKeeps, ZenonT(60)

(* The middleware's own context holds the id and nobody's user. *)
LEMMA OuterLine ==
    ASSUME IInv, NEW q \in Requests, req[q].pc \notin {"idle", "done"},
           NEW event \in Final, NEW trace \in BOOLEAN
    PROVE  LET line == Line(event, context[req[q].task], trace)
           IN  line \in Lines /\ line.event = event /\ NamesIt(q, line)
<1>1. event \in Events /\ event \notin EndpointEvents
  BY DEF Events, Final, Closings, EndpointEvents, RowCrash
<1>2. req[q].task \in Tasks /\ context[req[q].task] = Bound(req[q].id)
  BY DEF IInv, ReqInv, OwnContexts
<1>3. context[req[q].task] \in Contexts
  BY <1>2 DEF IInv, Typed
<1>4. context[req[q].task].id = req[q].id /\ context[req[q].task].user = None
  BY <1>2 DEF Bound, NoContext
<1> QED BY <1>1, <1>3, <1>4, LineOfRequest

(* A request that was not closed has no final line so far. *)
LEMMA Unclosed ==
    ASSUME IInv, NEW q \in Requests, req[q].pc \notin {"idle", "done"}
    PROVE  /\ log[q] \in Seq(Lines) /\ Len(log[q]) \in Nat
           /\ \A i \in DOMAIN log[q] : log[q][i].event \notin Final
BY DEF IInv, Typed, ReqInv, Closed, Lacks

LEMMA FinishKeepsIInv ==
    ASSUME IInv, NEW q \in Requests, Finish(q)
    PROVE  IInv'
<1> DEFINE line == Line("http.request.finished", context[req[q].task], FALSE)
           lines == << line >>
<1>1. /\ req[q].pc = "closing" /\ Writes(q, lines)
      /\ req' = [req EXCEPT ![q].pc = "done", ![q].answer.header = req[q].id]
      /\ UNCHANGED <<roles, changes, context>>
  BY DEF Finish, FinishedLine
<1>2. "http.request.finished" \in Final /\ "http.request.finished" \notin EndpointEvents
  BY DEF Final, Closings, EndpointEvents, RowCrash
<1>3. line \in Lines /\ line.event = "http.request.finished" /\ NamesIt(q, line)
  BY <1>1, <1>2, OuterLine
<1> HIDE DEF line
<1>4. lines \in Seq(Lines) /\ DOMAIN lines = {1} /\ lines[1] = line /\ Len(lines) = 1
  BY <1>3
<1> HIDE DEF lines
<1>5. req[q] \in Records /\ req[q].answer \in Answers /\ "done" \in Pcs /\ req[q].id \in Ids
  BY DEF IInv, Typed, Records, Pcs
<1> DEFINE answer == [req[q].answer EXCEPT !.header = req[q].id]
           r == [req[q] EXCEPT !.pc = "done", !.answer = answer]
<1>6. req'[q] = r /\ \A p \in Requests \ {q} : req'[p] = req[p]
  BY <1>1 DEF IInv, Typed
<1>7. /\ answer \in Answers /\ answer.header = req[q].id
      /\ answer.status = req[q].answer.status /\ answer.envelope = req[q].answer.envelope
  BY <1>5 DEF Answers
<1> HIDE DEF answer
<1>8. /\ r \in Records /\ r.pc = "done" /\ r.answer = answer
      /\ r.ask = req[q].ask /\ r.id = req[q].id /\ r.task = req[q].task
      /\ r.child = req[q].child /\ r.admitted = req[q].admitted
  BY <1>5, <1>7 DEF Records
<1> HIDE DEF r
<1>9. Serves(q, lines)
  BY <1>1, <1>3, <1>4, <1>6, <1>8 DEF Serves, IInv, Typed
<1>10. StaysItself(q)
  BY <1>1, <1>6, <1>8, ChildIsOwn DEF StaysItself
<1>11. StaysEntitled(q, lines)
  BY <1>1, <1>2, <1>3, <1>4, <1>6, <1>7, <1>8 DEF StaysEntitled, IInv, ReqInv, Admission
<1>12. FinishedLog(q)'
  <2>1. /\ Len(log'[q]) = Len(log[q]) + 1
        /\ DOMAIN log'[q] = 1..Len(log'[q]) /\ DOMAIN log[q] = 1..Len(log[q])
        /\ \A i \in DOMAIN log[q] : log'[q][i] = log[q][i]
        /\ log'[q][Len(log[q]) + 1] = line
    <3>1. log \in [Requests -> Seq(Lines)]
      BY DEF IInv, Typed
    <3>2. /\ Len(log'[q]) = Len(log[q]) + Len(lines)
          /\ DOMAIN log'[q] = 1..Len(log'[q]) /\ DOMAIN log[q] = 1..Len(log[q])
          /\ \A i \in DOMAIN log[q] : log'[q][i] = log[q][i]
          /\ \A j \in DOMAIN lines : log'[q][Len(log[q]) + j] = lines[j]
      BY <1>1, <1>4, <3>1, Appended
    <3> QED BY <1>4, <3>2
  <2>2. Len(log[q]) \in Nat /\ \A i \in DOMAIN log[q] : log[q][i].event \notin Final
    BY <1>1, Unclosed
  <2>3. \A i \in DOMAIN log'[q] : i < Len(log'[q]) => log'[q][i].event \notin Final
    BY <2>1, <2>2
  <2> QED BY <1>3, <2>1, <2>2, <2>3 DEF FinishedLog, NoneBefore
<1>13. Closed(q)' /\ Quoted(q)'
  BY <1>1, <1>6, <1>7, <1>8, <1>12 DEF Closed, Quoted, IInv, ReqInv
<1> QED BY <1>9, <1>10, <1>11, <1>13, ServiceKeeps DEF IInv, ReqInv

LEMMA CrashedKeepsIInv ==
    ASSUME IInv, NEW q \in Requests, Crashed(q)
    PROVE  IInv'
<1> DEFINE crashed == Line("http.request.crashed", context[req[q].task], FALSE)
           unhandled == Line("http.unhandled_exception", context[req[q].task], TRUE)
           lines == Append(<< crashed >>, unhandled)
           answer == Answered(500, q)
           r == [req[q] EXCEPT !.pc = "done", !.answer = answer]
<1>1. /\ req[q].pc = "broken" /\ Writes(q, lines)
      /\ req' = [req EXCEPT ![q].pc = "done", ![q].answer = answer]
      /\ UNCHANGED <<roles, changes, context>>
  BY DEF Crashed, CrashedLine
<1>2. \A event \in {"http.request.crashed", "http.unhandled_exception"} :
         event \in Final /\ event \notin EndpointEvents
  BY DEF Final, Closings, EndpointEvents, RowCrash
<1>3. /\ crashed \in Lines /\ NamesIt(q, crashed) /\ crashed.event = "http.request.crashed"
      /\ unhandled \in Lines /\ NamesIt(q, unhandled)
      /\ unhandled.event = "http.unhandled_exception"
  BY <1>1, <1>2, OuterLine
<1> HIDE DEF crashed, unhandled
<1>4. /\ lines \in Seq(Lines) /\ DOMAIN lines = {1, 2} /\ Len(lines) = 2
      /\ lines[1] = crashed /\ lines[2] = unhandled
  BY <1>3
<1> HIDE DEF lines
<1>5. /\ answer \in Answers /\ answer.status = 500
      /\ answer.envelope = req[q].id /\ answer.header = None
  BY AnsweredQuotes
<1>6. req'[q] = r /\ \A p \in Requests \ {q} : req'[p] = req[p]
  BY <1>1 DEF IInv, Typed
<1> HIDE DEF answer
<1>7. /\ r \in Records /\ r.pc = "done" /\ r.answer = answer
      /\ r.ask = req[q].ask /\ r.id = req[q].id /\ r.task = req[q].task
      /\ r.child = req[q].child /\ r.admitted = req[q].admitted
  <2>1. req[q] \in Records /\ "done" \in Pcs
    BY DEF IInv, Typed, Pcs
  <2> QED BY <1>5, <2>1 DEF Records
<1> HIDE DEF r
<1>8. Serves(q, lines)
  BY <1>1, <1>3, <1>4, <1>6, <1>7 DEF Serves, IInv, Typed
<1>9. StaysItself(q)
  BY <1>1, <1>6, <1>7, ChildIsOwn DEF StaysItself
<1>10. StaysEntitled(q, lines)
  BY <1>1, <1>2, <1>3, <1>4, <1>5, <1>6, <1>7 DEF StaysEntitled
<1>11. CrashedLog(q)'
  <2>1. /\ Len(log'[q]) = Len(log[q]) + 2
        /\ DOMAIN log'[q] = 1..Len(log'[q]) /\ DOMAIN log[q] = 1..Len(log[q])
        /\ \A i \in DOMAIN log[q] : log'[q][i] = log[q][i]
        /\ log'[q][Len(log[q]) + 1] = crashed /\ log'[q][Len(log[q]) + 2] = unhandled
    <3>1. log \in [Requests -> Seq(Lines)]
      BY DEF IInv, Typed
    <3>2. /\ Len(log'[q]) = Len(log[q]) + Len(lines)
          /\ DOMAIN log'[q] = 1..Len(log'[q]) /\ DOMAIN log[q] = 1..Len(log[q])
          /\ \A i \in DOMAIN log[q] : log'[q][i] = log[q][i]
          /\ \A j \in DOMAIN lines : log'[q][Len(log[q]) + j] = lines[j]
      BY <1>1, <1>4, <3>1, Appended
    <3> QED BY <1>4, <3>2
  <2>2. Len(log[q]) \in Nat /\ \A i \in DOMAIN log[q] : log[q][i].event \notin Final
    BY <1>1, Unclosed
  <2>3. \A i \in DOMAIN log'[q] : i < Len(log'[q]) - 1 => log'[q][i].event \notin Final
    BY <2>1, <2>2
  <2> QED BY <1>3, <2>1, <2>2, <2>3 DEF CrashedLog, NoneBefore
<1>12. Closed(q)' /\ Quoted(q)'
  <2>1. 500 \in Raisable
    BY DEF Raisable, InvariantErrors
  <2> QED BY <1>1, <1>5, <1>6, <1>7, <1>11, <2>1 DEF Closed, Quoted
<1> QED BY <1>8, <1>9, <1>10, <1>12, ServiceKeeps DEF IInv, ReqInv

(* No request depends on a row once it has read it. *)
LEMMA ChangeUserKeepsIInv ==
    ASSUME IInv, NEW u \in Users, ChangeUser(u)
    PROVE  IInv'
<1>1. UNCHANGED <<context, req, log>>
  BY DEF ChangeUser
<1>2. Typed'
  BY RequestConstants DEF RequestConstants, ChangeUser, IInv, Typed
<1>3. ASSUME NEW p \in Requests PROVE ReqInv(p)'
  BY <1>1, OthersKeep DEF IInv
<1> QED BY <1>2, <1>3 DEF IInv
-----------------------------------------------------------------------------
(* Every step keeps the invariant. *)
LEMMA NextKeepsIInv == IInv /\ [Next]_vars => IInv'
<1> SUFFICES ASSUME IInv, [Next]_vars PROVE IInv'
  OBVIOUS
<1>1. CASE UNCHANGED vars
  <2>1. UNCHANGED <<roles, changes, context, req, log>>
    BY <1>1 DEF vars
  <2>2. Typed'
    BY <2>1 DEF IInv, Typed
  <2>3. ASSUME NEW p \in Requests PROVE ReqInv(p)'
    BY <2>1, OthersKeep DEF IInv
  <2> QED BY <2>2, <2>3 DEF IInv
<1>2. CASE \E q \in Requests, t \in Tasks : Receive(q, t)
  BY <1>2, ReceiveKeepsIInv
<1>3. ASSUME NEW q \in Requests, Serve(q) PROVE IInv'
  BY <1>3, NotFoundKeepsIInv, RefusedBodyKeepsIInv, HttpErrorKeepsIInv, RejectionKeepsIInv,
     ProceedKeepsIInv, AdmitKeepsIInv, DenyKeepsIInv, EnterEndpointKeepsIInv,
     RowCrashedKeepsIInv, SucceedKeepsIInv, FailureKeepsIInv, BreakKeepsIInv, FinishKeepsIInv, CrashedKeepsIInv
  DEF Serve
<1>4. CASE \E u \in Users : ChangeUser(u)
  BY <1>4, ChangeUserKeepsIInv
<1> QED BY <1>1, <1>2, <1>3, <1>4 DEF Next

(* The inductive invariant holds in every reachable state. *)
THEOREM InductiveInvariant == Spec => []IInv
BY InitIInv, NextKeepsIInv, PTL DEF Spec

(* Every variable stays within its type (module Requests as a whole). *)
THEOREM TypeCorrect == Spec => []TypeOK
<1>1. IInv => TypeOK
  <2> SUFFICES ASSUME IInv PROVE TypeOK
    OBVIOUS
  <2>1. context \in [Tasks -> [id : {None} \cup Requests \cup ClientIds, user : {None} \cup Users]]
    BY DEF IInv, Typed, Contexts, Ids
  <2>2. ASSUME NEW q \in Requests
        PROVE  /\ req[q].pc \in Pcs /\ req[q].task \in {None} \cup Tasks
               /\ req[q].pc # "idle" => req[q].id \in {q} \cup ClientIds
               /\ req[q].answer.status \in {0, 200, 401, 403} \cup Raisable
    BY <2>2 DEF IInv, Typed, Records, ReqInv, Asked, Quoted
  <2> QED BY <2>1, <2>2 DEF TypeOK, IInv, Typed, Pcs
<1> QED BY <1>1, InductiveInvariant, PTL

(* The lines of one request never carry another's id or user, whichever     *)
(* requests overlap or share a task (middleware.py:29-57).                  *)
THEOREM LinesStayApart == Spec => []LinesNameTheirRequest
<1>1. IInv => LinesNameTheirRequest
  BY DEF IInv, ReqInv, OwnLines, NamesIt, LinesNameTheirRequest
<1> QED BY <1>1, InductiveInvariant, PTL

(* A count of lines, when there is none or just one of them. *)
LEMMA NoLineCounts ==
    ASSUME NEW q \in Requests, NEW events, Lacks(q, events)
    PROVE  Count(q, events) = 0
<1>1. { i \in DOMAIN log[q] : log[q][i].event \in events } = {}
  BY DEF Lacks
<1> QED BY <1>1, FS_EmptySet DEF Count

LEMMA OneLineCounts ==
    ASSUME NEW q \in Requests, NEW events, NEW n \in DOMAIN log[q],
           log[q][n].event \in events,
           \A i \in DOMAIN log[q] \ {n} : log[q][i].event \notin events
    PROVE  Count(q, events) = 1
<1>1. { i \in DOMAIN log[q] : log[q][i].event \in events } = {n}
  OBVIOUS
<1> QED BY <1>1, FS_Singleton DEF Count

(* How a closed log counts. *)
LEMMA FinishedCounts ==
    ASSUME IInv, NEW q \in Requests, FinishedLog(q)
    PROVE  /\ Count(q, Closings) = 1 /\ Count(q, {"http.request.crashed"}) = 0
           /\ Last(log[q]).event = "http.request.finished"
<1> DEFINE n == Len(log[q])
<1>1. n \in DOMAIN log[q] /\ \A i \in DOMAIN log[q] \ {n} : i < n
  BY DEF IInv, Typed, FinishedLog
<1>2. /\ log[q][n].event = "http.request.finished"
      /\ \A i \in DOMAIN log[q] \ {n} : log[q][i].event \notin Final
  BY <1>1 DEF FinishedLog, NoneBefore
<1>3. Count(q, Closings) = 1
  BY <1>1, <1>2, OneLineCounts DEF Final, Closings, EndpointEvents, RowCrash
<1>4. Lacks(q, {"http.request.crashed"})
  BY <1>2 DEF Lacks, Final, Closings, EndpointEvents, RowCrash
<1>5. Last(log[q]) = log[q][n]
  BY DEF Last
<1> QED BY <1>2, <1>3, <1>4, <1>5, NoLineCounts

LEMMA CrashedCounts ==
    ASSUME IInv, NEW q \in Requests, CrashedLog(q)
    PROVE  /\ Count(q, Closings) = 1 /\ Count(q, {"http.request.crashed"}) = 1
           /\ Count(q, {"http.unhandled_exception"}) = 1
           /\ Last(log[q]).event = "http.unhandled_exception"
<1> DEFINE n == Len(log[q])
<1>1. /\ n \in DOMAIN log[q] /\ n - 1 \in DOMAIN log[q] /\ n - 1 # n
      /\ \A i \in DOMAIN log[q] \ {n, n - 1} : i < n - 1
  BY DEF IInv, Typed, CrashedLog
<1>2. /\ log[q][n].event = "http.unhandled_exception"
      /\ log[q][n - 1].event = "http.request.crashed"
      /\ \A i \in DOMAIN log[q] \ {n, n - 1} : log[q][i].event \notin Final
  BY <1>1 DEF CrashedLog, NoneBefore
<1> HIDE DEF n
<1>3. \A i \in DOMAIN log[q] \ {n - 1} :
        log[q][i].event \notin Closings /\ log[q][i].event # "http.request.crashed"
  BY <1>1, <1>2 DEF Final, Closings, EndpointEvents, RowCrash
<1>4. Count(q, Closings) = 1 /\ Count(q, {"http.request.crashed"}) = 1
  BY <1>1, <1>2, <1>3, OneLineCounts DEF Closings
<1>5. Count(q, {"http.unhandled_exception"}) = 1
  <2>1. \A i \in DOMAIN log[q] \ {n} : log[q][i].event # "http.unhandled_exception"
    BY <1>1, <1>2 DEF Final
  <2> QED BY <1>1, <1>2, <2>1, OneLineCounts
<1>6. Last(log[q]) = log[q][n]
  BY DEF Last, n
<1> QED BY <1>2, <1>4, <1>5, <1>6

(* One closing line and its handler's word after it, whatever happens       *)
(* (middleware.py:43-57, errors.py:187-205).                                *)
THEOREM EachClosedOnce == Spec => []ClosedOnce
<1>1. IInv => ClosedOnce
  <2> SUFFICES ASSUME IInv, NEW q \in Requests
               PROVE  /\ Count(q, Closings) = (IF Done(q) THEN 1 ELSE 0)
                      /\ Done(q) => Last(log[q]).event =
                            IF Count(q, {"http.request.crashed"}) = 1
                            THEN "http.unhandled_exception" ELSE "http.request.finished"
    BY DEF ClosedOnce
  <2>1. CASE ~Done(q)
    <3>1. Lacks(q, Closings)
      BY <2>1 DEF Done, IInv, ReqInv, Closed, Lacks, Final
    <3> QED BY <2>1, <3>1, NoLineCounts
  <2>2. CASE Done(q)
    <3>1. FinishedLog(q) \/ CrashedLog(q)
      BY <2>2 DEF Done, IInv, ReqInv, Closed
    <3> QED BY <2>2, <3>1, FinishedCounts, CrashedCounts
  <2> QED BY <2>1, <2>2
<1> QED BY <1>1, InductiveInvariant, PTL

(* The id a caller can quote is the one its request was logged under        *)
(* (errors.py:56-79, middleware.py:57).                                     *)
THEOREM AnswersAreTraceable == Spec => []AnswersCarryTheId
<1>1. IInv => AnswersCarryTheId
  BY DEF AnswersCarryTheId, IsOurs, Done, IInv, ReqInv, Quoted
<1> QED BY <1>1, InductiveInvariant, PTL

(* Nobody reaches an endpoint whose row did not entitle it to when read,    *)
(* whatever an operator does to the row meanwhile (dependencies.py:17-85).  *)
THEOREM OnlyTheEntitledEnter == Spec => []AuthenticationComesFirst
<1>1. IInv => AuthenticationComesFirst
  <2> SUFFICES ASSUME IInv, NEW q \in Requests,
                      req[q].pc # "idle", req[q].admitted \notin Entitled(q)
               PROVE  /\ Count(q, EndpointEvents) = 0
                      /\ \/ req[q].answer.status \in {0, 401, 403, 500}
                         \/ req[q].ask.body \in UnreadBodies
    BY DEF AuthenticationComesFirst
  <2>1. /\ Lacks(q, EndpointEvents)
        /\ \/ req[q].answer.status \in {0, 401, 403, 500}
           \/ req[q].ask.body \in UnreadBodies
    BY DEF IInv, ReqInv, Admission
  <2> QED BY <2>1, NoLineCounts
<1> QED BY <1>1, InductiveInvariant, PTL
=============================================================================
