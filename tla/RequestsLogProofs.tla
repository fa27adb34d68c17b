-------------------------- MODULE RequestsLogProofs --------------------------
(***************************************************************************)
(* Proofs, for any number of requests, server tasks and users, that the    *)
(* log of a request tells why it failed: the invariant of RequestsProofs   *)
(* comes first, and a second one, about reasons and tracebacks, rests on   *)
(* it.                                                                     *)
(***************************************************************************)
EXTENDS RequestsProofs

(* A request that is over, or has only its closing line to come. *)
Ending == {"closing", "done"}

(* A traceback that is not a crashed row's. *)
Explains(line) == line.trace /\ line.event # RowCrash
Traced(q) == \E i \in DOMAIN log[q] : Explains(log[q][i])
(* The token was what kept the caller out. *)
Turned(q, answer) == /\ answer.status = 401 /\ IsProtected(q)
                     /\ req[q].ask.bearer # None /\ req[q].admitted = None
TrueReason(q) == IF req[q].ask.bearer \in BadTokens THEN req[q].ask.bearer
                 ELSE "user_not_found"
(* The log has one reason, and it is the true one. *)
OneReason(q) ==
    \E n \in DOMAIN log[q] :
        /\ log[q][n].event = TrueReason(q)
        /\ \A i \in DOMAIN log[q] \ {n} : log[q][i].event \notin Reasons

Untold(q) == Lacks(q, Reasons) /\ ~Traced(q)
Why(q) ==
    /\ Turned(q, req[q].answer) => OneReason(q) /\ req[q].answer.challenge
    /\ ~Turned(q, req[q].answer) => Lacks(q, Reasons)
    /\ req[q].answer.status >= 500 <=> Traced(q)
Told(q) == IF req[q].pc \in Ending THEN Why(q) ELSE Untold(q)

(* The second inductive invariant, relative to the first. *)
LogInv == \A q \in Requests : Told(q)

(* Lines that give no reason, and no traceback of a failure either. *)
NoReasons(lines) == \A j \in DOMAIN lines : lines[j].event \notin Reasons
NoTraces(lines) == \A j \in DOMAIN lines : ~Explains(lines[j])
-----------------------------------------------------------------------------
LEMMA OthersTold ==
    ASSUME NEW p \in Requests, Told(p), req'[p] = req[p], log'[p] = log[p]
    PROVE  Told(p)'
BY DEF Told, Why, Untold, Turned, Traced, OneReason, TrueReason, Lacks, IsProtected

(* Lines without reasons leave the reasons of a log as they were, and lines *)
(* without tracebacks the tracebacks.                                       *)
LEMMA TracesKept ==
    ASSUME IInv, NEW q \in Requests, NEW lines \in Seq(Lines), Writes(q, lines)
    PROVE  /\ Traced(q) => Traced(q)'
           /\ Traced(q)' => Traced(q) \/ ~NoTraces(lines)
           /\ ~NoTraces(lines) => Traced(q)'
<1>1. log \in [Requests -> Seq(Lines)]
  BY DEF IInv, Typed
<1>2. /\ \A i \in DOMAIN log[q] : i \in DOMAIN log'[q] /\ log'[q][i] = log[q][i]
      /\ \A i \in DOMAIN log'[q] \ DOMAIN log[q] : \E j \in DOMAIN lines : log'[q][i] = lines[j]
      /\ \A j \in DOMAIN lines :
            Len(log[q]) + j \in DOMAIN log'[q] /\ log'[q][Len(log[q]) + j] = lines[j]
  <2>1. /\ DOMAIN log'[q] = 1..Len(log'[q]) /\ DOMAIN log[q] = 1..Len(log[q])
        /\ Len(log'[q]) = Len(log[q]) + Len(lines)
    BY <1>1, Appended
  <2>2. Len(log[q]) \in Nat /\ Len(lines) \in Nat /\ DOMAIN lines = 1..Len(lines)
    BY <1>1
  <2>3. /\ \A i \in DOMAIN log[q] : i \in DOMAIN log'[q]
        /\ \A j \in DOMAIN lines : Len(log[q]) + j \in DOMAIN log'[q]
    BY <2>1, <2>2
  <2> QED BY <1>1, <2>3, Appended
<1>3. Traced(q) => Traced(q)'
  BY <1>2 DEF Traced
<1>4. Traced(q)' => Traced(q) \/ ~NoTraces(lines)
  BY <1>2 DEF Traced, NoTraces
<1>5. ~NoTraces(lines) => Traced(q)'
  BY <1>2 DEF Traced, NoTraces
<1> QED BY <1>3, <1>4, <1>5

LEMMA ReasonsKept ==
    ASSUME IInv, NEW q \in Requests, NEW lines \in Seq(Lines), Writes(q, lines),
           NoReasons(lines), req'[q].ask = req[q].ask
    PROVE  /\ Lacks(q, Reasons) => Lacks(q, Reasons)'
           /\ OneReason(q) => OneReason(q)'
<1>1. log \in [Requests -> Seq(Lines)]
  BY DEF IInv, Typed
<1>2. Lacks(q, Reasons) => Lacks(q, Reasons)'
  BY <1>1, LacksKept DEF NoReasons
<1>3. ASSUME OneReason(q) PROVE OneReason(q)'
  <2>1. PICK n \in DOMAIN log[q] :
          /\ log[q][n].event = TrueReason(q)
          /\ \A i \in DOMAIN log[q] \ {n} : log[q][i].event \notin Reasons
    BY <1>3 DEF OneReason
  <2>2. /\ \A i \in DOMAIN log[q] : log'[q][i] = log[q][i]
        /\ \A i \in DOMAIN log'[q] \ DOMAIN log[q] : \E j \in DOMAIN lines : log'[q][i] = lines[j]
    BY <1>1, Appended
  <2>3. n \in DOMAIN log'[q]
    <3>1. /\ DOMAIN log'[q] = 1..Len(log'[q]) /\ DOMAIN log[q] = 1..Len(log[q])
          /\ Len(log'[q]) = Len(log[q]) + Len(lines)
      BY <1>1, Appended
    <3>2. Len(log[q]) \in Nat /\ Len(lines) \in Nat
      BY <1>1
    <3> QED BY <3>1, <3>2
  <2>4. \A i \in DOMAIN log'[q] \ {n} : log'[q][i].event \notin Reasons
    BY <2>1, <2>2 DEF NoReasons
  <2>5. TrueReason(q)' = TrueReason(q)
    BY DEF TrueReason
  <2> QED BY <2>1, <2>2, <2>3, <2>4, <2>5 DEF OneReason
<1> QED BY <1>2, <1>3

(* A step from one await to the next tells nothing yet. *)
LEMMA GoingOnTells ==
    ASSUME IInv, NEW q \in Requests, Told(q), req[q].pc \notin Ending,
           req'[q].pc \notin Ending,
           NEW lines \in Seq(Lines), Writes(q, lines), NoReasons(lines), NoTraces(lines)
    PROVE  Told(q)'
<1>1. Lacks(q, Reasons) /\ ~Traced(q)
  BY DEF Told, Untold
<1>2. Lacks(q, Reasons)'
  <2>1. log \in [Requests -> Seq(Lines)]
    BY DEF IInv, Typed
  <2> QED BY <1>1, <2>1, LacksKept DEF NoReasons
<1>3. ~Traced(q)'
  BY <1>1, TracesKept
<1> QED BY <1>2, <1>3 DEF Told, Untold

(* An answer that no token is the reason of, with a traceback if it is a    *)
(* failure of ours.                                                         *)
LEMMA AnsweringTells ==
    ASSUME IInv, NEW q \in Requests, Told(q), req[q].pc \notin Ending,
           req'[q].pc \in Ending, req'[q].ask = req[q].ask,
           req'[q].admitted = req[q].admitted,
           NEW lines \in Seq(Lines), Writes(q, lines), NoReasons(lines),
           req'[q].answer.status >= 500 <=> ~NoTraces(lines),
           ~Turned(q, req'[q].answer)
    PROVE  Told(q)'
<1>1. Lacks(q, Reasons) /\ ~Traced(q)
  BY DEF Told, Untold
<1>2. Lacks(q, Reasons)'
  BY <1>1, ReasonsKept
<1>3. req'[q].answer.status >= 500 <=> Traced(q)'
  BY <1>1, TracesKept
<1>4. ~Turned(q, req[q].answer)'
  BY DEF Turned, IsProtected
<1> QED BY <1>2, <1>3, <1>4 DEF Told, Why

(* A rejection: one of its lines is the reason. *)
LEMMA RejectingTells ==
    ASSUME IInv, NEW q \in Requests, Told(q), req[q].pc \notin Ending,
           req'[q].pc \in Ending, req'[q].ask = req[q].ask,
           NEW lines \in Seq(Lines), Writes(q, lines), NoTraces(lines),
           NEW k \in DOMAIN lines, lines[k].event = TrueReason(q),
           \A j \in DOMAIN lines \ {k} : lines[j].event \notin Reasons,
           req'[q].answer.status < 500, req'[q].answer.status \in Nat,
           req'[q].answer.challenge, Turned(q, req[q].answer)'
    PROVE  Told(q)'
<1>1. Lacks(q, Reasons) /\ ~Traced(q)
  BY DEF Told, Untold
<1>2. log \in [Requests -> Seq(Lines)]
  BY DEF IInv, Typed
<1> DEFINE n == Len(log[q]) + k
<1>3. /\ n \in DOMAIN log'[q] /\ log'[q][n] = lines[k]
      /\ \A i \in DOMAIN log[q] : log'[q][i] = log[q][i]
      /\ \A i \in DOMAIN log'[q] \ DOMAIN log[q] :
            \E j \in DOMAIN lines : i = Len(log[q]) + j /\ log'[q][i] = lines[j]
  <2>1. /\ DOMAIN log'[q] = 1..Len(log'[q])
        /\ Len(log'[q]) = Len(log[q]) + Len(lines)
    BY <1>2, Appended
  <2>2. Len(log[q]) \in Nat /\ Len(lines) \in Nat /\ DOMAIN lines = 1..Len(lines)
    BY <1>2
  <2>3. n \in DOMAIN log'[q]
    BY <2>1, <2>2
  <2> QED BY <1>2, <2>3, Appended
<1>4. \A i \in DOMAIN log'[q] \ {n} : log'[q][i].event \notin Reasons
  <2> SUFFICES ASSUME NEW i \in DOMAIN log'[q] \ {n} PROVE log'[q][i].event \notin Reasons
    OBVIOUS
  <2>1. CASE i \in DOMAIN log[q]
    BY <1>1, <1>3, <2>1 DEF Lacks
  <2>2. CASE i \notin DOMAIN log[q]
    <3>1. PICK j \in DOMAIN lines : i = Len(log[q]) + j /\ log'[q][i] = lines[j]
      BY <1>3, <2>2
    <3> QED BY <3>1
  <2> QED BY <2>1, <2>2
<1>5. TrueReason(q)' = TrueReason(q)
  BY DEF TrueReason
<1> HIDE DEF n
<1>6. OneReason(q)'
  BY <1>3, <1>4, <1>5 DEF OneReason
<1>7. ~(req'[q].answer.status >= 500) /\ ~Traced(q)'
  BY <1>1, TracesKept
<1> QED BY <1>6, <1>7 DEF Told, Why
-----------------------------------------------------------------------------
(* What a line says, and a log of one without a traceback. *)
LEMMA LineSays ==
    ASSUME NEW event, NEW ctx, NEW trace
    PROVE  /\ Line(event, ctx, trace).event = event
           /\ Line(event, ctx, trace).trace = trace
BY DEF Line

LEMMA QuietLine ==
    ASSUME NEW event, NEW ctx
    PROVE  LET lines == << Line(event, ctx, FALSE) >>
           IN  /\ DOMAIN lines = {1} /\ Len(lines) = 1 /\ lines[1].event = event
               /\ NoTraces(lines)
               /\ event \notin Reasons => NoReasons(lines)
<1> DEFINE line == Line(event, ctx, FALSE)
           lines == << line >>
<1>1. line.event = event /\ ~line.trace
  BY DEF Line
<1> HIDE DEF line
<1>2. DOMAIN lines = {1} /\ Len(lines) = 1 /\ lines[1] = line
  OBVIOUS
<1> HIDE DEF lines
<1>3. NoTraces(lines)
  BY <1>1, <1>2 DEF NoTraces, Explains, RowCrash
<1>4. event \notin Reasons => NoReasons(lines)
  BY <1>1, <1>2 DEF NoReasons
<1> QED BY <1>1, <1>2, <1>3, <1>4 DEF lines, line

(* The record of a request that leaves its child task. *)
LEMMA ClosingSays ==
    ASSUME IInv, NEW q \in Requests, NEW answer, Closing(q, answer)
    PROVE  /\ req'[q].pc = "closing" /\ req'[q].answer = answer
           /\ req'[q].ask = req[q].ask /\ req'[q].admitted = req[q].admitted
           /\ \A p \in Requests \ {q} : req'[p] = req[p]
<1>1. req'[q] = [req[q] EXCEPT !.pc = "closing", !.answer = answer]
      /\ \A p \in Requests \ {q} : req'[p] = req[p]
  BY DEF Closing, IInv, Typed
<1> QED BY <1>1 DEF IInv, Typed, Records

(* What the handler of the application's errors adds and answers. *)
LEMMA AppErrorSays ==
    ASSUME IInv, NEW q \in Requests, NEW ctx \in Contexts, NEW status \in Nat,
           NEW before \in Seq(Lines), AppError(q, ctx, status, before)
    PROVE  \E lines \in Seq(Lines) :
              /\ Writes(q, lines) /\ DOMAIN lines = DOMAIN before \cup {Len(before) + 1}
              /\ \A j \in DOMAIN before : lines[j] = before[j]
              /\ lines[Len(before) + 1].event = "http.app_error"
              /\ lines[Len(before) + 1].trace <=> status >= 500
              /\ req'[q].pc = "closing" /\ req'[q].answer.status = status
              /\ req'[q].answer.challenge <=> status = 401
              /\ req'[q].ask = req[q].ask /\ req'[q].admitted = req[q].admitted
<1> DEFINE line == AppErrorLine(q, ctx, status)
           lines == Append(before, line)
           plain == Answered(status, q)
           answer == [plain EXCEPT !.challenge = (status = 401)]
<1>1. Writes(q, lines) /\ Closing(q, answer)
  BY DEF AppError
<1>2. line.event = "http.app_error" /\ line.trace = IsOurs(status)
  BY LineSays DEF AppErrorLine
<1>3. line \in Lines
  <2>1. "http.app_error" \in Events /\ IsOurs(status) \in BOOLEAN
    BY DEF Events, IsOurs
  <2> QED BY <2>1, LineOfRequest DEF AppErrorLine
<1>4. answer.status = status /\ answer.challenge = (status = 401)
  <2>1. plain \in Answers /\ plain.status = status
    BY AnsweredQuotes
  <2> HIDE DEF plain
  <2>2. "challenge" \in DOMAIN plain /\ "status" \in DOMAIN plain
    BY <2>1 DEF Answers
  <2> QED BY <2>1, <2>2
<1> HIDE DEF line, answer
<1>5. /\ lines \in Seq(Lines) /\ DOMAIN lines = DOMAIN before \cup {Len(before) + 1}
      /\ \A j \in DOMAIN before : lines[j] = before[j]
      /\ lines[Len(before) + 1] = line
  <2>1. lines \in Seq(Lines) /\ DOMAIN lines = 1..(Len(before) + 1)
        /\ DOMAIN before = 1..Len(before) /\ Len(before) \in Nat
        /\ lines[Len(before) + 1] = line
    BY <1>3
  <2>2. \A j \in DOMAIN before : lines[j] = before[j]
    BY <1>3
  <2>3. DOMAIN lines = DOMAIN before \cup {Len(before) + 1}
    BY <2>1
  <2> QED BY <2>1, <2>2, <2>3
<1> HIDE DEF lines
<1>6. /\ req'[q].pc = "closing" /\ req'[q].answer = answer
      /\ req'[q].ask = req[q].ask /\ req'[q].admitted = req[q].admitted
  BY <1>1, ClosingSays
<1>7. (line.trace <=> status >= 500) /\ (answer.challenge <=> status = 401)
  <2>1. line.trace <=> status >= 500
    BY <1>2 DEF IsOurs
  <2>2. answer.challenge <=> status = 401
    BY <1>4
  <2> QED BY <2>1, <2>2
<1> QED BY <1>1, <1>2, <1>4, <1>5, <1>6, <1>7
-----------------------------------------------------------------------------
(* An application's error that no token is the reason of. *)
LEMMA AppErrorTells ==
    ASSUME IInv, NEW q \in Requests, Told(q), req[q].pc \notin Ending,
           NEW ctx \in Contexts, NEW status \in Nat,
           NEW before \in Seq(Lines), NoReasons(before), ~NoTraces(before) => status >= 500,
           AppError(q, ctx, status, before),
           status = 401 => req[q].admitted # None \/ ~IsProtected(q)
    PROVE  Told(q)'
<1>1. PICK lines \in Seq(Lines) :
        /\ Writes(q, lines) /\ DOMAIN lines = DOMAIN before \cup {Len(before) + 1}
        /\ \A j \in DOMAIN before : lines[j] = before[j]
        /\ lines[Len(before) + 1].event = "http.app_error"
        /\ lines[Len(before) + 1].trace <=> status >= 500
        /\ req'[q].pc = "closing" /\ req'[q].answer.status = status
        /\ req'[q].answer.challenge <=> status = 401
        /\ req'[q].ask = req[q].ask /\ req'[q].admitted = req[q].admitted
  BY AppErrorSays
<1>2. "http.app_error" \notin Reasons
  BY DEF Reasons, BadTokens
<1>3. NoReasons(lines)
  BY <1>1, <1>2 DEF NoReasons
<1>4. ~NoTraces(lines) <=> status >= 500
  BY <1>1 DEF NoTraces, Explains, RowCrash
<1>5. ~Turned(q, req'[q].answer)
  BY <1>1 DEF Turned
<1>6. req'[q].pc \in Ending
  BY <1>1 DEF Ending
<1> QED BY <1>1, <1>3, <1>4, <1>5, <1>6, AnsweringTells

(* A request that is answered below 500 without its token being looked at,  *)
(* and leaves one line or none.                                             *)
LEMMA PlainAnswerTells ==
    ASSUME IInv, NEW q \in Requests, Told(q), req[q].pc \notin Ending,
           NEW lines \in Seq(Lines), Writes(q, lines), NoReasons(lines), NoTraces(lines),
           NEW answer, Closing(q, answer), answer.status \in Nat, answer.status < 500,
           answer.status # 401 \/ req[q].ask.bearer = None
    PROVE  Told(q)'
<1>1. /\ req'[q].pc = "closing" /\ req'[q].answer = answer
      /\ req'[q].ask = req[q].ask /\ req'[q].admitted = req[q].admitted
  BY ClosingSays
<1>2. ~Turned(q, req'[q].answer)
  BY <1>1 DEF Turned
<1>3. req'[q].pc \in Ending /\ ~(req'[q].answer.status >= 500)
  BY <1>1 DEF Ending
<1> QED BY <1>1, <1>2, <1>3, AnsweringTells

LEMMA ReceiveTells ==
    ASSUME IInv, NEW q \in Requests, NEW t \in Tasks, Receive(q, t)
    PROVE  Told(q)'
<1>1. log'[q] = <<>>
  BY DEF Receive, IInv, ReqInv, Asked
<1>2. req'[q].pc = "routing"
  BY DEF Receive, IInv, Typed, NoRequest
<1> QED BY <1>1, <1>2 DEF Told, Untold, Lacks, Traced, Ending

LEMMA NotFoundTells ==
    ASSUME IInv, NEW q \in Requests, Told(q), NotFound(q)
    PROVE  Told(q)'
<1> DEFINE answer == [NoAnswer EXCEPT !.status = 404]
<1>1. req[q].pc \notin Ending /\ Closing(q, answer)
  BY DEF NotFound, Ending
<1>2. answer.status = 404
  BY DEF NoAnswer
<1>3. PICK lines \in Seq(Lines) : Writes(q, lines) /\ DOMAIN lines = {}
  BY Silent DEF NotFound
<1>4. NoReasons(lines) /\ NoTraces(lines)
  BY <1>3 DEF NoReasons, NoTraces, Explains, RowCrash
<1> HIDE DEF answer
<1>5. answer.status \in Nat /\ answer.status < 500 /\ answer.status # 401
  BY <1>2
<1> QED BY <1>1, <1>3, <1>4, <1>5, PlainAnswerTells

LEMMA RefusalTells ==
    ASSUME IInv, NEW q \in Requests, Told(q),
           Unparsable(q) \/ Garbled(q) \/ Invalid(q) \/ NoBearer(q)
    PROVE  Told(q)'
<1> DEFINE kinds == {"http.request_invalid", "http.error"}
<1>1. req[q].pc \in {"routing", "checking"}
  BY DEF Unparsable, Garbled, Invalid, NoBearer, IsRead
<1>2. ASSUME NEW kind \in kinds PROVE << Line(kind, req[q].child, FALSE) >> \in Seq(Lines)
  <2>1. kind \in Events /\ kind \notin Final /\ kind \notin EndpointEvents
    BY DEF Events, Final, Closings, EndpointEvents, RowCrash
  <2> QED BY <1>1, <2>1, ChildLine
<1>3. PICK kind \in kinds, status \in {400, 401, 422} :
        /\ Writes(q, << Line(kind, req[q].child, FALSE) >>)
        /\ Closing(q, Answered(status, q))
        /\ status # 401 \/ req[q].ask.bearer = None
  BY DEF Unparsable, Garbled, Invalid, NoBearer, ValidationError, HttpError
<1> DEFINE lines == << Line(kind, req[q].child, FALSE) >>
           answer == Answered(status, q)
<1>4. NoReasons(lines) /\ NoTraces(lines)
  <2>1. kind \notin Reasons
    BY DEF Reasons, BadTokens
  <2> HIDE DEF answer
  <2>2. DOMAIN lines = {1} /\ lines[1].event = kind /\ ~lines[1].trace
    BY DEF Line
  <2> HIDE DEF lines
  <2> QED BY <2>1, <2>2 DEF NoReasons, NoTraces, Explains, RowCrash
<1>5. answer.status = status
  BY AnsweredQuotes
<1>6. Writes(q, lines) /\ Closing(q, answer)
  BY <1>3
<1>7. lines \in Seq(Lines)
  BY <1>2
<1> HIDE DEF lines, answer
<1>8. req[q].pc \notin Ending /\ answer.status \in Nat /\ answer.status < 500
  BY <1>1, <1>5 DEF Ending
<1>9. answer.status # 401 \/ req[q].ask.bearer = None
  BY <1>3, <1>5
<1> QED BY <1>7, <1>4, <1>6, <1>8, <1>9, PlainAnswerTells

(* The one reason of a rejection is the token's own, or that its user is    *)
(* not there.                                                               *)
LEMMA RejectionTells ==
    ASSUME IInv, NEW q \in Requests, Told(q), RejectToken(q) \/ UserGone(q)
    PROVE  Told(q)'
<1> DEFINE reason == TrueReason(q)
           before == << Line(reason, req[q].child, FALSE) >>
<1>1. /\ AppError(q, req[q].child, 401, before)
      /\ req[q].pc \in {"routing", "loading"} /\ IsProtected(q) /\ req[q].ask.bearer # None
  <2>1. CASE RejectToken(q)
    <3>1. reason = req[q].ask.bearer /\ req[q].ask.bearer # None
      BY <2>1 DEF RejectToken, TrueReason, BadTokens, None
    <3> QED BY <2>1, <3>1 DEF RejectToken, IsRead, Rejected
  <2>2. CASE UserGone(q)
    <3>1. req[q].pc = "loading" /\ AppError(q, req[q].child, 401, Rejected(q, "user_not_found"))
      BY <2>2 DEF UserGone
    <3>2. IsProtected(q) /\ req[q].ask.bearer \in Users
      BY <3>1 DEF IInv, ReqInv, Admission
    <3>3. reason = "user_not_found" /\ req[q].ask.bearer # None
      BY <3>2, TokensDiffer DEF TrueReason
    <3> QED BY <3>1, <3>2, <3>3 DEF Rejected
  <2> QED BY <2>1, <2>2
<1>2. reason \in Reasons
  BY DEF TrueReason, Reasons
<1>3. before \in Seq(Lines) /\ req[q].child \in Contexts
  <2>1. reason \in Events /\ reason \notin Final /\ reason \notin EndpointEvents
    BY <1>2 DEF Events, Reasons, BadTokens, Final, Closings, EndpointEvents, RowCrash
  <2> QED BY <1>1, <2>1, ChildLine, ChildIsOwn
<1>4. DOMAIN before = {1} /\ before[1].event = reason /\ Len(before) = 1
      /\ NoTraces(before)
  BY QuietLine
<1> HIDE DEF before
<1> DEFINE status == 401
<1> HIDE DEF status
<1>6. PICK lines \in Seq(Lines) :
        /\ Writes(q, lines) /\ DOMAIN lines = DOMAIN before \cup {Len(before) + 1}
        /\ \A j \in DOMAIN before : lines[j] = before[j]
        /\ lines[Len(before) + 1].event = "http.app_error"
        /\ lines[Len(before) + 1].trace <=> status >= 500
        /\ req'[q].pc = "closing" /\ req'[q].answer.status = status
        /\ req'[q].answer.challenge <=> status = 401
        /\ req'[q].ask = req[q].ask /\ req'[q].admitted = req[q].admitted
  <2>1. AppError(q, req[q].child, status, before) /\ status \in Nat
    BY <1>1 DEF status
  <2> HIDE DEF before
  <2> QED BY <2>1, <1>3, AppErrorSays, ZenonT(60)
<1>7. /\ 1 \in DOMAIN lines /\ lines[1].event = TrueReason(q)
      /\ \A j \in DOMAIN lines \ {1} : lines[j].event = "http.app_error"
  BY <1>4, <1>6
<1>8. "http.app_error" \notin Reasons
  BY DEF Reasons, BadTokens
<1>9. NoTraces(lines)
  BY <1>4, <1>6 DEF NoTraces, Explains, status
<1>10. req'[q].answer.challenge /\ req'[q].answer.status = 401
  BY <1>6 DEF status
<1>11. Turned(q, req[q].answer)'
  <2>1. req[q].admitted = None
    BY <1>1 DEF IInv, ReqInv, Admission
  <2> QED BY <1>1, <1>6, <1>10, <2>1 DEF Turned, IsProtected
<1>12. req[q].pc \notin Ending /\ req'[q].pc \in Ending
  BY <1>1, <1>6 DEF Ending
<1> HIDE DEF reason
<1>13. \A j \in DOMAIN lines \ {1} : lines[j].event \notin Reasons
  BY <1>7, <1>8
<1>14. /\ req'[q].answer.status < 500 /\ req'[q].answer.status \in Nat
       /\ Writes(q, lines) /\ req'[q].ask = req[q].ask
       /\ 1 \in DOMAIN lines /\ lines[1].event = TrueReason(q)
  BY <1>6, <1>7, <1>10
<1> QED BY <1>9, <1>10, <1>11, <1>12, <1>13, <1>14, RejectingTells

(* Steps between two awaits, and rows that crash: three of them write a     *)
(* line.                                                                    *)
LEMMA MovingOnTells ==
    ASSUME IInv, NEW q \in Requests, Told(q),
           Proceed(q) \/ Break(q) \/ EnterEndpoint(q) \/ Admit(q) \/ RowCrashed(q)
    PROVE  Told(q)'
<1>1. req[q].pc \notin Ending
  BY DEF Proceed, IsRead, Break, EnterEndpoint, Admit, RowCrashed, Ending
<1>2. req'[q].pc \notin Ending
  <2>1. req[q] \in Records /\ \A r : req' = [req EXCEPT ![q] = r] => req'[q] = r
    BY DEF IInv, Typed
  <2> QED BY <2>1 DEF Proceed, Break, EnterEndpoint, Admit, RowCrashed, Ending, Records,
                      IInv, Typed
<1>3. PICK lines \in Seq(Lines) : Writes(q, lines) /\ NoReasons(lines) /\ NoTraces(lines)
  <2>1. CASE Proceed(q) \/ Break(q)
    <3>1. PICK lines \in Seq(Lines) : Writes(q, lines) /\ DOMAIN lines = {}
      BY <2>1, Silent DEF Proceed, Break
    <3> QED BY <3>1 DEF NoReasons, NoTraces, Explains, RowCrash
  <2>2. CASE EnterEndpoint(q)
    <3> DEFINE line == Line("endpoint", req[q].child, FALSE)
               lines == << line >>
    <3>1. Writes(q, lines) /\ req[q].pc = "checking"
      BY <2>2 DEF EnterEndpoint
    <3>2. line \in Lines /\ line.event = "endpoint" /\ ~line.trace
      <4>1. req[q].child \in Contexts
        BY <3>1, ChildIsOwn
      <4> QED BY <4>1 DEF Line, Lines, Events, Contexts, EndpointEvents
    <3>3. "endpoint" \notin Reasons
      BY DEF Reasons, BadTokens
    <3> HIDE DEF line
    <3>4. lines \in Seq(Lines) /\ \A j \in DOMAIN lines : lines[j] = line
      BY <3>2, OneLine
    <3> HIDE DEF lines
    <3> QED BY <3>1, <3>2, <3>3, <3>4 DEF NoReasons, NoTraces, Explains, RowCrash
  <2>3. CASE Admit(q)
    <3> DEFINE ctx == WithUser(req[q].child, req[q].ask.bearer)
               line == Line("auth.authenticated", ctx, FALSE)
               lines == << line >>
    <3>1. Writes(q, lines) /\ req[q].pc = "loading"
      BY <2>3 DEF Admit
    <3>2. line \in Lines /\ line.event = "auth.authenticated" /\ ~line.trace
      <4>1. ctx \in Contexts
        BY <3>1, WithUserIsOwn
      <4> QED BY <4>1 DEF Line, Lines, Events, Contexts, EndpointEvents
    <3>3. "auth.authenticated" \notin Reasons
      BY DEF Reasons, BadTokens
    <3> HIDE DEF line
    <3>4. lines \in Seq(Lines) /\ \A j \in DOMAIN lines : lines[j] = line
      BY <3>2, OneLine
    <3> HIDE DEF lines
    <3> QED BY <3>1, <3>2, <3>3, <3>4 DEF NoReasons, NoTraces, Explains, RowCrash
  <2>4. CASE RowCrashed(q)
    <3> DEFINE line == Line(RowCrash, req[q].child, TRUE)
               lines == << line >>
    <3>1. Writes(q, lines) /\ req[q].pc = "working"
      BY <2>4 DEF RowCrashed
    <3>2. lines \in Seq(Lines)
      <4>1. req[q].child \in EndContexts(q) /\ RowCrash \in EndpointEvents
        BY DEF EndContexts, EndpointEvents
      <4> QED BY <3>1, <4>1, EndpointLine
    <3>3. line.event = RowCrash
      BY DEF Line
    <3>4. RowCrash \notin Reasons
      BY DEF RowCrash, Reasons, BadTokens
    <3> HIDE DEF line
    <3>5. \A j \in DOMAIN lines : lines[j] = line
      OBVIOUS
    <3> HIDE DEF lines
    <3> QED BY <3>1, <3>2, <3>3, <3>4, <3>5 DEF NoReasons, NoTraces, Explains, RowCrash
  <2> QED BY <2>1, <2>2, <2>3, <2>4
<1> QED BY <1>1, <1>2, <1>3, GoingOnTells

(* Whoever is known and may not enter is told no reason about a token. *)
LEMMA DenyTells ==
    ASSUME IInv, NEW q \in Requests, Told(q), Deny(q)
    PROVE  Told(q)'
<1> DEFINE ctx == WithUser(req[q].child, req[q].ask.bearer)
           known == Line("auth.authenticated", ctx, FALSE)
           denied == Line("auth.permission.denied", ctx, FALSE)
           before == << known, denied >>
<1>1. req[q].pc = "loading" /\ AppError(q, ctx, 403, before)
  BY DEF Deny
<1>2. ctx \in Contexts
  BY <1>1, WithUserIsOwn
<1>3. /\ known \in Lines /\ known.event = "auth.authenticated" /\ ~known.trace
      /\ denied \in Lines /\ denied.event = "auth.permission.denied" /\ ~denied.trace
  BY <1>2 DEF Line, Lines, Events, Contexts, EndpointEvents
<1>4. {"auth.authenticated", "auth.permission.denied"} \cap Reasons = {}
  BY DEF Reasons, BadTokens
<1> HIDE DEF ctx, known, denied
<1>5. before \in Seq(Lines) /\ \A j \in DOMAIN before : before[j] \in {known, denied}
  BY <1>3, TwoLines
<1> HIDE DEF before
<1>6. NoReasons(before) /\ NoTraces(before)
  BY <1>3, <1>4, <1>5 DEF NoReasons, NoTraces, Explains, RowCrash
<1>7. req[q].pc \notin Ending
  BY <1>1 DEF Ending
<1> DEFINE status == 403
<1>8. AppError(q, ctx, status, before) /\ status \in Nat /\ status # 401
  BY <1>1
<1> HIDE DEF status
<1> QED BY <1>2, <1>5, <1>6, <1>7, <1>8, AppErrorTells

LEMMA SucceedTells ==
    ASSUME IInv, NEW q \in Requests, Told(q), Succeed(q)
    PROVE  Told(q)'
<1> DEFINE answer == [NoAnswer EXCEPT !.status = 200]
<1>1. PICK ctx \in EndContexts(q) : Writes(q, << Line("endpoint", ctx, FALSE) >>)
  BY DEF Succeed
<1>2. req[q].pc = "working" /\ Closing(q, answer)
  BY DEF Succeed
<1>3. answer.status = 200
  BY DEF NoAnswer
<1> DEFINE lines == << Line("endpoint", ctx, FALSE) >>
<1>4. lines \in Seq(Lines)
  BY <1>2, EndpointLine DEF EndpointEvents
<1>5. NoReasons(lines) /\ NoTraces(lines)
  <2>1. "endpoint" \notin Reasons
    BY DEF Reasons, BadTokens
  <2>2. DOMAIN lines = {1} /\ lines[1].event = "endpoint" /\ ~lines[1].trace
    BY DEF Line
  <2> HIDE DEF lines
  <2> QED BY <2>1, <2>2 DEF NoReasons, NoTraces, Explains, RowCrash
<1>6. Writes(q, lines)
  BY <1>1
<1> HIDE DEF answer, lines
<1>7. req[q].pc \notin Ending /\ answer.status \in Nat /\ answer.status < 500
      /\ answer.status # 401
  BY <1>2, <1>3 DEF Ending
<1> QED BY <1>2, <1>4, <1>5, <1>6, <1>7, PlainAnswerTells

(* What an endpoint raises: a caller was admitted, if its route asks for    *)
(* one, so that a 401 of its own is no rejection.                           *)
LEMMA FailureTells ==
    ASSUME IInv, NEW q \in Requests, Told(q), Fail(q) \/ FailToPersist(q)
    PROVE  Told(q)'
<1>1. req[q].pc = "working"
  BY DEF Fail, FailToPersist
<1>2. PICK ctx \in EndContexts(q), status \in Raisable, trace \in BOOLEAN :
         /\ AppError(q, ctx, status, << Line("endpoint", ctx, trace) >>)
         /\ trace => status = 500
  <2>1. CASE Fail(q)
    BY <2>1 DEF Fail
  <2>2. CASE FailToPersist(q)
    <3>1. AppError(q, req[q].child, 500, << Line("endpoint", req[q].child, TRUE) >>)
      BY <2>2 DEF FailToPersist
    <3>2. req[q].child \in EndContexts(q) /\ 500 \in Raisable
      BY DEF EndContexts, Raisable, InvariantErrors
    <3> QED BY <3>1, <3>2
  <2> QED BY <2>1, <2>2
<1> DEFINE before == << Line("endpoint", ctx, trace) >>
<1>3. ctx \in Contexts /\ before \in Seq(Lines)
  BY <1>1, EndpointLine DEF EndpointEvents
<1>4. NoReasons(before) /\ (~NoTraces(before) => status >= 500)
  <2>1. "endpoint" \notin Reasons
    BY DEF Reasons, BadTokens
  <2>2. DOMAIN before = {1} /\ before[1].event = "endpoint" /\ before[1].trace = trace
    BY DEF Line
  <2>3. trace => status >= 500
    BY <1>2
  <2> HIDE DEF before
  <2> QED BY <2>1, <2>2, <2>3 DEF NoReasons, NoTraces, Explains, RowCrash
<1>5. AppError(q, ctx, status, before)
  BY <1>2
<1>6. status \in Nat
  BY DEF Raisable, UploadErrors, AuthErrors, OtherErrors, InvariantErrors
<1>7. req[q].admitted # None \/ ~IsProtected(q)
  BY <1>1 DEF IInv, ReqInv, Admission, Entitled, IsProtected, None
<1>8. req[q].pc \notin Ending
  BY <1>1 DEF Ending
<1> HIDE DEF before
<1> QED BY <1>3, <1>4, <1>5, <1>6, <1>7, <1>8, AppErrorTells

(* The closing line says nothing about why. *)
LEMMA FinishTells ==
    ASSUME IInv, NEW q \in Requests, Told(q), Finish(q)
    PROVE  Told(q)'
<1> DEFINE line == Line("http.request.finished", context[req[q].task], FALSE)
           lines == << line >>
<1>1. req[q].pc = "closing" /\ Writes(q, lines)
  BY DEF Finish, FinishedLine
<1>2. line \in Lines
  <2>1. "http.request.finished" \in Final
    BY DEF Final, Closings
  <2> QED BY <1>1, <2>1, OuterLine
<1>3. line.event = "http.request.finished" /\ ~line.trace
  BY DEF Line
<1>4. "http.request.finished" \notin Reasons
  BY DEF Reasons, BadTokens
<1> HIDE DEF line
<1>5. lines \in Seq(Lines) /\ \A j \in DOMAIN lines : lines[j] = line
  BY <1>2, OneLine
<1> HIDE DEF lines
<1>6. NoReasons(lines) /\ NoTraces(lines)
  BY <1>3, <1>4, <1>5 DEF NoReasons, NoTraces, Explains, RowCrash
<1>7. /\ req'[q].pc = "done" /\ req'[q].ask = req[q].ask
      /\ req'[q].admitted = req[q].admitted
      /\ req'[q].answer.status = req[q].answer.status
      /\ req'[q].answer.challenge = req[q].answer.challenge
  <2>1. req[q] \in Records
    BY DEF IInv, Typed
  <2>2. req'[q] = [req[q] EXCEPT !.pc = "done",
                                 !.answer = [req[q].answer EXCEPT !.header = req[q].id]]
    BY DEF Finish, IInv, Typed
  <2> QED BY <2>1, <2>2 DEF Records, Answers
<1>8. /\ (Turned(q, req[q].answer) <=> Turned(q, req[q].answer)')
  BY <1>7 DEF Turned, IsProtected
<1>9. Traced(q)' <=> Traced(q)
  BY <1>1, <1>5, <1>6, TracesKept
<1>10. /\ Lacks(q, Reasons) => Lacks(q, Reasons)'
       /\ OneReason(q) => OneReason(q)'
  BY <1>1, <1>5, <1>6, <1>7, ReasonsKept
<1>11. Why(q)
  BY <1>1 DEF Told, Ending
<1>12. Why(q)'
  BY <1>7, <1>8, <1>9, <1>10, <1>11 DEF Why
<1> QED BY <1>7, <1>12 DEF Told, Ending

(* The outer handler leaves the traceback. *)
LEMMA CrashedTells ==
    ASSUME IInv, NEW q \in Requests, Told(q), Crashed(q)
    PROVE  Told(q)'
<1> DEFINE crashed == Line("http.request.crashed", context[req[q].task], FALSE)
           unhandled == Line("http.unhandled_exception", context[req[q].task], TRUE)
           lines == Append(<< crashed >>, unhandled)
           answer == Answered(500, q)
<1>1. /\ req[q].pc = "broken" /\ Writes(q, lines)
      /\ req' = [req EXCEPT ![q].pc = "done", ![q].answer = answer]
  BY DEF Crashed, CrashedLine
<1>2. /\ crashed \in Lines /\ crashed.event = "http.request.crashed"
      /\ unhandled \in Lines /\ unhandled.event = "http.unhandled_exception"
  <2>1. "http.request.crashed" \in Final /\ "http.unhandled_exception" \in Final
    BY DEF Final, Closings
  <2> QED BY <1>1, <2>1, OuterLine
<1>3. unhandled.trace
  BY DEF Line
<1>4. {"http.request.crashed", "http.unhandled_exception"} \cap Reasons = {}
  BY DEF Reasons, BadTokens
<1> HIDE DEF crashed, unhandled
<1>5. /\ lines \in Seq(Lines) /\ DOMAIN lines = {1, 2}
      /\ lines[1] = crashed /\ lines[2] = unhandled
  BY <1>2
<1> HIDE DEF lines
<1>6. NoReasons(lines) /\ ~NoTraces(lines)
  BY <1>2, <1>3, <1>4, <1>5 DEF NoReasons, NoTraces, Explains, RowCrash
<1>7. answer.status = 500
  BY AnsweredQuotes
<1>8. /\ req'[q].pc = "done" /\ req'[q].answer = answer
      /\ req'[q].ask = req[q].ask /\ req'[q].admitted = req[q].admitted
  <2>1. req'[q] = [req[q] EXCEPT !.pc = "done", !.answer = answer]
    BY <1>1 DEF IInv, Typed
  <2> HIDE DEF answer
  <2> QED BY <2>1 DEF IInv, Typed, Records
<1> HIDE DEF answer
<1>9. /\ req[q].pc \notin Ending /\ req'[q].pc \in Ending
      /\ req'[q].answer.status >= 500 /\ ~Turned(q, req'[q].answer)
  BY <1>1, <1>7, <1>8 DEF Ending, Turned
<1> QED BY <1>1, <1>5, <1>6, <1>8, <1>9, AnsweringTells
-----------------------------------------------------------------------------
(* A step of one request touches neither the record nor the log of another. *)
LEMMA OthersUntouched ==
    ASSUME IInv, NEW q \in Requests, Serve(q) \/ \E t \in Tasks : Receive(q, t),
           NEW p \in Requests \ {q}
    PROVE  req'[p] = req[p] /\ log'[p] = log[p]
<1>1. \A r : req' = [req EXCEPT ![q] = r] => req'[p] = req[p]
  BY DEF IInv, Typed
<1>2. \A lines : Writes(q, lines) => log'[p] = log[p]
  BY DEF Writes, IInv, Typed
<1>3. \A answer : Closing(q, answer) => req'[p] = req[p]
  BY <1>1 DEF Closing
<1>4. \A ctx, status, before :
        AppError(q, ctx, status, before) => req'[p] = req[p] /\ log'[p] = log[p]
  BY <1>2, <1>3 DEF AppError
<1>5. ASSUME NEW t \in Tasks, Receive(q, t) PROVE req'[p] = req[p] /\ log'[p] = log[p]
  BY <1>1, <1>5 DEF Receive
<1>6. CASE NotFound(q) \/ Garbled(q) \/ Unparsable(q) \/ NoBearer(q) \/ Invalid(q) \/ Succeed(q)
  BY <1>2, <1>3, <1>6 DEF NotFound, Garbled, Unparsable, NoBearer, Invalid, Succeed,
     ValidationError, HttpError
<1>7. CASE RejectToken(q) \/ UserGone(q) \/ Deny(q) \/ Fail(q) \/ FailToPersist(q)
  BY <1>4, <1>7 DEF RejectToken, UserGone, Deny, Fail, FailToPersist
<1>8. CASE Proceed(q) \/ Admit(q) \/ EnterEndpoint(q) \/ RowCrashed(q) \/ Break(q)
  BY <1>1, <1>2, <1>8 DEF Proceed, Admit, EnterEndpoint, RowCrashed, Break
<1>9. CASE Finish(q) \/ Crashed(q)
  BY <1>1, <1>2, <1>9 DEF Finish, Crashed
<1> QED BY <1>5, <1>6, <1>7, <1>8, <1>9 DEF Serve

LEMMA NextTells == IInv /\ LogInv /\ [Next]_vars => LogInv'
<1> SUFFICES ASSUME IInv, [Next]_vars, \A q \in Requests : Told(q), NEW p \in Requests
             PROVE  Told(p)'
  BY DEF LogInv
<1>1. CASE UNCHANGED <<req, log>>
  BY <1>1, OthersTold
<1>2. ASSUME NEW q \in Requests, NEW t \in Tasks, Receive(q, t) PROVE Told(p)'
  <2>1. CASE p = q
    BY <1>2, <2>1, ReceiveTells
  <2>2. CASE p # q
    BY <1>2, <2>2, OthersUntouched, OthersTold
  <2> QED BY <2>1, <2>2
<1>3. ASSUME NEW q \in Requests, Serve(q) PROVE Told(p)'
  <2>1. CASE p = q
    BY <1>3, <2>1, NotFoundTells, RefusalTells, RejectionTells, MovingOnTells, DenyTells,
       SucceedTells, FailureTells, FinishTells, CrashedTells DEF Serve
  <2>2. CASE p # q
    BY <1>3, <2>2, OthersUntouched, OthersTold
  <2> QED BY <2>1, <2>2
<1>4. CASE \E u \in Users : ChangeUser(u)
  BY <1>1, <1>4 DEF ChangeUser
<1>5. CASE UNCHANGED vars
  BY <1>1, <1>5 DEF vars
<1> QED BY <1>2, <1>3, <1>4, <1>5 DEF Next

(* The log of every request served tells as much as it should by then. *)
THEOREM LogsTell == Spec => []LogInv
<1>1. Init => LogInv
  BY DEF Init, NoRequest, LogInv, Told, Untold, Ending, Lacks, Traced
<1> QED BY <1>1, NextTells, InductiveInvariant, PTL DEF Spec

(* Every rejected token leaves one reason, the true one, and a challenge;   *)
(* nobody else's failure leaves any; a traceback that is no row's is left   *)
(* by our own failures and by no caller's, whatever rows crashed on the way *)
(* (dependencies.py:28-31, errors.py:90-141, base.py:108-118).              *)
THEOREM TheLogTellsWhy == Spec => []LogTellsWhy
<1>1. IInv /\ LogInv => LogTellsWhy
  <2> SUFFICES ASSUME IInv, LogInv, NEW q \in Requests, Done(q)
               PROVE  LET answer == req[q].answer
                          bearer == req[q].ask.bearer
                          rejected == answer.status = 401 /\ IsProtected(q) /\ bearer # None
                                      /\ req[q].admitted = None
                          reason == IF bearer \in BadTokens THEN bearer ELSE "user_not_found"
                      IN  /\ Count(q, Reasons) = (IF rejected THEN 1 ELSE 0)
                          /\ rejected => Count(q, {reason}) = 1 /\ answer.challenge
                          /\ IsOurs(answer.status) <=> Tracebacks(q) # {}
    BY DEF LogTellsWhy
  <2>1. Why(q)
    BY DEF LogInv, Done, Told, Ending
  <2>2. IsOurs(req[q].answer.status) <=> Tracebacks(q) # {}
    BY <2>1 DEF Why, Traced, Explains, IsOurs, Tracebacks
  <2>3. ASSUME ~Turned(q, req[q].answer) PROVE Count(q, Reasons) = 0
    BY <2>1, <2>3, NoLineCounts DEF Why
  <2>4. ASSUME Turned(q, req[q].answer)
        PROVE  Count(q, Reasons) = 1 /\ Count(q, {TrueReason(q)}) = 1 /\ req[q].answer.challenge
    <3>1. TrueReason(q) \in Reasons
      BY DEF TrueReason, Reasons
    <3>2. PICK n \in DOMAIN log[q] :
            /\ log[q][n].event = TrueReason(q)
            /\ \A i \in DOMAIN log[q] \ {n} : log[q][i].event \notin Reasons
      BY <2>1, <2>4 DEF Why, OneReason
    <3>3. \A i \in DOMAIN log[q] \ {n} : log[q][i].event # TrueReason(q)
      BY <3>1, <3>2
    <3>4. Count(q, Reasons) = 1
      BY <3>1, <3>2, OneLineCounts
    <3>5. Count(q, {TrueReason(q)}) = 1
      BY <3>2, <3>3, OneLineCounts
    <3> QED BY <2>1, <2>4, <3>4, <3>5 DEF Why
  <2> QED BY <2>2, <2>3, <2>4 DEF Turned, TrueReason
<1> QED BY <1>1, InductiveInvariant, LogsTell, PTL
=============================================================================
