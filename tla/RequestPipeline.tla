--------------------------- MODULE RequestPipeline ---------------------------
(***************************************************************************)
(* One request on its way through NewRouter: otelhttp calls Recovery,      *)
(* Recovery calls RequestID, then Logger, the validator, the mux and the   *)
(* handler, and each returns to the one before it.  A panic skips what is  *)
(* left of everything below Recovery.                                      *)
(*                                                                         *)
(* The header of the answer goes out with the first WriteHeader; what is   *)
(* set later is lost and what is written later comes on top.               *)
(***************************************************************************)
EXTENDS Naturals, Sequences, FiniteSets

VARIABLES
  at,         \* where the request is
  request,    \* its kind, whether it is a HEAD, whether it brings an X-Request-Id
  header,     \* the headers of the answer as set so far
  answer,     \* the header as sent, status 0 for none, and its JSON documents
  captured,   \* the status Logger's responseWriter has seen
  identified, \* whether the context of what runs below RequestID has an id
  records     \* the log records

vars == <<at, request, header, answer, captured, identified, records>>

\* A read, a write, a probe, what neither the document nor the mux knows, and
\* a path that the mux does not take as it stands, whatever the document knows
\* of it.  The mux routes a HEAD like a GET, the document has none.
Kind == {"read", "write", "health", "unknown", "unclean"}

Requests ==
  {r \in [kind : Kind, head : BOOLEAN, id : BOOLEAN] : r.head => r.kind # "write"}

Init ==
  /\ at = "request_id"
  /\ request \in Requests
  /\ header = [id |-> FALSE, type |-> "none"]
  /\ answer = [status |-> 0, id |-> FALSE, type |-> "none", documents |-> 0]
  /\ captured = 0
  /\ identified = FALSE
  /\ records = << >>

-----------------------------------------------------------------------------
(* Writers and records. *)

GoTo(l) == at' = l

\* net/http: a second WriteHeader is ignored.
Sent(status, type) ==
  IF answer.status # 0 THEN answer
  ELSE [answer EXCEPT !.status = status, !.id = header.id, !.type = type]

\* Broken: the embedded writer's WriteHeader is called directly.
WriteHeaderUnseen(status, type) ==
  /\ answer' = Sent(status, type)
  /\ header' = [header EXCEPT !.type = type]
  /\ UNCHANGED captured
\* With the Content-Type set before it.
WriteHeader(status, type) ==
  /\ answer' = Sent(status, type)
  /\ header' = [header EXCEPT !.type = type]
  /\ captured' = status

Log(what, status, id) ==
  records' = Append(records, [what |-> what, status |-> status, id |-> id])

\* The encoder writes a document, or fails: the client is gone, or a 204 has
\* no body.  The body of the answer to a HEAD is dropped.
Encode(id) ==
  \/ /\ answer.status # 204
     /\ answer' = [answer EXCEPT !.documents =
                     IF request.head THEN 0 ELSE @ + 1]
     /\ UNCHANGED records
  \/ UNCHANGED answer /\ Log("encode", 0, id)

-----------------------------------------------------------------------------
(* Down. *)

\* Broken: next is called with the request as it came in.
RequestIDUnpassed ==
  /\ at = "request_id"
  /\ header' = [header EXCEPT !.id = TRUE]
  /\ GoTo("logger")
  /\ UNCHANGED <<request, answer, captured, identified, records>>
\* Broken: the header is set when next has returned, too late for the answer.
RequestIDTooLate ==
  /\ at = "request_id"
  /\ identified' = TRUE
  /\ GoTo("logger")
  /\ UNCHANGED <<request, header, answer, captured, records>>

RequestID ==
  /\ at = "request_id"
  /\ header' = [header EXCEPT !.id = TRUE]
  /\ identified' = TRUE
  /\ GoTo("logger")
  /\ UNCHANGED <<request, answer, captured, records>>

Logger ==
  /\ at = "logger"
  /\ captured' = 200
  /\ GoTo("validator")
  /\ UNCHANGED <<request, header, answer, identified, records>>

Refusable == request.kind # "unknown" /\ ~request.head

\* Broken: the return after the refusal is missing.
MiddlewareGoingOn ==
  /\ at = "validator"
  /\ \/ UNCHANGED <<header, answer, captured>>
     \/ /\ Refusable
        /\ answer' = [Sent(400, "jsonapi") EXCEPT !.documents = 1]
        /\ header' = [header EXCEPT !.type = "jsonapi"]
        /\ captured' = 400
  /\ GoTo("mux")
  /\ UNCHANGED <<request, identified, records>>

\* FindRoute knows no other errors than that path or method are unknown.
Middleware ==
  /\ at = "validator"
  /\ \/ GoTo("mux") /\ UNCHANGED <<header, answer, captured>>
     \/ Refusable /\ WriteHeader(400, "jsonapi") /\ GoTo("body")
  /\ UNCHANGED <<request, identified, records>>

\* The mux answers itself what it has no route for, sends an unclean path to
\* the clean one, with a page of HTML for a GET only, and refuses "*".
Mux ==
  /\ at = "mux"
  /\ \/ /\ request.kind = "unknown"
        /\ \E status \in {404, 405} : WriteHeader(status, "text")
        /\ GoTo("log")
     \/ /\ request.kind = "unclean"
        /\ \E status \in {301, 307, 400}, type \in {"html", "none"} :
             WriteHeader(status, type)
        /\ GoTo("log")
     \/ /\ request.kind \in {"read", "write", "health"}
        /\ GoTo("handler")
        /\ UNCHANGED <<header, answer, captured>>
  /\ UNCHANGED <<request, identified, records>>

-----------------------------------------------------------------------------
(* The handlers, by the statuses they may answer. *)

Statuses ==
  [read   |-> {200, 400, 404, 500},
   write  |-> {200, 201, 204, 400, 404, 409, 422, 500},
   health |-> {200, 503}]

ContentType(status) ==
  IF status = 204 THEN header.type
  ELSE IF request.kind = "health" THEN "json" ELSE "jsonapi"

Handle(status) ==
  /\ at = "handler"
  /\ status \in Statuses[request.kind]
  /\ WriteHeader(status, ContentType(status))
  /\ IF status = 500 THEN Log("internal", 0, identified) ELSE UNCHANGED records
  /\ GoTo(IF status = 204 THEN "log" ELSE "body")
  /\ UNCHANGED <<request, identified>>

WriteBody ==
  /\ at = "body"
  /\ Encode(identified)
  /\ GoTo("log")
  /\ UNCHANGED <<request, header, captured, identified>>

-----------------------------------------------------------------------------
(* And back. *)

LogRequest ==
  /\ at = "log"
  /\ Log("request", captured, identified)
  /\ GoTo("done")
  /\ UNCHANGED <<request, header, answer, captured, identified>>

\* Broken: the record is deferred, and written in the course of a panic as well.
PanicLogged ==
  /\ at \in {"validator", "handler", "body"}
  /\ Log("request", captured, identified)
  /\ GoTo("recover")
  /\ UNCHANGED <<request, header, answer, captured, identified>>

\* uuid.New panics without randomness, and whatever runs below may.
Panic ==
  /\ \/ at = "request_id" /\ ~request.id
     \/ at \in {"validator", "handler", "body", "log"}
  /\ GoTo("recover")
  /\ UNCHANGED <<request, header, answer, captured, identified, records>>

\* Recovery has the request as it was before RequestID, and the writer below
\* Logger's.  The record of a panic remembers here what had been answered.
Recover ==
  /\ at = "recover"
  /\ Log("panic", answer.status, FALSE)
  /\ header' = [header EXCEPT !.type = "jsonapi"]
  /\ answer' = Sent(500, "jsonapi")
  /\ GoTo("recover_body")
  /\ UNCHANGED <<request, captured, identified>>

RecoverBody ==
  /\ at = "recover_body"
  /\ Encode(FALSE)
  /\ GoTo("done")
  /\ UNCHANGED <<request, header, captured, identified>>

\* The request is answered.
Done == at = "done" /\ UNCHANGED vars

Next ==
  \/ RequestID \/ Logger \/ Middleware \/ Mux
  \/ \E status \in 200..599 : Handle(status)
  \/ WriteBody \/ LogRequest \/ Panic \/ Recover \/ RecoverBody \/ Done

Spec == Init /\ [][Next]_vars

-----------------------------------------------------------------------------
(* Properties. *)

Named(what) == {i \in DOMAIN records : records[i].what = what}

\* The access record tells the status the client has got, whoever has written
\* it and however often.
RecordTellsStatus ==
  \A i \in Named("request") : records[i].status = answer.status

\* Every request leaves an access record or the record of a panic, never both.
LeavesOneRecord ==
  at = "done" => Cardinality(Named("request") \cup Named("panic")) = 1

Bodiless == answer.status = 204 \/ answer.type \notin {"json", "jsonapi"}

\* A panic before the header is a 500 of JSON:API to the client, whichever
\* headers had been set, and whatever a handler, the validator or Recovery
\* answers is one document, unless its encoding has failed or the answer has no
\* body: a HEAD, a 204, what the mux answers itself.  Only a panic after the
\* header can leave an answer of another status, of another type or of two
\* documents.
PanicHidden ==
  at = "done" =>
    \/ \E i \in Named("panic") : records[i].status # 0
    \/ /\ answer.documents <= 1
       /\ answer.documents = 0 =>
            request.head \/ Bodiless \/ Named("encode") # {}
       /\ Bodiless =>
            answer.status = 204 \/ request.kind \in {"unknown", "unclean"}
       /\ Named("panic") # {} => answer.status = 500 /\ answer.type = "jsonapi"

\* Whoever gets an answer gets an id with it, unless there was none to be had,
\* and then nothing of the request has been handled.
AnswerHasId ==
  answer.status # 0 /\ ~answer.id =>
    /\ ~request.id
    /\ Named("request") \cup Named("internal") = {}
    /\ answer.status = 500

\* Every record carries the id of the request, whoever writes it; only Recovery,
\* which has the request as it came in, writes the panic and the failure to
\* answer it without.
RecordsNamed ==
  \A i \in DOMAIN records :
    ~records[i].id => \E j \in Named("panic") : j <= i
=============================================================================
