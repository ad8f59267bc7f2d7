------------------------ MODULE RequestPipelineProofs ------------------------
(***************************************************************************)
(* What a request leaves behind, for every path through the middlewares    *)
(* and wherever a panic cuts it short.  Nothing bounds the model: the      *)
(* records are a sequence of any length, a status is any number.           *)
(***************************************************************************)
EXTENDS RequestPipeline, FiniteSetTheorems, TLAPS

Early  == {"request_id", "logger", "validator", "mux", "handler"}
Type   == {"none", "text", "html", "json", "jsonapi"}
Answer == [status : Nat, id : BOOLEAN, type : Type, documents : Nat]
Record == [what : {"internal", "encode", "request", "panic"}, status : Nat,
           id : BOOLEAN]

\* The headers have the id when the context has it.
Typed ==
  /\ at \in Early \cup {"body", "log", "recover", "recover_body", "done"}
  /\ request \in Requests
  /\ identified \in BOOLEAN
  /\ header \in [id : {identified}, type : Type]
  /\ answer \in Answer
  /\ captured \in Nat
  /\ records \in Seq(Record)

-----------------------------------------------------------------------------
(* The invariant, by the parts of the way. *)

\* Nothing is written before the handler, or whoever refuses the request.
Begun == at \in Early => answer.status = 0 /\ records = << >>

\* What has been answered.
Answered ==
  /\ answer.status = 0 => answer.documents = 0
  /\ answer.status # 0 => answer.id = identified

\* Without an id nothing but the answer to a panic is left to do.
Unidentified ==
  ~identified =>
    /\ at \in {"request_id", "recover", "recover_body", "done"}
    /\ at = "recover" => records = << >> /\ answer.status = 0
    /\ at # "request_id" => ~request.id
    /\ at \in {"recover_body", "done"} => answer.status = 500
    /\ Named("request") \cup Named("internal") = {}

Aside(i) == records[i].what \in {"internal", "encode"}

\* Until its end a request is only mentioned by errors, and by its id.
Ongoing ==
  at \notin {"recover_body", "done"} =>
    \A i \in DOMAIN records : Aside(i) /\ records[i].id

\* One document, or a reason why there is none.
BodyTold ==
  /\ answer.documents <= 1
  /\ answer.documents = 0 => request.head \/ Bodiless \/ Named("encode") # {}
  /\ Bodiless => answer.status = 204 \/ request.kind \in {"unknown", "unclean"}

\* Logger has seen what was sent.
Captured ==
  /\ at \in {"body", "log"} => answer.status # 0 /\ captured = answer.status
  /\ at = "body" => answer.documents = 0 /\ ~Bodiless
  /\ at = "log" => BodyTold

\* The k-th record is the one that ends the request.
Ends(k, what) ==
  /\ records[k].what = what
  /\ \A i \in DOMAIN records \ {k} : Aside(i)
  /\ \A i \in DOMAIN records : i < k => records[i].id

ByRequest(k) ==
  /\ Ends(k, "request")
  /\ \A i \in DOMAIN records : records[i].id
  /\ records[k].status = answer.status
  /\ BodyTold

ByPanic(k) ==
  /\ Ends(k, "panic")
  /\ answer.status # 0
  /\ records[k].status = 0 =>
       /\ answer.status = 500 /\ answer.type = "jsonapi"
       /\ IF at = "done" THEN BodyTold ELSE answer.documents = 0

Ended ==
  /\ at = "recover_body" => \E k \in DOMAIN records : ByPanic(k)
  /\ at = "done" => \E k \in DOMAIN records : ByRequest(k) \/ ByPanic(k)

PipelineInv ==
  Typed /\ Begun /\ Answered /\ Unidentified /\ Ongoing /\ Captured /\ Ended

-----------------------------------------------------------------------------
(* What the writers do. *)

LEMMA HeaderFacts ==
  ASSUME Typed, NEW type \in Type
  PROVE  [header EXCEPT !.type = type] \in [id : {identified}, type : Type]
BY DEF Typed

LEMMA SentFacts ==
  ASSUME Typed, NEW status \in Nat, NEW type \in Type
  PROVE  LET a == Sent(status, type)
         IN  /\ a \in Answer
             /\ a.documents = answer.documents
             /\ answer.status # 0 => a = answer
             /\ answer.status = 0 =>
                  a.status = status /\ a.id = identified /\ a.type = type
BY DEF Typed, Answer, Sent

LEMMA LogFacts ==
  ASSUME Typed, NEW what \in {"internal", "encode", "request", "panic"},
         NEW status \in Nat, NEW id \in BOOLEAN, Log(what, status, id)
  PROVE  LET k == Len(records) + 1
         IN  /\ records' \in Seq(Record)
             /\ DOMAIN records' = (DOMAIN records) \cup {k}
             /\ k \in Nat /\ k \notin DOMAIN records
             /\ \A i \in DOMAIN records :
                  i < k /\ ~(k < i) /\ records'[i] = records[i]
             /\ records'[k].what = what /\ records'[k].status = status
             /\ records'[k].id = id
BY DEF Typed, Record, Log

\* The names found in the records before are found there still.
LEMMA NamedFacts ==
  ASSUME Typed, NEW what \in {"internal", "encode", "request", "panic"},
         NEW status \in Nat, NEW id \in BOOLEAN, Log(what, status, id),
         NEW w
  PROVE  /\ Named(w) \subseteq Named(w)'
         /\ w # what => Named(w)' = Named(w)
         /\ w = what => Named(w)' # {}
BY LogFacts DEF Named

\* A document comes on top, or the record of its failure.
LEMMA EncodeFacts ==
  ASSUME Typed, NEW id \in BOOLEAN, Encode(id)
  PROVE  /\ answer' \in Answer
         /\ answer'.status = answer.status /\ answer'.id = answer.id
         /\ answer'.type = answer.type
         /\ \/ /\ answer.status # 204 /\ UNCHANGED records
               /\ answer'.documents =
                    IF request.head THEN 0 ELSE answer.documents + 1
            \/ UNCHANGED answer /\ Log("encode", 0, id)
BY DEF Typed, Answer, Encode

-----------------------------------------------------------------------------
(* Every step keeps the invariant. *)

LEMMA InitInv == Init => PipelineInv
<1> SUFFICES ASSUME Init PROVE PipelineInv
  OBVIOUS
<1>1. Typed
  <2>1. records \in Seq(Record)
    BY DEF Init
  <2>2. header \in [id : {identified}, type : Type] /\ answer \in Answer
    BY DEF Init, Type, Answer
  <2> QED BY <2>1, <2>2 DEF Init, Typed, Early
<1> QED BY <1>1 DEF Init, PipelineInv, Begun, Answered, Unidentified, Ongoing, Captured,
                    Ended, Early, Named

\* Down to the handler.
LEMMA RequestIDKeeps == PipelineInv /\ RequestID => PipelineInv'
<1> SUFFICES ASSUME PipelineInv, RequestID PROVE PipelineInv'
  OBVIOUS
<1>1. Typed'
  BY DEF PipelineInv, RequestID, GoTo, Typed, Early
<1>2. /\ at = "request_id" /\ at' = "logger" /\ identified'
      /\ UNCHANGED <<request, answer, captured, records>>
      /\ answer.status = 0 /\ records = << >> /\ answer.documents = 0
  BY DEF PipelineInv, RequestID, GoTo, Begun, Answered, Early
<1> QED BY <1>1, <1>2 DEF PipelineInv, Begun, Answered, Unidentified, Ongoing,
                    Aside, Captured, Ended, Early, Named

LEMMA LoggerKeeps == PipelineInv /\ Logger => PipelineInv'
<1> SUFFICES ASSUME PipelineInv, Logger PROVE PipelineInv'
  OBVIOUS
<1>1. Typed'
  BY DEF PipelineInv, Logger, GoTo, Typed, Early
<1> QED BY <1>1 DEF PipelineInv, Logger, GoTo, Begun, Answered, Unidentified,
                    Ongoing, Captured, Ended, Early, Named

\* Whoever writes the header first has it sent as it stands, and Logger sees it.
LEMMA WriteHeaderFacts ==
  ASSUME PipelineInv, at \in Early \ {"request_id"}, NEW status \in Nat \ {0},
         NEW type \in Type, WriteHeader(status, type)
  PROVE  /\ header' \in [id : {identified}, type : Type]
         /\ answer' \in Answer
         /\ answer'.status = status /\ answer'.id = identified
         /\ answer'.type = type /\ answer'.documents = 0
         /\ captured' = status /\ identified = TRUE /\ records = << >>
BY HeaderFacts, SentFacts
   DEF PipelineInv, WriteHeader, Begun, Answered, Unidentified, Early, Typed

\* Once there is an answer, its body is to come, or it has none.
LEMMA AnswerKeeps ==
  ASSUME PipelineInv, at \in Early \ {"request_id"}, NEW status \in Nat \ {0},
         NEW type \in Type, WriteHeader(status, type),
         \/ at' = "body" /\ status # 204 /\ type \in {"json", "jsonapi"}
         \/ at' = "log" /\ status = 204
         \/ /\ at' = "log" /\ type \notin {"json", "jsonapi"}
            /\ request.kind \in {"unknown", "unclean"},
         UNCHANGED <<request, identified>>,
         UNCHANGED records \/ Log("internal", 0, identified)
  PROVE  PipelineInv'
<1>1. /\ header' \in [id : {identified}, type : Type]
      /\ answer' \in Answer
      /\ answer'.status = status /\ answer'.id = identified
      /\ answer'.type = type /\ answer'.documents = 0
      /\ captured' = status /\ identified = TRUE /\ records = << >>
  BY WriteHeaderFacts
<1>2. /\ records' \in Seq(Record)
      /\ \A i \in DOMAIN records' : Aside(i)' /\ records'[i].id
  <2>1. CASE UNCHANGED records
    BY <1>1, <2>1
  <2>2. CASE Log("internal", 0, TRUE)
    <3>1. Typed /\ DOMAIN records = {}
      BY <1>1 DEF PipelineInv
    <3>2. /\ records' \in Seq(Record)
          /\ DOMAIN records' = {Len(records) + 1}
          /\ records'[Len(records) + 1].what = "internal"
          /\ records'[Len(records) + 1].id = TRUE
      BY <2>2, <3>1, LogFacts
    <3> QED BY <3>2 DEF Aside
  <2> QED BY <1>1, <2>1, <2>2
<1>3. Typed'
  BY <1>1, <1>2 DEF PipelineInv, Typed, Early
<1>4. Ongoing'
  BY <1>1, <1>2 DEF PipelineInv, Ongoing
<1>5. Captured'
  BY <1>1 DEF Captured, BodyTold, Bodiless
<1> QED BY <1>1, <1>3, <1>4, <1>5
        DEF PipelineInv, Begun, Answered, Unidentified, Ended, Early

LEMMA MiddlewareKeeps == PipelineInv /\ Middleware => PipelineInv'
<1> SUFFICES ASSUME PipelineInv, Middleware PROVE PipelineInv'
  OBVIOUS
<1>1. CASE at' = "mux" /\ UNCHANGED <<header, answer, captured>>
  <2>1. Typed'
    BY <1>1 DEF PipelineInv, Middleware, Typed, Early
  <2> QED BY <1>1, <2>1 DEF PipelineInv, Middleware, Begun, Answered,
                            Unidentified, Ongoing, Captured, Ended, Early, Named
<1>2. CASE WriteHeader(400, "jsonapi") /\ at' = "body"
  <2>1. at \in Early \ {"request_id"} /\ "jsonapi" \in Type
    BY DEF Middleware, Early, Type
  <2> QED BY <1>2, <2>1, AnswerKeeps DEF Middleware
<1> QED BY <1>1, <1>2 DEF Middleware, GoTo

LEMMA MuxKeeps == PipelineInv /\ Mux => PipelineInv'
<1> SUFFICES ASSUME PipelineInv, Mux PROVE PipelineInv'
  OBVIOUS
<1>1. CASE at' = "handler" /\ UNCHANGED <<header, answer, captured>>
  <2>1. Typed'
    BY <1>1 DEF PipelineInv, Mux, Typed, Early
  <2> QED BY <1>1, <2>1 DEF PipelineInv, Mux, Begun, Answered, Unidentified,
                            Ongoing, Captured, Ended, Early, Named
<1>2. ASSUME NEW status \in {301, 307, 400, 404, 405},
             NEW type \in {"text", "html", "none"}, WriteHeader(status, type),
             request.kind \in {"unknown", "unclean"}, at' = "log"
      PROVE  PipelineInv'
  <2>1. /\ at \in Early \ {"request_id"}
        /\ type \in Type \ {"json", "jsonapi"} /\ status \in Nat \ {0}
    BY DEF Mux, Early, Type
  <2> QED BY <1>2, <2>1, AnswerKeeps DEF Mux
<1> QED BY <1>1, <1>2 DEF Mux, GoTo

LEMMA HandleKeeps ==
  ASSUME PipelineInv, NEW status \in 200..599, Handle(status)
  PROVE  PipelineInv'
<1>1. at \in Early \ {"request_id"} /\ status \in Nat \ {0}
  BY DEF Handle, Early
<1>2. /\ ContentType(status) \in Type
      /\ status # 204 => ContentType(status) \in {"json", "jsonapi"}
  BY DEF PipelineInv, Typed, ContentType, Type
<1>3. WriteHeader(status, ContentType(status))
  BY DEF Handle
<1> QED BY <1>1, <1>2, <1>3, AnswerKeeps DEF Handle, GoTo

LEMMA WriteBodyKeeps == PipelineInv /\ WriteBody => PipelineInv'
<1> SUFFICES ASSUME PipelineInv, WriteBody PROVE PipelineInv'
  OBVIOUS
<1>1. /\ Typed /\ at = "body" /\ at' = "log" /\ identified = TRUE
      /\ answer.documents = 0 /\ answer.status # 0 /\ captured = answer.status
      /\ ~Bodiless
      /\ UNCHANGED <<request, header, captured, identified>>
      /\ Encode(TRUE)
  BY DEF PipelineInv, WriteBody, GoTo, Captured, Unidentified, Typed
<1>2. /\ answer'.status = answer.status /\ answer'.id = answer.id
      /\ ~Bodiless'
  BY <1>1, EncodeFacts DEF Bodiless
<1>3. CASE /\ answer.status # 204 /\ UNCHANGED records
            /\ answer'.documents = IF request.head THEN 0 ELSE 1
  <2>1. Typed'
    BY <1>1, <1>3, EncodeFacts DEF Typed, Early
  <2>2. BodyTold'
    BY <1>1, <1>2, <1>3 DEF BodyTold
  <2>3. Ongoing'
    BY <1>1, <1>3 DEF PipelineInv, Ongoing, Aside
  <2> QED BY <1>1, <1>2, <1>3, <2>1, <2>2, <2>3
          DEF PipelineInv, Begun, Answered, Unidentified, Captured, Ended, Early
<1>4. CASE UNCHANGED answer /\ Log("encode", 0, TRUE)
  <2>0. Typed /\ Log("encode", 0, TRUE)
    BY <1>1, <1>4
  <2>1. /\ records' \in Seq(Record)
        /\ \A i \in DOMAIN records' : Aside(i)' /\ records'[i].id
    <3>1. \A i \in DOMAIN records : Aside(i) /\ records[i].id
      BY <1>1 DEF PipelineInv, Ongoing
    <3>2. LET k == Len(records) + 1
          IN  /\ records' \in Seq(Record)
              /\ DOMAIN records' = (DOMAIN records) \cup {k}
              /\ \A i \in DOMAIN records : records'[i] = records[i]
              /\ records'[k].what = "encode" /\ records'[k].id = TRUE
      BY <2>0, LogFacts
    <3> QED BY <3>1, <3>2 DEF Aside
  <2>2. Named("encode")' # {}
    BY <2>0, NamedFacts
  <2>3. Typed' /\ Ongoing'
    BY <1>1, <1>4, <2>1 DEF Typed, Early, Ongoing
  <2>4. BodyTold'
    BY <1>1, <1>2, <1>4, <2>2 DEF BodyTold
  <2> QED BY <1>1, <1>4, <2>3, <2>4
          DEF PipelineInv, Begun, Answered, Unidentified, Captured, Ended, Early
<1>5. Typed /\ Encode(TRUE)
  BY <1>1
<1>6. \/ /\ answer.status # 204 /\ UNCHANGED records
         /\ answer'.documents =
              IF request.head THEN 0 ELSE answer.documents + 1
      \/ UNCHANGED answer /\ Log("encode", 0, TRUE)
  BY <1>5, EncodeFacts
<1>7. answer.documents + 1 = 1
  BY <1>1
<1> QED BY <1>1, <1>3, <1>4, <1>6, <1>7

\* Back to the end.
LEMMA LogRequestKeeps == PipelineInv /\ LogRequest => PipelineInv'
<1> SUFFICES ASSUME PipelineInv, LogRequest PROVE PipelineInv'
  OBVIOUS
<1>1. /\ Typed /\ at = "log" /\ at' = "done" /\ identified = TRUE
      /\ captured = answer.status /\ answer.status # 0 /\ BodyTold
      /\ \A i \in DOMAIN records : Aside(i) /\ records[i].id
      /\ UNCHANGED <<request, header, answer, captured, identified>>
  BY DEF PipelineInv, LogRequest, GoTo, Captured, Unidentified, Ongoing, Typed
<1>2. Log("request", captured, identified) /\ captured \in Nat
  BY <1>1 DEF LogRequest, Typed
<1>3. PICK k :
        /\ records' \in Seq(Record)
        /\ DOMAIN records' = (DOMAIN records) \cup {k}
        /\ \A i \in DOMAIN records : i < k /\ records'[i] = records[i]
        /\ k \notin DOMAIN records
        /\ records'[k].what = "request" /\ records'[k].status = captured
        /\ records'[k].id = identified
  BY <1>1, <1>2, LogFacts
<1>4. Named("encode") # {} => Named("encode")' # {}
  BY <1>1, <1>2, NamedFacts
<1>5. Typed'
  BY <1>1, <1>3 DEF Typed, Early
<1>6. BodyTold'
  BY <1>1, <1>4 DEF BodyTold, Bodiless
<1>7. ByRequest(k)'
  BY <1>1, <1>3, <1>6 DEF ByRequest, Ends, Aside
<1> QED BY <1>1, <1>3, <1>5, <1>7
        DEF PipelineInv, Begun, Answered, Unidentified, Ongoing, Captured, Ended,
            Early

\* A panic leaves the answer and the records as they are.
LEMMA PanicKeeps == PipelineInv /\ Panic => PipelineInv'
<1> SUFFICES ASSUME PipelineInv, Panic PROVE PipelineInv'
  OBVIOUS
<1>1. Typed'
  BY DEF PipelineInv, Panic, GoTo, Typed
<1> QED BY <1>1 DEF PipelineInv, Panic, GoTo, Begun, Answered, Unidentified,
                    Ongoing, Aside, Captured, Ended, Early, Named

LEMMA RecoverKeeps == PipelineInv /\ Recover => PipelineInv'
<1> SUFFICES ASSUME PipelineInv, Recover PROVE PipelineInv'
  OBVIOUS
<1>1. /\ Typed /\ at = "recover" /\ at' = "recover_body"
      /\ \A i \in DOMAIN records : Aside(i) /\ records[i].id
      /\ answer.status \in Nat
      /\ UNCHANGED <<request, captured, identified>>
  BY DEF PipelineInv, Recover, GoTo, Ongoing, Typed, Answer
<1>2. Log("panic", answer.status, FALSE)
  BY DEF Recover
<1>3. PICK k :
        /\ records' \in Seq(Record)
        /\ DOMAIN records' = (DOMAIN records) \cup {k}
        /\ \A i \in DOMAIN records : i < k /\ records'[i] = records[i]
        /\ k \in Nat /\ k \notin DOMAIN records
        /\ records'[k].what = "panic" /\ records'[k].status = answer.status
  BY <1>1, <1>2, LogFacts
<1>4. "jsonapi" \in Type
  BY DEF Type
<1>5. /\ answer' \in Answer
      /\ answer'.documents = answer.documents
      /\ answer.status # 0 => answer' = answer
      /\ answer.status = 0 =>
           answer'.status = 500 /\ answer'.id = identified
           /\ answer'.type = "jsonapi"
  BY <1>1, <1>4, SentFacts DEF Recover
<1>6. header' \in [id : {identified}, type : Type]
  BY <1>1, <1>4, HeaderFacts DEF Recover
<1>7. Typed'
  BY <1>1, <1>3, <1>5, <1>6 DEF Typed
<1>8. ByPanic(k)'
  <2>1. Ends(k, "panic")'
    BY <1>1, <1>3 DEF Ends, Aside
  <2> QED BY <1>1, <1>3, <1>5, <2>1 DEF PipelineInv, Answered, ByPanic
<1>9. Unidentified'
  <2>1. ~identified => records = << >> /\ answer.status = 0 /\ ~request.id
    BY <1>1 DEF PipelineInv, Unidentified
  <2>2. ~identified => DOMAIN records' = {k}
    BY <1>3, <2>1
  <2> QED BY <1>1, <1>3, <1>5, <2>1, <2>2 DEF Unidentified, Named
<1>10. Answered'
  BY <1>1, <1>5 DEF PipelineInv, Answered
<1> QED BY <1>1, <1>3, <1>7, <1>8, <1>9, <1>10
        DEF PipelineInv, Begun, Ongoing, Captured, Ended, Early

LEMMA RecoverBodyKeeps == PipelineInv /\ RecoverBody => PipelineInv'
<1> SUFFICES ASSUME PipelineInv, RecoverBody PROVE PipelineInv'
  OBVIOUS
<1>1. /\ Typed /\ at = "recover_body" /\ at' = "done"
      /\ UNCHANGED <<request, header, captured, identified>>
  BY DEF PipelineInv, RecoverBody, GoTo
<1>2. PICK k \in DOMAIN records : ByPanic(k)
  BY <1>1 DEF PipelineInv, Ended
<1>3. Encode(FALSE)
  BY DEF RecoverBody
<1>4. /\ answer' \in Answer
      /\ answer'.status = answer.status /\ answer'.id = answer.id
      /\ answer'.type = answer.type
      /\ \/ /\ answer.status # 204 /\ UNCHANGED records
            /\ answer'.documents =
                 IF request.head THEN 0 ELSE answer.documents + 1
         \/ UNCHANGED answer /\ Log("encode", 0, FALSE)
  BY <1>1, <1>3, EncodeFacts
<1>5. Answered' /\ Begun' /\ Ongoing' /\ Captured'
  <2>1. answer.status # 0
    BY <1>2 DEF ByPanic
  <2> QED BY <1>1, <1>4, <2>1
          DEF PipelineInv, Answered, Begun, Ongoing, Captured, Early
<1>6. CASE /\ answer.status # 204 /\ UNCHANGED records
            /\ answer'.documents =
                 IF request.head THEN 0 ELSE answer.documents + 1
  <2>1. Typed' /\ Unidentified'
    BY <1>1, <1>4, <1>6 DEF PipelineInv, Typed, Unidentified, Named
  <2>2. ByPanic(k)'
    <3>1. answer.documents = 0 /\ ~Bodiless' => BodyTold'
      BY <1>1, <1>6 DEF BodyTold
    <3>2. Ends(k, "panic")'
      BY <1>2, <1>6 DEF ByPanic, Ends, Aside
    <3> QED BY <1>1, <1>2, <1>4, <1>6, <3>1, <3>2 DEF ByPanic, Bodiless
  <2> QED BY <1>1, <1>2, <1>5, <1>6, <2>1, <2>2 DEF PipelineInv, Ended
<1>7. CASE UNCHANGED answer /\ Log("encode", 0, FALSE)
  <2>0. Typed /\ Log("encode", 0, FALSE)
    BY <1>1, <1>7
  <2>1. PICK l :
          /\ records' \in Seq(Record)
          /\ DOMAIN records' = (DOMAIN records) \cup {l}
          /\ \A i \in DOMAIN records :
               i < l /\ ~(l < i) /\ records'[i] = records[i]
          /\ l \notin DOMAIN records
          /\ records'[l].what = "encode"
    BY <2>0, LogFacts
  <2>2. /\ Named("encode")' # {}
        /\ Named("request")' = Named("request")
        /\ Named("internal")' = Named("internal")
    BY <2>0, NamedFacts
  <2>3. Typed' /\ Unidentified'
    BY <1>1, <1>7, <2>1, <2>2 DEF PipelineInv, Typed, Unidentified
  <2>4. ByPanic(k)'
    <3>1. Ends(k, "panic")'
      BY <1>2, <2>1 DEF ByPanic, Ends, Aside
    <3>2. answer.documents = 0 /\ ~Bodiless' => BodyTold'
      BY <1>7, <2>2 DEF BodyTold
    <3> QED BY <1>1, <1>2, <1>4, <1>7, <2>1, <3>1, <3>2 DEF ByPanic, Bodiless
  <2> QED BY <1>1, <1>2, <1>5, <2>1, <2>3, <2>4 DEF PipelineInv, Ended
<1> QED BY <1>4, <1>6, <1>7

LEMMA NextInv == PipelineInv /\ [Next]_vars => PipelineInv'
<1> SUFFICES ASSUME PipelineInv, [Next]_vars PROVE PipelineInv'
  OBVIOUS
<1>1. CASE UNCHANGED vars
  BY <1>1 DEF vars, PipelineInv, Typed, Begun, Answered, Unidentified, Ongoing,
              Aside, Captured, BodyTold, Bodiless, Ended, ByRequest, ByPanic, Ends, Named
<1>2. CASE Done
  BY <1>1, <1>2 DEF Done
<1> QED BY <1>1, <1>2, RequestIDKeeps, LoggerKeeps, MiddlewareKeeps, MuxKeeps,
           HandleKeeps, WriteBodyKeeps, LogRequestKeeps, PanicKeeps,
           RecoverKeeps, RecoverBodyKeeps
        DEF Next

\* PipelineInv is the inductive invariant of a request.
THEOREM PipelineInvariant == Spec => []PipelineInv
BY InitInv, NextInv, PTL DEF Spec

-----------------------------------------------------------------------------
(* What it says of records and answers. *)

\* Where the record that ends a request is, when there is one.
LEMMA EndFacts ==
  ASSUME PipelineInv
  PROVE  /\ at \notin {"recover_body", "done"} =>
              Named("request") = {} /\ Named("panic") = {}
         /\ at \in {"recover_body", "done"} =>
              \E k \in DOMAIN records :
                \/ ByRequest(k) /\ Named("request") = {k} /\ Named("panic") = {}
                \/ ByPanic(k) /\ Named("panic") = {k} /\ Named("request") = {}
<1>1. CASE at \notin {"recover_body", "done"}
  BY <1>1 DEF PipelineInv, Ongoing, Aside, Named
<1>2. CASE at \in {"recover_body", "done"}
  <2>1. PICK k \in DOMAIN records : ByRequest(k) \/ ByPanic(k)
    BY <1>2 DEF PipelineInv, Ended
  <2>2. ASSUME NEW w \in {"request", "panic"}, Ends(k, w)
        PROVE  \A v \in {"request", "panic"} :
                 Named(v) = IF v = w THEN {k} ELSE {}
    BY <2>1, <2>2 DEF Ends, Aside, Named
  <2>3. ByRequest(k) => Named("request") = {k} /\ Named("panic") = {}
    BY <2>2 DEF ByRequest
  <2>4. ByPanic(k) => Named("panic") = {k} /\ Named("request") = {}
    BY <2>2 DEF ByPanic
  <2> QED BY <1>2, <2>1, <2>3, <2>4
<1> QED BY <1>1, <1>2

\* The access record has the status that was sent, whoever sent it.
THEOREM RecordsTellStatus == Spec => []RecordTellsStatus
<1>1. PipelineInv => RecordTellsStatus
  BY EndFacts DEF RecordTellsStatus, ByRequest
<1> QED BY <1>1, PipelineInvariant, PTL

\* An answered request has left one record of its own, on every path.
THEOREM OneRecordLeft == Spec => []LeavesOneRecord
<1>1. PipelineInv => LeavesOneRecord
  <2> SUFFICES ASSUME PipelineInv, at = "done"
               PROVE  Cardinality(Named("request") \cup Named("panic")) = 1
    BY DEF LeavesOneRecord
  <2>1. PICK k : Named("request") \cup Named("panic") = {k}
    BY EndFacts
  <2> QED BY <2>1, FS_Singleton
<1> QED BY <1>1, PipelineInvariant, PTL

\* A panic before the header is one 500 document of JSON:API, and nothing but a
\* HEAD, a 204, the mux or a failing encoder leaves an answer without one.
THEOREM PanicsHidden == Spec => []PanicHidden
<1>1. PipelineInv => PanicHidden
  <2> SUFFICES ASSUME PipelineInv, at = "done" PROVE PanicHidden
    BY DEF PanicHidden
  <2>1. PICK k \in DOMAIN records :
          \/ ByRequest(k) /\ Named("panic") = {}
          \/ ByPanic(k) /\ Named("panic") = {k}
    BY EndFacts
  <2>2. CASE ByRequest(k) /\ Named("panic") = {}
    BY <2>2 DEF PanicHidden, ByRequest, BodyTold
  <2>3. CASE ByPanic(k) /\ Named("panic") = {k}
    BY <2>3 DEF PanicHidden, ByPanic, BodyTold, Bodiless
  <2> QED BY <2>1, <2>2, <2>3
<1> QED BY <1>1, PipelineInvariant, PTL

\* An answer without an id is the 500 of a request that was never begun.
THEOREM AnswersHaveId == Spec => []AnswerHasId
<1>1. PipelineInv => AnswerHasId
  BY DEF PipelineInv, Begun, Answered, Unidentified, Early, AnswerHasId
<1> QED BY <1>1, PipelineInvariant, PTL

\* A record without an id is that of a panic, or comes after it.
THEOREM RecordsAreNamed == Spec => []RecordsNamed
<1>1. PipelineInv => RecordsNamed
  <2> SUFFICES ASSUME PipelineInv, NEW i \in DOMAIN records, ~records[i].id
               PROVE  \E j \in Named("panic") : j <= i
    BY DEF RecordsNamed
  <2>1. at \in {"recover_body", "done"}
    BY DEF PipelineInv, Ongoing
  <2>2. PICK k \in DOMAIN records : ByPanic(k) /\ Named("panic") = {k}
    BY <2>1, EndFacts DEF ByRequest
  <2>3. ~(i < k) /\ i \in Nat /\ k \in Nat
    BY <2>2 DEF ByPanic, Ends, PipelineInv, Typed
  <2> QED BY <2>2, <2>3
<1> QED BY <1>1, PipelineInvariant, PTL
=============================================================================
