--------------------------- MODULE PoolQueueProofs ---------------------------
(***************************************************************************)
(* Who has a connection and who waits for one, for any number of requests  *)
(* and connections.                                                        *)
(***************************************************************************)
EXTENDS PoolQueue, FiniteSetTheorems, SequenceTheorems, TLAPS

\* The elements of a sequence, and the sequences without repetitions.
Members(s) == {s[i] : i \in DOMAIN s}
Line == {s \in Seq(Request) : \A i, j \in DOMAIN s : s[i] = s[j] => i = j}

Holding == {"connecting", "running", "reading"}
Phase   == {"idle", "waiting", "connecting", "running", "reading", "answering"}
Span    == {"none", "open", "ended"}

\* The two properties, and what they rest on: nobody waits twice, and holders
\* can be counted.
PoolInv ==
  /\ phase \in [Request -> Phase] /\ class \in [Request -> Class]
  /\ span \in [Request -> Span]
  /\ holders = {r \in Request : phase[r] \in Holding}
  /\ Members(queue) = {r \in Request : phase[r] = "waiting"}
  /\ \A r \in Request : span[r] = "open" => phase[r] \in {"running", "reading"}
  /\ queue \in Line /\ IsFiniteSet(holders)
  /\ Cardinality(holders) <= MaxConns
  /\ queue # << >> => Cardinality(holders) = MaxConns

-----------------------------------------------------------------------------
(* The queue. *)

\* Who was not in the line can be put at its end.
LEMMA AppendFacts ==
  ASSUME NEW s \in Line, NEW r \in Request, r \notin Members(s)
  PROVE  /\ Append(s, r) \in Line
         /\ Members(Append(s, r)) = Members(s) \cup {r}
<1> DEFINE t == Append(s, r)
           n == Len(s) + 1
<1>1. s \in Seq(Request) /\ \A i, j \in DOMAIN s : s[i] = s[j] => i = j
  BY DEF Line
<1>2. /\ t \in Seq(Request) /\ DOMAIN t = DOMAIN s \cup {n} /\ n \notin DOMAIN s
      /\ \A i \in DOMAIN s : t[i] = s[i]
      /\ t[n] = r
  BY <1>1
<1> HIDE DEF t, n
<1>3. \A i \in DOMAIN s : t[i] # r
  BY <1>2 DEF Members
<1>4. t \in Line
  BY <1>1, <1>2, <1>3 DEF Line
<1>5. Members(t) = Members(s) \cup {r}
  BY <1>2 DEF Members
<1> QED BY <1>4, <1>5 DEF t

\* The first leaves the line.
LEMMA TailFacts ==
  ASSUME NEW s \in Line, s # << >>
  PROVE  /\ Tail(s) \in Line
         /\ Head(s) \in Members(s)
         /\ Members(Tail(s)) = Members(s) \ {Head(s)}
<1> DEFINE t == Tail(s)
<1>1. s \in Seq(Request) /\ \A i, j \in DOMAIN s : s[i] = s[j] => i = j
  BY DEF Line
<1>2. /\ 1 \in DOMAIN s /\ Head(s) = s[1]
      /\ t \in Seq(Request)
      /\ \A i \in DOMAIN t : i + 1 \in DOMAIN s \ {1} /\ t[i] = s[i + 1]
      /\ \A i \in DOMAIN s \ {1} : i - 1 \in DOMAIN t /\ t[i - 1] = s[i]
      /\ DOMAIN t \subseteq Nat /\ DOMAIN s \subseteq Nat
  BY <1>1
<1> HIDE DEF t
<1>3. t \in Line
  <2> SUFFICES ASSUME NEW i \in DOMAIN t, NEW j \in DOMAIN t, t[i] = t[j]
               PROVE  i = j
    BY <1>2 DEF Line
  <2>1. i + 1 = j + 1
    BY <1>1, <1>2
  <2> QED BY <1>2, <2>1
<1>4. \A x \in Members(t) : x \in Members(s) \ {Head(s)}
  <2> SUFFICES ASSUME NEW i \in DOMAIN t PROVE t[i] \in Members(s) \ {Head(s)}
    BY DEF Members
  <2>1. i + 1 \in DOMAIN s /\ i + 1 # 1 /\ t[i] = s[i + 1]
    BY <1>2
  <2> QED BY <1>1, <1>2, <2>1 DEF Members
<1>5. \A x \in Members(s) \ {Head(s)} : x \in Members(t)
  <2> SUFFICES ASSUME NEW i \in DOMAIN s, s[i] # Head(s) PROVE s[i] \in Members(t)
    BY DEF Members
  <2>1. i \in DOMAIN s \ {1}
    BY <1>2
  <2> QED BY <1>2, <2>1 DEF Members
<1>6. Head(s) \in Members(s)
  BY <1>2 DEF Members
<1> QED BY <1>3, <1>4, <1>5, <1>6 DEF t

\* One leaves it from wherever it stands.
LEMMA RemoveAtFacts ==
  ASSUME NEW s \in Line, NEW k \in DOMAIN s
  PROVE  /\ RemoveAt(s, k) \in Line
         /\ Members(RemoveAt(s, k)) = Members(s) \ {s[k]}
<1> DEFINE t == RemoveAt(s, k)
<1>1. s \in Seq(Request) /\ \A i, j \in DOMAIN s : s[i] = s[j] => i = j
  BY DEF Line
<1>2. k \in 1..Len(s) /\ Len(s) \in Nat
  BY <1>1
<1> DEFINE a == SubSeq(s, 1, k - 1)
           b == SubSeq(s, k + 1, Len(s))
<1>3. /\ a \in Seq(Request) /\ Len(a) = k - 1
      /\ \A i \in 1..(k - 1) : a[i] = s[i]
  BY <1>1, <1>2
<1>4. b \in Seq(Request) /\ Len(b) = Len(s) - k
  BY <1>1, <1>2
<1>5. \A i \in 1..(Len(s) - k) : b[i] = s[i + k]
  BY <1>1, <1>2
<1>6. t = a \o b
  BY DEF RemoveAt
<1> HIDE DEF a, b, t
<1>7. /\ t \in Seq(Request) /\ Len(t) = Len(s) - 1
      /\ \A i \in 1..Len(t) : t[i] = IF i < k THEN a[i] ELSE b[(i - k) + 1]
  BY <1>2, <1>3, <1>4, <1>6, ConcatProperties, SMTT(20)
\* Where the i-th of what is left has been.
<1> DEFINE from(i) == IF i < k THEN i ELSE i + 1
<1>8. \A i \in DOMAIN t : from(i) \in DOMAIN s \ {k} /\ t[i] = s[from(i)]
  <2> SUFFICES ASSUME NEW i \in 1..Len(t)
               PROVE  from(i) \in DOMAIN s \ {k} /\ t[i] = s[from(i)]
    BY <1>7
  <2>1. from(i) \in DOMAIN s \ {k}
    BY <1>1, <1>2, <1>7, SMTT(20)
  <2>2. CASE i < k
    <3>1. a[i] = s[i]
      BY <1>2, <1>3, <2>2
    <3> QED BY <1>7, <2>1, <2>2, <3>1
  <2>3. CASE ~(i < k)
    <3>1. (i - k) + 1 \in 1..(Len(s) - k) /\ ((i - k) + 1) + k = i + 1
      BY <1>2, <1>7, <2>3
    <3>2. b[(i - k) + 1] = s[i + 1]
      BY <1>5, <3>1
    <3> QED BY <1>7, <2>1, <2>3, <3>2
  <2> QED BY <2>2, <2>3
<1>9. \A j \in DOMAIN s \ {k} : \E i \in DOMAIN t : from(i) = j
  <2> SUFFICES ASSUME NEW j \in 1..Len(s), j # k
               PROVE  \E i \in 1..Len(t) : from(i) = j
    BY <1>1, <1>7
  <2>1. CASE j < k
    BY <1>2, <1>7, <2>1
  <2>2. CASE j > k
    <3>1. j - 1 \in 1..Len(t) /\ ~(j - 1 < k) /\ (j - 1) + 1 = j
      BY <1>2, <1>7, <2>2
    <3> QED BY <3>1
  <2> QED BY <1>2, <2>1, <2>2
<1>10. \A i, j \in DOMAIN t : from(i) = from(j) => i = j
  BY <1>2, <1>7
<1> HIDE DEF from
<1>11. t \in Line
  BY <1>1, <1>7, <1>8, <1>10 DEF Line
<1>12. Members(t) = Members(s) \ {s[k]}
  <2>1. \A x \in Members(t) : x \in Members(s) \ {s[k]}
    BY <1>1, <1>8 DEF Members
  <2>2. \A x \in Members(s) \ {s[k]} : x \in Members(t)
    BY <1>8, <1>9 DEF Members
  <2> QED BY <2>1, <2>2
<1> QED BY <1>11, <1>12 DEF t

-----------------------------------------------------------------------------
(* Every step keeps the invariant. *)

LEMMA InitInv == Init => PoolInv
<1> SUFFICES ASSUME Init PROVE PoolInv
  OBVIOUS
<1>1. queue \in Line /\ Members(queue) = {}
  BY DEF Init, Line, Members
<1>2. IsFiniteSet(holders) /\ Cardinality(holders) <= MaxConns
  BY FS_EmptySet, MaxConnsAssumption DEF Init
<1> QED BY <1>1, <1>2 DEF PoolInv, Init, Phase, Class, Span, Holding

\* A step that takes nobody into the line or out of it, and no connection.
LEMMA MoveKeeps ==
  ASSUME PoolInv, NEW r \in Request, NEW p \in Phase \ {"waiting"},
         phase[r] # "waiting", phase[r] \in Holding <=> p \in Holding,
         phase' = [phase EXCEPT ![r] = p], UNCHANGED <<queue, holders>>,
         class' \in [Request -> Class], span' \in [Request -> Span],
         \A s \in Request : span'[s] = "open" =>
           IF s = r THEN p \in {"running", "reading"} ELSE span[s] = "open"
  PROVE  PoolInv'
<1>1. phase \in [Request -> Phase]
  BY DEF PoolInv
<1>2. /\ phase' \in [Request -> Phase] /\ phase'[r] = p
      /\ \A s \in Request \ {r} : phase'[s] = phase[s]
  BY <1>1
<1>3. holders' = {s \in Request : phase'[s] \in Holding}
  BY <1>2 DEF PoolInv
<1>4. Members(queue') = {s \in Request : phase'[s] = "waiting"}
  BY <1>2 DEF PoolInv
<1>5. \A s \in Request : span'[s] = "open" => phase'[s] \in {"running", "reading"}
  BY <1>2 DEF PoolInv
<1> QED BY <1>2, <1>3, <1>4, <1>5 DEF PoolInv, Members

\* Who comes has a connection that is free, or stands in line.
LEMMA AcquireKeeps ==
  ASSUME PoolInv, NEW r \in Request, phase[r] = "idle", Acquire(r),
         class' \in [Request -> Class], span' = [span EXCEPT ![r] = "none"]
  PROVE  PoolInv'
<1>1. /\ phase \in [Request -> Phase] /\ span \in [Request -> Span]
      /\ queue \in Line /\ IsFiniteSet(holders)
      /\ r \notin holders /\ r \notin Members(queue)
  BY DEF PoolInv, Holding
<1>2. /\ span' \in [Request -> Span] /\ span'[r] = "none"
      /\ \A s \in Request \ {r} : span'[s] = span[s]
  BY <1>1 DEF Span
<1>3. CASE queue = << >> /\ Cardinality(holders) < MaxConns
  <2>1. /\ holders' = holders \cup {r} /\ queue' = queue
        /\ phase' = [phase EXCEPT ![r] = "connecting"]
    BY <1>3 DEF Acquire
  <2>2. /\ phase' \in [Request -> Phase] /\ phase'[r] = "connecting"
        /\ \A s \in Request \ {r} : phase'[s] = phase[s]
    BY <1>1, <2>1 DEF Phase
  <2>3. IsFiniteSet(holders') /\ Cardinality(holders') = Cardinality(holders) + 1
    BY <1>1, <2>1, FS_AddElement
  <2>4. Cardinality(holders') <= MaxConns
    BY <1>1, <1>3, <2>3, FS_CardinalityType, MaxConnsAssumption
  <2>5. holders' = {s \in Request : phase'[s] \in Holding}
    BY <2>1, <2>2 DEF PoolInv, Holding
  <2>6. Members(queue') = {s \in Request : phase'[s] = "waiting"}
    BY <2>1, <2>2, <1>1 DEF PoolInv
  <2>7. \A s \in Request : span'[s] = "open" => phase'[s] \in {"running", "reading"}
    BY <1>2, <2>2 DEF PoolInv
  <2> QED BY <1>1, <1>2, <1>3, <2>1, <2>2, <2>3, <2>4, <2>5, <2>6, <2>7
          DEF PoolInv, Members
<1>4. CASE ~(queue = << >> /\ Cardinality(holders) < MaxConns)
  <2>1. /\ queue' = Append(queue, r) /\ holders' = holders
        /\ phase' = [phase EXCEPT ![r] = "waiting"]
    BY <1>4 DEF Acquire
  <2>2. /\ phase' \in [Request -> Phase] /\ phase'[r] = "waiting"
        /\ \A s \in Request \ {r} : phase'[s] = phase[s]
    BY <1>1, <2>1 DEF Phase
  <2>3. queue' \in Line /\ Members(queue') = Members(queue) \cup {r}
    BY <1>1, <2>1, AppendFacts
  <2>4. Cardinality(holders) = MaxConns
    BY <1>1, <1>4, FS_CardinalityType, MaxConnsAssumption DEF PoolInv
  <2>5. holders' = {s \in Request : phase'[s] \in Holding}
    BY <1>1, <2>1, <2>2 DEF PoolInv, Holding
  <2>6. Members(queue') = {s \in Request : phase'[s] = "waiting"}
    BY <2>2, <2>3 DEF PoolInv
  <2>7. \A s \in Request : span'[s] = "open" => phase'[s] \in {"running", "reading"}
    BY <1>2, <2>2 DEF PoolInv
  <2>8. IsFiniteSet(holders') /\ Cardinality(holders') = MaxConns
    BY <1>1, <2>1, <2>4
  <2>9. Cardinality(holders') <= MaxConns
    BY <2>8, MaxConnsAssumption
  <2> QED BY <1>2, <2>2, <2>3, <2>5, <2>6, <2>7, <2>8, <2>9 DEF PoolInv, Members
<1> QED BY <1>3, <1>4

\* Who is done leaves its connection to the first who waits, or to the pool.
LEMMA ReleaseKeeps ==
  ASSUME PoolInv, NEW r \in Request, r \in holders, Release(r),
         class' \in [Request -> Class], span' \in [Request -> Span],
         \A s \in Request : span'[s] = "open" => s # r /\ span[s] = "open"
  PROVE  PoolInv'
<1>1. /\ phase \in [Request -> Phase] /\ queue \in Line /\ IsFiniteSet(holders)
      /\ r \notin Members(queue)
  BY DEF PoolInv, Holding
<1>2. /\ IsFiniteSet(holders \ {r})
      /\ Cardinality(holders \ {r}) = Cardinality(holders) - 1
      /\ Cardinality(holders) \in Nat
  BY <1>1, FS_RemoveElement, FS_CardinalityType
<1>3. CASE queue = << >>
  <2>1. /\ holders' = holders \ {r} /\ queue' = queue
        /\ phase' = [phase EXCEPT ![r] = "answering"]
    BY <1>3 DEF Release
  <2>2. /\ phase' \in [Request -> Phase] /\ phase'[r] = "answering"
        /\ \A s \in Request \ {r} : phase'[s] = phase[s]
    BY <1>1, <2>1 DEF Phase
  <2>3. holders' = {s \in Request : phase'[s] \in Holding}
    BY <2>1, <2>2 DEF PoolInv, Holding
  <2>4. Members(queue') = {s \in Request : phase'[s] = "waiting"}
    BY <1>1, <2>1, <2>2 DEF PoolInv
  <2>5. \A s \in Request : span'[s] = "open" => phase'[s] \in {"running", "reading"}
    BY <2>2 DEF PoolInv
  <2>6. IsFiniteSet(holders') /\ Cardinality(holders') <= MaxConns
    BY <1>2, <2>1, MaxConnsAssumption DEF PoolInv
  <2> QED BY <1>1, <1>3, <2>1, <2>2, <2>3, <2>4, <2>5, <2>6 DEF PoolInv, Members
<1>4. CASE queue # << >>
  <2>1. PICK h : h = Head(queue)
    OBVIOUS
  <2>2. /\ Tail(queue) \in Line /\ h \in Members(queue)
        /\ Members(Tail(queue)) = Members(queue) \ {h}
    BY <1>1, <1>4, <2>1, TailFacts
  <2>3. h \in Request /\ h # r /\ h \notin holders
    BY <1>1, <2>2 DEF PoolInv, Holding
  <2>4. /\ holders' = (holders \ {r}) \cup {h} /\ queue' = Tail(queue)
        /\ phase' = [phase EXCEPT ![r] = "answering", ![h] = "connecting"]
    BY <1>4, <2>1 DEF Release
  <2>5. /\ phase' \in [Request -> Phase]
        /\ phase'[r] = "answering" /\ phase'[h] = "connecting"
        /\ \A s \in Request \ {r, h} : phase'[s] = phase[s]
    BY <1>1, <2>3, <2>4 DEF Phase
  <2>6. holders' = {s \in Request : phase'[s] \in Holding}
    BY <2>3, <2>4, <2>5 DEF PoolInv, Holding
  <2>7. Members(queue') = {s \in Request : phase'[s] = "waiting"}
    BY <1>1, <2>2, <2>3, <2>4, <2>5 DEF PoolInv
  <2>8. \A s \in Request : span'[s] = "open" => phase'[s] \in {"running", "reading"}
    BY <2>2, <2>5 DEF PoolInv
  <2>9. IsFiniteSet(holders') /\ Cardinality(holders') = Cardinality(holders)
    <3>1. h \notin holders \ {r}
      BY <2>3
    <3>2. /\ IsFiniteSet(holders')
          /\ Cardinality(holders') = Cardinality(holders \ {r}) + 1
      BY <1>2, <2>4, <3>1, FS_AddElement
    <3> QED BY <1>2, <3>2
  <2>10. Cardinality(holders') = MaxConns /\ Cardinality(holders') <= MaxConns
    BY <1>4, <2>9, MaxConnsAssumption DEF PoolInv
  <2>11. queue' \in Line
    BY <2>2, <2>4
  <2> QED BY <2>5, <2>6, <2>7, <2>8, <2>9, <2>10, <2>11 DEF PoolInv, Members
<1> QED BY <1>3, <1>4

\* Who gives up leaves the line as it was without it.
LEMMA GiveUpKeeps ==
  ASSUME PoolInv, NEW r \in Request, GiveUp(r)
  PROVE  PoolInv'
<1>1. /\ phase \in [Request -> Phase] /\ phase[r] = "waiting" /\ queue \in Line
      /\ phase' = [phase EXCEPT ![r] = "answering"]
      /\ UNCHANGED <<class, holders, span>>
  BY DEF PoolInv, GiveUp
<1>2. PICK i \in DOMAIN queue : queue[i] = r /\ queue' = RemoveAt(queue, i)
  BY DEF GiveUp
<1>3. queue' \in Line /\ Members(queue') = Members(queue) \ {r} /\ queue # << >>
  BY <1>1, <1>2, RemoveAtFacts
<1>4. /\ phase' \in [Request -> Phase] /\ phase'[r] = "answering"
      /\ \A s \in Request \ {r} : phase'[s] = phase[s]
  BY <1>1 DEF Phase
<1>5. holders' = {s \in Request : phase'[s] \in Holding}
  BY <1>1, <1>4 DEF PoolInv, Holding
<1>6. Members(queue') = {s \in Request : phase'[s] = "waiting"}
  BY <1>3, <1>4 DEF PoolInv
<1>7. \A s \in Request : span'[s] = "open" => phase'[s] \in {"running", "reading"}
  BY <1>1, <1>4 DEF PoolInv
<1> QED BY <1>1, <1>3, <1>4, <1>5, <1>6, <1>7 DEF PoolInv, Members

\* The requests, by what they ask for and how far they have come.
LEMMA BeginKeeps ==
  ASSUME PoolInv, NEW r \in Request, Live(r) \/ Ready(r) \/ Row(r) \/ List(r)
  PROVE  PoolInv'
<1>1. PICK c \in Class : Begin(r, c)
  BY DEF Live, Ready, Row, List, Call, Class
<1>2. phase[r] = "idle" /\ class' \in [Request -> Class]
      /\ span' = [span EXCEPT ![r] = "none"]
  BY <1>1 DEF Begin, PoolInv
<1>3. CASE Live(r)
  <2>1. /\ span' \in [Request -> Span]
        /\ \A s \in Request : span'[s] = "open" => s # r /\ span[s] = "open"
    BY <1>2 DEF PoolInv, Span
  <2>2. "answering" \in Phase \ {"waiting"} /\ "answering" \notin Holding
        /\ phase[r] \notin Holding
    BY <1>2 DEF Phase, Holding
  <2> QED BY <1>2, <1>3, <2>1, <2>2, MoveKeeps DEF Live
<1>4. CASE Acquire(r)
  BY <1>2, <1>4, AcquireKeeps
<1> QED BY <1>3, <1>4 DEF Ready, Row, List, Call

LEMMA StatementKeeps ==
  ASSUME PoolInv, NEW r \in Request, Statement(r)
  PROVE  PoolInv'
<1>1. /\ phase \in [Request -> Phase] /\ class \in [Request -> Class]
      /\ span \in [Request -> Span]
      /\ holders = {s \in Request : phase[s] \in Holding}
      /\ \A s \in Request : span[s] = "open" => phase[s] \in {"running", "reading"}
  BY DEF PoolInv
<1>2. class' = class
  BY DEF Statement, Connect, Answered, ListOpened, ReadRows
<1>3. CASE /\ phase[r] = "connecting" /\ phase' = [phase EXCEPT ![r] = "running"]
            /\ span' = [span EXCEPT ![r] = IF class[r] = "ready" THEN "none"
                                                                 ELSE "open"]
            /\ UNCHANGED <<queue, holders>>
  <2>1. /\ span' \in [Request -> Span]
        /\ \A s \in Request \ {r} : span'[s] = span[s]
    BY <1>1, <1>3 DEF Span
  <2>2. "running" \in Phase \ {"waiting"} /\ "running" \in Holding
        /\ phase[r] \in Holding
    BY <1>3 DEF Phase, Holding
  <2> QED BY <1>1, <1>2, <1>3, <2>1, <2>2, MoveKeeps
<1>4. CASE phase[r] = "connecting" /\ Release(r) /\ span' = span
  <2>1. r \in holders /\ span[r] # "open"
    BY <1>1, <1>4 DEF Holding
  <2> QED BY <1>1, <1>2, <1>4, <2>1, ReleaseKeeps
<1>5. CASE Answered(r) \/ ReadRows(r)
  <2>1. Release(r) /\ EndSpan(r) /\ phase[r] \in {"running", "reading"}
    BY <1>5 DEF Answered, ReadRows
  <2>2. r \in holders
    BY <1>1, <2>1 DEF Holding
  <2>3. /\ span' \in [Request -> Span]
        /\ \A s \in Request : span'[s] = "open" => s # r /\ span[s] = "open"
    BY <1>1, <2>1 DEF EndSpan, Span
  <2> QED BY <1>1, <1>2, <2>1, <2>2, <2>3, ReleaseKeeps
<1>6. CASE ListOpened(r)
  <2>1. /\ phase[r] = "running" /\ phase' = [phase EXCEPT ![r] = "reading"]
        /\ UNCHANGED <<queue, holders>> /\ span' = span
    BY <1>6 DEF ListOpened
  <2>2. "reading" \in Phase \ {"waiting"} /\ "reading" \in Holding
        /\ phase[r] \in Holding
    BY <2>1 DEF Phase, Holding
  <2> QED BY <1>1, <1>2, <2>1, <2>2, MoveKeeps
<1> QED BY <1>3, <1>4, <1>5, <1>6 DEF Statement, Connect

LEMMA RespondKeeps ==
  ASSUME PoolInv, NEW r \in Request, Respond(r)
  PROVE  PoolInv'
<1>1. /\ phase[r] = "answering" /\ phase' = [phase EXCEPT ![r] = "idle"]
      /\ UNCHANGED <<class, queue, holders, span>>
      /\ class \in [Request -> Class] /\ span \in [Request -> Span]
      /\ span[r] # "open"
  BY DEF PoolInv, Respond
<1>2. "idle" \in Phase \ {"waiting"} /\ "idle" \notin Holding
      /\ phase[r] \notin Holding
  BY <1>1 DEF Phase, Holding
<1> QED BY <1>1, <1>2, MoveKeeps

LEMMA NextInv == PoolInv /\ [Next]_vars => PoolInv'
<1>1. PoolInv /\ UNCHANGED vars => PoolInv'
  BY DEF vars, PoolInv, Members
<1> QED BY <1>1, BeginKeeps, GiveUpKeeps, StatementKeeps, RespondKeeps DEF Next

\* PoolInv is the inductive invariant of the pool.
THEOREM PoolInvariant == Spec => []PoolInv
BY InitInv, NextInv, PTL DEF Spec

\* Nobody waits while a connection is free, and no more are taken than there
\* are, for any number of requests.
THEOREM NobodyWaits == Spec => []NobodyWaitsIdle
<1>1. PoolInv => NobodyWaitsIdle
  BY DEF PoolInv, NobodyWaitsIdle
<1> QED BY <1>1, PoolInvariant, PTL

\* Whoever waits, answers or is gone holds neither a connection nor a span.
THEOREM NothingHeld == Spec => []HoldsNothing
<1>1. PoolInv => HoldsNothing
  BY DEF PoolInv, HoldsNothing, TypeOK, Members, Holding, Phase, Span
<1> QED BY <1>1, PoolInvariant, PTL
=============================================================================
