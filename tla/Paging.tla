------------------------------- MODULE Paging -------------------------------
(***************************************************************************)
(* Keyset pagination of GET /users and GET /users/{userID}/accounts: the   *)
(* query-string checks of the handlers, the page-size clamp of the domain  *)
(* services, the SQL of the two repositories and the page and links they   *)
(* derive from the rows it returns.  A row is its BIGSERIAL id; its        *)
(* columns play no part in paging.                                         *)
(*                                                                         *)
(* A raw query gives the parameters as the request carries them: a number  *)
(* where the text parses, Malformed where it does not, Absent where the    *)
(* parameter is missing.  A cursor parameter is the number its base64 JSON *)
(* payload holds.                                                          *)
(***************************************************************************)
EXTENDS Integers, SequencesExt

CONSTANTS
  PageSizeDefault,  \* the page size of a request that names none
  PageSizeMax,      \* the largest page the domain services ask for
  SpecPageSizeMax,  \* the largest page[size] the OpenAPI document admits
  Absent,           \* a query parameter that is missing
  Malformed         \* a query parameter whose text does not decode

ASSUME PageSizeAssumption ==
  /\ PageSizeDefault \in Nat \ {0}
  /\ PageSizeMax \in Nat
  /\ PageSizeMax >= PageSizeDefault
  /\ SpecPageSizeMax \in Nat

ASSUME RawAssumption ==
  /\ Absent \notin Int
  /\ Malformed \notin Int
  /\ Absent # Malformed

\* The nil *PageCursor.  decodeCursor never yields 0, and BIGSERIAL starts at 1.
NoCursor == 0

RawParam == Int \cup {Absent, Malformed}
RawQuery == [size: RawParam, after: RawParam, before: RawParam]

(***************************************************************************)
(* What a request has to get through before the repository is called.      *)
(***************************************************************************)

\* The validator middleware, for the page[size] schema of the document.
SpecRejects(raw) ==
  /\ raw.size # Absent
  /\ raw.size = Malformed \/ raw.size < 1 \/ raw.size > SpecPageSizeMax

\* A payload without a positive id is refused.
decodes(param) == param # Malformed /\ param > 0

parsePageRejects(raw) ==
  \/ raw.size # Absent /\ (raw.size = Malformed \/ raw.size < 1)
  \/ raw.after # Absent /\ raw.before # Absent
  \/ raw.after # Absent /\ ~decodes(raw.after)
  \/ raw.before # Absent /\ ~decodes(raw.before)

Rejected(raw) == SpecRejects(raw) \/ parsePageRejects(raw)

clamp(n) ==
  IF n <= 0 THEN PageSizeDefault
  ELSE IF n > PageSizeMax THEN PageSizeMax ELSE n

\* The domain.PageInput the repository receives.
PageInput(raw) ==
  [size   |-> clamp(IF raw.size = Absent THEN PageSizeDefault ELSE raw.size),
   after  |-> IF raw.after = Absent THEN NoCursor ELSE raw.after,
   before |-> IF raw.before = Absent THEN NoCursor ELSE raw.before]

(***************************************************************************)
(* The repository.  S is the set of ids the statement's snapshot holds:    *)
(* every user, or every account of the user in the path.                   *)
(***************************************************************************)

\* Broken: the WHERE clause takes in the cursor's own row.
SelectedInclusive(S, input) ==
  IF input.before # NoCursor THEN {i \in S : i <= input.before}
  ELSE IF input.after # NoCursor THEN {i \in S : i >= input.after}
  ELSE S

\* The WHERE clause on id; before is looked at first.
Selected(S, input) ==
  IF input.before # NoCursor THEN {i \in S : i < input.before}
  ELSE IF input.after # NoCursor THEN {i \in S : i > input.after}
  ELSE S

\* Broken: the query of page[before] lacks its DESC.
PrecedesAscending(input, i, j) == i < j

\* ORDER BY id, with DESC for page[before].
Precedes(input, i, j) == IF input.before # NoCursor THEN i > j ELSE i < j

\* ORDER BY id [DESC] LIMIT size + 1, as the set of results it allows: a
\* sorted sequence of selected ids that leaves out only ids sorting after all
\* of it, and leaves out none when it is shorter than the limit.
Fetched(S, input) ==
  LET limit == input.size + 1
      sel   == Selected(S, input)
  IN  {r \in UNION {[1..n -> sel] : n \in 0..limit} :
         /\ \A i, j \in DOMAIN r : i < j => Precedes(input, r[i], r[j])
         /\ \A x \in sel :
              \/ \E i \in DOMAIN r : r[i] = x
              \/ /\ Len(r) = limit
                 /\ \A i \in DOMAIN r : Precedes(input, r[i], x)}

\* The empty page.
NoPage == [items |-> <<>>, next |-> NoCursor, prev |-> NoCursor]

\* Broken: a full page is taken for one with rows behind it.
HasMoreWhenFull(fetched, input) == Len(fetched) >= input.size

\* The over-fetched row came.
HasMore(fetched, input) == Len(fetched) > input.size

\* The rows left when it is trimmed off.
Kept(fetched, input) ==
  IF HasMore(fetched, input) THEN SubSeq(fetched, 1, input.size) ELSE fetched

\* Broken: a page fetched backwards stays as it came.
AsFetched(kept, input) == kept

\* A page fetched backwards is put in ascending order.
Ascending(kept, input) ==
  IF input.before # NoCursor THEN Reverse(kept) ELSE kept

FirstId(items) == IF items = <<>> THEN NoCursor ELSE items[1]

\* Broken: the cursor is one past the last row.
PastLastId(items) == IF items = <<>> THEN NoCursor ELSE items[Len(items)] + 1

LastId(items) == IF items = <<>> THEN NoCursor ELSE items[Len(items)]

\* The link onwards is there when the over-fetched row came; the link back,
\* where nothing is fetched, when there was a cursor and the page has a row.
paginate(fetched, input) ==
  LET items == Ascending(Kept(fetched, input), input)
      more  == HasMore(fetched, input)
      back  == input.before # NoCursor
  IN  [items |-> items,
       next  |-> IF back \/ more THEN LastId(items) ELSE NoCursor,
       prev  |-> IF (back /\ more) \/ (~back /\ input.after # NoCursor)
                 THEN FirstId(items) ELSE NoCursor]

\* The pages List and ListByUserID may answer with.
Pages(S, raw) ==
  LET input == PageInput(raw) IN {paginate(r, input) : r \in Fetched(S, input)}

\* Broken: the cursor of the other direction stays in the query.
paginationURLKeeping(raw, dir, cursor) ==
  IF dir = "next" THEN [raw EXCEPT !.after = cursor]
  ELSE [raw EXCEPT !.before = cursor]

\* The query of a link: both cursors go, the one for the direction comes back.
paginationURL(raw, dir, cursor) ==
  [raw EXCEPT !.after  = IF dir = "next" THEN cursor ELSE Absent,
              !.before = IF dir = "prev" THEN cursor ELSE Absent]

ItemIds(p) == {p.items[i] : i \in DOMAIN p.items}
=============================================================================
