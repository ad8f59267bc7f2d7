------------------------------ MODULE PageWalk ------------------------------
(***************************************************************************)
(* One client reads the accounts of the user Viewed page by page, while    *)
(* other requests insert and delete accounts and users.  Every page is a   *)
(* separate statement with a snapshot of its own.                          *)
(*                                                                         *)
(* An INSERT draws its id from the sequence before it commits, so ids may  *)
(* become visible out of order and an aborted INSERT leaves a gap.  GET    *)
(* /users runs the same code without the user_id filter: it is the case of *)
(* a single owner.                                                         *)
(***************************************************************************)
EXTENDS Paging

CONSTANTS
  Owner,       \* the users that may own accounts
  Viewed,      \* the user whose accounts are listed
  MaxId,       \* bound: the ids the sequence may hand out
  OpenSizes,   \* the page[size] parameters a first request may carry
  OpenCursors  \* the cursor parameters a first request may carry

ASSUME WalkAssumption ==
  /\ Viewed \in Owner
  /\ MaxId \in Nat
  /\ OpenSizes \subseteq RawParam
  /\ OpenCursors \subseteq RawParam

VARIABLES
  alive,    \* the users that exist
  rows,     \* the accounts a new snapshot sees
  pending,  \* the accounts of INSERTs that have drawn an id and not ended
  last,     \* the last id the sequence handed out
  raw,      \* the query of the client's last request
  status,   \* its HTTP status, 0 before the first answer
  page      \* the page the client holds

\* History of the client's current run of requests in one direction.
VARIABLES
  dir,      \* "next", "prev", or "none" when the client holds no page
  seen,     \* ids the run has returned
  stable    \* ids that were there to be returned when the run began, and
            \* have been there ever since

table == <<alive, rows, pending, last>>
walk  == <<raw, status, page, dir, seen, stable>>
vars  == <<alive, rows, pending, last, raw, status, page, dir, seen, stable>>

Account == [id: 1..MaxId, user: Owner]
NoQuery == [size |-> Absent, after |-> Absent, before |-> Absent]

Init ==
  /\ alive = Owner
  /\ rows = {}
  /\ pending = {}
  /\ last = 0
  /\ raw = NoQuery
  /\ status = 0
  /\ page = NoPage
  /\ dir = "none"
  /\ seen = {}
  /\ stable = {}

-----------------------------------------------------------------------------
(* The accounts table. *)

\* INSERT INTO accounts: the id is drawn, nothing is visible yet.
BeginInsert(u) ==
  /\ last < MaxId
  /\ last' = last + 1
  /\ pending' = pending \cup {[id |-> last + 1, user |-> u]}
  /\ UNCHANGED <<alive, rows, walk>>

\* The INSERT commits: its foreign key finds the user.
CommitInsert(a) ==
  /\ a.user \in alive
  /\ rows' = rows \cup {a}
  /\ pending' = pending \ {a}
  /\ UNCHANGED <<alive, last, walk>>

\* The INSERT fails or its connection is lost: the id is never used.
AbortInsert(a) ==
  /\ pending' = pending \ {a}
  /\ UNCHANGED <<alive, rows, last, walk>>

Unstable(gone) == stable' = stable \ {a.id : a \in gone}

DeleteAccount(a) ==
  /\ rows' = rows \ {a}
  /\ Unstable({a})
  /\ UNCHANGED <<alive, pending, last, raw, status, page, dir, seen>>

\* DELETE FROM users, and its accounts with it.
DeleteUser(u) ==
  /\ u \in alive
  /\ alive' = alive \ {u}
  /\ LET owned == {a \in rows : a.user = u}
     IN  rows' = rows \ owned /\ Unstable(owned)
  /\ UNCHANGED <<pending, last, raw, status, page, dir, seen>>

-----------------------------------------------------------------------------
(* The listing client. *)

\* What WHERE user_id = $1 leaves of the table.
Listed == {a.id : a \in {b \in rows : b.user = Viewed}}

\* The handler, service and repository answer one request.
ListByUser(q) ==
  /\ raw' = q
  /\ IF Rejected(q)
     THEN status' = 400 /\ page' = NoPage
     ELSE status' = 200 /\ page' \in Pages(Listed, q)
  /\ UNCHANGED table

Direction(q) ==
  IF Rejected(q) THEN "none" ELSE IF q.before # Absent THEN "prev" ELSE "next"

StartRun ==
  /\ dir' = Direction(raw')
  /\ seen' = ItemIds(page')
  /\ stable' = IF Rejected(raw') THEN {}
               ELSE Selected(Listed, PageInput(raw'))

ContinueRun ==
  /\ UNCHANGED <<dir, stable>>
  /\ seen' = seen \cup ItemIds(page')

Open(q) == ListByUser(q) /\ StartRun

Link(d) == IF d = "next" THEN page.next ELSE page.prev

Follow(d) ==
  /\ Link(d) # NoCursor
  /\ ListByUser(paginationURL(raw, d, Link(d)))
  /\ IF dir = d THEN ContinueRun ELSE StartRun

OpenQueries == [size: OpenSizes, after: OpenCursors, before: OpenCursors]

TableNext ==
  \/ \E u \in Owner : BeginInsert(u) \/ DeleteUser(u)
  \/ \E a \in pending : CommitInsert(a) \/ AbortInsert(a)
  \/ \E a \in rows : DeleteAccount(a)

Serve ==
  \/ \E q \in OpenQueries : Open(q)
  \/ \E d \in {"next", "prev"} : Follow(d)

Next == TableNext \/ Serve

Spec == Init /\ [][Next]_vars

-----------------------------------------------------------------------------
(* Properties. *)

Ids == 1..MaxId

TypeOK ==
  /\ alive \subseteq Owner
  /\ last \in 0..MaxId
  /\ rows \subseteq Account
  /\ pending \subseteq Account
  /\ \A a \in rows \cup pending : a.id <= last
  /\ raw \in RawQuery
  /\ status \in {0, 200, 400}
  /\ page.items \in Seq(Ids)
  /\ page.next \in 0..MaxId
  /\ page.prev \in 0..MaxId
  /\ dir \in {"none", "next", "prev"}
  /\ seen \subseteq Ids
  /\ stable \subseteq Ids

\* A walk in one direction that has come to its end (no link onwards) has
\* returned every account that was there from its first request to its last,
\* whatever other requests inserted and deleted between the pages.
NothingSkipped ==
  /\ dir = "next" /\ page.next = NoCursor => stable \subseteq seen
  /\ dir = "prev" /\ page.prev = NoCursor => stable \subseteq seen

\* The inductive strengthening of NothingSkipped: what the run still has to
\* return lies beyond the onward link, and what it has returned does not.
Ahead(d, x) ==
  /\ Link(d) # NoCursor
  /\ IF d = "next" THEN x > page.next ELSE x < page.prev

LinkedAccepted ==
  page.next # NoCursor \/ page.prev # NoCursor => ~Rejected(raw)
StillListed == stable \subseteq Listed
Owed == dir # "none" => \A x \in stable : x \in seen \/ Ahead(dir, x)
Behind == dir # "none" => \A x \in seen : ~Ahead(dir, x)

WalkInv == TypeOK /\ LinkedAccepted /\ StillListed /\ Owed /\ Behind

\* No page of such a walk returns an account an earlier page has returned.
NoRepeats ==
  [][\A d \in {"next", "prev"} :
       Follow(d) /\ dir = d => ItemIds(page') \cap seen = {}]_vars

\* A link the service hands out is one it accepts: paginationURL leaves one
\* cursor in the query, and a page size that parsed once parses again.
LinksAccepted ==
  \A d \in {"next", "prev"} :
    Link(d) # NoCursor => ~Rejected(paginationURL(raw, d, Link(d)))

\* The link onwards in the direction of travel is absent exactly when the
\* snapshot of the page holds no further account on that side.
OnwardLinkExact ==
  [][Serve /\ status' = 200 =>
       LET rest == Selected(Listed, PageInput(raw')) \ ItemIds(page')
       IN  /\ dir' = "next" => (page'.next = NoCursor <=> rest = {})
           /\ dir' = "prev" => (page'.prev = NoCursor <=> rest = {})]_vars

\* A page is in ascending order and without holes: no account of the snapshot
\* lies between two of its items, or between the cursor and its nearest item.
PageIsWindow ==
  [][Serve /\ status' = 200 =>
       LET input == PageInput(raw')
           items == page'.items
           sel   == Selected(Listed, input)
       IN  /\ \A i, j \in DOMAIN items : i < j => items[i] < items[j]
           /\ ItemIds(page') \subseteq sel
           /\ \A x \in sel \ ItemIds(page'), y \in ItemIds(page') :
                IF input.before # NoCursor THEN x < y ELSE y < x]_vars

\* Turning round: when nothing changes meanwhile, the link onwards and then
\* the link back return to the items of the page the client started from.
RoundTrip ==
  status = 200 /\ page \in Pages(Listed, raw) =>
    \A d \in {"next", "prev"} :
      Link(d) # NoCursor =>
        LET there == paginationURL(raw, d, Link(d))
        IN  \A p \in Pages(Listed, there) :
              LET back == IF d = "next" THEN p.prev ELSE p.next
                  home == IF d = "next" THEN "prev" ELSE "next"
              IN  back # NoCursor =>
                    \A p2 \in Pages(Listed, paginationURL(there, home, back)) :
                      p2.items = page.items

-----------------------------------------------------------------------------
(* What the OpenAPI document says of the two links. *)

\* The ids of the snapshot after the page a request is answered with; an
\* empty page stands where its cursor is.
RowsAfter(p, input) ==
  {x \in Listed : IF p.items # <<>> THEN x > p.items[Len(p.items)]
                  ELSE IF input.before # NoCursor THEN x >= input.before
                  ELSE x > input.after}

RowsBefore(p, input) ==
  {x \in Listed : IF p.items # <<>> THEN x < p.items[1]
                  ELSE IF input.before # NoCursor THEN x < input.before
                  ELSE x <= input.after}

\* "URL of the next page, or null if this is the last page" and "URL of the
\* previous page, or null if this is the first page" (api/openapi.yaml:370, 374).
LinksNullAtTheEnds ==
  [][Serve /\ status' = 200 =>
       /\ page'.next = NoCursor <=> RowsAfter(page', PageInput(raw')) = {}
       /\ page'.prev = NoCursor <=> RowsBefore(page', PageInput(raw')) = {}]_vars
=============================================================================
