--------------------------- MODULE PageWalkProofs ---------------------------
(***************************************************************************)
(* What holds of a listing for every page size, every number of rows and   *)
(* every interleaving with inserts and deletes.                            *)
(***************************************************************************)
EXTENDS PageWalk, FiniteSetTheorems, FunctionTheorems, TLAPS

USE DEF NoCursor

-----------------------------------------------------------------------------
(* Sequences in ascending order, which is how every page holds its ids. *)

IsAscending(s) == \A i, j \in 1..Len(s) : i < j => s[i] < s[j]

\* The first n items.
Upto(s, n) == {s[i] : i \in 1..n}

\* The first n items of such a sequence are n different ones.
LEMMA Counted ==
  ASSUME NEW s \in Seq(Nat), IsAscending(s), NEW n \in 0..Len(s)
  PROVE  IsFiniteSet(Upto(s, n)) /\ Cardinality(Upto(s, n)) = n
<1> DEFINE f == [i \in 1..n |-> s[i]]
<1>1. n \in Nat /\ \A i \in 1..n : i \in 1..Len(s) /\ s[i] \in Nat
  OBVIOUS
<1>2. \A i, j \in 1..n : f[i] = f[j] => i = j
  <2>1. TAKE i, j \in 1..n
  <2>2. i < j \/ j < i \/ i = j
    BY <1>1
  <2>3. i < j => s[i] < s[j]
    BY <1>1 DEF IsAscending
  <2>4. j < i => s[j] < s[i]
    BY <1>1 DEF IsAscending
  <2> QED BY <1>1, <2>2, <2>3, <2>4
<1>3. f \in [1..n -> Upto(s, n)] /\ \A x \in Upto(s, n) : \E i \in 1..n : f[i] = x
  BY DEF Upto
<1>4. f \in Bijection(1..n, Upto(s, n))
  BY <1>2, <1>3, Fun_IsBij
<1>5. ExistsBijection(1..n, Upto(s, n))
  BY <1>4, Fun_ExistsBij
<1>6. IsFiniteSet(1..n)
  BY <1>1, FS_Interval
<1> QED
  BY <1>1, <1>5, <1>6, FS_Bijection, FS_CountingElements

\* One of two such sequences with the same items cannot be behind the other.
LEMMA NotBehind ==
  ASSUME NEW a \in Seq(Nat), NEW b \in Seq(Nat),
         IsAscending(a), IsAscending(b), Upto(a, Len(a)) = Upto(b, Len(b)),
         NEW i \in 1..Len(a), i <= Len(b)
  PROVE  ~(a[i] < b[i])
<1> SUFFICES ASSUME a[i] < b[i] PROVE FALSE
  OBVIOUS
<1>1. /\ Len(a) \in Nat /\ Len(b) \in Nat /\ i \in Nat
      /\ i \in 0..Len(a) /\ i - 1 \in 0..Len(b) /\ i \in 1..Len(b)
  OBVIOUS
<1>2. Upto(a, i) \subseteq Upto(b, i - 1)
  <2> SUFFICES ASSUME NEW k \in 1..i PROVE a[k] \in Upto(b, i - 1)
    BY DEF Upto
  <2>1. k \in 1..Len(a) /\ (k = i \/ k < i)
    BY <1>1
  <2>2. a[k] < b[i] /\ a[k] \in Nat
    <3>1. a[k] \in Nat /\ a[i] \in Nat
      BY <2>1, SMTT(20)
    <3>2. b[i] \in Nat
      BY <1>1
    <3>3. k = i \/ a[k] < a[i]
      BY <2>1 DEF IsAscending
    <3> QED BY <3>1, <3>2, <3>3
  <2>3. PICK m \in 1..Len(b) : a[k] = b[m]
    BY <2>1, ZenonT(30) DEF Upto
  <2>4. ~(i <= m)
    <3>1. i < m => b[i] < b[m]
      BY <1>1 DEF IsAscending
    <3> QED BY <1>1, <2>2, <2>3, <3>1
  <2>5. m \in 1..(i - 1)
    BY <1>1, <2>4
  <2> QED BY <2>3, <2>5 DEF Upto
<1>3. Cardinality(Upto(a, i)) = i
  BY <1>1, Counted
<1>4. IsFiniteSet(Upto(b, i - 1)) /\ Cardinality(Upto(b, i - 1)) = i - 1
  BY <1>1, Counted
<1>5. Cardinality(Upto(a, i)) <= Cardinality(Upto(b, i - 1))
  BY <1>2, <1>4, FS_Subset
<1> QED BY <1>1, <1>3, <1>4, <1>5

\* The items determine the sequence.
LEMMA SameSequence ==
  ASSUME NEW a \in Seq(Nat), NEW b \in Seq(Nat),
         IsAscending(a), IsAscending(b), Upto(a, Len(a)) = Upto(b, Len(b))
  PROVE  a = b
<1>1. Len(a) \in Nat /\ Len(a) \in 0..Len(a) /\ Len(b) \in Nat /\ Len(b) \in 0..Len(b)
  OBVIOUS
<1>2. Cardinality(Upto(a, Len(a))) = Len(a)
  BY <1>1, Counted
<1>3. Cardinality(Upto(b, Len(b))) = Len(b)
  BY <1>1, Counted
<1>4. Len(a) = Len(b)
  BY <1>2, <1>3
<1>5. ASSUME NEW i \in 1..Len(a) PROVE a[i] = b[i]
  <2>1. i \in 1..Len(b) /\ i <= Len(a) /\ i <= Len(b)
    BY <1>1, <1>4
  <2>2. ~(a[i] < b[i])
    BY <2>1, NotBehind
  <2>3. ~(b[i] < a[i])
    BY <2>1, NotBehind
  <2>4. a[i] \in Nat /\ b[i] \in Nat
    BY <2>1
  <2> QED BY <2>2, <2>3, <2>4
<1> QED BY <1>4, <1>5

-----------------------------------------------------------------------------
(* One page, from the rows of one snapshot. *)

\* The query parameters as the services and repositories receive them.
InputType == [size: Nat \ {0}, after: Nat, before: Nat]

\* A query that the checks of the handler let through gives a positive page
\* size, and a cursor for each cursor parameter it carries.
LEMMA InputFacts ==
  ASSUME NEW q \in RawQuery, ~Rejected(q)
  PROVE  /\ PageInput(q) \in InputType
         /\ PageInput(q).before # NoCursor <=> q.before # Absent
         /\ PageInput(q).after # NoCursor <=> q.after # Absent
<1>1. q.size \in RawParam /\ q.after \in RawParam /\ q.before \in RawParam
  BY DEF RawQuery
<1>2. q.size = Absent \/ q.size \in Nat \ {0}
  BY <1>1, RawAssumption DEF Rejected, SpecRejects, RawParam
<1>3. q.after = Absent \/ q.after \in Nat \ {0}
  BY <1>1, RawAssumption DEF Rejected, parsePageRejects, decodes, RawParam
<1>4. q.before = Absent \/ q.before \in Nat \ {0}
  BY <1>1, RawAssumption DEF Rejected, parsePageRejects, decodes, RawParam
<1>5. PageInput(q).size \in Nat \ {0}
  BY <1>2, RawAssumption, PageSizeAssumption DEF PageInput, clamp
<1> QED
  BY <1>3, <1>4, <1>5, RawAssumption DEF PageInput, InputType

\* The rows of a statement: distinct, sorted the way of travel, and lacking
\* only rows that sort behind all of them, if they fill the limit.
LEMMA FetchedFacts ==
  ASSUME NEW S, NEW input \in InputType, NEW r \in Fetched(S, input)
  PROVE  /\ r \in Seq(Selected(S, input))
         /\ Len(r) <= input.size + 1
         /\ \A i, j \in 1..Len(r) : i < j => Precedes(input, r[i], r[j])
         /\ \A x \in Selected(S, input) :
              \/ \E i \in 1..Len(r) : r[i] = x
              \/ /\ Len(r) = input.size + 1
                 /\ \A i \in 1..Len(r) : Precedes(input, r[i], x)
<1> DEFINE sel == Selected(S, input)
<1>1. PICK n \in 0..(input.size + 1) : r \in [1..n -> sel]
  BY DEF Fetched
<1>2. n \in Nat /\ n <= input.size + 1
  BY DEF InputType
<1>3. r \in Seq(sel) /\ Len(r) = n /\ DOMAIN r = 1..n
  BY <1>1, <1>2
<1> QED
  BY <1>2, <1>3 DEF Fetched

\* What a page says of the snapshot it was taken from, travelling with
\* page[before] or without it: it holds the rows next to the cursor, a full
\* page of them where it leaves any out, and its link onwards leads to just
\* those it left out.
PageSound(S, input, p) ==
  LET sel  == Selected(S, input)
      ids  == ItemIds(p)
      back == input.before # NoCursor
      link == IF back THEN p.prev ELSE p.next
  IN  /\ p.items \in Seq(sel)
      /\ Len(p.items) <= input.size
      /\ p.next \in {NoCursor} \cup ids
      /\ p.prev \in {NoCursor} \cup ids
      /\ \A i, j \in 1..Len(p.items) : i < j => p.items[i] < p.items[j]
      /\ \A x \in sel \ ids, y \in ids : Precedes(input, y, x)
      /\ sel \ ids # {} => Len(p.items) = input.size
      /\ \A x \in sel \ ids : link # NoCursor /\ Precedes(input, link, x)
      /\ link # NoCursor => /\ \A y \in ids : ~Precedes(input, link, y)
                            /\ sel \ ids # {}

\* The rows kept are sorted the way of travel and come before the others, and
\* there are others exactly when rows were trimmed.
KeptSound(sel, input, kept, more) ==
  /\ kept \in Seq(sel)
  /\ Len(kept) <= input.size
  /\ more => kept # <<>> /\ Len(kept) = input.size
  /\ \A i, j \in 1..Len(kept) : i < j => Precedes(input, kept[i], kept[j])
  /\ \A x \in sel : \/ \E i \in 1..Len(kept) : kept[i] = x
                    \/ /\ more
                       /\ \A i \in 1..Len(kept) : Precedes(input, kept[i], x)
  /\ more => \E x \in sel :
               \A i \in 1..Len(kept) : Precedes(input, kept[i], x)

LEMMA KeptFacts ==
  ASSUME NEW S, NEW input \in InputType, NEW r \in Fetched(S, input)
  PROVE  KeptSound(Selected(S, input), input,
                   Kept(r, input), HasMore(r, input))
<1> DEFINE sel  == Selected(S, input)
           more == HasMore(r, input)
           kept == Kept(r, input)
<1>1. r \in Seq(sel) /\ Len(r) <= input.size + 1
  BY FetchedFacts
<1>2. \A i, j \in 1..Len(r) : i < j => Precedes(input, r[i], r[j])
  BY FetchedFacts
<1>3. \A x \in sel : \/ \E i \in 1..Len(r) : r[i] = x
                     \/ /\ Len(r) = input.size + 1
                        /\ \A i \in 1..Len(r) : Precedes(input, r[i], x)
  BY FetchedFacts
<1>4. input.size \in Nat \ {0}
  BY DEF InputType
<1>5. /\ kept \in Seq(sel)
      /\ Len(kept) = IF more THEN input.size ELSE Len(r)
      /\ \A i \in 1..Len(kept) : i \in 1..Len(r) /\ kept[i] = r[i]
      /\ more => kept # <<>> /\ Len(r) = input.size + 1
      /\ more <=> Len(r) > input.size
  BY <1>1, <1>4 DEF HasMore, Kept
<1> HIDE DEF sel, more, kept
<1>6. \A x \in sel : \/ \E i \in 1..Len(kept) : kept[i] = x
                     \/ /\ more
                        /\ \A i \in 1..Len(kept) : Precedes(input, kept[i], x)
  <2> SUFFICES ASSUME NEW x \in sel,
                      ~\E i \in 1..Len(kept) : kept[i] = x
               PROVE  /\ more
                      /\ \A i \in 1..Len(kept) : Precedes(input, kept[i], x)
    OBVIOUS
  <2>1. CASE \E i \in 1..Len(r) : r[i] = x
    <3>1. PICK i \in 1..Len(r) : r[i] = x
      BY <2>1
    <3>2. i \notin 1..Len(kept)
      BY <1>5, <3>1
    <3>3. more /\ i > Len(kept)
      BY <1>1, <1>5, <3>2
    <3> QED BY <1>1, <1>2, <1>5, <3>1, <3>3
  <2>2. CASE Len(r) = input.size + 1
             /\ \A i \in 1..Len(r) : Precedes(input, r[i], x)
    BY <1>4, <1>5, <2>2
  <2> QED BY <1>3, <2>1, <2>2
<1>7. more => \E x \in sel : \A i \in 1..Len(kept) : Precedes(input, kept[i], x)
  <2>1. SUFFICES ASSUME more
                 PROVE  /\ r[input.size + 1] \in sel
                        /\ \A i \in 1..Len(kept) :
                             Precedes(input, kept[i], r[input.size + 1])
    OBVIOUS
  <2>2. input.size + 1 \in 1..Len(r)
    BY <1>4, <1>5, <2>1
  <2> QED BY <1>1, <1>2, <1>4, <1>5, <2>1, <2>2
<1>8. \A i, j \in 1..Len(kept) : i < j => Precedes(input, kept[i], kept[j])
  BY <1>2, <1>5
<1>9. Len(kept) <= input.size /\ (more => Len(kept) = input.size)
  BY <1>1, <1>4, <1>5
<1> QED BY <1>5, <1>6, <1>7, <1>8, <1>9 DEF KeptSound, sel, more, kept

\* A page fetched forwards holds the rows in the order they came.
LEMMA ForwardSound ==
  ASSUME NEW S \in SUBSET (Nat \ {0}), NEW input \in InputType,
         input.before = NoCursor,
         NEW p, NEW kept, NEW more \in BOOLEAN,
         KeptSound(Selected(S, input), input, kept, more),
         p.items = kept,
         p.next = IF more THEN kept[Len(kept)] ELSE NoCursor,
         p.prev = NoCursor \/ (kept # <<>> /\ p.prev = kept[1])
  PROVE  PageSound(S, input, p)
<1> DEFINE sel == Selected(S, input)
           ids == ItemIds(p)
<1>1. sel \subseteq Nat \ {0}
  BY DEF Selected
<1>2. kept \in Seq(sel) /\ ids = {kept[i] : i \in 1..Len(kept)}
  BY DEF KeptSound, ItemIds
<1>3. \A i, j \in 1..Len(kept) : i < j => kept[i] < kept[j]
  BY DEF KeptSound, Precedes
<1>4. \A x \in sel \ ids : more /\ \A y \in ids : y < x
  <2>1. \A x \in sel : \/ \E i \in 1..Len(kept) : kept[i] = x
                       \/ more /\ \A i \in 1..Len(kept) : kept[i] < x
    BY DEF KeptSound, Precedes
  <2> QED BY <1>2, <2>1
<1>5. more => \E x \in sel : \A y \in ids : y < x
  <2>1. SUFFICES ASSUME more
                 PROVE  \E x \in sel : \A y \in ids : y < x
    OBVIOUS
  <2>2. PICK x \in sel : \A i \in 1..Len(kept) : Precedes(input, kept[i], x)
    BY <2>1 DEF KeptSound
  <2>3. \A i \in 1..Len(kept) : kept[i] < x
    BY <2>2 DEF Precedes
  <2>4. \A y \in ids : y < x
    BY <1>2, <2>3
  <2> QED BY <2>4
<1>6. ids \subseteq sel /\ ids \subseteq Nat \ {0}
  BY <1>1, <1>2
<1>7. p.prev \in {NoCursor} \cup ids
  BY <1>2
<1>8. more => /\ p.next \in ids
              /\ \A y \in ids : y <= p.next
              /\ sel \ ids # {}
  <2>1. SUFFICES ASSUME more
                 PROVE  /\ p.next \in ids
                        /\ \A y \in ids : y <= p.next
                        /\ sel \ ids # {}
    OBVIOUS
  <2>2. kept # <<>> /\ Len(kept) \in 1..Len(kept)
    BY <1>2, <2>1 DEF KeptSound
  <2>3. p.next \in ids
    BY <1>2, <2>1, <2>2
  <2>4. \A i \in 1..Len(kept) : kept[i] \in sel /\ kept[i] <= kept[Len(kept)]
    <3>1. TAKE i \in 1..Len(kept)
    <3>2. i = Len(kept) \/ i < Len(kept)
      BY <1>2
    <3> QED BY <1>1, <1>2, <1>3, <2>2, <3>2
  <2>5. \A y \in ids : y <= p.next
    BY <1>2, <2>1, <2>4
  <2>6. sel \ ids # {}
    <3>1. PICK x \in sel : \A y \in ids : y < x
      BY <1>5, <2>1
    <3> QED BY <1>1, <3>1
  <2> QED BY <2>3, <2>5, <2>6
<1> HIDE DEF sel, ids
<1>9. /\ \A x \in sel \ ids : p.next # NoCursor /\ p.next < x
      /\ p.next # NoCursor => more
  BY <1>4, <1>6, <1>8
<1>10. \A y \in ids : p.next # NoCursor => ~(p.next < y)
  <2>1. SUFFICES ASSUME NEW y \in ids, p.next # NoCursor
                 PROVE  ~(p.next < y)
    OBVIOUS
  <2>2. y <= p.next /\ y \in Nat /\ p.next \in Nat
    BY <1>6, <1>8, <1>9, <2>1
  <2> QED BY <2>2
<1>11. p.next \in {NoCursor} \cup ids /\ (p.next # NoCursor => sel \ ids # {})
  BY <1>8, <1>9
<1>12. /\ Len(p.items) <= input.size
       /\ sel \ ids # {} => Len(p.items) = input.size
  BY <1>4 DEF KeptSound
<1> QED BY <1>2, <1>3, <1>4, <1>7, <1>9, <1>10, <1>11, <1>12
        DEF PageSound, Precedes, sel, ids

\* A page fetched backwards holds them the other way round.
LEMMA BackwardSound ==
  ASSUME NEW S \in SUBSET (Nat \ {0}), NEW input \in InputType,
         input.before # NoCursor,
         NEW p, NEW kept, NEW more \in BOOLEAN,
         KeptSound(Selected(S, input), input, kept, more),
         p.items = Reverse(kept),
         p.prev = IF more THEN kept[Len(kept)] ELSE NoCursor,
         p.next = NoCursor \/ (kept # <<>> /\ p.next = kept[1])
  PROVE  PageSound(S, input, p)
<1> DEFINE sel == Selected(S, input)
           ids == ItemIds(p)
           len == Len(kept)
<1>1. sel \subseteq Nat \ {0}
  BY DEF Selected
<1>2. kept \in Seq(sel) /\ len \in Nat
  BY DEF KeptSound
<1>3. /\ p.items \in Seq(sel)
      /\ Len(p.items) = len
      /\ DOMAIN p.items = 1..len
      /\ \A i \in 1..len : p.items[i] = kept[(len - i) + 1]
  BY <1>2 DEF Reverse
<1>4. ids = {kept[i] : i \in 1..len}
  <2>1. ids = {p.items[i] : i \in 1..len}
    BY <1>3 DEF ItemIds
  <2>2. \A i \in 1..len : (len - i) + 1 \in 1..len
                          /\ (len - ((len - i) + 1)) + 1 = i
    BY <1>2
  <2> QED BY <1>3, <2>1, <2>2
<1>5. \A i, j \in 1..len : i < j => kept[j] < kept[i]
  BY <1>1, <1>2 DEF KeptSound, Precedes
<1>6. \A i, j \in 1..len : i < j => p.items[i] < p.items[j]
  <2>1. TAKE i, j \in 1..len
  <2>2. HAVE i < j
  <2>3. (len - i) + 1 \in 1..len /\ (len - j) + 1 \in 1..len
        /\ (len - j) + 1 < (len - i) + 1
    BY <1>2, <2>2
  <2> QED BY <1>3, <1>5, <2>3
<1>7. \A x \in sel \ ids : more /\ \A y \in ids : x < y
  BY <1>1, <1>2, <1>4 DEF KeptSound, Precedes
<1>8. more => \E x \in sel : \A y \in ids : x < y
  BY <1>1, <1>2, <1>4 DEF KeptSound, Precedes
<1>9. ids \subseteq sel /\ ids \subseteq Nat \ {0}
  BY <1>1, <1>2, <1>4
<1>10. p.next \in {NoCursor} \cup ids
  BY <1>2, <1>4
<1>11. more => /\ p.prev \in ids
               /\ \A y \in ids : p.prev <= y
               /\ sel \ ids # {}
  <2>1. SUFFICES ASSUME more
                 PROVE  /\ p.prev \in ids
                        /\ \A y \in ids : p.prev <= y
                        /\ sel \ ids # {}
    OBVIOUS
  <2>2. kept # <<>> /\ len \in 1..len
    BY <1>2, <2>1 DEF KeptSound
  <2>3. p.prev \in ids
    BY <1>4, <2>1, <2>2
  <2>4. \A i \in 1..len : kept[i] \in sel /\ kept[len] <= kept[i]
    <3>1. TAKE i \in 1..len
    <3>2. i = len \/ i < len
      BY <1>2
    <3> QED BY <1>1, <1>2, <1>5, <2>2, <3>2
  <2>5. \A y \in ids : p.prev <= y
    BY <1>4, <2>1, <2>4
  <2>6. sel \ ids # {}
    <3>1. PICK x \in sel : \A y \in ids : x < y
      BY <1>8, <2>1
    <3> QED BY <1>1, <3>1
  <2> QED BY <2>3, <2>5, <2>6
<1> HIDE DEF sel, ids, len
<1>12. /\ \A x \in sel \ ids : p.prev # NoCursor /\ x < p.prev
       /\ p.prev # NoCursor => more
  BY <1>7, <1>9, <1>11
<1>13. \A y \in ids : p.prev # NoCursor => ~(p.prev > y)
  <2>1. SUFFICES ASSUME NEW y \in ids, p.prev # NoCursor
                 PROVE  ~(p.prev > y)
    OBVIOUS
  <2>2. p.prev <= y /\ y \in Nat /\ p.prev \in Nat
    BY <1>9, <1>11, <1>12, <2>1
  <2> QED BY <2>2
<1>14. p.prev \in {NoCursor} \cup ids /\ (p.prev # NoCursor => sel \ ids # {})
  BY <1>11, <1>12
<1>15. \A x \in sel \ ids : p.prev # NoCursor /\ p.prev > x
  BY <1>1, <1>9, <1>12, <1>14
<1>16. \A x \in sel \ ids, y \in ids : y > x
  BY <1>1, <1>7, <1>9
<1>17. /\ Len(p.items) <= input.size
       /\ sel \ ids # {} => Len(p.items) = input.size
  BY <1>3, <1>7 DEF KeptSound, len
<1> QED BY <1>3, <1>6, <1>10, <1>13, <1>14, <1>15, <1>16, <1>17
        DEF PageSound, Precedes, sel, ids, len

LEMMA PaginateSound ==
  ASSUME NEW S \in SUBSET (Nat \ {0}), NEW input \in InputType,
         NEW r \in Fetched(S, input)
  PROVE  PageSound(S, input, paginate(r, input))
<1> DEFINE more  == HasMore(r, input)
           kept  == Kept(r, input)
           p     == paginate(r, input)
           back  == input.before # NoCursor
           items == IF back THEN Reverse(kept) ELSE kept
           first == IF items = <<>> THEN NoCursor ELSE items[1]
           final == IF items = <<>> THEN NoCursor ELSE items[Len(items)]
<1>0. /\ p.items = items
      /\ p.next = IF back \/ more THEN final ELSE NoCursor
      /\ p.prev = IF (back /\ more) \/ (~back /\ input.after # NoCursor)
                  THEN first ELSE NoCursor
  BY Zenon DEF paginate, Ascending, FirstId, LastId
<1>1. KeptSound(Selected(S, input), input, kept, more)
  BY KeptFacts
<1>2. more \in BOOLEAN /\ kept \in Seq(Selected(S, input))
  BY <1>1 DEF HasMore, KeptSound
<1>3. more => kept # <<>>
  BY <1>1 DEF KeptSound
<1> HIDE DEF more, kept, p
<1>4. CASE input.before = NoCursor
  <2>1. p.items = kept
    BY <1>0, <1>4
  <2>2. p.next = IF more THEN kept[Len(kept)] ELSE NoCursor
    BY <1>0, <1>3, <1>4
  <2>3. p.prev = NoCursor \/ (kept # <<>> /\ p.prev = kept[1])
    BY <1>0, <1>4
  <2> QED BY <1>1, <1>2, <1>4, <2>1, <2>2, <2>3, ForwardSound, Zenon DEF p
<1>5. CASE input.before # NoCursor
  <2>1. Len(Reverse(kept)) = Len(kept)
        /\ \A i \in 1..Len(kept) : Reverse(kept)[i] = kept[(Len(kept) - i) + 1]
    BY <1>2 DEF Reverse
  <2>2. /\ kept # <<>> => /\ Reverse(kept)[1] = kept[Len(kept)]
                          /\ Reverse(kept)[Len(kept)] = kept[1]
        /\ kept # <<>> <=> Reverse(kept) # <<>>
    BY <1>2, <2>1 DEF Reverse
  <2>3. /\ p.items = Reverse(kept)
        /\ p.next = IF Reverse(kept) = <<>> THEN NoCursor
                    ELSE Reverse(kept)[Len(Reverse(kept))]
        /\ p.prev = IF more THEN Reverse(kept)[1] ELSE NoCursor
    BY <1>0, <1>3, <1>5, <2>2
  <2>4. p.prev = IF more THEN kept[Len(kept)] ELSE NoCursor
    BY <1>3, <2>2, <2>3
  <2>5. p.next = NoCursor \/ (kept # <<>> /\ p.next = kept[1])
    BY <2>1, <2>2, <2>3
  <2> QED BY <1>1, <1>2, <1>5, <2>3, <2>4, <2>5, BackwardSound, Zenon DEF p
<1> QED BY <1>4, <1>5 DEF p

\* Every page a query that is not refused may be answered with.
LEMMA PagesSound ==
  ASSUME NEW S \in SUBSET (Nat \ {0}), NEW q \in RawQuery, ~Rejected(q),
         NEW p \in Pages(S, q)
  PROVE  PageSound(S, PageInput(q), p)
BY InputFacts, PaginateSound DEF Pages

-----------------------------------------------------------------------------
(* Turning round. *)

\* A link is the last item of its page, or the first.
LEMMA PageEnds ==
  ASSUME NEW S, NEW q, NEW p \in Pages(S, q)
  PROVE  /\ p.next # NoCursor => p.items # <<>> /\ p.next = p.items[Len(p.items)]
         /\ p.prev # NoCursor => p.items # <<>> /\ p.prev = p.items[1]
<1>1. PICK r \in Fetched(S, PageInput(q)) : p = paginate(r, PageInput(q))
  BY DEF Pages
<1> DEFINE items == Ascending(Kept(r, PageInput(q)), PageInput(q))
<1>2. /\ p.items = items
      /\ p.next \in {LastId(items), NoCursor}
      /\ p.prev \in {FirstId(items), NoCursor}
  BY <1>1 DEF paginate
<1> HIDE DEF items
<1> QED BY <1>2 DEF FirstId, LastId

\* As many of the rows of T as a page holds, next to where its order begins.
IsWindow(s, T, input) ==
  /\ s \in Seq(T) /\ IsAscending(s)
  /\ Len(s) <= input.size
  /\ \A x \in T \ Upto(s, Len(s)) :
       /\ Len(s) = input.size
       /\ \A y \in Upto(s, Len(s)) : Precedes(input, y, x)

\* It is a page's worth of numbers in ascending order.
LEMMA WindowFacts ==
  ASSUME NEW T \in SUBSET Nat, NEW input \in InputType, NEW s,
         IsWindow(s, T, input)
  PROVE  /\ s \in Seq(T) /\ s \in Seq(Nat) /\ IsAscending(s)
         /\ Len(s) \in 0..Len(s) /\ Len(s) <= input.size
<1>1. s \in Seq(T) /\ IsAscending(s) /\ Len(s) <= input.size
  BY DEF IsWindow
<1>2. T \subseteq Nat
  OBVIOUS
<1>3. s \in Seq(Nat)
  <2>1. /\ Len(s) \in Nat /\ s = [i \in 1..Len(s) |-> s[i]]
        /\ \A i \in 1..Len(s) : s[i] \in T
    BY <1>1
  <2>2. \A i \in 1..Len(s) : s[i] \in Nat
    BY <1>2, <2>1
  <2> QED BY <2>1, <2>2
<1> QED BY <1>1, <1>3

\* Of two such windows none can lack an item the other one has.
LEMMA Within ==
  ASSUME NEW T \in SUBSET Nat, NEW input \in InputType, NEW a, NEW b,
         IsWindow(a, T, input), IsWindow(b, T, input),
         Upto(a, Len(a)) \subseteq Upto(b, Len(b))
  PROVE  Upto(a, Len(a)) = Upto(b, Len(b))
<1>1. /\ a \in Seq(Nat) /\ b \in Seq(Nat) /\ IsAscending(a) /\ IsAscending(b)
      /\ Len(a) \in 0..Len(a) /\ Len(b) \in 0..Len(b)
  BY WindowFacts
<1>2. Cardinality(Upto(a, Len(a))) = Len(a)
  BY <1>1, Counted
<1>3. IsFiniteSet(Upto(b, Len(b))) /\ Cardinality(Upto(b, Len(b))) = Len(b)
  BY <1>1, Counted
<1>4. /\ Cardinality(Upto(a, Len(a))) <= Cardinality(Upto(b, Len(b)))
      /\ Cardinality(Upto(b, Len(b))) = Cardinality(Upto(a, Len(a)))
           => Upto(b, Len(b)) = Upto(a, Len(a))
  BY <1>3, FS_Subset
<1>5. SUFFICES ASSUME NEW x \in Upto(b, Len(b)), x \notin Upto(a, Len(a))
               PROVE  FALSE
  OBVIOUS
<1>6. x \in T /\ Len(b) <= input.size /\ input.size \in Nat
  BY DEF IsWindow, Upto, InputType
<1>7. Len(a) = input.size
  BY <1>5, <1>6 DEF IsWindow
<1> QED BY <1>1, <1>2, <1>3, <1>4, <1>5, <1>6, <1>7

\* There is one window of the rows in an order.
LEMMA SameWindow ==
  ASSUME NEW T \in SUBSET Nat, NEW input \in InputType, NEW a, NEW b,
         IsWindow(a, T, input), IsWindow(b, T, input)
  PROVE  a = b
<1> DEFINE A == Upto(a, Len(a))
           B == Upto(b, Len(b))
<1>1. a \in Seq(Nat) /\ b \in Seq(Nat) /\ IsAscending(a) /\ IsAscending(b)
  BY WindowFacts
<1>2. A \subseteq T /\ B \subseteq T
  BY DEF IsWindow, Upto
<1>3. A \subseteq B \/ B \subseteq A
  <2>1. SUFFICES ASSUME NEW x \in A \ B, NEW y \in B \ A PROVE FALSE
    OBVIOUS
  <2>2. x \in T \ B /\ y \in T \ A /\ x \in Nat /\ y \in Nat
    BY <1>2, <2>1
  <2>3. Precedes(input, y, x)
    BY <2>1, <2>2 DEF IsWindow
  <2>4. Precedes(input, x, y)
    BY <2>1, <2>2 DEF IsWindow
  <2> QED BY <2>2, <2>3, <2>4 DEF Precedes
<1>4. A = B
  BY <1>3, Within
<1> QED BY <1>1, <1>4, SameSequence

\* A page is the window of the rows its statement selects.
LEMMA PageWindowed ==
  ASSUME NEW S, NEW input, NEW p, PageSound(S, input, p)
  PROVE  IsWindow(p.items, Selected(S, input), input)
<1>1. p.items \in Seq(Selected(S, input))
  BY DEF PageSound
<1>2. ItemIds(p) = Upto(p.items, Len(p.items))
  BY <1>1 DEF ItemIds, Upto
<1> QED BY <1>1, <1>2 DEF PageSound, IsWindow, IsAscending

\* The query of a link that follows from an accepted query is accepted again,
\* and holds no cursor but the one of its own direction.
LEMMA LinkFacts ==
  ASSUME NEW q \in RawQuery, ~Rejected(q), NEW c \in Nat \ {0},
         NEW d \in {"next", "prev"}
  PROVE  LET u == paginationURL(q, d, c)
         IN  /\ u \in RawQuery
             /\ ~Rejected(u)
             /\ d = "next" => /\ PageInput(u).before = NoCursor
                              /\ PageInput(u).after = c
             /\ d = "prev" => /\ PageInput(u).before = c
                              /\ PageInput(u).after = NoCursor
<1> DEFINE u == paginationURL(q, d, c)
<1>1. /\ u.size = q.size
      /\ u.after = IF d = "next" THEN c ELSE Absent
      /\ u.before = IF d = "prev" THEN c ELSE Absent
  BY DEF paginationURL, RawQuery
<1>2. c \in Int /\ c > 0 /\ c # Absent /\ c # Malformed
  BY RawAssumption
<1>3. u \in RawQuery
  BY <1>2 DEF paginationURL, RawQuery, RawParam
<1> HIDE DEF u
<1>4. ~Rejected(u)
  <2>1. ~SpecRejects(u) /\ ~(u.size # Absent /\ (u.size = Malformed \/ u.size < 1))
    BY <1>1 DEF Rejected, SpecRejects, parsePageRejects
  <2>2. u.after = Absent \/ (u.before = Absent /\ decodes(u.after))
    BY <1>1, <1>2 DEF decodes
  <2>3. u.before = Absent \/ (u.after = Absent /\ decodes(u.before))
    BY <1>1, <1>2 DEF decodes
  <2> QED BY <2>1, <2>2, <2>3 DEF Rejected, parsePageRejects
<1> QED
  BY <1>1, <1>2, <1>3, <1>4 DEF PageInput, u

\* The size of a page is that of the page a link comes from.
LEMMA LinkSize ==
  ASSUME NEW q \in RawQuery, NEW d, NEW c
  PROVE  PageInput(paginationURL(q, d, c)).size = PageInput(q).size
BY DEF PageInput, paginationURL, RawQuery

\* The first and the last item of a page bound the others.
LEMMA EndsBound ==
  ASSUME NEW S \in SUBSET (Nat \ {0}), NEW input \in InputType, NEW p,
         PageSound(S, input, p), p.items # <<>>
  PROVE  /\ p.items[1] \in ItemIds(p) /\ p.items[Len(p.items)] \in ItemIds(p)
         /\ ItemIds(p) \subseteq Selected(S, input)
         /\ \A y \in ItemIds(p) :
              p.items[1] <= y /\ y <= p.items[Len(p.items)]
<1> DEFINE s == p.items
<1>1. /\ s \in Seq(Selected(S, input)) /\ s \in Seq(Nat)
      /\ \A i, j \in 1..Len(s) : i < j => s[i] < s[j]
  <2>1. Selected(S, input) \subseteq Nat
    BY DEF Selected
  <2> QED BY <2>1 DEF PageSound
<1>2. ItemIds(p) = {s[i] : i \in 1..Len(s)}
  BY <1>1 DEF ItemIds
<1>3. Len(s) \in Nat /\ 1 \in 1..Len(s) /\ Len(s) \in 1..Len(s)
  BY <1>1
<1>4. \A i \in 1..Len(s) : s[1] <= s[i] /\ s[i] <= s[Len(s)]
  <2>1. TAKE i \in 1..Len(s)
  <2>2. (i = 1 \/ 1 < i) /\ (i = Len(s) \/ i < Len(s))
    BY <1>3
  <2> QED BY <1>1, <1>3, <2>2
<1> QED BY <1>1, <1>2, <1>3, <1>4

\* Onwards after c and back: the rows selected then end at c.
LEMMA BackFromNext ==
  ASSUME NEW S \in SUBSET (Nat \ {0}), NEW q \in RawQuery, ~Rejected(q),
         NEW c \in Nat \ {0}, NEW p \in Pages(S, paginationURL(q, "next", c)),
         p.prev # NoCursor
  PROVE  LET u == paginationURL(paginationURL(q, "next", c), "prev", p.prev)
         IN  /\ u \in RawQuery /\ ~Rejected(u)
             /\ PageInput(u).before = p.prev
             /\ PageInput(u).size = PageInput(q).size
             /\ Selected(S, PageInput(u)) = {x \in S : x <= c}
<1> DEFINE there == paginationURL(q, "next", c)
           J     == PageInput(there)
           u     == paginationURL(there, "prev", p.prev)
<1>1. /\ there \in RawQuery /\ ~Rejected(there)
      /\ J.before = NoCursor /\ J.after = c
  BY LinkFacts
<1>2. J \in InputType /\ PageSound(S, J, p)
  BY <1>1, InputFacts, PagesSound
<1>3. p.items # <<>> /\ p.prev = p.items[1]
  BY PageEnds
<1>4. /\ p.prev \in Selected(S, J)
      /\ \A y \in ItemIds(p) : p.prev <= y
  BY <1>2, <1>3, EndsBound
<1>5. Selected(S, J) = {x \in S : x > c}
  BY <1>1 DEF Selected
<1>6. p.prev \in Nat \ {0} /\ c < p.prev
  BY <1>4, <1>5
<1>7. /\ u \in RawQuery /\ ~Rejected(u) /\ PageInput(u).before = p.prev
  BY <1>1, <1>6, LinkFacts
<1>8. PageInput(u).size = PageInput(q).size
  BY <1>1, LinkSize
<1>9. \A x \in S : x > c => ~(x < p.prev)
  <2>1. SUFFICES ASSUME NEW x \in S, x > c PROVE ~(x < p.prev)
    OBVIOUS
  <2>2. x \in Selected(S, J) /\ x \in Nat
    BY <1>5, <2>1
  <2>3. CASE x \in ItemIds(p)
    BY <1>4, <1>6, <2>2, <2>3
  <2>4. CASE x \notin ItemIds(p)
    <3>1. Precedes(J, p.prev, x)
      BY <1>2, <1>3, <2>2, <2>4, EndsBound DEF PageSound
    <3> QED BY <1>1, <1>6, <2>2, <3>1 DEF Precedes
  <2> QED BY <2>3, <2>4
<1>10. Selected(S, PageInput(u)) = {x \in S : x < p.prev}
  BY <1>6, <1>7 DEF Selected
<1>11. \A x \in S : x < p.prev <=> x <= c
  BY <1>6, <1>9
<1> HIDE DEF u
<1> QED BY <1>7, <1>8, <1>10, <1>11 DEF u

\* ... and the other way round they begin at c.
LEMMA BackFromPrev ==
  ASSUME NEW S \in SUBSET (Nat \ {0}), NEW q \in RawQuery, ~Rejected(q),
         NEW c \in Nat \ {0}, NEW p \in Pages(S, paginationURL(q, "prev", c)),
         p.next # NoCursor
  PROVE  LET u == paginationURL(paginationURL(q, "prev", c), "next", p.next)
         IN  /\ u \in RawQuery /\ ~Rejected(u)
             /\ PageInput(u).before = NoCursor
             /\ PageInput(u).size = PageInput(q).size
             /\ Selected(S, PageInput(u)) = {x \in S : x >= c}
<1> DEFINE there == paginationURL(q, "prev", c)
           J     == PageInput(there)
           u     == paginationURL(there, "next", p.next)
<1>1. /\ there \in RawQuery /\ ~Rejected(there)
      /\ J.before = c /\ J.after = NoCursor
  BY LinkFacts
<1>2. J \in InputType /\ PageSound(S, J, p)
  BY <1>1, InputFacts, PagesSound
<1>3. p.items # <<>> /\ p.next = p.items[Len(p.items)]
  BY PageEnds
<1>4. /\ p.next \in Selected(S, J)
      /\ \A y \in ItemIds(p) : y <= p.next
  BY <1>2, <1>3, EndsBound
<1>5. Selected(S, J) = {x \in S : x < c}
  BY <1>1 DEF Selected
<1>6. p.next \in Nat \ {0} /\ p.next < c
  BY <1>4, <1>5
<1>7. /\ u \in RawQuery /\ ~Rejected(u)
      /\ PageInput(u).before = NoCursor /\ PageInput(u).after = p.next
  BY <1>1, <1>6, LinkFacts
<1>8. PageInput(u).size = PageInput(q).size
  BY <1>1, LinkSize
<1>9. \A x \in S : x < c => ~(x > p.next)
  <2>1. SUFFICES ASSUME NEW x \in S, x < c PROVE ~(x > p.next)
    OBVIOUS
  <2>2. x \in Selected(S, J) /\ x \in Nat
    BY <1>5, <2>1
  <2>3. CASE x \in ItemIds(p)
    BY <1>4, <1>6, <2>2, <2>3
  <2>4. CASE x \notin ItemIds(p)
    <3>1. Precedes(J, p.next, x)
      BY <1>2, <1>3, <2>2, <2>4, EndsBound DEF PageSound
    <3> QED BY <1>1, <1>6, <2>2, <3>1 DEF Precedes
  <2> QED BY <2>3, <2>4
<1>10. Selected(S, PageInput(u)) = {x \in S : x > p.next}
  BY <1>6, <1>7 DEF Selected
<1>11. \A x \in S : x > p.next <=> x >= c
  BY <1>6, <1>9
<1> HIDE DEF u
<1> QED BY <1>7, <1>8, <1>10, <1>11 DEF u

\* A page with a link onwards at its end is the window, seen from that end, of
\* the rows up to there.
LEMMA WindowFromEnd ==
  ASSUME NEW S \in SUBSET (Nat \ {0}), NEW input \in InputType, NEW p,
         PageSound(S, input, p), p.next # NoCursor, p.items # <<>>,
         p.next = p.items[Len(p.items)],
         NEW K \in InputType, K.size = input.size, K.before # NoCursor
  PROVE  IsWindow(p.items, {x \in S : x <= p.next}, K)
<1> DEFINE T == {x \in S : x <= p.next}
           sel == Selected(S, input)
           ids == ItemIds(p)
<1>1. /\ p.next \in ids /\ ids \subseteq sel /\ \A y \in ids : y <= p.next
  BY EndsBound
<1>2. sel \subseteq S /\ S \subseteq Nat
  BY DEF Selected
<1>3. ids \subseteq T /\ p.next \in Nat
  BY <1>1, <1>2
<1>4. ids = {p.items[i] : i \in 1..Len(p.items)} /\ DOMAIN p.items = 1..Len(p.items)
      /\ Len(p.items) \in Nat
  BY DEF PageSound, ItemIds
<1>5. p.items \in Seq(T)
  <2>1. p.items \in Seq(sel)
    BY DEF PageSound
  <2>2. \A i \in 1..Len(p.items) : p.items[i] \in T
    BY <1>3, <1>4
  <2> QED BY <2>1, <2>2
<1>6. IsAscending(p.items) /\ Len(p.items) <= K.size
  BY DEF PageSound, IsAscending
<1>7. ASSUME NEW x \in T \ ids
      PROVE  Len(p.items) = K.size /\ \A y \in ids : y > x
  <2>1. x \in S /\ x \in Nat /\ x <= p.next
    BY <1>2
  <2>2. CASE input.before # NoCursor
    <3>1. x \in sel \ ids
      <4>1. p.next < input.before
        BY <1>1, <2>2 DEF Selected
      <4>2. input.before \in Nat
        BY DEF InputType
      <4> QED BY <1>3, <1>7, <2>1, <2>2, <4>1, <4>2 DEF Selected
    <3> QED BY <2>2, <3>1 DEF PageSound, Precedes
  <2>3. CASE input.before = NoCursor
    <3>1. sel \ ids # {}
      BY <2>3 DEF PageSound
    <3>2. x \notin sel
      <4>1. SUFFICES ASSUME x \in sel PROVE FALSE
        OBVIOUS
      <4>2. p.next < x
        BY <1>7, <2>3, <4>1 DEF PageSound, Precedes
      <4> QED BY <1>3, <2>1, <4>2
    <3>3. \A y \in sel : y > x
      <4>1. input.after # NoCursor /\ x <= input.after
        BY <2>1, <2>3, <3>2 DEF Selected, InputType
      <4>2. \A y \in sel : y > input.after
        BY <2>3, <4>1 DEF Selected
      <4>3. input.after \in Nat /\ sel \subseteq Nat
        BY <1>2 DEF InputType
      <4> HIDE DEF sel
      <4> QED BY <2>1, <4>1, <4>2, <4>3
    <3> QED BY <1>1, <3>1, <3>3 DEF PageSound
  <2> QED BY <2>2, <2>3
<1>8. Upto(p.items, Len(p.items)) = ids
  BY <1>4 DEF Upto
<1> HIDE DEF T, ids
<1>9. \A x \in T \ ids : Len(p.items) = K.size /\ \A y \in ids : Precedes(K, y, x)
  BY <1>7 DEF Precedes
<1> QED BY <1>5, <1>6, <1>8, <1>9 DEF IsWindow, T

\* A page with a link onwards at its beginning is one of the rows from there.
LEMMA WindowFromStart ==
  ASSUME NEW S \in SUBSET (Nat \ {0}), NEW input \in InputType, NEW p,
         PageSound(S, input, p), p.prev # NoCursor, p.items # <<>>,
         p.prev = p.items[1],
         NEW K \in InputType, K.size = input.size, K.before = NoCursor
  PROVE  IsWindow(p.items, {x \in S : x >= p.prev}, K)
<1> DEFINE T == {x \in S : x >= p.prev}
           sel == Selected(S, input)
           ids == ItemIds(p)
<1>1. /\ p.prev \in ids /\ ids \subseteq sel /\ \A y \in ids : p.prev <= y
  BY EndsBound
<1>2. sel \subseteq S /\ S \subseteq Nat
  BY DEF Selected
<1>3. ids \subseteq T /\ p.prev \in Nat
  BY <1>1, <1>2
<1>4. ids = {p.items[i] : i \in 1..Len(p.items)} /\ DOMAIN p.items = 1..Len(p.items)
      /\ Len(p.items) \in Nat
  BY DEF PageSound, ItemIds
<1>5. p.items \in Seq(T)
  <2>1. p.items \in Seq(sel)
    BY DEF PageSound
  <2>2. \A i \in 1..Len(p.items) : p.items[i] \in T
    BY <1>3, <1>4
  <2> QED BY <2>1, <2>2
<1>6. IsAscending(p.items) /\ Len(p.items) <= K.size
  BY DEF PageSound, IsAscending
<1>7. ASSUME NEW x \in T \ ids
      PROVE  Len(p.items) = K.size /\ \A y \in ids : y < x
  <2>1. x \in S /\ x \in Nat /\ x >= p.prev
    BY <1>2
  <2>2. CASE input.before = NoCursor
    <3>1. x \in sel \ ids
      <4>1. CASE input.after = NoCursor
        BY <1>7, <2>1, <2>2, <4>1 DEF Selected
      <4>2. CASE input.after # NoCursor
        <5>1. p.prev > input.after
          BY <1>1, <2>2, <4>2 DEF Selected
        <5>2. input.after \in Nat
          BY DEF InputType
        <5> QED BY <1>3, <1>7, <2>1, <2>2, <4>2, <5>1, <5>2 DEF Selected
      <4> QED BY <4>1, <4>2
    <3> QED BY <2>2, <3>1 DEF PageSound, Precedes
  <2>3. CASE input.before # NoCursor
    <3>1. sel \ ids # {}
      BY <2>3 DEF PageSound
    <3>2. x \notin sel
      <4>1. SUFFICES ASSUME x \in sel PROVE FALSE
        OBVIOUS
      <4>2. p.prev > x
        BY <1>7, <2>3, <4>1 DEF PageSound, Precedes
      <4> QED BY <1>3, <2>1, <4>2
    <3>3. \A y \in sel : y < x
      <4>1. x >= input.before
        BY <2>1, <2>3, <3>2 DEF Selected, InputType
      <4>2. \A y \in sel : y < input.before
        BY <2>3 DEF Selected
      <4>3. input.before \in Nat /\ sel \subseteq Nat
        BY <1>2 DEF InputType
      <4> HIDE DEF sel
      <4> QED BY <2>1, <4>1, <4>2, <4>3
    <3> QED BY <1>1, <3>1, <3>3 DEF PageSound
  <2> QED BY <2>2, <2>3
<1>8. Upto(p.items, Len(p.items)) = ids
  BY <1>4 DEF Upto
<1> HIDE DEF T, ids
<1>9. \A x \in T \ ids : Len(p.items) = K.size /\ \A y \in ids : Precedes(K, y, x)
  BY <1>7 DEF Precedes
<1> QED BY <1>5, <1>6, <1>8, <1>9 DEF IsWindow, T

-----------------------------------------------------------------------------
(* The walk. *)

\* Only ids are listed.
LEMMA ListedIds == TypeOK => Listed \in SUBSET Ids
BY DEF TypeOK, Listed, Account, Ids

\* An answer holds a sound page of the table as it is, or no page.
LEMMA AnswerFacts ==
  ASSUME TypeOK, NEW q \in RawQuery, ListByUser(q)
  PROVE  /\ Listed' = Listed
         /\ ~Rejected(q) => PageSound(Listed, PageInput(q), page')
         /\ Rejected(q) => page' = NoPage
         /\ status' = 200 <=> ~Rejected(q)
         /\ status' \in {200, 400}
         /\ ItemIds(page') \subseteq Ids
         /\ page'.items \in Seq(Ids)
         /\ page'.next \in 0..MaxId /\ page'.prev \in 0..MaxId
         /\ LinkedAccepted'
<1>1. Listed' = Listed
  BY DEF ListByUser, table, Listed
<1>2. Listed \in SUBSET Ids /\ Ids \subseteq Nat \ {0}
  BY ListedIds DEF Ids
<1>3. CASE Rejected(q)
  <2>1. page' = NoPage /\ status' = 400
    BY <1>3 DEF ListByUser
  <2> QED BY <1>1, <1>3, <2>1, WalkAssumption
          DEF NoPage, ItemIds, LinkedAccepted
<1>4. CASE ~Rejected(q)
  <2>1. status' = 200 /\ raw' = q /\ page' \in Pages(Listed, q)
    BY <1>4 DEF ListByUser
  <2>2. PageSound(Listed, PageInput(q), page')
    BY <1>2, <1>4, <2>1, PagesSound
  <2>3. Selected(Listed, PageInput(q)) \subseteq Ids
    BY <1>2 DEF Selected
  <2>4. page'.items \in Seq(Ids) /\ ItemIds(page') \subseteq Ids
    BY <2>2, <2>3 DEF PageSound, ItemIds
  <2>5. page'.next \in 0..MaxId /\ page'.prev \in 0..MaxId
    BY <2>2, <2>4, WalkAssumption DEF PageSound, Ids
  <2> QED BY <1>1, <1>4, <2>1, <2>2, <2>4, <2>5 DEF LinkedAccepted
<1> QED BY <1>3, <1>4

\* A run starts: what there was to be returned is in its first page or ahead.
LEMMA StartStep ==
  ASSUME WalkInv, NEW q \in RawQuery, ListByUser(q), StartRun
  PROVE  WalkInv'
<1> DEFINE input == PageInput(q)
           sel   == Selected(Listed, input)
<1>1. TypeOK /\ raw' = q /\ UNCHANGED table
  BY DEF WalkInv, ListByUser
<1>2. /\ dir' = Direction(q)
      /\ seen' = ItemIds(page')
      /\ stable' = IF Rejected(q) THEN {} ELSE sel
  BY <1>1 DEF StartRun
<1>3. Listed \in SUBSET Ids /\ sel \subseteq Listed
  BY <1>1, ListedIds DEF Selected
<1>4. TypeOK'
  BY <1>1, <1>2, <1>3, AnswerFacts
     DEF TypeOK, table, Direction, ListByUser, Account
<1>5. LinkedAccepted' /\ StillListed'
  BY <1>1, <1>2, <1>3, AnswerFacts DEF StillListed
<1>6. Owed' /\ Behind'
  <2>1. CASE Rejected(q)
    BY <1>2, <2>1 DEF Owed, Behind, Direction
  <2>2. CASE ~Rejected(q)
    <3>1. PageSound(Listed, input, page')
      BY <1>1, <2>2, AnswerFacts
    <3>2. dir' = IF input.before # NoCursor THEN "prev" ELSE "next"
      BY <1>2, <2>2, InputFacts DEF Direction
    <3>3. /\ page'.next \in Nat /\ page'.prev \in Nat
          /\ seen' \subseteq Nat /\ stable' \subseteq Nat
      BY <1>4, WalkAssumption DEF TypeOK, Ids
    <3> HIDE DEF input
    <3>4. CASE input.before # NoCursor
      BY <1>2, <2>2, <3>1, <3>2, <3>3, <3>4
         DEF PageSound, Owed, Behind, Ahead, Link, Precedes
    <3>5. CASE input.before = NoCursor
      BY <1>2, <2>2, <3>1, <3>2, <3>3, <3>5
         DEF PageSound, Owed, Behind, Ahead, Link, Precedes
    <3> QED BY <3>4, <3>5
  <2> QED BY <2>1, <2>2
<1> QED BY <1>4, <1>5, <1>6 DEF WalkInv

\* A run goes on: its next page lies wholly ahead of what it has returned, and
\* what it owes is in that page or ahead of that too.
LEMMA ContinueStep ==
  ASSUME WalkInv, NEW d \in {"next", "prev"}, dir = d, Link(d) # NoCursor,
         ListByUser(paginationURL(raw, d, Link(d))), ContinueRun
  PROVE  WalkInv' /\ ItemIds(page') \cap seen = {}
<1> DEFINE c     == Link(d)
           q     == paginationURL(raw, d, c)
           input == PageInput(q)
           sel   == Selected(Listed, input)
<1>1. /\ TypeOK /\ LinkedAccepted /\ StillListed /\ Owed /\ Behind
      /\ UNCHANGED table /\ raw' = q
      /\ dir' = dir /\ stable' = stable /\ seen' = seen \cup ItemIds(page')
  BY DEF WalkInv, ListByUser, ContinueRun
<1>2. c \in Nat \ {0} /\ ~Rejected(raw) /\ raw \in RawQuery
  BY <1>1, WalkAssumption DEF TypeOK, Link, LinkedAccepted
<1>3. /\ q \in RawQuery /\ ~Rejected(q)
      /\ d = "next" => input.before = NoCursor /\ input.after = c
      /\ d = "prev" => input.before = c /\ input.after = NoCursor
  BY <1>2, LinkFacts
<1>4. PageSound(Listed, input, page') /\ Listed' = Listed /\ LinkedAccepted'
  BY <1>1, <1>3, AnswerFacts
<1>5. TypeOK'
  BY <1>1, <1>3, AnswerFacts DEF TypeOK, table, ListByUser, Account
<1>6. StillListed'
  BY <1>1, <1>4 DEF StillListed
<1>7. /\ page'.next \in Nat /\ page'.prev \in Nat
      /\ seen' \subseteq Nat /\ stable' \subseteq Nat /\ Listed \subseteq Nat
  BY <1>1, <1>5, ListedIds, WalkAssumption DEF TypeOK, Ids
<1>8. sel = {i \in Listed : Ahead(d, i)}
  BY <1>2, <1>3 DEF Selected, Ahead, Link
<1>9. ItemIds(page') \subseteq sel
  BY <1>4 DEF PageSound, ItemIds
<1>10. ItemIds(page') \cap seen = {}
  BY <1>1, <1>8, <1>9 DEF Behind
<1> HIDE DEF input, q, sel
<1>11. Owed'
  <2> SUFFICES ASSUME NEW x \in stable, x \notin seen \cup ItemIds(page')
               PROVE  Ahead(d, x)'
    BY <1>1 DEF Owed
  <2>1. x \in sel \ ItemIds(page')
    BY <1>1, <1>8 DEF Owed, StillListed
  <2>2. CASE d = "next"
    BY <1>3, <1>4, <1>7, <2>1, <2>2 DEF PageSound, Ahead, Link, Precedes, sel
  <2>3. CASE d = "prev"
    BY <1>2, <1>3, <1>4, <1>7, <2>1, <2>3
       DEF PageSound, Ahead, Link, Precedes, sel
  <2> QED BY <2>2, <2>3
<1>12. Behind'
  <2> SUFFICES ASSUME NEW x \in seen \cup ItemIds(page'), Ahead(d, x)'
               PROVE  FALSE
    BY <1>1 DEF Behind
  <2>1. CASE d = "next"
    <3>1. page'.next \in ItemIds(page') /\ x > page'.next
      BY <1>3, <1>4, <2>1 DEF PageSound, Ahead, Link
    <3>2. \A y \in ItemIds(page') : ~(page'.next < y)
      BY <1>3, <1>4, <2>1, <3>1 DEF PageSound, Precedes, Ahead, Link
    <3>3. x \in seen
      BY <1>1, <1>7, <3>1, <3>2
    <3>4. Ahead(d, page'.next) /\ ~Ahead(d, x)
      BY <1>1, <1>8, <1>9, <3>1, <3>3 DEF Behind
    <3>5. x \in Nat /\ c = page.next
      BY <1>1, <1>7, <2>1, <3>3 DEF Link
    <3> QED BY <1>2, <1>7, <2>1, <3>1, <3>4, <3>5 DEF Ahead
  <2>2. CASE d = "prev"
    <3>1. page'.prev \in ItemIds(page') /\ x < page'.prev
      BY <1>2, <1>3, <1>4, <2>2 DEF PageSound, Ahead, Link
    <3>2. \A y \in ItemIds(page') : ~(page'.prev > y)
      BY <1>2, <1>3, <1>4, <2>2, <3>1 DEF PageSound, Precedes, Ahead, Link
    <3>3. x \in seen
      BY <1>1, <1>7, <3>1, <3>2
    <3>4. Ahead(d, page'.prev) /\ ~Ahead(d, x)
      BY <1>1, <1>8, <1>9, <3>1, <3>3 DEF Behind
    <3>5. x \in Nat /\ c = page.prev
      BY <1>1, <1>7, <2>2, <3>3 DEF Link
    <3> QED BY <1>2, <1>7, <2>2, <3>1, <3>4, <3>5 DEF Ahead
  <2> QED BY <2>1, <2>2
<1> QED BY <1>4, <1>5, <1>6, <1>10, <1>11, <1>12 DEF WalkInv

\* Inserts and deletes of other requests disturb no conjunct.
LEMMA TableStep == WalkInv /\ TableNext => WalkInv'
<1> SUFFICES ASSUME WalkInv, TableNext PROVE WalkInv'
  OBVIOUS
<1> USE DEF WalkInv, Owed, Behind, Ahead, Link
<1>1. ASSUME NEW u \in Owner, BeginInsert(u) PROVE WalkInv'
  <2>1. TypeOK'
    BY <1>1, WalkAssumption DEF BeginInsert, TypeOK, Account, walk
  <2>2. LinkedAccepted' /\ StillListed'
    BY <1>1 DEF BeginInsert, walk, LinkedAccepted, StillListed, Listed
  <2> QED BY <1>1, <2>1, <2>2 DEF BeginInsert, walk
<1>2. ASSUME NEW a \in pending, CommitInsert(a) PROVE WalkInv'
  <2>1. TypeOK'
    BY <1>2 DEF CommitInsert, TypeOK, walk
  <2>2. LinkedAccepted' /\ StillListed'
    BY <1>2 DEF CommitInsert, walk, LinkedAccepted, StillListed, Listed
  <2> QED BY <1>2, <2>1, <2>2 DEF CommitInsert, walk
<1>3. ASSUME NEW a \in pending, AbortInsert(a) PROVE WalkInv'
  <2>1. TypeOK'
    BY <1>3 DEF AbortInsert, TypeOK, walk
  <2>2. LinkedAccepted' /\ StillListed'
    BY <1>3 DEF AbortInsert, walk, LinkedAccepted, StillListed, Listed
  <2> QED BY <1>3, <2>1, <2>2 DEF AbortInsert, walk
<1>4. ASSUME NEW gone \in SUBSET rows, rows' = rows \ gone, Unstable(gone),
             alive' \subseteq alive,
             UNCHANGED <<pending, last, raw, status, page, dir, seen>>
      PROVE  WalkInv'
  <2>1. TypeOK'
    BY <1>4 DEF TypeOK, Unstable
  <2>2. LinkedAccepted'
    BY <1>4 DEF LinkedAccepted
  <2>3. StillListed'
    BY <1>4 DEF StillListed, Listed, Unstable
  <2>4. Owed' /\ Behind'
    BY <1>4 DEF Unstable
  <2> QED BY <2>1, <2>2, <2>3, <2>4
<1>5. ASSUME NEW a \in rows, DeleteAccount(a) PROVE WalkInv'
  BY <1>4, <1>5 DEF DeleteAccount
<1>6. ASSUME NEW u \in Owner, DeleteUser(u) PROVE WalkInv'
  BY <1>4, <1>6 DEF DeleteUser
<1> QED BY <1>1, <1>2, <1>3, <1>5, <1>6 DEF TableNext

LEMMA ServeStep == WalkInv /\ Serve => WalkInv'
<1> SUFFICES ASSUME WalkInv, Serve PROVE WalkInv'
  OBVIOUS
<1>1. ASSUME NEW q \in OpenQueries, Open(q) PROVE WalkInv'
  <2>1. q \in RawQuery
    BY WalkAssumption DEF OpenQueries, RawQuery
  <2> QED BY <1>1, <2>1, StartStep DEF Open
<1>2. ASSUME NEW d \in {"next", "prev"}, Follow(d) PROVE WalkInv'
  <2>1. CASE dir = d
    BY <1>2, <2>1, ContinueStep DEF Follow
  <2>2. CASE dir # d
    <3>1. paginationURL(raw, d, Link(d)) \in RawQuery
      BY <1>2, LinkFacts, WalkAssumption
         DEF Follow, WalkInv, TypeOK, LinkedAccepted, Link
    <3> QED BY <1>2, <2>2, <3>1, StartStep DEF Follow
  <2> QED BY <2>1, <2>2
<1> QED BY <1>1, <1>2 DEF Serve

LEMMA InitWalkInv == Init => WalkInv
<1> SUFFICES ASSUME Init PROVE WalkInv
  OBVIOUS
<1>1. raw \in RawQuery
  BY DEF Init, NoQuery, RawQuery, RawParam
<1>2. TypeOK
  BY <1>1, WalkAssumption DEF Init, TypeOK, NoPage
<1> QED BY <1>2 DEF Init, WalkInv, LinkedAccepted, StillListed, Owed, Behind,
                    NoPage

\* WalkInv is the inductive invariant of the walk.
THEOREM WalkInvariant == Spec => []WalkInv
<1>1. WalkInv /\ [Next]_vars => WalkInv'
  <2> SUFFICES ASSUME WalkInv, [Next]_vars PROVE WalkInv'
    OBVIOUS
  <2>1. CASE UNCHANGED vars
    BY <2>1 DEF vars, WalkInv, TypeOK, LinkedAccepted, StillListed, Listed,
                Owed, Behind, Ahead, Link
  <2> QED BY <2>1, TableStep, ServeStep DEF Next
<1> QED BY <1>1, InitWalkInv, PTL DEF Spec

\* Type correctness of the tables, the request and the page.
THEOREM TypeCorrect == Spec => []TypeOK
BY WalkInvariant, PTL DEF WalkInv

\* For any page size and any inserts and deletes between the pages, a walk
\* that ran to its end has returned all that was there throughout.
THEOREM WalkComplete == Spec => []NothingSkipped
<1>1. WalkInv => NothingSkipped
  BY DEF WalkInv, Owed, Ahead, Link, NothingSkipped
<1> QED BY <1>1, WalkInvariant, PTL

\* ... and has returned nothing twice.
THEOREM WalkNoRepeats == Spec => NoRepeats
<1> DEFINE Fresh == \A d \in {"next", "prev"} :
                      Follow(d) /\ dir = d => ItemIds(page') \cap seen = {}
<1>1. WalkInv => [Fresh]_vars
  <2> SUFFICES ASSUME WalkInv PROVE Fresh
    OBVIOUS
  <2> QED BY ContinueStep DEF Follow
<1> QED BY <1>1, WalkInvariant, PTL DEF NoRepeats

\* Every link the service hands out is one it accepts.
THEOREM LinksAlwaysAccepted == Spec => []LinksAccepted
<1>1. WalkInv => LinksAccepted
  <2> SUFFICES ASSUME WalkInv, NEW d \in {"next", "prev"}, Link(d) # NoCursor
               PROVE  ~Rejected(paginationURL(raw, d, Link(d)))
    BY DEF LinksAccepted
  <2>1. /\ raw \in RawQuery /\ ~Rejected(raw)
        /\ Link(d) \in Nat \ {0}
    BY WalkAssumption DEF WalkInv, TypeOK, LinkedAccepted, Link
  <2> QED BY <2>1, LinkFacts
<1> QED BY <1>1, WalkInvariant, PTL

\* A request that is served travels the way of its cursor.
LEMMA ServedFacts ==
  ASSUME WalkInv, Serve
  PROVE  /\ raw' \in RawQuery /\ ListByUser(raw')
         /\ ~Rejected(raw') =>
              dir' = IF PageInput(raw').before # NoCursor THEN "prev" ELSE "next"
<1>1. ASSUME NEW q \in RawQuery, ListByUser(q), StartRun
      PROVE  /\ raw' \in RawQuery /\ ListByUser(raw')
             /\ ~Rejected(raw') =>
                  dir' = IF PageInput(raw').before # NoCursor
                         THEN "prev" ELSE "next"
  <2>1. raw' = q
    BY <1>1 DEF ListByUser
  <2> QED BY <1>1, <2>1, InputFacts DEF StartRun, Direction
<1>2. ASSUME NEW q \in OpenQueries, Open(q)
      PROVE  q \in RawQuery /\ ListByUser(q) /\ StartRun
  BY <1>2, WalkAssumption DEF OpenQueries, RawQuery, Open
<1>3. ASSUME NEW d \in {"next", "prev"}, Follow(d)
      PROVE  LET u == paginationURL(raw, d, Link(d))
             IN  /\ u \in RawQuery /\ ListByUser(u) /\ ~Rejected(u)
                 /\ PageInput(u).before # NoCursor <=> d = "prev"
                 /\ dir = d => dir' = d
                 /\ dir # d => StartRun
  <2>1. /\ raw \in RawQuery /\ ~Rejected(raw)
        /\ Link(d) \in Nat \ {0}
    BY <1>3, WalkAssumption DEF Follow, WalkInv, TypeOK, LinkedAccepted, Link
  <2> QED BY <1>3, <2>1, LinkFacts DEF Follow, ContinueRun
<1>4. ASSUME NEW d \in {"next", "prev"}, Follow(d), dir = d
      PROVE  /\ raw' \in RawQuery /\ ListByUser(raw')
             /\ dir' = IF PageInput(raw').before # NoCursor
                       THEN "prev" ELSE "next"
  <2>1. raw' = paginationURL(raw, d, Link(d))
    BY <1>4 DEF Follow, ListByUser
  <2> QED BY <1>3, <1>4, <2>1
<1> QED BY <1>1, <1>2, <1>3, <1>4 DEF Serve

LEMMA ServedPage ==
  ASSUME WalkInv, Serve, status' = 200
  PROVE  /\ PageSound(Listed, PageInput(raw'), page')
         /\ dir' = IF PageInput(raw').before # NoCursor THEN "prev" ELSE "next"
         /\ Listed \subseteq Nat
<1>1. raw' \in RawQuery /\ ListByUser(raw') /\ TypeOK
  BY ServedFacts DEF WalkInv
<1>2. ~Rejected(raw')
  BY <1>1 DEF ListByUser
<1> QED BY <1>1, <1>2, ServedFacts, AnswerFacts, ListedIds DEF Ids

\* The over-fetch by one row decides the link onwards rightly, for every page
\* size, table and cursor.
THEOREM OnwardLink == Spec => OnwardLinkExact
<1> DEFINE rest  == Selected(Listed, PageInput(raw')) \ ItemIds(page')
           Exact == Serve /\ status' = 200 =>
                      /\ dir' = "next" => (page'.next = NoCursor <=> rest = {})
                      /\ dir' = "prev" => (page'.prev = NoCursor <=> rest = {})
<1>1. WalkInv => [Exact]_vars
  <2> SUFFICES ASSUME WalkInv, Serve, status' = 200 PROVE Exact
    OBVIOUS
  <2> QED BY ServedPage DEF PageSound
<1> QED BY <1>1, WalkInvariant, PTL DEF OnwardLinkExact

\* A page is ascending and without holes, in both directions of travel.
THEOREM PageWindow == Spec => PageIsWindow
<1> DEFINE input  == PageInput(raw')
           items  == page'.items
           sel    == Selected(Listed, input)
           Window == Serve /\ status' = 200 =>
             /\ \A i, j \in DOMAIN items : i < j => items[i] < items[j]
             /\ ItemIds(page') \subseteq sel
             /\ \A x \in sel \ ItemIds(page'), y \in ItemIds(page') :
                  IF input.before # NoCursor THEN x < y ELSE y < x
<1>1. WalkInv => [Window]_vars
  <2> SUFFICES ASSUME WalkInv, Serve, status' = 200 PROVE Window
    OBVIOUS
  <2>1. PageSound(Listed, input, page') /\ Listed \subseteq Nat
    BY ServedPage
  <2>2. /\ DOMAIN items = 1..Len(items)
        /\ ItemIds(page') \subseteq sel
    BY <2>1 DEF PageSound, ItemIds
  <2>3. sel \subseteq Nat
    BY <2>1 DEF Selected
  <2> HIDE DEF input, sel
  <2> QED BY <2>1, <2>2, <2>3 DEF PageSound, Precedes, input, sel
<1> QED BY <1>1, WalkInvariant, PTL DEF PageIsWindow

\* Onwards and back, while the table stays as it is, is where the client was:
\* for every page size, table, cursor and direction of travel.
THEOREM RoundTrips == Spec => []RoundTrip
<1>1. ASSUME WalkInv, page \in Pages(Listed, raw), NEW d \in {"next", "prev"},
             Link(d) # NoCursor
      PROVE  /\ Listed \in SUBSET (Nat \ {0}) /\ raw \in RawQuery /\ ~Rejected(raw)
             /\ Link(d) \in Nat \ {0}
             /\ PageInput(raw) \in InputType
             /\ PageSound(Listed, PageInput(raw), page)
  <2>1. /\ raw \in RawQuery /\ ~Rejected(raw) /\ Link(d) \in Nat \ {0}
    BY <1>1, WalkAssumption DEF WalkInv, TypeOK, LinkedAccepted, Link
  <2>2. Listed \in SUBSET (Nat \ {0})
    BY <1>1, ListedIds DEF WalkInv, Ids
  <2> QED BY <1>1, <2>1, <2>2, InputFacts, PagesSound
<1>2. ASSUME WalkInv, page \in Pages(Listed, raw), page.next # NoCursor,
             NEW p \in Pages(Listed, paginationURL(raw, "next", page.next)),
             p.prev # NoCursor,
             NEW p2 \in Pages(Listed,
                   paginationURL(paginationURL(raw, "next", page.next),
                                 "prev", p.prev))
      PROVE  p2.items = page.items
  <2> DEFINE u == paginationURL(paginationURL(raw, "next", page.next),
                                "prev", p.prev)
             K == PageInput(u)
             T == {x \in Listed : x <= page.next}
  <2>1. /\ Listed \in SUBSET (Nat \ {0}) /\ raw \in RawQuery /\ ~Rejected(raw)
        /\ page.next \in Nat \ {0} /\ PageInput(raw) \in InputType
        /\ PageSound(Listed, PageInput(raw), page)
    BY <1>1, <1>2 DEF Link
  <2>2. /\ u \in RawQuery /\ ~Rejected(u) /\ K.before # NoCursor
        /\ K.size = PageInput(raw).size /\ Selected(Listed, K) = T
    BY <1>2, <2>1, BackFromNext
  <2>3. K \in InputType
    BY <2>2, InputFacts
  <2>4. page.items # <<>> /\ page.next = page.items[Len(page.items)]
    BY <1>2, PageEnds
  <2>5. IsWindow(page.items, T, K)
    BY <1>2, <2>1, <2>2, <2>3, <2>4, WindowFromEnd
  <2>6. PageSound(Listed, K, p2)
    BY <1>2, <2>1, <2>2, PagesSound
  <2>7. IsWindow(p2.items, T, K)
    BY <2>2, <2>6, PageWindowed
  <2>8. T \in SUBSET Nat
    BY <2>1
  <2> HIDE DEF T, K
  <2> QED BY <2>3, <2>5, <2>7, <2>8, SameWindow
<1>3. ASSUME WalkInv, page \in Pages(Listed, raw), page.prev # NoCursor,
             NEW p \in Pages(Listed, paginationURL(raw, "prev", page.prev)),
             p.next # NoCursor,
             NEW p2 \in Pages(Listed,
                   paginationURL(paginationURL(raw, "prev", page.prev),
                                 "next", p.next))
      PROVE  p2.items = page.items
  <2> DEFINE u == paginationURL(paginationURL(raw, "prev", page.prev),
                                "next", p.next)
             K == PageInput(u)
             T == {x \in Listed : x >= page.prev}
  <2>1. /\ Listed \in SUBSET (Nat \ {0}) /\ raw \in RawQuery /\ ~Rejected(raw)
        /\ page.prev \in Nat \ {0} /\ PageInput(raw) \in InputType
        /\ PageSound(Listed, PageInput(raw), page)
    BY <1>1, <1>3 DEF Link
  <2>2. /\ u \in RawQuery /\ ~Rejected(u) /\ K.before = NoCursor
        /\ K.size = PageInput(raw).size /\ Selected(Listed, K) = T
    BY <1>3, <2>1, BackFromPrev
  <2>3. K \in InputType
    BY <2>2, InputFacts
  <2>4. page.items # <<>> /\ page.prev = page.items[1]
    BY <1>3, PageEnds
  <2>5. IsWindow(page.items, T, K)
    BY <1>3, <2>1, <2>2, <2>3, <2>4, WindowFromStart
  <2>6. PageSound(Listed, K, p2)
    BY <1>3, <2>1, <2>2, PagesSound
  <2>7. IsWindow(p2.items, T, K)
    BY <2>2, <2>6, PageWindowed
  <2>8. T \in SUBSET Nat
    BY <2>1
  <2> HIDE DEF T, K
  <2> QED BY <2>3, <2>5, <2>7, <2>8, SameWindow
<1>4. WalkInv => RoundTrip
  BY <1>2, <1>3 DEF RoundTrip, Link
<1> QED BY <1>4, WalkInvariant, PTL

\* A walk advances: the link onwards of a page lies beyond the one that led to
\* it, so that a client that follows links one way comes to an end, unless rows
\* are added faster than it reads.
Advances ==
  \A d \in {"next", "prev"} :
    Follow(d) /\ dir = d =>
      /\ d = "next" /\ page'.next # NoCursor => page'.next > page.next
      /\ d = "prev" /\ page'.prev # NoCursor => page'.prev < page.prev

THEOREM WalkAdvances == Spec => [][Advances]_vars
<1>1. ASSUME WalkInv, NEW d \in {"next", "prev"}, Follow(d)
      PROVE  /\ d = "next" /\ page'.next # NoCursor => page'.next > page.next
             /\ d = "prev" /\ page'.prev # NoCursor => page'.prev < page.prev
  <2> DEFINE c     == Link(d)
             u     == paginationURL(raw, d, c)
             input == PageInput(u)
  <2>1. TypeOK /\ c \in Nat \ {0} /\ ~Rejected(raw) /\ raw \in RawQuery
    BY <1>1, WalkAssumption DEF Follow, WalkInv, TypeOK, Link, LinkedAccepted
  <2>2. /\ u \in RawQuery /\ ~Rejected(u)
        /\ d = "next" => input.before = NoCursor /\ input.after = c
        /\ d = "prev" => input.before = c
    BY <2>1, LinkFacts
  <2>3. PageSound(Listed, input, page')
    BY <1>1, <2>1, <2>2, AnswerFacts DEF Follow
  <2>4. ItemIds(page') \subseteq Selected(Listed, input)
    BY <2>3 DEF PageSound, ItemIds
  <2>5. /\ page'.next # NoCursor => page'.next \in Selected(Listed, input)
        /\ page'.prev # NoCursor => page'.prev \in Selected(Listed, input)
    BY <2>3, <2>4 DEF PageSound
  <2> HIDE DEF input, u
  <2>6. CASE d = "next"
    BY <2>1, <2>2, <2>5, <2>6 DEF Selected, Link
  <2>7. CASE d = "prev"
    BY <2>1, <2>2, <2>5, <2>7 DEF Selected, Link
  <2> QED BY <2>6, <2>7
<1>2. WalkInv => [Advances]_vars
  BY <1>1 DEF Advances
<1> QED BY <1>2, WalkInvariant, PTL
=============================================================================
