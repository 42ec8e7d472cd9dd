------------------------- MODULE ResultPagingProofs -------------------------
(***************************************************************************)
(* Theorems of ResultPaging, for any runs, length of the history, tables   *)
(* and limits of a page.                                                   *)
(***************************************************************************)
EXTENDS ResultPaging, SequenceTheorems, WellFoundedInduction, TLAPS

-----------------------------------------------------------------------------
(* Results, and what a fetch returns.                                      *)

LEMMA ResultElem ==
  /\ \A c \in Result : /\ c[1] \in Run /\ c[2] \in 1 .. Batches[c[1]]
                       /\ c = <<c[1], c[2]>>
  /\ \A r \in Run : \A i \in 1 .. Batches[r] : <<r, i>> \in Result
  /\ Run = 1 .. Len(Batches) /\ Len(Batches) \in Nat
  /\ \A r \in Run : Batches[r] \in Nat /\ Batches[r] >= 1
  /\ NoView \notin Result
<1>1. Run = 1 .. Len(Batches) /\ Len(Batches) \in Nat
  BY ResultPagingAssumption DEF Run
<1>2. \A r \in Run : Batches[r] \in Nat /\ Batches[r] >= 1
  BY <1>1, ResultPagingAssumption
<1>3. \A c \in Result : /\ c[1] \in Run /\ c[2] \in 1 .. Batches[c[1]]
                        /\ c = <<c[1], c[2]>>
  BY DEF Result
<1>4. \A r \in Run : \A i \in 1 .. Batches[r] : <<r, i>> \in Result
  BY DEF Result
<1>5. NoView \notin Result
  BY <1>1, <1>3 DEF NoView
<1> QED BY <1>1, <1>2, <1>3, <1>4, <1>5

\* There is a longest page: none is longer than PageSize, and one of no rows fits.
LEMMA PageRowsFits ==
  ASSUME NEW t \in Seq(Nat), NEW p \in 0 .. Len(t)
  PROVE  /\ PageRows(t, p) \in 0 .. PageSize
         /\ Fits(t, p, PageRows(t, p))
<1>1. PageSize \in Nat /\ MaxBytes \in Nat
  BY ResultPagingAssumption
<1>2. Fits(t, p, 0)
  <2>1. BytesUpTo(t, p) \in Nat
    BY DEF BytesUpTo
  <2> QED BY <1>1, <2>1 DEF Fits
<1> DEFINE D == {d \in 0 .. PageSize : Fits(t, p, PageSize - d)}
<1>3. D \subseteq Nat /\ D # {}
  <2>1. PageSize \in D
    BY <1>1, <1>2
  <2> QED BY <2>1
<1>4. \E d \in D : \A e \in D : d <= e
  <2> DEFINE R == OpToRel(<, Nat)
  <2>1. IsWellFoundedOn(R, Nat)
    BY NatLessThanWellFounded
  <2>2. \A d, e \in Nat : ~(<<e, d>> \in R) => d <= e
    BY DEF OpToRel
  <2> HIDE DEF D, R
  <2>3. \E d \in D : \A e \in D : ~(<<e, d>> \in R)
    BY <1>3, <2>1, WFMin
  <2> QED BY <2>2, <2>3, <1>3
<1>5. PICK d \in D : \A e \in D : d <= e
  BY <1>4
<1>6. PageSize - d \in 0 .. PageSize /\ Fits(t, p, PageSize - d)
  BY <1>1
<1>7. ASSUME NEW m \in 0 .. PageSize, Fits(t, p, m)
      PROVE  m <= PageSize - d
  <2>1. PageSize - m \in 0 .. PageSize /\ PageSize - (PageSize - m) = m
    BY <1>1
  <2>2. PageSize - m \in D
    BY <2>1, <1>7
  <2>3. d \in Nat /\ d <= PageSize - m
    BY <2>2, <1>5, <1>3
  <2> QED BY <2>3, <1>1
<1>8. \E n \in 0 .. PageSize :
        Fits(t, p, n) /\ \A m \in 0 .. PageSize : Fits(t, p, m) => m <= n
  <2> HIDE DEF D
  <2> QED BY <1>6, <1>7
<1> QED BY <1>8 DEF PageRows

\* A fetch returns the rows after p, one after the other; it goes on in the
\* table, and is exhausted only at its end.
LEMMA FetchFacts ==
  ASSUME NEW t \in Seq(Nat), NEW p \in 0 .. Len(t)
  PROVE  LET f == Fetch(t, p)
         IN  /\ f.rows \in Seq(Nat) /\ f.exhausted \in BOOLEAN
             /\ f.pos \in Nat /\ f.pos <= Len(t) /\ p + Len(f.rows) <= f.pos
             /\ \A k \in 1 .. Len(f.rows) : f.rows[k] = p + k
             /\ f.exhausted => f.pos = Len(t)
<1> DEFINE n == PageRows(t, p)
           rows == [k \in 1 .. n |-> p + k]
<1>1. PageSize \in Nat /\ Len(t) \in Nat /\ p \in Nat
  BY ResultPagingAssumption
<1>2. n \in Nat /\ p + n <= Len(t)
  BY <1>1, PageRowsFits DEF Fits
<1> HIDE DEF n
<1>3. rows \in Seq(Nat) /\ Len(rows) = n /\ \A k \in 1 .. n : rows[k] = p + k
  BY <1>1, <1>2
<1> HIDE DEF rows
<1>4. Fetch(t, p) = [rows |-> rows, exhausted |-> n < PageSize /\ p + n = Len(t),
                      pos |-> IF n = PageSize \/ (n < PageSize /\ p + n = Len(t))
                              THEN p + n ELSE p + n + 1]
  BY DEF Fetch, n, rows
<1> DEFINE f == Fetch(t, p)
<1>5. /\ f.rows = rows
      /\ f.exhausted = (n < PageSize /\ p + n = Len(t))
      /\ f.pos = IF n = PageSize \/ (n < PageSize /\ p + n = Len(t))
                 THEN p + n ELSE p + n + 1
  BY <1>4
<1> HIDE DEF f
<1>6. n <= PageSize
  BY <1>1, PageRowsFits DEF n
<1>7. f.pos \in Nat /\ f.pos <= Len(t) /\ p + n <= f.pos
  BY <1>1, <1>2, <1>5, <1>6
<1>8. f.exhausted => f.pos = Len(t)
  BY <1>5
<1> QED BY <1>3, <1>5, <1>7, <1>8 DEF f

-----------------------------------------------------------------------------
(* The inductive invariant.                                                *)

Statuses == {"none", "pending", "running", "ok", "error", "cancelled", "skipped"}
Outcome == [status : Statuses, rows : Seq(Nat), cursor : BOOLEAN,
            exhausted : BOOLEAN, fetching : BOOLEAN,
            message : {"none", "failed", "expired"}]
Reply == [kind : Kinds, rows : Seq(Nat), exhausted : BOOLEAN]
Request == [at : Result, base : Seq(Nat), answer : Reply]

Types ==
  /\ begun \in 0 .. Len(Batches) /\ faults \in 0 .. MaxFaults
  /\ result \in [Result -> Outcome]
  /\ selected \in Result \cup {NoView} /\ fetchingRef \subseteq Result
  /\ statement \in [Result -> Reply]
  /\ fetches \subseteq Request /\ strays \subseteq Result
  /\ closers \subseteq SUBSET Result
  /\ cursor \in [Result -> {"none", "open", "closed"}]
  /\ table \in [Result -> Seq(Nat)] /\ pos \in [Result -> Nat]
  /\ dropped \in [Result -> SUBSET Nat] /\ lost \in [Result -> SUBSET Nat]
  /\ forgotten \subseteq Result
  /\ \A c \in Result : pos[c] <= Len(table[c])

\* The runs are listed in the order they began, no more than the cap, and a
\* result is kept while its run is listed.
Lists ==
  /\ runs \in Seq(1 .. begun) /\ Len(runs) <= RunHistoryCap
  /\ \A k, l \in DOMAIN runs : k < l => runs[k] < runs[l]
  /\ \A c \in Result : result[c].status # "none" <=> Listed(c[1])

\* What is selected is listed; a mounted view waits for pages of its run.
Views ==
  /\ selected # NoView => result[selected].status # "none"
  /\ \A c \in fetchingRef : c[1] = View(result, selected)[1]

\* Statements a batch has still to send, of this run or a later one.
Ahead(c) ==
  \/ c[1] > begun
  \/ \E d \in Result : statement[d].kind # "none" /\ d[1] = c[1] /\ d[2] < c[2]

\* Nobody reads from a cursor of c.
Quiet(c) == c \notin strays /\ \A f \in fetches : f.at # c
Unread(c) == pos[c] = 0 /\ dropped[c] = {} /\ lost[c] = {}

\* One statement is executed at a time, of the run that began last; until it
\* is answered nobody reads on from it, and those after it have not begun.
Batch ==
  /\ \A c \in Result : statement[c].kind # "none" =>
       /\ c[1] = begun /\ Quiet(c)
       /\ \A d \in Result : statement[d].kind # "none" => c = d
       /\ Listed(c[1]) => result[c] = Plain("running")
       /\ statement[c].kind = "asked" => Unread(c)
  /\ \A c \in Result : Ahead(c) =>
       /\ Quiet(c) /\ Unread(c)
       /\ Listed(c[1]) => result[c] = Plain("pending")

\* Only a result that came has rows and a cursor, and only one with a cursor
\* is waited for.
Outcomes ==
  \A c \in Result :
    /\ result[c].status # "ok" => result[c] = Plain(result[c].status)
    /\ result[c].fetching => result[c].cursor

\* A request has the rows its result has. The answer that a cursor is
\* exhausted or gone is true when it arrives.
Requests ==
  \A f \in fetches :
    /\ Listed(f.at[1]) => f.base = result[f.at].rows
    /\ f.answer.kind \in {"asked", "page", "gone", "failed"}
    /\ f.answer.kind = "gone" => cursor[f.at] # "open"
    /\ (f.answer.kind = "page" /\ f.answer.exhausted) =>
         cursor[f.at] # "open" /\ pos[f.at] = Len(table[f.at])
    /\ f.answer.kind # "page" => f.answer.rows = <<>>

\* The first page of a result on its way.
FirstPages ==
  \A c \in Result : statement[c].kind = "page" =>
    /\ Increasing(statement[c].rows) /\ Account(c, statement[c].rows)
    /\ statement[c].exhausted => cursor[c] # "open" /\ pos[c] = Len(table[c])

\* A result without a cursor and without a message has been read to the end.
ReadToTheEnd ==
  \A c \in Result :
    (result[c].status = "ok" /\ ~result[c].cursor /\ result[c].message = "none")
      => pos[c] = Len(table[c])

PagingInv ==
  /\ Types /\ Lists /\ Views /\ Batch /\ Outcomes /\ FetchingHasFlight
  /\ Requests /\ FirstPages /\ RowsAccounted /\ ReadToTheEnd /\ CursorsHeld

-----------------------------------------------------------------------------
(* Rows.                                                                   *)

LEMMA ToSetFacts ==
  /\ \A s : ToSet(s) = {s[i] : i \in DOMAIN s}
  /\ ToSet(<<>>) = {}
  /\ \A s, t \in Seq(Nat) : ToSet(s \o t) = ToSet(s) \cup ToSet(t)
  /\ \A s \in Seq(Nat) : s \o <<>> = s /\ <<>> \o s = s
<1>1. \A s : ToSet(s) = {s[i] : i \in DOMAIN s}
  BY DEF ToSet
<1>2. ToSet(<<>>) = {}
  BY <1>1
<1>3. ASSUME NEW s \in Seq(Nat), NEW t \in Seq(Nat)
      PROVE  ToSet(s \o t) = ToSet(s) \cup ToSet(t)
  <2> DEFINE all == s \o t
  <2>1. /\ all \in Seq(Nat) /\ Len(all) = Len(s) + Len(t)
        /\ \A i \in 1 .. Len(s) + Len(t) :
             all[i] = IF i <= Len(s) THEN s[i] ELSE t[i - Len(s)]
    BY ConcatProperties
  <2> HIDE DEF all
  <2>a. DOMAIN all = 1 .. Len(s) + Len(t)
    BY <2>1, LenProperties
  <2>2. /\ ToSet(all) = {all[i] : i \in 1 .. Len(s) + Len(t)}
        /\ ToSet(s) = {s[i] : i \in 1 .. Len(s)}
        /\ ToSet(t) = {t[i] : i \in 1 .. Len(t)}
    BY <2>a DEF ToSet
  <2>b. Len(s) \in Nat /\ Len(t) \in Nat
    OBVIOUS
  <2>3. ASSUME NEW i \in 1 .. Len(s) + Len(t)
        PROVE  all[i] \in ToSet(s) \cup ToSet(t)
    <3>1. CASE i <= Len(s)
      <4>1. i \in 1 .. Len(s) /\ all[i] = s[i]
        BY <2>1, <2>b, <3>1
      <4> QED BY <2>2, <4>1
    <3>2. CASE i > Len(s)
      <4>1. i - Len(s) \in 1 .. Len(t) /\ all[i] = t[i - Len(s)]
        BY <2>1, <2>b, <3>2
      <4> QED BY <2>2, <4>1
    <3> QED BY <3>1, <3>2
  <2>4. ASSUME NEW i \in 1 .. Len(s) PROVE s[i] \in ToSet(all)
    <3>1. i \in 1 .. Len(s) + Len(t) /\ all[i] = s[i]
      BY <2>1
    <3> QED BY <2>2, <3>1
  <2>5. ASSUME NEW i \in 1 .. Len(t) PROVE t[i] \in ToSet(all)
    <3>1. /\ Len(s) + i \in 1 .. Len(s) + Len(t)
          /\ ~(Len(s) + i <= Len(s)) /\ Len(s) + i - Len(s) = i
      BY <2>b
    <3>2. all[Len(s) + i] = t[i]
      BY <2>1, <3>1
    <3> QED BY <2>2, <3>1, <3>2
  <2>6. ToSet(all) = ToSet(s) \cup ToSet(t)
    BY <2>2, <2>3, <2>4, <2>5
  <2> QED BY <2>6 DEF all
<1>4. \A s \in Seq(Nat) : s \o <<>> = s /\ <<>> \o s = s
  OBVIOUS
<1> QED BY <1>1, <1>2, <1>3, <1>4

\* The rows before those that are about to arrive are in order, too.
LEMMA IncreasingPrefix ==
  ASSUME NEW s \in Seq(Nat), NEW t \in Seq(Nat), Increasing(s \o t)
  PROVE  Increasing(s)
<1> DEFINE all == s \o t
<1>1. /\ all \in Seq(Nat) /\ Len(all) = Len(s) + Len(t)
      /\ \A i \in 1 .. Len(s) + Len(t) :
           all[i] = IF i <= Len(s) THEN s[i] ELSE t[i - Len(s)]
  BY ConcatProperties
<1>2. Increasing(all)
  OBVIOUS
<1> HIDE DEF all
<1>3. DOMAIN all = 1 .. Len(s) + Len(t) /\ DOMAIN s = 1 .. Len(s)
  BY <1>1, LenProperties
<1>4. Len(s) \in Nat /\ Len(t) \in Nat
  OBVIOUS
<1>5. \A i \in 1 .. Len(s) : i \in DOMAIN all /\ all[i] = s[i]
  BY <1>1, <1>3, <1>4
<1> QED BY <1>2, <1>3, <1>5 DEF Increasing

\* Every row up to position p is among these rows, in D or in L.
Covered(rows, D, L, p) == ToSet(rows) \cup D \cup L = 1 .. p

\* What is read next comes after the rows there are: they stay in order, and
\* every row up to the new position is among them, dropped or lost.
LEMMA ReadOn ==
  ASSUME NEW t \in Seq(Nat), NEW p \in 0 .. Len(t),
         NEW rows \in Seq(Nat), NEW D \in SUBSET Nat, NEW L \in SUBSET Nat,
         Increasing(rows), Covered(rows, D, L, p),
         NEW f, f = Fetch(t, p),
         NEW skipped, skipped = (p + Len(f.rows) + 1) .. f.pos
  PROVE  /\ Increasing(rows \o f.rows)
         /\ Covered(rows \o f.rows, D \cup skipped, L, f.pos)
         /\ Covered(rows, D \cup skipped, L \cup ToSet(f.rows), f.pos)
<1>1. /\ f.rows \in Seq(Nat) /\ f.pos \in Nat /\ p + Len(f.rows) <= f.pos
      /\ \A k \in 1 .. Len(f.rows) : f.rows[k] = p + k
  BY FetchFacts
<1> DEFINE page == f.rows
           all == rows \o page
<1>a. /\ all \in Seq(Nat) /\ Len(all) = Len(rows) + Len(page)
      /\ \A i \in 1 .. Len(rows) + Len(page) :
           all[i] = IF i <= Len(rows) THEN rows[i] ELSE page[i - Len(rows)]
  BY <1>1, ConcatProperties
<1> HIDE DEF all, page
<1>b. /\ page \in Seq(Nat) /\ p + Len(page) <= f.pos /\ f.pos \in Nat
      /\ \A k \in 1 .. Len(page) : page[k] = p + k
  BY <1>1 DEF page
<1>c. Len(rows) \in Nat /\ Len(page) \in Nat /\ DOMAIN rows = 1 .. Len(rows)
  BY <1>b
<1>2. \A i \in 1 .. Len(rows) : rows[i] \in Nat /\ rows[i] <= p
  <2>1. \A i \in 1 .. Len(rows) : rows[i] \in ToSet(rows)
    BY <1>c, ToSetFacts
  <2>2. ToSet(rows) \subseteq 1 .. p
    BY DEF Covered
  <2> QED BY <2>1, <2>2
<1>3. Increasing(all)
  <2>1. SUFFICES ASSUME NEW i \in 1 .. Len(rows) + Len(page),
                        NEW j \in 1 .. Len(rows) + Len(page), i < j
                 PROVE  all[i] < all[j]
    BY <1>a DEF Increasing
  <2>2. CASE j <= Len(rows)
    <3>1. i \in DOMAIN rows /\ j \in DOMAIN rows
      BY <1>c, <2>1, <2>2
    <3>2. all[i] = rows[i] /\ all[j] = rows[j]
      BY <1>a, <1>c, <2>1, <2>2
    <3> QED BY <2>1, <3>1, <3>2 DEF Increasing
  <2>3. CASE i <= Len(rows) /\ j > Len(rows)
    <3>1. all[i] = rows[i] /\ rows[i] \in Nat /\ rows[i] <= p
      BY <1>a, <1>c, <1>2, <2>3
    <3>2. j - Len(rows) \in 1 .. Len(page) /\ all[j] = page[j - Len(rows)]
      BY <1>a, <1>c, <2>3
    <3>3. all[j] = p + (j - Len(rows)) /\ j - Len(rows) > 0
      BY <1>b, <3>2
    <3> QED BY <3>1, <3>3
  <2>4. CASE i > Len(rows)
    <3>1. i - Len(rows) \in 1 .. Len(page) /\ all[i] = page[i - Len(rows)]
      BY <1>a, <1>c, <2>4
    <3>2. j - Len(rows) \in 1 .. Len(page) /\ all[j] = page[j - Len(rows)]
      BY <1>a, <1>c, <2>1, <2>4
    <3>3. all[i] = p + (i - Len(rows)) /\ all[j] = p + (j - Len(rows))
      BY <1>b, <3>1, <3>2
    <3> QED BY <2>1, <3>3
  <2> QED BY <2>2, <2>3, <2>4
<1>4. ToSet(page) \cup skipped = (p + 1) .. f.pos
  <2>1. ToSet(page) = {page[k] : k \in 1 .. Len(page)}
    BY <1>b, ToSetFacts
  <2>2. ASSUME NEW x \in (p + 1) .. (p + Len(page))
        PROVE  x - p \in 1 .. Len(page) /\ x = page[x - p]
    <3>1. x - p \in 1 .. Len(page) /\ x = p + (x - p)
      BY <1>b
    <3> QED BY <1>b, <3>1
  <2>3. \A k \in 1 .. Len(page) : page[k] \in (p + 1) .. (p + Len(page))
    BY <1>b
  <2>4. ToSet(page) = (p + 1) .. (p + Len(page))
    BY <2>1, <2>2, <2>3
  <2>5. skipped = (p + Len(page) + 1) .. f.pos
    BY DEF page
  <2> QED BY <1>b, <2>4, <2>5
<1>5. (1 .. p) \cup ((p + 1) .. f.pos) = 1 .. f.pos
  BY <1>b, <1>1
<1>6. ToSet(all) = ToSet(rows) \cup ToSet(page)
  BY <1>b, ToSetFacts DEF all
<1>7. ToSet(all) \cup (D \cup skipped) \cup L = 1 .. f.pos
  BY <1>4, <1>5, <1>6 DEF Covered
<1>8. ToSet(rows) \cup (D \cup skipped) \cup (L \cup ToSet(page)) = 1 .. f.pos
  BY <1>4, <1>5 DEF Covered
<1> QED BY <1>3, <1>7, <1>8 DEF page, all, Covered

\* At most one page of a result is about to arrive.
ComingOf(F, c) ==
  LET pages == {f \in F : f.at = c /\ f.answer.kind = "page"}
  IN  IF pages = {} THEN <<>> ELSE (CHOOSE f \in pages : TRUE).answer.rows

LEMMA SamePages ==
  ASSUME NEW F, NEW G, NEW c,
         \A f : f.at = c /\ f.answer.kind = "page" => (f \in F <=> f \in G)
  PROVE  ComingOf(F, c) = ComingOf(G, c)
<1> DEFINE P == {f \in F : f.at = c /\ f.answer.kind = "page"}
           Q == {f \in G : f.at = c /\ f.answer.kind = "page"}
<1>1. P = Q
  OBVIOUS
<1>2. /\ ComingOf(F, c) = IF P = {} THEN <<>> ELSE (CHOOSE f \in P : TRUE).answer.rows
      /\ ComingOf(G, c) = IF Q = {} THEN <<>> ELSE (CHOOSE f \in Q : TRUE).answer.rows
  BY DEF ComingOf
<1> HIDE DEF P, Q
<1> QED BY <1>1, <1>2

LEMMA ComingFacts ==
  ASSUME NEW F, \A f, g \in F : f.at = g.at => f = g
  PROVE  /\ \A f \in F : f.answer.kind = "page" => ComingOf(F, f.at) = f.answer.rows
         /\ \A f \in F : f.answer.kind # "page" => ComingOf(F, f.at) = <<>>
         /\ \A c : (\A f \in F : f.at # c) => ComingOf(F, c) = <<>>
<1> DEFINE pages(c) == {f \in F : f.at = c /\ f.answer.kind = "page"}
<1>1. \A c : pages(c) = {} => ComingOf(F, c) = <<>>
  BY DEF ComingOf
<1>2. ASSUME NEW f \in F, f.answer.kind = "page"
      PROVE  ComingOf(F, f.at) = f.answer.rows
  <2>1. pages(f.at) = {f}
    BY <1>2
  <2>2. (CHOOSE g \in pages(f.at) : TRUE) = f
    BY <2>1
  <2> QED BY <2>1, <2>2 DEF ComingOf
<1>3. ASSUME NEW f \in F, f.answer.kind # "page" PROVE pages(f.at) = {}
  BY <1>3
<1>4. \A c : (\A f \in F : f.at # c) => pages(c) = {}
  OBVIOUS
<1> HIDE DEF pages
<1> QED BY <1>1, <1>2, <1>3, <1>4

-----------------------------------------------------------------------------
(* The list of runs.                                                       *)

\* Eviction keeps the end of the list, and the run that is last in it.
LEMMA KeptIsTheEnd ==
  ASSUME NEW S, NEW list \in Seq(S), list # <<>>
  PROVE  LET n == Len(list)
             e == Excess(list)
             kept == SubSeq(list, e + 1, n)
         IN  /\ e \in 0 .. n - 1
             /\ kept \in Seq(S) /\ Len(kept) = n - e /\ Len(kept) <= RunHistoryCap
             /\ \A k \in 1 .. n - e : kept[k] = list[k + e]
<1> DEFINE n == Len(list)
           e == Excess(list)
           kept == SubSeq(list, e + 1, n)
<1>1. n \in Nat \ {0} /\ \A k \in 1 .. n : list[k] \in S
  OBVIOUS
<1>2. RunHistoryCap \in Nat \ {0}
  BY ResultPagingAssumption
<1>3. e \in 0 .. n - 1 /\ n - e <= RunHistoryCap
  BY <1>1, <1>2 DEF Excess
<1>4. e + 1 \in Int /\ n \in Int /\ e + 1 <= n /\ \A i \in e + 1 .. n : list[i] \in S
  BY <1>1, <1>3
<1> HIDE DEF e, n
<1>5. /\ kept \in Seq(S)
      /\ Len(kept) = IF e + 1 <= n THEN n - (e + 1) + 1 ELSE 0
      /\ \A i \in 1 .. n - (e + 1) + 1 : kept[i] = list[e + 1 + i - 1]
  BY <1>4, SubSeqProperties
<1> HIDE DEF kept
<1>6. Len(kept) = n - e /\ \A k \in 1 .. n - e : kept[k] = list[k + e]
  BY <1>1, <1>3, <1>4, <1>5
<1> QED BY <1>1, <1>3, <1>5, <1>6 DEF kept, e, n

LEMMA RemoveAtFacts ==
  ASSUME NEW S, NEW list \in Seq(S), NEW k \in 1 .. Len(list)
  PROVE  /\ RemoveAt(list, k) \in Seq(S)
         /\ Len(RemoveAt(list, k)) = Len(list) - 1
         /\ \A i \in 1 .. Len(list) - 1 :
              RemoveAt(list, k)[i] = IF i < k THEN list[i] ELSE list[i + 1]
<1> DEFINE n == Len(list)
           a == SubSeq(list, 1, k - 1)
           b == SubSeq(list, k + 1, n)
<1>1. n \in Nat /\ k \in Nat \ {0} /\ k <= n /\ \A i \in 1 .. n : list[i] \in S
  OBVIOUS
<1>2. /\ a \in Seq(S) /\ Len(a) = k - 1
      /\ \A i \in 1 .. k - 1 : a[i] = list[i]
  <2>1. \A i \in 1 .. k - 1 : list[i] \in S
    BY <1>1
  <2>2. /\ a \in Seq(S) /\ Len(a) = IF 1 <= k - 1 THEN k - 1 - 1 + 1 ELSE 0
        /\ \A i \in 1 .. k - 1 - 1 + 1 : a[i] = list[1 + i - 1]
    BY <1>1, <2>1, SubSeqProperties
  <2> HIDE DEF a
  <2> QED BY <1>1, <2>2
<1>3. /\ b \in Seq(S) /\ Len(b) = n - k
      /\ \A i \in 1 .. n - k : b[i] = list[k + i]
  <2>1. \A i \in k + 1 .. n : list[i] \in S
    BY <1>1
  <2>2. /\ b \in Seq(S) /\ Len(b) = IF k + 1 <= n THEN n - (k + 1) + 1 ELSE 0
        /\ \A i \in 1 .. n - (k + 1) + 1 : b[i] = list[k + 1 + i - 1]
    BY <1>1, <2>1, SubSeqProperties
  <2> HIDE DEF b
  <2> QED BY <1>1, <2>2
<1>4. RemoveAt(list, k) = a \o b
  BY DEF RemoveAt
<1> HIDE DEF a, b
<1> DEFINE rest == a \o b
<1>5. /\ rest \in Seq(S) /\ Len(rest) = Len(a) + Len(b)
      /\ \A i \in 1 .. Len(a) + Len(b) :
           rest[i] = IF i <= Len(a) THEN a[i] ELSE b[i - Len(a)]
  BY <1>2, <1>3, ConcatProperties
<1> HIDE DEF rest
<1>6. ASSUME NEW i \in 1 .. n - 1
      PROVE  rest[i] = IF i < k THEN list[i] ELSE list[i + 1]
  <2>1. CASE i < k
    BY <1>1, <1>2, <1>3, <1>5, <2>1
  <2>2. CASE ~(i < k)
    <3>1. /\ i \in 1 .. Len(a) + Len(b) /\ ~(i <= Len(a))
          /\ i - Len(a) \in 1 .. n - k /\ k + (i - Len(a)) = i + 1
      BY <1>1, <1>2, <1>3, <2>2
    <3> QED BY <1>3, <1>5, <2>2, <3>1
  <2> QED BY <2>1, <2>2
<1>7. Len(rest) = n - 1
  BY <1>1, <1>2, <1>3, <1>5
<1> QED BY <1>4, <1>5, <1>6, <1>7 DEF rest

-----------------------------------------------------------------------------
(* Parts of the invariant that several actions keep for one reason.        *)

LEMMA PlainFacts ==
  \A s \in Statuses :
    /\ Plain(s) \in Outcome /\ Plain(s).status = s /\ Plain(s).message = "none"
    /\ ~Plain(s).cursor /\ ~Plain(s).fetching /\ Plain(s).rows = <<>>
<1> SUFFICES ASSUME NEW s \in Statuses
             PROVE  /\ Plain(s) \in Outcome /\ Plain(s).status = s
                    /\ Plain(s).message = "none" /\ ~Plain(s).cursor
                    /\ ~Plain(s).fetching /\ Plain(s).rows = <<>>
  OBVIOUS
<1>1. <<>> \in Seq(Nat)
  OBVIOUS
<1> QED BY <1>1 DEF Plain, Outcome

LEMMA ReplyFacts ==
  /\ \A k \in Kinds : Answer(k) \in Reply /\ Answer(k).kind = k /\ Answer(k).rows = <<>>
  /\ Asked = Answer("asked")
  /\ \A rows \in Seq(Nat), e \in BOOLEAN :
       /\ Page(rows, e) \in Reply /\ Page(rows, e).kind = "page"
       /\ Page(rows, e).rows = rows /\ Page(rows, e).exhausted = e
<1>1. <<>> \in Seq(Nat) /\ "page" \in Kinds
  BY DEF Kinds
<1>2. \A k \in Kinds : Answer(k) \in Reply /\ Answer(k).kind = k /\ Answer(k).rows = <<>>
  BY <1>1 DEF Answer, Reply
<1>3. \A rows \in Seq(Nat), e \in BOOLEAN :
        /\ Page(rows, e) \in Reply /\ Page(rows, e).kind = "page"
        /\ Page(rows, e).rows = rows /\ Page(rows, e).exhausted = e
  BY <1>1 DEF Page, Reply
<1> QED BY <1>2, <1>3 DEF Asked

LEMMA ListedBegan == Lists => \A k \in DOMAIN runs : runs[k] \in 1 .. begun
<1> SUFFICES ASSUME Lists, NEW k \in DOMAIN runs PROVE runs[k] \in 1 .. begun
  OBVIOUS
<1>1. runs \in Seq(1 .. begun)
  BY DEF Lists
<1>2. k \in 1 .. Len(runs)
  BY <1>1, LenProperties
<1> QED BY <1>1, <1>2, ElementOfSeq

\* A step that reads no rows and ends no request for a page: a result is left
\* alone or becomes one nobody reads.
LEMMA NothingRead ==
  ASSUME Types, FetchingHasFlight, Requests, FirstPages, RowsAccounted, ReadToTheEnd,
         UNCHANGED <<fetches, table, pos, dropped, lost>>,
         \A c \in Result : cursor'[c] = "open" => cursor[c] = "open",
         \A c \in Result : statement'[c].kind = "page" => statement'[c] = statement[c],
         \A c \in Result :
           \/ result'[c] = result[c] /\ (Listed(c[1])' => Listed(c[1]))
           \/ /\ result'[c].status # "ok" /\ ~result'[c].fetching
              /\ Listed(c[1])' => Quiet(c)
  PROVE  /\ FetchingHasFlight' /\ Requests' /\ FirstPages'
         /\ RowsAccounted' /\ ReadToTheEnd'
<1>1. \A f \in fetches : f.at \in Result
  BY DEF Types, Request
<1>2. FetchingHasFlight'
  BY DEF FetchingHasFlight, Quiet
<1>3. Requests'
  BY <1>1 DEF Requests, Quiet
<1>4. FirstPages'
  BY DEF FirstPages, Account
<1>5. \A c \in Result : Coming(c)' = Coming(c)
  BY DEF Coming
<1>6. RowsAccounted'
  BY <1>5 DEF RowsAccounted, Account
<1>7. ReadToTheEnd'
  BY DEF ReadToTheEnd
<1> QED BY <1>2, <1>3, <1>4, <1>6, <1>7

\* What a step shows must be listed.
LEMMA ShownIsListed ==
  ASSUME Types, Views, NEW sel \in Result \cup {NoView},
         Shows(result', sel),
         sel # NoView => result'[sel].status # "none"
  PROVE  /\ selected' \in Result \cup {NoView} /\ fetchingRef' \subseteq Result
         /\ Views'
<1> DEFINE before == View(result, selected)
           after == View(result', sel)
<1>1. /\ selected' = sel
      /\ fetchingRef' = IF after # NoView /\ after[1] = before[1] THEN fetchingRef ELSE {}
  BY DEF Shows
<1>2. \A c \in fetchingRef : c[1] = before[1]
  BY DEF Views
<1>3. View(result, selected)' = after
  BY <1>1 DEF View
<1> HIDE DEF before, after
<1>4. \A c \in fetchingRef' : c[1] = View(result, selected)'[1]
  BY <1>1, <1>2, <1>3
<1> QED BY <1>1, <1>4 DEF Views, Types

\* A view stays mounted, and its results stay listed.
LEMMA StillShown ==
  ASSUME Types, Views, selected' = selected, fetchingRef' \subseteq fetchingRef,
         \A c \in Result : /\ result'[c].status = "ok" <=> result[c].status = "ok"
                           /\ result[c].status # "none" => result'[c].status # "none"
  PROVE  Views'
<1>1. selected \in Result \cup {NoView}
  BY DEF Types
<1>2. View(result, selected)' = View(result, selected)
  BY <1>1 DEF View
<1> QED BY <1>1, <1>2 DEF Views

-----------------------------------------------------------------------------
(* Initial states.                                                         *)

LEMMA InitInv == Init => PagingInv
<1> SUFFICES ASSUME Init PROVE PagingInv
  OBVIOUS
<1> USE DEF Init
<1>1. Plain("none") \in Outcome /\ Answer("none") \in Reply /\ <<>> \in Seq(Nat)
      /\ Plain("none").status = "none" /\ Answer("none").kind = "none"
      /\ ~Plain("none").cursor /\ ~Plain("none").fetching
  BY PlainFacts, ReplyFacts DEF Statuses, Kinds
<1>2. Types
  BY <1>1, ResultElem, ResultPagingAssumption DEF Types
<1>3. Lists
  <2>1. RunHistoryCap \in Nat \ {0}
    BY ResultPagingAssumption
  <2>2. runs \in Seq(1 .. begun) /\ Len(runs) = 0 /\ DOMAIN runs = {}
    OBVIOUS
  <2> QED BY <1>1, <2>1, <2>2 DEF Lists, Listed
<1>4. \A c \in Result : statement[c].kind = "none" /\ result[c].status = "none"
  BY <1>1
<1>5. Batch
  <2>1. \A r : ~Listed(r)
    BY DEF Listed
  <2> QED BY <1>4, <2>1 DEF Batch, Quiet, Unread
<1>6. Views
  BY DEF Views
<1>7. Outcomes /\ FetchingHasFlight /\ Requests
  BY <1>1 DEF Outcomes, FetchingHasFlight, Requests
<1>8. FirstPages /\ RowsAccounted /\ ReadToTheEnd /\ CursorsHeld
  BY <1>4 DEF FirstPages, RowsAccounted, ReadToTheEnd, CursorsHeld
<1> QED BY <1>2, <1>3, <1>5, <1>6, <1>7, <1>8 DEF PagingInv

-----------------------------------------------------------------------------
(* Steps of a batch.                                                       *)

LEMMA BeginRunInv == PagingInv /\ BeginRun => PagingInv'
<1> SUFFICES ASSUME PagingInv, BeginRun PROVE PagingInv'
  OBVIOUS
<1> DEFINE r == begun + 1
           list == Append(runs, r)
           e == Excess(list)
           evicted == {list[k] : k \in 1 .. e}
<1>1. /\ Types /\ Lists /\ Views /\ Batch /\ Outcomes /\ FetchingHasFlight
      /\ Requests /\ FirstPages /\ RowsAccounted /\ ReadToTheEnd /\ CursorsHeld
  BY DEF PagingInv
<1>2. /\ ~Running /\ begun < Len(Batches) /\ begun' = r
      /\ runs' = SubSeq(list, e + 1, Len(list))
      /\ result' = [c \in Result |->
           IF c[1] \in evicted THEN Plain("none")
           ELSE IF c[1] = r
                THEN Plain(IF c[2] = 1 THEN "running" ELSE "pending")
                ELSE result[c]]
      /\ statement' = [statement EXCEPT ![<<r, 1>>] = Asked]
      /\ CloseRunCursors(evicted)
      /\ \/ Shows(result', <<r, 1>>)
         \/ selected = NoView /\ Shows(result', NoView)
      /\ UNCHANGED <<fetches, strays, server, lost, forgotten, faults>>
  BY DEF BeginRun
<1>3. /\ begun \in Nat /\ r \in 1 .. Len(Batches) /\ Len(Batches) \in Nat
      /\ <<r, 1>> \in Result
  <2>1. begun \in Nat /\ r \in 1 .. Len(Batches) /\ Len(Batches) \in Nat
    BY <1>1, <1>2, ResultElem DEF Types
  <2>2. r \in Run /\ 1 \in 1 .. Batches[r]
    BY <2>1, ResultElem
  <2> QED BY <2>1, <2>2, ResultElem
<1>4. \A c \in Result : statement[c].kind = "none"
  BY <1>2 DEF Running
<1>5. /\ list \in Seq(1 .. r) /\ list # <<>> /\ Len(list) = Len(runs) + 1
      /\ \A k \in 1 .. Len(runs) : list[k] = runs[k] /\ runs[k] \in 1 .. begun
      /\ list[Len(list)] = r /\ Len(runs) \in Nat /\ DOMAIN runs = 1 .. Len(runs)
  <2>1. runs \in Seq(1 .. begun) /\ runs \in Seq(1 .. r) /\ r \in 1 .. r
    BY <1>1, <1>3 DEF Lists
  <2>2. /\ Len(runs) \in Nat /\ DOMAIN runs = 1 .. Len(runs)
        /\ \A k \in 1 .. Len(runs) : runs[k] \in 1 .. begun
    BY <2>1, LenProperties
  <2>3. /\ list \in Seq(1 .. r) /\ Len(list) = Len(runs) + 1
        /\ \A k \in 1 .. Len(runs) : list[k] = runs[k]
        /\ list[Len(runs) + 1] = r
    BY <2>1, AppendProperties
  <2> HIDE DEF list
  <2>4. list # <<>>
    BY <2>2, <2>3
  <2> QED BY <2>2, <2>3, <2>4
<1>6. /\ e \in 0 .. Len(list) - 1
      /\ runs' \in Seq(1 .. r) /\ Len(runs') = Len(list) - e /\ Len(runs') <= RunHistoryCap
      /\ \A k \in 1 .. Len(list) - e : runs'[k] = list[k + e]
  <2> HIDE DEF e, list
  <2>1. /\ Excess(list) \in 0 .. Len(list) - 1
        /\ SubSeq(list, Excess(list) + 1, Len(list)) \in Seq(1 .. r)
        /\ Len(SubSeq(list, Excess(list) + 1, Len(list))) = Len(list) - Excess(list)
        /\ Len(SubSeq(list, Excess(list) + 1, Len(list))) <= RunHistoryCap
        /\ \A k \in 1 .. Len(list) - Excess(list) :
             SubSeq(list, Excess(list) + 1, Len(list))[k] = list[k + Excess(list)]
    BY <1>5, KeptIsTheEnd
  <2> QED BY <1>2, <2>1 DEF e
<1> HIDE DEF e, list
<1>7. \A k, l \in 1 .. Len(list) : k < l => list[k] < list[l]
  <2> SUFFICES ASSUME NEW k \in 1 .. Len(list), NEW l \in 1 .. Len(list), k < l
               PROVE  list[k] < list[l]
    OBVIOUS
  <2>1. k \in 1 .. Len(runs) /\ list[k] \in 1 .. begun
    BY <1>5
  <2>2. CASE l = Len(list)
    BY <1>3, <1>5, <2>1, <2>2
  <2>3. CASE l # Len(list)
    <3>1. l \in 1 .. Len(runs)
      BY <1>5, <2>3
    <3> QED BY <1>1, <1>5, <2>1, <3>1 DEF Lists
  <2> QED BY <2>2, <2>3
<1>8. DOMAIN runs' = 1 .. Len(list) - e /\ Len(list) \in Nat \ {0}
  BY <1>5, <1>6, LenProperties
\* What is listed from now on.
<1>9. /\ r \notin evicted
      /\ \A x : Listed(x)' <=> (x = r \/ (Listed(x) /\ x \notin evicted))
  <2>1. ASSUME NEW k \in 1 .. e
        PROVE  k \in 1 .. Len(runs) /\ list[k] = runs[k] /\ list[k] \in 1 .. begun
    <3>1. k \in 1 .. Len(runs)
      BY <1>5, <1>6
    <3> QED BY <1>5, <3>1
  <2>2. r \notin evicted
    BY <1>3, <2>1
  <2>3. ASSUME NEW x, Listed(x)' PROVE x = r \/ (Listed(x) /\ x \notin evicted)
    <3>1. PICK k \in 1 .. Len(list) - e : x = list[k + e]
      BY <2>3, <1>6, <1>8 DEF Listed
    <3>2. k + e \in 1 .. Len(list)
      BY <1>6, <1>8
    <3>3. x \notin evicted
      <4> SUFFICES ASSUME NEW l \in 1 .. e, x = list[l] PROVE FALSE
        OBVIOUS
      <4>1. l \in 1 .. Len(list) /\ l < k + e
        BY <1>6, <1>8
      <4>2. list[l] < list[k + e] /\ list[l] \in Int
        BY <1>5, <1>7, <2>1, <3>2, <4>1
      <4> QED BY <3>1, <4>2
    <3>4. CASE k + e = Len(list)
      BY <1>5, <3>1, <3>4
    <3>5. CASE k + e # Len(list)
      <4>1. k + e \in 1 .. Len(runs)
        BY <1>5, <3>2, <3>5
      <4> QED BY <1>5, <3>1, <3>3, <4>1 DEF Listed
    <3> QED BY <3>4, <3>5
  <2>4. ASSUME NEW x, x = r PROVE Listed(x)'
    <3>1. Len(list) - e \in 1 .. Len(list) - e /\ Len(list) - e + e = Len(list)
      BY <1>6, <1>8
    <3>2. runs'[Len(list) - e] = x
      BY <1>5, <1>6, <2>4, <3>1
    <3> QED BY <1>8, <3>1, <3>2 DEF Listed
  <2>5. ASSUME NEW x, Listed(x), x \notin evicted PROVE Listed(x)'
    <3>1. PICK k \in 1 .. Len(runs) : x = list[k]
      BY <1>5, <2>5 DEF Listed
    <3>2. ~(k \in 1 .. e)
      BY <2>5, <3>1
    <3>3. k - e \in 1 .. Len(list) - e /\ k - e + e = k
      BY <1>5, <1>6, <1>8, <3>2
    <3>4. runs'[k - e] = x
      BY <1>6, <3>1, <3>3
    <3> QED BY <1>8, <3>3, <3>4 DEF Listed
  <2> QED BY <2>2, <2>3, <2>4, <2>5
<1>10. /\ \A x : Listed(x) => x \in 1 .. begun
       /\ ~Listed(r) /\ r > begun
  BY <1>3, <1>5 DEF Listed
<1> HIDE DEF evicted
<1>11. \A c \in Result : c[1] = r => Ahead(c) /\ Quiet(c) /\ Unread(c)
  BY <1>1, <1>3, <1>10 DEF Batch, Ahead
<1>12. /\ Plain("none") \in Outcome /\ Plain("running") \in Outcome
       /\ Plain("pending") \in Outcome /\ Asked \in Reply /\ Asked.kind = "asked"
       /\ \A s \in Statuses : /\ Plain(s).status = s /\ ~Plain(s).fetching
                              /\ ~Plain(s).cursor
       /\ {"none", "running", "pending", "ok"} \subseteq Statuses
  BY PlainFacts, ReplyFacts DEF Statuses, Kinds
<1>13. \A c \in Result :
         /\ c[1] \in evicted => result'[c] = Plain("none")
         /\ c[1] = r => result'[c] = Plain(IF c[2] = 1 THEN "running" ELSE "pending")
         /\ (c[1] \notin evicted /\ c[1] # r) => result'[c] = result[c]
  BY <1>2, <1>9
<1>14. \A c \in Result : result'[c] \in Outcome
  BY <1>1, <1>12, <1>13 DEF Types
<1>15. \A c \in Result : result'[c].status # "none" <=> Listed(c[1])'
  BY <1>1, <1>9, <1>12, <1>13 DEF Lists
<1>16. Views' /\ selected' \in Result \cup {NoView} /\ fetchingRef' \subseteq Result
  <2>1. result'[<<r, 1>>].status # "none"
    BY <1>3, <1>9, <1>15
  <2>2. CASE Shows(result', <<r, 1>>)
    BY <1>1, <1>3, <2>1, <2>2, ShownIsListed
  <2>3. CASE Shows(result', NoView)
    BY <1>1, <2>3, ShownIsListed
  <2> QED BY <1>2, <2>2, <2>3
<1>17. closers' = closers \cup ({RunCursors(x) : x \in evicted} \ {{}})
  BY <1>2 DEF CloseRunCursors
<1>18. Types'
  <2>1. result' \in [Result -> Outcome]
    BY <1>2, <1>14
  <2>2. statement' \in [Result -> Reply]
    BY <1>1, <1>2, <1>12 DEF Types
  <2>3. closers' \subseteq SUBSET Result
    BY <1>1, <1>17 DEF Types, RunCursors
  <2>4. begun' \in 0 .. Len(Batches)
    BY <1>2, <1>3
  <2> QED BY <1>1, <1>2, <1>16, <2>1, <2>2, <2>3, <2>4 DEF Types, server
<1>19. Lists'
  <2>1. ASSUME NEW k \in DOMAIN runs', NEW l \in DOMAIN runs', k < l
        PROVE  runs'[k] < runs'[l]
    <3>1. k + e \in 1 .. Len(list) /\ l + e \in 1 .. Len(list) /\ k + e < l + e
      BY <1>6, <1>8, <2>1
    <3> QED BY <1>6, <1>7, <1>8, <3>1
  <2> QED BY <1>2, <1>6, <1>15, <2>1 DEF Lists
<1>20. \A c \in Result : /\ c # <<r, 1>> => statement'[c] = statement[c]
                         /\ c = <<r, 1>> => statement'[c] = Asked
  BY <1>1, <1>2 DEF Types
<1>21. Batch'
  <2>1. ASSUME NEW c \in Result, statement'[c].kind # "none"
        PROVE  /\ c[1] = begun' /\ Quiet(c)'
               /\ \A d \in Result : statement'[d].kind # "none" => c = d
               /\ Listed(c[1])' => result'[c] = Plain("running")
               /\ statement'[c].kind = "asked" => Unread(c)'
    <3>1. c = <<r, 1>>
      BY <1>4, <1>20, <2>1
    <3>2. Quiet(c)' /\ Unread(c)'
      BY <1>2, <1>11, <3>1 DEF Quiet, Unread, server
    <3>3. \A d \in Result : statement'[d].kind # "none" => c = d
      BY <1>4, <1>20, <3>1
    <3> QED BY <1>2, <1>13, <3>1, <3>2, <3>3
  <2>2. ASSUME NEW c \in Result, Ahead(c)'
        PROVE  /\ Quiet(c)' /\ Unread(c)'
               /\ Listed(c[1])' => result'[c] = Plain("pending")
    <3>1. CASE c[1] > begun'
      <4>1. Ahead(c) /\ c[1] # r /\ ~Listed(c[1])
        BY <1>2, <1>3, <1>10, <3>1, ResultElem DEF Ahead
      <4> QED BY <1>1, <1>2, <1>9, <4>1 DEF Batch, Quiet, Unread, server
    <3>2. CASE \E d \in Result : statement'[d].kind # "none" /\ d[1] = c[1] /\ d[2] < c[2]
      <4>1. c[1] = r /\ c[2] # 1
        BY <1>4, <1>20, <3>2
      <4>2. result'[c] = Plain("pending")
        BY <1>13, <4>1
      <4> QED BY <1>2, <1>11, <4>1, <4>2 DEF Quiet, Unread, server
    <3> QED BY <2>2, <3>1, <3>2 DEF Ahead
  <2> QED BY <2>1, <2>2 DEF Batch
<1>22. Outcomes'
  BY <1>1, <1>12, <1>13 DEF Outcomes
<1>23. /\ FetchingHasFlight' /\ Requests' /\ FirstPages'
       /\ RowsAccounted' /\ ReadToTheEnd'
  <2>1. ASSUME NEW c \in Result
        PROVE  \/ result'[c] = result[c] /\ (Listed(c[1])' => Listed(c[1]))
               \/ /\ result'[c].status # "ok" /\ ~result'[c].fetching
                  /\ Listed(c[1])' => Quiet(c)
    <3>1. CASE c[1] \in evicted
      BY <1>9, <1>12, <1>13, <3>1
    <3>2. CASE c[1] = r
      BY <1>11, <1>12, <1>13, <3>2
    <3>3. CASE c[1] \notin evicted /\ c[1] # r
      BY <1>9, <1>13, <3>3
    <3> QED BY <3>1, <3>2, <3>3
  <2>2. \A c \in Result : statement'[c].kind = "page" => statement'[c] = statement[c]
    BY <1>12, <1>20
  <2>3. UNCHANGED <<fetches, table, pos, dropped, lost>>
        /\ \A c \in Result : cursor'[c] = "open" => cursor[c] = "open"
    BY <1>2 DEF server
  <2> QED BY <1>1, <2>1, <2>2, <2>3, NothingRead
<1>24. CursorsHeld'
  <2> SUFFICES ASSUME NEW c \in Result, cursor'[c] = "open"
               PROVE  \/ result'[c].cursor
                      \/ statement'[c].kind = "page"
                      \/ \E k \in closers' : c \in k
                      \/ c \in forgotten'
    BY DEF CursorsHeld
  <2>1. cursor[c] = "open" /\ forgotten' = forgotten /\ closers \subseteq closers'
    BY <1>2, <1>17 DEF server
  <2>2. CASE result[c].cursor
    <3>1. Listed(c[1])
      BY <1>1, <1>12, <2>2 DEF Lists, Outcomes
    <3>2. CASE c[1] \in evicted
      <4>1. RunCursors(c[1]) \in closers' /\ c \in RunCursors(c[1])
        BY <1>17, <2>2, <3>2 DEF RunCursors
      <4> QED BY <4>1
    <3> QED BY <1>10, <1>13, <2>2, <3>1, <3>2
  <2> QED BY <1>1, <1>4, <2>1, <2>2 DEF CursorsHeld
<1> QED BY <1>16, <1>18, <1>19, <1>21, <1>22, <1>23, <1>24 DEF PagingInv

\* A statement on its way: nobody reads its result, and no other is on its way.
LEMMA Sending ==
  ASSUME PagingInv, NEW c \in Result, statement[c].kind # "none"
  PROVE  /\ c[1] = begun /\ Quiet(c) /\ ~Ahead(c)
         /\ \A d \in Result : d # c => statement[d].kind = "none"
         /\ Listed(c[1]) => result[c] = Plain("running")
         /\ ~Listed(c[1]) => result[c] = Plain("none")
         /\ result[c].status # "ok" /\ ~result[c].cursor /\ ~result[c].fetching
<1>1. Types /\ Lists /\ Batch /\ Outcomes
  BY DEF PagingInv
<1>2. /\ c[1] = begun /\ Quiet(c)
      /\ \A d \in Result : d # c => statement[d].kind = "none"
      /\ Listed(c[1]) => result[c] = Plain("running")
  BY <1>1 DEF Batch
<1>3. ~Listed(c[1]) => result[c] = Plain("none")
  BY <1>1 DEF Lists, Outcomes
<1>4. {"none", "running"} \subseteq Statuses
  BY DEF Statuses
<1>5. result[c].status # "ok" /\ ~result[c].cursor /\ ~result[c].fetching
  <2>1. CASE result[c] = Plain("running")
    BY <1>4, <2>1, PlainFacts
  <2>2. CASE result[c] = Plain("none")
    BY <1>4, <2>2, PlainFacts
  <2> QED BY <1>2, <1>3, <2>1, <2>2
<1>6. ~Ahead(c)
  <2>1. c[1] \in Int /\ c[2] \in Int /\ begun \in Int
    BY <1>1, ResultElem DEF Types
  <2> QED BY <1>2, <2>1 DEF Ahead
<1> QED BY <1>2, <1>3, <1>5, <1>6

\* The page a cursor returns, and where it goes on.
LEMMA AdvanceFacts ==
  ASSUME Types, NEW c \in Result, NEW t \in Seq(Nat), NEW p \in 0 .. Len(t),
         Advance(c, t, p)
  PROVE  LET f == Fetch(t, p)
         IN  /\ f.rows \in Seq(Nat) /\ f.exhausted \in BOOLEAN
             /\ pos' \in [Result -> Nat] /\ dropped' \in [Result -> SUBSET Nat]
             /\ cursor' \in [Result -> {"none", "open", "closed"}]
             /\ pos'[c] = f.pos /\ p <= f.pos /\ f.pos <= Len(t)
             /\ dropped'[c] = dropped[c] \cup (p + Len(f.rows) + 1) .. f.pos
             /\ cursor'[c] = IF f.exhausted THEN "closed" ELSE "open"
             /\ f.exhausted => f.pos = Len(t)
             /\ \A d \in Result : d # c => /\ pos'[d] = pos[d] /\ cursor'[d] = cursor[d]
                                           /\ dropped'[d] = dropped[d]
<1> DEFINE f == Fetch(t, p)
<1>1. /\ f.rows \in Seq(Nat) /\ f.exhausted \in BOOLEAN
      /\ f.pos \in Nat /\ f.pos <= Len(t) /\ p + Len(f.rows) <= f.pos
      /\ f.exhausted => f.pos = Len(t)
  BY FetchFacts
<1>2. /\ pos' = [pos EXCEPT ![c] = f.pos]
      /\ dropped' = [dropped EXCEPT ![c] = @ \cup (p + Len(f.rows) + 1) .. f.pos]
      /\ cursor' = [cursor EXCEPT ![c] = IF f.exhausted THEN "closed" ELSE "open"]
  BY DEF Advance
<1> HIDE DEF f
<1>3. /\ pos \in [Result -> Nat] /\ dropped \in [Result -> SUBSET Nat]
      /\ cursor \in [Result -> {"none", "open", "closed"}]
  BY DEF Types
<1>4. (p + Len(f.rows) + 1) .. f.pos \in SUBSET Nat
  BY <1>1
<1>5. p <= f.pos
  BY <1>1
<1>6. dropped' \in [Result -> SUBSET Nat]
  BY <1>2, <1>3, <1>4
<1>7. /\ dropped'[c] = dropped[c] \cup (p + Len(f.rows) + 1) .. f.pos
      /\ \A d \in Result : d # c => dropped'[d] = dropped[d]
  BY <1>2, <1>3
<1> QED BY <1>1, <1>2, <1>3, <1>5, <1>6, <1>7 DEF f

LEMMA ExecuteInv ==
  ASSUME PagingInv, NEW c \in Result, Execute(c)
  PROVE  PagingInv'
<1>1. /\ Types /\ Lists /\ Views /\ Batch /\ Outcomes /\ FetchingHasFlight
      /\ Requests /\ FirstPages /\ RowsAccounted /\ ReadToTheEnd /\ CursorsHeld
  BY DEF PagingInv
<1>2. PICK t \in Tables :
        /\ statement[c].kind = "asked" /\ table' = [table EXCEPT ![c] = t]
        /\ Advance(c, t, 0)
        /\ statement' = [statement EXCEPT ![c] =
                           Page(Fetch(t, 0).rows, Fetch(t, 0).exhausted)]
        /\ UNCHANGED <<begun, runs, result, selected, fetchingRef, fetches,
                       strays, closers, lost, forgotten, faults>>
  BY DEF Execute
<1>3. t \in Seq(Nat) /\ 0 \in 0 .. Len(t)
  BY ResultPagingAssumption
<1> DEFINE f == Fetch(t, 0)
<1>4. /\ f.rows \in Seq(Nat) /\ f.exhausted \in BOOLEAN
      /\ pos' \in [Result -> Nat] /\ dropped' \in [Result -> SUBSET Nat]
      /\ cursor' \in [Result -> {"none", "open", "closed"}]
      /\ pos'[c] = f.pos /\ f.pos <= Len(t)
      /\ dropped'[c] = dropped[c] \cup (0 + Len(f.rows) + 1) .. f.pos
      /\ cursor'[c] = IF f.exhausted THEN "closed" ELSE "open"
      /\ f.exhausted => f.pos = Len(t)
      /\ \A d \in Result : d # c => /\ pos'[d] = pos[d] /\ cursor'[d] = cursor[d]
                                    /\ dropped'[d] = dropped[d]
  BY <1>1, <1>2, <1>3, AdvanceFacts
<1> DEFINE skipped == (0 + Len(f.rows) + 1) .. f.pos
<1>5. /\ Increasing(<<>> \o f.rows)
      /\ Covered(<<>> \o f.rows, dropped[c] \cup skipped, lost[c], f.pos)
  <2>1. Unread(c)
    BY <1>1, <1>2 DEF Batch
  <2>2. /\ <<>> \in Seq(Nat) /\ Increasing(<<>>)
        /\ dropped[c] \in SUBSET Nat /\ lost[c] \in SUBSET Nat
    BY <1>1 DEF Types, Increasing
  <2>3. Covered(<<>>, dropped[c], lost[c], 0)
    BY <2>1, ToSetFacts DEF Unread, Covered
  <2>4. f = Fetch(t, 0) /\ skipped = (0 + Len(f.rows) + 1) .. f.pos
    OBVIOUS
  <2> HIDE DEF f, skipped
  <2> QED BY <1>3, <2>2, <2>3, <2>4, ReadOn
<1>6. statement' = [statement EXCEPT ![c] = Page(f.rows, f.exhausted)]
  BY <1>2
<1> HIDE DEF f
<1>7. /\ Quiet(c) /\ ~Ahead(c) /\ result[c].status # "ok"
      /\ \A d \in Result : d # c => statement[d].kind = "none"
      /\ c[1] = begun /\ (Listed(c[1]) => result[c] = Plain("running"))
  BY <1>2, Sending
<1>9. /\ Page(f.rows, f.exhausted) \in Reply /\ Page(f.rows, f.exhausted).kind = "page"
      /\ Page(f.rows, f.exhausted).rows = f.rows
      /\ Page(f.rows, f.exhausted).exhausted = f.exhausted
  BY <1>4, ReplyFacts
<1>10. /\ statement' \in [Result -> Reply] /\ statement'[c] = Page(f.rows, f.exhausted)
       /\ \A d \in Result : d # c => statement'[d] = statement[d]
  BY <1>1, <1>6, <1>9 DEF Types
<1>11. /\ table' \in [Result -> Seq(Nat)] /\ table'[c] = t
       /\ \A d \in Result : d # c => table'[d] = table[d]
  BY <1>1, <1>2, <1>3 DEF Types
<1>12. \A x : Listed(x)' <=> Listed(x)
  BY <1>2 DEF Listed
<1>13. Types'
  BY <1>1, <1>2, <1>4, <1>10, <1>11 DEF Types
<1>14. Lists' /\ Views' /\ Outcomes'
  BY <1>1, <1>2, <1>12 DEF Lists, Views, View, Outcomes
<1>15. Batch'
  <2>1. \A d \in Result : statement'[d].kind # "none" <=> statement[d].kind # "none"
    BY <1>2, <1>9, <1>10
  <2>2. \A d \in Result : (Ahead(d)' <=> Ahead(d)) /\ (Quiet(d)' <=> Quiet(d))
    BY <1>2, <2>1 DEF Ahead, Quiet
  <2>3. \A d \in Result : d # c => (Unread(d)' <=> Unread(d))
    BY <1>2, <1>4 DEF Unread
  <2>4. statement'[c].kind # "asked"
    BY <1>9, <1>10
  <2> QED BY <1>1, <1>2, <1>7, <1>12, <2>1, <2>2, <2>3, <2>4 DEF Batch
<1>16. FetchingHasFlight'
  BY <1>1, <1>2, <1>12 DEF FetchingHasFlight
<1>17. Requests'
  <2>1. \A g \in fetches : g.at \in Result /\ g.at # c
    BY <1>1, <1>7 DEF Types, Request, Quiet
  <2>2. \A g \in fetches : /\ cursor'[g.at] = cursor[g.at]
                            /\ pos'[g.at] = pos[g.at] /\ table'[g.at] = table[g.at]
    BY <1>4, <1>11, <2>1
  <2> QED BY <1>1, <1>2, <1>12, <2>2 DEF Requests
<1>18. FirstPages'
  <2>1. Increasing(f.rows) /\ Account(c, f.rows)'
    <3>1. <<>> \o f.rows = f.rows
      BY <1>4, ToSetFacts
    <3>2. ToSet(f.rows) \cup dropped'[c] \cup lost'[c] = 1 .. pos'[c]
      BY <1>2, <1>4, <1>5, <3>1 DEF Covered
    <3> QED BY <1>5, <3>1, <3>2 DEF Account
  <2>2. statement'[c].rows = f.rows /\ statement'[c].exhausted = f.exhausted
    BY <1>9, <1>10
  <2>3. f.exhausted => cursor'[c] # "open" /\ pos'[c] = Len(table'[c])
    BY <1>4, <1>11
  <2>4. \A d \in Result : d # c => statement'[d].kind # "page"
    BY <1>7, <1>10
  <2>5. Account(c, statement[c].rows)'
    BY <2>1, <2>2 DEF Account
  <2> QED BY <2>1, <2>2, <2>3, <2>4, <2>5 DEF FirstPages
<1>19. RowsAccounted'
  <2>1. \A d \in Result : Coming(d)' = Coming(d)
    BY <1>2 DEF Coming
  <2> QED BY <1>1, <1>2, <1>4, <1>7, <2>1 DEF RowsAccounted, Account
<1>20. ReadToTheEnd'
  BY <1>1, <1>2, <1>4, <1>7, <1>11 DEF ReadToTheEnd
<1>21. CursorsHeld'
  BY <1>1, <1>2, <1>4, <1>9, <1>10 DEF CursorsHeld
<1> QED BY <1>13, <1>14, <1>15, <1>16, <1>17, <1>18, <1>19, <1>20, <1>21 DEF PagingInv

LEMMA RefuseInv ==
  ASSUME PagingInv, NEW c \in Result, Refuse(c)
  PROVE  PagingInv'
<1>1. /\ Types /\ Lists /\ Views /\ Batch /\ Outcomes /\ FetchingHasFlight
      /\ Requests /\ FirstPages /\ RowsAccounted /\ ReadToTheEnd /\ CursorsHeld
  BY DEF PagingInv
<1>2. /\ statement[c].kind = "asked"
      /\ statement' = [statement EXCEPT ![c] = Answer("failed")]
      /\ UNCHANGED <<begun, runs, result, selected, fetchingRef, fetches,
                     strays, closers, server, lost, forgotten, faults>>
  BY DEF Refuse
<1>3. Answer("failed") \in Reply /\ Answer("failed").kind = "failed"
  BY ReplyFacts DEF Kinds
<1>4. /\ statement' \in [Result -> Reply] /\ statement'[c].kind = "failed"
      /\ \A d \in Result : d # c => statement'[d] = statement[d]
  BY <1>1, <1>2, <1>3 DEF Types
<1>5. \A x : Listed(x)' <=> Listed(x)
  BY <1>2 DEF Listed
<1>6. Types' /\ Lists' /\ Views' /\ Outcomes'
  BY <1>1, <1>2, <1>4, <1>5 DEF Types, Lists, Views, View, Outcomes, server
<1>7. Batch'
  <2>1. \A d \in Result : statement'[d].kind # "none" <=> statement[d].kind # "none"
    BY <1>2, <1>4
  <2>2. \A d \in Result : /\ (Ahead(d)' <=> Ahead(d)) /\ (Quiet(d)' <=> Quiet(d))
                          /\ (Unread(d)' <=> Unread(d))
    BY <1>2, <2>1 DEF Ahead, Quiet, Unread, server
  <2> QED BY <1>1, <1>2, <1>4, <1>5, <2>1, <2>2 DEF Batch
<1>8. /\ FetchingHasFlight' /\ Requests' /\ FirstPages'
      /\ RowsAccounted' /\ ReadToTheEnd'
  <2>1. \A d \in Result : statement'[d].kind = "page" => statement'[d] = statement[d]
    BY <1>4
  <2>2. /\ UNCHANGED <<fetches, table, pos, dropped, lost>>
        /\ \A d \in Result : cursor'[d] = "open" => cursor[d] = "open"
        /\ \A d \in Result : result'[d] = result[d] /\ (Listed(d[1])' => Listed(d[1]))
    BY <1>2, <1>5 DEF server
  <2> QED BY <1>1, <2>1, <2>2, NothingRead
<1>9. CursorsHeld'
  BY <1>1, <1>2, <1>4 DEF CursorsHeld, server
<1> QED BY <1>6, <1>7, <1>8, <1>9 DEF PagingInv

LEMMA StatementAnsweredInv ==
  ASSUME PagingInv, NEW c \in Result, StatementAnswered(c)
  PROVE  PagingInv'
<1>1. /\ Types /\ Lists /\ Views /\ Batch /\ Outcomes /\ FetchingHasFlight
      /\ Requests /\ FirstPages /\ RowsAccounted /\ ReadToTheEnd /\ CursorsHeld
  BY DEF PagingInv
<1> DEFINE next == <<c[1], c[2] + 1>>
           more == c[2] < Batches[c[1]]
           p == statement[c]
           st == [statement EXCEPT ![c] = Answer("none")]
           res == SetResult(c, FirstPage(p))
<1>2. /\ p.kind = "page"
      /\ statement' = IF more THEN [st EXCEPT ![next] = Asked] ELSE st
      /\ result' = IF more /\ Listed(c[1])
                   THEN [res EXCEPT ![next] = Plain("running")] ELSE res
      /\ Shows(result', selected)
      /\ forgotten' = IF Listed(c[1]) THEN forgotten ELSE forgotten \cup {c}
      /\ UNCHANGED <<begun, runs, fetches, strays, closers, server, lost, faults>>
  BY DEF StatementAnswered
<1>3. /\ c[1] = begun /\ Quiet(c) /\ ~Ahead(c)
      /\ \A d \in Result : d # c => statement[d].kind = "none"
      /\ result[c].status # "ok" /\ ~result[c].cursor
  BY <1>2, Sending
\* The next statement.
<1>4. /\ c[1] \in Int /\ c[2] \in Int /\ c = <<c[1], c[2]>>
      /\ more => /\ next \in Result /\ next # c /\ Ahead(next)
                 /\ next[1] = c[1] /\ next[2] = c[2] + 1
  <2>1. /\ c[1] \in Run /\ c[2] \in 1 .. Batches[c[1]] /\ c = <<c[1], c[2]>>
        /\ c[1] \in Int /\ Batches[c[1]] \in Nat
    BY ResultElem
  <2>2. ASSUME more PROVE next \in Result
    <3>1. c[2] + 1 \in 1 .. Batches[c[1]]
      BY <2>1, <2>2
    <3> QED BY <2>1, <3>1, ResultElem
  <2>3. next[1] = c[1] /\ next[2] = c[2] + 1
    OBVIOUS
  <2>4. next[2] # c[2] /\ c[2] < next[2]
    BY <2>1, <2>3
  <2>5. statement[c].kind # "none" /\ c[1] = next[1] /\ c[2] < next[2]
    BY <1>2, <2>3, <2>4
  <2> HIDE DEF next
  <2>6. Ahead(next)
    BY <2>5 DEF Ahead
  <2> QED BY <2>1, <2>2, <2>3, <2>4, <2>6
<1> HIDE DEF next, more
<1>5. more => /\ Quiet(next) /\ Unread(next)
              /\ Listed(c[1]) => result[next] = Plain("pending")
              /\ ~result[next].cursor
  <2>1. {"none", "pending"} \subseteq Statuses
    BY DEF Statuses
  <2>2. more => /\ Quiet(next) /\ Unread(next)
                /\ Listed(c[1]) => result[next] = Plain("pending")
                /\ ~Listed(c[1]) => result[next] = Plain("none")
    BY <1>1, <1>4 DEF Batch, Lists, Outcomes
  <2> QED BY <2>1, <2>2, PlainFacts
<1>6. /\ p.rows \in Seq(Nat) /\ p.exhausted \in BOOLEAN
      /\ Increasing(p.rows) /\ Account(c, p.rows)
      /\ p.exhausted => cursor[c] # "open" /\ pos[c] = Len(table[c])
  BY <1>1, <1>2 DEF Types, Reply, FirstPages
<1>7. /\ FirstPage(p) \in Outcome /\ FirstPage(p).status = "ok"
      /\ FirstPage(p).rows = p.rows /\ FirstPage(p).cursor = ~p.exhausted
      /\ ~FirstPage(p).fetching /\ FirstPage(p).message = "none"
  BY <1>6 DEF FirstPage, Outcome, Statuses
<1>8. /\ Answer("none") \in Reply /\ Answer("none").kind = "none"
      /\ Asked \in Reply /\ Asked.kind = "asked"
      /\ Plain("running") \in Outcome /\ Plain("running").status = "running"
      /\ ~Plain("running").fetching /\ ~Plain("running").cursor
  BY ReplyFacts, PlainFacts DEF Kinds, Statuses
<1> HIDE DEF p
<1>9. /\ statement' \in [Result -> Reply] /\ statement'[c].kind = "none"
      /\ more => statement'[next] = Asked
      /\ \A d \in Result : (d # c /\ ~(more /\ d = next)) => statement'[d] = statement[d]
  <2>1. /\ st \in [Result -> Reply] /\ st[c] = Answer("none")
        /\ \A d \in Result : d # c => st[d] = statement[d]
    BY <1>1, <1>8 DEF Types
  <2> HIDE DEF st
  <2>2. CASE more
    <3>1. statement' = [st EXCEPT ![next] = Asked] /\ next \in Result /\ next # c
      BY <1>2, <1>4, <2>2
    <3> QED BY <1>8, <2>1, <2>2, <3>1
  <2>3. CASE ~more
    BY <1>2, <1>8, <2>1, <2>3
  <2> QED BY <2>2, <2>3
<1>10. /\ result' \in [Result -> Outcome]
       /\ ~Listed(c[1]) => result' = result
       /\ Listed(c[1]) =>
            /\ result'[c] = FirstPage(p)
            /\ more => result'[next] = Plain("running")
            /\ \A d \in Result : (d # c /\ ~(more /\ d = next)) => result'[d] = result[d]
  <2>1. CASE ~Listed(c[1])
    BY <1>1, <1>2, <2>1 DEF SetResult, Types
  <2>2. CASE Listed(c[1])
    <3>1. res = [result EXCEPT ![c] = FirstPage(p)]
      BY <2>2 DEF SetResult
    <3>2. /\ res \in [Result -> Outcome] /\ res[c] = FirstPage(p)
          /\ \A d \in Result : d # c => res[d] = result[d]
      BY <1>1, <1>7, <3>1 DEF Types
    <3> HIDE DEF res
    <3>3. CASE more
      <4>1. result' = [res EXCEPT ![next] = Plain("running")] /\ next \in Result /\ next # c
        BY <1>2, <1>4, <2>2, <3>3
      <4> QED BY <1>8, <2>2, <3>2, <3>3, <4>1
    <3>4. CASE ~more
      BY <1>2, <2>2, <3>2, <3>4
    <3> QED BY <3>3, <3>4
  <2> QED BY <2>1, <2>2
<1> HIDE DEF st, res
<1>11. \A x : Listed(x)' <=> Listed(x)
  BY <1>2 DEF Listed
<1>12. \A d \in Result : result'[d].status # "none" <=> Listed(d[1])
  <2> SUFFICES ASSUME NEW d \in Result
               PROVE  result'[d].status # "none" <=> Listed(d[1])
    OBVIOUS
  <2>1. CASE Listed(c[1]) /\ d = c
    BY <1>7, <1>10, <2>1
  <2>2. CASE Listed(c[1]) /\ more /\ d = next
    BY <1>4, <1>8, <1>10, <2>2
  <2>3. CASE ~Listed(c[1]) \/ (d # c /\ ~(more /\ d = next))
    BY <1>1, <1>10, <2>3 DEF Lists
  <2> QED BY <2>1, <2>2, <2>3
<1>13. Views' /\ selected' \in Result \cup {NoView} /\ fetchingRef' \subseteq Result
  <2>1. selected \in Result \cup {NoView}
    BY <1>1 DEF Types
  <2>2. selected # NoView => result'[selected].status # "none"
    BY <1>1, <1>12, <2>1 DEF Views, Lists
  <2> QED BY <1>1, <1>2, <2>1, <2>2, ShownIsListed
<1>14. Types'
  BY <1>1, <1>2, <1>9, <1>10, <1>13 DEF Types, server
<1>15. Lists'
  BY <1>1, <1>2, <1>11, <1>12 DEF Lists
<1>16. \A d \in Result : statement'[d].kind # "none" => more /\ d = next
  BY <1>3, <1>9
<1>17. Batch'
  <2>1. ASSUME NEW d \in Result, statement'[d].kind # "none"
        PROVE  /\ d[1] = begun' /\ Quiet(d)'
               /\ \A b \in Result : statement'[b].kind # "none" => d = b
               /\ Listed(d[1])' => result'[d] = Plain("running")
               /\ statement'[d].kind = "asked" => Unread(d)'
    <3>1. more /\ d = next
      BY <1>16, <2>1
    <3>2. d[1] = c[1] /\ Quiet(d) /\ Unread(d)
      BY <1>4, <1>5, <3>1
    <3>3. Quiet(d)' /\ Unread(d)'
      BY <1>2, <3>2 DEF Quiet, Unread, server
    <3>4. Listed(d[1])' => result'[d] = Plain("running")
      BY <1>10, <1>11, <3>1, <3>2
    <3> QED BY <1>2, <1>3, <1>16, <3>1, <3>2, <3>3, <3>4
  <2>2. ASSUME NEW d \in Result, Ahead(d)'
        PROVE  /\ Quiet(d)' /\ Unread(d)'
               /\ Listed(d[1])' => result'[d] = Plain("pending")
    <3>1. Ahead(d) /\ d # c /\ ~(more /\ d = next)
      <4>1. CASE d[1] > begun'
        <5>1. Ahead(d) /\ d[1] # c[1]
          BY <1>2, <1>3, <1>4, <4>1 DEF Ahead
        <5> QED BY <1>4, <5>1
      <4>2. CASE \E b \in Result : statement'[b].kind # "none" /\ b[1] = d[1] /\ b[2] < d[2]
        <5>1. more /\ next[1] = d[1] /\ next[2] < d[2]
          BY <1>16, <4>2
        <5>2. d[2] \in Int /\ c[2] < d[2] /\ c[1] = d[1] /\ d # next /\ d # c
          BY <1>4, <5>1, ResultElem
        <5> QED BY <1>2, <5>2 DEF Ahead, p
      <4> QED BY <2>2, <4>1, <4>2 DEF Ahead
    <3>2. Quiet(d) /\ Unread(d) /\ (Listed(d[1]) => result[d] = Plain("pending"))
      BY <1>1, <3>1 DEF Batch
    <3>3. Quiet(d)' /\ Unread(d)'
      BY <1>2, <3>2 DEF Quiet, Unread, server
    <3> QED BY <1>10, <1>11, <3>1, <3>2, <3>3
  <2> QED BY <2>1, <2>2 DEF Batch
\* A result is as before, unless nobody asks for its pages.
<1>18. \A d \in Result :
         \/ result'[d] = result[d]
         \/ Quiet(d) /\ ~result'[d].fetching /\ result'[d] = Plain("running")
         \/ d = c /\ ~result'[d].fetching /\ result'[d] = FirstPage(p) /\ Listed(c[1])
  BY <1>5, <1>7, <1>8, <1>10
<1>19. Outcomes'
  BY <1>1, <1>7, <1>8, <1>18 DEF Outcomes
<1>20. FetchingHasFlight'
  <2>1. \A d \in Result : result'[d] = result[d] \/ (Quiet(d) /\ ~result'[d].fetching)
    BY <1>3, <1>18
  <2> QED BY <1>1, <1>2, <1>11, <2>1 DEF FetchingHasFlight, Quiet
<1>21. Requests'
  <2>1. \A f \in fetches : f.at \in Result /\ result'[f.at] = result[f.at]
    BY <1>1, <1>3, <1>18 DEF Types, Request, Quiet
  <2> QED BY <1>1, <1>2, <1>11, <2>1 DEF Requests, server
<1>22. FirstPages'
  <2>1. \A d \in Result : statement'[d].kind # "page"
    BY <1>8, <1>9, <1>16
  <2> QED BY <2>1 DEF FirstPages
<1>23. RowsAccounted'
  <2>1. \A d \in Result : Coming(d)' = Coming(d)
    BY <1>2 DEF Coming
  <2>2. Coming(c) = <<>>
    BY <1>3 DEF Coming, Quiet
  <2>3. \A d \in Result : \A rows : Account(d, rows)' <=> Account(d, rows)
    BY <1>2 DEF Account, server
  <2>4. p.rows \o <<>> = p.rows
    BY <1>6, ToSetFacts
  <2>5. Plain("running").status # "ok"
    BY <1>8
  <2> SUFFICES ASSUME NEW d \in Result, result'[d].status = "ok"
               PROVE  /\ Increasing(result'[d].rows \o Coming(d)')
                      /\ Account(d, result[d].rows \o Coming(d))'
    BY DEF RowsAccounted
  <2>6. CASE result'[d] = result[d]
    <3>1. Increasing(result[d].rows \o Coming(d)) /\ Account(d, result[d].rows \o Coming(d))
      BY <1>1, <2>6 DEF RowsAccounted
    <3> QED BY <1>2, <2>1, <2>6, <3>1 DEF Account, server
  <2>7. CASE d = c /\ result'[d] = FirstPage(p)
    <3>1. result'[d].rows \o Coming(d)' = p.rows
      BY <1>7, <2>1, <2>2, <2>4, <2>7
    <3> QED BY <1>2, <1>6, <2>7, <3>1 DEF Account, server
  <2> QED BY <1>18, <2>5, <2>6, <2>7
<1>24. ReadToTheEnd'
  BY <1>1, <1>2, <1>6, <1>7, <1>8, <1>18 DEF ReadToTheEnd, server
<1>25. CursorsHeld'
  <2> SUFFICES ASSUME NEW d \in Result, cursor'[d] = "open"
               PROVE  \/ result'[d].cursor
                      \/ statement'[d].kind = "page"
                      \/ \E k \in closers' : d \in k
                      \/ d \in forgotten'
    BY DEF CursorsHeld
  <2>1. cursor[d] = "open" /\ closers' = closers /\ forgotten \subseteq forgotten'
    BY <1>2 DEF server
  <2>2. CASE d = c
    <3>1. CASE Listed(c[1])
      BY <1>6, <1>7, <1>10, <2>1, <2>2, <3>1
    <3>2. CASE ~Listed(c[1])
      BY <1>2, <2>2, <3>2
    <3> QED BY <3>1, <3>2
  <2>3. CASE d # c
    <3>1. statement[d].kind # "page"
      BY <1>3, <2>3
    <3>2. result[d].cursor => result'[d].cursor
      BY <1>5, <1>10, <2>3
    <3> QED BY <1>1, <2>1, <3>1, <3>2 DEF CursorsHeld
  <2> QED BY <2>2, <2>3
<1> QED BY <1>13, <1>14, <1>15, <1>17, <1>19, <1>20, <1>21, <1>22, <1>23, <1>24, <1>25
     DEF PagingInv

LEMMA EndBatchInv ==
  ASSUME PagingInv, NEW c \in Result, NEW s \in {"error", "cancelled"},
         statement[c].kind # "none", EndBatch(c, s), faults' \in 0 .. MaxFaults
  PROVE  PagingInv'
<1>1. /\ Types /\ Lists /\ Views /\ Batch /\ Outcomes /\ FetchingHasFlight
      /\ Requests /\ FirstPages /\ RowsAccounted /\ ReadToTheEnd /\ CursorsHeld
  BY DEF PagingInv
<1> DEFINE res == SetResult(c, Plain(s))
<1>2. /\ statement' = [statement EXCEPT ![c] = Answer("none")]
      /\ result' = Skipped(c, res)
      /\ forgotten' = forgotten \cup {c}
      /\ UNCHANGED <<begun, runs, selected, fetchingRef, fetches,
                     strays, closers, server, lost>>
  BY DEF EndBatch
<1>3. /\ c[1] = begun /\ Quiet(c)
      /\ \A d \in Result : d # c => statement[d].kind = "none"
      /\ result[c].status # "ok" /\ ~result[c].cursor
  BY Sending
<1>4. /\ Answer("none") \in Reply /\ Answer("none").kind = "none"
      /\ {"none", "pending", "skipped", s} \subseteq Statuses
      /\ \A x \in Statuses : /\ Plain(x) \in Outcome /\ Plain(x).status = x
                             /\ ~Plain(x).fetching /\ ~Plain(x).cursor
  BY PlainFacts, ReplyFacts DEF Statuses, Kinds
<1>5. /\ res \in [Result -> Outcome]
      /\ Listed(c[1]) => res[c] = Plain(s)
      /\ \A d \in Result : d # c \/ ~Listed(c[1]) => res[d] = result[d]
  BY <1>1, <1>4 DEF Types, SetResult
<1> HIDE DEF res
<1>6. result' = [d \in Result |->
                   IF d[1] = c[1] /\ d[2] > c[2] /\ res[d].status = "pending"
                   THEN Plain("skipped") ELSE res[d]]
  BY <1>2 DEF Skipped
\* A result is as before, unless it waited for the batch to reach it.
<1>7. \A d \in Result :
        \/ result'[d] = result[d]
        \/ /\ result'[d] = Plain(s) \/ result'[d] = Plain("skipped")
           /\ Listed(d[1]) /\ d[1] = c[1] /\ Quiet(d)
           /\ result[d].status # "ok" /\ ~result[d].cursor
  <2> SUFFICES ASSUME NEW d \in Result, result'[d] # result[d]
               PROVE  /\ result'[d] = Plain(s) \/ result'[d] = Plain("skipped")
                      /\ Listed(d[1]) /\ d[1] = c[1] /\ Quiet(d)
                      /\ result[d].status # "ok" /\ ~result[d].cursor
    OBVIOUS
  <2>1. CASE d = c
    <3>1. ~(c[2] > c[2])
      BY ResultElem
    <3>2. result'[c] = res[c]
      BY <1>6, <3>1
    <3> QED BY <1>3, <1>5, <2>1, <3>2
  <2>2. CASE d # c
    <3>1. /\ d[1] = c[1] /\ d[2] > c[2] /\ result[d].status = "pending"
          /\ result'[d] = Plain("skipped")
      BY <1>5, <1>6, <2>2
    <3>2. Ahead(d)
      BY <3>1, ResultElem DEF Ahead
    <3>3. Quiet(d) /\ Listed(d[1]) /\ result[d] = Plain("pending")
      BY <1>1, <3>1, <3>2 DEF Batch, Lists
    <3> QED BY <1>4, <3>1, <3>3
  <2> QED BY <2>1, <2>2
<1>8. \A d \in Result : /\ result'[d].status = "ok" <=> result[d].status = "ok"
                        /\ result'[d].status # "none" <=> result[d].status # "none"
                        /\ result'[d] = result[d] \/ ~result'[d].fetching
                        /\ result'[d] \in Outcome
  <2>1. s # "ok" /\ s # "none"
    OBVIOUS
  <2>2. /\ Plain(s).status = s /\ Plain(s) \in Outcome /\ ~Plain(s).fetching
        /\ Plain("skipped").status = "skipped" /\ Plain("skipped") \in Outcome
        /\ ~Plain("skipped").fetching
    BY <1>4
  <2> SUFFICES ASSUME NEW d \in Result
               PROVE  /\ result'[d].status = "ok" <=> result[d].status = "ok"
                      /\ result'[d].status # "none" <=> result[d].status # "none"
                      /\ result'[d] = result[d] \/ ~result'[d].fetching
                      /\ result'[d] \in Outcome
    OBVIOUS
  <2>3. CASE result'[d] = result[d]
    BY <1>1, <2>3 DEF Types
  <2>4. CASE result'[d] # result[d]
    <3>1. /\ result'[d] = Plain(s) \/ result'[d] = Plain("skipped")
          /\ result[d].status # "ok" /\ result[d].status # "none"
      BY <1>1, <1>7, <2>4 DEF Lists
    <3> QED BY <2>1, <2>2, <3>1
  <2> QED BY <2>3, <2>4
<1>9. /\ statement' \in [Result -> Reply]
      /\ \A d \in Result : statement'[d].kind = "none"
  BY <1>1, <1>2, <1>3, <1>4 DEF Types
<1>10. \A x : Listed(x)' <=> Listed(x)
  BY <1>2 DEF Listed
<1>11. Types'
  <2>1. result' \in [Result -> Outcome]
    BY <1>6, <1>8
  <2> QED BY <1>1, <1>2, <1>9, <2>1 DEF Types, server
<1>12. Lists'
  BY <1>1, <1>2, <1>8, <1>10 DEF Lists
<1>13. Views'
  BY <1>1, <1>2, <1>8, StillShown
<1>14. Batch'
  <2> SUFFICES ASSUME NEW d \in Result, Ahead(d)'
               PROVE  /\ Quiet(d)' /\ Unread(d)'
                      /\ Listed(d[1])' => result'[d] = Plain("pending")
    BY <1>9 DEF Batch
  <2>1. d[1] > begun
    BY <1>2, <1>9 DEF Ahead
  <2>2. Ahead(d) /\ d[1] # c[1]
    BY <1>1, <1>3, <2>1, ResultElem DEF Ahead, Types
  <2>3. Quiet(d) /\ Unread(d) /\ (Listed(d[1]) => result[d] = Plain("pending"))
    BY <1>1, <2>2 DEF Batch
  <2>4. Quiet(d)' /\ Unread(d)'
    BY <1>2, <2>3 DEF Quiet, Unread, server
  <2> QED BY <1>7, <1>10, <2>2, <2>3, <2>4
<1>15. Outcomes'
  BY <1>1, <1>4, <1>7 DEF Outcomes
<1>16. /\ FetchingHasFlight' /\ Requests' /\ FirstPages'
       /\ RowsAccounted' /\ ReadToTheEnd'
  <2>1. \A d \in Result :
          \/ result'[d] = result[d] /\ (Listed(d[1])' => Listed(d[1]))
          \/ /\ result'[d].status # "ok" /\ ~result'[d].fetching
             /\ Listed(d[1])' => Quiet(d)
    BY <1>7, <1>8, <1>10
  <2>2. /\ UNCHANGED <<fetches, table, pos, dropped, lost>>
        /\ \A d \in Result : cursor'[d] = "open" => cursor[d] = "open"
        /\ \A d \in Result : statement'[d].kind = "page" => statement'[d] = statement[d]
    BY <1>2, <1>9 DEF server
  <2> QED BY <1>1, <2>1, <2>2, NothingRead
<1>17. CursorsHeld'
  <2>1. \A d \in Result : result[d].cursor => result'[d].cursor
    BY <1>7
  <2>2. \A d \in Result : statement[d].kind = "page" => d \in forgotten'
    BY <1>2, <1>3
  <2> QED BY <1>1, <1>2, <2>1, <2>2 DEF CursorsHeld, server
<1> QED BY <1>11, <1>12, <1>13, <1>14, <1>15, <1>16, <1>17 DEF PagingInv

LEMMA BatchEndsInv ==
  ASSUME PagingInv, NEW c \in Result,
         StatementFailed(c) \/ StatementLost(c) \/ Cancel(c)
  PROVE  PagingInv'
<1>1. /\ statement[c].kind # "none" /\ faults' \in 0 .. MaxFaults
      /\ EndBatch(c, "error") \/ EndBatch(c, "cancelled")
  <2>1. faults \in 0 .. MaxFaults /\ MaxFaults \in Nat
    BY ResultPagingAssumption DEF PagingInv, Types
  <2>2. CASE StatementFailed(c)
    BY <2>1, <2>2 DEF StatementFailed
  <2>3. CASE StatementLost(c)
    BY <2>1, <2>3 DEF StatementLost
  <2>4. CASE Cancel(c)
    BY <2>1, <2>4 DEF Cancel
  <2> QED BY <2>2, <2>3, <2>4
<1> QED BY <1>1, EndBatchInv

-----------------------------------------------------------------------------
(* Steps of the grid and of the server that answers it.                    *)

\* The result a request is about, while its run is listed.
LEMMA Flying ==
  ASSUME PagingInv, NEW f \in fetches
  PROVE  /\ f.at \in Result /\ f.base \in Seq(Nat) /\ f.answer \in Reply
         /\ \A g \in fetches : g # f => g.at # f.at
         /\ Coming(f.at) = IF f.answer.kind = "page" THEN f.answer.rows ELSE <<>>
         /\ f.answer.kind # "page" => f.answer.rows = <<>>
         /\ statement[f.at].kind = "none" /\ ~Ahead(f.at)
         /\ Listed(f.at[1]) => /\ result[f.at].fetching /\ result[f.at].cursor
                               /\ result[f.at].status = "ok"
                               /\ f.base = result[f.at].rows
<1>1. /\ Types /\ Lists /\ Batch /\ Outcomes /\ FetchingHasFlight /\ Requests
  BY DEF PagingInv
<1>2. f.at \in Result /\ f.base \in Seq(Nat) /\ f.answer \in Reply
  BY <1>1 DEF Types, Request
<1>3. \A g, h \in fetches : g.at = h.at => g = h
  BY <1>1 DEF FetchingHasFlight
<1>4. Coming(f.at) = IF f.answer.kind = "page" THEN f.answer.rows ELSE <<>>
  <2>1. Coming(f.at) = ComingOf(fetches, f.at)
    BY DEF Coming, ComingOf
  <2> QED BY <1>3, <2>1, ComingFacts
<1>5. statement[f.at].kind = "none" /\ ~Ahead(f.at)
  BY <1>1, <1>2 DEF Batch, Quiet
<1>6. f.answer.kind # "page" => f.answer.rows = <<>>
  BY <1>1 DEF Requests
<1>7. ASSUME Listed(f.at[1])
      PROVE  /\ result[f.at].fetching /\ result[f.at].cursor
             /\ result[f.at].status = "ok" /\ f.base = result[f.at].rows
  <2>1. result[f.at].fetching /\ f.base = result[f.at].rows
    BY <1>1, <1>2, <1>7 DEF FetchingHasFlight, Requests
  <2>2. result[f.at].status \in Statuses
    BY <1>1, <1>2 DEF Types, Outcome
  <2>3. result[f.at].status = "ok"
    BY <1>1, <1>2, <2>1, <2>2, PlainFacts DEF Outcomes
  <2> QED BY <1>1, <1>2, <2>1, <2>3 DEF Outcomes
<1> QED BY <1>2, <1>3, <1>4, <1>5, <1>6, <1>7

LEMMA FetchNextPageInv ==
  ASSUME PagingInv, NEW c \in Result, FetchNextPage(c)
  PROVE  PagingInv'
<1>1. /\ Types /\ Lists /\ Views /\ Batch /\ Outcomes /\ FetchingHasFlight
      /\ Requests /\ FirstPages /\ RowsAccounted /\ ReadToTheEnd /\ CursorsHeld
  BY DEF PagingInv
<1> DEFINE new == [at |-> c, base |-> result[c].rows, answer |-> Asked]
           r == [result[c] EXCEPT !.fetching = TRUE, !.message = "none"]
<1>2. /\ View(result, selected) = c /\ CanFetchMore(c) /\ fetchingRef' = {c}
      /\ result' = SetResult(c, r)
      /\ fetches' = fetches \cup {new}
      /\ UNCHANGED <<begun, runs, selected, statement, strays, closers, server,
                     lost, forgotten, faults>>
  BY DEF FetchNextPage
<1>3. /\ selected = c /\ result[c].status = "ok" /\ result[c].cursor
      /\ ~result[c].fetching /\ result[c] \in Outcome
  BY <1>1, <1>2, ResultElem DEF View, CanFetchMore, Types
<1>4. Listed(c[1])
  BY <1>1, <1>3 DEF Lists
<1>5. /\ r \in Outcome /\ r.status = "ok" /\ r.cursor /\ r.fetching
      /\ r.rows = result[c].rows
  BY <1>3 DEF Outcome
<1>6. /\ Asked \in Reply /\ Asked.kind = "asked" /\ Asked.rows = <<>>
      /\ result[c].rows \in Seq(Nat)
  BY <1>3, ReplyFacts DEF Outcome, Kinds
<1>7. /\ new \in Request /\ new.at = c /\ new.base = result[c].rows
      /\ new.answer = Asked
  BY <1>6 DEF Request
<1> HIDE DEF r, new
<1>8. /\ result' \in [Result -> Outcome] /\ result'[c] = r
      /\ \A d \in Result : d # c => result'[d] = result[d]
  BY <1>1, <1>2, <1>4, <1>5 DEF SetResult, Types
<1>9. \A x : Listed(x)' <=> Listed(x)
  BY <1>2 DEF Listed
<1>10. \A f \in fetches : f.at # c
  BY <1>1, <1>3, <1>4 DEF FetchingHasFlight
<1>11. Types'
  BY <1>1, <1>2, <1>7, <1>8 DEF Types, server
<1>12. Lists'
  BY <1>1, <1>2, <1>3, <1>5, <1>8, <1>9 DEF Lists
<1>13. Views'
  <2>1. View(result, selected)' = c
    BY <1>2, <1>3, <1>5, <1>8, ResultElem DEF View
  <2> QED BY <1>2, <1>3, <1>5, <1>8, <2>1 DEF Views
<1>14. Batch'
  <2>1. \A s \in {"running", "pending"} : Plain(s).status # "ok"
    BY PlainFacts DEF Statuses
  <2>2. statement[c].kind = "none" /\ ~Ahead(c)
    BY <1>1, <1>3, <1>4, <2>1 DEF Batch
  <2>3. \A d \in Result : d # c => (Quiet(d)' <=> Quiet(d))
    BY <1>2, <1>7 DEF Quiet
  <2>4. \A d \in Result : (Unread(d)' <=> Unread(d)) /\ (Ahead(d)' <=> Ahead(d))
    BY <1>2 DEF Unread, Ahead, server
  <2> QED BY <1>1, <1>2, <1>8, <1>9, <2>2, <2>3, <2>4 DEF Batch
<1>15. Outcomes'
  BY <1>1, <1>5, <1>8 DEF Outcomes
<1>16. FetchingHasFlight'
  <2>1. ASSUME NEW d \in Result, Listed(d[1])'
        PROVE  result'[d].fetching <=> \E f \in fetches' : f.at = d
    <3>1. CASE d = c
      BY <1>2, <1>5, <1>7, <1>8, <3>1
    <3>2. CASE d # c
      BY <1>1, <1>2, <1>7, <1>8, <1>9, <2>1, <3>2 DEF FetchingHasFlight
    <3> QED BY <3>1, <3>2
  <2>2. \A f, g \in fetches' : f.at = g.at => f = g
    BY <1>1, <1>2, <1>7, <1>10 DEF FetchingHasFlight
  <2> QED BY <2>1, <2>2 DEF FetchingHasFlight
<1>17. Requests'
  <2> SUFFICES ASSUME NEW f \in fetches'
               PROVE  /\ Listed(f.at[1])' => f.base = result'[f.at].rows
                      /\ f.answer.kind \in {"asked", "page", "gone", "failed"}
                      /\ f.answer.kind = "gone" => cursor'[f.at] # "open"
                      /\ (f.answer.kind = "page" /\ f.answer.exhausted) =>
                           cursor'[f.at] # "open" /\ pos'[f.at] = Len(table'[f.at])
                      /\ f.answer.kind # "page" => f.answer.rows = <<>>
    BY DEF Requests
  <2>1. CASE f = new
    BY <1>5, <1>6, <1>7, <1>8, <2>1
  <2>2. CASE f \in fetches
    <3>1. f.at \in Result /\ result'[f.at] = result[f.at]
      BY <1>1, <1>8, <1>10, <2>2 DEF Types, Request
    <3>2. UNCHANGED <<cursor, pos, table>>
      BY <1>2 DEF server
    <3> QED BY <1>1, <1>9, <2>2, <3>1, <3>2 DEF Requests
  <2> QED BY <1>2, <2>1, <2>2
<1>18. FirstPages'
  BY <1>1, <1>2 DEF FirstPages, Account, server
<1>19. RowsAccounted'
  <2>1. \A d \in Result : Coming(d)' = Coming(d)
    <3>1. \A f : f.answer.kind = "page" => (f \in fetches' <=> f \in fetches)
      BY <1>2, <1>6, <1>7
    <3>2. \A d \in Result : ComingOf(fetches', d) = ComingOf(fetches, d)
      BY <1>2, <3>1, SamePages
    <3> QED BY <3>2 DEF Coming, ComingOf
  <2>2. \A d \in Result : result'[d].status = result[d].status /\ result'[d].rows = result[d].rows
    BY <1>3, <1>5, <1>8
  <2> QED BY <1>1, <1>2, <2>1, <2>2 DEF RowsAccounted, Account, server
<1>20. ReadToTheEnd'
  BY <1>1, <1>2, <1>5, <1>8 DEF ReadToTheEnd, server
<1>21. CursorsHeld'
  BY <1>1, <1>2, <1>5, <1>8 DEF CursorsHeld, server
<1> QED BY <1>11, <1>12, <1>13, <1>14, <1>15, <1>16, <1>17, <1>18, <1>19, <1>20, <1>21
     DEF PagingInv

LEMMA ServeFetchInv ==
  ASSUME PagingInv, NEW f \in fetches, ServeFetch(f)
  PROVE  PagingInv'
<1>1. /\ Types /\ Lists /\ Views /\ Batch /\ Outcomes /\ FetchingHasFlight
      /\ Requests /\ FirstPages /\ RowsAccounted /\ ReadToTheEnd /\ CursorsHeld
  BY DEF PagingInv
<1> DEFINE c == f.at
           t == table[c]
           p == pos[c]
           page == Fetch(t, p)
<1>2. PICK a \in {Answer("gone"), Answer("failed"), Page(page.rows, page.exhausted)} :
        /\ f.answer.kind = "asked"
        /\ fetches' = (fetches \ {f}) \cup {[f EXCEPT !.answer = a]}
        /\ (a.kind = "gone") <=> (cursor[c] # "open")
        /\ IF a.kind = "page" THEN Advance(c, t, p)
           ELSE /\ cursor' = [cursor EXCEPT ![c] = "closed"]
                /\ UNCHANGED <<pos, dropped>>
        /\ UNCHANGED <<begun, runs, result, selected, fetchingRef, statement,
                       strays, closers, table, lost, forgotten, faults>>
  BY DEF ServeFetch
<1>3. /\ c \in Result /\ f.base \in Seq(Nat)
      /\ \A g \in fetches : g # f => g.at # c
      /\ Coming(c) = <<>> /\ statement[c].kind = "none" /\ ~Ahead(c)
      /\ Listed(c[1]) => result[c].fetching /\ result[c].cursor
      /\ f \in Request
  BY <1>1, <1>2, Flying DEF Types
<1>4. t \in Seq(Nat) /\ p \in 0 .. Len(t)
  BY <1>1, <1>3 DEF Types
<1>5. page.rows \in Seq(Nat) /\ page.exhausted \in BOOLEAN
  BY <1>4, FetchFacts
<1>6. /\ a \in Reply /\ a.kind \in {"gone", "failed", "page"}
      /\ a.kind = "page" => a.rows = page.rows /\ a.exhausted = page.exhausted
      /\ a.kind # "page" => a.rows = <<>>
  BY <1>2, <1>5, ReplyFacts DEF Kinds
\* What becomes of the cursor.
<1>7. /\ pos' \in [Result -> Nat] /\ dropped' \in [Result -> SUBSET Nat]
      /\ cursor' \in [Result -> {"none", "open", "closed"}]
      /\ pos'[c] <= Len(t)
      /\ cursor'[c] = "open" => cursor[c] = "open"
      /\ a.kind = "gone" => cursor'[c] # "open"
      /\ a.kind = "page" =>
           /\ a.exhausted => cursor'[c] # "open" /\ pos'[c] = Len(t)
           /\ pos'[c] = page.pos
           /\ dropped'[c] = dropped[c] \cup (p + Len(page.rows) + 1) .. page.pos
      /\ a.kind # "page" => pos'[c] = p /\ dropped'[c] = dropped[c]
      /\ \A d \in Result : d # c => /\ pos'[d] = pos[d] /\ cursor'[d] = cursor[d]
                                    /\ dropped'[d] = dropped[d]
  <2>1. CASE a.kind = "page"
    <3>1. Advance(c, t, p) /\ cursor[c] = "open"
      BY <1>2, <2>1
    <3> HIDE DEF page, c, t, p
    <3>2. page = Fetch(t, p)
      BY DEF page
    <3>3. /\ pos' \in [Result -> Nat] /\ dropped' \in [Result -> SUBSET Nat]
          /\ cursor' \in [Result -> {"none", "open", "closed"}]
          /\ pos'[c] = page.pos /\ page.pos <= Len(t)
          /\ dropped'[c] = dropped[c] \cup (p + Len(page.rows) + 1) .. page.pos
          /\ cursor'[c] = IF page.exhausted THEN "closed" ELSE "open"
          /\ page.exhausted => page.pos = Len(t)
          /\ \A d \in Result : d # c => /\ pos'[d] = pos[d] /\ cursor'[d] = cursor[d]
                                        /\ dropped'[d] = dropped[d]
      BY <1>1, <1>3, <1>4, <3>1, <3>2, AdvanceFacts
    <3> QED BY <1>6, <2>1, <3>1, <3>3
  <2>2. CASE a.kind # "page"
    <3>1. cursor' = [cursor EXCEPT ![c] = "closed"] /\ UNCHANGED <<pos, dropped>>
      BY <1>2, <2>2
    <3> QED BY <1>1, <1>3, <1>4, <2>2, <3>1 DEF Types
  <2> QED BY <2>1, <2>2
<1> DEFINE served == [f EXCEPT !.answer = a]
<1>8. served \in Request /\ served.at = c /\ served.base = f.base /\ served.answer = a
  BY <1>3, <1>6 DEF Request
<1> HIDE DEF served
<1>9. /\ fetches' = (fetches \ {f}) \cup {served}
      /\ \A d \in Result : (\E g \in fetches' : g.at = d) <=> (\E g \in fetches : g.at = d)
  <2>1. fetches' = (fetches \ {f}) \cup {served}
    BY <1>2 DEF served
  <2> QED BY <1>8, <2>1
<1>10. \A x : Listed(x)' <=> Listed(x)
  BY <1>2 DEF Listed
<1> HIDE DEF page, p
<1>11. Types'
  <2>1. fetches' \subseteq Request
    BY <1>1, <1>8, <1>9 DEF Types
  <2>2. \A d \in Result : pos'[d] <= Len(table'[d])
    BY <1>1, <1>2, <1>7 DEF Types
  <2> QED BY <1>1, <1>2, <1>7, <2>1, <2>2 DEF Types
<1>12. Lists' /\ Views' /\ Outcomes'
  BY <1>1, <1>2, <1>10 DEF Lists, Views, View, Outcomes
<1>13. Batch'
  <2>1. \A d \in Result : (Ahead(d)' <=> Ahead(d)) /\ (Quiet(d)' <=> Quiet(d))
    BY <1>2, <1>9 DEF Ahead, Quiet
  <2>2. \A d \in Result : d # c => (Unread(d)' <=> Unread(d))
    BY <1>2, <1>7 DEF Unread
  <2> QED BY <1>1, <1>2, <1>3, <1>10, <2>1, <2>2 DEF Batch
<1>14. FetchingHasFlight'
  <2>1. \A g, h \in fetches' : g.at = h.at => g = h
    BY <1>1, <1>3, <1>8, <1>9 DEF FetchingHasFlight
  <2> QED BY <1>1, <1>2, <1>9, <1>10, <2>1 DEF FetchingHasFlight
<1>15. Requests'
  <2> SUFFICES ASSUME NEW g \in fetches'
               PROVE  /\ Listed(g.at[1])' => g.base = result'[g.at].rows
                      /\ g.answer.kind \in {"asked", "page", "gone", "failed"}
                      /\ g.answer.kind = "gone" => cursor'[g.at] # "open"
                      /\ (g.answer.kind = "page" /\ g.answer.exhausted) =>
                           cursor'[g.at] # "open" /\ pos'[g.at] = Len(table'[g.at])
                      /\ g.answer.kind # "page" => g.answer.rows = <<>>
    BY DEF Requests
  <2>1. CASE g = served
    <3>1. Listed(c[1]) => f.base = result[c].rows
      BY <1>1 DEF Requests
    <3> QED BY <1>2, <1>6, <1>7, <1>8, <1>10, <2>1, <3>1
  <2>2. CASE g \in fetches /\ g # f
    <3>1. g.at \in Result /\ g.at # c
      BY <1>1, <1>3, <2>2 DEF Types, Request
    <3>2. cursor'[g.at] = cursor[g.at] /\ pos'[g.at] = pos[g.at]
      BY <1>7, <3>1
    <3> QED BY <1>1, <1>2, <1>10, <2>2, <3>2 DEF Requests
  <2> QED BY <1>9, <2>1, <2>2
<1>16. FirstPages'
  <2> SUFFICES ASSUME NEW d \in Result, statement'[d].kind = "page"
               PROVE  /\ Increasing(statement'[d].rows) /\ Account(d, statement[d].rows)'
                      /\ statement'[d].exhausted =>
                           cursor'[d] # "open" /\ pos'[d] = Len(table'[d])
    BY DEF FirstPages
  <2>1. d # c
    BY <1>2, <1>3
  <2>2. /\ cursor'[d] = cursor[d] /\ pos'[d] = pos[d] /\ dropped'[d] = dropped[d]
        /\ UNCHANGED <<lost, table, statement>>
    BY <1>2, <1>7, <2>1
  <2> QED BY <1>1, <2>2 DEF FirstPages, Account
<1>17. RowsAccounted'
  <2> SUFFICES ASSUME NEW d \in Result, result'[d].status = "ok"
               PROVE  /\ Increasing(result'[d].rows \o Coming(d)')
                      /\ Account(d, result[d].rows \o Coming(d))'
    BY DEF RowsAccounted
  <2>1. /\ Increasing(result[d].rows \o Coming(d)) /\ Account(d, result[d].rows \o Coming(d))
        /\ result[d].rows \in Seq(Nat) /\ dropped[d] \in SUBSET Nat /\ lost[d] \in SUBSET Nat
    BY <1>1, <1>2 DEF RowsAccounted, Types, Outcome
  <2>2. CASE d # c
    <3>1. \A g \in fetches : g.at = d => g # f
      BY <2>2
    <3>2. \A g : g.at = d /\ g.answer.kind = "page" => (g \in fetches' <=> g \in fetches)
      BY <1>8, <1>9, <2>2, <3>1
    <3>3. Coming(d)' = Coming(d)
      <4>1. ComingOf(fetches', d) = ComingOf(fetches, d)
        BY <3>2, SamePages
      <4> QED BY <4>1 DEF Coming, ComingOf
    <3>4. /\ pos'[d] = pos[d] /\ dropped'[d] = dropped[d]
          /\ UNCHANGED <<lost, result>>
      BY <1>2, <1>7, <2>2
    <3> QED BY <2>1, <3>3, <3>4 DEF Account
  <2>3. CASE d = c
    <3>1. Coming(c)' = IF a.kind = "page" THEN a.rows ELSE <<>>
      <4>1. \A g, h \in fetches' : g.at = h.at => g = h
        BY <1>14 DEF FetchingHasFlight
      <4>2. served \in fetches'
        BY <1>9
      <4>3. ComingOf(fetches', c) = IF a.kind = "page" THEN a.rows ELSE <<>>
        BY <1>8, <4>1, <4>2, ComingFacts
      <4>4. Coming(c)' = ComingOf(fetches', c)
        BY <1>2 DEF Coming, ComingOf
      <4> QED BY <4>3, <4>4
    <3>2. result[c].rows \o Coming(c) = result[c].rows
      BY <1>3, <2>1, <2>3, ToSetFacts
    <3>3. /\ Increasing(result[c].rows)
          /\ Covered(result[c].rows, dropped[c], lost[c], p)
      BY <2>1, <2>3, <3>2 DEF Account, Covered, p
    <3>4. CASE a.kind # "page"
      <4>1. Coming(c)' = Coming(c)
        BY <1>3, <3>1, <3>4
      <4>2. pos'[c] = pos[c] /\ dropped'[c] = dropped[c] /\ UNCHANGED <<lost, result>>
        BY <1>2, <1>7, <3>4 DEF p
      <4> QED BY <2>1, <2>3, <4>1, <4>2 DEF Account
    <3>5. CASE a.kind = "page"
      <4> DEFINE skipped == (p + Len(page.rows) + 1) .. page.pos
      <4>1. page = Fetch(t, p) /\ skipped = (p + Len(page.rows) + 1) .. page.pos
        BY DEF page
      <4> HIDE DEF skipped, c, t
      <4>2. /\ Increasing(result[c].rows \o page.rows)
            /\ Covered(result[c].rows \o page.rows, dropped[c] \cup skipped, lost[c], page.pos)
        BY <1>4, <2>1, <2>3, <3>3, <4>1, ReadOn DEF p
      <4>3. Coming(c)' = page.rows
        BY <1>6, <3>1, <3>5
      <4>4. /\ dropped'[c] = dropped[c] \cup skipped /\ pos'[c] = page.pos
            /\ result' = result /\ lost' = lost
        BY <1>2, <1>7, <3>5 DEF skipped
      <4> QED BY <2>3, <4>2, <4>3, <4>4 DEF Account, Covered
    <3> QED BY <3>4, <3>5
  <2> QED BY <2>2, <2>3
<1>18. ReadToTheEnd'
  <2> SUFFICES ASSUME NEW d \in Result, result[d].status = "ok", ~result[d].cursor,
                      result[d].message = "none"
               PROVE  pos'[d] = Len(table'[d])
    BY <1>2 DEF ReadToTheEnd
  <2>1. d # c
    BY <1>1, <1>3 DEF Lists
  <2> QED BY <1>1, <1>2, <1>7, <2>1 DEF ReadToTheEnd
<1>19. CursorsHeld'
  <2>1. \A d \in Result : cursor'[d] = "open" => cursor[d] = "open"
    BY <1>7
  <2> QED BY <1>1, <1>2, <2>1 DEF CursorsHeld
<1> QED BY <1>11, <1>12, <1>13, <1>14, <1>15, <1>16, <1>17, <1>18, <1>19 DEF PagingInv

\* The end of a fetch: what the result becomes accounts for the page, and for
\* the rows that were lost with it.
LEMMA SettleInv ==
  ASSUME PagingInv, NEW f \in fetches, NEW r \in Outcome, Settle(f, r),
         r.status = "ok", ~r.fetching,
         Listed(f.at[1]) =>
           /\ Increasing(r.rows)
           /\ Covered(r.rows, dropped[f.at], lost'[f.at], pos[f.at])
           /\ ~r.cursor => \/ r.message = "expired" /\ cursor[f.at] # "open"
                           \/ cursor[f.at] # "open" /\ pos[f.at] = Len(table[f.at]),
         lost' \in [Result -> SUBSET Nat],
         \A d \in Result : d # f.at => lost'[d] = lost[d],
         strays' \subseteq strays \cup {f.at}, faults' \in 0 .. MaxFaults,
         UNCHANGED <<cursor, pos, dropped>>
  PROVE  PagingInv'
<1>1. /\ Types /\ Lists /\ Views /\ Batch /\ Outcomes /\ FetchingHasFlight
      /\ Requests /\ FirstPages /\ RowsAccounted /\ ReadToTheEnd /\ CursorsHeld
  BY DEF PagingInv
<1> DEFINE c == f.at
<1>2. /\ fetches' = fetches \ {f} /\ result' = SetResult(c, r)
      /\ fetchingRef' = fetchingRef \ {c}
      /\ UNCHANGED <<begun, runs, selected, statement, closers, table, forgotten>>
  BY DEF Settle
<1>3. /\ c \in Result /\ \A g \in fetches : g # f => g.at # c
      /\ statement[c].kind = "none" /\ ~Ahead(c)
      /\ Listed(c[1]) => result[c].status = "ok"
  BY Flying
<1> HIDE DEF c
<1>4. /\ result' \in [Result -> Outcome]
      /\ Listed(c[1]) => result'[c] = r
      /\ \A d \in Result : d # c \/ ~Listed(c[1]) => result'[d] = result[d]
  BY <1>1, <1>2, <1>3 DEF SetResult, Types
<1>5. \A d \in Result : result'[d].status = result[d].status
  BY <1>3, <1>4
<1>6. \A x : Listed(x)' <=> Listed(x)
  BY <1>2 DEF Listed
<1>7. \A g \in fetches' : g \in fetches /\ g.at \in Result /\ g.at # c
  BY <1>1, <1>2, <1>3 DEF Types, Request
<1>8. Types'
  <2>1. strays' \subseteq Result
    BY <1>1, <1>3 DEF Types, c
  <2> QED BY <1>1, <1>2, <1>4, <2>1 DEF Types
<1>9. Lists'
  BY <1>1, <1>2, <1>5, <1>6 DEF Lists
<1>10. Views'
  <2>1. fetchingRef' \subseteq fetchingRef /\ selected' = selected
    BY <1>2
  <2> QED BY <1>1, <1>5, <2>1, StillShown
<1>11. Batch'
  <2>1. \A d \in Result : d # c => (Quiet(d) => Quiet(d)') /\ (Unread(d)' <=> Unread(d))
    BY <1>2 DEF Quiet, Unread, c
  <2>2. \A d \in Result : Ahead(d)' <=> Ahead(d)
    BY <1>2 DEF Ahead
  <2> QED BY <1>1, <1>2, <1>3, <1>4, <1>6, <2>1, <2>2 DEF Batch
<1>12. Outcomes'
  BY <1>1, <1>4 DEF Outcomes
<1>13. FetchingHasFlight'
  <2>1. ASSUME NEW d \in Result, Listed(d[1])'
        PROVE  result'[d].fetching <=> \E g \in fetches' : g.at = d
    <3>1. CASE d = c
      BY <1>4, <1>6, <1>7, <2>1, <3>1
    <3>2. CASE d # c
      <4>1. result'[d] = result[d]
        BY <1>4, <3>2
      <4>2. \A g \in fetches : g.at = d => g \in fetches'
        BY <1>2, <3>2 DEF c
      <4> QED BY <1>1, <1>6, <1>7, <2>1, <4>1, <4>2 DEF FetchingHasFlight
    <3> QED BY <3>1, <3>2
  <2>2. \A g, h \in fetches' : g.at = h.at => g = h
    BY <1>1, <1>2 DEF FetchingHasFlight
  <2> QED BY <2>1, <2>2 DEF FetchingHasFlight
<1>14. Requests'
  <2>1. \A g \in fetches' : result'[g.at] = result[g.at]
    BY <1>4, <1>7
  <2> QED BY <1>1, <1>2, <1>6, <1>7, <2>1 DEF Requests
<1>15. FirstPages'
  <2>1. \A d \in Result : statement'[d].kind = "page" => d # c
    BY <1>2, <1>3
  <2>2. \A d \in Result : d # c => lost'[d] = lost[d]
    BY DEF c
  <2> QED BY <1>1, <1>2, <2>1, <2>2 DEF FirstPages, Account
<1>16. RowsAccounted'
  <2> SUFFICES ASSUME NEW d \in Result, result'[d].status = "ok"
               PROVE  /\ Increasing(result'[d].rows \o Coming(d)')
                      /\ Account(d, result[d].rows \o Coming(d))'
    BY DEF RowsAccounted
  <2>1. result[d].status = "ok"
    BY <1>5
  <2>2. CASE d # c
    <3>1. \A g : g.at = d /\ g.answer.kind = "page" => (g \in fetches' <=> g \in fetches)
      BY <1>2, <2>2 DEF c
    <3>2. Coming(d)' = Coming(d)
      <4>1. ComingOf(fetches', d) = ComingOf(fetches, d)
        BY <3>1, SamePages
      <4> QED BY <4>1 DEF Coming, ComingOf
    <3>3. result'[d] = result[d] /\ lost'[d] = lost[d]
      BY <1>4, <2>2 DEF c
    <3>4. Increasing(result[d].rows \o Coming(d)) /\ Account(d, result[d].rows \o Coming(d))
      BY <1>1, <2>1 DEF RowsAccounted
    <3> QED BY <3>2, <3>3, <3>4 DEF Account
  <2>3. CASE d = c
    <3>1. Listed(c[1])
      BY <1>1, <1>3, <2>1, <2>3 DEF Lists
    <3>2. Coming(c)' = <<>>
      <4>1. \A g, h \in fetches' : g.at = h.at => g = h
        BY <1>13 DEF FetchingHasFlight
      <4>2. ComingOf(fetches', c) = <<>>
        BY <1>7, <4>1, ComingFacts
      <4>3. \A x : Coming(x)' = ComingOf(fetches', x)
        BY DEF Coming, ComingOf
      <4> QED BY <1>3, <2>3, <4>2, <4>3
    <3>3. result'[c] = r /\ r.rows \o <<>> = r.rows
      BY <1>4, <3>1, ToSetFacts DEF Outcome
    <3>4. Increasing(r.rows) /\ Covered(r.rows, dropped[c], lost'[c], pos[c])
      BY <3>1 DEF c
    <3>5. result'[d].rows \o Coming(d)' = r.rows
      BY <2>3, <3>2, <3>3
    <3> QED BY <2>3, <3>4, <3>5 DEF Account, Covered
  <2> QED BY <2>2, <2>3
<1>17. ReadToTheEnd'
  <2> SUFFICES ASSUME NEW d \in Result, result'[d].status = "ok", ~result'[d].cursor,
                      result'[d].message = "none"
               PROVE  pos[d] = Len(table[d])
    BY <1>2 DEF ReadToTheEnd
  <2>1. CASE result'[d] = result[d]
    BY <1>1, <2>1 DEF ReadToTheEnd
  <2>2. CASE result'[d] # result[d]
    <3>1. d = c /\ Listed(c[1]) /\ result'[d] = r
      BY <1>4, <2>2
    <3> QED BY <3>1 DEF c
  <2> QED BY <2>1, <2>2
<1>18. CursorsHeld'
  <2> SUFFICES ASSUME NEW d \in Result, cursor[d] = "open"
               PROVE  \/ result'[d].cursor
                      \/ statement'[d].kind = "page"
                      \/ \E k \in closers' : d \in k
                      \/ d \in forgotten'
    BY DEF CursorsHeld
  <2>1. CASE result'[d] = result[d]
    BY <1>1, <1>2, <2>1 DEF CursorsHeld
  <2>2. CASE result'[d] # result[d]
    <3>1. d = c /\ Listed(c[1]) /\ result'[d] = r
      BY <1>4, <2>2
    <3> QED BY <3>1 DEF c
  <2> QED BY <2>1, <2>2
<1> QED BY <1>8, <1>9, <1>10, <1>11, <1>12, <1>13, <1>14, <1>15, <1>16, <1>17, <1>18
     DEF PagingInv

LEMMA PageAnsweredInv ==
  ASSUME PagingInv, NEW f \in fetches, PageAnswered(f)
  PROVE  PagingInv'
<1>1. Types /\ Lists /\ FetchingHasFlight /\ Requests /\ RowsAccounted
  BY DEF PagingInv
<1> DEFINE c == f.at
           a == f.answer
<1>2. /\ c \in Result /\ f.base \in Seq(Nat) /\ a \in Reply
      /\ Coming(c) = IF a.kind = "page" THEN a.rows ELSE <<>>
      /\ Listed(c[1]) => result[c].status = "ok" /\ f.base = result[c].rows
  BY Flying
<1>3. /\ a.kind \in {"page", "gone", "failed"}
      /\ UNCHANGED <<strays, cursor, pos, dropped, lost, faults>>
  BY <1>1 DEF PageAnswered, Requests
<1>4. /\ a.kind = "page" => Settle(f, MergeCursorPage(f.base, a))
      /\ a.kind = "gone" => Settle(f, ApplyCursorPageError(f.base, TRUE))
      /\ a.kind = "failed" => Settle(f, ApplyCursorPageError(f.base, FALSE))
  BY DEF PageAnswered
<1>5. /\ a.kind = "gone" => cursor[c] # "open"
      /\ (a.kind = "page" /\ a.exhausted) => cursor[c] # "open" /\ pos[c] = Len(table[c])
  BY <1>1 DEF Requests
<1>6. a.rows \in Seq(Nat) /\ a.exhausted \in BOOLEAN
  BY <1>2 DEF Reply
<1>7. Listed(c[1]) => /\ Increasing(f.base \o Coming(c))
                      /\ Covered(f.base \o Coming(c), dropped[c], lost[c], pos[c])
  BY <1>1, <1>2 DEF RowsAccounted, Account, Covered
<1>8. /\ lost' \in [Result -> SUBSET Nat] /\ lost' = lost /\ faults' \in 0 .. MaxFaults
      /\ strays' \subseteq strays \cup {c}
  BY <1>1, <1>3 DEF Types
<1>9. CASE a.kind = "page"
  <2> DEFINE r == MergeCursorPage(f.base, a)
  <2>1. /\ f.base \o a.rows \in Seq(Nat) /\ f.base \o Coming(c) = f.base \o a.rows
    BY <1>2, <1>6, <1>9, ConcatProperties
  <2>2. /\ r \in Outcome /\ r.status = "ok" /\ ~r.fetching
        /\ r.rows = f.base \o a.rows /\ r.cursor = ~a.exhausted
    BY <1>6, <2>1 DEF MergeCursorPage, Outcome, Statuses
  <2>3. Settle(f, r)
    BY <1>4, <1>9
  <2> HIDE DEF r
  <2>4. Listed(c[1]) =>
          /\ Increasing(r.rows) /\ Covered(r.rows, dropped[c], lost'[c], pos[c])
          /\ ~r.cursor => cursor[c] # "open" /\ pos[c] = Len(table[c])
    BY <1>5, <1>6, <1>7, <1>8, <1>9, <2>1, <2>2
  <2> QED BY <1>3, <1>8, <2>2, <2>3, <2>4, SettleInv
<1>10. ASSUME NEW gone \in BOOLEAN, Settle(f, ApplyCursorPageError(f.base, gone)),
              a.kind # "page", gone => cursor[c] # "open"
       PROVE  PagingInv'
  <2> DEFINE r == ApplyCursorPageError(f.base, gone)
  <2>1. /\ r \in Outcome /\ r.status = "ok" /\ ~r.fetching
        /\ r.rows = f.base /\ r.cursor = ~gone /\ (gone => r.message = "expired")
    BY <1>2, <1>10 DEF ApplyCursorPageError, Outcome, Statuses
  <2>2. f.base \o Coming(c) = f.base
    BY <1>2, <1>10, ToSetFacts
  <2>3. Settle(f, r)
    BY <1>10
  <2> HIDE DEF r
  <2>4. Listed(c[1]) =>
          /\ Increasing(r.rows) /\ Covered(r.rows, dropped[c], lost'[c], pos[c])
          /\ ~r.cursor => r.message = "expired" /\ cursor[c] # "open"
    BY <1>7, <1>8, <1>10, <2>1, <2>2
  <2> QED BY <1>3, <1>8, <2>1, <2>3, <2>4, SettleInv
<1>11. CASE a.kind = "gone"
  BY <1>4, <1>5, <1>10, <1>11
<1>12. CASE a.kind = "failed"
  BY <1>4, <1>10, <1>12
<1> QED BY <1>3, <1>9, <1>11, <1>12

LEMMA PageLostInv ==
  ASSUME PagingInv, NEW f \in fetches, PageLost(f)
  PROVE  PagingInv'
<1>1. Types /\ Lists /\ FetchingHasFlight /\ Requests /\ RowsAccounted
  BY DEF PagingInv
<1> DEFINE c == f.at
           r == ApplyCursorPageError(f.base, FALSE)
<1>2. /\ c \in Result /\ f.base \in Seq(Nat) /\ f.answer \in Reply
      /\ Coming(c) = IF f.answer.kind = "page" THEN f.answer.rows ELSE <<>>
      /\ f.answer.kind # "page" => f.answer.rows = <<>>
      /\ Listed(c[1]) => result[c].status = "ok" /\ f.base = result[c].rows
  BY Flying
<1>3. /\ faults < MaxFaults /\ faults' = faults + 1
      /\ lost' = [lost EXCEPT ![c] = @ \cup ToSet(f.answer.rows)]
      /\ strays' \subseteq strays \cup {c}
      /\ Settle(f, r)
      /\ UNCHANGED <<cursor, pos, dropped>>
  BY DEF PageLost
<1>4. f.answer.rows \in Seq(Nat) /\ ToSet(f.answer.rows) \in SUBSET Nat
  <2>1. f.answer.rows \in Seq(Nat)
    BY <1>2 DEF Reply
  <2>2. \A i \in DOMAIN f.answer.rows : f.answer.rows[i] \in Nat
    BY <2>1
  <2> QED BY <2>1, <2>2, ToSetFacts
<1>5. /\ lost' \in [Result -> SUBSET Nat]
      /\ lost'[c] = lost[c] \cup ToSet(f.answer.rows)
      /\ \A d \in Result : d # c => lost'[d] = lost[d]
      /\ faults' \in 0 .. MaxFaults
  <2>1. lost \in [Result -> SUBSET Nat] /\ faults \in Nat /\ MaxFaults \in Nat
    BY <1>1, ResultPagingAssumption DEF Types
  <2> QED BY <1>2, <1>3, <1>4, <2>1
<1>6. /\ r \in Outcome /\ r.status = "ok" /\ ~r.fetching /\ r.rows = f.base /\ r.cursor
  BY <1>2 DEF ApplyCursorPageError, Outcome, Statuses
<1>7. ASSUME Listed(c[1])
      PROVE  Increasing(f.base) /\ Covered(f.base, dropped[c], lost'[c], pos[c])
  <2>1. Coming(c) = f.answer.rows
    BY <1>2
  <2>2. /\ Increasing(f.base \o f.answer.rows)
        /\ Covered(f.base \o f.answer.rows, dropped[c], lost[c], pos[c])
    BY <1>1, <1>2, <1>7, <2>1 DEF RowsAccounted, Account, Covered
  <2>3. Increasing(f.base)
    BY <1>2, <1>4, <2>2, IncreasingPrefix
  <2>4. ToSet(f.base \o f.answer.rows) = ToSet(f.base) \cup ToSet(f.answer.rows)
    BY <1>2, <1>4, ToSetFacts
  <2>5. Covered(f.base, dropped[c], lost'[c], pos[c])
    BY <1>5, <2>2, <2>4 DEF Covered
  <2> QED BY <2>3, <2>5
<1>8. Settle(f, r)
  BY <1>3
<1> HIDE DEF r
<1> QED BY <1>3, <1>5, <1>6, <1>7, <1>8, SettleInv

LEMMA ServeStrayInv ==
  ASSUME PagingInv, NEW c \in Result, ServeStray(c)
  PROVE  PagingInv'
<1>1. /\ Types /\ Lists /\ Views /\ Batch /\ Outcomes /\ FetchingHasFlight
      /\ Requests /\ FirstPages /\ RowsAccounted /\ ReadToTheEnd /\ CursorsHeld
  BY DEF PagingInv
<1> DEFINE t == table[c]
           p == pos[c]
           page == Fetch(t, p)
           skipped == (p + Len(page.rows) + 1) .. page.pos
<1>2. /\ c \in strays /\ strays' = strays \ {c}
      /\ cursor[c] = "open" => /\ Advance(c, t, p)
                               /\ lost' = [lost EXCEPT ![c] = @ \cup ToSet(page.rows)]
      /\ cursor[c] # "open" => UNCHANGED <<cursor, pos, dropped, lost>>
      /\ UNCHANGED <<begun, runs, result, selected, fetchingRef, statement,
                     fetches, closers, table, forgotten, faults>>
  BY DEF ServeStray
<1>3. t \in Seq(Nat) /\ p \in 0 .. Len(t)
  BY <1>1 DEF Types
<1>4. page.rows \in Seq(Nat) /\ ToSet(page.rows) \in SUBSET Nat
  <2>1. page.rows \in Seq(Nat)
    BY <1>3, FetchFacts
  <2> HIDE DEF page
  <2>2. \A i \in DOMAIN page.rows : page.rows[i] \in Nat
    BY <2>1
  <2> QED BY <2>1, <2>2, ToSetFacts
<1>5. page = Fetch(t, p) /\ skipped = (p + Len(page.rows) + 1) .. page.pos
  OBVIOUS
<1> HIDE DEF page, t, p
\* What becomes of the cursor.
<1>6. /\ pos' \in [Result -> Nat] /\ dropped' \in [Result -> SUBSET Nat]
      /\ cursor' \in [Result -> {"none", "open", "closed"}]
      /\ lost' \in [Result -> SUBSET Nat]
      /\ pos[c] <= pos'[c] /\ pos'[c] <= Len(t)
      /\ cursor'[c] = "open" => cursor[c] = "open"
      /\ \/ /\ cursor[c] = "open" /\ pos'[c] = page.pos
            /\ dropped'[c] = dropped[c] \cup skipped
            /\ lost'[c] = lost[c] \cup ToSet(page.rows)
         \/ UNCHANGED <<cursor, pos, dropped, lost>>
      /\ \A d \in Result : d # c => /\ pos'[d] = pos[d] /\ cursor'[d] = cursor[d]
                                    /\ dropped'[d] = dropped[d] /\ lost'[d] = lost[d]
  <2>1. CASE cursor[c] = "open"
    <3>1. /\ pos' \in [Result -> Nat] /\ dropped' \in [Result -> SUBSET Nat]
          /\ cursor' \in [Result -> {"none", "open", "closed"}]
          /\ pos'[c] = page.pos /\ p <= page.pos /\ page.pos <= Len(t)
          /\ dropped'[c] = dropped[c] \cup skipped
          /\ \A d \in Result : d # c => /\ pos'[d] = pos[d] /\ cursor'[d] = cursor[d]
                                        /\ dropped'[d] = dropped[d]
      BY <1>1, <1>2, <1>3, <1>5, <2>1, AdvanceFacts
    <3>2. /\ lost' \in [Result -> SUBSET Nat]
          /\ lost'[c] = lost[c] \cup ToSet(page.rows)
          /\ \A d \in Result : d # c => lost'[d] = lost[d]
      <4>1. lost \in [Result -> SUBSET Nat] /\ lost' = [lost EXCEPT ![c] = @ \cup ToSet(page.rows)]
        BY <1>1, <1>2, <2>1 DEF Types
      <4> QED BY <1>4, <4>1
    <3> HIDE DEF skipped
    <3> QED BY <2>1, <3>1, <3>2 DEF p
  <2>2. CASE cursor[c] # "open"
    <3>1. UNCHANGED <<cursor, pos, dropped, lost>>
      BY <1>2, <2>2
    <3> QED BY <1>1, <1>3, <3>1 DEF Types, t, p
  <2> QED BY <2>1, <2>2
<1> HIDE DEF skipped
<1>7. \A d \in Result : cursor'[d] = "open" => cursor[d] = "open"
  BY <1>6
<1>8. \A x : Listed(x)' <=> Listed(x)
  BY <1>2 DEF Listed
<1>9. ~Quiet(c) /\ statement[c].kind = "none" /\ ~Ahead(c)
  BY <1>1, <1>2 DEF Quiet, Batch
<1>10. Types'
  <2>1. \A d \in Result : pos'[d] <= Len(table'[d])
    BY <1>1, <1>2, <1>6 DEF Types, t
  <2> QED BY <1>1, <1>2, <1>6, <2>1 DEF Types
<1>11. Lists' /\ Views' /\ Outcomes' /\ FetchingHasFlight'
  BY <1>1, <1>2, <1>8 DEF Lists, Views, View, Outcomes, FetchingHasFlight
<1>12. Batch'
  <2>1. \A d \in Result : (Ahead(d)' <=> Ahead(d)) /\ (Quiet(d) => Quiet(d)')
    BY <1>2 DEF Ahead, Quiet
  <2>2. \A d \in Result : d # c => (Unread(d)' <=> Unread(d))
    BY <1>6 DEF Unread
  <2> QED BY <1>1, <1>2, <1>8, <1>9, <2>1, <2>2 DEF Batch
\* A cursor that has been read to the end stays there.
<1>13. \A d \in Result : pos[d] = Len(table[d]) => pos'[d] = Len(table'[d])
  <2>1. pos[c] \in Nat /\ pos'[c] \in Nat /\ Len(t) \in Nat
    BY <1>1, <1>3, <1>6 DEF Types
  <2> QED BY <1>2, <1>6, <2>1 DEF t
<1>14. Requests'
  <2>1. \A f \in fetches : f.at \in Result
    BY <1>1 DEF Types, Request
  <2> QED BY <1>1, <1>2, <1>7, <1>8, <1>13, <2>1 DEF Requests
<1>15. FirstPages'
  <2> SUFFICES ASSUME NEW d \in Result, statement'[d].kind = "page"
               PROVE  /\ Increasing(statement'[d].rows) /\ Account(d, statement[d].rows)'
                      /\ statement'[d].exhausted =>
                           cursor'[d] # "open" /\ pos'[d] = Len(table'[d])
    BY DEF FirstPages
  <2>1. d # c
    BY <1>2, <1>9
  <2> QED BY <1>1, <1>2, <1>6, <2>1 DEF FirstPages, Account
<1>16. RowsAccounted'
  <2> SUFFICES ASSUME NEW d \in Result, result[d].status = "ok"
               PROVE  /\ Increasing(result'[d].rows \o Coming(d)')
                      /\ Account(d, result[d].rows \o Coming(d))'
    BY <1>2 DEF RowsAccounted
  <2> DEFINE rows == result[d].rows \o Coming(d)
  <2>1. result'[d].rows \o Coming(d)' = rows
    BY <1>2 DEF Coming
  <2>2. Increasing(rows) /\ Covered(rows, dropped[d], lost[d], pos[d])
    BY <1>1 DEF RowsAccounted, Account, Covered
  <2>3. Covered(rows, dropped'[d], lost'[d], pos'[d])
    <3>1. CASE d # c \/ UNCHANGED <<cursor, pos, dropped, lost>>
      BY <1>6, <2>2, <3>1
    <3>2. CASE d = c /\ cursor[c] = "open"
      <4>1. Coming(c) \in Seq(Nat)
        <5>1. CASE \E f \in fetches : f.at = c
          BY <5>1, Flying DEF Reply
        <5>2. CASE \A f \in fetches : f.at # c
          BY <5>2 DEF Coming
        <5> QED BY <5>1, <5>2
      <4>2. result[c].rows \in Seq(Nat) /\ dropped[c] \in SUBSET Nat /\ lost[c] \in SUBSET Nat
        BY <1>1 DEF Types, Outcome
      <4>3. rows \in Seq(Nat)
        BY <3>2, <4>1, <4>2, ConcatProperties
      <4> HIDE DEF rows
      <4>4. Covered(rows, dropped[c] \cup skipped, lost[c] \cup ToSet(page.rows), page.pos)
        BY <1>3, <1>5, <2>2, <3>2, <4>2, <4>3, ReadOn DEF p
      <4> QED BY <1>6, <2>2, <3>2, <4>4
    <3> QED BY <1>6, <3>1, <3>2
  <2>4. Account(d, result[d].rows \o Coming(d))' <=> Covered(rows, dropped'[d], lost'[d], pos'[d])
    BY <2>1 DEF Account, Covered
  <2> QED BY <2>1, <2>2, <2>3, <2>4
<1>17. ReadToTheEnd'
  BY <1>1, <1>2, <1>13 DEF ReadToTheEnd
<1>18. CursorsHeld'
  BY <1>1, <1>2, <1>7 DEF CursorsHeld
<1> QED BY <1>10, <1>11, <1>12, <1>14, <1>15, <1>16, <1>17, <1>18 DEF PagingInv

-----------------------------------------------------------------------------
(* Steps that select, close and expire.                                    *)

LEMMA SelectInv ==
  ASSUME PagingInv, NEW sel \in Result \cup {NoView}, Select(sel)
  PROVE  PagingInv'
<1>1. /\ Types /\ Lists /\ Views /\ Batch /\ Outcomes /\ FetchingHasFlight
      /\ Requests /\ FirstPages /\ RowsAccounted /\ ReadToTheEnd /\ CursorsHeld
  BY DEF PagingInv
<1>2. /\ sel # NoView => Listed(sel[1])
      /\ Shows(result', sel)
      /\ UNCHANGED <<begun, runs, result, statement, fetches, strays,
                     closers, server, lost, forgotten, faults>>
  BY DEF Select
<1>3. sel # NoView => result'[sel].status # "none"
  BY <1>1, <1>2 DEF Lists
<1>4. Views' /\ selected' \in Result \cup {NoView} /\ fetchingRef' \subseteq Result
  BY <1>1, <1>2, <1>3, ShownIsListed
<1>5. \A x : Listed(x)' <=> Listed(x)
  BY <1>2 DEF Listed
<1>6. Types' /\ Lists' /\ Outcomes'
  BY <1>1, <1>2, <1>4, <1>5 DEF Types, Lists, Outcomes, server
<1>7. Batch'
  <2>1. \A d \in Result : /\ (Ahead(d)' <=> Ahead(d)) /\ (Quiet(d)' <=> Quiet(d))
                          /\ (Unread(d)' <=> Unread(d))
    BY <1>2 DEF Ahead, Quiet, Unread, server
  <2> QED BY <1>1, <1>2, <1>5, <2>1 DEF Batch
<1>8. /\ FetchingHasFlight' /\ Requests' /\ FirstPages'
      /\ RowsAccounted' /\ ReadToTheEnd'
  <2>1. /\ UNCHANGED <<fetches, table, pos, dropped, lost>>
        /\ \A d \in Result : cursor'[d] = "open" => cursor[d] = "open"
        /\ \A d \in Result : statement'[d].kind = "page" => statement'[d] = statement[d]
        /\ \A d \in Result : result'[d] = result[d] /\ (Listed(d[1])' => Listed(d[1]))
    BY <1>2, <1>5 DEF server
  <2> QED BY <1>1, <2>1, NothingRead
<1>9. CursorsHeld'
  BY <1>1, <1>2 DEF CursorsHeld, server
<1> QED BY <1>4, <1>6, <1>7, <1>8, <1>9 DEF PagingInv

\* Runs that go take their results with them: what is left is as it was.
LEMMA GoneInv ==
  ASSUME PagingInv, NEW gone,
         runs' \in Seq(1 .. begun), Len(runs') <= RunHistoryCap,
         \A k, l \in DOMAIN runs' : k < l => runs'[k] < runs'[l],
         \A x : Listed(x)' <=> (Listed(x) /\ x \notin gone),
         result' = [c \in Result |-> IF c[1] \in gone THEN Plain("none") ELSE result[c]],
         Views', selected' \in Result \cup {NoView}, fetchingRef' \subseteq Result,
         closers' \subseteq SUBSET Result, closers \subseteq closers',
         forgotten \subseteq forgotten', forgotten' \subseteq Result,
         \A c \in Result :
           (c[1] \in gone /\ result[c].cursor) => \/ \E k \in closers' : c \in k
                                                  \/ c \in forgotten',
         \/ statement' = statement
         \/ /\ statement' = [c \in Result |-> Answer("none")]
            /\ \A c \in Result : statement[c].kind # "none" => c \in forgotten',
         UNCHANGED <<begun, fetches, strays, server, lost, faults>>
  PROVE  PagingInv'
<1>1. /\ Types /\ Lists /\ Views /\ Batch /\ Outcomes /\ FetchingHasFlight
      /\ Requests /\ FirstPages /\ RowsAccounted /\ ReadToTheEnd /\ CursorsHeld
  BY DEF PagingInv
<1>2. /\ Plain("none") \in Outcome /\ Plain("none").status = "none"
      /\ ~Plain("none").fetching /\ ~Plain("none").cursor
      /\ Answer("none") \in Reply /\ Answer("none").kind = "none"
  BY PlainFacts, ReplyFacts DEF Statuses, Kinds
<1>3. \A c \in Result : /\ c[1] \in gone => result'[c] = Plain("none")
                        /\ c[1] \notin gone => result'[c] = result[c]
  OBVIOUS
<1>4. \A c \in Result : result'[c].status # "none" <=> Listed(c[1])'
  BY <1>1, <1>2, <1>3 DEF Lists
<1>5. /\ statement' \in [Result -> Reply]
      /\ \A c \in Result : statement'[c].kind # "none" => statement'[c] = statement[c]
  <2>1. CASE statement' = statement
    BY <1>1, <2>1 DEF Types
  <2>2. CASE statement' = [c \in Result |-> Answer("none")]
    BY <1>2, <2>2
  <2> QED BY <2>1, <2>2
<1>6. Types'
  <2>1. result' \in [Result -> Outcome]
    BY <1>1, <1>2 DEF Types
  <2> QED BY <1>1, <1>5, <2>1 DEF Types, server
<1>7. Lists'
  BY <1>4 DEF Lists
<1>8. Batch'
  <2>1. \A d \in Result : /\ Ahead(d)' => Ahead(d)
                          /\ (Quiet(d)' <=> Quiet(d)) /\ (Unread(d)' <=> Unread(d))
    BY <1>5 DEF Ahead, Quiet, Unread, server
  <2>2. \A d \in Result : Listed(d[1])' => Listed(d[1]) /\ result'[d] = result[d]
    BY <1>3
  <2> QED BY <1>1, <1>5, <2>1, <2>2 DEF Batch
<1>9. Outcomes'
  BY <1>1, <1>2, <1>3 DEF Outcomes
<1>10. /\ FetchingHasFlight' /\ Requests' /\ FirstPages'
       /\ RowsAccounted' /\ ReadToTheEnd'
  <2>1. /\ UNCHANGED <<fetches, table, pos, dropped, lost>>
        /\ \A d \in Result : cursor'[d] = "open" => cursor[d] = "open"
    BY DEF server
  <2>2. \A d \in Result : statement'[d].kind = "page" => statement'[d] = statement[d]
    BY <1>5
  <2>3. \A d \in Result :
          \/ result'[d] = result[d] /\ (Listed(d[1])' => Listed(d[1]))
          \/ /\ result'[d].status # "ok" /\ ~result'[d].fetching
             /\ Listed(d[1])' => Quiet(d)
    BY <1>2, <1>3
  <2> QED BY <1>1, <2>1, <2>2, <2>3, NothingRead
<1>11. CursorsHeld'
  <2> SUFFICES ASSUME NEW c \in Result, cursor'[c] = "open"
               PROVE  \/ result'[c].cursor
                      \/ statement'[c].kind = "page"
                      \/ \E k \in closers' : c \in k
                      \/ c \in forgotten'
    BY DEF CursorsHeld
  <2>1. cursor[c] = "open"
    BY DEF server
  <2>2. CASE result[c].cursor
    BY <1>3, <2>2
  <2>3. CASE statement[c].kind = "page"
    <3>1. statement'[c].kind = "page" \/ c \in forgotten'
      BY <2>3
    <3> QED BY <3>1
  <2> QED BY <1>1, <2>1, <2>2, <2>3 DEF CursorsHeld
<1> QED BY <1>6, <1>7, <1>8, <1>9, <1>10, <1>11 DEF PagingInv

LEMMA CloseRunInv ==
  ASSUME PagingInv, NEW k, CloseRun(k)
  PROVE  PagingInv'
<1>1. Types /\ Lists /\ Views
  BY DEF PagingInv
<1> DEFINE r == runs[k]
           n == Len(runs)
<1>2. /\ k \in DOMAIN runs /\ runs' = RemoveAt(runs, k)
      /\ result' = [c \in Result |-> IF c[1] = r THEN Plain("none") ELSE result[c]]
      /\ CloseRunCursors({r})
      /\ \/ selected[1] # r /\ Shows(result', selected)
         \/ Shows(result', NoView)
         \/ \E c \in Result : c[1] \in ToSet(runs') /\ Shows(result', c)
      /\ UNCHANGED <<begun, statement, fetches, strays, server, lost,
                     forgotten, faults>>
  BY DEF CloseRun
<1>3. /\ runs \in Seq(1 .. begun) /\ n \in Nat /\ DOMAIN runs = 1 .. n /\ k \in 1 .. n
      /\ n <= RunHistoryCap /\ RunHistoryCap \in Nat
      /\ \A i \in 1 .. n : runs[i] \in 1 .. begun
      /\ \A i, j \in 1 .. n : i < j => runs[i] < runs[j]
  <2>1. runs \in Seq(1 .. begun) /\ n \in Nat /\ DOMAIN runs = 1 .. n
    BY <1>1, LenProperties DEF Lists
  <2>2. \A i \in 1 .. n : runs[i] \in 1 .. begun
    BY <2>1, ElementOfSeq
  <2> HIDE DEF n
  <2>3. n <= RunHistoryCap /\ RunHistoryCap \in Nat
    BY <1>1, ResultPagingAssumption DEF Lists, n
  <2>4. \A i, j \in 1 .. n : i < j => runs[i] < runs[j]
    BY <1>1, <2>1 DEF Lists
  <2> QED BY <1>2, <2>1, <2>2, <2>3, <2>4
<1>4. /\ runs' \in Seq(1 .. begun) /\ Len(runs') = n - 1
      /\ \A i \in 1 .. n - 1 : runs'[i] = IF i < k THEN runs[i] ELSE runs[i + 1]
  <2> DEFINE S == 1 .. begun
  <2>1. runs \in Seq(S) /\ k \in 1 .. Len(runs)
    BY <1>3
  <2> HIDE DEF S
  <2>2. /\ RemoveAt(runs, k) \in Seq(S) /\ Len(RemoveAt(runs, k)) = Len(runs) - 1
        /\ \A i \in 1 .. Len(runs) - 1 :
             RemoveAt(runs, k)[i] = IF i < k THEN runs[i] ELSE runs[i + 1]
    BY <2>1, RemoveAtFacts
  <2> QED BY <1>2, <2>2 DEF S
<1>5. DOMAIN runs' = 1 .. n - 1
  BY <1>4, LenProperties
<1> HIDE DEF n
<1>6. \A i, j \in DOMAIN runs' : i < j => runs'[i] < runs'[j]
  <2> SUFFICES ASSUME NEW i \in 1 .. n - 1, NEW j \in 1 .. n - 1, i < j
               PROVE  runs'[i] < runs'[j]
    BY <1>5
  <2>1. /\ i \in 1 .. n /\ i + 1 \in 1 .. n /\ j \in 1 .. n /\ j + 1 \in 1 .. n
        /\ i < j /\ i + 1 < j + 1 /\ i < j + 1
    BY <1>3
  <2>2. CASE j < k
    BY <1>3, <1>4, <2>1, <2>2
  <2>3. CASE ~(j < k)
    BY <1>3, <1>4, <2>1, <2>3
  <2> QED BY <2>2, <2>3
<1>7. \A x : Listed(x)' <=> (Listed(x) /\ x \notin {r})
  <2>1. ASSUME NEW x, Listed(x)' PROVE Listed(x) /\ x # r
    <3>1. PICK i \in 1 .. n - 1 : runs'[i] = x
      BY <1>5, <2>1 DEF Listed
    <3>2. PICK j \in 1 .. n : j # k /\ runs[j] = x
      <4>1. CASE i < k
        <5>1. i \in 1 .. n /\ i # k /\ runs[i] = x
          BY <1>3, <1>4, <3>1, <4>1
        <5> QED BY <5>1
      <4>2. CASE ~(i < k)
        <5>1. i + 1 \in 1 .. n /\ i + 1 # k /\ runs[i + 1] = x
          BY <1>3, <1>4, <3>1, <4>2
        <5> QED BY <5>1
      <4> QED BY <4>1, <4>2
    <3>3. x # runs[k]
      <4>1. j < k \/ k < j
        BY <1>3, <3>2
      <4> QED BY <1>3, <3>2, <4>1
    <3> QED BY <1>3, <3>2, <3>3 DEF Listed
  <2>2. ASSUME NEW x, Listed(x), x # r PROVE Listed(x)'
    <3>1. PICK j \in 1 .. n : runs[j] = x
      BY <1>3, <2>2 DEF Listed
    <3>2. j # k
      BY <2>2, <3>1
    <3>3. \E i \in 1 .. n - 1 : runs'[i] = x
      <4>1. CASE j < k
        <5>1. j \in 1 .. n - 1
          BY <1>3, <4>1
        <5> QED BY <1>4, <3>1, <4>1, <5>1
      <4>2. CASE j > k
        <5>1. j - 1 \in 1 .. n - 1 /\ ~(j - 1 < k) /\ j - 1 + 1 = j
          BY <1>3, <4>2
        <5> QED BY <1>4, <3>1, <5>1
      <4> QED BY <1>3, <3>2, <4>1, <4>2
    <3> QED BY <1>5, <3>3 DEF Listed
  <2> QED BY <2>1, <2>2
<1>8. Len(runs') <= RunHistoryCap
  BY <1>3, <1>4
<1> HIDE DEF r
<1>9. \A c \in Result : c[1] # r => result'[c] = result[c]
  BY <1>2
<1>10. Views' /\ selected' \in Result \cup {NoView} /\ fetchingRef' \subseteq Result
  <2>1. CASE selected[1] # r /\ Shows(result', selected)
    <3>1. selected \in Result \cup {NoView}
      BY <1>1 DEF Types
    <3>2. selected # NoView => result'[selected].status # "none"
      BY <1>1, <1>9, <2>1, <3>1 DEF Views
    <3> QED BY <1>1, <2>1, <3>1, <3>2, ShownIsListed
  <2>2. CASE Shows(result', NoView)
    BY <1>1, <2>2, ShownIsListed
  <2>3. ASSUME NEW c \in Result, c[1] \in ToSet(runs'), Shows(result', c)
        PROVE  Views' /\ selected' \in Result \cup {NoView} /\ fetchingRef' \subseteq Result
    <3>1. Listed(c[1])'
      BY <2>3, ToSetFacts DEF Listed
    <3>2. result'[c].status # "none"
      BY <1>1, <1>7, <1>9, <3>1 DEF Lists
    <3> QED BY <1>1, <2>3, <3>2, ShownIsListed
  <2> QED BY <1>2, <2>1, <2>2, <2>3
<1>11. closers' = closers \cup ({RunCursors(r)} \ {{}})
  BY <1>2 DEF CloseRunCursors
<1>12. /\ closers' \subseteq SUBSET Result /\ closers \subseteq closers'
       /\ \A c \in Result : (c[1] \in {r} /\ result[c].cursor) => \E x \in closers' : c \in x
  <2>1. RunCursors(r) \subseteq Result
    BY DEF RunCursors
  <2>2. closers' \subseteq SUBSET Result /\ closers \subseteq closers'
    BY <1>1, <1>11, <2>1 DEF Types
  <2>3. ASSUME NEW c \in Result, c[1] \in {r}, result[c].cursor
        PROVE  \E x \in closers' : c \in x
    <3>1. c \in RunCursors(r)
      BY <2>3 DEF RunCursors
    <3>2. RunCursors(r) \in closers'
      BY <1>11, <3>1
    <3> QED BY <3>1, <3>2
  <2> QED BY <2>2, <2>3
<1>13. /\ result' = [c \in Result |-> IF c[1] \in {r} THEN Plain("none") ELSE result[c]]
       /\ forgotten \subseteq forgotten' /\ forgotten' \subseteq Result
       /\ statement' = statement
       /\ UNCHANGED <<begun, fetches, strays, server, lost, faults>>
  BY <1>1, <1>2 DEF Types
<1> QED BY <1>4, <1>6, <1>7, <1>8, <1>10, <1>12, <1>13, GoneInv

LEMMA CloseTabInv == PagingInv /\ CloseTab => PagingInv'
<1> SUFFICES ASSUME PagingInv, CloseTab PROVE PagingInv'
  OBVIOUS
<1>1. Types /\ Lists /\ Views /\ Outcomes
  BY DEF PagingInv
<1>2. /\ runs' = <<>>
      /\ result' = [c \in Result |-> Plain("none")]
      /\ statement' = [c \in Result |-> Answer("none")]
      /\ forgotten' = forgotten \cup {c \in Result : Listed(c[1]) \/ statement[c].kind # "none"}
      /\ Shows(result', NoView)
      /\ UNCHANGED <<begun, fetches, strays, closers, server, lost, faults>>
  BY DEF CloseTab
<1> DEFINE gone == {c[1] : c \in Result} \cup {x \in 1 .. begun : TRUE}
<1>3. /\ runs' \in Seq(1 .. begun) /\ Len(runs') = 0 /\ DOMAIN runs' = {}
      /\ RunHistoryCap \in Nat
  BY <1>2, ResultPagingAssumption
<1>4. \A x : Listed(x)' <=> (Listed(x) /\ x \notin gone)
  <2>1. \A x : ~Listed(x)'
    BY <1>3 DEF Listed
  <2>2. \A x : Listed(x) => x \in 1 .. begun
    BY <1>1, ListedBegan DEF Listed
  <2> QED BY <2>1, <2>2
<1>5. result' = [c \in Result |-> IF c[1] \in gone THEN Plain("none") ELSE result[c]]
  BY <1>2
<1> HIDE DEF gone
<1>6. Views' /\ selected' \in Result \cup {NoView} /\ fetchingRef' \subseteq Result
  BY <1>1, <1>2, ShownIsListed
<1>7. ~Plain("none").cursor
  BY PlainFacts DEF Statuses
<1>8. \A c \in Result : result[c].cursor => c \in forgotten'
  BY <1>1, <1>2, <1>7 DEF Lists, Outcomes
<1>9. \A c \in Result : statement[c].kind # "none" => c \in forgotten'
  BY <1>2
<1>10. /\ closers' \subseteq SUBSET Result /\ closers \subseteq closers'
       /\ forgotten \subseteq forgotten' /\ forgotten' \subseteq Result
  BY <1>1, <1>2 DEF Types
<1>11. /\ Len(runs') <= RunHistoryCap
       /\ \A k, l \in DOMAIN runs' : k < l => runs'[k] < runs'[l]
  BY <1>3
<1> QED BY <1>2, <1>3, <1>4, <1>5, <1>6, <1>8, <1>9, <1>10, <1>11, GoneInv

\* The server closes a cursor, and whoever was to close it may be done.
LEMMA ClosedInv ==
  ASSUME PagingInv,
         cursor' \in [Result -> {"none", "open", "closed"}],
         \A c \in Result : cursor'[c] = "open" => cursor[c] = "open",
         closers' \subseteq SUBSET Result,
         \A k \in closers : \A c \in k :
           (cursor'[c] = "open" /\ c \notin forgotten') => \E x \in closers' : c \in x,
         forgotten \subseteq forgotten', forgotten' \subseteq Result,
         faults' \in 0 .. MaxFaults,
         UNCHANGED <<begun, runs, result, selected, fetchingRef, statement,
                     fetches, strays, table, pos, dropped, lost>>
  PROVE  PagingInv'
<1>1. /\ Types /\ Lists /\ Views /\ Batch /\ Outcomes /\ FetchingHasFlight
      /\ Requests /\ FirstPages /\ RowsAccounted /\ ReadToTheEnd /\ CursorsHeld
  BY DEF PagingInv
<1>2. \A x : Listed(x)' <=> Listed(x)
  BY DEF Listed
<1>3. Types' /\ Lists' /\ Views' /\ Outcomes'
  BY <1>1, <1>2 DEF Types, Lists, Views, View, Outcomes
<1>4. Batch'
  <2>1. \A d \in Result : /\ (Ahead(d)' <=> Ahead(d)) /\ (Quiet(d)' <=> Quiet(d))
                          /\ (Unread(d)' <=> Unread(d))
    BY DEF Ahead, Quiet, Unread
  <2> QED BY <1>1, <1>2, <2>1 DEF Batch
<1>5. /\ FetchingHasFlight' /\ Requests' /\ FirstPages'
      /\ RowsAccounted' /\ ReadToTheEnd'
  <2>1. \A d \in Result : result'[d] = result[d] /\ (Listed(d[1])' => Listed(d[1]))
    BY <1>2
  <2>2. \A d \in Result : statement'[d].kind = "page" => statement'[d] = statement[d]
    OBVIOUS
  <2> QED BY <1>1, <2>1, <2>2, NothingRead
<1>6. CursorsHeld'
  BY <1>1 DEF CursorsHeld
<1> QED BY <1>3, <1>4, <1>5, <1>6 DEF PagingInv

LEMMA CloseNextInv ==
  ASSUME PagingInv, NEW k, CloseNext(k)
  PROVE  PagingInv'
<1>1. Types
  BY DEF PagingInv
<1>2. PICK c \in k :
        /\ k \in closers /\ closers' = (closers \ {k}) \cup ({k \ {c}} \ {{}})
        /\ \/ /\ cursor' = [cursor EXCEPT ![c] = "closed"]
              /\ UNCHANGED <<forgotten, faults>>
           \/ /\ faults < MaxFaults /\ faults' = faults + 1
              /\ forgotten' = forgotten \cup {c}
              /\ UNCHANGED cursor
        /\ UNCHANGED <<begun, runs, result, selected, fetchingRef, statement,
                       fetches, strays, table, pos, dropped, lost>>
  BY DEF CloseNext
<1>3. c \in Result /\ closers' \subseteq SUBSET Result
  BY <1>1, <1>2 DEF Types
<1>4. /\ cursor' \in [Result -> {"none", "open", "closed"}]
      /\ \A d \in Result : cursor'[d] = "open" => cursor[d] = "open"
      /\ cursor'[c] # "open" \/ c \in forgotten'
  BY <1>1, <1>2, <1>3 DEF Types
<1>5. /\ forgotten \subseteq forgotten' /\ forgotten' \subseteq Result
      /\ faults' \in 0 .. MaxFaults
  <2>1. faults \in 0 .. MaxFaults /\ MaxFaults \in Nat
    BY <1>1, ResultPagingAssumption DEF Types
  <2> QED BY <1>1, <1>2, <1>3, <2>1 DEF Types
<1>6. ASSUME NEW x \in closers, NEW d \in x, cursor'[d] = "open", d \notin forgotten'
      PROVE  \E y \in closers' : d \in y
  <2>1. CASE x # k
    BY <1>2, <2>1
  <2>2. CASE x = k
    <3>1. d # c
      BY <1>4, <1>6
    <3>2. d \in k \ {c} /\ k \ {c} \in closers'
      BY <1>2, <2>2, <3>1
    <3> QED BY <3>2
  <2> QED BY <2>1, <2>2
<1> QED BY <1>2, <1>3, <1>4, <1>5, <1>6, ClosedInv

LEMMA ExpireInv ==
  ASSUME PagingInv, NEW c \in Result, Expire(c)
  PROVE  PagingInv'
<1>1. Types
  BY DEF PagingInv
<1>2. /\ cursor' = [cursor EXCEPT ![c] = "closed"]
      /\ UNCHANGED <<begun, runs, result, selected, fetchingRef, statement,
                     fetches, strays, closers, table, pos, dropped, lost, forgotten,
                     faults>>
  BY DEF Expire
<1>3. /\ cursor' \in [Result -> {"none", "open", "closed"}]
      /\ \A d \in Result : cursor'[d] = "open" => cursor[d] = "open"
  BY <1>1, <1>2 DEF Types
<1>4. /\ closers' \subseteq SUBSET Result /\ forgotten' \subseteq Result
      /\ faults' \in 0 .. MaxFaults /\ forgotten \subseteq forgotten'
  BY <1>1, <1>2 DEF Types
<1>5. \A k \in closers : \A d \in k : \E x \in closers' : d \in x
  BY <1>2
<1> QED BY <1>2, <1>3, <1>4, <1>5, ClosedInv

-----------------------------------------------------------------------------
(* The theorems.                                                           *)

LEMMA StutterInv == PagingInv /\ UNCHANGED vars => PagingInv'
<1> SUFFICES ASSUME PagingInv, UNCHANGED vars PROVE PagingInv'
  OBVIOUS
<1>1. Types
  BY DEF PagingInv
<1>2. UNCHANGED <<begun, runs, result, selected, fetchingRef, statement, fetches,
                  strays, closers, cursor, table, pos, dropped, lost, forgotten, faults>>
  BY DEF vars
<1>3. /\ cursor' \in [Result -> {"none", "open", "closed"}]
      /\ closers' \subseteq SUBSET Result /\ forgotten' \subseteq Result
      /\ faults' \in 0 .. MaxFaults /\ forgotten \subseteq forgotten'
      /\ \A c \in Result : cursor'[c] = "open" => cursor[c] = "open"
      /\ \A k \in closers : \A d \in k : \E x \in closers' : d \in x
  BY <1>1, <1>2 DEF Types
<1> QED BY <1>2, <1>3, ClosedInv

LEMMA StepInv == PagingInv /\ [Next]_vars => PagingInv'
<1> SUFFICES ASSUME PagingInv, [Next]_vars PROVE PagingInv'
  OBVIOUS
<1>1. CASE BeginRun
  BY <1>1, BeginRunInv
<1>2. ASSUME NEW c \in Result, Execute(c) \/ Refuse(c) \/ StatementAnswered(c)
      PROVE  PagingInv'
  BY <1>2, ExecuteInv, RefuseInv, StatementAnsweredInv
<1>3. ASSUME NEW c \in Result, StatementFailed(c) \/ StatementLost(c) \/ Cancel(c)
      PROVE  PagingInv'
  BY <1>3, BatchEndsInv
<1>4. ASSUME NEW c \in Result, FetchNextPage(c) \/ ServeStray(c) \/ Expire(c)
      PROVE  PagingInv'
  BY <1>4, FetchNextPageInv, ServeStrayInv, ExpireInv
<1>5. ASSUME NEW f \in fetches, ServeFetch(f) \/ PageAnswered(f) \/ PageLost(f)
      PROVE  PagingInv'
  BY <1>5, ServeFetchInv, PageAnsweredInv, PageLostInv
<1>6. ASSUME NEW sel \in Result \cup {NoView}, Select(sel) PROVE PagingInv'
  BY <1>6, SelectInv
<1>7. ASSUME NEW k \in 1 .. RunHistoryCap, CloseRun(k) PROVE PagingInv'
  BY <1>7, CloseRunInv
<1>8. CASE CloseTab
  BY <1>8, CloseTabInv
<1>9. CASE CloseCursors
  BY <1>9, CloseNextInv DEF CloseCursors
<1>10. CASE UNCHANGED vars
  BY <1>10, StutterInv
<1> QED BY <1>1, <1>2, <1>3, <1>4, <1>5, <1>6, <1>7, <1>8, <1>9, <1>10 DEF Next

LEMMA PagingInvariant == Spec => []PagingInv
  BY InitInv, StepInv, PTL DEF Spec

\* The variables keep their types; the history keeps its cap, a listed result
\* is selected, and the view waits for pages of its run only.
THEOREM TypeCorrect == Spec => []TypeOK
<1>1. PagingInv => TypeOK
  <2> SUFFICES ASSUME PagingInv PROVE TypeOK
    OBVIOUS
  <2>1. Types /\ Lists /\ Views
    BY DEF PagingInv
  <2>2. begun \in 0 .. Len(Batches) /\ faults \in 0 .. MaxFaults
    BY <2>1 DEF Types
  <2>3. ToSet(runs) \subseteq 1 .. begun /\ Len(runs) <= RunHistoryCap
    BY <2>1, ToSetFacts, ListedBegan DEF Lists
  <2>4. ASSUME NEW c \in Result
        PROVE  /\ result[c].status \in {"none", "pending", "running", "ok", "error",
                                        "cancelled", "skipped"}
               /\ result[c].status # "none" <=> Listed(c[1])
               /\ AnswerType(statement[c])
               /\ cursor[c] \in {"none", "open", "closed"}
               /\ pos[c] \in 0 .. Len(table[c])
    <3>1. result[c].status \in Statuses
      BY <2>1 DEF Types, Outcome
    <3>2. result[c].status # "none" <=> Listed(c[1])
      BY <2>1 DEF Lists
    <3>3. AnswerType(statement[c])
      BY <2>1 DEF Types, Reply, AnswerType
    <3>4. cursor[c] \in {"none", "open", "closed"} /\ pos[c] \in 0 .. Len(table[c])
      BY <2>1 DEF Types
    <3> QED BY <3>1, <3>2, <3>3, <3>4 DEF Statuses
  <2>5. selected # NoView => selected \in Result /\ result[selected].status # "none"
    BY <2>1 DEF Types, Views
  <2>6. \A c \in fetchingRef : c[1] = View(result, selected)[1]
    BY <2>1 DEF Views
  <2>7. \A f \in fetches : f.at \in Result /\ AnswerType(f.answer)
    BY <2>1 DEF Types, Request, Reply, AnswerType
  <2> QED BY <2>2, <2>3, <2>4, <2>5, <2>6, <2>7 DEF TypeOK
<1> QED BY PagingInvariant, <1>1, PTL

\* A result is marked as loading exactly while one page of it, and only one,
\* is on its way.
THEOREM OnePageOnItsWay == Spec => []FetchingHasFlight
<1>1. PagingInv => FetchingHasFlight
  BY DEF PagingInv
<1> QED BY PagingInvariant, <1>1, PTL

\* The rows shown and about to arrive are those that were read, once and in
\* order, but for rows that did not fit or whose answer was lost.
THEOREM EveryRowAccounted == Spec => []RowsAccounted
<1>1. PagingInv => RowsAccounted
  BY DEF PagingInv
<1> QED BY PagingInvariant, <1>1, PTL

\* A result that has no cursor and says nothing is the whole table, but for
\* rows that did not fit or whose answer was lost.
THEOREM CompleteResults == Spec => []CompleteUnlessTold
<1>1. PagingInv => CompleteUnlessTold
  <2> SUFFICES ASSUME PagingInv, NEW c \in Result, result[c].status = "ok",
                      ~result[c].cursor, result[c].message = "none"
               PROVE  ToSet(result[c].rows) \cup dropped[c] \cup lost[c] = Rows(table[c])
    BY DEF CompleteUnlessTold
  <2>1. /\ Types /\ Lists /\ Outcomes /\ FetchingHasFlight /\ RowsAccounted
        /\ ReadToTheEnd
    BY DEF PagingInv
  <2>2. Coming(c) = <<>>
    <3>1. Listed(c[1]) /\ ~result[c].fetching
      BY <2>1 DEF Lists, Outcomes
    <3>2. \A f \in fetches : f.at # c
      BY <2>1, <3>1 DEF FetchingHasFlight
    <3> QED BY <3>2 DEF Coming
  <2>3. result[c].rows \o Coming(c) = result[c].rows
    BY <2>1, <2>2, ToSetFacts DEF Types, Outcome
  <2>4. Account(c, result[c].rows) /\ pos[c] = Len(table[c])
    BY <2>1, <2>3 DEF RowsAccounted, ReadToTheEnd
  <2> QED BY <2>4 DEF Account, Rows
<1> QED BY PagingInvariant, <1>1, PTL

\* Every open cursor has somebody who will close it, but for those the model
\* names as forgotten.
THEOREM CursorsHaveOwners == Spec => []CursorsHeld
<1>1. PagingInv => CursorsHeld
  BY DEF PagingInv
<1> QED BY PagingInvariant, <1>1, PTL
=============================================================================
