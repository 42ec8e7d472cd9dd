---------------------------- MODULE ResultPaging ----------------------------
(***************************************************************************)
(* The results of the runs of one editor tab, page by page: a statement    *)
(* opens a cursor on the server and brings its first page, the grid asks   *)
(* for the next page when it is scrolled near its end, and runs that are   *)
(* evicted or closed close their cursors. Requests and answers may be lost *)
(* on the way, and the server closes cursors on its own: by idle timeout,  *)
(* or with the session.                                                    *)
(*                                                                         *)
(* A result is named by its run and its index in it; it has one cursor at  *)
(* most. The rows of a table are its first, its second ... row; a page is  *)
(* the sequence of its rows. Which statements run, and what else can       *)
(* become of them, is in QueryRuns; locks and sessions of the server's     *)
(* cursors are in Sessions.                                                *)
(***************************************************************************)
EXTENDS Integers, Sequences, SequencesExt

CONSTANTS Batches,        \* bound: the runs begun, each the number of its statements
          RunHistoryCap,  \* RUN_HISTORY_CAP
          Tables,         \* tables to read, each the bytes up to each of its rows
          PageSize,       \* MaxRows of a fetch
          MaxBytes,       \* MaxBytes of a fetch
          MaxFaults       \* bound: requests and answers lost

ASSUME ResultPagingAssumption ==
  /\ Batches \in Seq(Nat \ {0})
  /\ RunHistoryCap \in Nat \ {0} /\ MaxFaults \in Nat
  /\ PageSize \in Nat \ {0} /\ MaxBytes \in Nat \ {0}
  /\ \A t \in Tables : /\ t \in Seq(Nat)
                        /\ \A i, j \in DOMAIN t : i <= j => t[i] <= t[j]

VARIABLES begun,      \* runs begun so far
          runs,       \* resultRuns of the tab: listed runs, oldest first
          result,     \* result[c]: what the store has of a listed run's result
          selected,   \* the result that is selected and not hidden
          fetchingRef,\* fetches the mounted ResultSetView waits for
          statement,  \* statement[c]: the request that executes c
          fetches,    \* requests for the next page
          strays,     \* such requests given up on, and not served yet
          closers,    \* closeRunCursors: for each run that went, cursors left to close
          cursor,     \* cursor[c]: the server's cursor
          table,      \* table[c]: what it reads
          pos,        \* pos[c]: rows read so far
          dropped,    \* ghost: rows read and not returned
          lost,       \* ghost: rows returned in an answer that was lost
          forgotten,  \* ghost: cursors nobody remembers
          faults

server == <<cursor, table, pos, dropped>>
vars == <<begun, runs, result, selected, fetchingRef, statement, fetches,
          strays, closers, cursor, table, pos, dropped, lost, forgotten, faults>>

Run == DOMAIN Batches
Result == UNION {{r} \X (1 .. Batches[r]) : r \in Run}
NoView == <<0, 0>>

Listed(r) == \E k \in DOMAIN runs : runs[k] = r
Rows(t) == 1 .. Len(t)

\* A result of the store; only an "ok" one has rows and may have a cursor.
Plain(s) == [status |-> s, rows |-> <<>>, cursor |-> FALSE, exhausted |-> TRUE,
             fetching |-> FALSE, message |-> "none"]
Page(rows, exhausted) == [kind |-> "page", rows |-> rows, exhausted |-> exhausted]
Answer(kind) == [kind |-> kind, rows |-> <<>>, exhausted |-> FALSE]
Asked == Answer("asked")

Init ==
  /\ begun = 0 /\ runs = <<>>
  /\ result = [c \in Result |-> Plain("none")]
  /\ selected = NoView /\ fetchingRef = {}
  /\ statement = [c \in Result |-> Answer("none")]
  /\ fetches = {} /\ strays = {} /\ closers = {}
  /\ cursor = [c \in Result |-> "none"]
  /\ table = [c \in Result |-> <<>>]
  /\ pos = [c \in Result |-> 0]
  /\ dropped = [c \in Result |-> {}]
  /\ lost = [c \in Result |-> {}]
  /\ forgotten = {} /\ faults = 0

(***************************************************************************)
(* The server: a fetch reads rows until the page is full, the next row     *)
(* does not fit in its bytes, or there are none left.                      *)
(***************************************************************************)

BytesUpTo(t, n) == IF n = 0 THEN 0 ELSE t[n]

\* A page of n rows after row p is in the limits.
Fits(t, p, n) ==
  p + n <= Len(t) /\ BytesUpTo(t, p + n) - BytesUpTo(t, p) <= MaxBytes

\* Rows of the page that starts after row p.
PageRows(t, p) ==
  CHOOSE n \in 0 .. PageSize :
    Fits(t, p, n) /\ \A m \in 0 .. PageSize : Fits(t, p, m) => m <= n

\* SQLRowsCursor.Fetch: the page, whether the rows are exhausted, and how far
\* it has read. A row that does not fit has been read all the same.
Fetch(t, p) ==
  LET n == PageRows(t, p)
      rows == [k \in 1 .. n |-> p + k]
      ended == n < PageSize /\ p + n = Len(t)
  IN  [rows |-> rows, exhausted |-> ended,
       pos |-> IF n = PageSize \/ ended THEN p + n ELSE p + n + 1]

\* The cursor of c after it has fetched from row p of t on; an exhausted
\* cursor is closed and removed.
Advance(c, t, p) ==
  LET f == Fetch(t, p)
  IN  /\ pos' = [pos EXCEPT ![c] = f.pos]
      /\ dropped' = [dropped EXCEPT ![c] = @ \cup (p + Len(f.rows) + 1) .. f.pos]
      /\ cursor' = [cursor EXCEPT ![c] = IF f.exhausted THEN "closed" ELSE "open"]

(***************************************************************************)
(* Views: a ResultSetView is mounted while results of one run are shown    *)
(* whose status is ok, and its fetchingRef lives as long.                  *)
(***************************************************************************)

View(res, sel) ==
  IF sel # NoView /\ res[sel].status = "ok" THEN sel ELSE NoView

\* The store has become res and the selection sel.
Shows(res, sel) ==
  LET before == View(result, selected)
      after == View(res, sel)
  IN  /\ selected' = sel
      /\ fetchingRef' = IF after # NoView /\ after[1] = before[1]
                        THEN fetchingRef ELSE {}

(***************************************************************************)
(* Runs                                                                    *)
(***************************************************************************)

Running == \E c \in Result : statement[c].kind # "none"

\* Results of a run that have a cursor.
RunCursors(r) == {c \in Result : c[1] = r /\ result[c].cursor}

\* As if a run that goes were only dropped.
CloseRunCursorsNever(gone) == closers' = closers
\* closeRunCursors starts with the results the run had when it went.
CloseRunCursors(gone) ==
  closers' = closers \cup ({RunCursors(r) : r \in gone} \ {{}})

\* As if the run that is about to begin did not count.
ExcessLate(list) ==
  IF Len(list) - 1 > RunHistoryCap THEN Len(list) - 1 - RunHistoryCap ELSE 0
\* runsToEvict: so many of the oldest runs exceed the cap.
Excess(list) == IF Len(list) > RunHistoryCap THEN Len(list) - RunHistoryCap ELSE 0

\* useBeginRun: the run is listed and shown, the oldest are evicted and their
\* cursors closed; its first statement is sent.
BeginRun ==
  /\ ~Running /\ begun < Len(Batches)
  /\ LET r == begun + 1
         list == Append(runs, r)
         evicted == {list[k] : k \in 1 .. Excess(list)}
     IN  /\ begun' = r
         /\ runs' = SubSeq(list, Excess(list) + 1, Len(list))
         /\ result' = [c \in Result |->
              IF c[1] \in evicted THEN Plain("none")
              ELSE IF c[1] = r
                   THEN Plain(IF c[2] = 1 THEN "running" ELSE "pending")
                   ELSE result[c]]
         /\ statement' = [statement EXCEPT ![<<r, 1>>] = Asked]
         /\ CloseRunCursors(evicted)
         /\ \/ Shows(result', <<r, 1>>)
            \/ selected = NoView /\ Shows(result', NoView)
  /\ UNCHANGED <<fetches, strays, server, lost, forgotten, faults>>

\* executeQueryWithCursor: the cursor is opened and its first page fetched.
Execute(c) ==
  /\ statement[c].kind = "asked"
  /\ \E t \in Tables :
       LET f == Fetch(t, 0)
       IN  /\ table' = [table EXCEPT ![c] = t]
           /\ Advance(c, t, 0)
           /\ statement' = [statement EXCEPT ![c] = Page(f.rows, f.exhausted)]
  /\ UNCHANGED <<begun, runs, result, selected, fetchingRef, fetches,
                 strays, closers, lost, forgotten, faults>>

\* A statement the database refuses.
Refuse(c) ==
  /\ statement[c].kind = "asked"
  /\ statement' = [statement EXCEPT ![c] = Answer("failed")]
  /\ UNCHANGED <<begun, runs, result, selected, fetchingRef, fetches,
                 strays, closers, server, lost, forgotten, faults>>

\* setRunStatementResult has no effect on a run that is not listed.
SetResult(c, r) ==
  IF Listed(c[1]) THEN [result EXCEPT ![c] = r] ELSE result
\* markRunRemainingSkipped.
Skipped(c, res) ==
  [d \in Result |-> IF d[1] = c[1] /\ d[2] > c[2] /\ res[d].status = "pending"
                    THEN Plain("skipped") ELSE res[d]]

FirstPage(p) ==
  [status |-> "ok", rows |-> p.rows, cursor |-> ~p.exhausted,
   exhausted |-> p.exhausted, fetching |-> FALSE, message |-> "none"]

\* The statement's page arrives and the next statement is sent, whether or
\* not the run is still listed: then nobody remembers the cursor.
StatementAnswered(c) ==
  /\ statement[c].kind = "page"
  /\ LET next == <<c[1], c[2] + 1>>
         more == c[2] < Batches[c[1]]
         st == [statement EXCEPT ![c] = Answer("none")]
         res == SetResult(c, FirstPage(statement[c]))
     IN  /\ statement' = IF more THEN [st EXCEPT ![next] = Asked] ELSE st
         /\ result' = IF more /\ Listed(c[1])
                      THEN [res EXCEPT ![next] = Plain("running")] ELSE res
         /\ Shows(result', selected)
  /\ forgotten' = IF Listed(c[1]) THEN forgotten ELSE forgotten \cup {c}
  /\ UNCHANGED <<begun, runs, fetches, strays, closers, server, lost,
                 faults>>

\* The end of a batch at statement c without a result of it.
EndBatch(c, s) ==
  /\ statement' = [statement EXCEPT ![c] = Answer("none")]
  /\ result' = Skipped(c, SetResult(c, Plain(s)))
  /\ forgotten' = forgotten \cup {c}
  /\ UNCHANGED <<begun, runs, selected, fetchingRef, fetches,
                 strays, closers, server, lost>>

StatementFailed(c) ==
  /\ statement[c].kind = "failed" /\ EndBatch(c, "error")
  /\ UNCHANGED faults
StatementLost(c) ==
  /\ statement[c].kind # "none" /\ faults < MaxFaults
  /\ faults' = faults + 1 /\ EndBatch(c, "error")
\* The request is aborted, whether or not the server has answered it.
Cancel(c) ==
  /\ statement[c].kind # "none" /\ EndBatch(c, "cancelled")
  /\ UNCHANGED faults

(***************************************************************************)
(* The grid                                                                *)
(***************************************************************************)

\* As if only the instance kept scrolling from fetching twice.
CanFetchMoreAlways(c) == result[c].cursor /\ ~result[c].exhausted
\* The result's cursor has more, and no page of it is on its way.
CanFetchMore(c) ==
  result[c].cursor /\ ~result[c].exhausted /\ ~result[c].fetching

\* fetchNextPage: at most one at a time per mounted view. The request keeps
\* the rows the result had.
FetchNextPage(c) ==
  /\ View(result, selected) = c /\ CanFetchMore(c) /\ fetchingRef = {}
  /\ fetchingRef' = {c}
  /\ result' = SetResult(c, [result[c] EXCEPT !.fetching = TRUE, !.message = "none"])
  /\ fetches' = fetches \cup {[at |-> c, base |-> result[c].rows, answer |-> Asked]}
  /\ UNCHANGED <<begun, runs, selected, statement, strays, closers, server,
                 lost, forgotten, faults>>

\* fetchQueryCursor: a cursor that is gone says so; an error of the database
\* while it reads closes the cursor.
ServeFetch(f) ==
  /\ f \in fetches /\ f.answer.kind = "asked"
  /\ \E a \in {Answer("gone"), Answer("failed"),
               LET p == Fetch(table[f.at], pos[f.at]) IN Page(p.rows, p.exhausted)} :
       /\ fetches' = (fetches \ {f}) \cup {[f EXCEPT !.answer = a]}
       /\ (a.kind = "gone") <=> (cursor[f.at] # "open")
       /\ IF a.kind = "page"
          THEN Advance(f.at, table[f.at], pos[f.at])
          ELSE /\ cursor' = [cursor EXCEPT ![f.at] = "closed"]
               /\ UNCHANGED <<pos, dropped>>
  /\ UNCHANGED <<begun, runs, result, selected, fetchingRef, statement,
                 strays, closers, table, lost, forgotten, faults>>

\* mergeCursorPage: the page after the rows the result had when it was asked.
MergeCursorPage(base, p) ==
  [status |-> "ok", rows |-> base \o p.rows, cursor |-> ~p.exhausted,
   exhausted |-> p.exhausted, fetching |-> FALSE, message |-> "none"]

\* As if a cursor that is gone had come to its end.
ApplyCursorPageErrorSilent(base, expired) ==
  [status |-> "ok", rows |-> base, cursor |-> ~expired, exhausted |-> expired,
   fetching |-> FALSE, message |-> IF expired THEN "none" ELSE "failed"]
\* applyCursorPageError: a cursor that is gone is not asked again.
ApplyCursorPageError(base, expired) ==
  [status |-> "ok", rows |-> base, cursor |-> ~expired, exhausted |-> expired,
   fetching |-> FALSE, message |-> IF expired THEN "expired" ELSE "failed"]

\* The end of a fetch, in whatever view.
Settle(f, r) ==
  /\ fetches' = fetches \ {f}
  /\ result' = SetResult(f.at, r)
  /\ fetchingRef' = fetchingRef \ {f.at}
  /\ UNCHANGED <<begun, runs, selected, statement, closers, table, forgotten>>

PageAnswered(f) ==
  /\ f \in fetches
  /\ \/ f.answer.kind = "page" /\ Settle(f, MergeCursorPage(f.base, f.answer))
     \/ f.answer.kind = "gone" /\ Settle(f, ApplyCursorPageError(f.base, TRUE))
     \/ f.answer.kind = "failed" /\ Settle(f, ApplyCursorPageError(f.base, FALSE))
  /\ UNCHANGED <<strays, cursor, pos, dropped, lost, faults>>

\* The answer is lost, and the rows of its page; or the request, which the
\* server may still meet later.
PageLost(f) ==
  /\ f \in fetches /\ faults < MaxFaults
  /\ faults' = faults + 1
  /\ lost' = [lost EXCEPT ![f.at] = @ \cup ToSet(f.answer.rows)]
  /\ \/ strays' = strays
     \/ f.answer.kind = "asked" /\ strays' = strays \cup {f.at}
  /\ Settle(f, ApplyCursorPageError(f.base, FALSE))
  /\ UNCHANGED <<cursor, pos, dropped>>

\* A page nobody waits for.
ServeStray(c) ==
  /\ c \in strays /\ strays' = strays \ {c}
  /\ IF cursor[c] = "open"
     THEN /\ Advance(c, table[c], pos[c])
          /\ lost' = [lost EXCEPT ![c] = @ \cup ToSet(Fetch(table[c], pos[c]).rows)]
     ELSE UNCHANGED <<cursor, pos, dropped, lost>>
  /\ UNCHANGED <<begun, runs, result, selected, fetchingRef, statement,
                 fetches, closers, table, forgotten, faults>>

(***************************************************************************)
(* Selecting, hiding and closing                                           *)
(***************************************************************************)

\* A run is selected, or one of its results, or the results are hidden.
Select(sel) ==
  /\ sel # NoView => Listed(sel[1])
  /\ sel # selected
  /\ Shows(result, sel)
  /\ UNCHANGED <<begun, runs, result, statement, fetches, strays,
                 closers, server, lost, forgotten, faults>>

\* handleCloseRun: another run is shown, the cursors are closed.
CloseRun(k) ==
  /\ k \in DOMAIN runs
  /\ runs' = RemoveAt(runs, k)
  /\ result' = [c \in Result |-> IF c[1] = runs[k] THEN Plain("none") ELSE result[c]]
  /\ CloseRunCursors({runs[k]})
  /\ \/ selected[1] # runs[k] /\ Shows(result', selected)
     \/ /\ selected[1] = runs[k] /\ runs' = <<>>
        /\ Shows(result', NoView)
     \/ /\ selected[1] = runs[k]
        /\ \E c \in Result : c[1] \in ToSet(runs') /\ Shows(result', c)
  /\ UNCHANGED <<begun, statement, fetches, strays, server, lost,
                 forgotten, faults>>

\* closeTab aborts what runs, and nobody closes the tab's cursors.
CloseTab ==
  /\ runs # <<>>
  /\ runs' = <<>>
  /\ result' = [c \in Result |-> Plain("none")]
  /\ statement' = [c \in Result |-> Answer("none")]
  /\ forgotten' = forgotten \cup {c \in Result : Listed(c[1]) \/ statement[c].kind # "none"}
  /\ Shows(result', NoView)
  /\ UNCHANGED <<begun, fetches, strays, closers, server, lost, faults>>

(***************************************************************************)
(* The ends of cursors                                                     *)
(***************************************************************************)

\* closeRunCursors: one request after the other; an error is not looked at.
CloseNext(k) ==
  /\ k \in closers
  /\ \E c \in k :
       /\ \A d \in k : c[2] <= d[2]
       /\ closers' = (closers \ {k}) \cup ({k \ {c}} \ {{}})
       /\ \/ /\ cursor' = [cursor EXCEPT ![c] = "closed"]
             /\ UNCHANGED <<forgotten, faults>>
          \/ /\ faults < MaxFaults /\ faults' = faults + 1
             /\ forgotten' = forgotten \cup {c}
             /\ UNCHANGED cursor
  /\ UNCHANGED <<begun, runs, result, selected, fetchingRef, statement,
                 fetches, strays, table, pos, dropped, lost>>

\* The idle reaper, or the end of the session.
Expire(c) ==
  /\ cursor[c] = "open"
  /\ cursor' = [cursor EXCEPT ![c] = "closed"]
  /\ UNCHANGED <<begun, runs, result, selected, fetchingRef, statement,
                 fetches, strays, closers, table, pos, dropped, lost, forgotten,
                 faults>>

CloseCursors == \E k \in closers : CloseNext(k)

Next ==
  \/ BeginRun
  \/ \E c \in Result :
       \/ Execute(c) \/ Refuse(c) \/ StatementAnswered(c) \/ StatementFailed(c)
       \/ StatementLost(c) \/ Cancel(c)
       \/ FetchNextPage(c) \/ ServeStray(c) \/ Expire(c)
  \/ \E f \in fetches : ServeFetch(f) \/ PageAnswered(f) \/ PageLost(f)
  \/ \E sel \in Result \cup {NoView} : Select(sel)
  \/ \E k \in 1 .. RunHistoryCap : CloseRun(k)
  \/ CloseTab
  \/ CloseCursors

Spec == Init /\ [][Next]_vars

-----------------------------------------------------------------------------
(* Safety.                                                                 *)

Kinds == {"none", "asked", "page", "gone", "failed"}
AnswerType(a) == a.kind \in Kinds /\ a.rows \in Seq(Nat) /\ a.exhausted \in BOOLEAN

\* The variables keep their types; a listed result is selected, and the view
\* waits for fetches of its run only.
TypeOK ==
  /\ begun \in 0 .. Len(Batches) /\ faults \in 0 .. MaxFaults
  /\ ToSet(runs) \subseteq 1 .. begun /\ Len(runs) <= RunHistoryCap
  /\ \A c \in Result :
       /\ result[c].status \in {"none", "pending", "running", "ok", "error",
                                "cancelled", "skipped"}
       /\ result[c].status # "none" <=> Listed(c[1])
       /\ AnswerType(statement[c])
       /\ cursor[c] \in {"none", "open", "closed"}
       /\ pos[c] \in 0 .. Len(table[c])
  /\ selected # NoView =>
       selected \in Result /\ result[selected].status # "none"
  /\ \A c \in fetchingRef : c[1] = View(result, selected)[1]
  /\ \A f \in fetches : f.at \in Result /\ AnswerType(f.answer)

\* "Loading more" is shown exactly while a page is on its way, and one at a
\* time: views come and go, and neither start a second fetch of a result nor
\* leave the mark behind.
FetchingHasFlight ==
  /\ \A c \in Result : Listed(c[1]) =>
       (result[c].fetching <=> \E f \in fetches : f.at = c)
  /\ \A f, g \in fetches : f.at = g.at => f = g

\* The rows of c that are about to arrive.
Coming(c) ==
  LET pages == {f \in fetches : f.at = c /\ f.answer.kind = "page"}
  IN  IF pages = {} THEN <<>> ELSE (CHOOSE f \in pages : TRUE).answer.rows

Increasing(s) == \A i, j \in DOMAIN s : i < j => s[i] < s[j]

\* Every row that was read is among these rows, did not fit, or was lost.
Account(c, rows) == ToSet(rows) \cup dropped[c] \cup lost[c] = 1 .. pos[c]

\* The rows that are shown, or about to arrive: every row that was read, once
\* and in order, but for those that did not fit and those whose answer was
\* lost. No page overwrites another or is appended to the wrong rows.
RowsAccounted ==
  \A c \in Result : result[c].status = "ok" =>
    LET rows == result[c].rows \o Coming(c)
    IN  Increasing(rows) /\ Account(c, rows)

\* A result without a cursor and without a message is complete.
CompleteUnlessTold ==
  \A c \in Result :
    (result[c].status = "ok" /\ ~result[c].cursor /\ result[c].message = "none")
      => ToSet(result[c].rows) \cup dropped[c] \cup lost[c] = Rows(table[c])

\* Every open cursor is held by a listed result, on its way to one, or about
\* to be closed, except those of closed tabs, of statements that were
\* cancelled, lost or answered after their run was closed, and of lost
\* requests to close.
CursorsHeld ==
  \A c \in Result : cursor[c] = "open" =>
    \/ result[c].cursor
    \/ statement[c].kind = "page"
    \/ \E k \in closers : c \in k
    \/ c \in forgotten

-----------------------------------------------------------------------------
(* What the documentation says.                                            *)

\* "Query-cursor start and fetch responses are capped per page; clients can
\* continue fetching while the response has `exhausted=false`": unless an
\* answer was lost, the pages of a result are its rows from the first on.
PagesAreContiguous ==
  \A c \in Result :
    result[c].status = "ok" /\ lost[c] = {} =>
      \A i \in DOMAIN result[c].rows : result[c].rows[i] = i
=============================================================================
