----------------------------- MODULE QueryRuns -----------------------------
(***************************************************************************)
(* The query runs of one browser window of the SQL editor: the toolbar     *)
(* starts a run (one statement, or every statement of the document), a     *)
(* batch sends its statements one after the other, the server answers, and *)
(* the store keeps per tab the last runs with one result per statement.    *)
(*                                                                         *)
(* A statement the server calls unsafe pauses its run until the user       *)
(* answers a dialog. The two hooks that start batches ("plain" for Run,    *)
(* "batch" for Run All) belong to the toolbar, which is mounted once for   *)
(* all tabs: each remembers the last run it started, in whatever tab.      *)
(*                                                                         *)
(* A run is named by its number in the order of creation and stands for    *)
(* its statements; a statement is an index. Pages of a result are in       *)
(* ResultPaging, sessions of the server in Sessions.                       *)
(***************************************************************************)
EXTENDS Naturals, Sequences, SequencesExt

CONSTANTS Tab,            \* tabs that may be open (their ids come back)
          NoTab,
          MaxRuns,        \* bound: runs begun in a behaviour
          MaxStatements,  \* bound: statements of a document
          Document,       \* the documents Run All meets, by their size
          RunHistoryCap   \* RUN_HISTORY_CAP

ASSUME QueryRunsAssumption ==
  /\ NoTab \notin Tab
  /\ MaxRuns \in Nat
  /\ MaxStatements \in Nat \ {0}
  /\ Document \subseteq 1 .. MaxStatements
  /\ RunHistoryCap \in Nat \ {0}

VARIABLES tabs,        \* open tabs
          active,      \* the active tab of the focused group
          begun,       \* runs begun so far
          size,        \* size[r]: statements of run r
          runs,        \* resultRuns[t]: runs listed for a tab, oldest first
          status,      \* status[r][i]: result of statement i, while r is listed
          selected,    \* selectedRunId[t], 0 for none
          running,     \* runningTabs[t]
          controller,  \* abortControllers[t]: the run whose controller it is
          pending,     \* pendingConfirmations[t]
          ref,         \* runIdRef of each hook, 0 before its first run
          flight,      \* flight[r]: the batch executing run r
          executed,    \* ghost: statements of r the server has executed
          approved     \* ghost: statements the user agreed to in the dialog

view == <<tabs, active, runs, status, selected, running, controller, pending>>
vars == <<tabs, active, begun, size, runs, status, selected, running,
          controller, pending, ref, flight, executed, approved>>

Run == 1 .. MaxRuns
Index == 1 .. MaxStatements
Hook == {"plain", "batch"}
Status == {"none", "queued", "running", "ok", "paused",
           "error", "cancelled", "skipped"}
Terminal == {"ok", "error", "cancelled", "skipped"}
None == [run |-> 0, at |-> 0]
NoFlight == [tab |-> NoTab, at |-> 0, forced |-> FALSE]

InFlight(r) == flight[r] # NoFlight
Listed(t, r) == \E k \in DOMAIN runs[t] : runs[t][k] = r

\* The dialog is open when the active tab has a confirmation pending.
DialogOpen == active # NoTab /\ pending[active] # None

Init ==
  /\ tabs = {} /\ active = NoTab /\ begun = 0
  /\ size = [r \in Run |-> 0]
  /\ runs = [t \in Tab |-> <<>>]
  /\ status = [r \in Run |-> [i \in Index |-> "none"]]
  /\ selected = [t \in Tab |-> 0]
  /\ running = [t \in Tab |-> FALSE]
  /\ controller = [t \in Tab |-> 0]
  /\ pending = [t \in Tab |-> None]
  /\ ref = [h \in Hook |-> 0]
  /\ flight = [r \in Run |-> NoFlight]
  /\ executed = [r \in Run |-> <<>>]
  /\ approved = {}

(***************************************************************************)
(* Store operations on the results of one run.                             *)
(***************************************************************************)

\* setRunStatementResult: no effect on a run the tab does not list any more.
SetResult(t, r, i, s, st) ==
  IF Listed(t, r) THEN [st EXCEPT ![r][i] = s] ELSE st

\* skipFromIndex: what is not terminal from an index on becomes skipped.
SkipFrom(t, r, from, st) ==
  IF Listed(t, r)
  THEN [st EXCEPT ![r] = [i \in Index |->
          IF i >= from /\ i <= size[r] /\ st[r][i] \notin Terminal
          THEN "skipped" ELSE st[r][i]]]
  ELSE st

\* runsToEvict and evictRuns: the list without its oldest runs beyond the cap.
Evicted(list) ==
  IF Len(list) > RunHistoryCap
  THEN SubSeq(list, 1, Len(list) - RunHistoryCap) ELSE <<>>
Kept(list) ==
  IF Len(list) > RunHistoryCap
  THEN SubSeq(list, Len(list) - RunHistoryCap + 1, Len(list)) ELSE list

Forget(gone, st) ==
  [r \in Run |-> IF r \in gone THEN [i \in Index |-> "none"] ELSE st[r]]

(***************************************************************************)
(* Tabs, as far as runs see them (the layout is EditorLayout's).           *)
(***************************************************************************)

OpenTab(t) ==
  /\ t \notin tabs /\ ~DialogOpen
  /\ tabs' = tabs \cup {t} /\ active' = t
  /\ UNCHANGED <<begun, size, runs, status, selected, running, controller,
                 pending, ref, flight, executed, approved>>

Activate(t) ==
  /\ t \in tabs /\ t # active /\ ~DialogOpen
  /\ active' = t
  /\ UNCHANGED <<tabs, begun, size, runs, status, selected, running,
                 controller, pending, ref, flight, executed, approved>>

\* The tab the focused group shows once t is gone.
NextActive(t) ==
  IF t # active THEN {active} ELSE IF tabs = {t} THEN {NoTab} ELSE tabs \ {t}

\* closeTab: aborts the controller the tab has, which ends that batch before
\* any other event (its rejection is a microtask), and drops what the store
\* keeps for the tab. Another window's close arrives with the dialog open.
CloseTab(t) ==
  /\ t \in tabs
  /\ tabs' = tabs \ {t}
  /\ active' \in NextActive(t)
  /\ flight' = IF controller[t] = 0 THEN flight
               ELSE [flight EXCEPT ![controller[t]] = NoFlight]
  /\ status' = Forget({r \in Run : Listed(t, r)}, status)
  /\ runs' = [runs EXCEPT ![t] = <<>>]
  /\ selected' = [selected EXCEPT ![t] = 0]
  /\ running' = [running EXCEPT ![t] = FALSE]
  /\ controller' = [controller EXCEPT ![t] = 0]
  /\ pending' = [pending EXCEPT ![t] = None]
  /\ UNCHANGED <<begun, size, ref, executed, approved>>

(***************************************************************************)
(* Starting a run: beginRun appends it with every statement queued and     *)
(* selects it, the oldest runs are evicted, and the batch sends its first  *)
(* statement.                                                              *)
(***************************************************************************)

\* A tab is active and nothing runs in it.
CanRun == active # NoTab /\ ~running[active]

Start(h, n) ==
  LET t == active
      r == begun + 1
      list == Append(runs[t], r)
      gone == {Evicted(list)[k] : k \in DOMAIN Evicted(list)}
  IN /\ CanRun /\ begun < MaxRuns
     /\ begun' = r
     /\ size' = [size EXCEPT ![r] = n]
     /\ runs' = [runs EXCEPT ![t] = Kept(list)]
     /\ status' = [Forget(gone, status) EXCEPT ![r] =
                     [i \in Index |-> IF i > n THEN "none"
                                      ELSE IF i = 1 THEN "running"
                                      ELSE "queued"]]
     /\ selected' = [selected EXCEPT ![t] = r]
     /\ running' = [running EXCEPT ![t] = TRUE]
     /\ controller' = [controller EXCEPT ![t] = r]
     /\ ref' = [ref EXCEPT ![h] = r]
     /\ flight' = [flight EXCEPT ![r] = [tab |-> t, at |-> 1, forced |-> FALSE]]
     /\ UNCHANGED <<tabs, active, pending, executed, approved>>

\* Ctrl+Enter is heard on the window, with the dialog open as well.
RunStatement == Start("plain", 1)

RunAll(n) == ~DialogOpen /\ Start("batch", n)

(***************************************************************************)
(* The batch of run r: each answer of the server, in the tab it began in.  *)
(***************************************************************************)

\* As if the running flag were not reset.
FinishRunning(r) ==
  /\ flight' = [flight EXCEPT ![r] = NoFlight]
  /\ controller' = [controller EXCEPT ![flight[r].tab] = 0]
  /\ UNCHANGED running
\* The finally block: whatever batch ends, the tab's controller and its
\* running flag are reset.
Finish(r) ==
  /\ flight' = [flight EXCEPT ![r] = NoFlight]
  /\ controller' = [controller EXCEPT ![flight[r].tab] = 0]
  /\ running' = [running EXCEPT ![flight[r].tab] = FALSE]

\* As if the next statement were not marked.
ProceedUnmarked(r, s) ==
  LET f == flight[r]
      done == SetResult(f.tab, r, f.at, s, status)
  IN \/ f.at = size[r] /\ status' = done /\ Finish(r)
     \/ /\ f.at < size[r] /\ status' = done
        /\ flight' = [flight EXCEPT ![r] =
                       [tab |-> f.tab, at |-> f.at + 1, forced |-> FALSE]]
        /\ UNCHANGED <<controller, running>>
\* The loop: the result of a statement, then the next one or the end.
Proceed(r, s) ==
  LET f == flight[r]
      done == SetResult(f.tab, r, f.at, s, status)
  IN \/ /\ f.at = size[r]
        /\ status' = done
        /\ Finish(r)
     \/ /\ f.at < size[r]
        /\ status' = SetResult(f.tab, r, f.at + 1, "running", done)
        /\ flight' = [flight EXCEPT ![r] =
                       [tab |-> f.tab, at |-> f.at + 1, forced |-> FALSE]]
        /\ UNCHANGED <<controller, running>>

StatementOk(r) ==
  /\ InFlight(r)
  /\ Proceed(r, "ok")
  /\ executed' = [executed EXCEPT ![r] = Append(@, flight[r].at)]
  /\ UNCHANGED <<tabs, active, begun, size, runs, selected, pending, ref,
                 approved>>

\* unsafe_query_confirmation_required: never for a confirmed statement.
StatementUnsafe(r) ==
  LET t == flight[r].tab
      i == flight[r].at
  IN /\ InFlight(r) /\ ~flight[r].forced
     /\ status' = SetResult(t, r, i, "paused", status)
     /\ pending' = [pending EXCEPT ![t] = [run |-> r, at |-> i]]
     /\ Finish(r)
     /\ UNCHANGED <<tabs, active, begun, size, runs, selected, ref, executed,
                    approved>>

\* As if a failure did not end the run.
EndRunProceeds(r, s) ==
  /\ InFlight(r) /\ Proceed(r, s)
  /\ UNCHANGED <<tabs, active, begun, size, runs, selected, pending, ref,
                 executed, approved>>
\* An error or an abort ends the run: the statements after it are skipped.
EndRun(r, s) ==
  LET t == flight[r].tab
      i == flight[r].at
  IN /\ InFlight(r)
     /\ status' = SkipFrom(t, r, i + 1, SetResult(t, r, i, s, status))
     /\ Finish(r)
     /\ UNCHANGED <<tabs, active, begun, size, runs, selected, pending, ref,
                    executed, approved>>

StatementError(r) == EndRun(r, "error")

\* The Cancel button, shown while the active tab is running, aborts the
\* controller the tab has.
Cancel ==
  /\ active # NoTab /\ running[active] /\ ~DialogOpen
  /\ controller[active] # 0
  /\ EndRun(controller[active], "cancelled")

(***************************************************************************)
(* The dialog of the active tab.                                           *)
(***************************************************************************)

\* As if any run of the hook would do.
ResumesAny(h, p) == ref[h] # 0
\* confirmAt of one hook: it resumes the run it started last, if that is the
\* run the dialog is about.
Resumes(h, p) == ref[h] # 0 /\ ref[h] = p.run

\* As if a resumed batch began at its first statement.
ResumeFromStart(t, p, r) ==
  /\ flight' = [flight EXCEPT ![r] = [tab |-> t, at |-> 1, forced |-> TRUE]]
  /\ status' = SetResult(t, r, 1, "running", status)
  /\ controller' = [controller EXCEPT ![t] = r]
  /\ running' = [running EXCEPT ![t] = TRUE]
Resume(t, p, r) ==
  /\ flight' = [flight EXCEPT ![r] = [tab |-> t, at |-> p.at, forced |-> TRUE]]
  /\ status' = SetResult(t, r, p.at, "running", status)
  /\ controller' = [controller EXCEPT ![t] = r]
  /\ running' = [running EXCEPT ![t] = TRUE]

\* Run Anyway clears the confirmation and asks both hooks to resume.
RunAnyway ==
  LET t == active
      p == pending[t]
  IN /\ DialogOpen
     /\ approved' = approved \cup {<<p.run, p.at>>}
     /\ pending' = [pending EXCEPT ![t] = None]
     /\ \/ \E h \in Hook : Resumes(h, p) /\ Resume(t, p, ref[h])
        \/ /\ \A h \in Hook : ~Resumes(h, p)
           /\ UNCHANGED <<flight, status, controller, running>>
     /\ UNCHANGED <<tabs, active, begun, size, runs, selected, ref, executed>>

\* abandonPendingRunConfirmation
Abandon ==
  LET t == active
      p == pending[t]
  IN /\ DialogOpen
     /\ pending' = [pending EXCEPT ![t] = None]
     /\ status' = SkipFrom(t, p.run, p.at, status)
     /\ UNCHANGED <<tabs, active, begun, size, runs, selected, running,
                    controller, ref, flight, executed, approved>>

(***************************************************************************)
(* The run tabs of the results pane.                                       *)
(***************************************************************************)

SelectRun(r) ==
  /\ active # NoTab /\ ~DialogOpen
  /\ Listed(active, r) /\ selected[active] # r
  /\ selected' = [selected EXCEPT ![active] = r]
  /\ UNCHANGED <<tabs, active, begun, size, runs, status, running,
                 controller, pending, ref, flight, executed, approved>>

\* As if the index were used in the list with the closed run.
NeighbourInOldList(list, rest, k) == list[IF k > 1 THEN k - 1 ELSE 1]
\* The run before the closed one, or the next one if it was the first.
Neighbour(list, rest, k) == rest[IF k > 1 THEN k - 1 ELSE 1]

\* closeRunTab: of a run in flight as well, whose batch goes on unseen.
CloseRun(k) ==
  LET t == active
      r == runs[t][k]
      rest == RemoveAt(runs[t], k)
  IN /\ active # NoTab /\ ~DialogOpen
     /\ k \in DOMAIN runs[t]
     /\ runs' = [runs EXCEPT ![t] = rest]
     /\ status' = Forget({r}, status)
     /\ selected' = IF selected[t] = r /\ rest # <<>>
                    THEN [selected EXCEPT ![t] = Neighbour(runs[t], rest, k)]
                    ELSE selected
     /\ UNCHANGED <<tabs, active, begun, size, running, controller, pending,
                    ref, flight, executed, approved>>

\* The icon of a run's tab: runStatus.
RunStatus(r) ==
  LET some(st) == \E i \in 1 .. size[r] : status[r][i] = st IN
  CASE some("running") -> "running"
    [] ~some("running") /\ (some("queued") \/ some("paused")) -> "queued"
    [] ~some("running") /\ ~some("queued") /\ ~some("paused") ->
         IF some("error") THEN "error"
         ELSE IF some("cancelled") THEN "cancelled"
         ELSE IF \A i \in 1 .. size[r] : status[r][i] = "skipped"
         THEN "skipped" ELSE "ok"

\* The run the results pane shows: the selected one, or else the latest.
Displayed(t) ==
  IF Listed(t, selected[t]) THEN selected[t]
  ELSE IF runs[t] # <<>> THEN Last(runs[t]) ELSE 0

Answer(r) == StatementOk(r) \/ StatementUnsafe(r) \/ StatementError(r)

Next ==
  \/ \E t \in Tab : OpenTab(t) \/ Activate(t) \/ CloseTab(t)
  \/ RunStatement
  \/ \E n \in Document : RunAll(n)
  \/ \E r \in Run : Answer(r)
  \/ Cancel
  \/ RunAnyway
  \/ Abandon
  \/ \E r \in Run : SelectRun(r)
  \/ \E k \in 1 .. RunHistoryCap : CloseRun(k)

Spec == Init /\ [][Next]_vars

(***************************************************************************)
(* Properties.                                                             *)
(***************************************************************************)

Flight == [tab : Tab \cup {NoTab}, at : Index \cup {0}, forced : BOOLEAN]

\* Every variable of the store holds a value of its type.
TypeOK ==
  /\ tabs \subseteq Tab /\ active \in tabs \cup {NoTab}
  /\ begun \in 0 .. MaxRuns
  /\ size \in [Run -> 0 .. MaxStatements]
  /\ runs \in [Tab -> Seq(Run)]
  /\ status \in [Run -> [Index -> Status]]
  /\ selected \in [Tab -> Run \cup {0}]
  /\ running \in [Tab -> BOOLEAN]
  /\ controller \in [Tab -> Run \cup {0}]
  /\ pending \in [Tab -> [run : Run \cup {0}, at : Index \cup {0}]]
  /\ ref \in [Hook -> Run \cup {0}]
  /\ flight \in [Run -> Flight]
  /\ executed \in [Run -> Seq(Index)]
  /\ approved \subseteq Run \X Index

\* A statement is only ever sent with confirmUnsafe for a statement the user
\* agreed to in the dialog, whatever runs were started, in this tab or
\* another, between the pause and the answer.
ForcedWasApproved ==
  \A r \in Run : flight[r].forced => <<r, flight[r].at>> \in approved

\* A run executes its statements one by one in the order of the document,
\* each at most once, across pauses, resumptions and closed tabs.
ExecutedInOrder ==
  \A r \in Run : \A k \in DOMAIN executed[r] : executed[r][k] = k

\* A run stops at the first statement that fails, is cancelled or waits for
\* the user: whatever comes after a statement that is not ok has not begun.
NothingAfterFailure ==
  \A r \in Run : \A i, j \in Index :
    /\ i < j
    /\ status[r][j] \in {"running", "paused", "ok", "error", "cancelled"}
    => status[r][i] = "ok"

\* A statement shown as running is the one its batch is waiting for: no
\* spinner outlives its request, no request of a listed run is without its
\* spinner, and the icon of the run says the same.
SpinnerHasFlight ==
  \A t \in Tab, r \in Run :
    Listed(t, r) =>
      /\ \A i \in Index :
           status[r][i] = "running" <=> (InFlight(r) /\ flight[r].at = i)
      /\ RunStatus(r) = "running" <=> InFlight(r)

\* A tab that counts as running has a batch in flight, and the controller
\* Cancel aborts is that of a batch in flight of this tab.
RunningMeansInFlight ==
  \A t \in Tab :
    running[t] => /\ controller[t] # 0
                  /\ InFlight(controller[t])
                  /\ flight[controller[t]].tab = t

\* The run the pane shows is the selected one after any sequence of closed
\* and evicted runs: it never falls back to the latest run by itself.
SelectedIsShown ==
  \A t \in Tab : runs[t] # <<>> => Displayed(t) = selected[t]

\* What a statement came to is not overwritten: a result, an error and a
\* skipped statement stay until their run leaves the list.
ResultsAreFinal ==
  [][\A r \in Run, i \in Index :
       status[r][i] \in Terminal => status'[r][i] \in {status[r][i], "none"}]_vars

-----------------------------------------------------------------------------
(* What a comment says and the code does not keep (see the README).        *)

\* UnsafeQueryDialog: "Run Anyway resubmits with confirmUnsafe: true".
RunAnywayResubmits ==
  [][\A t \in Tab :
       LET p == pending[t] IN
       /\ p # None /\ pending'[t] = None
       /\ <<p.run, p.at>> \notin approved /\ <<p.run, p.at>> \in approved'
       => flight'[p.run] = [tab |-> t, at |-> p.at, forced |-> TRUE]]_vars
=============================================================================
