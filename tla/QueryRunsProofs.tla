-------------------------- MODULE QueryRunsProofs --------------------------
(***************************************************************************)
(* Theorems about QueryRuns, for every set of tabs, number of runs, size   *)
(* of documents and length of the history.                                 *)
(***************************************************************************)
EXTENDS QueryRuns, SequenceTheorems, TLAPS

-----------------------------------------------------------------------------
(* The list of a tab's runs.                                               *)

Dropped(list) == IF Len(list) > RunHistoryCap THEN Len(list) - RunHistoryCap ELSE 0

\* Eviction cuts the list in two: what is kept is not empty and is the end.
LEMMA KeptIsTheEnd ==
  ASSUME NEW list \in Seq(Run), list # <<>>
  PROVE  /\ Dropped(list) \in 0 .. Len(list) - 1
         /\ Kept(list) \in Seq(Run)
         /\ Len(Kept(list)) = Len(list) - Dropped(list)
         /\ \A k \in 1 .. Len(list) - Dropped(list) :
              Kept(list)[k] = list[k + Dropped(list)]
         /\ Evicted(list) \in Seq(Run)
         /\ Len(Evicted(list)) = Dropped(list)
         /\ \A k \in 1 .. Dropped(list) : Evicted(list)[k] = list[k]
<1> DEFINE n == Len(list)
           d == Dropped(list)
<1>1. n \in Nat \ {0} /\ \A k \in 1 .. n : list[k] \in Run
  OBVIOUS
<1>2. RunHistoryCap \in Nat \ {0}
  BY QueryRunsAssumption
<1>3. CASE n > RunHistoryCap
  <2>1. d = n - RunHistoryCap /\ d \in 1 .. n - 1
    BY <1>1, <1>2, <1>3 DEF Dropped
  <2>2. Kept(list) = SubSeq(list, d + 1, n) /\ Evicted(list) = SubSeq(list, 1, d)
    BY <1>3, <2>1 DEF Kept, Evicted
  <2>3. /\ SubSeq(list, d + 1, n) \in Seq(Run)
        /\ Len(SubSeq(list, d + 1, n)) = n - d
        /\ \A k \in 1 .. n - d : SubSeq(list, d + 1, n)[k] = list[k + d]
    <3>1. d + 1 \in Int /\ n \in Int /\ d + 1 <= n
      BY <1>1, <2>1
    <3>2. \A i \in d + 1 .. n : list[i] \in Run
      BY <1>1, <2>1
    <3> HIDE DEF d, n
    <3>3. /\ SubSeq(list, d + 1, n) \in Seq(Run)
          /\ Len(SubSeq(list, d + 1, n)) = IF d + 1 <= n THEN n - (d + 1) + 1 ELSE 0
          /\ \A i \in 1 .. n - (d + 1) + 1 :
               SubSeq(list, d + 1, n)[i] = list[d + 1 + i - 1]
      BY <3>1, <3>2, SubSeqProperties
    <3>4. d \in Nat
      BY <2>1 DEF d, n
    <3> QED BY <3>1, <3>3, <3>4
  <2>4. /\ SubSeq(list, 1, d) \in Seq(Run)
        /\ Len(SubSeq(list, 1, d)) = d
        /\ \A k \in 1 .. d : SubSeq(list, 1, d)[k] = list[k]
    <3>1. d \in Nat \ {0} /\ \A i \in 1 .. d : list[i] \in Run
      BY <1>1, <2>1
    <3> HIDE DEF d, n
    <3>2. /\ SubSeq(list, 1, d) \in Seq(Run)
          /\ Len(SubSeq(list, 1, d)) = IF 1 <= d THEN d - 1 + 1 ELSE 0
          /\ \A i \in 1 .. d - 1 + 1 : SubSeq(list, 1, d)[i] = list[1 + i - 1]
      BY <3>1, SubSeqProperties
    <3> QED BY <3>1, <3>2
  <2> QED BY <2>1, <2>2, <2>3, <2>4
<1>4. CASE ~(n > RunHistoryCap)
  <2>1. d = 0 /\ Kept(list) = list /\ Evicted(list) = <<>>
    BY <1>4 DEF Dropped, Kept, Evicted
  <2> QED BY <1>1, <2>1
<1> QED BY <1>3, <1>4

LEMMA RemoveAtProperties ==
  ASSUME NEW list \in Seq(Run), NEW k \in 1 .. Len(list)
  PROVE  /\ RemoveAt(list, k) \in Seq(Run)
         /\ Len(RemoveAt(list, k)) = Len(list) - 1
         /\ \A i \in 1 .. Len(list) - 1 :
              RemoveAt(list, k)[i] = list[IF i < k THEN i ELSE i + 1]
<1> DEFINE n == Len(list)
           a == SubSeq(list, 1, k - 1)
           b == SubSeq(list, k + 1, n)
<1>1. n \in Nat /\ k \in Nat \ {0} /\ k <= n /\ \A i \in 1 .. n : list[i] \in Run
  OBVIOUS
<1>2. /\ a \in Seq(Run) /\ Len(a) = k - 1
      /\ \A i \in 1 .. k - 1 : a[i] = list[i]
  <2>1. \A i \in 1 .. k - 1 : list[i] \in Run
    BY <1>1
  <2>2. /\ a \in Seq(Run) /\ Len(a) = IF 1 <= k - 1 THEN k - 1 - 1 + 1 ELSE 0
        /\ \A i \in 1 .. k - 1 - 1 + 1 : a[i] = list[1 + i - 1]
    BY <1>1, <2>1, SubSeqProperties
  <2> HIDE DEF a
  <2> QED BY <1>1, <2>2
<1>3. /\ b \in Seq(Run) /\ Len(b) = n - k
      /\ \A i \in 1 .. n - k : b[i] = list[k + i]
  <2>1. \A i \in k + 1 .. n : list[i] \in Run
    BY <1>1
  <2>2. /\ b \in Seq(Run) /\ Len(b) = IF k + 1 <= n THEN n - (k + 1) + 1 ELSE 0
        /\ \A i \in 1 .. n - (k + 1) + 1 : b[i] = list[k + 1 + i - 1]
    BY <1>1, <2>1, SubSeqProperties
  <2> HIDE DEF b
  <2> QED BY <1>1, <2>2
<1>4. RemoveAt(list, k) = a \o b
  BY DEF RemoveAt
<1> HIDE DEF a, b
<1>5. /\ a \o b \in Seq(Run)
      /\ Len(a \o b) = Len(a) + Len(b)
      /\ \A i \in 1 .. Len(a) + Len(b) :
           (a \o b)[i] = IF i <= Len(a) THEN a[i] ELSE b[i - Len(a)]
  BY <1>2, <1>3, ConcatProperties
<1>6. ASSUME NEW i \in 1 .. n - 1
      PROVE  (a \o b)[i] = list[IF i < k THEN i ELSE i + 1]
  <2>1. CASE i < k
    BY <1>1, <1>2, <1>3, <1>5, <2>1
  <2>2. CASE ~(i < k)
    <3>1. i \in 1 .. Len(a) + Len(b) /\ ~(i <= Len(a)) /\ i - Len(a) \in 1 .. n - k
          /\ k + (i - Len(a)) = i + 1
      BY <1>1, <1>2, <1>3, <2>2
    <3> QED BY <1>3, <1>5, <2>2, <3>1
  <2> QED BY <2>1, <2>2
<1>7. Len(a \o b) = n - 1
  BY <1>1, <1>2, <1>3, <1>5
<1> QED BY <1>4, <1>5, <1>6, <1>7

-----------------------------------------------------------------------------
(* Types: a batch in flight has a tab and one of its statements; a pending *)
(* confirmation is about one of a run that is not in flight, and no other  *)
(* tab's confirmation is about that run.                                   *)

FlightKnown ==
  \A r \in Run : InFlight(r) =>
    /\ r <= begun /\ flight[r].tab \in Tab
    /\ flight[r].at >= 1 /\ flight[r].at <= size[r]

PendingKnown ==
  \A t \in Tab :
    \/ pending[t] = None
    \/ /\ pending[t].run >= 1 /\ pending[t].run <= begun
       /\ pending[t].at >= 1 /\ pending[t].at <= size[pending[t].run]
       /\ ~InFlight(pending[t].run)
       /\ \A u \in Tab : pending[u].run = pending[t].run => u = t

\* A tab's controller is that of a batch in flight in it, while it is running.
ControllerKnown ==
  \A t \in Tab :
    /\ running[t] <=> controller[t] # 0
    /\ running[t] => InFlight(controller[t]) /\ flight[controller[t]].tab = t

TypeInv == TypeOK /\ FlightKnown /\ PendingKnown /\ ControllerKnown

LEMMA NoFlightType == NoFlight \in Flight /\ None \in [run : Run \cup {0}, at : Index \cup {0}]
BY DEF NoFlight, Flight, None

LEMMA SetResultType ==
  ASSUME NEW st \in [Run -> [Index -> Status]], NEW t, NEW r \in Run,
         NEW i \in Index, NEW s \in Status
  PROVE  SetResult(t, r, i, s, st) \in [Run -> [Index -> Status]]
BY DEF SetResult

LEMMA SkipFromType ==
  ASSUME NEW st \in [Run -> [Index -> Status]], NEW t, NEW r \in Run, NEW from
  PROVE  SkipFrom(t, r, from, st) \in [Run -> [Index -> Status]]
BY DEF SkipFrom, Status

LEMMA ForgetType ==
  ASSUME NEW st \in [Run -> [Index -> Status]], NEW gone
  PROVE  Forget(gone, st) \in [Run -> [Index -> Status]]
BY DEF Forget, Status

LEMMA TypeInit == Init => TypeInv
<1> SUFFICES ASSUME Init PROVE TypeInv
  OBVIOUS
<1>1. TypeOK
  BY NoFlightType, QueryRunsAssumption DEF Init, TypeOK, Status, None
<1> QED BY <1>1 DEF Init, TypeInv, FlightKnown, PendingKnown, ControllerKnown, InFlight

\* A step that asks nothing of the user.
LEMMA PendingFrame ==
  ASSUME TypeInv, begun' \in Nat, begun <= begun',
         \A q \in Run : q <= begun => size'[q] = size[q],
         \A u \in Tab : pending'[u] \in {pending[u], None},
         \A u \in Tab : pending'[u] # None => flight'[pending[u].run] = NoFlight
  PROVE  PendingKnown'
<1> SUFFICES ASSUME NEW t \in Tab, pending'[t] # None
             PROVE  /\ pending'[t].run >= 1 /\ pending'[t].run <= begun'
                    /\ pending'[t].at >= 1
                    /\ pending'[t].at <= size'[pending'[t].run]
                    /\ flight'[pending'[t].run] = NoFlight
                    /\ \A u \in Tab : pending'[u].run = pending'[t].run => u = t
  BY DEF PendingKnown, InFlight
<1>1. pending'[t] = pending[t] /\ pending[t] # None
  OBVIOUS
<1>2. /\ pending[t].run \in Run \cup {0} /\ begun \in Nat
      /\ pending[t].run >= 1 /\ pending[t].run <= begun
      /\ pending[t].at >= 1 /\ pending[t].at <= size[pending[t].run]
      /\ \A u \in Tab : pending[u].run = pending[t].run => u = t
  BY <1>1 DEF PendingKnown, TypeInv, TypeOK
<1>3. pending[t].run \in Run
  BY <1>2
<1>4. ASSUME NEW u \in Tab, pending'[u].run = pending[t].run PROVE u = t
  <2>1. pending'[u] # None
    BY <1>2, <1>4 DEF None
  <2> QED BY <1>2, <1>4, <2>1
<1>5. pending[t].run <= begun'
  BY <1>2, <1>3 DEF Run
<1> QED BY <1>1, <1>2, <1>3, <1>4, <1>5

LEMMA ClearedType ==
  ASSUME TypeOK, NEW t \in Tab, pending' = [pending EXCEPT ![t] = None]
  PROVE  /\ pending' \in [Tab -> [run : Run \cup {0}, at : Index \cup {0}]]
         /\ pending'[t] = None
         /\ \A u \in Tab : pending'[u] \in {pending[u], None}
         /\ \A u \in Tab : u # t => pending'[u] = pending[u]
BY NoFlightType DEF TypeOK

LEMMA PendingNotInFlight ==
  ASSUME TypeInv, NEW t \in Tab, pending[t] # None
  PROVE  flight[pending[t].run] = NoFlight /\ pending[t].run \in Run
BY DEF TypeInv, TypeOK, PendingKnown, InFlight

LEMMA BegunType == TypeInv => begun \in Nat /\ begun <= begun
BY QueryRunsAssumption DEF TypeInv, TypeOK

\* The end of a batch.
LEMMA FinishKeeps ==
  ASSUME TypeInv, NEW r \in Run, InFlight(r), Finish(r)
  PROVE  /\ flight' \in [Run -> Flight] /\ running' \in [Tab -> BOOLEAN]
         /\ controller' \in [Tab -> Run \cup {0}]
         /\ ControllerKnown'
         /\ \A q \in Run : InFlight(q)' => q # r /\ InFlight(q) /\ flight'[q] = flight[q]
         /\ ~InFlight(r)'
<1> USE DEF TypeInv
<1>1. flight[r].tab \in Tab
  BY DEF FlightKnown
<1>2. /\ flight' = [flight EXCEPT ![r] = NoFlight]
      /\ controller' = [controller EXCEPT ![flight[r].tab] = 0]
      /\ running' = [running EXCEPT ![flight[r].tab] = FALSE]
  BY DEF Finish
<1>3. /\ flight' \in [Run -> Flight] /\ running' \in [Tab -> BOOLEAN]
      /\ controller' \in [Tab -> Run \cup {0}]
  BY <1>2, NoFlightType DEF TypeOK
<1>4. /\ \A q \in Run : InFlight(q)' => q # r /\ InFlight(q) /\ flight'[q] = flight[q]
      /\ ~InFlight(r)'
  BY <1>2 DEF TypeOK, InFlight
<1>5. ControllerKnown'
  <2> SUFFICES ASSUME NEW t \in Tab
               PROVE  /\ running'[t] <=> controller'[t] # 0
                      /\ running'[t] => /\ InFlight(controller[t])'
                                        /\ flight'[controller'[t]].tab = t
    BY DEF ControllerKnown
  <2>1. CASE t = flight[r].tab
    BY <1>2, <2>1 DEF TypeOK
  <2>2. CASE t # flight[r].tab
    <3>1. running'[t] = running[t] /\ controller'[t] = controller[t]
      BY <1>2, <2>2 DEF TypeOK
    <3>2. running[t] => /\ controller[t] \in Run /\ controller[t] # r
                        /\ InFlight(controller[t]) /\ flight[controller[t]].tab = t
      BY <2>2 DEF ControllerKnown, TypeOK
    <3>3. running[t] => flight'[controller[t]] = flight[controller[t]]
      BY <1>2, <3>2 DEF TypeOK
    <3> QED BY <3>1, <3>2, <3>3 DEF InFlight, ControllerKnown
  <2> QED BY <2>1, <2>2
<1> QED BY <1>3, <1>4, <1>5

\* The batch goes on to its next statement.
Advances(r) ==
  /\ flight[r].at < size[r]
  /\ flight' = [flight EXCEPT ![r] =
                  [tab |-> flight[r].tab, at |-> flight[r].at + 1, forced |-> FALSE]]
  /\ UNCHANGED <<controller, running>>

LEMMA AdvanceKeeps ==
  ASSUME TypeInv, NEW r \in Run, InFlight(r), Advances(r)
  PROVE  /\ flight' \in [Run -> Flight] /\ ControllerKnown'
         /\ flight[r].at + 1 \in Index
         /\ flight'[r] = [tab |-> flight[r].tab, at |-> flight[r].at + 1, forced |-> FALSE]
         /\ InFlight(r)'
         /\ \A q \in Run : q # r => flight'[q] = flight[q]
<1> USE DEF TypeInv
<1>1. /\ flight[r] \in Flight /\ flight[r].at \in Nat
      /\ flight[r].tab \in Tab /\ flight[r].at >= 1
      /\ size[r] \in 0 .. MaxStatements
  BY DEF TypeOK, FlightKnown, Flight, Index
<1>2. flight[r].at + 1 \in Index
  BY <1>1, QueryRunsAssumption DEF Advances, Index
<1>3. /\ flight' = [flight EXCEPT ![r] =
           [tab |-> flight[r].tab, at |-> flight[r].at + 1, forced |-> FALSE]]
  BY DEF Advances
<1>4. [tab |-> flight[r].tab, at |-> flight[r].at + 1, forced |-> FALSE] \in Flight
  BY <1>1, <1>2 DEF Flight
<1>5. /\ flight' \in [Run -> Flight]
      /\ flight'[r] = [tab |-> flight[r].tab, at |-> flight[r].at + 1, forced |-> FALSE]
      /\ \A q \in Run : q # r => flight'[q] = flight[q]
  BY <1>3, <1>4 DEF TypeOK
<1>6. InFlight(r)'
  BY <1>1, <1>5 DEF InFlight, NoFlight
<1>7. \A q \in Run : InFlight(q) => InFlight(q)' /\ flight'[q].tab = flight[q].tab
  BY <1>5, <1>6 DEF InFlight
<1>8. ControllerKnown'
  <2>1. \A t \in Tab : running[t] => controller[t] \in Run
    BY DEF ControllerKnown, TypeOK
  <2> QED BY <1>7, <2>1 DEF ControllerKnown, Advances, InFlight
<1> QED BY <1>2, <1>5, <1>6, <1>8

LEMMA ProceedCases ==
  ASSUME TypeInv, NEW r \in Run, NEW s \in Status, InFlight(r), Proceed(r, s)
  PROVE  LET done == SetResult(flight[r].tab, r, flight[r].at, s, status) IN
         \/ Finish(r) /\ status' = done /\ flight[r].at = size[r]
         \/ /\ Advances(r)
            /\ status' = SetResult(flight[r].tab, r, flight[r].at + 1, "running", done)
BY DEF Proceed, Advances

LEMMA FlightFacts ==
  ASSUME TypeInv, NEW r \in Run, InFlight(r)
  PROVE  /\ flight[r].tab \in Tab /\ flight[r].at \in Index
         /\ flight[r].at \in 1 .. size[r]
         /\ r <= begun /\ size[r] \in 1 .. MaxStatements
<1>1. /\ flight[r].at \in Index \cup {0} /\ size[r] \in 0 .. MaxStatements
      /\ flight[r].tab \in Tab /\ flight[r].at >= 1 /\ flight[r].at <= size[r]
      /\ r <= begun
  BY DEF TypeInv, TypeOK, FlightKnown, Flight
<1> QED BY <1>1, QueryRunsAssumption DEF Index

LEMMA OkType ==
  ASSUME TypeInv, NEW r \in Run, StatementOk(r)
  PROVE  TypeInv'
<1> USE DEF TypeInv
<1>1. /\ InFlight(r) /\ Proceed(r, "ok")
      /\ executed' = [executed EXCEPT ![r] = Append(executed[r], flight[r].at)]
      /\ UNCHANGED <<tabs, active, begun, size, runs, selected, pending, ref, approved>>
  BY DEF StatementOk
<1>2. /\ flight[r].tab \in Tab /\ flight[r].at \in Index
  BY <1>1, FlightFacts
<1>3. executed' \in [Run -> Seq(Index)]
  <2>1. Append(executed[r], flight[r].at) \in Seq(Index)
    BY <1>2 DEF TypeOK
  <2> QED BY <1>1, <2>1 DEF TypeOK
<1> DEFINE done == SetResult(flight[r].tab, r, flight[r].at, "ok", status)
<1>4. done \in [Run -> [Index -> Status]]
  BY <1>2, SetResultType DEF TypeOK, Status
<1>5. CASE Finish(r) /\ status' = done
  <2>1. TypeOK'
    BY <1>1, <1>3, <1>4, <1>5, FinishKeeps DEF TypeOK
  <2>2. FlightKnown' /\ ControllerKnown'
    BY <1>1, <1>5, FinishKeeps DEF FlightKnown
  <2>3. PendingKnown'
    <3>1. \A q \in Run : flight[q] = NoFlight => flight'[q] = NoFlight
      BY <1>1, <1>5, FinishKeeps DEF InFlight
    <3> QED BY <1>1, <3>1, PendingNotInFlight, PendingFrame, BegunType
  <2> QED BY <2>1, <2>2, <2>3
<1>6. CASE /\ Advances(r)
           /\ status' = SetResult(flight[r].tab, r, flight[r].at + 1, "running", done)
  <2>1. status' \in [Run -> [Index -> Status]]
    BY <1>1, <1>4, <1>6, AdvanceKeeps, SetResultType DEF Status
  <2>2. TypeOK'
    BY <1>1, <1>3, <1>6, <2>1, AdvanceKeeps DEF TypeOK, Advances
  <2>3. FlightKnown'
    <3>1. flight'[r].at >= 1 /\ flight'[r].at <= size[r] /\ flight'[r].tab \in Tab
      <4>1. /\ flight'[r].at = flight[r].at + 1 /\ flight'[r].tab = flight[r].tab
            /\ flight[r].at < size[r]
        BY <1>1, <1>6, AdvanceKeeps DEF Advances
      <4>2. size[r] \in Nat /\ flight[r].at \in Nat
        BY <1>2 DEF TypeOK, Index
      <4> QED BY <1>2, <4>1, <4>2
    <3> QED BY <1>1, <1>6, <3>1, AdvanceKeeps DEF FlightKnown, InFlight
  <2>4. PendingKnown' /\ ControllerKnown'
    <3>1. \A q \in Run : flight[q] = NoFlight => flight'[q] = NoFlight
      BY <1>1, <1>6, AdvanceKeeps DEF InFlight
    <3>2. PendingKnown'
      BY <1>1, <3>1, PendingNotInFlight, PendingFrame, BegunType
    <3> QED BY <1>1, <1>6, <3>2, AdvanceKeeps
  <2> QED BY <2>2, <2>3, <2>4
<1> QED BY <1>1, <1>5, <1>6, ProceedCases DEF Status

LEMMA EndsType ==
  ASSUME TypeInv, NEW r \in Run, InFlight(r), Finish(r),
         status' \in [Run -> [Index -> Status]],
         \/ UNCHANGED pending
         \/ pending' = [pending EXCEPT ![flight[r].tab] = [run |-> r, at |-> flight[r].at]],
         UNCHANGED <<tabs, active, begun, size, runs, selected, ref, executed, approved>>
  PROVE  TypeInv'
<1> USE DEF TypeInv
<1>1. /\ flight[r].tab \in Tab /\ flight[r].at \in Index
      /\ flight[r].at >= 1 /\ flight[r].at <= size[r] /\ r <= begun /\ r >= 1
  BY FlightFacts DEF Index, Run
<1>2. pending' \in [Tab -> [run : Run \cup {0}, at : Index \cup {0}]]
  <2>1. [run |-> r, at |-> flight[r].at] \in [run : Run \cup {0}, at : Index \cup {0}]
    BY <1>1
  <2> QED BY <1>1, <2>1 DEF TypeOK
<1>3. TypeOK'
  BY <1>2, FinishKeeps DEF TypeOK
<1>4. FlightKnown' /\ ControllerKnown'
  BY FinishKeeps DEF FlightKnown
<1>5. \A q \in Run : flight[q] = NoFlight => flight'[q] = NoFlight
  BY FinishKeeps DEF InFlight
<1>6. PendingKnown'
  <2>1. CASE UNCHANGED pending
    BY <1>5, <2>1, PendingNotInFlight, PendingFrame, BegunType
  <2>2. CASE pending' = [pending EXCEPT ![flight[r].tab] = [run |-> r, at |-> flight[r].at]]
    <3> DEFINE t == flight[r].tab
    <3>1. \A u \in Tab : pending[u] # None =>
            pending[u].run # r /\ pending[u].run \in Run /\ flight'[pending[u].run] = NoFlight
      BY <1>5, PendingNotInFlight DEF InFlight
    <3>2. /\ pending'[t] = [run |-> r, at |-> flight[r].at]
          /\ \A u \in Tab : u # t => pending'[u] = pending[u]
      BY <1>1, <2>2 DEF TypeOK
    <3>3. flight'[r] = NoFlight
      BY FinishKeeps DEF InFlight
    <3>4. \A u \in Tab : pending[u].run # r
      BY <1>1, <3>1 DEF None
    <3> SUFFICES ASSUME NEW u \in Tab, pending'[u] # None
                 PROVE  /\ pending'[u].run >= 1 /\ pending'[u].run <= begun
                        /\ pending'[u].at >= 1
                        /\ pending'[u].at <= size[pending'[u].run]
                        /\ flight'[pending'[u].run] = NoFlight
                        /\ \A v \in Tab : pending'[v].run = pending'[u].run => v = u
      BY DEF PendingKnown, InFlight
    <3>5. CASE u = t
      <4>1. \A v \in Tab : pending'[v].run = r => v = t
        BY <3>2, <3>4
      <4> HIDE DEF t
      <4> QED BY <1>1, <3>2, <3>3, <3>5, <4>1
    <3>6. CASE u # t
      <4>1. pending'[u] = pending[u] /\ pending[u] # None
        BY <3>2, <3>6
      <4>2. \A v \in Tab : pending'[v].run = pending[u].run => v = u
        BY <3>1, <3>2, <4>1 DEF PendingKnown
      <4> QED BY <3>1, <4>1, <4>2 DEF PendingKnown
    <3> QED BY <3>5, <3>6
  <2> QED BY <2>1, <2>2
<1> QED BY <1>3, <1>4, <1>6

LEMMA UnsafeType ==
  ASSUME TypeInv, NEW r \in Run, StatementUnsafe(r)
  PROVE  TypeInv'
<1>1. status' \in [Run -> [Index -> Status]]
  BY FlightFacts, SetResultType DEF StatementUnsafe, TypeInv, TypeOK, Status
<1> QED BY <1>1, EndsType DEF StatementUnsafe

LEMMA EndRunType ==
  ASSUME TypeInv, NEW r \in Run, NEW s \in Status, EndRun(r, s)
  PROVE  TypeInv'
<1>1. SetResult(flight[r].tab, r, flight[r].at, s, status) \in [Run -> [Index -> Status]]
  BY FlightFacts, SetResultType DEF EndRun, TypeInv, TypeOK
<1>2. status' \in [Run -> [Index -> Status]]
  BY <1>1, SkipFromType DEF EndRun
<1> QED BY <1>2, EndsType DEF EndRun

LEMMA CancelIsEnd ==
  ASSUME TypeInv, Cancel
  PROVE  /\ active \in Tab /\ controller[active] \in Run
         /\ EndRun(controller[active], "cancelled")
BY DEF Cancel, TypeInv, TypeOK

LEMMA StartNames ==
  ASSUME TypeInv, NEW h, NEW n, Start(h, n)
  PROVE  active \in Tab /\ begun + 1 \in Run
BY QueryRunsAssumption DEF Start, CanRun, TypeInv, TypeOK, Run

LEMMA StartType ==
  ASSUME TypeInv, NEW h \in Hook, NEW n \in 1 .. MaxStatements, Start(h, n),
         NEW t \in Tab, t = active, NEW r \in Run, r = begun + 1
  PROVE  TypeInv'
<1> USE DEF TypeInv
<1> DEFINE list == Append(runs[t], r)
           gone == {Evicted(list)[k] : k \in DOMAIN Evicted(list)}
<1>1. t \in Tab /\ ~running[t] /\ r \in Run /\ begun \in Nat /\ r <= MaxRuns
  BY QueryRunsAssumption DEF Start, CanRun, TypeOK, Run
<1>2. /\ begun' = r
      /\ size' = [size EXCEPT ![r] = n]
      /\ runs' = [runs EXCEPT ![t] = Kept(list)]
      /\ status' = [Forget(gone, status) EXCEPT ![r] =
                      [i \in Index |-> IF i > n THEN "none"
                                       ELSE IF i = 1 THEN "running" ELSE "queued"]]
      /\ selected' = [selected EXCEPT ![t] = r]
      /\ running' = [running EXCEPT ![t] = TRUE]
      /\ controller' = [controller EXCEPT ![t] = r]
      /\ ref' = [ref EXCEPT ![h] = r]
      /\ flight' = [flight EXCEPT ![r] = [tab |-> t, at |-> 1, forced |-> FALSE]]
      /\ UNCHANGED <<tabs, active, pending, executed, approved>>
  BY DEF Start
<1>3. runs' \in [Tab -> Seq(Run)]
  <2>1. list \in Seq(Run) /\ list # <<>>
    <3>1. runs[t] \in Seq(Run)
      BY <1>1 DEF TypeOK
    <3> QED BY <1>1, <3>1, AppendProperties
  <2>2. Kept(list) \in Seq(Run)
    BY <2>1, KeptIsTheEnd
  <2> QED BY <1>1, <1>2, <2>2 DEF TypeOK
<1>4. status' \in [Run -> [Index -> Status]]
  <2> HIDE DEF gone
  <2>1. Forget(gone, status) \in [Run -> [Index -> Status]]
    BY ForgetType DEF TypeOK
  <2>2. [i \in Index |-> IF i > n THEN "none"
                         ELSE IF i = 1 THEN "running" ELSE "queued"]
          \in [Index -> Status]
    BY DEF Status
  <2> QED BY <1>1, <1>2, <2>1, <2>2
<1>5. /\ flight' \in [Run -> Flight]
      /\ flight'[r] = [tab |-> t, at |-> 1, forced |-> FALSE]
      /\ \A q \in Run : q # r => flight'[q] = flight[q]
  <2>1. [tab |-> t, at |-> 1, forced |-> FALSE] \in Flight
    BY <1>1, QueryRunsAssumption DEF Flight, Index
  <2> QED BY <1>1, <1>2, <2>1 DEF TypeOK
<1>6. /\ begun' \in 0 .. MaxRuns /\ size' \in [Run -> 0 .. MaxStatements]
      /\ selected' \in [Tab -> Run \cup {0}] /\ running' \in [Tab -> BOOLEAN]
      /\ controller' \in [Tab -> Run \cup {0}] /\ ref' \in [Hook -> Run \cup {0}]
  BY <1>1, <1>2, QueryRunsAssumption DEF TypeOK
<1>7. TypeOK'
  BY <1>2, <1>3, <1>4, <1>5, <1>6 DEF TypeOK
<1>11. \A q \in Run : /\ q <= begun => q # r /\ q <= begun' /\ size'[q] = size[q]
                      /\ size'[r] = n /\ n >= 1 /\ r <= begun'
  BY <1>1, <1>2 DEF TypeOK, Run
<1>8. FlightKnown'
  <2> SUFFICES ASSUME NEW q \in Run, InFlight(q)'
               PROVE  /\ q <= begun' /\ flight'[q].tab \in Tab
                      /\ flight'[q].at >= 1 /\ flight'[q].at <= size'[q]
    BY DEF FlightKnown
  <2>1. CASE q = r
    BY <1>1, <1>5, <1>11, <2>1
  <2>2. CASE q # r
    <3>1. InFlight(q) /\ flight'[q] = flight[q]
      BY <1>5, <2>2 DEF InFlight
    <3> QED BY <1>11, <3>1 DEF FlightKnown
  <2> QED BY <2>1, <2>2
<1>9. PendingKnown'
  <2>1. ASSUME NEW u \in Tab, pending[u] # None
        PROVE  flight'[pending[u].run] = NoFlight
    <3>1. pending[u].run <= begun
      BY <2>1 DEF PendingKnown
    <3> QED BY <1>5, <1>11, <2>1, <3>1, PendingNotInFlight
  <2>2. begun' \in Nat /\ begun <= begun'
    BY <1>1, <1>2
  <2> QED BY <1>2, <1>11, <2>1, <2>2, PendingFrame
<1>10. ControllerKnown'
  <2>1. r # 0 /\ InFlight(r)'
    BY <1>1, <1>5 DEF InFlight, NoFlight, Run
  <2>2. ASSUME NEW u \in Tab, u # t, running[u]
        PROVE  /\ controller[u] \in Run /\ controller[u] # r
               /\ flight'[controller[u]] = flight[controller[u]]
    <3>1. controller[u] \in Run /\ InFlight(controller[u])
      BY <2>2 DEF ControllerKnown, TypeOK
    <3>2. controller[u] <= begun
      BY <3>1 DEF FlightKnown
    <3> QED BY <1>5, <1>11, <3>1, <3>2
  <2>3. \A u \in Tab : u # t =>
          running'[u] = running[u] /\ controller'[u] = controller[u]
    BY <1>1, <1>2 DEF TypeOK
  <2>4. running'[t] /\ controller'[t] = r
    BY <1>1, <1>2 DEF TypeOK
  <2> QED BY <1>5, <2>1, <2>2, <2>3, <2>4 DEF ControllerKnown, InFlight
<1> QED BY <1>7, <1>8, <1>9, <1>10

LEMMA CloseTabType ==
  ASSUME TypeInv, NEW t \in Tab, CloseTab(t)
  PROVE  TypeInv'
<1> USE DEF TypeInv
<1> DEFINE c == controller[t]
<1>1. /\ t \in tabs /\ tabs' = tabs \ {t} /\ active' \in NextActive(t)
      /\ runs' = [runs EXCEPT ![t] = <<>>]
      /\ selected' = [selected EXCEPT ![t] = 0]
      /\ running' = [running EXCEPT ![t] = FALSE]
      /\ controller' = [controller EXCEPT ![t] = 0]
      /\ pending' = [pending EXCEPT ![t] = None]
      /\ UNCHANGED <<begun, size, ref, executed, approved>>
  BY DEF CloseTab
<1>2. status' \in [Run -> [Index -> Status]]
  BY ForgetType DEF CloseTab, TypeOK
<1>3. /\ flight' \in [Run -> Flight]
      /\ \A q \in Run : InFlight(q)' => InFlight(q) /\ flight'[q] = flight[q]
      /\ \A q \in Run : q # controller[t] => flight'[q] = flight[q]
  BY NoFlightType DEF CloseTab, TypeOK, InFlight
<1>4. active' \in tabs' \cup {NoTab} /\ tabs' \subseteq Tab
  BY <1>1 DEF NextActive, TypeOK
<1>5. <<>> \in Seq(Run)
  OBVIOUS
<1>6. TypeOK'
  <2>1. pending' \in [Tab -> [run : Run \cup {0}, at : Index \cup {0}]]
    BY <1>1, ClearedType
  <2> QED BY <1>1, <1>2, <1>3, <1>4, <1>5, <2>1 DEF TypeOK
<1>7. FlightKnown' /\ PendingKnown'
  <2>1. FlightKnown'
    BY <1>1, <1>3 DEF FlightKnown, TypeOK
  <2>2. \A q \in Run : flight[q] = NoFlight => flight'[q] = NoFlight
    BY <1>3 DEF InFlight
  <2>3. PendingKnown'
    BY <1>1, <2>2, ClearedType, PendingNotInFlight, PendingFrame, BegunType
  <2> QED BY <2>1, <2>3
<1>8. ControllerKnown'
  <2> SUFFICES ASSUME NEW u \in Tab
               PROVE  /\ running'[u] <=> controller'[u] # 0
                      /\ running'[u] => /\ flight'[controller'[u]] # NoFlight
                                        /\ flight'[controller'[u]].tab = u
    BY DEF ControllerKnown, InFlight
  <2>1. CASE u = t
    BY <1>1, <2>1 DEF TypeOK
  <2>2. CASE u # t
    <3>1. running'[u] = running[u] /\ controller'[u] = controller[u]
      BY <1>1, <2>2 DEF TypeOK
    <3>2. running[u] => /\ controller[u] \in Run /\ controller[u] # 0
                        /\ flight[controller[u]] # NoFlight
                        /\ flight[controller[u]].tab = u
      BY DEF ControllerKnown, TypeOK, InFlight
    <3>3. controller[t] # 0 => flight[controller[t]].tab = t
      BY DEF ControllerKnown, TypeOK
    <3>4. running[u] => controller[u] # controller[t]
      BY <2>2, <3>2, <3>3
    <3> QED BY <1>3, <3>1, <3>2, <3>4 DEF ControllerKnown
  <2> QED BY <2>1, <2>2
<1> QED BY <1>6, <1>7, <1>8

LEMMA PendingFacts ==
  ASSUME TypeInv, NEW t \in Tab, pending[t] # None
  PROVE  /\ pending[t].run \in 1 .. begun /\ pending[t].run \in Run
         /\ pending[t].at \in 1 .. size[pending[t].run] /\ pending[t].at \in Index
         /\ size[pending[t].run] \in 0 .. MaxStatements
<1>1. /\ pending[t].run \in Run \cup {0} /\ pending[t].at \in Index \cup {0}
      /\ pending[t].run >= 1 /\ pending[t].run <= begun
      /\ pending[t].at >= 1 /\ pending[t].at <= size[pending[t].run]
  BY DEF TypeInv, TypeOK, PendingKnown
<1>2. pending[t].run \in Run /\ pending[t].at \in Index
  BY <1>1
<1>3. size[pending[t].run] \in 0 .. MaxStatements /\ begun \in Nat
  BY <1>2 DEF TypeInv, TypeOK
<1> QED BY <1>1, <1>2, <1>3 DEF Run, Index

LEMMA ResumeType ==
  ASSUME TypeInv, NEW t \in Tab, pending[t] # None,
         Resume(t, pending[t], pending[t].run),
         approved' = approved \cup {<<pending[t].run, pending[t].at>>},
         pending' = [pending EXCEPT ![t] = None],
         UNCHANGED <<tabs, active, begun, size, runs, selected, ref, executed>>
  PROVE  TypeInv'
<1> USE DEF TypeInv
<1> DEFINE p == pending[t]
<1>1. /\ p.run \in Run /\ p.run >= 1 /\ p.run <= begun
      /\ p.at \in Index /\ p.at >= 1 /\ p.at <= size[p.run]
  <2>1. p.run \in 1 .. begun /\ begun \in Nat
    BY PendingFacts DEF TypeOK
  <2> QED BY <2>1, PendingFacts DEF TypeOK, PendingKnown
<1>2. PICK r \in Run : r = p.run
  BY <1>1
<1>3. PICK at \in Index : at = p.at
  BY <1>1
<1> HIDE DEF p
<1>4. /\ flight' = [flight EXCEPT ![r] = [tab |-> t, at |-> at, forced |-> TRUE]]
      /\ controller' = [controller EXCEPT ![t] = r]
      /\ running' = [running EXCEPT ![t] = TRUE]
      /\ status' = SetResult(t, r, at, "running", status)
      /\ approved' = approved \cup {<<r, at>>}
  BY <1>2, <1>3 DEF Resume, p
<1>5. /\ flight' \in [Run -> Flight]
      /\ flight'[r] = [tab |-> t, at |-> at, forced |-> TRUE]
      /\ \A q \in Run : q # r => flight'[q] = flight[q]
  <2>1. [tab |-> t, at |-> at, forced |-> TRUE] \in Flight
    BY DEF Flight
  <2> QED BY <1>4, <2>1 DEF TypeOK
<1>6. status' \in [Run -> [Index -> Status]]
  BY <1>4, SetResultType DEF TypeOK, Status
<1>7. TypeOK'
  <2>1. approved' \subseteq Run \X Index
    BY <1>4 DEF TypeOK
  <2>2. pending' \in [Tab -> [run : Run \cup {0}, at : Index \cup {0}]]
    BY ClearedType
  <2>3. /\ controller' \in [Tab -> Run \cup {0}] /\ running' \in [Tab -> BOOLEAN]
    BY <1>4 DEF TypeOK
  <2> QED BY <1>5, <1>6, <2>1, <2>2, <2>3 DEF TypeOK
<1>8. PendingKnown'
  <2>1. ASSUME NEW u \in Tab, pending'[u] # None
        PROVE  flight'[pending[u].run] = NoFlight
    <3>1. u # t /\ pending[u] # None
      BY <2>1, ClearedType
    <3>2. pending[u].run # r
      BY <1>2, <3>1 DEF PendingKnown, p
    <3> QED BY <1>5, <3>1, <3>2, PendingNotInFlight
  <2> QED BY <2>1, ClearedType, PendingFrame, BegunType
<1>9. FlightKnown'
  <2> SUFFICES ASSUME NEW q \in Run, InFlight(q)'
               PROVE  /\ q <= begun /\ flight'[q].tab \in Tab
                      /\ flight'[q].at >= 1 /\ flight'[q].at <= size[q]
    BY DEF FlightKnown
  <2>1. CASE q = r
    BY <1>1, <1>2, <1>3, <1>5, <2>1
  <2>2. CASE q # r
    BY <1>5, <2>2 DEF FlightKnown, InFlight
  <2> QED BY <2>1, <2>2
<1>10. ControllerKnown'
  <2>1. r # 0 /\ InFlight(r)' /\ flight'[r].tab = t
    BY <1>1, <1>2, <1>5 DEF InFlight, NoFlight
  <2>2. running'[t] /\ controller'[t] = r
    BY <1>4 DEF TypeOK
  <2>3. ASSUME NEW u \in Tab, u # t
        PROVE  /\ running'[u] = running[u] /\ controller'[u] = controller[u]
               /\ running[u] => /\ controller[u] # r /\ controller[u] \in Run
                                /\ flight'[controller[u]] = flight[controller[u]]
    <3>1. running'[u] = running[u] /\ controller'[u] = controller[u]
      BY <1>4, <2>3 DEF TypeOK
    <3>2. running[u] => controller[u] \in Run /\ InFlight(controller[u])
      BY DEF ControllerKnown, TypeOK
    <3>3. ~InFlight(r)
      BY <1>2 DEF PendingKnown, p
    <3> QED BY <1>5, <3>1, <3>2, <3>3
  <2> QED BY <2>1, <2>2, <2>3 DEF ControllerKnown, InFlight
<1> QED BY <1>7, <1>8, <1>9, <1>10

LEMMA CloseRunType ==
  ASSUME TypeInv, NEW t \in Tab, t = active, NEW k \in Nat, CloseRun(k)
  PROVE  TypeInv'
<1> USE DEF TypeInv
<1> DEFINE rest == RemoveAt(runs[t], k)
           n == Len(runs[t])
<1>1. runs[t] \in Seq(Run) /\ k \in 1 .. n /\ n \in Nat
  BY DEF CloseRun, TypeOK
<1>2. /\ rest \in Seq(Run) /\ Len(rest) = n - 1
  BY <1>1, RemoveAtProperties
<1>3. runs' \in [Tab -> Seq(Run)]
  BY <1>2 DEF CloseRun, TypeOK
<1>4. status' \in [Run -> [Index -> Status]]
  BY ForgetType DEF CloseRun, TypeOK
<1>5. selected' \in [Tab -> Run \cup {0}]
  <2>1. rest # <<>> => Neighbour(runs[t], rest, k) \in Run
    <3> SUFFICES ASSUME rest # <<>> PROVE Neighbour(runs[t], rest, k) \in Run
      OBVIOUS
    <3>1. n - 1 >= 1
      BY <1>1, <1>2
    <3>2. (IF k > 1 THEN k - 1 ELSE 1) \in 1 .. n - 1
      BY <1>1, <3>1
    <3> HIDE DEF rest
    <3>3. \A i \in 1 .. n - 1 : rest[i] \in Run
      BY <1>2
    <3> QED BY <3>2, <3>3 DEF Neighbour
  <2>2. \/ selected' = selected
        \/ rest # <<>> /\ selected' = [selected EXCEPT ![t] = Neighbour(runs[t], rest, k)]
    BY DEF CloseRun
  <2> QED BY <2>1, <2>2 DEF TypeOK
<1>6. UNCHANGED <<tabs, active, begun, size, running, controller, pending, ref,
                  flight, executed, approved>>
  BY DEF CloseRun
<1>7. TypeOK'
  BY <1>3, <1>4, <1>5, <1>6 DEF TypeOK
<1> QED BY <1>6, <1>7 DEF FlightKnown, PendingKnown, ControllerKnown, InFlight

\* The run Run Anyway resumes is the one the dialog is about.
LEMMA RunAnywayCases ==
  ASSUME TypeInv, RunAnyway
  PROVE  /\ active \in Tab /\ pending[active] # None
         /\ approved' = approved \cup {<<pending[active].run, pending[active].at>>}
         /\ pending' = [pending EXCEPT ![active] = None]
         /\ UNCHANGED <<tabs, active, begun, size, runs, selected, ref, executed>>
         /\ \/ Resume(active, pending[active], pending[active].run)
            \/ UNCHANGED <<flight, status, controller, running>>
BY DEF RunAnyway, Resumes, DialogOpen, TypeInv, TypeOK

LEMMA TypeStep == TypeInv /\ [Next]_vars => TypeInv'
<1> SUFFICES ASSUME TypeInv, [Next]_vars PROVE TypeInv'
  OBVIOUS
<1>1. ASSUME NEW t \in Tab, OpenTab(t) \/ Activate(t) PROVE TypeInv'
  <2>1. /\ tabs' \subseteq Tab /\ active' \in tabs' \cup {NoTab}
        /\ UNCHANGED <<begun, size, runs, status, selected, running,
                       controller, pending, ref, flight, executed, approved>>
    BY <1>1 DEF OpenTab, Activate, TypeInv, TypeOK
  <2> QED BY <2>1 DEF TypeInv, TypeOK, FlightKnown, PendingKnown, ControllerKnown, InFlight
<1>2. ASSUME NEW t \in Tab, CloseTab(t) PROVE TypeInv'
  BY <1>2, CloseTabType
<1>3. ASSUME NEW h \in Hook, NEW n \in 1 .. MaxStatements, Start(h, n) PROVE TypeInv'
  BY <1>3, StartNames, StartType
<1>4. CASE RunStatement
  BY <1>3, <1>4, QueryRunsAssumption DEF RunStatement, Hook
<1>5. ASSUME NEW n \in Document, RunAll(n) PROVE TypeInv'
  BY <1>3, <1>5, QueryRunsAssumption DEF RunAll, Hook
<1>6. ASSUME NEW r \in Run, Answer(r) PROVE TypeInv'
  BY <1>6, OkType, UnsafeType, EndRunType DEF Answer, StatementError, Status
<1>7. CASE Cancel
  BY <1>7, CancelIsEnd, EndRunType DEF Status
<1>8. CASE RunAnyway
  <2>1. CASE Resume(active, pending[active], pending[active].run)
    BY <1>8, <2>1, RunAnywayCases, ResumeType
  <2>2. CASE UNCHANGED <<flight, status, controller, running>>
    <3> DEFINE t == active
    <3>1. /\ t \in Tab /\ pending[t] # None /\ pending' = [pending EXCEPT ![t] = None]
          /\ approved' = approved \cup {<<pending[t].run, pending[t].at>>}
          /\ UNCHANGED <<tabs, active, begun, size, runs, selected, ref, executed>>
      BY <1>8, RunAnywayCases
    <3>2. approved' \subseteq Run \X Index
      <4>1. pending[t].run \in Run /\ pending[t].at \in Index
        BY <3>1, PendingFacts
      <4> QED BY <3>1, <4>1 DEF TypeInv, TypeOK
    <3>3. TypeOK'
      BY <2>2, <3>1, <3>2, ClearedType DEF TypeInv, TypeOK
    <3>4. FlightKnown' /\ ControllerKnown'
      BY <2>2, <3>1 DEF TypeInv, FlightKnown, ControllerKnown, InFlight
    <3>5. PendingKnown'
      <4>1. /\ \A u \in Tab : pending'[u] \in {pending[u], None}
            /\ \A u \in Tab : pending'[u] # None => flight'[pending[u].run] = NoFlight
        BY <2>2, <3>1, ClearedType, PendingNotInFlight DEF TypeInv
      <4> QED BY <3>1, <4>1, PendingFrame, BegunType
    <3> QED BY <3>3, <3>4, <3>5 DEF TypeInv
  <2> QED BY <1>8, <2>1, <2>2, RunAnywayCases
<1>9. CASE Abandon
  <2>1. active \in Tab /\ pending[active] # None
    BY <1>9 DEF Abandon, DialogOpen, TypeInv, TypeOK
  <2>2. status' \in [Run -> [Index -> Status]]
    BY <1>9, <2>1, PendingFacts, SkipFromType DEF Abandon, TypeInv, TypeOK
  <2>3. /\ pending' = [pending EXCEPT ![active] = None]
        /\ UNCHANGED <<tabs, active, begun, size, runs, selected, running,
                       controller, ref, flight, executed, approved>>
    BY <1>9 DEF Abandon
  <2>4. TypeOK'
    BY <2>1, <2>2, <2>3, ClearedType DEF TypeInv, TypeOK
  <2>5. FlightKnown' /\ ControllerKnown'
    BY <2>3 DEF TypeInv, FlightKnown, ControllerKnown, InFlight
  <2>6. PendingKnown'
    <3>1. /\ \A u \in Tab : pending'[u] \in {pending[u], None}
          /\ \A u \in Tab : pending'[u] # None => flight'[pending[u].run] = NoFlight
      BY <2>1, <2>3, ClearedType, PendingNotInFlight DEF TypeInv
    <3> QED BY <2>3, <3>1, PendingFrame, BegunType
  <2> QED BY <2>4, <2>5, <2>6 DEF TypeInv
<1>10. ASSUME NEW r \in Run, SelectRun(r) PROVE TypeInv'
  BY <1>10 DEF SelectRun, TypeInv, TypeOK, FlightKnown, PendingKnown, ControllerKnown, InFlight
<1>11. ASSUME NEW k \in 1 .. RunHistoryCap, CloseRun(k) PROVE TypeInv'
  <2>1. active \in Tab /\ k \in Nat
    BY <1>11, QueryRunsAssumption DEF CloseRun, TypeInv, TypeOK
  <2> QED BY <1>11, <2>1, CloseRunType
<1>12. CASE UNCHANGED vars
  BY <1>12 DEF vars, TypeInv, TypeOK, FlightKnown, PendingKnown, ControllerKnown, InFlight
<1> QED
  BY <1>1, <1>2, <1>4, <1>5, <1>6, <1>7, <1>8, <1>9, <1>10, <1>11, <1>12 DEF Next

\* Type correctness, for any number of tabs, runs and statements.
THEOREM TypeCorrect == Spec => []TypeOK
<1>1. TypeInv => TypeOK
  BY DEF TypeInv
<1> QED BY <1>1, TypeInit, TypeStep, PTL DEF Spec

\* A tab that counts as running has its batch in flight: Cancel has something
\* to abort, whatever was closed, resumed or started over it.
THEOREM RunningSafe == Spec => []RunningMeansInFlight
<1>1. TypeInv => RunningMeansInFlight
  BY DEF TypeInv, ControllerKnown, RunningMeansInFlight
<1> QED BY <1>1, TypeInit, TypeStep, PTL DEF Spec

-----------------------------------------------------------------------------
(* What a step can do to the batches and to what the server has executed.  *)

\* Batches end, confirmations go away, nothing is executed.
Quiet ==
  /\ UNCHANGED <<executed, approved, begun>>
  /\ \A r \in Run : flight'[r] \in {flight[r], NoFlight}
  /\ \A t \in Tab : pending'[t] \in {pending[t], None}

Begins(t, r) ==
  /\ r = begun + 1 /\ begun' = r
  /\ flight' = [flight EXCEPT ![r] = [tab |-> t, at |-> 1, forced |-> FALSE]]
  /\ UNCHANGED <<executed, approved, pending>>

Executes(r) ==
  /\ InFlight(r)
  /\ executed' = [executed EXCEPT ![r] = Append(executed[r], flight[r].at)]
  /\ flight'[r] \in {NoFlight, [tab |-> flight[r].tab, at |-> flight[r].at + 1,
                                forced |-> FALSE]}
  /\ \A q \in Run : q # r => flight'[q] = flight[q]
  /\ UNCHANGED <<approved, begun, pending>>

Pauses(r) ==
  /\ InFlight(r)
  /\ flight' = [flight EXCEPT ![r] = NoFlight]
  /\ pending' = [pending EXCEPT ![flight[r].tab] = [run |-> r, at |-> flight[r].at]]
  /\ UNCHANGED <<executed, approved, begun>>

Resubmits(t) ==
  /\ pending[t] # None
  /\ flight' = [flight EXCEPT ![pending[t].run] =
                  [tab |-> t, at |-> pending[t].at, forced |-> TRUE]]
  /\ approved' = approved \cup {<<pending[t].run, pending[t].at>>}
  /\ pending' = [pending EXCEPT ![t] = None]
  /\ UNCHANGED <<executed, begun>>

\* The dialog is answered and no batch begins.
Approves(t) ==
  /\ pending[t] # None
  /\ approved' = approved \cup {<<pending[t].run, pending[t].at>>}
  /\ pending' = [pending EXCEPT ![t] = None]
  /\ UNCHANGED <<executed, begun, flight>>

BatchStep ==
  \/ Quiet
  \/ \E t \in Tab, r \in Run : Begins(t, r)
  \/ \E r \in Run : Executes(r) \/ Pauses(r)
  \/ \E t \in Tab : Resubmits(t) \/ Approves(t)

LEMMA EndRunQuiet ==
  ASSUME TypeInv, NEW r \in Run, NEW s, EndRun(r, s)
  PROVE  Quiet
BY DEF EndRun, Finish, Quiet, TypeInv, TypeOK

LEMMA BatchSteps ==
  ASSUME TypeInv, [Next]_vars
  PROVE  BatchStep
<1>1. ASSUME NEW t \in Tab, OpenTab(t) \/ Activate(t) PROVE Quiet
  BY <1>1 DEF OpenTab, Activate, Quiet
<1>2. ASSUME NEW t \in Tab, CloseTab(t) PROVE Quiet
  BY <1>2 DEF CloseTab, Quiet, TypeInv, TypeOK
<1>3. ASSUME NEW h \in Hook, NEW n, Start(h, n)
      PROVE  \E t \in Tab, r \in Run : Begins(t, r)
  BY <1>3, StartNames DEF Start, Begins
<1>4. CASE RunStatement
  BY <1>3, <1>4 DEF RunStatement, Hook, BatchStep
<1>5. ASSUME NEW n \in Document, RunAll(n) PROVE BatchStep
  BY <1>3, <1>5 DEF RunAll, Hook, BatchStep
<1>6. ASSUME NEW r \in Run, Answer(r) PROVE BatchStep
  <2>1. CASE StatementOk(r)
    <3>1. /\ InFlight(r) /\ Proceed(r, "ok")
          /\ executed' = [executed EXCEPT ![r] = Append(executed[r], flight[r].at)]
          /\ UNCHANGED <<approved, begun, pending>>
      BY <2>1 DEF StatementOk
    <3>2. CASE Finish(r)
      <4>1. Executes(r)
        BY <3>1, <3>2 DEF Finish, Executes, TypeInv, TypeOK
      <4> QED BY <4>1 DEF BatchStep
    <3>3. CASE Advances(r)
      <4>1. Executes(r)
        BY <3>1, <3>3, AdvanceKeeps DEF Executes
      <4> QED BY <4>1 DEF BatchStep
    <3> QED BY <3>1, <3>2, <3>3, ProceedCases DEF Status
  <2>2. CASE StatementUnsafe(r)
    BY <2>2 DEF StatementUnsafe, Finish, Pauses, BatchStep
  <2>3. CASE StatementError(r)
    BY <2>3, EndRunQuiet DEF StatementError, BatchStep
  <2> QED BY <1>6, <2>1, <2>2, <2>3 DEF Answer
<1>7. CASE Cancel
  BY <1>7, CancelIsEnd, EndRunQuiet DEF BatchStep
<1>8. CASE RunAnyway
  BY <1>8, RunAnywayCases DEF Resume, Resubmits, Approves, BatchStep
<1>9. CASE Abandon
  <2>1. active \in Tab
    BY <1>9 DEF Abandon, DialogOpen, TypeInv, TypeOK
  <2>2. Quiet
    BY <1>9, <2>1, ClearedType DEF Abandon, Quiet, TypeInv
  <2> QED BY <2>2 DEF BatchStep
<1>10. ASSUME NEW r \in Run, SelectRun(r) PROVE Quiet
  BY <1>10 DEF SelectRun, Quiet
<1>11. ASSUME NEW k \in 1 .. RunHistoryCap, CloseRun(k) PROVE Quiet
  BY <1>11 DEF CloseRun, Quiet
<1>12. CASE UNCHANGED vars
  BY <1>12 DEF vars, Quiet, BatchStep
<1> QED
  BY <1>1, <1>2, <1>4, <1>5, <1>6, <1>7, <1>8, <1>9, <1>10, <1>11, <1>12
     DEF Next, BatchStep

-----------------------------------------------------------------------------
(* Consent.                                                                *)

LEMMA ForcedStep ==
  ASSUME TypeInv, ForcedWasApproved, BatchStep
  PROVE  ForcedWasApproved'
<1> SUFFICES ASSUME NEW r \in Run, flight'[r].forced
             PROVE  <<r, flight'[r].at>> \in approved'
  BY DEF ForcedWasApproved
<1> USE DEF ForcedWasApproved, TypeInv, TypeOK
<1>7. NoFlight.forced = FALSE
  BY DEF NoFlight
<1>8. flight'[r] = flight[r] => <<r, flight'[r].at>> \in approved
  OBVIOUS
<1>1. CASE Quiet
  <2>1. flight'[r] = flight[r] /\ approved' = approved
    BY <1>1, <1>7 DEF Quiet
  <2> QED BY <1>8, <2>1
<1>2. ASSUME NEW t \in Tab, NEW q \in Run, Begins(t, q)
      PROVE  <<r, flight'[r].at>> \in approved'
  BY <1>2 DEF Begins
<1>3. ASSUME NEW q \in Run, Executes(q)
      PROVE  <<r, flight'[r].at>> \in approved'
  <2>1. flight'[r] = flight[r] /\ approved' = approved
    BY <1>3, <1>7 DEF Executes
  <2> QED BY <1>8, <2>1
<1>4. ASSUME NEW q \in Run, Pauses(q)
      PROVE  <<r, flight'[r].at>> \in approved'
  BY <1>4 DEF Pauses, NoFlight
<1>5. ASSUME NEW t \in Tab, Resubmits(t)
      PROVE  <<r, flight'[r].at>> \in approved'
  BY <1>5, PendingFacts DEF Resubmits
<1>6. ASSUME NEW t \in Tab, Approves(t)
      PROVE  <<r, flight'[r].at>> \in approved'
  BY <1>6 DEF Approves
<1> QED BY <1>1, <1>2, <1>3, <1>4, <1>5, <1>6 DEF BatchStep

\* Nothing is sent with confirmUnsafe but what the user agreed to.
THEOREM ForcedSafe == Spec => []ForcedWasApproved
<1> DEFINE IInv == TypeInv /\ ForcedWasApproved
<1>1. Init => IInv
  BY TypeInit DEF Init, ForcedWasApproved, NoFlight
<1>2. IInv /\ [Next]_vars => IInv'
  BY TypeStep, BatchSteps, ForcedStep
<1>3. IInv => ForcedWasApproved
  OBVIOUS
<1> QED BY <1>1, <1>2, <1>3, PTL DEF Spec

-----------------------------------------------------------------------------
(* The order of execution.                                                 *)

\* A batch is at the statement after those that were executed, and so is the
\* statement a confirmation is about.
ExecutedUpTo ==
  /\ \A r \in Run : InFlight(r) => Len(executed[r]) = flight[r].at - 1
  /\ \A t \in Tab : pending[t] # None =>
       Len(executed[pending[t].run]) = pending[t].at - 1
  /\ \A r \in Run : r > begun => executed[r] = <<>>

OrderInv == TypeInv /\ ExecutedInOrder /\ ExecutedUpTo

LEMMA OrderStep ==
  ASSUME OrderInv, BatchStep
  PROVE  ExecutedInOrder' /\ ExecutedUpTo'
<1> USE DEF OrderInv
<1>1. CASE Quiet
  <2>1. ExecutedInOrder'
    BY <1>1 DEF Quiet, ExecutedInOrder
  <2>2. ExecutedUpTo'
    BY <1>1 DEF Quiet, ExecutedUpTo, InFlight
  <2> QED BY <2>1, <2>2
<1>2. ASSUME NEW t \in Tab, NEW r \in Run, Begins(t, r)
      PROVE  ExecutedInOrder' /\ ExecutedUpTo'
  <2>1. executed[r] = <<>> /\ Len(<<>>) = 0
    BY <1>2, BegunType DEF Begins, ExecutedUpTo
  <2>2. /\ flight'[r] = [tab |-> t, at |-> 1, forced |-> FALSE]
        /\ \A q \in Run : q # r => flight'[q] = flight[q]
    BY <1>2 DEF Begins, TypeInv, TypeOK
  <2>3. \A q \in Run : q > begun' => q > begun
    BY <1>2, BegunType DEF Begins, Run
  <2> QED BY <1>2, <2>1, <2>2, <2>3 DEF Begins, ExecutedInOrder, ExecutedUpTo, InFlight
<1>3. ASSUME NEW r \in Run, Executes(r)
      PROVE  ExecutedInOrder' /\ ExecutedUpTo'
  <2>1. /\ flight[r].at \in Index /\ executed[r] \in Seq(Index)
        /\ Len(executed[r]) = flight[r].at - 1 /\ flight[r].at \in Nat
        /\ r <= begun /\ begun \in Nat
    BY <1>3, FlightFacts, BegunType DEF Executes, ExecutedUpTo, TypeInv, TypeOK, Index
  <2>2. /\ executed'[r] = Append(executed[r], flight[r].at)
        /\ \A q \in Run : q # r => executed'[q] = executed[q]
    BY <1>3 DEF Executes, TypeInv, TypeOK
  <2>3. /\ Len(executed'[r]) = flight[r].at
        /\ \A k \in 1 .. flight[r].at - 1 : executed'[r][k] = executed[r][k]
        /\ executed'[r][flight[r].at] = flight[r].at
    BY <2>1, <2>2, AppendProperties
  <2>4. ExecutedInOrder'
    <3>1. ASSUME NEW k \in DOMAIN executed'[r] PROVE executed'[r][k] = k
      <4>1. executed'[r] \in Seq(Index)
        BY <2>1, <2>2, AppendProperties
      <4>2. k \in 1 .. flight[r].at
        BY <2>3, <4>1
      <4>3. CASE k = flight[r].at
        BY <2>3, <4>3
      <4>4. CASE k # flight[r].at
        <5>1. k \in 1 .. flight[r].at - 1 /\ k \in DOMAIN executed[r]
          BY <2>1, <4>2, <4>4
        <5> QED BY <2>3, <5>1 DEF ExecutedInOrder
      <4> QED BY <4>3, <4>4
    <3> QED BY <2>2, <3>1 DEF ExecutedInOrder
  <2>5. ExecutedUpTo'
    <3>1. InFlight(r)' => Len(executed'[r]) = flight'[r].at - 1
      BY <1>3, <2>1, <2>3 DEF Executes, InFlight
    <3>2. \A t \in Tab : pending[t] # None =>
            pending[t].run # r /\ pending[t].run \in Run
      BY <1>3, PendingNotInFlight DEF Executes, InFlight
    <3>3. \A q \in Run : q > begun' => q # r /\ q > begun
      BY <1>3, <2>1 DEF Executes, Run
    <3> QED BY <1>3, <2>2, <3>1, <3>2, <3>3 DEF Executes, ExecutedUpTo, InFlight
  <2> QED BY <2>4, <2>5
<1>4. ASSUME NEW r \in Run, Pauses(r)
      PROVE  ExecutedInOrder' /\ ExecutedUpTo'
  <2>1. flight[r].tab \in Tab /\ Len(executed[r]) = flight[r].at - 1
    BY <1>4, FlightFacts DEF Pauses, ExecutedUpTo
  <2>2. /\ pending'[flight[r].tab] = [run |-> r, at |-> flight[r].at]
        /\ \A t \in Tab : t # flight[r].tab => pending'[t] = pending[t]
        /\ \A q \in Run : flight'[q] \in {flight[q], NoFlight}
    BY <1>4, <2>1 DEF Pauses, TypeInv, TypeOK
  <2>3. UNCHANGED <<executed, begun>>
    BY <1>4 DEF Pauses
  <2>4. ExecutedInOrder'
    BY <2>3 DEF ExecutedInOrder
  <2>5. ExecutedUpTo'
    BY <2>1, <2>2, <2>3 DEF ExecutedUpTo, InFlight
  <2> QED BY <2>4, <2>5
<1>5. ASSUME NEW t \in Tab, Resubmits(t)
      PROVE  ExecutedInOrder' /\ ExecutedUpTo'
  <2>1. PICK r \in Run, at \in Index : r = pending[t].run /\ at = pending[t].at
    BY <1>5, PendingFacts DEF Resubmits
  <2>2. /\ flight'[r] = [tab |-> t, at |-> at, forced |-> TRUE]
        /\ \A q \in Run : q # r => flight'[q] = flight[q]
    BY <1>5, <2>1 DEF Resubmits, TypeInv, TypeOK
  <2>3. Len(executed[r]) = at - 1
    BY <1>5, <2>1 DEF Resubmits, ExecutedUpTo
  <2>4. /\ \A u \in Tab : pending'[u] \in {pending[u], None}
        /\ UNCHANGED <<executed, begun>>
    BY <1>5, ClearedType DEF Resubmits, TypeInv
  <2>5. ExecutedInOrder'
    BY <2>4 DEF ExecutedInOrder
  <2>6. ExecutedUpTo'
    BY <2>2, <2>3, <2>4 DEF ExecutedUpTo, InFlight
  <2> QED BY <2>5, <2>6
<1>6. ASSUME NEW t \in Tab, Approves(t)
      PROVE  ExecutedInOrder' /\ ExecutedUpTo'
  <2>1. /\ \A u \in Tab : pending'[u] \in {pending[u], None}
        /\ UNCHANGED <<executed, begun, flight>>
    BY <1>6, ClearedType DEF Approves, TypeInv
  <2> QED BY <2>1 DEF ExecutedInOrder, ExecutedUpTo, InFlight
<1> QED BY <1>1, <1>2, <1>3, <1>4, <1>5, <1>6 DEF BatchStep

\* Every run executes its statements in order and each once.
THEOREM OrderSafe == Spec => []ExecutedInOrder
<1>1. Init => OrderInv
  BY TypeInit DEF Init, OrderInv, ExecutedInOrder, ExecutedUpTo, InFlight
<1>2. OrderInv /\ [Next]_vars => OrderInv'
  BY TypeStep, BatchSteps, OrderStep DEF OrderInv
<1>3. OrderInv => ExecutedInOrder
  BY DEF OrderInv
<1> QED BY <1>1, <1>2, <1>3, PTL DEF Spec

-----------------------------------------------------------------------------
(* What is listed and what it shows.                                       *)

Shown(r) == \E t \in Tab : Listed(t, r)
Awaits(t, r) == pending[t] # None /\ pending[t].run = r

\* A run is listed once, in the tab its batch or its confirmation belongs to,
\* and a tab with runs has one of them selected.
ListInv ==
  /\ \A t \in Tab : \A k, l \in DOMAIN runs[t] : k < l => runs[t][k] # runs[t][l]
  /\ \A t \in Tab : \A k \in DOMAIN runs[t] : runs[t][k] <= begun
  /\ \A t, u \in Tab, r \in Run : Listed(t, r) /\ Listed(u, r) => t = u
  /\ \A t \in Tab, r \in Run : Listed(t, r) /\ InFlight(r) => flight[r].tab = t
  /\ \A t, u \in Tab, r \in Run : Listed(t, r) /\ Awaits(u, r) => t = u
  /\ \A t \in Tab : runs[t] # <<>> => Listed(t, selected[t])

\* Everything before a statement is done, and nothing after it has begun.
UpTo(r, at, s) ==
  \A i \in Index :
    status[r][i] = IF i < at THEN "ok" ELSE IF i = at THEN s
                   ELSE IF i <= size[r] THEN "queued" ELSE "none"

StopsAtFailure(r) ==
  \A i, j \in Index :
    /\ i < j
    /\ status[r][j] \in {"running", "paused", "ok", "error", "cancelled"}
    => status[r][i] = "ok"

RunOk(r) ==
  /\ ~Shown(r) => \A i \in Index : status[r][i] = "none"
  /\ Shown(r) =>
       /\ \A i \in Index : status[r][i] = "none" <=> i > size[r]
       /\ InFlight(r) => UpTo(r, flight[r].at, "running")
       /\ ~InFlight(r) => \A i \in Index : status[r][i] # "running"
       /\ \A t \in Tab : Awaits(t, r) => UpTo(r, pending[t].at, "paused")
       /\ StopsAtFailure(r)

Keeps(r) ==
  \A i \in Index :
    status[r][i] \in Terminal => status'[r][i] \in {status[r][i], "none"}

StatusInv == TypeInv /\ ListInv /\ \A r \in Run : RunOk(r)
Preserved == ListInv' /\ \A r \in Run : RunOk(r)' /\ Keeps(r)

\* A run the step has nothing to do with.
LEMMA RunFrame ==
  ASSUME StatusInv, NEW r \in Run, Shown(r)' <=> Shown(r),
         status'[r] = status[r], size'[r] = size[r], flight'[r] = flight[r],
         \A t \in Tab : Awaits(t, r)' => pending'[t] = pending[t]
  PROVE  RunOk(r)' /\ Keeps(r)
<1>1. RunOk(r)
  BY DEF StatusInv
<1>2. InFlight(r)' <=> InFlight(r)
  BY DEF InFlight
<1>3. \A at, s : UpTo(r, at, s) => UpTo(r, at, s)'
  BY DEF UpTo
<1>4. StopsAtFailure(r) => StopsAtFailure(r)'
  BY DEF StopsAtFailure
<1>5. \A t \in Tab : Awaits(t, r)' => Awaits(t, r) /\ pending'[t] = pending[t]
  BY DEF Awaits
<1>6. Keeps(r)
  BY DEF Keeps
<1>7. RunOk(r)'
  <2>1. CASE ~Shown(r)
    BY <1>1, <2>1 DEF RunOk
  <2>2. CASE Shown(r)
    <3>1. InFlight(r) => UpTo(r, flight[r].at, "running")
      BY <1>1, <2>2 DEF RunOk
    <3>2. \A t \in Tab : Awaits(t, r) => UpTo(r, pending[t].at, "paused")
      BY <1>1, <2>2 DEF RunOk
    <3>3. InFlight(r)' => UpTo(r, flight[r].at, "running")'
      BY <1>2, <3>1 DEF UpTo
    <3>4. \A t \in Tab : Awaits(t, r)' => UpTo(r, pending[t].at, "paused")'
      BY <1>5, <3>2 DEF UpTo
    <3> QED BY <1>1, <1>2, <1>4, <2>2, <3>3, <3>4 DEF RunOk
  <2> QED BY <2>1, <2>2
<1> QED BY <1>6, <1>7

\* A run that is not listed any more.
LEMMA RunGone ==
  ASSUME NEW r \in Run, ~Shown(r)', \A i \in Index : status'[r][i] = "none"
  PROVE  RunOk(r)' /\ Keeps(r)
BY DEF RunOk, Keeps

\* What is shown of a run whose batch is at a statement.
LEMMA SetResultShown ==
  ASSUME StatusInv, NEW r \in Run, NEW t \in Tab, NEW i \in Index, NEW s,
         Shown(r) => Listed(t, r)
  PROVE  /\ \A q \in Run : q # r => SetResult(t, r, i, s, status)[q] = status[q]
         /\ ~Shown(r) => SetResult(t, r, i, s, status) = status
         /\ Shown(r) => SetResult(t, r, i, s, status)[r]
                          = [status[r] EXCEPT ![i] = s]
<1>1. status \in [Run -> [Index -> Status]]
  BY DEF StatusInv, TypeInv, TypeOK
<1>2. CASE Listed(t, r)
  <2>1. SetResult(t, r, i, s, status) = [status EXCEPT ![r][i] = s]
    BY <1>2 DEF SetResult
  <2> QED BY <1>1, <1>2, <2>1 DEF Shown
<1>3. CASE ~Listed(t, r)
  BY <1>3 DEF SetResult
<1> QED BY <1>2, <1>3

LEMMA FlightShown ==
  ASSUME StatusInv, NEW r \in Run, InFlight(r)
  PROVE  /\ Shown(r) => Listed(flight[r].tab, r)
         /\ ~Shown(r) => \A i \in Index : status[r][i] = "none"
         /\ Shown(r) => UpTo(r, flight[r].at, "running")
         /\ \A t \in Tab : ~Awaits(t, r)
<1>1. \A t \in Tab : ~Awaits(t, r)
  BY PendingNotInFlight DEF Awaits, InFlight, StatusInv
<1>2. RunOk(r)
  BY DEF StatusInv
<1>3. Shown(r) => Listed(flight[r].tab, r)
  BY DEF StatusInv, ListInv, Shown
<1> QED BY <1>1, <1>2, <1>3 DEF RunOk

\* Steps that leave the lists alone.
LEMMA ListFrame ==
  ASSUME StatusInv, runs' = runs, begun' = begun, selected' = selected,
         \A r \in Run : Shown(r) /\ InFlight(r)' =>
            \/ InFlight(r) /\ flight'[r].tab = flight[r].tab
            \/ flight'[r].tab \in Tab /\ Listed(flight'[r].tab, r),
         \A t \in Tab, r \in Run : Shown(r) /\ Awaits(t, r)' => Awaits(t, r) \/ Listed(t, r)
  PROVE  /\ ListInv' /\ \A r \in Run : Shown(r)' <=> Shown(r)
         /\ \A t \in Tab, r \in Run : Listed(t, r)' <=> Listed(t, r)
<1>1. \A t \in Tab : \A r : Listed(t, r)' <=> Listed(t, r)
  BY DEF Listed
<1>2. \A r \in Run : Shown(r)' <=> Shown(r)
  BY <1>1 DEF Shown
<1>3. \A t \in Tab, r \in Run : Listed(t, r) /\ InFlight(r)' => flight'[r].tab = t
  <2> SUFFICES ASSUME NEW t \in Tab, NEW r \in Run, Listed(t, r), InFlight(r)'
               PROVE  flight'[r].tab = t
    OBVIOUS
  <2>1. Shown(r)
    BY DEF Shown
  <2>2. CASE InFlight(r) /\ flight'[r].tab = flight[r].tab
    BY <2>2 DEF StatusInv, ListInv
  <2>3. CASE flight'[r].tab \in Tab /\ Listed(flight'[r].tab, r)
    BY <2>3 DEF StatusInv, ListInv
  <2> QED BY <2>1, <2>2, <2>3
<1>4. \A t, u \in Tab, r \in Run : Listed(t, r) /\ Awaits(u, r)' => t = u
  BY DEF StatusInv, ListInv, Shown
<1> QED BY <1>1, <1>2, <1>3, <1>4 DEF StatusInv, ListInv

LEMMA StatusRow ==
  ASSUME StatusInv, NEW r \in Run
  PROVE  /\ status[r] \in [Index -> Status] /\ size[r] \in Nat
         /\ \A i \in Index : i \in Nat
BY DEF StatusInv, TypeInv, TypeOK, Index

\* Batches of other runs, and confirmations of other runs, do not matter.
LEMMA OthersKeep ==
  ASSUME StatusInv, NEW r \in Run,
         \A q \in Run : Shown(q)' <=> Shown(q),
         \A q \in Run : q # r => status'[q] = status[q] /\ flight'[q] = flight[q],
         size' = size,
         \A t \in Tab, q \in Run : q # r /\ Awaits(t, q)' => pending'[t] = pending[t],
         RunOk(r)' /\ Keeps(r)
  PROVE  \A q \in Run : RunOk(q)' /\ Keeps(q)
<1> SUFFICES ASSUME NEW q \in Run PROVE RunOk(q)' /\ Keeps(q)
  OBVIOUS
<1>1. CASE q = r
  BY <1>1
<1>2. CASE q # r
  BY <1>2, RunFrame
<1> QED BY <1>1, <1>2

\* A run that goes unseen stays unseen.
LEMMA UnseenKeeps ==
  ASSUME StatusInv, NEW r \in Run, ~Shown(r), ~Shown(r)', status'[r] = status[r]
  PROVE  RunOk(r)' /\ Keeps(r)
<1>1. \A i \in Index : status[r][i] = "none"
  BY DEF StatusInv, RunOk
<1> QED BY <1>1, RunGone

LEMMA OkStatus ==
  ASSUME StatusInv, NEW r \in Run, StatementOk(r)
  PROVE  Preserved
<1> USE DEF StatusInv
<1> DEFINE f == flight[r]
           done == SetResult(f.tab, r, f.at, "ok", status)
<1>1. /\ InFlight(r) /\ Proceed(r, "ok")
      /\ UNCHANGED <<tabs, active, begun, size, runs, selected, pending, ref, approved>>
  BY DEF StatementOk
<1>2. /\ f.tab \in Tab /\ f.at \in Index /\ f.at \in 1 .. size[r]
      /\ size[r] \in 1 .. MaxStatements
  BY <1>1, FlightFacts
<1>3. /\ Shown(r) => Listed(f.tab, r)
      /\ Shown(r) => UpTo(r, f.at, "running")
      /\ \A t \in Tab : ~Awaits(t, r)
  BY <1>1, FlightShown
<1>4. \A t \in Tab, q \in Run : Awaits(t, q)' <=> Awaits(t, q)
  BY <1>1 DEF Awaits
<1>5. /\ \A q \in Run : q # r => done[q] = status[q]
      /\ ~Shown(r) => done = status
      /\ Shown(r) => done[r] = [status[r] EXCEPT ![f.at] = "ok"]
  BY <1>2, <1>3, SetResultShown
<1>6. CASE Finish(r) /\ status' = done /\ f.at = size[r]
  <2>1. /\ \A q \in Run : InFlight(q)' => q # r /\ InFlight(q) /\ flight'[q] = flight[q]
        /\ ~InFlight(r)'
        /\ \A q \in Run : q # r => flight'[q] = flight[q]
    BY <1>1, <1>6, FinishKeeps DEF Finish, TypeInv, TypeOK
  <2>2. ListInv' /\ \A q \in Run : Shown(q)' <=> Shown(q)
    BY <1>1, <1>4, <2>1, ListFrame
  <2>3. RunOk(r)' /\ Keeps(r)
    <3>1. CASE ~Shown(r)
      BY <1>5, <1>6, <2>2, <3>1, UnseenKeeps
    <3>2. CASE Shown(r)
      <4>1. \A i \in Index : status'[r][i] = IF i <= size[r] THEN "ok" ELSE "none"
        BY <1>2, <1>3, <1>5, <1>6, <3>2, StatusRow DEF UpTo
      <4>2. Keeps(r)
        BY <1>3, <4>1, <3>2, <1>2, <1>6, StatusRow DEF Keeps, UpTo, Terminal
      <4>3. RunOk(r)'
        BY <1>1, <1>3, <1>4, <2>1, <2>2, <3>2, <4>1, StatusRow DEF RunOk, StopsAtFailure
      <4> QED BY <4>2, <4>3
    <3> QED BY <3>1, <3>2
  <2> QED BY <1>1, <1>4, <1>5, <1>6, <2>1, <2>2, <2>3, OthersKeep DEF Preserved
<1>7. CASE /\ Advances(r)
           /\ status' = SetResult(f.tab, r, f.at + 1, "running", done)
  <2>1. /\ flight'[r] = [tab |-> f.tab, at |-> f.at + 1, forced |-> FALSE]
        /\ InFlight(r)' /\ f.at + 1 \in Index
        /\ \A q \in Run : q # r => flight'[q] = flight[q]
        /\ f.at < size[r]
    BY <1>1, <1>7, AdvanceKeeps DEF Advances
  <2>2. ListInv' /\ \A q \in Run : Shown(q)' <=> Shown(q)
    BY <1>1, <1>4, <2>1, ListFrame DEF InFlight
  <2>3. /\ \A q \in Run : q # r => status'[q] = status[q]
        /\ ~Shown(r) => status' = status
        /\ Shown(r) => status'[r] = [[status[r] EXCEPT ![f.at] = "ok"]
                                       EXCEPT ![f.at + 1] = "running"]
    <3>1. CASE Listed(f.tab, r)
      <4>1. status' = [done EXCEPT ![r][f.at + 1] = "running"]
        BY <1>7, <3>1 DEF SetResult
      <4>2. done \in [Run -> [Index -> Status]]
        BY <1>2, SetResultType DEF TypeInv, TypeOK, Status
      <4>3. Shown(r)
        BY <1>2, <3>1 DEF Shown
      <4> HIDE DEF done
      <4> QED BY <1>5, <4>1, <4>2, <4>3
    <3>2. CASE ~Listed(f.tab, r)
      BY <1>3, <1>5, <1>7, <3>2 DEF SetResult
    <3> QED BY <3>1, <3>2
  <2>4. RunOk(r)' /\ Keeps(r)
    <3>1. CASE ~Shown(r)
      BY <2>2, <2>3, <3>1, UnseenKeeps
    <3>2. CASE Shown(r)
      <4>1. \A i \in Index : status'[r][i] =
              IF i < f.at + 1 THEN "ok" ELSE IF i = f.at + 1 THEN "running"
              ELSE IF i <= size[r] THEN "queued" ELSE "none"
        <5>1. f.at \in Nat /\ size[r] \in Nat
          BY <1>2, StatusRow
        <5> HIDE DEF f
        <5> QED BY <1>2, <1>3, <2>1, <2>3, <3>2, <5>1, StatusRow DEF UpTo, f
      <4>2. Keeps(r)
        BY <1>3, <4>1, <3>2, <1>2, StatusRow DEF Keeps, UpTo, Terminal
      <4>3. UpTo(r, flight[r].at, "running")'
        BY <1>1, <2>1, <4>1 DEF UpTo
      <4>4. StopsAtFailure(r)'
        BY <1>2, <4>1, StatusRow DEF StopsAtFailure
      <4>5. \A i \in Index : status'[r][i] = "none" <=> i > size'[r]
        BY <1>1, <1>2, <2>1, <4>1, StatusRow
      <4>6. RunOk(r)'
        BY <1>3, <1>4, <2>1, <2>2, <3>2, <4>3, <4>4, <4>5 DEF RunOk
      <4> QED BY <4>2, <4>6
    <3> QED BY <3>1, <3>2
  <2> QED BY <1>1, <1>4, <2>1, <2>2, <2>3, <2>4, OthersKeep DEF Preserved, Awaits
<1> QED BY <1>1, <1>6, <1>7, ProceedCases DEF Status

LEMMA UnsafeStatus ==
  ASSUME StatusInv, NEW r \in Run, StatementUnsafe(r)
  PROVE  Preserved
<1> USE DEF StatusInv
<1> DEFINE f == flight[r]
<1>1. /\ InFlight(r) /\ Finish(r)
      /\ status' = SetResult(f.tab, r, f.at, "paused", status)
      /\ pending' = [pending EXCEPT ![f.tab] = [run |-> r, at |-> f.at]]
      /\ UNCHANGED <<begun, size, runs, selected>>
  BY DEF StatementUnsafe
<1>2. /\ f.tab \in Tab /\ f.at \in Index /\ f.at \in 1 .. size[r]
  BY <1>1, FlightFacts
<1>3. /\ Shown(r) => Listed(f.tab, r)
      /\ Shown(r) => UpTo(r, f.at, "running")
      /\ \A t \in Tab : ~Awaits(t, r)
  BY <1>1, FlightShown
<1>4. /\ pending'[f.tab] = [run |-> r, at |-> f.at]
      /\ \A t \in Tab : t # f.tab => pending'[t] = pending[t]
  BY <1>1, <1>2 DEF TypeInv, TypeOK
<1>5. /\ \A t \in Tab, q \in Run : q # r /\ Awaits(t, q)' => pending'[t] = pending[t]
      /\ \A t \in Tab : Awaits(t, r)' => t = f.tab
  BY <1>3, <1>4 DEF Awaits
<1>6. /\ \A q \in Run : q # r => status'[q] = status[q]
      /\ ~Shown(r) => status' = status
      /\ Shown(r) => status'[r] = [status[r] EXCEPT ![f.at] = "paused"]
  BY <1>1, <1>2, <1>3, SetResultShown
<1>7. /\ \A q \in Run : InFlight(q)' => q # r /\ InFlight(q) /\ flight'[q] = flight[q]
      /\ ~InFlight(r)'
      /\ \A q \in Run : q # r => flight'[q] = flight[q]
  BY <1>1, FinishKeeps DEF Finish, TypeInv, TypeOK
<1>8. ListInv' /\ \A q \in Run : Shown(q)' <=> Shown(q)
  <2>1. \A t \in Tab, q \in Run : Shown(q) /\ Awaits(t, q)' => Awaits(t, q) \/ Listed(t, q)
    BY <1>3, <1>5 DEF Awaits
  <2> QED BY <1>1, <1>7, <2>1, ListFrame
<1>9. RunOk(r)' /\ Keeps(r)
  <2>1. CASE ~Shown(r)
    BY <1>6, <1>8, <2>1, UnseenKeeps
  <2>2. CASE Shown(r)
    <3>1. \A i \in Index : status'[r][i] =
            IF i < f.at THEN "ok" ELSE IF i = f.at THEN "paused"
            ELSE IF i <= size[r] THEN "queued" ELSE "none"
      BY <1>2, <1>3, <1>6, <2>2, StatusRow DEF UpTo
    <3>2. Keeps(r)
      BY <1>2, <1>3, <2>2, <3>1, StatusRow DEF Keeps, UpTo, Terminal
    <3>3. \A t \in Tab : Awaits(t, r)' => UpTo(r, pending[t].at, "paused")'
      BY <1>1, <1>4, <1>5, <3>1 DEF UpTo
    <3>4. StopsAtFailure(r)'
      BY <1>2, <3>1, StatusRow DEF StopsAtFailure
    <3>5. \A i \in Index : /\ status'[r][i] = "none" <=> i > size'[r]
                           /\ status'[r][i] # "running"
      BY <1>1, <1>2, <3>1, StatusRow
    <3>6. RunOk(r)'
      BY <1>7, <1>8, <2>2, <3>3, <3>4, <3>5 DEF RunOk
    <3> QED BY <3>2, <3>6
  <2> QED BY <2>1, <2>2
<1> QED BY <1>1, <1>5, <1>6, <1>7, <1>8, <1>9, OthersKeep DEF Preserved

LEMMA EndRunStatus ==
  ASSUME StatusInv, NEW r \in Run, NEW s \in {"error", "cancelled"}, EndRun(r, s)
  PROVE  Preserved
<1> USE DEF StatusInv
<1> DEFINE f == flight[r]
           set == SetResult(f.tab, r, f.at, s, status)
<1>1. /\ InFlight(r) /\ Finish(r)
      /\ status' = SkipFrom(f.tab, r, f.at + 1, set)
      /\ UNCHANGED <<begun, size, runs, selected, pending>>
  BY DEF EndRun
<1>2. /\ f.tab \in Tab /\ f.at \in Index /\ f.at \in 1 .. size[r]
  BY <1>1, FlightFacts
<1>3. /\ Shown(r) => Listed(f.tab, r)
      /\ Shown(r) => UpTo(r, f.at, "running")
      /\ \A t \in Tab : ~Awaits(t, r)
  BY <1>1, FlightShown
<1>4. \A t \in Tab, q \in Run : Awaits(t, q)' => pending'[t] = pending[t] /\ Awaits(t, q)
  BY <1>1 DEF Awaits
<1>5. /\ \A q \in Run : q # r => set[q] = status[q]
      /\ ~Shown(r) => set = status
      /\ Shown(r) => set[r] = [status[r] EXCEPT ![f.at] = s]
  BY <1>2, <1>3, SetResultShown
<1>6. /\ \A q \in Run : q # r => status'[q] = status[q]
      /\ ~Shown(r) => status' = status
      /\ Shown(r) => status'[r] = [i \in Index |->
           IF i >= f.at + 1 /\ i <= size[r] /\ set[r][i] \notin Terminal
           THEN "skipped" ELSE set[r][i]]
  <2>1. set \in [Run -> [Index -> Status]]
    BY <1>2, SetResultType DEF TypeInv, TypeOK, Status
  <2> HIDE DEF set
  <2>2. CASE Listed(f.tab, r)
    BY <1>1, <1>2, <1>5, <2>1, <2>2 DEF SkipFrom, Shown
  <2>3. CASE ~Listed(f.tab, r)
    BY <1>1, <1>3, <1>5, <2>3 DEF SkipFrom
  <2> QED BY <2>2, <2>3
<1>7. /\ \A q \in Run : InFlight(q)' => q # r /\ InFlight(q) /\ flight'[q] = flight[q]
      /\ ~InFlight(r)'
      /\ \A q \in Run : q # r => flight'[q] = flight[q]
  BY <1>1, FinishKeeps DEF Finish, TypeInv, TypeOK
<1>8. ListInv' /\ \A q \in Run : Shown(q)' <=> Shown(q)
  BY <1>1, <1>4, <1>7, ListFrame
<1>9. RunOk(r)' /\ Keeps(r)
  <2>1. CASE ~Shown(r)
    BY <1>6, <1>8, <2>1, UnseenKeeps
  <2>2. CASE Shown(r)
    <3>1. \A i \in Index : status'[r][i] =
            IF i < f.at THEN "ok" ELSE IF i = f.at THEN s
            ELSE IF i <= size[r] THEN "skipped" ELSE "none"
      <4>1. f.at \in Nat /\ size[r] \in Nat
        BY <1>2, StatusRow
      <4>2. \A i \in Index : set[r][i] =
              IF i < f.at THEN "ok" ELSE IF i = f.at THEN s
              ELSE IF i <= size[r] THEN "queued" ELSE "none"
        BY <1>2, <1>3, <1>5, <2>2, StatusRow DEF UpTo
      <4> HIDE DEF f, set
      <4> QED BY <1>6, <2>2, <4>1, <4>2, StatusRow DEF Terminal
    <3>2. Keeps(r)
      BY <1>2, <1>3, <2>2, <3>1, StatusRow DEF Keeps, UpTo, Terminal
    <3>3. StopsAtFailure(r)'
      BY <1>2, <3>1, StatusRow DEF StopsAtFailure
    <3>4. \A i \in Index : /\ status'[r][i] = "none" <=> i > size'[r]
                           /\ status'[r][i] # "running"
      BY <1>1, <1>2, <3>1, StatusRow
    <3>5. RunOk(r)'
      BY <1>3, <1>4, <1>7, <1>8, <2>2, <3>3, <3>4 DEF RunOk
    <3> QED BY <3>2, <3>5
  <2> QED BY <2>1, <2>2
<1> QED BY <1>1, <1>4, <1>6, <1>7, <1>8, <1>9, OthersKeep DEF Preserved

LEMMA AwaitShown ==
  ASSUME StatusInv, NEW t \in Tab, pending[t] # None
  PROVE  /\ pending[t].run \in Run /\ pending[t].at \in Index
         /\ pending[t].at \in 1 .. size[pending[t].run]
         /\ ~InFlight(pending[t].run)
         /\ Shown(pending[t].run) => Listed(t, pending[t].run)
         /\ Shown(pending[t].run) => UpTo(pending[t].run, pending[t].at, "paused")
         /\ \A u \in Tab : Awaits(u, pending[t].run) => u = t
<1> DEFINE r == pending[t].run
<1>1. /\ r \in Run /\ pending[t].at \in Index /\ pending[t].at \in 1 .. size[r]
      /\ ~InFlight(r)
  BY PendingFacts, PendingNotInFlight DEF StatusInv, InFlight
<1>2. Awaits(t, r)
  BY DEF Awaits
<1>3. \A u \in Tab : Awaits(u, r) => u = t
  BY DEF Awaits, StatusInv, TypeInv, PendingKnown
<1>4. Shown(r) => Listed(t, r)
  BY <1>1, <1>2 DEF StatusInv, ListInv, Shown
<1>5. Shown(r) => UpTo(r, pending[t].at, "paused")
  BY <1>1, <1>2 DEF StatusInv, RunOk
<1> QED BY <1>1, <1>3, <1>4, <1>5

LEMMA RunAnywayStatus ==
  ASSUME StatusInv, RunAnyway
  PROVE  Preserved
<1> USE DEF StatusInv
<1>1. PICK t \in Tab : t = active /\ pending[t] # None
  BY RunAnywayCases
<1>2. PICK r \in Run, at \in Index : r = pending[t].run /\ at = pending[t].at
  BY <1>1, AwaitShown
<1>3. /\ at \in 1 .. size[r] /\ ~InFlight(r)
      /\ Shown(r) => Listed(t, r)
      /\ Shown(r) => UpTo(r, at, "paused")
      /\ \A u \in Tab : Awaits(u, r) => u = t
  BY <1>1, <1>2, AwaitShown
<1>4. /\ pending' = [pending EXCEPT ![t] = None]
      /\ UNCHANGED <<begun, size, runs, selected>>
  BY <1>1, RunAnywayCases
<1>5. /\ \A u \in Tab, q \in Run :
           Awaits(u, q)' => pending'[u] = pending[u] /\ Awaits(u, q)
      /\ \A u \in Tab : ~Awaits(u, r)'
  <2>1. /\ pending'[t] = None /\ \A u \in Tab : u # t => pending'[u] = pending[u]
    BY <1>4, ClearedType DEF TypeInv
  <2> QED BY <1>3, <2>1 DEF Awaits
<1>6. CASE Resume(t, pending[t], pending[t].run)
  <2>1. /\ flight' = [flight EXCEPT ![r] = [tab |-> t, at |-> at, forced |-> TRUE]]
        /\ status' = SetResult(t, r, at, "running", status)
    BY <1>2, <1>6 DEF Resume
  <2>2. /\ flight'[r] = [tab |-> t, at |-> at, forced |-> TRUE]
        /\ \A q \in Run : q # r => flight'[q] = flight[q]
    BY <2>1 DEF TypeInv, TypeOK
  <2>3. /\ \A q \in Run : q # r => status'[q] = status[q]
        /\ ~Shown(r) => status' = status
        /\ Shown(r) => status'[r] = [status[r] EXCEPT ![at] = "running"]
    BY <1>3, <2>1, SetResultShown
  <2>4. ListInv' /\ \A q \in Run : Shown(q)' <=> Shown(q)
    <3>1. \A q \in Run : Shown(q) /\ InFlight(q)' =>
            \/ InFlight(q) /\ flight'[q].tab = flight[q].tab
            \/ flight'[q].tab \in Tab /\ Listed(flight'[q].tab, q)
      BY <1>3, <2>2 DEF InFlight
    <3> QED BY <1>4, <1>5, <3>1, ListFrame
  <2>5. InFlight(r)'
    BY <1>3, <2>2 DEF InFlight, NoFlight, Index
  <2>6. RunOk(r)' /\ Keeps(r)
    <3>1. CASE ~Shown(r)
      BY <2>3, <2>4, <3>1, UnseenKeeps
    <3>2. CASE Shown(r)
      <4>1. \A i \in Index : status'[r][i] =
              IF i < at THEN "ok" ELSE IF i = at THEN "running"
              ELSE IF i <= size[r] THEN "queued" ELSE "none"
        BY <1>3, <2>3, <3>2, StatusRow DEF UpTo
      <4>2. Keeps(r)
        BY <1>3, <3>2, <4>1, StatusRow DEF Keeps, UpTo, Terminal
      <4>3. UpTo(r, flight[r].at, "running")'
        BY <1>4, <2>2, <4>1 DEF UpTo
      <4>4. StopsAtFailure(r)'
        BY <1>3, <4>1, StatusRow DEF StopsAtFailure
      <4>5. \A i \in Index : status'[r][i] = "none" <=> i > size'[r]
        BY <1>3, <1>4, <4>1, StatusRow
      <4>6. RunOk(r)'
        BY <1>5, <2>4, <2>5, <3>2, <4>3, <4>4, <4>5 DEF RunOk
      <4> QED BY <4>2, <4>6
    <3> QED BY <3>1, <3>2
  <2> QED BY <1>4, <1>5, <2>2, <2>3, <2>4, <2>6, OthersKeep DEF Preserved
<1>7. CASE UNCHANGED <<flight, status, controller, running>>
  <2>1. ListInv' /\ \A q \in Run : Shown(q)' <=> Shown(q)
    BY <1>4, <1>5, <1>7, ListFrame DEF InFlight
  <2>2. \A q \in Run : RunOk(q)' /\ Keeps(q)
    BY <1>4, <1>5, <1>7, <2>1, RunFrame
  <2> QED BY <2>1, <2>2 DEF Preserved
<1> QED BY <1>1, <1>6, <1>7, RunAnywayCases

LEMMA AbandonStatus ==
  ASSUME StatusInv, Abandon
  PROVE  Preserved
<1> USE DEF StatusInv
<1>1. PICK t \in Tab : t = active /\ pending[t] # None
  BY DEF Abandon, DialogOpen, TypeInv, TypeOK
<1>2. PICK r \in Run, at \in Index : r = pending[t].run /\ at = pending[t].at
  BY <1>1, AwaitShown
<1>3. /\ at \in 1 .. size[r] /\ ~InFlight(r)
      /\ Shown(r) => Listed(t, r)
      /\ Shown(r) => UpTo(r, at, "paused")
      /\ \A u \in Tab : Awaits(u, r) => u = t
  BY <1>1, <1>2, AwaitShown
<1>4. /\ pending' = [pending EXCEPT ![t] = None]
      /\ status' = SkipFrom(t, r, at, status)
      /\ UNCHANGED <<begun, size, runs, selected, flight>>
  BY <1>1, <1>2 DEF Abandon
<1>5. /\ \A u \in Tab, q \in Run :
           Awaits(u, q)' => pending'[u] = pending[u] /\ Awaits(u, q)
      /\ \A u \in Tab : ~Awaits(u, r)'
  <2>1. /\ pending'[t] = None /\ \A u \in Tab : u # t => pending'[u] = pending[u]
    BY <1>4, ClearedType DEF TypeInv
  <2> QED BY <1>3, <2>1 DEF Awaits
<1>6. /\ \A q \in Run : q # r => status'[q] = status[q]
      /\ ~Shown(r) => status' = status
      /\ Shown(r) => status'[r] = [i \in Index |->
           IF i >= at /\ i <= size[r] /\ status[r][i] \notin Terminal
           THEN "skipped" ELSE status[r][i]]
  <2>1. CASE Listed(t, r)
    BY <1>4, <2>1 DEF SkipFrom, Shown, TypeInv, TypeOK
  <2>2. CASE ~Listed(t, r)
    BY <1>3, <1>4, <2>2 DEF SkipFrom
  <2> QED BY <2>1, <2>2
<1>7. ListInv' /\ \A q \in Run : Shown(q)' <=> Shown(q)
  BY <1>4, <1>5, ListFrame DEF InFlight
<1>8. RunOk(r)' /\ Keeps(r)
  <2>1. CASE ~Shown(r)
    BY <1>6, <1>7, <2>1, UnseenKeeps
  <2>2. CASE Shown(r)
    <3>1. \A i \in Index : status'[r][i] =
            IF i < at THEN "ok" ELSE IF i <= size[r] THEN "skipped" ELSE "none"
      BY <1>3, <1>6, <2>2, StatusRow DEF UpTo, Terminal
    <3>2. Keeps(r)
      BY <1>3, <2>2, <3>1, StatusRow DEF Keeps, UpTo, Terminal
    <3>3. StopsAtFailure(r)'
      BY <1>3, <3>1, StatusRow DEF StopsAtFailure
    <3>4. \A i \in Index : /\ status'[r][i] = "none" <=> i > size'[r]
                           /\ status'[r][i] # "running"
      BY <1>3, <1>4, <3>1, StatusRow
    <3>5. RunOk(r)'
      BY <1>3, <1>4, <1>5, <1>7, <2>2, <3>3, <3>4 DEF RunOk, InFlight
    <3> QED BY <3>2, <3>5
  <2> QED BY <2>1, <2>2
<1> QED BY <1>4, <1>5, <1>6, <1>7, <1>8, OthersKeep DEF Preserved

\* Runs leave the list of one tab, and what was kept of them goes with them.
LEMMA ShrinkStatus ==
  ASSUME StatusInv, NEW t \in Tab, UNCHANGED <<begun, size>>,
         \A u \in Tab : u # t => runs'[u] = runs[u] /\ selected'[u] = selected[u],
         \A k, l \in DOMAIN runs'[t] : k < l => runs'[t][k] # runs'[t][l],
         \A k \in DOMAIN runs'[t] : Listed(t, runs'[t][k]) /\ runs'[t][k] <= begun,
         runs'[t] # <<>> => Listed(t, selected[t])',
         \A r \in Run : Shown(r)' => status'[r] = status[r] /\ flight'[r] = flight[r],
         \A r \in Run : ~Shown(r)' => \A i \in Index : status'[r][i] = "none",
         \A u \in Tab : pending'[u] \in {pending[u], None}
  PROVE  Preserved
<1>1. \A u \in Tab : \A r : Listed(u, r)' => Listed(u, r)
  <2> SUFFICES ASSUME NEW u \in Tab, NEW r, Listed(u, r)' PROVE Listed(u, r)
    OBVIOUS
  <2>1. CASE u = t
    BY <2>1 DEF Listed
  <2>2. CASE u # t
    BY <2>2 DEF Listed
  <2> QED BY <2>1, <2>2
<1>2. \A r \in Run : Shown(r)' => Shown(r)
  BY <1>1 DEF Shown
<1>3. \A u \in Tab, r \in Run : Awaits(u, r)' => Awaits(u, r) /\ pending'[u] = pending[u]
  BY DEF Awaits
<1>4. ListInv'
  <2>1. \A u \in Tab : \A k, l \in DOMAIN runs'[u] : k < l => runs'[u][k] # runs'[u][l]
    BY DEF StatusInv, ListInv
  <2>2. \A u \in Tab : \A k \in DOMAIN runs'[u] : runs'[u][k] <= begun'
    BY DEF StatusInv, ListInv
  <2>3. \A u, w \in Tab, r \in Run : Listed(u, r)' /\ Listed(w, r)' => u = w
    BY <1>1 DEF StatusInv, ListInv
  <2>4. \A u \in Tab, r \in Run : Listed(u, r)' /\ InFlight(r)' => flight'[r].tab = u
    BY <1>1 DEF StatusInv, ListInv, InFlight, Shown
  <2>5. \A u, w \in Tab, r \in Run : Listed(u, r)' /\ Awaits(w, r)' => u = w
    BY <1>1, <1>3 DEF StatusInv, ListInv
  <2>6. \A u \in Tab : runs'[u] # <<>> => Listed(u, selected[u])'
    <3> SUFFICES ASSUME NEW u \in Tab, u # t, runs'[u] # <<>>
                 PROVE  Listed(u, selected[u])'
      OBVIOUS
    <3>1. Listed(u, selected[u])
      BY DEF StatusInv, ListInv
    <3> QED BY <3>1 DEF Listed
  <2> QED BY <2>1, <2>2, <2>3, <2>4, <2>5, <2>6 DEF ListInv
<1>5. ASSUME NEW r \in Run PROVE RunOk(r)' /\ Keeps(r)
  <2>1. CASE Shown(r)'
    BY <1>2, <1>3, <2>1, RunFrame
  <2>2. CASE ~Shown(r)'
    BY <2>2, RunGone
  <2> QED BY <2>1, <2>2
<1> QED BY <1>4, <1>5 DEF Preserved

LEMMA CloseTabStatus ==
  ASSUME StatusInv, NEW t \in Tab, CloseTab(t)
  PROVE  Preserved
<1> USE DEF StatusInv
<1>1. /\ flight' = IF controller[t] = 0 THEN flight
                    ELSE [flight EXCEPT ![controller[t]] = NoFlight]
      /\ status' = Forget({r \in Run : Listed(t, r)}, status)
      /\ runs' = [runs EXCEPT ![t] = <<>>]
      /\ selected' = [selected EXCEPT ![t] = 0]
      /\ pending' = [pending EXCEPT ![t] = None]
      /\ UNCHANGED <<begun, size>>
  BY DEF CloseTab
<1>2. /\ runs'[t] = <<>>
      /\ \A u \in Tab : u # t => runs'[u] = runs[u] /\ selected'[u] = selected[u]
  BY <1>1 DEF TypeInv, TypeOK
<1>3. \A r : ~Listed(t, r)'
  BY <1>2 DEF Listed
<1>4. \A u \in Tab : \A r : u # t => (Listed(u, r)' <=> Listed(u, r))
  BY <1>2 DEF Listed
<1>5. \A r \in Run : Shown(r)' <=> Shown(r) /\ ~Listed(t, r)
  <2> SUFFICES ASSUME NEW r \in Run PROVE Shown(r)' <=> Shown(r) /\ ~Listed(t, r)
    OBVIOUS
  <2>1. Shown(r)' <=> \E u \in Tab : Listed(u, r)'
    BY DEF Shown
  <2>2. \A u \in Tab : Listed(u, r) /\ Listed(t, r) => u = t
    BY DEF ListInv
  <2> QED BY <1>3, <1>4, <2>1, <2>2 DEF Shown
<1>6. \A r \in Run : Shown(r)' => status'[r] = status[r]
  BY <1>1, <1>5 DEF Forget
<1>7. \A r \in Run : ~Shown(r)' => \A i \in Index : status'[r][i] = "none"
  <2> SUFFICES ASSUME NEW r \in Run, ~Shown(r)', NEW i \in Index
               PROVE  status'[r][i] = "none"
    OBVIOUS
  <2>1. ~Shown(r) => status[r][i] = "none"
    BY DEF RunOk
  <2> QED BY <1>1, <1>5, <2>1 DEF Forget
<1>8. \A r \in Run : Shown(r)' => flight'[r] = flight[r]
  <2> SUFFICES ASSUME NEW r \in Run, Shown(r)' PROVE flight'[r] = flight[r]
    OBVIOUS
  <2>1. PICK u \in Tab : u # t /\ Listed(u, r)
    BY <1>5, <1>3 DEF Shown
  <2>2. controller[t] # 0 => /\ controller[t] \in Run /\ InFlight(controller[t])
                             /\ flight[controller[t]].tab = t
    BY DEF TypeInv, TypeOK, ControllerKnown
  <2>3. controller[t] # 0 => controller[t] # r
    BY <2>1, <2>2 DEF ListInv
  <2> QED BY <1>1, <2>2, <2>3 DEF TypeInv, TypeOK
<1>9. \A u \in Tab : pending'[u] \in {pending[u], None}
  BY <1>1, ClearedType DEF TypeInv
<1>10. /\ \A k, l \in DOMAIN runs'[t] : k < l => runs'[t][k] # runs'[t][l]
       /\ \A k \in DOMAIN runs'[t] : Listed(t, runs'[t][k]) /\ runs'[t][k] <= begun
       /\ ~(runs'[t] # <<>>)
  BY <1>2
<1> QED BY <1>1, <1>2, <1>6, <1>7, <1>8, <1>9, <1>10, ShrinkStatus

LEMMA CloseRunStatus ==
  ASSUME StatusInv, NEW t \in Tab, t = active, NEW k \in Nat, CloseRun(k)
  PROVE  Preserved
<1> USE DEF StatusInv
<1>1. /\ runs[t] \in Seq(Run) /\ k \in 1 .. Len(runs[t]) /\ Len(runs[t]) \in Nat
      /\ DOMAIN runs[t] = 1 .. Len(runs[t])
  BY DEF CloseRun, TypeInv, TypeOK
<1>2. PICK list \in Seq(Run), r \in Run : list = runs[t] /\ r = list[k]
  BY <1>1
<1>3. PICK n \in Nat : n = Len(list) /\ k \in 1 .. n /\ DOMAIN list = 1 .. n
  BY <1>1, <1>2
<1>4. PICK rest \in Seq(Run) :
        /\ rest = RemoveAt(list, k) /\ Len(rest) = n - 1
        /\ \A i \in 1 .. n - 1 : rest[i] = list[IF i < k THEN i ELSE i + 1]
  BY <1>3, RemoveAtProperties
<1>5. /\ runs' = [runs EXCEPT ![t] = rest]
      /\ status' = Forget({r}, status)
      /\ selected' = IF selected[t] = r /\ rest # <<>>
                     THEN [selected EXCEPT ![t] = Neighbour(list, rest, k)]
                     ELSE selected
      /\ UNCHANGED <<begun, size, pending, flight>>
  BY <1>2, <1>4 DEF CloseRun
<1>6. DOMAIN rest = 1 .. n - 1
  BY <1>3, <1>4
<1>7. /\ runs'[t] = rest
      /\ \A u \in Tab : u # t => runs'[u] = runs[u] /\ selected'[u] = selected[u]
  BY <1>5 DEF TypeInv, TypeOK
<1>8. /\ \A i, j \in 1 .. n : i < j => list[i] # list[j]
      /\ \A i \in 1 .. n : list[i] <= begun
  BY <1>2, <1>3 DEF ListInv
<1>9. \A q : Listed(t, q)' <=> Listed(t, q) /\ q # r
  <2>1. \A q : Listed(t, q)' <=> \E i \in 1 .. n - 1 : rest[i] = q
    BY <1>6, <1>7 DEF Listed
  <2>2. \A q : Listed(t, q) <=> \E i \in 1 .. n : list[i] = q
    BY <1>2, <1>3 DEF Listed
  <2>3. ASSUME NEW i \in 1 .. n - 1 PROVE \E j \in 1 .. n : j # k /\ rest[i] = list[j]
    <3>1. (IF i < k THEN i ELSE i + 1) \in 1 .. n /\ (IF i < k THEN i ELSE i + 1) # k
      BY <1>3
    <3> QED BY <1>4, <3>1
  <2>4. ASSUME NEW j \in 1 .. n, j # k PROVE \E i \in 1 .. n - 1 : rest[i] = list[j]
    <3>1. CASE j < k
      <4>1. j \in 1 .. n - 1
        BY <1>3, <3>1
      <4> QED BY <1>4, <3>1, <4>1
    <3>2. CASE ~(j < k)
      <4>1. j - 1 \in 1 .. n - 1 /\ ~(j - 1 < k) /\ j - 1 + 1 = j
        BY <1>3, <2>4, <3>2
      <4> QED BY <1>4, <4>1
    <3> QED BY <3>1, <3>2
  <2>5. \A j \in 1 .. n : j # k => list[j] # r
    <3> SUFFICES ASSUME NEW j \in 1 .. n, j # k PROVE list[j] # list[k]
      BY <1>2
    <3>1. j < k \/ k < j
      BY <1>3
    <3> QED BY <1>3, <1>8, <3>1
  <2>6. ASSUME NEW q, Listed(t, q)' PROVE Listed(t, q) /\ q # r
    <3>1. PICK i \in 1 .. n - 1 : rest[i] = q
      BY <2>1, <2>6
    <3>2. PICK j \in 1 .. n : j # k /\ list[j] = q
      BY <2>3, <3>1
    <3> QED BY <2>2, <2>5, <3>2
  <2>7. ASSUME NEW q, Listed(t, q), q # r PROVE Listed(t, q)'
    <3>1. PICK j \in 1 .. n : list[j] = q /\ j # k
      BY <1>2, <2>2, <2>7
    <3> QED BY <2>1, <2>4, <3>1
  <2> QED BY <2>6, <2>7
<1>10. \A q \in Run : Shown(q)' <=> Shown(q) /\ q # r
  <2>1. \A u \in Tab, q \in Run : u # t => (Listed(u, q)' <=> Listed(u, q))
    BY <1>7 DEF Listed
  <2>2. Listed(t, r)
    BY <1>2, <1>3 DEF Listed
  <2>3. \A u \in Tab : Listed(u, r) => u = t
    BY <2>2 DEF ListInv
  <2> QED BY <1>9, <2>1, <2>3 DEF Shown
<1>11. \A k1, l \in DOMAIN rest : k1 < l => rest[k1] # rest[l]
  <2> SUFFICES ASSUME NEW i \in 1 .. n - 1, NEW j \in 1 .. n - 1, i < j
               PROVE  rest[i] # rest[j]
    BY <1>6
  <2>1. PICK a \in 1 .. n, b \in 1 .. n : a < b /\ rest[i] = list[a] /\ rest[j] = list[b]
    <3>1. /\ (IF i < k THEN i ELSE i + 1) \in 1 .. n
          /\ (IF j < k THEN j ELSE j + 1) \in 1 .. n
          /\ (IF i < k THEN i ELSE i + 1) < (IF j < k THEN j ELSE j + 1)
      BY <1>3
    <3> QED BY <1>4, <3>1
  <2> QED BY <1>8, <2>1
<1>12. \A i \in DOMAIN rest : Listed(t, rest[i]) /\ rest[i] <= begun
  <2> SUFFICES ASSUME NEW i \in 1 .. n - 1 PROVE Listed(t, rest[i]) /\ rest[i] <= begun
    BY <1>6
  <2>1. Listed(t, rest[i])'
    BY <1>6, <1>7 DEF Listed
  <2>2. Listed(t, rest[i])
    BY <1>9, <2>1
  <2>3. PICK j \in 1 .. n : list[j] = rest[i]
    BY <1>2, <1>3, <2>2 DEF Listed
  <2> QED BY <1>8, <2>2, <2>3
<1>13. rest # <<>> => Listed(t, selected[t])'
  <2> SUFFICES ASSUME rest # <<>> PROVE Listed(t, selected[t])'
    OBVIOUS
  <2>1. n - 1 >= 1 /\ list # <<>>
    BY <1>3, <1>4
  <2>2. CASE selected[t] = r
    <3>1. selected'[t] = Neighbour(list, rest, k)
      BY <1>5, <2>2 DEF TypeInv, TypeOK
    <3>2. (IF k > 1 THEN k - 1 ELSE 1) \in 1 .. n - 1
      BY <1>3, <2>1
    <3> QED BY <1>6, <1>7, <3>1, <3>2 DEF Neighbour, Listed
  <2>3. CASE selected[t] # r
    <3>1. Listed(t, selected[t])
      BY <1>2, <2>1 DEF ListInv
    <3>2. PICK q : q = selected[t]
      OBVIOUS
    <3>3. selected' = selected
      BY <1>5, <2>3
    <3>4. Listed(t, q)'
      BY <1>9, <2>3, <3>1, <3>2
    <3> QED BY <3>2, <3>3, <3>4 DEF Listed
  <2> QED BY <2>2, <2>3
<1>14. \A q \in Run : Shown(q)' => status'[q] = status[q] /\ flight'[q] = flight[q]
  BY <1>5, <1>10 DEF Forget
<1>15. \A q \in Run : ~Shown(q)' => \A i \in Index : status'[q][i] = "none"
  <2> SUFFICES ASSUME NEW q \in Run, ~Shown(q)', NEW i \in Index
               PROVE  status'[q][i] = "none"
    OBVIOUS
  <2>1. ~Shown(q) => status[q][i] = "none"
    BY DEF RunOk
  <2> QED BY <1>5, <1>10, <2>1 DEF Forget
<1>16. /\ \A i, j \in DOMAIN runs'[t] : i < j => runs'[t][i] # runs'[t][j]
       /\ \A i \in DOMAIN runs'[t] : Listed(t, runs'[t][i]) /\ runs'[t][i] <= begun
       /\ runs'[t] # <<>> => Listed(t, selected[t])'
       /\ \A u \in Tab : pending'[u] \in {pending[u], None}
       /\ UNCHANGED <<begun, size>>
  BY <1>5, <1>7, <1>11, <1>12, <1>13
<1> QED BY <1>7, <1>14, <1>15, <1>16, ShrinkStatus

\* A new run is the last of its tab's list, and the oldest may leave it.
LEMMA StartLists ==
  ASSUME StatusInv, NEW h, NEW n, Start(h, n),
         NEW t \in Tab, t = active, NEW r \in Run, r = begun + 1
  PROVE  \E gone \in SUBSET Run :
           /\ status' = [Forget(gone, status) EXCEPT ![r] =
                           [i \in Index |-> IF i > n THEN "none"
                                            ELSE IF i = 1 THEN "running" ELSE "queued"]]
           /\ \A q \in gone : Listed(t, q) /\ q # r
           /\ \A q : Listed(t, q)' <=> q = r \/ (Listed(t, q) /\ q \notin gone)
           /\ \A k, l \in DOMAIN runs'[t] : k < l => runs'[t][k] # runs'[t][l]
           /\ \A u \in Tab : u # t => runs'[u] = runs[u]
<1> USE DEF StatusInv
<1>1. PICK list \in Seq(Run), m \in Nat :
        /\ list = Append(runs[t], r) /\ m = Len(runs[t]) /\ Len(list) = m + 1
        /\ \A i \in 1 .. m : list[i] = runs[t][i]
        /\ list[m + 1] = r /\ DOMAIN runs[t] = 1 .. m /\ DOMAIN list = 1 .. m + 1
  <2>1. runs[t] \in Seq(Run)
    BY DEF TypeInv, TypeOK
  <2>2. Len(runs[t]) \in Nat /\ DOMAIN runs[t] = 1 .. Len(runs[t])
    BY <2>1
  <2>3. /\ Append(runs[t], r) \in Seq(Run) /\ Len(Append(runs[t], r)) = Len(runs[t]) + 1
        /\ \A i \in 1 .. Len(runs[t]) : Append(runs[t], r)[i] = runs[t][i]
        /\ Append(runs[t], r)[Len(runs[t]) + 1] = r
    BY <2>1, AppendProperties
  <2>4. DOMAIN Append(runs[t], r) = 1 .. Len(runs[t]) + 1
    BY <2>3
  <2> QED BY <2>2, <2>3, <2>4
<1>2. PICK d \in 0 .. m : d = Dropped(list)
  <2>1. list # <<>>
    BY <1>1
  <2>2. Dropped(list) \in 0 .. Len(list) - 1
    BY <2>1, KeptIsTheEnd
  <2> QED BY <1>1, <2>2
<1>3. PICK kept \in Seq(Run), evicted \in Seq(Run) :
        /\ kept = Kept(list) /\ evicted = Evicted(list)
        /\ DOMAIN kept = 1 .. m + 1 - d /\ DOMAIN evicted = 1 .. d
        /\ \A i \in 1 .. m + 1 - d : kept[i] = list[i + d]
        /\ \A i \in 1 .. d : evicted[i] = list[i]
  <2>1. list # <<>>
    BY <1>1
  <2>2. /\ Kept(list) \in Seq(Run) /\ Len(Kept(list)) = m + 1 - d
        /\ \A k \in 1 .. m + 1 - d : Kept(list)[k] = list[k + d]
        /\ Evicted(list) \in Seq(Run) /\ Len(Evicted(list)) = d
        /\ \A k \in 1 .. d : Evicted(list)[k] = list[k]
    <3>1. /\ Kept(list) \in Seq(Run) /\ Len(Kept(list)) = Len(list) - Dropped(list)
          /\ \A k \in 1 .. Len(list) - Dropped(list) :
               Kept(list)[k] = list[k + Dropped(list)]
          /\ Evicted(list) \in Seq(Run) /\ Len(Evicted(list)) = Dropped(list)
          /\ \A k \in 1 .. Dropped(list) : Evicted(list)[k] = list[k]
      BY <2>1, KeptIsTheEnd
    <3>2. Len(list) - Dropped(list) = m + 1 - d /\ Dropped(list) = d
      BY <1>1, <1>2
    <3> QED BY <3>1, <3>2
  <2>3. /\ DOMAIN Kept(list) = 1 .. m + 1 - d
        /\ DOMAIN Evicted(list) = 1 .. d
    BY <2>2
  <2> QED BY <2>2, <2>3
<1>4. PICK gone \in SUBSET Run :
        /\ gone = {Evicted(list)[k] : k \in DOMAIN Evicted(list)}
        /\ \A q : q \in gone <=> \E i \in 1 .. d : list[i] = q
  <2>1. {evicted[k] : k \in DOMAIN evicted} \in SUBSET Run
    BY <1>3
  <2>2. \A q : q \in {evicted[k] : k \in DOMAIN evicted} <=> \E i \in 1 .. d : list[i] = q
    BY <1>3
  <2>3. evicted = Evicted(list)
    BY <1>3
  <2> QED BY <2>1, <2>2, <2>3
<1>5. /\ runs' = [runs EXCEPT ![t] = kept]
      /\ status' = [Forget(gone, status) EXCEPT ![r] =
                      [i \in Index |-> IF i > n THEN "none"
                                       ELSE IF i = 1 THEN "running" ELSE "queued"]]
  <2> DEFINE new == Append(runs[t], r)
             out == {Evicted(new)[k] : k \in DOMAIN Evicted(new)}
  <2>1. /\ runs' = [runs EXCEPT ![t] = Kept(new)]
        /\ status' = [Forget(out, status) EXCEPT ![r] =
                        [i \in Index |-> IF i > n THEN "none"
                                         ELSE IF i = 1 THEN "running" ELSE "queued"]]
    BY DEF Start
  <2>2. new = list /\ Kept(new) = kept /\ out = gone
    BY <1>1, <1>3, <1>4
  <2> HIDE DEF new, out
  <2> QED BY <2>1, <2>2
<1>6. runs'[t] = kept /\ \A u \in Tab : u # t => runs'[u] = runs[u]
  BY <1>5 DEF TypeInv, TypeOK
<1>7. /\ \A i, j \in 1 .. m : i < j => list[i] # list[j]
      /\ \A i \in 1 .. m : list[i] <= begun /\ list[i] # r
  <2>1. \A i \in 1 .. m : list[i] <= begun /\ list[i] \in Run
    BY <1>1 DEF ListInv
  <2>2. begun \in Nat
    BY BegunType
  <2> QED BY <1>1, <2>1, <2>2 DEF ListInv, Run
<1>8. \A i, j \in 1 .. m + 1 : i < j => list[i] # list[j]
  <2> SUFFICES ASSUME NEW i \in 1 .. m + 1, NEW j \in 1 .. m + 1, i < j
               PROVE  list[i] # list[j]
    OBVIOUS
  <2>1. CASE j = m + 1
    <3>1. i \in 1 .. m
      BY <2>1
    <3> QED BY <1>1, <1>7, <2>1, <3>1
  <2>2. CASE j # m + 1
    <3>1. i \in 1 .. m /\ j \in 1 .. m
      BY <2>2
    <3> QED BY <1>7, <3>1
  <2> QED BY <2>1, <2>2
<1>9. \A k, l \in DOMAIN runs'[t] : k < l => runs'[t][k] # runs'[t][l]
  <2> SUFFICES ASSUME NEW i \in 1 .. m + 1 - d, NEW j \in 1 .. m + 1 - d, i < j
               PROVE  kept[i] # kept[j]
    BY <1>3, <1>6
  <2>1. i + d \in 1 .. m + 1 /\ j + d \in 1 .. m + 1 /\ i + d < j + d
    OBVIOUS
  <2> QED BY <1>3, <1>8, <2>1
<1>10. \A q : Listed(t, q) <=> \E i \in 1 .. m : list[i] = q
  BY <1>1 DEF Listed
<1>11. \A q : Listed(t, q)' <=> \E i \in 1 .. m + 1 - d : list[i + d] = q
  BY <1>3, <1>6 DEF Listed
<1>12. \A q \in gone : Listed(t, q) /\ q # r
  <2> SUFFICES ASSUME NEW q \in gone PROVE Listed(t, q) /\ q # r
    OBVIOUS
  <2>1. PICK i \in 1 .. d : list[i] = q
    BY <1>4
  <2>2. i \in 1 .. m
    OBVIOUS
  <2> QED BY <1>7, <1>10, <2>1, <2>2
<1>13. ASSUME NEW q, Listed(t, q)' PROVE q = r \/ (Listed(t, q) /\ q \notin gone)
  <2>1. PICK j \in 1 .. m + 1 - d : list[j + d] = q
    BY <1>11, <1>13
  <2>2. j + d \in 1 .. m + 1 /\ \A i \in 1 .. d : i < j + d /\ i \in 1 .. m + 1
    OBVIOUS
  <2>3. q \notin gone
    BY <1>4, <1>8, <2>1, <2>2
  <2>4. j + d = m + 1 \/ j + d \in 1 .. m
    OBVIOUS
  <2> QED BY <1>1, <1>10, <2>1, <2>3, <2>4
<1>14. ASSUME NEW q, q = r \/ (Listed(t, q) /\ q \notin gone) PROVE Listed(t, q)'
  <2>1. CASE q = r
    <3>1. m + 1 - d \in 1 .. m + 1 - d /\ m + 1 - d + d = m + 1
      OBVIOUS
    <3> QED BY <1>1, <1>11, <2>1, <3>1
  <2>2. CASE q # r
    <3>1. PICK i \in 1 .. m : list[i] = q
      BY <1>10, <1>14, <2>2
    <3>2. i \notin 1 .. d
      BY <1>4, <1>14, <2>2, <3>1
    <3>3. i - d \in 1 .. m + 1 - d /\ i - d + d = i
      BY <3>2
    <3> QED BY <1>11, <3>1, <3>3
  <2> QED BY <2>1, <2>2
<1> QED BY <1>5, <1>6, <1>9, <1>12, <1>13, <1>14

LEMMA StartStatus ==
  ASSUME StatusInv, NEW h \in Hook, NEW n \in 1 .. MaxStatements, Start(h, n),
         NEW t \in Tab, t = active, NEW r \in Run, r = begun + 1
  PROVE  Preserved
<1> USE DEF StatusInv
<1>1. PICK gone \in SUBSET Run :
        /\ status' = [Forget(gone, status) EXCEPT ![r] =
                        [i \in Index |-> IF i > n THEN "none"
                                         ELSE IF i = 1 THEN "running" ELSE "queued"]]
        /\ \A q \in gone : Listed(t, q) /\ q # r
        /\ \A q : Listed(t, q)' <=> q = r \/ (Listed(t, q) /\ q \notin gone)
        /\ \A k, l \in DOMAIN runs'[t] : k < l => runs'[t][k] # runs'[t][l]
        /\ \A u \in Tab : u # t => runs'[u] = runs[u]
  BY StartLists
<1>2. /\ begun' = r
      /\ size' = [size EXCEPT ![r] = n]
      /\ selected' = [selected EXCEPT ![t] = r]
      /\ flight' = [flight EXCEPT ![r] = [tab |-> t, at |-> 1, forced |-> FALSE]]
      /\ UNCHANGED pending
  BY DEF Start
<1>3. begun \in Nat /\ begun < r /\ begun <= begun' /\ 1 <= r
  BY <1>2, BegunType
<1>4. /\ size'[r] = n /\ \A q \in Run : q # r => size'[q] = size[q]
      /\ selected'[t] = r /\ \A u \in Tab : u # t => selected'[u] = selected[u]
      /\ flight'[r] = [tab |-> t, at |-> 1, forced |-> FALSE]
      /\ \A q \in Run : q # r => flight'[q] = flight[q]
  BY <1>2 DEF TypeInv, TypeOK
<1>5. InFlight(r)' /\ flight'[r].tab = t /\ flight'[r].at = 1
  BY <1>4 DEF InFlight, NoFlight
<1>6. \A q \in Run : q # r => (InFlight(q)' <=> InFlight(q))
  BY <1>4 DEF InFlight
<1>7. \A u \in Tab, q \in Run : Listed(u, q) => q <= begun
  BY DEF Listed, ListInv
<1>8. \A u \in Tab : ~Listed(u, r)
  BY <1>3, <1>7 DEF Run
<1>9. \A u \in Tab : ~Awaits(u, r)
  <2> SUFFICES ASSUME NEW u \in Tab, Awaits(u, r) PROVE FALSE
    OBVIOUS
  <2>1. r \in 1 .. begun
    BY PendingFacts DEF Awaits
  <2> QED BY <1>3, <2>1
<1>10. \A u \in Tab, q \in Run : Awaits(u, q)' <=> Awaits(u, q)
  BY <1>2 DEF Awaits
<1>11. \A u \in Tab : \A q : u # t => (Listed(u, q)' <=> Listed(u, q))
  BY <1>1 DEF Listed
<1>12. \A q \in Run : Shown(q)' <=> q = r \/ (Shown(q) /\ q \notin gone)
  <2> SUFFICES ASSUME NEW q \in Run
               PROVE  Shown(q)' <=> q = r \/ (Shown(q) /\ q \notin gone)
    OBVIOUS
  <2>1. Shown(q)' <=> \E u \in Tab : Listed(u, q)'
    BY DEF Shown
  <2>2. q \in gone => \A u \in Tab : Listed(u, q) => u = t
    BY <1>1 DEF ListInv
  <2>3. CASE q = r
    BY <1>1, <2>1, <2>3
  <2>4. CASE q # r /\ q \in gone
    BY <1>1, <1>11, <2>1, <2>2, <2>4
  <2>5. CASE q # r /\ q \notin gone
    <3>1. \A u \in Tab : Listed(u, q)' <=> Listed(u, q)
      BY <1>1, <1>11, <2>5
    <3> QED BY <2>1, <2>5, <3>1 DEF Shown
  <2> QED BY <2>3, <2>4, <2>5
<1>13. /\ \A q \in Run : q # r /\ q \notin gone => status'[q] = status[q]
       /\ \A q \in Run : q # r /\ q \in gone => \A i \in Index : status'[q][i] = "none"
       /\ \A i \in Index : status'[r][i] = IF i > n THEN "none"
                                          ELSE IF i = 1 THEN "running" ELSE "queued"
  BY <1>1 DEF Forget
<1>14. ListInv'
  <2>1. \A u \in Tab : \A k, l \in DOMAIN runs'[u] : k < l => runs'[u][k] # runs'[u][l]
    BY <1>1 DEF ListInv
  <2>2. \A u \in Tab : \A k \in DOMAIN runs'[u] : runs'[u][k] <= begun'
    <3> SUFFICES ASSUME NEW u \in Tab, NEW k \in DOMAIN runs'[u]
                 PROVE  runs'[u][k] <= begun'
      OBVIOUS
    <3>1. runs'[u][k] \in Run
      <4>1. runs' \in [Tab -> Seq(Run)]
        BY StartType DEF TypeInv, TypeOK
      <4> QED BY <4>1
    <3>2. PICK q \in Run : q = runs'[u][k] /\ Listed(u, q)'
      BY <3>1 DEF Listed
    <3>3. q = r \/ Listed(u, q)
      BY <1>1, <1>11, <3>2
    <3>4. q = r \/ q <= begun
      BY <1>7, <3>3
    <3> QED BY <1>2, <1>3, <3>2, <3>4 DEF Run
  <2>3. \A u, w \in Tab, q \in Run : Listed(u, q)' /\ Listed(w, q)' => u = w
    <3> SUFFICES ASSUME NEW u \in Tab, NEW w \in Tab, NEW q \in Run,
                        Listed(u, q)', Listed(w, q)'
                 PROVE  u = w
      OBVIOUS
    <3>1. CASE q = r
      BY <1>8, <1>11, <3>1
    <3>2. CASE q # r
      <4>1. Listed(u, q) /\ Listed(w, q)
        BY <1>1, <1>11, <3>2
      <4> QED BY <4>1 DEF ListInv
    <3> QED BY <3>1, <3>2
  <2>4. \A u \in Tab, q \in Run : Listed(u, q)' /\ InFlight(q)' => flight'[q].tab = u
    <3> SUFFICES ASSUME NEW u \in Tab, NEW q \in Run, Listed(u, q)', InFlight(q)'
                 PROVE  flight'[q].tab = u
      OBVIOUS
    <3>1. CASE q = r
      BY <1>5, <1>8, <1>11, <3>1
    <3>2. CASE q # r
      <4>1. Listed(u, q) /\ InFlight(q)
        BY <1>1, <1>6, <1>11, <3>2
      <4> QED BY <1>4, <3>2, <4>1 DEF ListInv
    <3> QED BY <3>1, <3>2
  <2>5. \A u, w \in Tab, q \in Run : Listed(u, q)' /\ Awaits(w, q)' => u = w
    <3> SUFFICES ASSUME NEW u \in Tab, NEW w \in Tab, NEW q \in Run,
                        Listed(u, q)', Awaits(w, q)'
                 PROVE  u = w
      OBVIOUS
    <3>1. Awaits(w, q) /\ q # r
      BY <1>9, <1>10
    <3>2. Listed(u, q)
      BY <1>1, <1>11, <3>1
    <3> QED BY <3>1, <3>2 DEF ListInv
  <2>6. \A u \in Tab : runs'[u] # <<>> => Listed(u, selected[u])'
    <3> SUFFICES ASSUME NEW u \in Tab, runs'[u] # <<>> PROVE Listed(u, selected[u])'
      OBVIOUS
    <3>1. CASE u = t
      <4>1. Listed(t, r)'
        BY <1>1
      <4> QED BY <1>4, <3>1, <4>1 DEF Listed
    <3>2. CASE u # t
      <4>1. Listed(u, selected[u])
        BY <1>1, <3>2 DEF ListInv
      <4> QED BY <1>1, <1>4, <3>2, <4>1 DEF Listed
    <3> QED BY <3>1, <3>2
  <2> QED BY <2>1, <2>2, <2>3, <2>4, <2>5, <2>6 DEF ListInv
<1>15. RunOk(r)' /\ Keeps(r)
  <2>1. ~Shown(r)
    BY <1>8 DEF Shown
  <2>2. Keeps(r)
    BY <2>1 DEF RunOk, Keeps, Terminal
  <2>3. Shown(r)'
    BY <1>12
  <2>4. \A i \in Index : i \in Nat /\ i >= 1
    BY DEF Index
  <2>5. UpTo(r, flight[r].at, "running")'
    BY <1>4, <1>5, <1>13, <2>4 DEF UpTo
  <2>6. StopsAtFailure(r)'
    BY <1>13, <2>4 DEF StopsAtFailure
  <2>7. \A i \in Index : status'[r][i] = "none" <=> i > size'[r]
    BY <1>4, <1>13, <2>4
  <2>8. \A u \in Tab : ~Awaits(u, r)'
    BY <1>9, <1>10
  <2> QED BY <1>5, <2>2, <2>3, <2>5, <2>6, <2>7, <2>8 DEF RunOk
<1>16. ASSUME NEW q \in Run, q # r PROVE RunOk(q)' /\ Keeps(q)
  <2>1. CASE Shown(q) /\ q \notin gone
    <3>1. \A u \in Tab : Awaits(u, q)' => pending'[u] = pending[u]
      BY <1>2
    <3> QED BY <1>4, <1>12, <1>13, <1>16, <2>1, <3>1, RunFrame
  <2>2. CASE ~Shown(q) \/ q \in gone
    <3>1. ~Shown(q)'
      BY <1>12, <1>16, <2>2
    <3>2. \A i \in Index : status'[q][i] = "none"
      <4>1. CASE q \in gone
        BY <1>13, <1>16, <4>1
      <4>2. CASE q \notin gone
        BY <1>13, <1>16, <2>2, <4>2 DEF RunOk
      <4> QED BY <4>1, <4>2
    <3> QED BY <3>1, <3>2, RunGone
  <2> QED BY <2>1, <2>2
<1> QED BY <1>14, <1>15, <1>16 DEF Preserved

LEMMA StatusInit == Init => StatusInv
<1> SUFFICES ASSUME Init PROVE StatusInv
  OBVIOUS
<1>1. TypeInv
  BY TypeInit
<1>2. \A t \in Tab : runs[t] = <<>>
  BY DEF Init
<1>3. \A t \in Tab : \A r : ~Listed(t, r)
  BY <1>2 DEF Listed
<1>4. ListInv
  BY <1>2, <1>3 DEF ListInv
<1>5. \A r \in Run : RunOk(r)
  BY <1>3 DEF RunOk, Shown, Init
<1> QED BY <1>1, <1>4, <1>5 DEF StatusInv

\* Steps on tabs and selections alone.
LEMMA QuietStatus ==
  ASSUME StatusInv,
         UNCHANGED <<begun, size, runs, status, pending, flight>>,
         \A t \in Tab : runs[t] # <<>> => Listed(t, selected'[t])
  PROVE  Preserved
<1>1. \A t \in Tab : \A r : Listed(t, r)' <=> Listed(t, r)
  BY DEF Listed
<1>2. \A r \in Run : Shown(r)' <=> Shown(r)
  BY <1>1 DEF Shown
<1>3. \A t \in Tab, r \in Run : Awaits(t, r)' => pending'[t] = pending[t]
  BY DEF Awaits
<1>4. \A r \in Run : RunOk(r)' /\ Keeps(r)
  BY <1>2, <1>3, RunFrame
<1>5. ListInv'
  BY DEF StatusInv, ListInv, Listed, Awaits, InFlight
<1> QED BY <1>4, <1>5 DEF Preserved

LEMMA StatusStep == StatusInv /\ [Next]_vars => StatusInv' /\ \A r \in Run : Keeps(r)
<1> SUFFICES ASSUME StatusInv, [Next]_vars PROVE Preserved
  BY TypeStep DEF Preserved, StatusInv
<1>0. TypeInv /\ ListInv
  BY DEF StatusInv
<1>1. ASSUME NEW t \in Tab, OpenTab(t) \/ Activate(t) PROVE Preserved
  <2>1. UNCHANGED <<begun, size, runs, status, pending, flight, selected>>
    BY <1>1 DEF OpenTab, Activate
  <2> QED BY <1>0, <2>1, QuietStatus DEF ListInv
<1>2. ASSUME NEW t \in Tab, CloseTab(t) PROVE Preserved
  BY <1>2, CloseTabStatus
<1>3. ASSUME NEW h \in Hook, NEW n \in 1 .. MaxStatements, Start(h, n) PROVE Preserved
  BY <1>0, <1>3, StartNames, StartStatus
<1>4. CASE RunStatement
  BY <1>3, <1>4, QueryRunsAssumption DEF RunStatement, Hook
<1>5. ASSUME NEW n \in Document, RunAll(n) PROVE Preserved
  BY <1>3, <1>5, QueryRunsAssumption DEF RunAll, Hook
<1>6. ASSUME NEW r \in Run, Answer(r) PROVE Preserved
  BY <1>6, OkStatus, UnsafeStatus, EndRunStatus DEF Answer, StatementError
<1>7. CASE Cancel
  BY <1>0, <1>7, CancelIsEnd, EndRunStatus
<1>8. CASE RunAnyway
  BY <1>8, RunAnywayStatus
<1>9. CASE Abandon
  BY <1>9, AbandonStatus
<1>10. ASSUME NEW r \in Run, SelectRun(r) PROVE Preserved
  <2>1. /\ UNCHANGED <<begun, size, runs, status, pending, flight>>
        /\ selected' = [selected EXCEPT ![active] = r]
        /\ Listed(active, r) /\ active \in Tab
    BY <1>0, <1>10 DEF SelectRun, TypeInv, TypeOK
  <2>2. ASSUME NEW t \in Tab, runs[t] # <<>> PROVE Listed(t, selected'[t])
    <3>1. CASE t = active
      BY <1>0, <2>1, <3>1 DEF TypeInv, TypeOK
    <3>2. CASE t # active
      BY <1>0, <2>1, <2>2, <3>2 DEF TypeInv, TypeOK, ListInv
    <3> QED BY <3>1, <3>2
  <2> QED BY <2>1, <2>2, QuietStatus
<1>11. ASSUME NEW k \in 1 .. RunHistoryCap, CloseRun(k) PROVE Preserved
  <2>1. active \in Tab /\ k \in Nat
    BY <1>0, <1>11, QueryRunsAssumption DEF CloseRun, TypeInv, TypeOK
  <2> QED BY <1>11, <2>1, CloseRunStatus
<1>12. CASE UNCHANGED vars
  <2>1. UNCHANGED <<begun, size, runs, status, pending, flight, selected>>
    BY <1>12 DEF vars
  <2> QED BY <1>0, <2>1, QuietStatus DEF ListInv
<1> QED
  BY <1>1, <1>2, <1>4, <1>5, <1>6, <1>7, <1>8, <1>9, <1>10, <1>11, <1>12 DEF Next

\* A statement shown as running is the one its batch is waiting for.
THEOREM SpinnerSafe == Spec => []SpinnerHasFlight
<1>1. StatusInv => SpinnerHasFlight
  <2> SUFFICES ASSUME StatusInv, NEW t \in Tab, NEW r \in Run, Listed(t, r)
               PROVE  /\ \A i \in Index :
                           status[r][i] = "running" <=> (InFlight(r) /\ flight[r].at = i)
                      /\ RunStatus(r) = "running" <=> InFlight(r)
    BY DEF SpinnerHasFlight
  <2>1. Shown(r) /\ RunOk(r)
    BY DEF Shown, StatusInv
  <2>2. InFlight(r) => /\ flight[r].at \in 1 .. size[r] /\ flight[r].at \in Index
                       /\ UpTo(r, flight[r].at, "running")
    BY <2>1, FlightFacts DEF RunOk, StatusInv
  <2>3. \A i \in Index :
          status[r][i] = "running" <=> (InFlight(r) /\ flight[r].at = i)
    <3>1. CASE InFlight(r)
      <4>1. \A i \in Index : i \in Nat
        BY DEF Index
      <4> QED BY <2>2, <3>1, <4>1 DEF UpTo
    <3>2. CASE ~InFlight(r)
      BY <2>1, <3>2 DEF RunOk
    <3> QED BY <3>1, <3>2
  <2>4. \A i \in 1 .. size[r] : i \in Index
    <3>1. size[r] \in 0 .. MaxStatements
      BY DEF StatusInv, TypeInv, TypeOK
    <3> QED BY <3>1, QueryRunsAssumption DEF Index
  <2>5. (\E i \in 1 .. size[r] : status[r][i] = "running") <=> InFlight(r)
    BY <2>2, <2>3, <2>4
  <2>6. RunStatus(r) = "running" <=> \E i \in 1 .. size[r] : status[r][i] = "running"
    <3>1. PICK q \in Run : q = r
      OBVIOUS
    <3> QED BY <3>1 DEF RunStatus
  <2> QED BY <2>3, <2>5, <2>6
<1> QED BY <1>1, StatusInit, StatusStep, PTL DEF Spec

\* What comes after a statement that is not ok has not begun.
THEOREM NothingAfterSafe == Spec => []NothingAfterFailure
<1>1. StatusInv => NothingAfterFailure
  <2> SUFFICES ASSUME StatusInv, NEW r \in Run PROVE StopsAtFailure(r)
    BY DEF NothingAfterFailure, StopsAtFailure
  <2> QED BY DEF StatusInv, RunOk, StopsAtFailure
<1> QED BY <1>1, StatusInit, StatusStep, PTL DEF Spec

\* The pane never falls back to the latest run by itself.
THEOREM SelectedSafe == Spec => []SelectedIsShown
<1>1. StatusInv => SelectedIsShown
  BY DEF StatusInv, ListInv, SelectedIsShown, Displayed
<1> QED BY <1>1, StatusInit, StatusStep, PTL DEF Spec

\* A statement's result stays until its run leaves the list.
THEOREM ResultsFinal == Spec => ResultsAreFinal
<1>1. StatusInv /\ [Next]_vars =>
        [\A r \in Run, i \in Index :
           status[r][i] \in Terminal => status'[r][i] \in {status[r][i], "none"}]_vars
  BY StatusStep DEF Keeps
<1> QED BY <1>1, StatusInit, StatusStep, PTL DEF Spec, ResultsAreFinal
=============================================================================
