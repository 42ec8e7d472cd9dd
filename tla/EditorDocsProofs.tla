--------------------------- MODULE EditorDocsProofs ---------------------------
(***************************************************************************)
(* Theorems of EditorDocs, for any windows and any number of insertions,   *)
(* versions, openings and reloads.                                         *)
(***************************************************************************)
EXTENDS EditorDocs, SequenceTheorems, TLAPS

-----------------------------------------------------------------------------
(* Types, for n insertions and a server at version v.                      *)

Piece == [beside : SUBSET Nat, text : SUBSET Nat]
StateOf(n) == [has : SUBSET (1 .. n), del : SUBSET (1 .. n)]
DocOf(n) == [has : SUBSET (1 .. n), del : SUBSET (1 .. n), pend : SUBSET (1 .. n)]
TabOf(n, v) == [open : BOOLEAN, etag : 0 .. v, dirty : BOOLEAN, snap : StateOf(n)]
AnswerOf(v) == {NoLoad, Loading} \cup [state : {"data"}, ver : 0 .. v, text : SUBSET Nat]
Message(n) ==
  [type : {"sync-request"}]
    \cup [type : {"update", "full-state"}, has : SUBSET (1 .. n), del : SUBSET (1 .. n)]

\* What depends on how much there is.
Sized(n, v) ==
  /\ doc \in [Window -> DocOf(n)]
  /\ tab \in [Window -> TabOf(n, v)]
  /\ load \in [Window -> AnswerOf(v)]
  /\ saving \in [Window -> 0 .. v]
  /\ chan \in [Window -> Seq(Message(n))]
  /\ etags \in [Window -> Seq(0 .. v)]
  /\ disk \in TabOf(n, v)

Types ==
  /\ server \in [ver : 1 .. MaxVersion, text : SUBSET Nat]
  /\ made \in Seq(Piece) /\ Len(made) <= MaxItems
  /\ Sized(Len(made), server.ver)
  /\ timer \in [Window -> BOOLEAN]
  /\ primary \in Window /\ clears \in Nat /\ opens \in Nat

\* Nothing is left of a closed tab.
ClosedIsGone ==
  /\ \A w \in Window : ~tab[w].open =>
       /\ tab[w] = Closed /\ doc[w] = NewDoc /\ load[w] = NoLoad
       /\ ~timer[w] /\ chan[w] = <<>>
  /\ ~disk.open => disk = Closed

TypeInv == Types /\ ClosedIsGone

LEMMA Constants ==
  /\ \A n \in Nat : NewDoc \in DocOf(n) /\ NoSnap \in StateOf(n)
  /\ \A n, v \in Nat : Closed \in TabOf(n, v)
  /\ Closed.open = FALSE /\ Closed.dirty = FALSE /\ Closed.etag = 0 /\ Closed.snap = NoSnap
  /\ Loading # NoLoad /\ Loading.state = "loading" /\ NoLoad.state = "none"
  /\ NoEtag = 0 /\ NoText = {}
BY DEF NewDoc, DocOf, NoSnap, StateOf, Closed, TabOf, NoEtag, Loading, NoLoad, NoText

\* A larger document and a later version leave everything in its type.
LEMMA Widen ==
  ASSUME NEW n \in Nat, NEW v \in Nat, Sized(n, v),
         NEW k \in Nat, NEW u \in Nat, n <= k, v <= u
  PROVE  Sized(k, u)
<1>1. 1 .. n \subseteq 1 .. k /\ 0 .. v \subseteq 0 .. u
  OBVIOUS
<1>2. /\ DocOf(n) \subseteq DocOf(k) /\ TabOf(n, v) \subseteq TabOf(k, u)
      /\ AnswerOf(v) \subseteq AnswerOf(u) /\ Message(n) \subseteq Message(k)
  BY <1>1 DEF DocOf, TabOf, StateOf, AnswerOf, Message
<1>3. chan \in [Window -> Seq(Message(k))]
  BY <1>2, SeqMonotonic DEF Sized
<1>4. etags \in [Window -> Seq(0 .. u)]
  BY <1>1, SeqMonotonic DEF Sized
<1> QED BY <1>1, <1>2, <1>3, <1>4 DEF Sized

LEMMA PostType ==
  ASSUME NEW n \in Nat, chan \in [Window -> Seq(Message(n))],
         NEW w \in Window, NEW msgs \in Seq(Message(n))
  PROVE  Post(w, msgs) \in [Window -> Seq(Message(n))]
<1>1. \A v \in Window : chan[v] \o msgs \in Seq(Message(n))
  BY ConcatProperties
<1> QED BY <1>1 DEF Post

LEMMA PostEtagType ==
  ASSUME NEW v \in Nat, etags \in [Window -> Seq(0 .. v)],
         NEW w \in Window, NEW old, NEW new \in 0 .. v
  PROVE  PostEtag(w, old, new) \in [Window -> Seq(0 .. v)]
<1>1. \A x \in Window : Append(etags[x], new) \in Seq(0 .. v)
  BY AppendProperties
<1> QED BY <1>1 DEF PostEtag

LEMMA MergeType ==
  ASSUME NEW n \in Nat, NEW d \in DocOf(n), NEW m,
         m.has \subseteq 1 .. n, m.del \subseteq 1 .. n
  PROVE  Merge(d, m) \in DocOf(n)
<1> DEFINE e == [d EXCEPT !.pend = (@ \cup m.has) \ d.has, !.del = @ \cup m.del]
<1>1. e \in DocOf(n)
  BY DEF DocOf
<1> HIDE DEF e
<1>2. Integrate(e) \in DocOf(n)
  <2> DEFINE ready == {i \in e.pend : made[i].beside \subseteq e.has \cup e.pend}
  <2>1. ready \subseteq e.pend
    OBVIOUS
  <2>2. Integrate(e) = [e EXCEPT !.has = @ \cup ready, !.pend = @ \ ready]
    BY DEF Integrate
  <2> HIDE DEF ready
  <2> QED BY <1>1, <2>1, <2>2 DEF DocOf
<1> QED BY <1>2 DEF Merge, e

-----------------------------------------------------------------------------
(* Types are kept.                                                         *)

LEMMA HydratedTabType ==
  ASSUME NEW n \in Nat, NEW v \in Nat, NEW t \in TabOf(n, v), NEW l \in AnswerOf(v)
  PROVE  /\ HydratedTab(t, l) \in TabOf(n, v)
         /\ HydratedTab(t, l).open = t.open
         /\ HydratedTab(t, l).snap = t.snap
<1>1. l.state = "data" => l.ver \in 0 .. v
  BY Constants DEF AnswerOf
<1> QED BY <1>1 DEF HydratedTab, TabOf

LEMMA SettleType ==
  ASSUME Types, NEW w \in Window,
         NEW d \in DocOf(Len(made)), NEW t \in TabOf(Len(made), server.ver),
         NEW l \in AnswerOf(server.ver), Settle(w, d, t, l)
  PROVE  /\ made' \in Seq(Piece) /\ Len(made) <= Len(made') /\ Len(made') <= MaxItems
         /\ doc' \in [Window -> DocOf(Len(made'))]
         /\ tab' \in [Window -> TabOf(Len(made'), server.ver)]
         /\ load' \in [Window -> AnswerOf(server.ver)]
         /\ chan' \in [Window -> Seq(Message(Len(made')))]
         /\ disk' \in TabOf(Len(made'), server.ver)
         /\ tab'[w].open = t.open
         /\ \A x \in Window \ {w} : /\ tab'[x] = tab[x] /\ doc'[x] = doc[x]
                                    /\ load'[x] = load[x]
                                    /\ ~tab[x].open => chan'[x] = chan[x]
<1> DEFINE n == Len(made)
           v == server.ver
           hydrates == t.open /\ NeedsText(d, t, l)
           filled == IF hydrates THEN [d EXCEPT !.has = @ \cup {n + 1}] ELSE d
           after == IF t.open THEN HydratedTab(t, l) ELSE t
<1>1. /\ n \in Nat /\ n + 1 \in Nat /\ v \in Nat /\ n <= MaxItems
      /\ made \in Seq(Piece)
  BY LenProperties DEF Types
<1>2. /\ hydrates => n < MaxItems
      /\ made' = IF hydrates THEN Append(made, [beside |-> d.has, text |-> l.text])
                 ELSE made
      /\ doc' = [doc EXCEPT ![w] = filled]
      /\ tab' = [tab EXCEPT ![w] = after]
      /\ load' = [load EXCEPT ![w] = l]
      /\ chan' = IF hydrates THEN Post(w, <<FullState(filled)>>) ELSE chan
      /\ disk' = Persist(w, after)
  BY DEF Settle
<1>3. hydrates => [beside |-> d.has, text |-> l.text] \in Piece
  <2>1. d.has \subseteq Nat
    BY <1>1 DEF DocOf
  <2>2. l.state = "data" => l.text \subseteq Nat
    BY Constants DEF AnswerOf
  <2> QED BY <2>1, <2>2 DEF NeedsText, Piece
<1>4. /\ made' \in Seq(Piece) /\ Len(made') <= MaxItems
      /\ Len(made') = IF hydrates THEN n + 1 ELSE n
  <2>1. CASE hydrates
    BY <1>1, <1>2, <1>3, <2>1, AppendProperties, BoundsAreNatural
  <2>2. CASE ~hydrates
    BY <1>1, <1>2, <2>2
  <2> QED BY <2>1, <2>2
<1> DEFINE k == Len(made')
<1>5. k \in Nat /\ n <= k
  BY <1>1, <1>4
<1>6. Sized(k, v)
  BY <1>1, <1>5, Widen DEF Types
<1>7. filled \in DocOf(k)
  <2>1. d \in DocOf(k)
    BY <1>1, <1>5 DEF DocOf
  <2>2. hydrates => n + 1 \in 1 .. k
    BY <1>1, <1>4
  <2> QED BY <2>1, <2>2 DEF DocOf
<1>8. after \in TabOf(k, v) /\ after.open = t.open
  <2>1. t \in TabOf(k, v)
    BY <1>1, <1>5 DEF TabOf, StateOf
  <2> QED BY <2>1, <1>1, <1>5, HydratedTabType
<1> HIDE DEF hydrates, filled, after
<1>9. doc' \in [Window -> DocOf(k)] /\ tab' \in [Window -> TabOf(k, v)]
  BY <1>2, <1>6, <1>7, <1>8 DEF Sized
<1>10. load' \in [Window -> AnswerOf(v)]
  BY <1>2, <1>6 DEF Sized
<1>11. chan' \in [Window -> Seq(Message(k))]
  <2>1. FullState(filled) \in Message(k)
    BY <1>7 DEF FullState, Message, DocOf
  <2>2. <<FullState(filled)>> \in Seq(Message(k))
    BY <2>1
  <2> QED BY <1>2, <1>5, <1>6, <2>2, PostType DEF Sized
<1>12. disk' \in TabOf(k, v)
  BY <1>2, <1>6, <1>8 DEF Persist, Sized
<1>13. tab'[w].open = t.open
  BY <1>2, <1>8 DEF Types, Sized
<1>14. \A x \in Window \ {w} : /\ tab'[x] = tab[x] /\ doc'[x] = doc[x]
                               /\ load'[x] = load[x]
                               /\ ~tab[x].open => chan'[x] = chan[x]
  <2>1. \A x \in Window : ~tab[x].open => chan'[x] = chan[x]
    BY <1>2 DEF Post
  <2> QED BY <1>2, <2>1 DEF Types, Sized
<1> QED BY <1>4, <1>5, <1>9, <1>10, <1>11, <1>12, <1>13, <1>14

\* What a step leaves of the types is what its variables have.
LEMMA OpenType ==
  ASSUME TypeInv, NEW w \in Window, Open(w) PROVE TypeInv'
<1> DEFINE n == Len(made)  v == server.ver
           t == [Closed EXCEPT !.open = TRUE]
<1>1. n \in Nat /\ v \in Nat
  BY LenProperties DEF TypeInv, Types
<1>2. t \in TabOf(n, v) /\ t.open = TRUE
  BY <1>1, Constants DEF TabOf
<1>3. tab' = [tab EXCEPT ![w] = t] /\ disk' = Persist(w, t)
  BY DEF Open, TypeInv, Types, Sized
<1> HIDE DEF t
<1>4. tab' \in [Window -> TabOf(n, v)] /\ disk' \in TabOf(n, v)
  BY <1>2, <1>3 DEF TypeInv, Types, Sized, Persist
<1>5. doc' \in [Window -> DocOf(n)] /\ load' \in [Window -> AnswerOf(v)]
  BY <1>1, Constants DEF Open, TypeInv, Types, Sized, AnswerOf
<1>6. chan' \in [Window -> Seq(Message(n))]
  <2>1. <<[type |-> "sync-request"]>> \in Seq(Message(n))
    BY DEF Message
  <2> QED BY <1>1, <2>1, PostType DEF Open, TypeInv, Types, Sized
<1>7. Types'
  BY <1>4, <1>5, <1>6 DEF Open, TypeInv, Types, Sized
<1>8. ClosedIsGone'
  <2>1. chan[w] = <<>> /\ chan'[w] = chan[w]
    BY DEF Open, TypeInv, ClosedIsGone, Types, Sized, Post
  <2>2. \A x \in Window \ {w} : /\ tab'[x] = tab[x] /\ doc'[x] = doc[x]
                                /\ load'[x] = load[x] /\ timer'[x] = timer[x]
                                /\ ~tab[x].open => chan'[x] = chan[x]
    BY <1>3 DEF Open, TypeInv, Types, Sized, Post
  <2>3. tab'[w].open /\ (~disk'.open => disk' = Closed)
    BY <1>2, <1>3 DEF TypeInv, Types, Sized, Persist, ClosedIsGone
  <2> QED BY <2>2, <2>3 DEF TypeInv, ClosedIsGone
<1> QED BY <1>7, <1>8 DEF TypeInv

LEMMA CloseType ==
  ASSUME TypeInv, NEW w \in Window, Close(w) PROVE TypeInv'
<1>1. Len(made) \in Nat /\ server.ver \in Nat
  BY LenProperties DEF TypeInv, Types
<1>2. Types'
  BY <1>1, Constants DEF Close, TypeInv, Types, Sized, AnswerOf, Persist
<1>3. ClosedIsGone'
  BY Constants DEF Close, TypeInv, Types, Sized, ClosedIsGone, Persist
<1> QED BY <1>2, <1>3 DEF TypeInv

LEMMA ReloadType ==
  ASSUME TypeInv, NEW w \in Window, Reload(w) PROVE TypeInv'
<1> DEFINE n == Len(made)  v == server.ver
           request == [type |-> "sync-request"]
           quiet == [chan EXCEPT ![w] = <<>>]
<1>1. n \in Nat /\ v \in Nat
  BY LenProperties DEF TypeInv, Types
<1>2. tab' \in [Window -> TabOf(n, v)] /\ disk' \in TabOf(n, v)
  BY DEF Reload, TypeInv, Types, Sized
<1>3. doc' \in [Window -> DocOf(n)]
  BY DEF Reload, TypeInv, Types, Sized, TabOf, StateOf, DocOf
<1>4. load' \in [Window -> AnswerOf(v)] /\ saving' \in [Window -> 0 .. v]
  BY <1>1 DEF Reload, TypeInv, Types, Sized, AnswerOf, NoEtag
<1>5. quiet \in [Window -> Seq(Message(n))]
  BY DEF TypeInv, Types, Sized
<1>6. \A x \in Window : Append(quiet[x], request) \in Seq(Message(n))
  <2>1. request \in Message(n)
    BY DEF Message
  <2> QED BY <1>5, <2>1, AppendProperties
<1>7. chan' = IF disk.open
              THEN [x \in Window |-> IF x # w /\ tab[x].open
                                     THEN Append(quiet[x], request) ELSE quiet[x]]
              ELSE quiet
  BY DEF Reload
<1> HIDE DEF quiet, request
<1>8. chan' \in [Window -> Seq(Message(n))]
  BY <1>5, <1>6, <1>7
<1>9. etags' \in [Window -> Seq(0 .. v)]
  BY DEF Reload, TypeInv, Types, Sized
<1>10. primary' \in Window /\ opens' \in Nat /\ timer' \in [Window -> BOOLEAN]
  BY DEF Reload, TypeInv, Types, Others
<1>11. Types'
  BY <1>2, <1>3, <1>4, <1>8, <1>9, <1>10 DEF Reload, TypeInv, Types, Sized
<1>12. ClosedIsGone'
  <2>1. \A x \in Window \ {w} : /\ tab'[x] = tab[x] /\ doc'[x] = doc[x]
                                /\ load'[x] = load[x] /\ timer'[x] = timer[x]
                                /\ ~tab[x].open => chan'[x] = chan[x]
    BY <1>7 DEF Reload, TypeInv, Types, Sized, quiet
  <2>2. ~disk.open => /\ tab'[w] = Closed /\ doc'[w] = NewDoc /\ load'[w] = NoLoad
                      /\ ~timer'[w] /\ chan'[w] = <<>>
    <3> SUFFICES ASSUME ~disk.open
                 PROVE  /\ tab'[w] = Closed /\ doc'[w] = NewDoc /\ load'[w] = NoLoad
                        /\ ~timer'[w] /\ chan'[w] = <<>>
      OBVIOUS
    <3>1. disk = Closed
      BY DEF TypeInv, ClosedIsGone
    <3>2. disk.snap.has = {} /\ disk.snap.del = {}
      BY <3>1, Constants DEF NoSnap
    <3>3. doc'[w] = NewDoc
      BY <3>2 DEF Reload, TypeInv, Types, Sized, NewDoc
    <3>4. chan'[w] = <<>>
      BY <1>7 DEF TypeInv, Types, Sized, quiet
    <3> QED BY <3>1, <3>3, <3>4 DEF Reload, TypeInv, Types, Sized
  <2>3. tab'[w] = disk /\ disk' = disk
    BY DEF Reload, TypeInv, Types, Sized
  <2> QED BY <2>1, <2>2, <2>3 DEF TypeInv, ClosedIsGone
<1> QED BY <1>11, <1>12 DEF TypeInv

\* A step of the effect of window w, which has its tab open.
LEMMA SettlingType ==
  ASSUME TypeInv, NEW w \in Window, tab[w].open,
         NEW d \in DocOf(Len(made)), NEW t \in TabOf(Len(made), server.ver),
         NEW l \in AnswerOf(server.ver), t.open, Settle(w, d, t, l),
         server' = server, primary' = primary, clears' = clears, opens' = opens,
         timer' \in {timer, [timer EXCEPT ![w] = FALSE]},
         saving' \in [Window -> 0 .. server.ver],
         etags' \in [Window -> Seq(0 .. server.ver)]
  PROVE  TypeInv'
<1> DEFINE k == Len(made')  v == server.ver
<1>1. /\ made' \in Seq(Piece) /\ Len(made') <= MaxItems
      /\ doc' \in [Window -> DocOf(k)] /\ tab' \in [Window -> TabOf(k, v)]
      /\ load' \in [Window -> AnswerOf(v)] /\ chan' \in [Window -> Seq(Message(k))]
      /\ disk' \in TabOf(k, v)
      /\ tab'[w].open = t.open
      /\ \A x \in Window \ {w} : /\ tab'[x] = tab[x] /\ doc'[x] = doc[x]
                                 /\ load'[x] = load[x]
                                 /\ ~tab[x].open => chan'[x] = chan[x]
  BY SettleType DEF TypeInv
<1>2. /\ timer' \in [Window -> BOOLEAN]
      /\ \A x \in Window \ {w} : timer'[x] = timer[x]
  BY DEF TypeInv, Types
<1>3. Types'
  BY <1>1, <1>2 DEF TypeInv, Types, Sized
<1>4. ~disk'.open => disk' = Closed
  <2>1. disk' \in {disk, tab'[w]}
    BY DEF Settle, Persist, TypeInv, Types, Sized
  <2> QED BY <1>1, <2>1 DEF TypeInv, ClosedIsGone
<1>5. ClosedIsGone'
  BY <1>1, <1>2, <1>4 DEF TypeInv, ClosedIsGone
<1> QED BY <1>3, <1>5 DEF TypeInv

LEMMA FetchAnsweredType ==
  ASSUME TypeInv, NEW w \in Window, FetchAnswered(w) PROVE TypeInv'
<1> DEFINE l == [state |-> "data", ver |-> server.ver, text |-> server.text]
<1>1. tab[w].open
  BY Constants DEF FetchAnswered, TypeInv, ClosedIsGone
<1>2. l \in AnswerOf(server.ver) /\ server.ver \in Nat
  BY DEF TypeInv, Types, AnswerOf
<1>3. Settle(w, doc[w], tab[w], l)
  BY DEF FetchAnswered
<1> HIDE DEF l
<1>4. doc[w] \in DocOf(Len(made)) /\ tab[w] \in TabOf(Len(made), server.ver)
  BY DEF TypeInv, Types, Sized
<1>5. tab' \in [Window -> TabOf(Len(made'), server.ver)]
  BY <1>2, <1>3, <1>4, SettleType DEF TypeInv
<1>6. etags' \in [Window -> Seq(0 .. server.ver)]
  <2>1. tab'[w].etag \in 0 .. server.ver
    BY <1>5 DEF TabOf
  <2>2. etags' = PostEtag(w, tab[w].etag, tab'[w].etag)
    BY DEF FetchAnswered
  <2> QED BY <1>2, <2>1, <2>2, PostEtagType DEF TypeInv, Types, Sized
<1>7. timer' \in {timer, [timer EXCEPT ![w] = FALSE]}
  BY DEF FetchAnswered
<1>8. saving' \in [Window -> 0 .. server.ver]
  BY DEF FetchAnswered, TypeInv, Types, Sized
<1> QED BY <1>1, <1>2, <1>3, <1>4, <1>6, <1>7, <1>8, SettlingType DEF FetchAnswered

LEMMA TypeType ==
  ASSUME TypeInv, NEW w \in Window, Type(w) PROVE TypeInv'
<1> DEFINE n == Len(made)  v == server.ver  e == n + 1
           m == [type |-> "update", has |-> {e}, del |-> {}]
<1>1. n \in Nat /\ v \in Nat /\ e \in Nat /\ e \in 1 .. e
  BY LenProperties DEF TypeInv, Types
<1>2. [beside |-> doc[w].has, text |-> {e}] \in Piece
  BY <1>1 DEF TypeInv, Types, Sized, DocOf, Piece
<1>3. made' \in Seq(Piece) /\ Len(made') = e
  BY <1>2, AppendProperties DEF Type, TypeInv, Types
<1>4. Len(made') <= MaxItems
  BY <1>1, <1>3, BoundsAreNatural DEF Type
<1>5. Sized(e, v)
  BY <1>1, Widen DEF TypeInv, Types
<1>6. doc' \in [Window -> DocOf(e)]
  BY <1>1, <1>5 DEF Type, Sized, DocOf
<1>7. chan' \in [Window -> Seq(Message(e))]
  <2>1. <<m>> \in Seq(Message(e))
    BY <1>1 DEF Message
  <2> QED BY <1>1, <1>5, <2>1, PostType DEF Type, Sized
<1>8. Types'
  BY <1>3, <1>4, <1>5, <1>6, <1>7 DEF Type, TypeInv, Types, Sized
<1>9. ClosedIsGone'
  BY DEF Type, Editable, TypeInv, Types, Sized, ClosedIsGone, Post
<1> QED BY <1>8, <1>9 DEF TypeInv

LEMMA ClearType ==
  ASSUME TypeInv, NEW w \in Window, Clear(w) PROVE TypeInv'
<1> DEFINE n == Len(made)  v == server.ver
           m == [type |-> "update", has |-> {}, del |-> doc[w].has]
<1>1. n \in Nat /\ v \in Nat
  BY LenProperties DEF TypeInv, Types
<1>2. doc' \in [Window -> DocOf(n)]
  <2>1. doc \in [Window -> DocOf(n)]
    BY DEF TypeInv, Types, Sized
  <2>2. [doc[w] EXCEPT !.del = @ \cup doc[w].has] \in DocOf(n)
    BY <2>1 DEF DocOf
  <2>3. doc' = [doc EXCEPT ![w] = [doc[w] EXCEPT !.del = @ \cup doc[w].has]]
    BY <2>1 DEF Clear
  <2> QED BY <2>1, <2>2, <2>3
<1>3. chan' \in [Window -> Seq(Message(n))]
  <2>1. <<m>> \in Seq(Message(n))
    BY <1>1 DEF TypeInv, Types, Sized, DocOf, Message
  <2> QED BY <1>1, <2>1, PostType DEF Clear, TypeInv, Types, Sized
<1>4. Types'
  <2>1. clears' \in Nat
    BY DEF Clear, TypeInv, Types
  <2> QED BY <1>2, <1>3, <2>1 DEF Clear, TypeInv, Types, Sized
<1>5. ClosedIsGone'
  BY DEF Clear, Editable, TypeInv, Types, Sized, ClosedIsGone, Post
<1> QED BY <1>4, <1>5 DEF TypeInv

LEMMA SnapshotType ==
  ASSUME TypeInv, NEW w \in Window, Snapshot(w) PROVE TypeInv'
<1> DEFINE t == [tab[w] EXCEPT
                   !.snap = [has |-> doc[w].has, del |-> doc[w].del],
                   !.dirty = @ \/ (tab[w].etag # NoEtag
                                     /\ Text(doc[w]) # Text(tab[w].snap))]
<1>1. server.ver \in Nat
  BY DEF TypeInv, Types
<1>2. doc[w] \in DocOf(Len(made)) /\ tab[w] \in TabOf(Len(made), server.ver)
      /\ load[w] \in AnswerOf(server.ver)
  BY DEF TypeInv, Types, Sized
<1>3. t \in TabOf(Len(made), server.ver) /\ t.open = tab[w].open
  <2>1. [has |-> doc[w].has, del |-> doc[w].del] \in StateOf(Len(made))
    BY <1>2 DEF DocOf, StateOf
  <2> QED BY <1>2, <2>1 DEF TabOf
<1>4. Settle(w, doc[w], t, load[w])
  BY DEF Snapshot
<1> HIDE DEF t
<1>5. tab' \in [Window -> TabOf(Len(made'), server.ver)]
  BY <1>2, <1>3, <1>4, SettleType DEF TypeInv
<1>6. etags' \in [Window -> Seq(0 .. server.ver)]
  <2>1. tab'[w].etag \in 0 .. server.ver
    BY <1>5 DEF TabOf
  <2>2. etags' = PostEtag(w, tab[w].etag, tab'[w].etag)
    BY DEF Snapshot
  <2> QED BY <1>1, <2>1, <2>2, PostEtagType DEF TypeInv, Types, Sized
<1>7. timer' \in {timer, [timer EXCEPT ![w] = FALSE]} /\ tab[w].open
  BY DEF Snapshot
<1>8. saving' \in [Window -> 0 .. server.ver]
  BY DEF Snapshot, TypeInv, Types, Sized
<1> QED BY <1>2, <1>3, <1>4, <1>6, <1>7, <1>8, SettlingType DEF Snapshot

LEMMA TabsChangeType ==
  ASSUME TypeInv, NEW w \in Window, TabsChange(w) PROVE TypeInv'
BY DEF TabsChange, TypeInv, Types, Sized, ClosedIsGone

LEMMA SaveType ==
  ASSUME TypeInv, NEW w \in Window, Save(w) PROVE TypeInv'
<1> DEFINE n == Len(made)  v == server.ver
<1>1. n \in Nat /\ v \in Nat /\ v < MaxVersion
  BY LenProperties DEF Save, TypeInv, Types
<1>2. Sized(n, v + 1)
  BY <1>1, Widen DEF TypeInv, Types
<1>3. server' \in [ver : 1 .. MaxVersion, text : SUBSET Nat] /\ server'.ver = v + 1
  <2>1. Text(doc[w]) \subseteq Nat
    <3>1. doc[w].has \subseteq 1 .. n
      BY DEF TypeInv, Types, Sized, DocOf
    <3>2. \A i \in 1 .. n : made[i] \in Piece
      BY ElementOfSeq DEF TypeInv, Types
    <3>3. \A i \in 1 .. n : made[i].text \subseteq Nat
      BY <3>2 DEF Piece
    <3> QED BY <3>1, <3>3 DEF Text
  <2> QED BY <1>1, <2>1, BoundsAreNatural DEF Save, TypeInv, Types
<1>4. saving' \in [Window -> 0 .. v + 1]
  BY <1>1, <1>2, <1>3 DEF Save, Sized
<1>5. Types'
  BY <1>2, <1>3, <1>4 DEF Save, TypeInv, Types, Sized
<1>6. ClosedIsGone'
  BY DEF Save, TypeInv, ClosedIsGone
<1> QED BY <1>5, <1>6 DEF TypeInv

LEMMA UpdateTabEtagType ==
  ASSUME TypeInv, NEW w \in Window, NEW etag \in 0 .. server.ver,
         UpdateTabEtag(w, etag),
         UNCHANGED <<server, primary, clears, opens>>,
         saving' \in [Window -> 0 .. server.ver],
         etags' \in [Window -> Seq(0 .. server.ver)]
  PROVE  TypeInv'
<1> DEFINE t == [tab[w] EXCEPT !.etag = etag, !.dirty = FALSE]
<1>1. CASE tab[w].open
  <2>1. doc[w] \in DocOf(Len(made)) /\ load[w] \in AnswerOf(server.ver)
    BY DEF TypeInv, Types, Sized
  <2>2. t \in TabOf(Len(made), server.ver) /\ t.open
    BY <1>1 DEF TypeInv, Types, Sized, TabOf
  <2>3. /\ Settle(w, doc[w], t, load[w])
        /\ timer' = [timer EXCEPT ![w] = FALSE]
    BY <1>1 DEF UpdateTabEtag
  <2> HIDE DEF t
  <2> QED BY <1>1, <2>1, <2>2, <2>3, SettlingType
<1>2. CASE ~tab[w].open
  BY <1>2 DEF UpdateTabEtag, TypeInv, Types, Sized, ClosedIsGone
<1> QED BY <1>1, <1>2

LEMMA SavedType ==
  ASSUME TypeInv, NEW w \in Window, Saved(w) PROVE TypeInv'
<1>1. saving[w] \in 0 .. server.ver /\ server.ver \in Nat
  BY DEF TypeInv, Types, Sized
<1>2. saving' \in [Window -> 0 .. server.ver]
  BY <1>1 DEF Saved, TypeInv, Types, Sized, NoEtag
<1>3. etags' \in [Window -> Seq(0 .. server.ver)]
  BY <1>1, PostEtagType DEF Saved, TypeInv, Types, Sized
<1> QED BY <1>1, <1>2, <1>3, UpdateTabEtagType DEF Saved

LEMMA SavedElsewhereType ==
  ASSUME TypeInv, SavedElsewhere PROVE TypeInv'
<1> DEFINE n == Len(made)  v == server.ver
<1>1. n \in Nat /\ v \in Nat /\ n < MaxItems /\ v < MaxVersion
  BY LenProperties DEF SavedElsewhere, TypeInv, Types
<1>2. made' \in Seq(Piece) /\ Len(made') = n + 1
  <2>1. [beside |-> {}, text |-> {n + 1}] \in Piece
    BY <1>1 DEF Piece
  <2> QED BY <2>1, AppendProperties DEF SavedElsewhere, TypeInv, Types
<1>3. server' \in [ver : 1 .. MaxVersion, text : SUBSET Nat] /\ server'.ver = v + 1
  BY <1>1, BoundsAreNatural DEF SavedElsewhere, TypeInv, Types
<1>4. Sized(n + 1, v + 1)
  BY <1>1, Widen DEF TypeInv, Types
<1>5. Types'
  BY <1>1, <1>2, <1>3, <1>4, BoundsAreNatural DEF SavedElsewhere, TypeInv, Types, Sized
<1>6. ClosedIsGone'
  BY DEF SavedElsewhere, TypeInv, ClosedIsGone
<1> QED BY <1>5, <1>6 DEF TypeInv

LEMMA DeliverDocType ==
  ASSUME TypeInv, NEW w \in Window, DeliverDoc(w) PROVE TypeInv'
<1> DEFINE n == Len(made)  v == server.ver  m == Head(chan[w])
           rest == [chan EXCEPT ![w] = Tail(@)]
<1>1. n \in Nat /\ v \in Nat
  BY LenProperties DEF TypeInv, Types
<1>2. /\ m \in Message(n) /\ chan[w] # <<>> /\ tab[w].open
      /\ rest \in [Window -> Seq(Message(n))]
      /\ \A x \in Window \ {w} : rest[x] = chan[x]
  BY HeadTailProperties DEF DeliverDoc, TypeInv, Types, Sized, ClosedIsGone
<1> DEFINE full == FullState(doc[w])
           answered == [x \in Window |-> IF x # w /\ tab[x].open
                                         THEN Append(rest[x], full) ELSE rest[x]]
           after == Take(doc[w], m)
<1>3. \/ chan' \in {rest, answered} /\ UNCHANGED <<doc, timer>>
      \/ /\ chan' = rest /\ m.type \in {"update", "full-state"}
         /\ doc' = [doc EXCEPT ![w] = after]
         /\ timer' = [timer EXCEPT ![w] = @ \/ doc'[w].has # doc[w].has
                                            \/ doc'[w].del # doc[w].del]
  <2>1. UNCHANGED tab
    BY DEF DeliverDoc
  <2> QED BY DEF DeliverDoc
<1>4. answered \in [Window -> Seq(Message(n))]
      /\ \A x \in Window \ {w} : ~tab[x].open => answered[x] = rest[x]
  <2>1. full \in Message(n)
    BY DEF FullState, TypeInv, Types, Sized, DocOf, Message
  <2> HIDE DEF full, rest
  <2>2. \A x \in Window : Append(rest[x], full) \in Seq(Message(n))
    BY <1>2, <2>1, AppendProperties
  <2> QED BY <1>2, <2>2
<1>5. m.type \in {"update", "full-state"} => after \in DocOf(n)
  BY <1>1, <1>2, MergeType DEF TypeInv, Types, Sized, Message, Take
<1> HIDE DEF m, rest, answered, after
<1>6. /\ doc' \in [Window -> DocOf(n)] /\ timer' \in [Window -> BOOLEAN]
      /\ chan' \in [Window -> Seq(Message(n))]
      /\ \A x \in Window \ {w} : doc'[x] = doc[x] /\ timer'[x] = timer[x]
                                 /\ (~tab[x].open => chan'[x] = chan[x])
  <2>1. CASE chan' \in {rest, answered} /\ UNCHANGED <<doc, timer>>
    BY <2>1, <1>2, <1>4 DEF TypeInv, Types, Sized
  <2>2. CASE /\ chan' = rest /\ m.type \in {"update", "full-state"}
             /\ doc' = [doc EXCEPT ![w] = after]
             /\ timer' = [timer EXCEPT ![w] = @ \/ doc'[w].has # doc[w].has
                                                \/ doc'[w].del # doc[w].del]
    <3>1. doc' \in [Window -> DocOf(n)] /\ \A x \in Window \ {w} : doc'[x] = doc[x]
      BY <2>2, <1>5 DEF TypeInv, Types, Sized
    <3>2. timer' \in [Window -> BOOLEAN] /\ \A x \in Window \ {w} : timer'[x] = timer[x]
      BY <2>2 DEF TypeInv, Types
    <3> QED BY <3>1, <3>2, <2>2, <1>2
  <2> QED BY <1>3, <2>1, <2>2
<1>7. Types'
  BY <1>6 DEF DeliverDoc, TypeInv, Types, Sized
<1>8. ClosedIsGone'
  BY <1>2, <1>6 DEF DeliverDoc, TypeInv, ClosedIsGone
<1> QED BY <1>7, <1>8 DEF TypeInv

LEMMA DeliverEtagType ==
  ASSUME TypeInv, NEW w \in Window, DeliverEtag(w) PROVE TypeInv'
<1>1. /\ Head(etags[w]) \in 0 .. server.ver
      /\ etags' \in [Window -> Seq(0 .. server.ver)]
  BY HeadTailProperties DEF DeliverEtag, TypeInv, Types, Sized
<1>2. saving' \in [Window -> 0 .. server.ver]
  BY DEF DeliverEtag, TypeInv, Types, Sized
<1> QED BY <1>1, <1>2, UpdateTabEtagType DEF DeliverEtag

LEMMA TypeInvInit == Init => TypeInv
<1> SUFFICES ASSUME Init PROVE TypeInv
  OBVIOUS
<1>1. Len(made) = 0 /\ made \in Seq(Piece) /\ server.ver = 1
  BY EmptySeq DEF Init
<1>2. /\ \A w \in Window : doc[w] = NewDoc /\ tab[w] = Closed /\ load[w] = NoLoad
      /\ disk = Closed
  BY DEF Init
<1>3. Sized(0, 1)
  BY Constants DEF Init, Sized, AnswerOf, NoEtag
<1>4. Types
  <2>1. server \in [ver : 1 .. MaxVersion, text : SUBSET Nat]
    BY BoundsAreNatural DEF Init, NoText
  <2>2. opens \in Nat
    BY DEF Init
  <2> QED BY <1>1, <1>3, <2>1, <2>2, BoundsAreNatural DEF Init, Types
<1>5. ClosedIsGone
  BY <1>2 DEF Init, ClosedIsGone
<1> QED BY <1>4, <1>5 DEF TypeInv

LEMMA TypeInvStep == TypeInv /\ [Next]_vars => TypeInv'
<1> SUFFICES ASSUME TypeInv, [Next]_vars PROVE TypeInv'
  OBVIOUS
<1>1. ASSUME NEW w \in Window,
             \/ Open(w) \/ Close(w) \/ Reload(w) \/ FetchAnswered(w)
             \/ Type(w) \/ Clear(w) \/ Snapshot(w) \/ TabsChange(w)
             \/ Save(w) \/ Saved(w) \/ Deliver(w)
      PROVE  TypeInv'
  BY <1>1, OpenType, CloseType, ReloadType, FetchAnsweredType, TypeType, ClearType,
     SnapshotType, TabsChangeType, SaveType, SavedType, DeliverDocType,
     DeliverEtagType DEF Deliver
<1>2. CASE SavedElsewhere
  BY <1>2, SavedElsewhereType
<1>3. CASE UNCHANGED vars
  BY <1>3 DEF vars, TypeInv, Types, Sized, ClosedIsGone
<1> QED BY <1>1, <1>2, <1>3 DEF Next

\* The variables are what they are said to be: a document holds insertions that
\* were made, no tab and no save has a version the server never had, and a window
\* whose tab is closed keeps nothing of it (closeTab, useClosedFileCacheCleanup).
THEOREM TypeCorrect == Spec => []TypeOK
<1>1. TypeInv => TypeOK
  BY DEF TypeInv, Types, Sized, ClosedIsGone, TypeOK, DocOf, TabOf, AnswerOf,
         NoLoad, Loading, Closed
<1> QED BY <1>1, TypeInvInit, TypeInvStep, PTL DEF Spec

-----------------------------------------------------------------------------
(* What documents hold, as long as nobody has emptied one. An insertion of *)
(* a hydration lies beside nothing, a typed one beside all its author had; *)
(* m is what has been made.                                                *)

\* A hydration, which only brings what was there before it.
Hydrated(m, i) == m[i].beside = {} /\ i \notin m[i].text

\* The insertions of at most one hydration, and of what was typed into it or into
\* nothing: with each comes all it lies beside, and one of them beside nothing.
Sound(m, S) ==
  /\ \A i \in S : m[i].beside \subseteq S
  /\ \A i, j \in S : Hydrated(m, i) /\ Hydrated(m, j) => i = j
  /\ S # {} => \E i \in S : m[i].beside = {}

\* Pieces of text are numbered by their insertions, so a copy has no text that
\* is typed later.
GoodInsertion(m, i) ==
  /\ m[i].text # {} /\ m[i].text \subseteq 0 .. i
  /\ m[i].beside \subseteq 1 .. (i - 1) /\ Sound(m, m[i].beside)
  /\ m[i].beside # {} => m[i].text = {i}

GoodText(m, text) == text \subseteq 0 .. Len(m)

\* Only typed insertions wait, for what they lie beside.
GoodDoc(m, d) ==
  /\ Sound(m, d.has) /\ d.del = {}
  /\ \A i \in d.pend : m[i].beside # {}

GoodTab(m, t) == Sound(m, t.snap.has) /\ t.snap.del = {}

GoodAnswer(m, l) == l.state = "data" => GoodText(m, l.text)

GoodMessage(m, x) ==
  /\ x.type = "update" =>
       x.del = {} /\ \E e \in 1 .. Len(m) : x.has = {e} /\ e \in m[e].text
  /\ x.type = "full-state" => x.del = {} /\ Sound(m, x.has)
GoodChannel(m, s) == \A k \in 1 .. Len(s) : GoodMessage(m, s[k])

\* What has been stored in a snapshot is still there.
Kept(d, t) == t.snap.has \subseteq d.has

Contents ==
  /\ \A i \in 1 .. Len(made) : GoodInsertion(made, i)
  /\ GoodText(made, server.text)
  /\ \A w \in Window :
       /\ GoodDoc(made, doc[w]) /\ GoodTab(made, tab[w]) /\ GoodAnswer(made, load[w])
       /\ GoodChannel(made, chan[w])
       /\ Kept(doc[w], tab[w])
  /\ GoodTab(made, disk)

DocsInv == TypeInv /\ (clears = 0 => Contents)

\* More is made.
Grows(m, n) ==
  /\ m \in Seq(Piece) /\ n \in Seq(Piece) /\ Len(m) <= Len(n)
  /\ \A i \in 1 .. Len(m) : n[i] = m[i]

LEMMA SoundGrows ==
  ASSUME NEW m, NEW n, Grows(m, n), NEW S \in SUBSET (1 .. Len(m)), Sound(m, S)
  PROVE  Sound(n, S)
<1>1. \A i \in S : n[i] = m[i]
  BY DEF Grows
<1> QED BY <1>1 DEF Sound, Hydrated

LEMMA GoodGrows ==
  ASSUME NEW m, NEW n, Grows(m, n)
  PROVE  /\ \A i \in 1 .. Len(m) : GoodInsertion(m, i) => GoodInsertion(n, i)
         /\ \A text : GoodText(m, text) => GoodText(n, text)
         /\ \A d \in DocOf(Len(m)) : GoodDoc(m, d) => GoodDoc(n, d)
         /\ \A v : \A t \in TabOf(Len(m), v) : GoodTab(m, t) => GoodTab(n, t)
         /\ \A l : GoodAnswer(m, l) => GoodAnswer(n, l)
         /\ \A x \in Message(Len(m)) : GoodMessage(m, x) => GoodMessage(n, x)
         /\ \A s \in Seq(Message(Len(m))) : GoodChannel(m, s) => GoodChannel(n, s)
<1>1. Len(m) \in Nat /\ Len(n) \in Nat /\ Len(m) <= Len(n)
  BY LenProperties DEF Grows
<1>2. \A i \in 1 .. Len(m) : n[i] = m[i]
  BY DEF Grows
<1>3. ASSUME NEW i \in 1 .. Len(m), GoodInsertion(m, i) PROVE GoodInsertion(n, i)
  <2>1. m[i].beside \subseteq 1 .. Len(m)
    BY <1>1, <1>3 DEF GoodInsertion
  <2>2. Sound(n, m[i].beside)
    BY <1>3, <2>1, SoundGrows DEF GoodInsertion
  <2> QED BY <1>2, <1>3, <2>2 DEF GoodInsertion
<1>4. \A text : GoodText(m, text) => GoodText(n, text)
  BY <1>1 DEF GoodText
<1>5. ASSUME NEW d \in DocOf(Len(m)), GoodDoc(m, d) PROVE GoodDoc(n, d)
  <2>1. d.has \in SUBSET (1 .. Len(m)) /\ d.pend \subseteq 1 .. Len(m)
    BY DEF DocOf
  <2>2. Sound(n, d.has)
    BY <1>5, <2>1, SoundGrows DEF GoodDoc
  <2> QED BY <1>2, <1>5, <2>1, <2>2 DEF GoodDoc
<1>6. ASSUME NEW v, NEW t \in TabOf(Len(m), v), GoodTab(m, t) PROVE GoodTab(n, t)
  <2>1. t.snap.has \in SUBSET (1 .. Len(m))
    BY DEF TabOf, StateOf
  <2> QED BY <1>6, <2>1, SoundGrows DEF GoodTab
<1>7. ASSUME NEW x \in Message(Len(m)), GoodMessage(m, x) PROVE GoodMessage(n, x)
  <2>1. CASE x.type = "full-state"
    <3>1. x.has \in SUBSET (1 .. Len(m))
      BY <2>1 DEF Message
    <3> QED BY <1>7, <2>1, <3>1, SoundGrows DEF GoodMessage
  <2>2. CASE x.type # "full-state"
    BY <1>1, <1>2, <1>7, <2>2 DEF GoodMessage
  <2> QED BY <2>1, <2>2
<1>8. ASSUME NEW s \in Seq(Message(Len(m))), GoodChannel(m, s) PROVE GoodChannel(n, s)
  <2>1. \A k \in 1 .. Len(s) : s[k] \in Message(Len(m))
    BY ElementOfSeq
  <2> QED BY <1>7, <1>8, <2>1 DEF GoodChannel
<1>9. \A l : GoodAnswer(m, l) => GoodAnswer(n, l)
  BY <1>4 DEF GoodAnswer
<1> QED BY <1>3, <1>4, <1>5, <1>6, <1>7, <1>8, <1>9

LEMMA EmptyIsGood ==
  /\ \A m : Sound(m, {}) /\ GoodDoc(m, NewDoc) /\ GoodTab(m, Closed)
  /\ \A m : GoodChannel(m, <<>>)
BY DEF Sound, GoodDoc, NewDoc, GoodTab, Closed, NoSnap, GoodChannel

\* Who has something shows something.
LEMMA TextIsShown ==
  ASSUME NEW d, d.del = {}, \A i \in d.has : made[i].text # {}
  PROVE  /\ Text(d) = {} <=> d.has = {}
         /\ Text(d) = UNION {made[i].text : i \in d.has}
<1>1. d.has \ d.del = d.has
  OBVIOUS
<1>2. Text(d) = UNION {made[i].text : i \in d.has}
  BY <1>1 DEF Text
<1> QED BY <1>2

\* A channel with a message more, or the first one less.
LEMMA ChannelMoves ==
  ASSUME NEW n \in Nat, NEW m, NEW s \in Seq(Message(n)), GoodChannel(m, s)
  PROVE  /\ s # <<>> => GoodMessage(m, Head(s)) /\ GoodChannel(m, Tail(s))
         /\ \A x \in Message(n) : GoodMessage(m, x) => GoodChannel(m, Append(s, x))
         /\ \A x \in Message(n) : s \o <<x>> = Append(s, x)
<1>1. Len(s) \in Nat
  BY LenProperties
<1>2. ASSUME s # <<>> PROVE GoodMessage(m, Head(s)) /\ GoodChannel(m, Tail(s))
  <2>1. Len(s) >= 1 /\ Head(s) = s[1]
    BY <1>1, <1>2, EmptySeq
  <2>2. Len(Tail(s)) = Len(s) - 1 /\ \A i \in 1 .. Len(Tail(s)) : Tail(s)[i] = s[i + 1]
    BY <1>2, HeadTailProperties
  <2> QED BY <1>1, <2>1, <2>2 DEF GoodChannel
<1>3. ASSUME NEW x \in Message(n), GoodMessage(m, x) PROVE GoodChannel(m, Append(s, x))
  <2>1. /\ Len(Append(s, x)) = Len(s) + 1 /\ Append(s, x)[Len(s) + 1] = x
        /\ \A i \in 1 .. Len(s) : Append(s, x)[i] = s[i]
    BY AppendProperties
  <2> QED BY <1>1, <1>3, <2>1 DEF GoodChannel
<1>4. \A x \in Message(n) : s \o <<x>> = Append(s, x)
  BY AppendIsConcat
<1> QED BY <1>2, <1>3, <1>4

LEMMA PostGood ==
  ASSUME Types, NEW m, NEW n \in Nat, Len(made) <= n,
         \A x \in Window : GoodChannel(m, chan[x]),
         NEW w \in Window, NEW x \in Message(n), GoodMessage(m, x)
  PROVE  \A v \in Window : GoodChannel(m, Post(w, <<x>>)[v])
<1>1. Len(made) \in Nat /\ server.ver \in Nat
  BY LenProperties DEF Types
<1>2. chan \in [Window -> Seq(Message(n))]
  <2>1. Sized(n, server.ver)
    BY <1>1, Widen DEF Types
  <2> QED BY <2>1 DEF Sized
<1>3. \A v \in Window : GoodChannel(m, chan[v] \o <<x>>)
  BY <1>2, ChannelMoves
<1> QED BY <1>3 DEF Post

\* A document takes in an update, or a full state when it shows nothing.
LEMMA MergeGood ==
  ASSUME TypeInv, Contents,
         NEW d \in DocOf(Len(made)), GoodDoc(made, d),
         NEW x \in Message(Len(made)), GoodMessage(made, x),
         x.type \in {"update", "full-state"}, x.type = "full-state" => d.has = {}
  PROVE  /\ GoodDoc(made, Merge(d, x))
         /\ d.has \subseteq Merge(d, x).has
         /\ Merge(d, x).has \cup Merge(d, x).pend = d.has \cup d.pend \cup x.has
<1> DEFINE n == Len(made)
           e == [d EXCEPT !.pend = (@ \cup x.has) \ d.has, !.del = @ \cup x.del]
           all == d.has \cup d.pend \cup x.has
           ready == {i \in e.pend : made[i].beside \subseteq all}
           after == Merge(d, x)
<1>1. n \in Nat /\ x.has \subseteq 1 .. n /\ d.has \subseteq 1 .. n /\ d.pend \subseteq 1 .. n
  BY LenProperties DEF TypeInv, Types, DocOf, Message
<1>2. e.has = d.has /\ e.pend = (d.pend \cup x.has) \ d.has /\ e.del = {}
  BY DEF DocOf, GoodDoc, GoodMessage
<1>3. after.has = d.has \cup ready /\ after.pend = e.pend \ ready /\ after.del = {}
  <2>1. after = Integrate(e)
    BY DEF Merge
  <2>2. e.has \cup e.pend = all
    BY <1>2
  <2>3. e \in [has : SUBSET (1 .. n), del : SUBSET (1 .. n), pend : SUBSET (1 .. n)]
    BY <1>1, <1>2 DEF DocOf, GoodDoc, GoodMessage
  <2>4. after = [e EXCEPT !.has = @ \cup ready, !.pend = @ \ ready]
    BY <2>1, <2>2 DEF Integrate
  <2> HIDE DEF e, ready, after
  <2> QED BY <1>2, <2>3, <2>4
<1>4. \A i \in 1 .. n : GoodInsertion(made, i)
  BY DEF Contents
<1>5. \A i \in d.pend : made[i].beside # {}
  BY DEF GoodDoc
\* Whatever comes with an insertion that is taken in is taken in as well.
<1>6. \A i \in ready : made[i].beside \subseteq d.has \cup ready
  <2> SUFFICES ASSUME NEW i \in ready, NEW j \in made[i].beside, j \notin d.has
               PROVE  j \in ready
    OBVIOUS
  <2>1. i \in 1 .. n /\ made[i].beside \subseteq all
    BY <1>1, <1>2
  <2>2. made[j].beside \subseteq made[i].beside
    BY <1>4, <2>1 DEF GoodInsertion, Sound
  <2>3. j \in e.pend
    BY <1>2, <2>1
  <2> QED BY <2>1, <2>2, <2>3
<1>7. ready \subseteq d.pend \cup x.has /\ ready \subseteq 1 .. n
  BY <1>1, <1>2
<1>8. \A i \in e.pend : made[i].beside = {} => i \in ready /\ i \in x.has
  BY <1>2, <1>5
<1>14. after.has \cup after.pend = d.has \cup d.pend \cup x.has
  BY <1>2, <1>3
<1> HIDE DEF e, ready, after, all
<1>9. \A i \in d.has \cup ready : made[i].beside \subseteq d.has \cup ready
  BY <1>6 DEF GoodDoc, Sound
<1>10. ASSUME NEW i \in d.has \cup ready, NEW j \in d.has \cup ready,
              Hydrated(made, i), Hydrated(made, j)
       PROVE  i = j
  <2>1. CASE x.type = "update"
    <3>1. \A k \in x.has : k \in made[k].text
      BY <2>1 DEF GoodMessage
    <3>2. i \in d.has /\ j \in d.has
      BY <1>5, <1>7, <1>10, <3>1 DEF Hydrated
    <3> QED BY <1>10, <3>2 DEF GoodDoc, Sound
  <2>2. CASE x.type = "full-state"
    <3>1. i \in x.has /\ j \in x.has
      BY <1>5, <1>7, <1>10, <2>2 DEF Hydrated
    <3> QED BY <1>10, <2>2, <3>1 DEF GoodMessage, Sound
  <2> QED BY <2>1, <2>2
<1>11. ASSUME d.has \cup ready # {}
       PROVE  \E i \in d.has \cup ready : made[i].beside = {}
  <2>1. CASE d.has # {}
    BY <2>1 DEF GoodDoc, Sound
  <2>2. CASE d.has = {}
    <3>1. PICK i \in ready : TRUE
      BY <1>11, <2>2
    <3>2. CASE made[i].beside = {}
      BY <3>2
    <3>3. CASE made[i].beside # {}
      <4>1. PICK j \in made[i].beside : made[j].beside = {}
        BY <1>4, <1>7, <3>3 DEF GoodInsertion, Sound
      <4> QED BY <1>9, <4>1
    <3> QED BY <3>2, <3>3
  <2> QED BY <2>1, <2>2
<1>12. Sound(made, d.has \cup ready)
  BY <1>9, <1>10, <1>11 DEF Sound
<1>13. \A i \in after.pend : made[i].beside # {}
  BY <1>3, <1>8
<1> QED BY <1>3, <1>12, <1>13, <1>14 DEF GoodDoc, after

\* What is made is left alone, or one insertion is added to it.
LEMMA SameGrows ==
  ASSUME NEW m \in Seq(Piece) PROVE Grows(m, m)
BY LenProperties DEF Grows

LEMMA AppendGrows ==
  ASSUME NEW m \in Seq(Piece), NEW i \in Piece
  PROVE  /\ Grows(m, Append(m, i))
         /\ Len(Append(m, i)) = Len(m) + 1 /\ Append(m, i)[Len(m) + 1] = i
BY AppendProperties, LenProperties DEF Grows

\* The effect of window w fills its document only when it shows nothing.
LEMMA SettleGood ==
  ASSUME TypeInv, Contents, NEW w \in Window,
         NEW d \in DocOf(Len(made)), GoodDoc(made, d),
         NEW t \in TabOf(Len(made), server.ver), GoodTab(made, t),
         NEW l \in AnswerOf(server.ver), GoodAnswer(made, l),
         t.snap.has \subseteq d.has,
         Settle(w, d, t, l), server' = server
  PROVE  Contents'
<1> DEFINE n == Len(made)
           hydrates == t.open /\ NeedsText(d, t, l)
           piece == [beside |-> d.has, text |-> l.text]
           filled == IF hydrates THEN [d EXCEPT !.has = @ \cup {n + 1}] ELSE d
           after == IF t.open THEN HydratedTab(t, l) ELSE t
<1>1. n \in Nat /\ made \in Seq(Piece) /\ server.ver \in Nat
  BY LenProperties DEF TypeInv, Types
<1>2. /\ made' = IF hydrates THEN Append(made, piece) ELSE made
      /\ doc' = [doc EXCEPT ![w] = filled]
      /\ tab' = [tab EXCEPT ![w] = after]
      /\ load' = [load EXCEPT ![w] = l]
      /\ chan' = IF hydrates THEN Post(w, <<FullState(filled)>>) ELSE chan
      /\ disk' = Persist(w, after)
  BY DEF Settle
<1>3. \A i \in 1 .. n : GoodInsertion(made, i)
  BY DEF Contents
<1>4. d.has \subseteq 1 .. n /\ d.pend \subseteq 1 .. n
  BY DEF DocOf
<1>5. d.del = {} /\ (Text(d) = {} <=> d.has = {})
  BY <1>3, <1>4, TextIsShown DEF GoodDoc, GoodInsertion
<1>6. hydrates => d.has = {} /\ l.state = "data" /\ GoodText(made, l.text) /\ l.text # {}
  BY <1>5, Constants DEF NeedsText, GoodAnswer
<1>7. hydrates => piece \in Piece
  BY <1>1, <1>6 DEF GoodText, Piece
<1>8. /\ Grows(made, made') /\ n <= Len(made')
      /\ hydrates => Len(made') = n + 1 /\ made'[n + 1] = piece
  <2>1. CASE hydrates
    <3>1. made' = Append(made, piece) /\ piece \in Piece
      BY <2>1, <1>2, <1>7
    <3> HIDE DEF hydrates, piece
    <3>2. Grows(made, made') /\ Len(made') = n + 1 /\ made'[n + 1] = piece
      BY <3>1, <1>1, AppendGrows
    <3> QED BY <3>2, <1>1
  <2>2. CASE ~hydrates
    BY <2>2, <1>1, <1>2, SameGrows
  <2> QED BY <2>1, <2>2
<1>9. after.open = t.open /\ after.snap = t.snap
  BY <1>1, HydratedTabType
<1>10. /\ hydrates => filled.has = {n + 1}
       /\ ~hydrates => filled = d
       /\ filled.del = {} /\ filled.pend = d.pend /\ d.has \subseteq filled.has
       /\ filled.has \subseteq 1 .. Len(made') /\ Len(made') \in Nat
  <2>1. CASE hydrates
    BY <2>1, <1>1, <1>4, <1>5, <1>6, <1>8 DEF DocOf
  <2>2. CASE ~hydrates
    BY <2>2, <1>1, <1>2, <1>4, <1>5
  <2> QED BY <2>1, <2>2
<1>11. \A i \in 1 .. n : made'[i] = made[i]
  BY <1>8 DEF Grows
<1> HIDE DEF hydrates, filled, after, piece
<1>13. \A i \in 1 .. Len(made') : GoodInsertion(made', i)
  <2>1. \A i \in 1 .. n : GoodInsertion(made', i)
    BY <1>3, <1>8, GoodGrows
  <2>2. hydrates => GoodInsertion(made', n + 1)
    <3> SUFFICES ASSUME hydrates PROVE GoodInsertion(made', n + 1)
      OBVIOUS
    <3>1. made'[n + 1].beside = {} /\ made'[n + 1].text = l.text
      BY <1>6, <1>8 DEF piece
    <3>2. l.text # {} /\ l.text \subseteq 0 .. n + 1
      BY <1>1, <1>6 DEF GoodText
    <3> QED BY <3>1, <3>2, EmptyIsGood DEF GoodInsertion
  <2>3. Len(made') = n \/ (hydrates /\ Len(made') = n + 1)
    BY <1>2, <1>8
  <2> QED BY <1>1, <2>1, <2>2, <2>3
<1>14. GoodDoc(made', filled)
  <2>1. Sound(made', filled.has)
    <3>1. CASE hydrates
      <4>1. made'[n + 1].beside = {}
        BY <3>1, <1>6, <1>8 DEF piece
      <4> QED BY <3>1, <4>1, <1>10 DEF Sound
    <3>2. CASE ~hydrates
      BY <3>2, <1>4, <1>8, <1>10, SoundGrows DEF GoodDoc
    <3> QED BY <3>1, <3>2
  <2>2. \A i \in filled.pend : made'[i].beside # {}
    BY <1>4, <1>10, <1>11 DEF GoodDoc
  <2> QED BY <2>1, <2>2, <1>10 DEF GoodDoc
<1>15. GoodTab(made', after) /\ GoodAnswer(made', l)
  <2>1. GoodTab(made', t) /\ GoodAnswer(made', l)
    BY <1>8, GoodGrows
  <2> QED BY <2>1, <1>9 DEF GoodTab
<1>16. Kept(filled, after)
  BY <1>9, <1>10 DEF Kept
<1>17. \A x \in Window : GoodChannel(made', chan'[x])
  <2>1. \A x \in Window : GoodChannel(made', chan[x])
    BY <1>8, GoodGrows DEF Contents, TypeInv, Types, Sized
  <2>2. CASE hydrates
    <3>1. FullState(filled) \in Message(Len(made'))
      BY <1>10 DEF FullState, Message
    <3>2. GoodMessage(made', FullState(filled))
      BY <1>10, <1>14 DEF FullState, GoodMessage, GoodDoc
    <3> QED BY <1>2, <1>8, <1>10, <2>1, <2>2, <3>1, <3>2, PostGood DEF TypeInv
  <2>3. CASE ~hydrates
    BY <2>1, <2>3, <1>2
  <2> QED BY <2>2, <2>3
<1>18. \A x \in Window \ {w} : /\ GoodDoc(made', doc[x]) /\ GoodTab(made', tab[x])
                               /\ GoodAnswer(made', load[x])
                               /\ Kept(doc[x], tab[x])
  BY <1>8, GoodGrows DEF Contents, TypeInv, Types, Sized
<1>19. \A x \in Window : /\ GoodDoc(made', doc'[x]) /\ GoodTab(made', tab'[x])
                         /\ GoodAnswer(made', load'[x])
                         /\ Kept(doc'[x], tab'[x])
  BY <1>2, <1>14, <1>15, <1>16, <1>18 DEF TypeInv, Types, Sized
<1>20. GoodTab(made', disk')
  <2>1. GoodTab(made', disk)
    BY <1>8, GoodGrows DEF Contents, TypeInv, Types, Sized
  <2> QED BY <2>1, <1>2, <1>15 DEF Persist
<1>21. GoodText(made', server'.text)
  BY <1>8, GoodGrows DEF Contents
<1> QED BY <1>13, <1>17, <1>19, <1>20, <1>21 DEF Contents

-----------------------------------------------------------------------------
(* The steps, while nobody has emptied a document.                         *)

LEMMA OpenGood ==
  ASSUME TypeInv, Contents, NEW w \in Window, Open(w) PROVE Contents'
<1> DEFINE t == [Closed EXCEPT !.open = TRUE]
           request == [type |-> "sync-request"]
<1>1. Len(made) \in Nat
  BY LenProperties DEF TypeInv, Types
<1>2. \A m : GoodTab(m, t)
  BY EmptyIsGood DEF GoodTab, Closed
<1>3. /\ tab' = [tab EXCEPT ![w] = t] /\ doc' = [doc EXCEPT ![w] = NewDoc]
      /\ load' = [load EXCEPT ![w] = Loading] /\ disk' \in {t, disk}
      /\ chan' = Post(w, <<request>>) /\ made' = made /\ server' = server
  BY DEF Open, Persist, TypeInv, Types, Sized
<1>4. \A x \in Window : GoodChannel(made, chan'[x])
  <2>1. request \in Message(Len(made)) /\ GoodMessage(made, request)
    BY DEF Message, GoodMessage
  <2>2. Types /\ \A x \in Window : GoodChannel(made, chan[x])
    BY DEF TypeInv, Contents
  <2> HIDE DEF request
  <2>3. \A x \in Window : GoodChannel(made, Post(w, <<request>>)[x])
    BY <1>1, <2>1, <2>2, PostGood
  <2> QED BY <1>3, <2>3
<1>5. Kept(NewDoc, t) /\ GoodAnswer(made, Loading)
  BY Constants DEF Kept, NewDoc, Closed, NoSnap, GoodAnswer
<1> HIDE DEF t, request
<1>6. \A x \in Window : /\ GoodDoc(made, doc'[x]) /\ GoodTab(made, tab'[x])
                        /\ GoodAnswer(made, load'[x])
                        /\ Kept(doc'[x], tab'[x])
  BY <1>2, <1>3, <1>5, EmptyIsGood DEF Contents, TypeInv, Types, Sized
<1> QED BY <1>2, <1>3, <1>4, <1>6 DEF Contents

LEMMA CloseGood ==
  ASSUME TypeInv, Contents, NEW w \in Window, Close(w) PROVE Contents'
<1>1. /\ tab' = [tab EXCEPT ![w] = Closed] /\ doc' = [doc EXCEPT ![w] = NewDoc]
      /\ load' = [load EXCEPT ![w] = NoLoad] /\ disk' \in {Closed, disk}
      /\ chan' = [chan EXCEPT ![w] = <<>>] /\ made' = made /\ server' = server
  BY DEF Close, Persist
<1>2. Kept(NewDoc, Closed) /\ GoodAnswer(made, NoLoad)
  BY Constants DEF Kept, NewDoc, NoSnap, GoodAnswer
<1>3. \A x \in Window : /\ GoodDoc(made, doc'[x]) /\ GoodTab(made, tab'[x])
                        /\ GoodAnswer(made, load'[x]) /\ GoodChannel(made, chan'[x])
                        /\ Kept(doc'[x], tab'[x])
  BY <1>1, <1>2, EmptyIsGood DEF Contents, TypeInv, Types, Sized
<1> QED BY <1>1, <1>3, EmptyIsGood DEF Contents

LEMMA ReloadGood ==
  ASSUME TypeInv, Contents, NEW w \in Window, Reload(w) PROVE Contents'
<1> DEFINE d == [has |-> disk.snap.has, del |-> disk.snap.del, pend |-> {}]
           l == IF disk.open THEN Loading ELSE NoLoad
           request == [type |-> "sync-request"]
           quiet == [chan EXCEPT ![w] = <<>>]
<1>1. /\ tab' = [tab EXCEPT ![w] = disk] /\ doc' = [doc EXCEPT ![w] = d]
      /\ load' = [load EXCEPT ![w] = l] /\ disk' = disk
      /\ made' = made /\ server' = server
  BY DEF Reload
<1>2. GoodDoc(made, d) /\ Kept(d, disk) /\ GoodAnswer(made, l)
  <2>1. l.state # "data"
    BY Constants
  <2> QED BY <2>1 DEF Contents, GoodTab, GoodDoc, Kept, GoodAnswer
<1>3. \A x \in Window : GoodChannel(made, chan'[x])
  <2>1. /\ quiet \in [Window -> Seq(Message(Len(made)))]
        /\ \A x \in Window : GoodChannel(made, quiet[x])
    BY EmptyIsGood DEF Contents, TypeInv, Types, Sized
  <2>2. request \in Message(Len(made)) /\ GoodMessage(made, request)
    BY DEF Message, GoodMessage
  <2>3. \A x \in Window : chan'[x] \in {quiet[x], Append(quiet[x], request)}
    BY DEF Reload, TypeInv, Types, Sized
  <2>4. Len(made) \in Nat
    BY LenProperties DEF TypeInv, Types
  <2> HIDE DEF quiet, request
  <2>5. \A x \in Window : GoodChannel(made, Append(quiet[x], request))
    BY <2>1, <2>2, <2>4, ChannelMoves
  <2> QED BY <2>1, <2>3, <2>5
<1> HIDE DEF d, l
<1>4. \A x \in Window : /\ GoodDoc(made, doc'[x]) /\ GoodTab(made, tab'[x])
                        /\ GoodAnswer(made, load'[x])
                        /\ Kept(doc'[x], tab'[x])
  BY <1>1, <1>2 DEF Contents, TypeInv, Types, Sized
<1> QED BY <1>1, <1>3, <1>4 DEF Contents

LEMMA FetchAnsweredGood ==
  ASSUME TypeInv, Contents, NEW w \in Window, FetchAnswered(w) PROVE Contents'
<1> DEFINE l == [state |-> "data", ver |-> server.ver, text |-> server.text]
<1>1. l \in AnswerOf(server.ver) /\ GoodAnswer(made, l)
  BY DEF TypeInv, Types, AnswerOf, Contents, GoodAnswer
<1>2. Settle(w, doc[w], tab[w], l) /\ server' = server
  BY DEF FetchAnswered
<1> HIDE DEF l
<1>3. /\ doc[w] \in DocOf(Len(made)) /\ tab[w] \in TabOf(Len(made), server.ver)
      /\ GoodDoc(made, doc[w]) /\ GoodTab(made, tab[w])
      /\ tab[w].snap.has \subseteq doc[w].has
  BY DEF TypeInv, Types, Sized, Contents, Kept
<1> QED BY <1>1, <1>2, <1>3, SettleGood

LEMMA TypeGood ==
  ASSUME TypeInv, Contents, NEW w \in Window, Type(w) PROVE Contents'
<1> DEFINE n == Len(made)  e == n + 1
           piece == [beside |-> doc[w].has, text |-> {e}]
           m == [type |-> "update", has |-> {e}, del |-> {}]
           d == [doc[w] EXCEPT !.has = @ \cup {e}]
<1>1. n \in Nat /\ e \in Nat /\ made \in Seq(Piece)
  BY LenProperties DEF TypeInv, Types
<1>2. /\ made' = Append(made, piece) /\ doc' = [doc EXCEPT ![w] = d]
      /\ chan' = Post(w, <<m>>)
      /\ UNCHANGED <<server, tab, load, disk>>
  BY DEF Type, TypeInv, Types, Sized
<1>3. /\ doc[w].has \subseteq 1 .. n /\ doc[w].pend \subseteq 1 .. n
      /\ GoodDoc(made, doc[w]) /\ doc[w] \in DocOf(n)
  BY DEF Contents, TypeInv, Types, Sized, DocOf
<1>4. piece \in Piece
  BY <1>1, <1>3 DEF Piece
<1>5. d.has = doc[w].has \cup {e} /\ d.del = {} /\ d.pend = doc[w].pend
  BY <1>3 DEF DocOf, GoodDoc
<1>6. piece.beside = doc[w].has /\ piece.text = {e}
  OBVIOUS
<1> HIDE DEF piece, d
<1>7. Grows(made, made') /\ Len(made') = e /\ made'[e] = piece
  BY <1>1, <1>2, <1>4, AppendGrows
<1>8. \A i \in 1 .. n : made'[i] = made[i]
  BY <1>7 DEF Grows
<1>9. Sound(made', doc[w].has)
  BY <1>3, <1>7, SoundGrows DEF GoodDoc
<1>10. \A i \in 1 .. Len(made') : GoodInsertion(made', i)
  <2>1. \A i \in 1 .. n : GoodInsertion(made', i)
    BY <1>7, GoodGrows DEF Contents
  <2>2. GoodInsertion(made', e)
    BY <1>1, <1>3, <1>6, <1>7, <1>9 DEF GoodInsertion
  <2> QED BY <1>1, <1>7, <2>1, <2>2
<1>11. GoodDoc(made', d)
  <2>1. Sound(made', doc[w].has \cup {e})
    BY <1>3, <1>6, <1>7, <1>9 DEF Sound, Hydrated
  <2>2. \A i \in doc[w].pend : made'[i].beside # {}
    BY <1>3, <1>8 DEF GoodDoc
  <2> QED BY <1>5, <2>1, <2>2 DEF GoodDoc
<1>12. \A x \in Window : GoodChannel(made', chan'[x])
  <2>1. \A x \in Window : GoodChannel(made', chan[x])
    BY <1>7, GoodGrows DEF Contents, TypeInv, Types, Sized
  <2>2. m \in Message(e) /\ GoodMessage(made', m)
    BY <1>1, <1>3, <1>6, <1>7 DEF Message, GoodMessage
  <2>3. Types /\ n <= e
    BY <1>1 DEF TypeInv
  <2> HIDE DEF m, e
  <2>4. \A x \in Window : GoodChannel(made', Post(w, <<m>>)[x])
    BY <1>1, <2>1, <2>2, <2>3, PostGood
  <2> QED BY <1>2, <2>4
<1>13. \A x \in Window : /\ GoodDoc(made', doc[x]) /\ GoodTab(made', tab[x])
                         /\ GoodAnswer(made', load[x])
  BY <1>7, GoodGrows DEF Contents, TypeInv, Types, Sized
<1>14. \A x \in Window : Kept(doc'[x], tab[x])
  BY <1>2, <1>5 DEF Contents, Kept, TypeInv, Types, Sized
<1>15. \A x \in Window : GoodDoc(made', doc'[x])
  BY <1>2, <1>11, <1>13 DEF TypeInv, Types, Sized
<1>16. GoodTab(made', disk) /\ GoodText(made', server.text)
  BY <1>7, GoodGrows DEF Contents, TypeInv, Types, Sized
<1> QED BY <1>2, <1>10, <1>12, <1>13, <1>14, <1>15, <1>16 DEF Contents

LEMMA SnapshotGood ==
  ASSUME TypeInv, Contents, NEW w \in Window, Snapshot(w) PROVE Contents'
<1> DEFINE t == [tab[w] EXCEPT
                   !.snap = [has |-> doc[w].has, del |-> doc[w].del],
                   !.dirty = @ \/ (tab[w].etag # NoEtag
                                     /\ Text(doc[w]) # Text(tab[w].snap))]
<1>1. /\ doc[w] \in DocOf(Len(made)) /\ tab[w] \in TabOf(Len(made), server.ver)
      /\ load[w] \in AnswerOf(server.ver)
      /\ GoodDoc(made, doc[w]) /\ GoodAnswer(made, load[w])
  BY DEF TypeInv, Types, Sized, Contents
<1>2. t \in TabOf(Len(made), server.ver) /\ t.snap = [has |-> doc[w].has, del |-> doc[w].del]
  <2>1. [has |-> doc[w].has, del |-> doc[w].del] \in StateOf(Len(made))
    BY <1>1 DEF DocOf, StateOf
  <2> QED BY <1>1, <2>1 DEF TabOf
<1>3. Settle(w, doc[w], t, load[w]) /\ server' = server
  BY DEF Snapshot
<1> HIDE DEF t
<1>4. GoodTab(made, t) /\ t.snap.has \subseteq doc[w].has
  BY <1>1, <1>2 DEF GoodTab, GoodDoc
<1> QED BY <1>1, <1>2, <1>3, <1>4, SettleGood

LEMMA SaveGood ==
  ASSUME TypeInv, Contents, NEW w \in Window, Save(w) PROVE Contents'
<1>1. /\ server'.text = Text(doc[w])
      /\ UNCHANGED <<made, doc, tab, load, chan, disk>>
  BY DEF Save
<1>2. doc[w].has \subseteq 1 .. Len(made) /\ Len(made) \in Nat
  BY LenProperties DEF TypeInv, Types, Sized, DocOf
<1>3. \A i \in 1 .. Len(made) : made[i].text \subseteq 0 .. Len(made)
  BY <1>2 DEF Contents, GoodInsertion
<1>4. GoodText(made, server'.text)
  BY <1>1, <1>2, <1>3 DEF GoodText, Text
<1> QED BY <1>1, <1>4 DEF Contents

LEMMA UpdateTabEtagGood ==
  ASSUME TypeInv, Contents, NEW w \in Window, NEW etag \in 0 .. server.ver,
         UpdateTabEtag(w, etag), server' = server
  PROVE  Contents'
<1> DEFINE t == [tab[w] EXCEPT !.etag = etag, !.dirty = FALSE]
<1>1. CASE tab[w].open
  <2>1. /\ doc[w] \in DocOf(Len(made)) /\ load[w] \in AnswerOf(server.ver)
        /\ GoodDoc(made, doc[w]) /\ GoodAnswer(made, load[w])
    BY DEF TypeInv, Types, Sized, Contents
  <2>2. t \in TabOf(Len(made), server.ver) /\ t.snap = tab[w].snap
    BY DEF TypeInv, Types, Sized, TabOf
  <2>3. GoodTab(made, t) /\ t.snap.has \subseteq doc[w].has
    BY <2>2 DEF Contents, GoodTab, Kept
  <2>4. Settle(w, doc[w], t, load[w])
    BY <1>1 DEF UpdateTabEtag
  <2> HIDE DEF t
  <2> QED BY <2>1, <2>2, <2>3, <2>4, SettleGood
<1>2. CASE ~tab[w].open
  BY <1>2 DEF UpdateTabEtag, Contents
<1> QED BY <1>1, <1>2

LEMMA SavedElsewhereGood ==
  ASSUME TypeInv, Contents, SavedElsewhere PROVE Contents'
<1> DEFINE n == Len(made)  piece == [beside |-> {}, text |-> {n + 1}]
<1>1. n \in Nat /\ made \in Seq(Piece)
  BY LenProperties DEF TypeInv, Types
<1>2. /\ made' = Append(made, piece) /\ server'.text = server.text \cup {n + 1}
      /\ UNCHANGED <<doc, tab, load, chan, disk>>
  BY DEF SavedElsewhere
<1>3. piece \in Piece /\ piece.beside = {} /\ piece.text = {n + 1}
  BY <1>1 DEF Piece
<1> HIDE DEF piece
<1>4. Grows(made, made') /\ Len(made') = n + 1 /\ made'[n + 1] = piece
  BY <1>1, <1>2, <1>3, AppendGrows
<1>5. \A i \in 1 .. Len(made') : GoodInsertion(made', i)
  <2>1. \A i \in 1 .. n : GoodInsertion(made', i)
    BY <1>4, GoodGrows DEF Contents
  <2>2. GoodInsertion(made', n + 1)
    <3>1. made'[n + 1].beside = {} /\ made'[n + 1].text = {n + 1}
      BY <1>3, <1>4
    <3>2. n + 1 \in 0 .. n + 1
      BY <1>1
    <3> QED BY <3>1, <3>2, EmptyIsGood DEF GoodInsertion
  <2> QED BY <1>1, <1>4, <2>1, <2>2
<1>6. GoodText(made', server'.text)
  BY <1>1, <1>2, <1>4 DEF Contents, GoodText
<1>7. /\ \A x \in Window : /\ GoodDoc(made', doc[x]) /\ GoodTab(made', tab[x])
                           /\ GoodAnswer(made', load[x]) /\ GoodChannel(made', chan[x])
                           /\ Kept(doc[x], tab[x])
      /\ GoodTab(made', disk)
  BY <1>4, GoodGrows DEF Contents, TypeInv, Types, Sized
<1> QED BY <1>2, <1>5, <1>6, <1>7 DEF Contents

LEMMA DeliverDocGood ==
  ASSUME TypeInv, Contents, NEW w \in Window, DeliverDoc(w) PROVE Contents'
<1> DEFINE n == Len(made)  m == Head(chan[w])
           rest == [chan EXCEPT ![w] = Tail(@)]
           full == FullState(doc[w])
           after == Take(doc[w], m)
<1>1. n \in Nat
  BY LenProperties DEF TypeInv, Types
<1>2. /\ m \in Message(n) /\ chan[w] # <<>> /\ chan[w] \in Seq(Message(n))
      /\ rest \in [Window -> Seq(Message(n))]
  BY HeadTailProperties DEF DeliverDoc, TypeInv, Types, Sized
<1>3. /\ UNCHANGED <<server, made, tab, load, disk>>
      /\ \/ UNCHANGED doc
         \/ /\ m.type = "update" \/ (m.type = "full-state" /\ AcceptsFullState(doc[w]))
            /\ doc' = [doc EXCEPT ![w] = after]
      /\ \A x \in Window : chan'[x] \in {rest[x], Append(rest[x], full)}
  BY <1>2 DEF DeliverDoc
<1>4. GoodMessage(made, m) /\ \A x \in Window : GoodChannel(made, rest[x])
  <2>1. GoodMessage(made, m) /\ GoodChannel(made, Tail(chan[w]))
    BY <1>1, <1>2, ChannelMoves DEF Contents
  <2> QED BY <2>1 DEF Contents, TypeInv, Types, Sized
<1>5. doc[w] \in DocOf(n) /\ GoodDoc(made, doc[w])
  BY DEF TypeInv, Types, Sized, Contents
<1>6. full \in Message(n) /\ GoodMessage(made, full)
  BY <1>5 DEF FullState, DocOf, Message, GoodMessage, GoodDoc
<1>7. AcceptsFullState(doc[w]) => doc[w].has = {}
  <2>1. \A i \in doc[w].has : made[i].text # {}
    BY <1>5 DEF Contents, GoodInsertion, DocOf
  <2> QED BY <1>5, <2>1, TextIsShown DEF AcceptsFullState, NoText, GoodDoc
<1>8. m.type = "update" \/ (m.type = "full-state" /\ AcceptsFullState(doc[w]))
        => GoodDoc(made, after) /\ doc[w].has \subseteq after.has
  BY <1>2, <1>4, <1>5, <1>7, MergeGood DEF Take
<1> HIDE DEF m, rest, full, after
<1>9. \A x \in Window : GoodChannel(made, chan'[x])
  <2>1. \A x \in Window : GoodChannel(made, Append(rest[x], full))
    BY <1>1, <1>2, <1>4, <1>6, ChannelMoves
  <2> QED BY <1>3, <1>4, <2>1
<1>10. \A x \in Window : /\ GoodDoc(made, doc'[x])
                         /\ Kept(doc'[x], tab[x])
  BY <1>3, <1>8 DEF Contents, Kept, TypeInv, Types, Sized
<1> QED BY <1>3, <1>9, <1>10 DEF Contents

LEMMA DocsInvInit == Init => DocsInv
<1> SUFFICES ASSUME Init PROVE DocsInv
  OBVIOUS
<1>1. TypeInv
  BY TypeInvInit
<1>2. Len(made) = 0 /\ server.text \in {{}, {0}}
  BY EmptySeq DEF Init, NoText
<1>3. \A w \in Window : doc[w] = NewDoc /\ tab[w] = Closed /\ load[w] = NoLoad
                        /\ chan[w] = <<>>
  BY DEF Init
<1>4. disk = Closed
  BY DEF Init
<1>5. GoodAnswer(made, NoLoad) /\ Kept(NewDoc, Closed) /\ GoodText(made, server.text)
  BY <1>2, Constants DEF GoodAnswer, Kept, GoodText, NewDoc, NoSnap
<1>6. Contents
  BY <1>2, <1>3, <1>4, <1>5, EmptyIsGood DEF Contents
<1> QED BY <1>1, <1>6 DEF DocsInv

LEMMA ContentsStep ==
  ASSUME TypeInv, Contents, [Next]_vars, clears' = 0 PROVE Contents'
<1>1. ASSUME NEW w \in Window, Clear(w) PROVE FALSE
  BY <1>1 DEF Clear, TypeInv, Types
<1>2. ASSUME NEW w \in Window, Saved(w) PROVE Contents'
  <2>1. saving[w] \in 0 .. server.ver
    BY DEF TypeInv, Types, Sized
  <2> QED BY <1>2, <2>1, UpdateTabEtagGood DEF Saved
<1>3. ASSUME NEW w \in Window, DeliverEtag(w) PROVE Contents'
  <2>1. Head(etags[w]) \in 0 .. server.ver
    BY <1>3, HeadTailProperties DEF DeliverEtag, TypeInv, Types, Sized
  <2> QED BY <1>3, <2>1, UpdateTabEtagGood DEF DeliverEtag
<1>4. ASSUME NEW w \in Window,
             \/ Open(w) \/ Close(w) \/ Reload(w) \/ FetchAnswered(w)
             \/ Type(w) \/ Snapshot(w) \/ Save(w) \/ DeliverDoc(w)
      PROVE  Contents'
  BY <1>4, OpenGood, CloseGood, ReloadGood, FetchAnsweredGood, TypeGood,
     SnapshotGood, SaveGood, DeliverDocGood
<1>5. ASSUME NEW w \in Window, TabsChange(w) PROVE Contents'
  BY <1>5 DEF TabsChange, Contents
<1>6. CASE SavedElsewhere
  BY <1>6, SavedElsewhereGood
<1>7. CASE UNCHANGED vars
  BY <1>7 DEF vars, Contents
<1> QED BY <1>1, <1>2, <1>3, <1>4, <1>5, <1>6, <1>7 DEF Next, Deliver

LEMMA DocsInvStep == DocsInv /\ [Next]_vars => DocsInv'
<1> SUFFICES ASSUME DocsInv, [Next]_vars, clears' = 0 PROVE Contents'
  BY TypeInvStep DEF DocsInv
<1>1. clears = 0
  <2>1. clears \in Nat
    BY DEF DocsInv, TypeInv, Types
  <2>2. clears' \in {clears, clears + 1}
    BY DEF Next, Open, Close, Reload, FetchAnswered, Type, Clear, Snapshot, TabsChange,
           Save, Saved, Deliver, DeliverDoc, DeliverEtag, SavedElsewhere, vars
  <2> QED BY <2>1, <2>2
<1> QED BY <1>1, ContentsStep DEF DocsInv

\* A document that came from the server before anything was typed into it shows no
\* piece of text twice: what its hydration copied is older than what was typed
\* into the copy, and two copies never come together (hydrateFileTab, the
\* full-state exchange of the document channels).
THEOREM NothingDoubled == Spec => []NeverDoubled
<1>1. DocsInv => NeverDoubled
  <2> SUFFICES ASSUME DocsInv, clears = 0, NEW w \in Window,
                      \A i \in doc[w].has : ~FromNothing(i),
                      NEW i \in doc[w].has, NEW j \in doc[w].has, i # j
               PROVE  made[i].text \cap made[j].text = {}
    BY DEF NeverDoubled, NothingTwice
  <2>1. /\ Contents /\ Sound(made, doc[w].has)
        /\ \A k \in doc[w].has : made[k].beside = {} => Hydrated(made, k)
    BY DEF DocsInv, Contents, GoodDoc, FromNothing, Hydrated
  <2>2. i \in 1 .. Len(made) /\ j \in 1 .. Len(made)
    BY DEF DocsInv, TypeInv, Types, Sized, DocOf
  <2>3. GoodInsertion(made, i) /\ GoodInsertion(made, j)
    BY <2>1, <2>2 DEF Contents
  <2>4. ASSUME NEW k \in doc[w].has, NEW l \in doc[w].has,
               k \in 1 .. Len(made), l \in 1 .. Len(made),
               GoodInsertion(made, k), GoodInsertion(made, l),
               made[k].beside = {}, made[l].beside # {}
        PROVE  made[k].text \cap made[l].text = {}
    <3>1. PICK r \in made[l].beside : made[r].beside = {}
      BY <2>4 DEF GoodInsertion, Sound
    <3>2. r = k
      BY <2>1, <2>4, <3>1 DEF Sound
    <3>3. k \in 1 .. (l - 1)
      BY <2>4, <3>1, <3>2 DEF GoodInsertion
    <3>4. l \notin 0 .. k
      BY <3>3, <2>4
    <3> QED BY <2>4, <3>4 DEF GoodInsertion
  <2>5. CASE made[i].beside = {} /\ made[j].beside = {}
    BY <2>1, <2>5 DEF Sound
  <2>6. CASE made[i].beside # {} /\ made[j].beside # {}
    BY <2>3, <2>6 DEF GoodInsertion
  <2>7. CASE made[i].beside = {} /\ made[j].beside # {}
    BY <2>2, <2>3, <2>4, <2>7
  <2>8. CASE made[i].beside # {} /\ made[j].beside = {}
    BY <2>2, <2>3, <2>4, <2>8
  <2> QED BY <2>5, <2>6, <2>7, <2>8
<1> QED BY <1>1, DocsInvInit, DocsInvStep, PTL DEF Spec

-----------------------------------------------------------------------------
(* Windows that stay together.                                             *)

UpdatesIn(s) == {m \in ToSet(s) : m.type = "update"}
ComingIn(s) == UNION {m.has : m \in UpdatesIn(s)}

\* All window w has or is about to get: what its document becomes depends on
\* nothing else.
Carries(w) == doc[w].has \cup doc[w].pend \cup ComingIn(chan[w])

SettledDoc(m, T) ==
  [has |-> {i \in T : m[i].beside \subseteq T}, del |-> {},
   pend |-> {i \in T : ~(m[i].beside \subseteq T)}]

LEMMA ComingMoves ==
  ASSUME NEW n \in Nat, NEW s \in Seq(Message(n))
  PROVE  /\ \A x \in Message(n) :
              ComingIn(Append(s, x))
                = ComingIn(s) \cup (IF x.type = "update" THEN x.has ELSE {})
         /\ s # <<>> =>
              ComingIn(s) = (IF Head(s).type = "update" THEN Head(s).has ELSE {})
                              \cup ComingIn(Tail(s))
<1>1. \A t : ToSet(t) = {t[i] : i \in DOMAIN t}
  BY DEF ToSet
<1>2. Len(s) \in Nat /\ DOMAIN s = 1 .. Len(s)
  BY LenProperties
<1>3. ASSUME NEW x \in Message(n)
      PROVE  ComingIn(Append(s, x))
               = ComingIn(s) \cup (IF x.type = "update" THEN x.has ELSE {})
  <2> DEFINE t == Append(s, x)
  <2>1. /\ t \in Seq(Message(n)) /\ Len(t) = Len(s) + 1 /\ t[Len(s) + 1] = x
        /\ \A i \in 1 .. Len(s) : t[i] = s[i]
    BY AppendProperties
  <2>2. DOMAIN t = 1 .. Len(s) + 1
    BY <2>1, LenProperties
  <2> HIDE DEF t
  <2>3. ToSet(t) = ToSet(s) \cup {x}
    BY <1>1, <1>2, <2>1, <2>2
  <2>4. UpdatesIn(t) = UpdatesIn(s) \cup (IF x.type = "update" THEN {x} ELSE {})
    BY <2>3 DEF UpdatesIn
  <2>5. ComingIn(t) = ComingIn(s) \cup (IF x.type = "update" THEN x.has ELSE {})
    BY <2>4 DEF ComingIn
  <2> QED BY <2>5 DEF t
<1>4. ASSUME s # <<>>
      PROVE  ComingIn(s) = (IF Head(s).type = "update" THEN Head(s).has ELSE {})
                             \cup ComingIn(Tail(s))
  <2> DEFINE t == Tail(s)
  <2>1. /\ Len(s) >= 1 /\ Head(s) = s[1]
        /\ t \in Seq(Message(n)) /\ Len(t) = Len(s) - 1
        /\ \A i \in 1 .. Len(t) : t[i] = s[i + 1]
    BY <1>2, <1>4, EmptySeq, HeadTailProperties
  <2>2. DOMAIN t = 1 .. Len(s) - 1
    BY <2>1, LenProperties
  <2> HIDE DEF t
  <2>3. ToSet(s) = {Head(s)} \cup ToSet(t)
    <3>1. \A i \in 1 .. Len(s) : i = 1 \/ (i - 1 \in 1 .. Len(s) - 1 /\ s[i] = t[i - 1])
      BY <1>2, <2>1
    <3>2. \A i \in 1 .. Len(s) - 1 : i + 1 \in 1 .. Len(s) /\ t[i] = s[i + 1]
      BY <1>2, <2>1
    <3>3. ASSUME NEW x \in ToSet(s) PROVE x \in {Head(s)} \cup ToSet(t)
      <4>1. PICK i \in 1 .. Len(s) : x = s[i]
        BY <1>1, <1>2
      <4>2. CASE i = 1
        BY <2>1, <4>1, <4>2
      <4>3. CASE i # 1
        <5>1. i - 1 \in DOMAIN t /\ x = t[i - 1]
          BY <2>2, <3>1, <4>1, <4>3
        <5>2. t[i - 1] \in {t[k] : k \in DOMAIN t}
          BY <5>1
        <5>3. ToSet(t) = {t[k] : k \in DOMAIN t}
          BY <1>1
        <5> QED BY <5>1, <5>2, <5>3
      <4> QED BY <4>2, <4>3
    <3>4. ASSUME NEW x \in ToSet(t) PROVE x \in ToSet(s)
      <4>1. PICK i \in DOMAIN t : x = t[i]
        BY <1>1
      <4>2. i + 1 \in DOMAIN s /\ x = s[i + 1]
        BY <1>2, <2>2, <3>2, <4>1
      <4> QED BY <1>1, <4>2
    <3>5. Head(s) \in ToSet(s)
      BY <1>1, <1>2, <2>1
    <3> QED BY <3>3, <3>4, <3>5
  <2>4. UpdatesIn(s) = (IF Head(s).type = "update" THEN {Head(s)} ELSE {}) \cup UpdatesIn(t)
    BY <2>3 DEF UpdatesIn
  <2>5. ComingIn(s) = (IF Head(s).type = "update" THEN Head(s).has ELSE {}) \cup ComingIn(t)
    BY <2>4 DEF ComingIn
  <2> QED BY <2>5 DEF t
<1> QED BY <1>3, <1>4

\* With what is under way taken in, a document is what it carries.
DrainsToCarried ==
  TypeInv /\ Contents =>
    \A w \in Window : Drained(w) = SettledDoc(made, Carries(w))

LEMMA DrainedIs == DrainsToCarried
<1> SUFFICES ASSUME TypeInv, Contents, NEW w \in Window
             PROVE  Drained(w) = SettledDoc(made, Carries(w))
  BY DEF DrainsToCarried
<1> DEFINE n == Len(made)
           d == doc[w]
           has == UNION {m.has : m \in Updates(w)}
           del == UNION {m.del : m \in Updates(w)}
           e == [d EXCEPT !.pend = (@ \cup has) \ d.has, !.del = @ \cup del]
           T == Carries(w)
<1>1. d \in DocOf(n) /\ GoodDoc(made, d) /\ chan[w] \in Seq(Message(n))
  BY DEF TypeInv, Types, Sized, Contents
<1>2. Updates(w) = UpdatesIn(chan[w])
  BY DEF Updates, UpdatesIn
<1>3. \A m \in Updates(w) : m.del = {} /\ m.has \subseteq 1 .. n
  <2>1. \A k \in 1 .. Len(chan[w]) : chan[w][k] \in Message(n)
    BY <1>1, ElementOfSeq
  <2>2. ASSUME NEW m \in Updates(w) PROVE m.del = {} /\ m.has \subseteq 1 .. n
    <3>1. PICK k \in 1 .. Len(chan[w]) : m = chan[w][k]
      BY <1>1, LenProperties DEF Updates, ToSet
    <3>2. GoodMessage(made, m) /\ m \in Message(n) /\ m.type = "update"
      BY <2>1, <3>1 DEF Contents, GoodChannel, Updates
    <3> QED BY <3>2 DEF GoodMessage, Message
  <2> QED BY <2>2
<1>4. del = {} /\ has \subseteq 1 .. n /\ has = ComingIn(chan[w])
  BY <1>2, <1>3 DEF ComingIn
<1>5. T = d.has \cup d.pend \cup has
  BY <1>4 DEF Carries
<1> HIDE DEF has, del, T
<1>6. /\ e \in [has : SUBSET (1 .. n), del : SUBSET (1 .. n), pend : SUBSET (1 .. n)]
      /\ e.has = d.has /\ e.pend = (d.pend \cup has) \ d.has /\ e.del = {}
  BY <1>1, <1>4 DEF DocOf, GoodDoc
<1>7. Drained(w) = Integrate(e)
  BY DEF Drained, Merge, has, del
<1> HIDE DEF e
<1>8. e.has \cup e.pend = T
  BY <1>5, <1>6
<1> DEFINE ready == {i \in e.pend : made[i].beside \subseteq T}
<1>9. Drained(w) = [e EXCEPT !.has = @ \cup ready, !.pend = @ \ ready]
  BY <1>7, <1>8 DEF Integrate
<1>10. d.has \cup ready = {i \in T : made[i].beside \subseteq T}
  <2>1. \A i \in d.has : made[i].beside \subseteq T
    BY <1>1, <1>5 DEF GoodDoc, Sound
  <2> QED BY <2>1, <1>5, <1>6
<1>11. e.pend \ ready = {i \in T : ~(made[i].beside \subseteq T)}
  <2>1. \A i \in d.has : made[i].beside \subseteq T
    BY <1>1, <1>5 DEF GoodDoc, Sound
  <2> QED BY <2>1, <1>5, <1>6
<1> HIDE DEF ready
<1>12. Drained(w) = [has |-> d.has \cup ready, del |-> {}, pend |-> e.pend \ ready]
  <2> DEFINE after == Drained(w)
  <2>1. /\ after \in [has : SUBSET (1 .. n), del : SUBSET (1 .. n), pend : SUBSET (1 .. n)]
        /\ after.has = d.has \cup ready /\ after.del = {} /\ after.pend = e.pend \ ready
    <3>1. ready \subseteq 1 .. n
      BY <1>6 DEF ready
    <3> HIDE DEF d, n
    <3> QED BY <1>6, <1>9, <3>1
  <2> HIDE DEF after
  <2>2. after = [has |-> after.has, del |-> after.del, pend |-> after.pend]
    BY <2>1
  <2> QED BY <2>1, <2>2 DEF after
<1>13. Drained(w) = SettledDoc(made, T)
  <2> HIDE DEF d, n
  <2> QED BY <1>10, <1>11, <1>12 DEF SettledDoc
<1> QED BY <1>13 DEF T

LEMMA SettledApart ==
  ASSUME NEW m, NEW S, NEW T, SettledDoc(m, S) = SettledDoc(m, T)
  PROVE  S = T
<1>1. \A U : SettledDoc(m, U).has \cup SettledDoc(m, U).pend = U
  BY DEF SettledDoc
<1> QED BY <1>1

\* A window that keeps its document over a step.
Stays(x) ==
  /\ tab[x].open /\ doc[x].has # {}
  /\ tab'[x].open /\ load'[x] # Loading

\* A step by which window x has, or is about to get, E as well.
Gets(x, E) ==
  /\ doc'[x].has # {}
  /\ doc'[x].has \cup doc'[x].pend \cup ComingIn(chan'[x]) = Carries(x) \cup E

\* Requests and full states bring nothing to a document that shows something.
LEMMA QuietGets ==
  ASSUME TypeInv, NEW x \in Window, doc[x].has # {},
         doc'[x].has = doc[x].has, doc'[x].pend = doc[x].pend,
         NEW n \in Nat, Len(made) <= n, NEW y \in Message(n), y.type # "update",
         chan'[x] \in {chan[x], Append(chan[x], y)}
  PROVE  Gets(x, {})
<1>1. Len(made) \in Nat /\ server.ver \in Nat
  BY LenProperties DEF TypeInv, Types
<1>2. chan[x] \in Seq(Message(n))
  <2>1. Sized(n, server.ver)
    BY <1>1, Widen DEF TypeInv, Types
  <2> QED BY <2>1 DEF Sized
<1>3. ComingIn(Append(chan[x], y)) = ComingIn(chan[x])
  <2>1. ComingIn(Append(chan[x], y)) = ComingIn(chan[x]) \cup {}
    BY <1>2, ComingMoves
  <2> QED BY <2>1
<1>4. ComingIn(chan'[x]) = ComingIn(chan[x])
  BY <1>3
<1> QED BY <1>4 DEF Gets, Carries

\* The effect of a window fills no document that shows something.
LEMMA SettleGets ==
  ASSUME TypeInv, Contents, NEW w \in Window,
         NEW t \in TabOf(Len(made), server.ver), NEW l,
         Settle(w, doc[w], t, l), NEW x \in Window, doc[x].has # {}
  PROVE  Gets(x, {})
<1> DEFINE n == Len(made)
           hydrates == t.open /\ NeedsText(doc[w], t, l)
           filled == IF hydrates THEN [doc[w] EXCEPT !.has = @ \cup {n + 1}] ELSE doc[w]
           full == FullState(filled)
<1>1. n \in Nat /\ doc[w] \in DocOf(n) /\ chan[x] \in Seq(Message(n))
  BY LenProperties DEF TypeInv, Types, Sized
<1>2. /\ doc' = [doc EXCEPT ![w] = filled]
      /\ chan' = IF hydrates THEN Post(w, <<full>>) ELSE chan
  BY DEF Settle
<1>3. hydrates => doc[w].has = {}
  <2>1. GoodDoc(made, doc[w]) /\ \A i \in doc[w].has : made[i].text # {}
    BY <1>1 DEF Contents, GoodInsertion, DocOf
  <2>2. Text(doc[w]) = {} <=> doc[w].has = {}
    BY <2>1, TextIsShown DEF GoodDoc
  <2> QED BY <2>2 DEF NeedsText, NoText
<1>4. full \in Message(n + 1) /\ full.type # "update" /\ n + 1 \in Nat
  BY <1>1 DEF FullState, Message, DocOf
<1>5. doc'[x] = doc[x]
  BY <1>2, <1>3 DEF TypeInv, Types, Sized
<1> HIDE DEF full, hydrates, filled
<1>6. chan'[x] \in {chan[x], Append(chan[x], full)}
  <2>1. chan[x] \o <<full>> = Append(chan[x], full)
    <3>1. chan[x] \in Seq(Message(n + 1))
      <4>1. server.ver \in Nat /\ n <= n + 1
        BY <1>1 DEF TypeInv, Types
      <4>2. Sized(n, server.ver)
        BY DEF TypeInv, Types
      <4> HIDE DEF n
      <4>3. Sized(n + 1, server.ver)
        BY <1>1, <1>4, <4>1, <4>2, Widen
      <4> QED BY <4>3 DEF Sized
    <3> QED BY <1>4, <3>1, AppendIsConcat
  <2> QED BY <1>2, <2>1 DEF Post
<1> QED BY <1>1, <1>4, <1>5, <1>6, QuietGets

LEMMA OpenGets ==
  ASSUME TypeInv, NEW w \in Window, Open(w), NEW x \in Window, Stays(x)
  PROVE  Gets(x, {})
<1> DEFINE request == [type |-> "sync-request"]
<1>1. x # w /\ doc[x].has # {}
  BY DEF Open, Stays
<1>2. doc'[x] = doc[x]
  BY <1>1 DEF Open, TypeInv, Types, Sized
<1>3. Len(made) \in Nat /\ request \in Message(Len(made)) /\ request.type # "update"
  BY LenProperties DEF TypeInv, Types, Message
<1>4. chan' = Post(w, <<request>>) /\ chan[x] \in Seq(Message(Len(made)))
  BY DEF Open, TypeInv, Types, Sized
<1> HIDE DEF request
<1>5. chan[x] \o <<request>> = Append(chan[x], request)
  BY <1>3, <1>4, AppendIsConcat
<1>6. chan'[x] \in {chan[x], Append(chan[x], request)}
  BY <1>4, <1>5 DEF Post
<1> QED BY <1>1, <1>2, <1>3, <1>6, QuietGets

LEMMA CloseGets ==
  ASSUME TypeInv, NEW w \in Window, Close(w), NEW x \in Window, Stays(x)
  PROVE  Gets(x, {})
<1>1. x # w
  BY DEF Close, Stays, Closed, TypeInv, Types, Sized
<1>2. doc'[x] = doc[x] /\ chan'[x] = chan[x]
  BY <1>1 DEF Close, TypeInv, Types, Sized
<1> QED BY <1>2 DEF Gets, Carries, Stays

LEMMA ReloadGets ==
  ASSUME TypeInv, NEW w \in Window, Reload(w), NEW x \in Window, Stays(x)
  PROVE  Gets(x, {})
<1> DEFINE request == [type |-> "sync-request"]
<1>1. x # w
  BY DEF Reload, Stays, TypeInv, Types, Sized
<1>2. doc'[x] = doc[x] /\ chan'[x] \in {chan[x], Append(chan[x], request)}
  BY <1>1 DEF Reload, TypeInv, Types, Sized
<1>3. Len(made) \in Nat /\ request \in Message(Len(made)) /\ request.type # "update"
  BY LenProperties DEF TypeInv, Types, Message
<1> QED BY <1>2, <1>3, QuietGets DEF Stays

\* What is typed is in the document of its author and under way to all others.
LEMMA TypeGets ==
  ASSUME TypeInv, NEW w \in Window, Type(w), NEW x \in Window, Stays(x)
  PROVE  Gets(x, {Len(made) + 1})
<1> DEFINE e == Len(made) + 1
           m == [type |-> "update", has |-> {e}, del |-> {}]
<1>1. Len(made) \in Nat /\ e \in Nat /\ server.ver \in Nat
  BY LenProperties DEF TypeInv, Types
<1>2. doc' = [doc EXCEPT ![w].has = @ \cup {e}] /\ chan' = Post(w, <<m>>)
  BY DEF Type
<1>3. doc[x] \in DocOf(Len(made)) /\ chan \in [Window -> Seq(Message(e))]
  <2>1. Sized(e, server.ver)
    BY <1>1, Widen DEF TypeInv, Types
  <2> QED BY <2>1 DEF TypeInv, Types, Sized
<1>4. m \in Message(e) /\ m.type = "update" /\ m.has = {e}
  BY <1>1 DEF Message
<1>5. CASE x = w
  <2>1. chan'[x] = chan[x]
    BY <1>2, <1>3, <1>5 DEF Post
  <2>2. doc'[x].has = doc[x].has \cup {e} /\ doc'[x].pend = doc[x].pend
    BY <1>2, <1>3, <1>5 DEF DocOf, TypeInv, Types, Sized
  <2> QED BY <2>1, <2>2 DEF Gets, Carries
<1>6. CASE x # w
  <2>1. chan[x] \o <<m>> = Append(chan[x], m)
    BY <1>3, <1>4, AppendIsConcat
  <2>2. chan'[x] = Append(chan[x], m)
    BY <1>2, <1>6, <2>1 DEF Post, Stays
  <2> HIDE DEF m
  <2>3. ComingIn(Append(chan[x], m)) = ComingIn(chan[x]) \cup {e}
    BY <1>1, <1>3, <1>4, ComingMoves
  <2>4. doc'[x] = doc[x]
    BY <1>2, <1>6 DEF TypeInv, Types, Sized
  <2> QED BY <2>2, <2>3, <2>4 DEF Gets, Carries, Stays
<1> QED BY <1>5, <1>6

\* An update moves from the channel into the document, a full state is refused
\* by one that shows something.
LEMMA DeliverDocGets ==
  ASSUME TypeInv, Contents, NEW w \in Window, DeliverDoc(w),
         NEW x \in Window, Stays(x)
  PROVE  Gets(x, {})
<1> DEFINE n == Len(made)  m == Head(chan[w])
           rest == [chan EXCEPT ![w] = Tail(@)]
           full == FullState(doc[w])
           after == Take(doc[w], m)
<1>1. /\ n \in Nat /\ chan \in [Window -> Seq(Message(n))] /\ chan[w] # <<>>
      /\ doc \in [Window -> DocOf(n)] /\ doc[w] \in DocOf(n)
  BY LenProperties DEF DeliverDoc, TypeInv, Types, Sized
<1>2. m \in Message(n) /\ GoodMessage(made, m) /\ GoodDoc(made, doc[w])
  <2>1. m \in Message(n)
    BY <1>1, HeadTailProperties
  <2>2. GoodChannel(made, chan[w]) /\ GoodDoc(made, doc[w])
    BY DEF Contents
  <2> QED BY <1>1, <2>1, <2>2, ChannelMoves
<1>3. Tail(chan[w]) \in Seq(Message(n))
  BY <1>1, HeadTailProperties
<1>4. ComingIn(chan[w]) = (IF m.type = "update" THEN m.has ELSE {}) \cup ComingIn(rest[w])
  BY <1>1, ComingMoves
<1>5. full \in Message(n) /\ full.type # "update"
  BY <1>1 DEF FullState, Message, DocOf
<1>6. AcceptsFullState(doc[w]) => doc[w].has = {}
  <2>1. \A i \in doc[w].has : made[i].text # {}
    BY <1>1 DEF Contents, GoodInsertion, DocOf
  <2> QED BY <1>2, <2>1, TextIsShown DEF AcceptsFullState, NoText, GoodDoc
<1>7. CASE x = w
  <2>1. chan'[w] = rest[w]
    BY <1>1 DEF DeliverDoc
  <2>2. CASE m.type # "update"
    <3>1. doc'[w] = doc[w]
      BY <1>6, <1>7, <2>2 DEF DeliverDoc, Stays
    <3> QED BY <1>4, <1>7, <2>1, <2>2, <3>1 DEF Gets, Carries, Stays
  <2>3. CASE m.type = "update"
    <3>1. doc'[w] = Merge(doc[w], m)
      BY <1>1, <2>3 DEF DeliverDoc, Take
    <3> HIDE DEF m, rest
    <3>2. /\ doc[w].has \subseteq Merge(doc[w], m).has
          /\ Merge(doc[w], m).has \cup Merge(doc[w], m).pend
               = doc[w].has \cup doc[w].pend \cup m.has
      BY <1>1, <1>2, <2>3, MergeGood
    <3> QED BY <1>4, <1>7, <2>1, <2>3, <3>1, <3>2 DEF Gets, Carries, Stays
  <2> QED BY <2>2, <2>3
<1>8. CASE x # w
  <2>1. doc'[x] = doc[x]
    BY <1>1, <1>8 DEF DeliverDoc
  <2>2. chan'[x] \in {chan[x], Append(chan[x], full)}
    BY <1>1, <1>8 DEF DeliverDoc
  <2>3. /\ doc[x].has # {} /\ n <= n
        /\ doc'[x].has = doc[x].has /\ doc'[x].pend = doc[x].pend
    BY <1>1, <2>1 DEF Stays
  <2> HIDE DEF full
  <2> QED BY <1>1, <1>5, <2>2, <2>3, QuietGets
<1> QED BY <1>7, <1>8

LEMMA SettlingGets ==
  ASSUME TypeInv, Contents, NEW w \in Window,
         FetchAnswered(w) \/ Snapshot(w) \/ Saved(w) \/ DeliverEtag(w),
         NEW x \in Window, Stays(x)
  PROVE  Gets(x, {})
<1>1. /\ tab[w] \in TabOf(Len(made), server.ver) /\ doc[w] \in DocOf(Len(made))
      /\ doc[x].has # {}
  BY DEF TypeInv, Types, Sized, Stays
<1>2. CASE FetchAnswered(w)
  BY <1>1, <1>2, SettleGets DEF FetchAnswered
<1>3. CASE Snapshot(w)
  <2> DEFINE t == [tab[w] EXCEPT
                     !.snap = [has |-> doc[w].has, del |-> doc[w].del],
                     !.dirty = @ \/ (tab[w].etag # NoEtag
                                       /\ Text(doc[w]) # Text(tab[w].snap))]
  <2>1. t \in TabOf(Len(made), server.ver)
    BY <1>1 DEF TabOf, StateOf, DocOf
  <2>2. Settle(w, doc[w], t, load[w])
    BY <1>3 DEF Snapshot
  <2> HIDE DEF t
  <2> QED BY <1>1, <2>1, <2>2, SettleGets
<1>4. ASSUME NEW etag \in 0 .. server.ver, UpdateTabEtag(w, etag) PROVE Gets(x, {})
  <2>1. CASE tab[w].open
    <3> DEFINE t == [tab[w] EXCEPT !.etag = etag, !.dirty = FALSE]
    <3>1. t \in TabOf(Len(made), server.ver)
      BY <1>1 DEF TabOf
    <3>2. Settle(w, doc[w], t, load[w])
      BY <1>4, <2>1 DEF UpdateTabEtag
    <3> HIDE DEF t
    <3> QED BY <1>1, <3>1, <3>2, SettleGets
  <2>2. CASE ~tab[w].open
    BY <1>1, <1>4, <2>2 DEF UpdateTabEtag, Gets, Carries
  <2> QED BY <2>1, <2>2
<1>5. CASE Saved(w)
  <2>1. saving[w] \in 0 .. server.ver
    BY DEF TypeInv, Types, Sized
  <2> QED BY <1>4, <1>5, <2>1 DEF Saved
<1>6. CASE DeliverEtag(w)
  <2>1. Head(etags[w]) \in 0 .. server.ver
    BY <1>6, HeadTailProperties DEF DeliverEtag, TypeInv, Types, Sized
  <2> QED BY <1>4, <1>6, <2>1 DEF DeliverEtag
<1> QED BY <1>2, <1>3, <1>5, <1>6

\* Whatever a step brings, it brings to every window that keeps its document.
LEMMA AllGetTheSame ==
  ASSUME TypeInv, Contents, [Next]_vars, clears' = 0
  PROVE  \E E : \A x \in Window : Stays(x) => Gets(x, E)
<1>1. ASSUME NEW w \in Window, Type(w)
      PROVE  \E E : \A x \in Window : Stays(x) => Gets(x, E)
  <2>1. \A x \in Window : Stays(x) => Gets(x, {Len(made) + 1})
    BY <1>1, TypeGets
  <2> QED BY <2>1
<1>2. ASSUME ~\E w \in Window : Type(w), NEW x \in Window, Stays(x)
      PROVE  Gets(x, {})
  <2>1. ASSUME NEW w \in Window, Clear(w) PROVE FALSE
    BY <2>1 DEF Clear, TypeInv, Types
  <2>2. ASSUME NEW w \in Window, Open(w) \/ Close(w) \/ Reload(w) \/ DeliverDoc(w)
        PROVE  Gets(x, {})
    BY <1>2, <2>2, OpenGets, CloseGets, ReloadGets, DeliverDocGets
  <2>3. ASSUME NEW w \in Window,
               FetchAnswered(w) \/ Snapshot(w) \/ Saved(w) \/ DeliverEtag(w)
        PROVE  Gets(x, {})
    BY <1>2, <2>3, SettlingGets
  <2>4. CASE \/ \E w \in Window : TabsChange(w) \/ Save(w)
             \/ SavedElsewhere \/ UNCHANGED vars
    <3>1. doc' = doc /\ chan' = chan
      BY <2>4 DEF TabsChange, Save, SavedElsewhere, vars
    <3> QED BY <1>2, <3>1 DEF Gets, Carries, Stays
  <2> QED BY <1>2, <2>1, <2>2, <2>3, <2>4 DEF Next, Deliver
<1> QED BY <1>1, <1>2

\* Windows that are about to have the same document stay together: what one of
\* them types goes to all the others, a full state is refused by a document that
\* shows something, and the server's answer fills only one that shows nothing
\* (useFileContent, the messages of documentChannel).
THEOREM NeverParted == Spec => StayTogether
<1> DEFINE Stay == \A v, w \in Window :
                     /\ v # w /\ clears' = 0 /\ tab'[v].open /\ tab'[w].open
                     /\ load'[v] # Loading /\ load'[w] # Loading
                     /\ Together(v, w)
                     => Together(v, w)'
<1>1. DocsInv /\ DocsInv' /\ [Next]_vars /\ DrainsToCarried /\ DrainsToCarried' => Stay
  <2> SUFFICES ASSUME DocsInv, DocsInv', [Next]_vars, clears' = 0,
                      DrainsToCarried, DrainsToCarried',
                      NEW v \in Window, NEW w \in Window, Together(v, w),
                      tab'[v].open, tab'[w].open,
                      load'[v] # Loading, load'[w] # Loading
               PROVE  Together(v, w)'
    OBVIOUS
  <2>1. TypeInv /\ Contents /\ TypeInv' /\ Contents'
    <3>1. clears \in Nat
      BY DEF DocsInv, TypeInv, Types
    <3>2. clears' \in {clears, clears + 1}
      BY DEF Next, Open, Close, Reload, FetchAnswered, Type, Clear, Snapshot, TabsChange,
             Save, Saved, Deliver, DeliverDoc, DeliverEtag, SavedElsewhere, vars
    <3>3. clears = 0
      BY <3>1, <3>2
    <3> QED BY <3>3 DEF DocsInv
  <2>2. /\ Drained(v) = SettledDoc(made, Carries(v))
        /\ Drained(w) = SettledDoc(made, Carries(w))
        /\ Drained(v)' = SettledDoc(made', Carries(v)')
        /\ Drained(w)' = SettledDoc(made', Carries(w)')
    BY <2>1 DEF DrainsToCarried
  <2>3. Carries(v) = Carries(w)
    <3>1. SettledDoc(made, Carries(v)) = SettledDoc(made, Carries(w))
      BY <2>2 DEF Together
    <3> QED BY <3>1, SettledApart
  <2>4. PICK E : \A x \in Window : Stays(x) => Gets(x, E)
    BY <2>1, AllGetTheSame
  <2>5. Gets(v, E) /\ Gets(w, E)
    BY <2>4 DEF Stays, Together
  <2>6. Carries(v)' = Carries(w)'
    BY <2>3, <2>5 DEF Gets, Carries
  <2>7. Drained(v)' = Drained(w)'
    BY <2>2, <2>6
  <2> QED BY <2>5, <2>7 DEF Together, Gets
<1> HIDE DEF Stay
<1>2. Spec => [][Stay]_vars
  BY <1>1, DrainedIs, DocsInvInit, DocsInvStep, PTL DEF Spec
<1> QED BY <1>2 DEF StayTogether, Stay
=============================================================================
