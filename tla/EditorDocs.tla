----------------------------- MODULE EditorDocs -----------------------------
(***************************************************************************)
(* One workspace file open in the windows of a browser: the shared Y.js    *)
(* document of each window, its hydration from the server, the channel     *)
(* that keeps the documents together, saves guarded by an etag, the        *)
(* debounced snapshot, and the stored state the primary window writes and  *)
(* a reload reads.                                                         *)
(*                                                                         *)
(* A document is a set of insertions, some of them deleted. An insertion   *)
(* lies beside what its author had, and is pending where that is missing.  *)
(* An edit inserts one piece of text; a hydration inserts a copy of all    *)
(* the server has. A text is the set of pieces shown.                      *)
(***************************************************************************)
EXTENDS Naturals, Sequences, SequencesExt

CONSTANTS Window,
          MaxItems,    \* bound: insertions in a behaviour
          MaxVersion,  \* bound: versions of the file on the server
          MaxClears,   \* bound: times a document is emptied by a user
          MaxOpens     \* bound: openings, reloads, one for a file that was just
                       \* created, and twice the emptyings

ASSUME BoundsAreNatural ==
  /\ MaxItems \in Nat /\ MaxVersion \in Nat \ {0}
  /\ MaxClears \in Nat /\ MaxOpens \in Nat

VARIABLES server,      \* [ver, text]: the etag and the content
          made,        \* the insertions: what each lies beside, and its text
          doc,         \* per window: [has, del, pend]
          tab,         \* per window: [open, etag, dirty, snap]
          load,        \* per window: the answer of the content query
          timer,       \* per window: a snapshot is scheduled
          saving,      \* per window: the etag the answer to its save brings
          chan,        \* per window: document messages to it, in order
          etags,       \* per window: store messages to it, in order
          primary, disk, clears, opens

vars == <<server, made, doc, tab, load, timer, saving, chan, etags,
          primary, disk, clears, opens>>

NoEtag == 0
NoText == {}
NoSnap == [has |-> {}, del |-> {}]
NewDoc == [has |-> {}, del |-> {}, pend |-> {}]
Closed == [open |-> FALSE, etag |-> NoEtag, dirty |-> FALSE, snap |-> NoSnap]
NoLoad == [state |-> "none"]
Loading == [state |-> "loading"]

Disturbances == opens + 2 * clears

Others(w) == Window \ {w}
Text(d) == UNION {made[i].text : i \in d.has \ d.del}

\* A file that was just created is empty (CreateItemDialog).
Init ==
  /\ server \in [ver : {1}, text : {NoText, {0}}]
  /\ made = <<>>
  /\ doc = [w \in Window |-> NewDoc]
  /\ tab = [w \in Window |-> Closed]
  /\ load = [w \in Window |-> NoLoad]
  /\ timer = [w \in Window |-> FALSE]
  /\ saving = [w \in Window |-> NoEtag]
  /\ chan = [w \in Window |-> <<>>]
  /\ etags = [w \in Window |-> <<>>]
  /\ primary \in Window /\ disk = Closed /\ clears = 0
  /\ opens = IF server.text = NoText THEN 1 ELSE 0

\* As if only the primary window posted.
PostFromPrimary(w, msgs) ==
  [v \in Window |-> IF v # w /\ tab[v].open /\ w = primary
                    THEN chan[v] \o msgs ELSE chan[v]]
\* A message reaches the windows that have the document open.
Post(w, msgs) ==
  [v \in Window |-> IF v # w /\ tab[v].open THEN chan[v] \o msgs ELSE chan[v]]

\* createStoreSync: a changed etag goes to every other window.
PostEtag(w, old, new) ==
  IF new = NoEtag \/ new = old THEN etags
  ELSE [v \in Window |-> IF v = w THEN etags[v] ELSE Append(etags[v], new)]

\* makeRoleGatedStorage: every change of the store of the primary is stored.
Persist(w, t) == IF w = primary THEN t ELSE disk

\* The Y.js rule: an insertion is taken in as soon as all it lies beside is
\* here. What it lies beside is all that its author had, so this comes with
\* what it lies beside in turn, and one look at what is here or pending is
\* enough.
Integrate(d) ==
  LET ready == {i \in d.pend : made[i].beside \subseteq d.has \cup d.pend} IN
  [d EXCEPT !.has = @ \cup ready, !.pend = @ \ ready]

Merge(d, state) ==
  Integrate([d EXCEPT !.pend = (@ \cup state.has) \ d.has, !.del = @ \cup state.del])

FullState(d) == [type |-> "full-state", has |-> d.has, del |-> d.del]

(***************************************************************************)
(* Hydration. The effect of useFileContent runs whenever its tab or the    *)
(* answer changes.                                                         *)
(***************************************************************************)

\* hydrateFileTab fills a document that shows nothing, unless the tab has
\* unsaved changes in a snapshot.
NeedsText(d, t, l) ==
  /\ l.state = "data" /\ ~(t.dirty /\ t.snap # NoSnap)
  /\ Text(d) = NoText /\ l.text # NoText

HydratedTab(t, l) ==
  IF l.state = "data" /\ ~(t.dirty /\ t.snap # NoSnap) /\ t.etag = NoEtag
  THEN [t EXCEPT !.etag = l.ver, !.dirty = FALSE]
  ELSE t

\* The end of every step of window w that leaves it with document d, tab t
\* and answer l: the effect, the messages and the stored state.
Settle(w, d, t, l) ==
  LET hydrates == t.open /\ NeedsText(d, t, l)
      copy == Len(made) + 1
      filled == IF hydrates THEN [d EXCEPT !.has = @ \cup {copy}] ELSE d
      after == IF t.open THEN HydratedTab(t, l) ELSE t
  IN /\ hydrates => Len(made) < MaxItems
     /\ made' = IF hydrates THEN Append(made, [beside |-> d.has, text |-> l.text])
                ELSE made
     /\ doc' = [doc EXCEPT ![w] = filled]
     /\ tab' = [tab EXCEPT ![w] = after]
     /\ load' = [load EXCEPT ![w] = l]
     /\ chan' = IF hydrates THEN Post(w, <<FullState(filled)>>) ELSE chan
     /\ disk' = Persist(w, after)

(***************************************************************************)
(* Opening, closing, reloading.                                            *)
(***************************************************************************)

Open(w) ==
  /\ ~tab[w].open /\ Disturbances < MaxOpens /\ opens' = opens + 1
  /\ tab' = [tab EXCEPT ![w] = [Closed EXCEPT !.open = TRUE]]
  /\ doc' = [doc EXCEPT ![w] = NewDoc]
  /\ load' = [load EXCEPT ![w] = Loading]
  /\ chan' = Post(w, <<[type |-> "sync-request"]>>)
  /\ disk' = Persist(w, tab'[w])
  /\ UNCHANGED <<server, made, timer, saving, etags, primary, clears>>

\* The document and its channel go with the tab, and the cached answer with
\* them (useClosedFileCacheCleanup).
Close(w) ==
  /\ tab[w].open
  /\ tab' = [tab EXCEPT ![w] = Closed]
  /\ doc' = [doc EXCEPT ![w] = NewDoc]
  /\ load' = [load EXCEPT ![w] = NoLoad]
  /\ timer' = [timer EXCEPT ![w] = FALSE]
  /\ chan' = [chan EXCEPT ![w] = <<>>]
  /\ disk' = Persist(w, Closed)
  /\ UNCHANGED <<server, made, saving, etags, primary, clears, opens>>

\* A reload takes the stored tab, fills its document from the snapshot and
\* fetches the content again. The lock goes to a window that waits for it
\* (electPrimary), or comes back.
Reload(w) ==
  /\ Disturbances < MaxOpens /\ opens' = opens + 1
  /\ tab' = [tab EXCEPT ![w] = disk]
  /\ doc' = [doc EXCEPT ![w] = [has |-> disk.snap.has, del |-> disk.snap.del,
                                pend |-> {}]]
  /\ load' = [load EXCEPT ![w] = IF disk.open THEN Loading ELSE NoLoad]
  /\ timer' = [timer EXCEPT ![w] = FALSE]
  /\ saving' = [saving EXCEPT ![w] = NoEtag]
  /\ chan' = LET quiet == [chan EXCEPT ![w] = <<>>] IN
             IF disk.open
             THEN [v \in Window |-> IF v # w /\ tab[v].open
                                    THEN Append(quiet[v], [type |-> "sync-request"])
                                    ELSE quiet[v]]
             ELSE quiet
  /\ etags' = [etags EXCEPT ![w] = <<>>]
  /\ primary' \in IF w = primary /\ Others(w) # {} THEN Others(w) ELSE {primary}
  /\ UNCHANGED <<server, made, disk, clears>>

(***************************************************************************)
(* Fetching, editing, saving.                                              *)
(***************************************************************************)

FetchAnswered(w) ==
  /\ load[w] = Loading
  /\ LET l == [state |-> "data", ver |-> server.ver, text |-> server.text] IN
     /\ Settle(w, doc[w], tab[w], l)
     /\ etags' = PostEtag(w, tab[w].etag, tab'[w].etag)
     /\ timer' = IF tab'[w] # tab[w] THEN [timer EXCEPT ![w] = FALSE] ELSE timer
  /\ UNCHANGED <<server, saving, primary, clears, opens>>

\* The editor shows once the content query has answered. A query that fails is
\* one that is not answered.
Editable(w) == tab[w].open /\ load[w].state = "data"

Type(w) ==
  /\ Editable(w) /\ Len(made) < MaxItems
  /\ LET e == Len(made) + 1 IN
     /\ made' = Append(made, [beside |-> doc[w].has, text |-> {e}])
     /\ doc' = [doc EXCEPT ![w].has = @ \cup {e}]
     /\ chan' = Post(w, <<[type |-> "update", has |-> {e}, del |-> {}]>>)
  /\ timer' = [timer EXCEPT ![w] = TRUE]
  /\ UNCHANGED <<server, tab, load, saving, etags, primary, disk, clears, opens>>

\* Select all and delete.
Clear(w) ==
  /\ Editable(w) /\ Text(doc[w]) # NoText
  /\ clears < MaxClears /\ Disturbances + 2 <= MaxOpens
  /\ clears' = clears + 1
  /\ doc' = [doc EXCEPT ![w].del = @ \cup doc[w].has]
  /\ chan' = Post(w, <<[type |-> "update", has |-> {}, del |-> doc[w].has]>>)
  /\ timer' = [timer EXCEPT ![w] = TRUE]
  /\ UNCHANGED <<server, made, tab, load, saving, etags, primary, disk, opens>>

\* The timer of useEditorSnapshotPersistence fires: updateTabContent.
Snapshot(w) ==
  /\ timer[w] /\ tab[w].open
  /\ timer' = [timer EXCEPT ![w] = FALSE]
  /\ LET text == Text(doc[w])
         t == [tab[w] EXCEPT
                 !.snap = [has |-> doc[w].has, del |-> doc[w].del],
                 !.dirty = @ \/ (tab[w].etag # NoEtag /\ text # Text(tab[w].snap))]
     IN /\ Settle(w, doc[w], t, load[w])
        /\ etags' = PostEtag(w, tab[w].etag, tab'[w].etag)
  /\ UNCHANGED <<server, saving, primary, clears, opens>>

\* Any other change of the list of tabs drops the scheduled snapshot: the
\* effect that scheduled it depends on the whole list.
TabsChange(w) ==
  /\ timer[w]
  /\ timer' = [timer EXCEPT ![w] = FALSE]
  /\ UNCHANGED <<server, made, doc, tab, load, saving, chan, etags, primary,
                 disk, clears, opens>>

\* Ctrl+S on a tab with an etag, whether or not its content has been loaded: a
\* restored tab has the stored one. The server takes a save of the version it
\* has and refuses others, which only shows a message. The request is taken
\* where it is sent: whatever comes in between could as well come after it. A
\* window has one save under way.
Save(w) ==
  /\ tab[w].open /\ tab[w].etag = server.ver /\ saving[w] = NoEtag
  /\ server.ver < MaxVersion
  /\ server' = [ver |-> server.ver + 1, text |-> Text(doc[w])]
  /\ saving' = [saving EXCEPT ![w] = server'.ver]
  /\ UNCHANGED <<made, doc, tab, load, timer, chan, etags, primary, disk,
                 clears, opens>>

\* updateTabEtag in window w, with the effects of the changed tab.
UpdateTabEtag(w, etag) ==
  IF tab[w].open
  THEN /\ Settle(w, doc[w], [tab[w] EXCEPT !.etag = etag, !.dirty = FALSE], load[w])
       /\ timer' = [timer EXCEPT ![w] = FALSE]
  ELSE UNCHANGED <<made, doc, tab, load, chan, disk, timer>>

Saved(w) ==
  /\ saving[w] # NoEtag
  /\ saving' = [saving EXCEPT ![w] = NoEtag]
  /\ UpdateTabEtag(w, saving[w])
  /\ etags' = IF tab[w].open THEN PostEtag(w, tab[w].etag, saving[w]) ELSE etags
  /\ UNCHANGED <<server, primary, clears, opens>>

\* Somebody else saves the file.
SavedElsewhere ==
  /\ server.ver < MaxVersion /\ Len(made) < MaxItems
  /\ made' = Append(made, [beside |-> {}, text |-> {Len(made) + 1}])
  /\ server' = [ver |-> server.ver + 1, text |-> server.text \cup {Len(made) + 1}]
  /\ UNCHANGED <<doc, tab, load, timer, saving, chan, etags, primary, disk, clears, opens>>

(***************************************************************************)
(* Messages.                                                               *)
(***************************************************************************)

\* As if a full state were merged into whatever is there.
AcceptsFullStateAlways(d) == TRUE
\* A full state is only taken by a document that shows nothing.
AcceptsFullState(d) == Text(d) = NoText

\* A document after message m.
Take(d, m) == Merge(d, m)

DeliverDoc(w) ==
  /\ chan[w] # <<>>
  /\ LET m == Head(chan[w])
         rest == [chan EXCEPT ![w] = Tail(@)]
     IN \/ /\ m.type = "sync-request"
           /\ chan' = IF doc[w].has = {} THEN rest
                      ELSE [v \in Window |-> IF v # w /\ tab[v].open
                                             THEN Append(rest[v], FullState(doc[w]))
                                             ELSE rest[v]]
           /\ UNCHANGED <<doc, timer>>
        \/ /\ m.type = "full-state" /\ ~AcceptsFullState(doc[w])
           /\ chan' = rest
           /\ UNCHANGED <<doc, timer>>
        \/ /\ m.type = "update" \/ (m.type = "full-state" /\ AcceptsFullState(doc[w]))
           /\ chan' = rest
           /\ doc' = [doc EXCEPT ![w] = Take(@, m)]
           /\ timer' = [timer EXCEPT ![w] = @ \/ doc'[w].has # doc[w].has
                                              \/ doc'[w].del # doc[w].del]
  /\ UNCHANGED <<server, made, tab, load, saving, etags, primary, disk, clears, opens>>

\* handleRemote: the etag is taken as it comes, and not passed on.
DeliverEtag(w) ==
  /\ etags[w] # <<>>
  /\ etags' = [etags EXCEPT ![w] = Tail(@)]
  /\ UpdateTabEtag(w, Head(etags[w]))
  /\ UNCHANGED <<server, saving, primary, clears, opens>>

Deliver(w) == DeliverDoc(w) \/ DeliverEtag(w)

Next ==
  \/ \E w \in Window :
       \/ Open(w) \/ Close(w) \/ Reload(w) \/ FetchAnswered(w)
       \/ Type(w) \/ Clear(w) \/ Snapshot(w) \/ TabsChange(w)
       \/ Save(w) \/ Saved(w) \/ Deliver(w)
  \/ SavedElsewhere

Spec == Init /\ [][Next]_vars

(***************************************************************************)
(* Properties.                                                             *)
(***************************************************************************)

\* A document holds items that were made, a tab no newer etag than the server, and
\* a window whose tab is closed nothing of it.
TypeOK ==
  /\ server.ver \in 1 .. MaxVersion
  /\ Len(made) <= MaxItems
  /\ \A w \in Window :
       /\ doc[w].has \cup doc[w].pend \subseteq DOMAIN made
       /\ tab[w].etag <= server.ver
       /\ load[w].state \in {"none", "loading", "data"}
       /\ saving[w] <= server.ver
       /\ ~tab[w].open => /\ doc[w] = NewDoc /\ load[w] = NoLoad /\ ~timer[w]
                          /\ chan[w] = <<>> /\ ~tab[w].dirty
  /\ primary \in Window

\* An insertion that was typed into a document that had nothing. (A hydration
\* brings older pieces only.)
FromNothing(i) == made[i].beside = {} /\ i \in made[i].text

NothingTwice(d) ==
  \A i, j \in d.has \ d.del : i # j => made[i].text \cap made[j].text = {}

\* No document shows a piece of text twice: the state of a peer, a hydration and
\* updates in any order never add a text to a copy of itself, as long as nobody
\* empties a document and what it has came from the server first.
NeverDoubled ==
  clears = 0 =>
    \A w \in Window :
      (\A i \in doc[w].has : ~FromNothing(i)) => NothingTwice(doc[w])

\* useYDocRegistry, on full states: "prevents merging two independently-initialised
\* docs with the same text (which would double the content ...)". Updates merge
\* them, so this does not hold: what is typed into an empty file lies beside
\* nothing, and a window that has it from the server already takes the update
\* that brings it as well. Likewise an emptied document is filled again from an
\* old answer.
CopiesStayApart == \A w \in Window : NothingTwice(doc[w])

\* The document of w once it has taken the updates under way to it. One that
\* shows something takes no full state.
Updates(w) == {m \in ToSet(chan[w]) : m.type = "update"}
Drained(w) == Merge(doc[w], [has |-> UNION {m.has : m \in Updates(w)},
                             del |-> UNION {m.del : m \in Updates(w)}])
Together(v, w) ==
  /\ tab[v].open /\ tab[w].open
  /\ doc[v].has # {} /\ doc[w].has # {}
  /\ Drained(v) = Drained(w)

\* Two windows that are about to have the same document stay together while both
\* keep it open and nobody empties it: edits, snapshots, saves, answers of the
\* server and messages between them, in any order, never part them.
StayTogether ==
  [][\A v, w \in Window :
       /\ v # w /\ clears' = 0 /\ tab'[v].open /\ tab'[w].open
       /\ load'[v] # Loading /\ load'[w] # Loading
       /\ Together(v, w)
       => Together(v, w)']_vars

\* useFileContent: "The etag gates conflict detection on saves". An accepted
\* save of a document whose content has been loaded contains whatever the
\* version it replaces contained. (One that is saved before may be empty.)
SavesBuildOnSaves ==
  [][\A w \in Window : saving'[w] > saving[w] /\ Editable(w)
       => server.text \subseteq server'.text]_vars
=============================================================================
