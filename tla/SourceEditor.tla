----------------------------- MODULE SourceEditor ------------------------------
(***************************************************************************)
(* The editor of heimdall-qa: one file open in the window (useSource.ts,       *)
(* SourcePane.tsx, JsonEditor.tsx, App.tsx), and the two requests that read    *)
(* and replace it on the server (workspace.py, source.py).  The file has one   *)
(* content path, which exists in several of the open projects.                *)
(*                                                                         *)
(* A text is what the editor holds or the disk has; findings are a function    *)
(* of it and come with it.  Requests run concurrently on the server, and a     *)
(* save is three steps of it: the temporary, the rename, the answer.           *)
(***************************************************************************)
EXTENDS Integers, FiniteSets

CONSTANTS
  Projects,    (* the open projects                                         *)
  Texts,       (* what may be in the file                                   *)
  Saves        (* bound: the saves in flight at once, with their order        *)

Nothing == "nothing"

ASSUME SourceAssumption ==
  /\ Nothing \notin Texts
  /\ Saves \in Nat

VARIABLES
  disk,        (* the file of each project                                  *)
  selected,    (* the project of the selected node                           *)
  pane,        (* editing: the pane is open or closed                        *)
  home,        (* the project it was opened from (observed)                  *)
  load,        (* the pane's GET: none, sent, or its answer on the way        *)
  document,    (* document                                                  *)
  text,        (* text                                                      *)
  saves,       (* the POSTs in flight                                       *)
  known,       (* the pane read its own file, and since then nobody but it    *)
               (* wrote there, and it nowhere else (observed)                *)
  lost         (* what its last save wrote, if the answer was lost (observed) *)

editor   == <<load, document, text>>
observed == <<known, lost>>
vars == <<disk, selected, pane, home, editor, saves, observed>>

-----------------------------------------------------------------------------
(* Values.                                                                  *)

Slots  == 1 .. Saves
Stages == {"none", "sent", "written", "replaced", "failed"}
Save   == [stage : Stages, text : Texts \cup {Nothing}, by : Projects,
           from : Projects, mine : BOOLEAN]
Load   == [stage : {"none", "sent", "answered", "failed"}, text : Texts \cup {Nothing}]

NoLoad   == [stage |-> "none", text |-> Nothing]
Free(k)  == saves[k].stage = "none"
Become(k, stage) == saves' = [saves EXCEPT ![k].stage = stage]

(* saving, of the pane that is open.                                         *)
Saving == \E k \in Slots : ~Free(k) /\ saves[k].mine

(* dirty.                                                                   *)
Dirty == document # Nothing /\ text # document

(* What the editor may be typed into: a document that is editable.            *)
Writable == pane = "open" /\ document # Nothing

Init ==
  /\ disk \in [Projects -> Texts]
  /\ selected \in Projects
  /\ pane = "closed"
  /\ home = selected
  /\ load = NoLoad /\ document = Nothing /\ text = Nothing
  /\ saves = [k \in Slots |-> [stage |-> "none", text |-> Nothing, by |-> selected,
                               from |-> selected, mine |-> FALSE]]
  /\ known = FALSE /\ lost = Nothing

-----------------------------------------------------------------------------
(* Seeded faults.  Each stands for a plausible slip in the operator it is     *)
(* named after; put in its place, it breaks the property named beside it.    *)

(* TypeOK: a read that was refused leaves its load behind.                    *)
LandLoadForgotten ==
  /\ load.stage \in {"answered", "failed"}
  /\ load' = [stage |-> "landed", text |-> load.text]
  /\ document' = load.text
  /\ text' = load.text
  /\ UNCHANGED <<disk, selected, pane, home, saves, observed>>

(* SavedIsOnDisk: what is in the editor when the answer comes is called saved. *)
LandSaveOfTheEditor(k) ==
  /\ saves[k].stage \in {"replaced", "failed"}
  /\ Become(k, "none")
  /\ document' = IF saves[k].mine /\ saves[k].stage = "replaced" THEN text ELSE document
  /\ UNCHANGED <<disk, selected, pane, home, load, text, observed>>

(* SavingEnds: only a save that succeeded gives the button back.              *)
LandSaveOnSuccess(k) ==
  /\ saves[k].stage = "replaced"
  /\ Become(k, "none")
  /\ document' = IF saves[k].mine THEN saves[k].text ELSE document
  /\ UNCHANGED <<disk, selected, pane, home, load, text, observed>>

(* KeystrokesOutliveTheSave: the answer also becomes what is in the editor.    *)
LandSaveResets(k) ==
  /\ saves[k].stage \in {"replaced", "failed"}
  /\ Become(k, "none")
  /\ IF saves[k].mine /\ saves[k].stage = "replaced"
       THEN document' = saves[k].text /\ text' = saves[k].text
       ELSE UNCHANGED <<document, text>>
  /\ UNCHANGED <<disk, selected, pane, home, load, observed>>

-----------------------------------------------------------------------------
(* The window.                                                              *)

(* openSource: a new pane asks for the file of the node that is selected.      *)
Open ==
  /\ pane = "closed"
  /\ pane' = "open"
  /\ home' = selected
  /\ load' = [stage |-> "sent", text |-> Nothing]
  /\ document' = Nothing /\ text' = Nothing
  /\ known' = FALSE /\ lost' = Nothing
  /\ UNCHANGED <<disk, selected, saves>>

(* The close button, and Esc wherever Monaco does not want it: the text goes,   *)
(* and so do the answers that are still on their way.                        *)
Close ==
  /\ pane = "open"
  /\ pane' = "closed"
  /\ load' = NoLoad
  /\ document' = Nothing /\ text' = Nothing
  /\ saves' = [k \in Slots |-> [saves[k] EXCEPT !.mine = FALSE]]
  /\ known' = FALSE /\ lost' = Nothing
  /\ UNCHANGED <<disk, selected, home>>

(* A click on a row of the tree, which stays beside the editor.               *)
SelectProject(p) ==
  /\ selected # p
  /\ selected' = p
  /\ UNCHANGED <<disk, pane, home, editor, saves, observed>>

(* onChange.                                                                *)
Type(t) ==
  /\ Writable
  /\ text # t
  /\ text' = t
  /\ UNCHANGED <<disk, selected, pane, home, load, document, saves, observed>>

(* revert.                                                                  *)
Revert ==
  /\ Writable
  /\ Dirty
  /\ text' = document
  /\ UNCHANGED <<disk, selected, pane, home, load, document, saves, observed>>

(* save, by the button or by its shortcut: what is in the editor now is sent.  *)
PressSave(k) ==
  /\ Writable
  /\ ~Saving
  /\ Free(k) /\ \A j \in 1 .. k - 1 : ~Free(j)
  /\ saves' = [saves EXCEPT ![k] = [stage |-> "sent", text |-> text, by |-> home,
                                    from |-> home, mine |-> TRUE]]
  /\ UNCHANGED <<disk, selected, pane, home, editor, observed>>

(* load: the answer becomes the document and the text; a refusal leaves none.  *)
LandLoad ==
  /\ load.stage \in {"answered", "failed"}
  /\ load' = NoLoad
  /\ document' = load.text
  /\ text' = load.text
  /\ UNCHANGED <<disk, selected, pane, home, saves, observed>>

(* The save's answer becomes the document and leaves the text, which may be     *)
(* ahead of it by now.                                                      *)
LandSave(k) ==
  /\ saves[k].stage \in {"replaced", "failed"}
  /\ Become(k, "none")
  /\ document' = IF saves[k].mine /\ saves[k].stage = "replaced"
                   THEN saves[k].text ELSE document
  /\ UNCHANGED <<disk, selected, pane, home, load, text, observed>>

-----------------------------------------------------------------------------
(* The server.                                                              *)

(* read_source: the file of the project that is selected by now.              *)
ReadSource ==
  /\ load.stage = "sent"
  /\ load' = [stage |-> "answered", text |-> disk[selected]]
  /\ known' = (selected = home)
  /\ UNCHANGED <<disk, selected, pane, home, document, text, saves, lost>>

(* write_source, _write_atomically: the project is looked up and the text goes  *)
(* to a temporary beside the file ...                                       *)
WriteTemporary(k) ==
  /\ saves[k].stage = "sent"
  /\ saves' = [saves EXCEPT ![k].stage = "written", ![k].by = selected]
  /\ UNCHANGED <<disk, selected, pane, home, editor, observed>>

(* ... which then takes its place.                                          *)
Replace(k) ==
  /\ saves[k].stage = "written"
  /\ Become(k, "replaced")
  /\ disk' = [disk EXCEPT ![saves[k].by] = saves[k].text]
  /\ known' = (known /\ (saves[k].mine <=> saves[k].by = home))
  /\ lost' = IF saves[k].mine THEN Nothing ELSE lost
  /\ UNCHANGED <<selected, pane, home, editor>>

(* The request is refused, or the write is interrupted and its temporary is     *)
(* removed.                                                                 *)
Interrupt(k) ==
  /\ saves[k].stage \in {"sent", "written"}
  /\ Become(k, "failed")
  /\ UNCHANGED <<disk, selected, pane, home, editor, observed>>

FailLoad ==
  /\ load.stage = "sent"
  /\ load' = [stage |-> "failed", text |-> Nothing]
  /\ UNCHANGED <<disk, selected, pane, home, document, text, saves, observed>>

(* The answer of a save that was done is lost.                               *)
LoseAnswer(k) ==
  /\ saves[k].stage = "replaced"
  /\ Become(k, "failed")
  /\ lost' = IF saves[k].mine THEN saves[k].text ELSE lost
  /\ UNCHANGED <<disk, selected, pane, home, editor, known>>

-----------------------------------------------------------------------------
ReviewerStep == \/ Open \/ Close \/ Revert
                \/ \E p \in Projects : SelectProject(p)
                \/ \E t \in Texts : Type(t)
                \/ \E k \in Slots : PressSave(k)
SaveStep(k)  == WriteTemporary(k) \/ Replace(k) \/ Interrupt(k) \/ LandSave(k)
LoadStep     == ReadSource \/ FailLoad \/ LandLoad

Next == ReviewerStep \/ LoadStep \/ \E k \in Slots : SaveStep(k) \/ LoseAnswer(k)
Spec == Init /\ [][Next]_vars

(* The server answers or fails every request, and the window takes up what     *)
(* comes back.  The reviewer need not do anything.                           *)
FairSpec == Spec /\ \A k \in Slots : WF_vars(SaveStep(k))

-----------------------------------------------------------------------------
(* Properties.                                                              *)

TypeOK ==
  /\ disk \in [Projects -> Texts]
  /\ selected \in Projects /\ home \in Projects
  /\ pane \in {"open", "closed"}
  /\ load \in Load
  /\ document \in Texts \cup {Nothing} /\ text \in Texts \cup {Nothing}
  /\ saves \in [Slots -> Save]
  /\ known \in BOOLEAN /\ lost \in Texts \cup {Nothing}

(* "what the screen reports is a fact about what exists - not about a copy of   *)
(* it" (source.py:22), and "a process that dies mid-save leaves either the old  *)
(* file or the new one" (_write_atomically): between two saves, and whatever    *)
(* other panes have left under way elsewhere, what the pane calls saved is on   *)
(* the disk, however many saves were interrupted.  If the answer of its last    *)
(* save was lost, what that save was sent with is, to the letter.             *)
SavedIsOnDisk ==
  known /\ document # Nothing /\ ~Saving =>
    disk[home] = IF lost = Nothing THEN document ELSE lost

(* "a difference here can only be a keystroke that landed during the round      *)
(* trip, and discarding it would lose work" (useSource.ts:79): whatever a save  *)
(* comes back with, the text in front of the reviewer stays.                  *)
KeystrokesOutliveTheSave ==
  [][document # Nothing /\ document' # document /\ pane' = pane
     => text' = text]_vars

(* The button that was disabled when a save was sent comes back.              *)
SavingEnds == Saving ~> ~Saving

(* "The project is the selected node's. [...] it is the one the client means,   *)
(* because it opened the file from the node it had selected"                  *)
(* (workspace.py:273): a save replaces the file that was opened.               *)
SaveReachesItsFile ==
  \A k \in Slots : saves[k].stage = "replaced" => saves[k].by = saves[k].from
=============================================================================
