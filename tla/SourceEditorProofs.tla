--------------------------- MODULE SourceEditorProofs ---------------------------
(***************************************************************************)
(* What SourceEditor keeps for every set of projects and texts and however     *)
(* many saves are in flight: it stays well typed, no answer takes a keystroke   *)
(* back, and what the pane calls saved is on the disk.                        *)
(*                                                                         *)
(* SavedIsOnDisk is not inductive.  It rests on the one save a pane may have   *)
(* out (OneSave) and on what its answer will say being on the disk already     *)
(* (ReplacedIsOnDisk).  Saves of panes that were closed may be under way all    *)
(* along: what counts is where they end.                                    *)
(***************************************************************************)
EXTENDS SourceEditor, TLAPS

USE SourceAssumption

-----------------------------------------------------------------------------
(* The inductive invariant.                                                 *)

(* A load that is out has brought no document yet, and a refused one none.      *)
LoadIsEmpty ==
  /\ load.stage # "none" => document = Nothing
  /\ load.stage = "failed" => load.text = Nothing

(* An editor that holds a document holds a text.                             *)
TextFollows == document # Nothing => text # Nothing

(* A save carries a text, and the open pane waits for at most one.             *)
SaveHasText == \A k \in Slots : ~Free(k) => saves[k].text # Nothing
MineIsOpen ==
  \A k \in Slots : ~Free(k) /\ saves[k].mine => pane = "open" /\ document # Nothing
OneSave ==
  \A j, k \in Slots : ~Free(j) /\ saves[j].mine /\ ~Free(k) /\ saves[k].mine => j = k

(* An answer can only be lost to a pane that has read its file.                *)
LostHasDocument == lost # Nothing => document # Nothing

(* What is known of the file.                                               *)
OnTheDisk(t) == disk[home] = t

AnsweredIsOnDisk == known /\ load.stage = "answered" => OnTheDisk(load.text)
ReplacedIsOnDisk ==
  known => \A k \in Slots : saves[k].stage = "replaced" /\ saves[k].mine =>
             OnTheDisk(saves[k].text) /\ lost = Nothing
DocumentIsOnDisk ==
  /\ known /\ document # Nothing
  /\ \A k \in Slots : ~(saves[k].stage = "replaced" /\ saves[k].mine)
  => OnTheDisk(IF lost = Nothing THEN document ELSE lost)

Shape == /\ LoadIsEmpty /\ TextFollows /\ SaveHasText /\ MineIsOpen /\ OneSave
         /\ LostHasDocument
File  == AnsweredIsOnDisk /\ ReplacedIsOnDisk /\ DocumentIsOnDisk

-----------------------------------------------------------------------------
(* The initial states, and type correctness.                                 *)

LEMMA InitHolds == Init => TypeOK /\ Shape /\ File
<1> SUFFICES ASSUME Init PROVE TypeOK /\ Shape /\ File
  OBVIOUS
<1> USE DEF Init
<1>1. TypeOK
  <2>1. saves \in [Slots -> Save]
    BY DEF Save, Stages
  <2> QED
    BY <2>1 DEF TypeOK, NoLoad, Load
<1>2. Shape
  BY DEF Shape, LoadIsEmpty, TextFollows, SaveHasText, MineIsOpen, OneSave,
         LostHasDocument, Free, NoLoad
<1>3. File
  BY DEF File, AnsweredIsOnDisk, ReplacedIsOnDisk, DocumentIsOnDisk
<1> QED
  BY <1>1, <1>2, <1>3

LEMMA StepTyped == TypeOK /\ Shape /\ [Next]_vars => TypeOK'
<1> SUFFICES ASSUME TypeOK, Shape, [Next]_vars PROVE TypeOK'
  OBVIOUS
<1> USE DEF TypeOK, observed
<1>1. CASE Open
  BY <1>1 DEF Open, Load
<1>2. CASE Close
  <2>1. saves' \in [Slots -> Save]
    BY <1>2 DEF Close, Save
  <2> QED
    BY <1>2, <2>1 DEF Close, Load, NoLoad
<1>3. CASE Revert
  BY <1>3 DEF Revert, editor
<1>4. ASSUME NEW p \in Projects, SelectProject(p) PROVE TypeOK'
  BY <1>4 DEF SelectProject, editor
<1>5. ASSUME NEW t \in Texts, Type(t) PROVE TypeOK'
  BY <1>5 DEF Type
<1>6. ASSUME NEW k \in Slots, PressSave(k) PROVE TypeOK'
  <2>1. saves' \in [Slots -> Save]
    BY <1>6 DEF PressSave, Save, Stages
  <2> QED
    BY <1>6, <2>1 DEF PressSave, editor
<1>7. CASE ReadSource
  BY <1>7 DEF ReadSource, Load
<1>8. CASE FailLoad
  BY <1>8 DEF FailLoad, Load
<1>9. CASE LandLoad
  BY <1>9 DEF LandLoad, Load, NoLoad
<1>10. ASSUME NEW k \in Slots, SaveStep(k) \/ LoseAnswer(k) PROVE TypeOK'
  <2>1. ASSUME NEW s \in Stages, Become(k, s) PROVE saves' \in [Slots -> Save]
    BY <2>1 DEF Become, Save
  <2>2. CASE WriteTemporary(k)
    <3>1. saves' \in [Slots -> Save]
      BY <2>2 DEF WriteTemporary, Save, Stages
    <3> QED
      BY <2>2, <3>1 DEF WriteTemporary, editor
  <2>3. CASE Replace(k)
    <3>1. saves' \in [Slots -> Save]
      BY <2>1, <2>3 DEF Replace, Stages
    <3>2. saves[k].text \in Texts /\ saves[k].by \in Projects
      BY <2>3 DEF Replace, Save, Shape, SaveHasText, Free
    <3>3. /\ disk' \in [Projects -> Texts] /\ known' \in BOOLEAN
          /\ lost' \in Texts \cup {Nothing}
      BY <2>3, <3>2 DEF Replace, Save
    <3> QED
      BY <2>3, <3>1, <3>3 DEF Replace, editor
  <2>4. CASE Interrupt(k)
    BY <2>1, <2>4 DEF Interrupt, Stages, editor
  <2>5. CASE LandSave(k)
    <3>1. saves' \in [Slots -> Save]
      BY <2>1, <2>5 DEF LandSave, Stages
    <3> QED
      BY <2>5, <3>1 DEF LandSave, Save
  <2>6. CASE LoseAnswer(k)
    <3>1. saves[k].text \in Texts
      BY <2>6 DEF LoseAnswer, Save, Shape, SaveHasText, Free
    <3>2. lost' \in Texts \cup {Nothing}
      BY <2>6, <3>1 DEF LoseAnswer
    <3> QED
      BY <2>1, <2>6, <3>2 DEF LoseAnswer, Stages, editor
  <2> QED
    BY <1>10, <2>2, <2>3, <2>4, <2>5, <2>6 DEF SaveStep
<1>11. CASE UNCHANGED vars
  BY <1>11 DEF vars, editor
<1> QED
  BY <1>1, <1>2, <1>3, <1>4, <1>5, <1>6, <1>7, <1>8, <1>9, <1>10, <1>11
  DEF Next, ReviewerStep, LoadStep

-----------------------------------------------------------------------------
(* The shape of the editor and of its saves.                                *)

LEMMA StepShape == TypeOK /\ Shape /\ [Next]_vars => Shape'
<1> SUFFICES ASSUME TypeOK, Shape, [Next]_vars PROVE Shape'
  OBVIOUS
<1> USE DEF TypeOK, Shape, LoadIsEmpty, TextFollows, SaveHasText, MineIsOpen, OneSave,
            LostHasDocument, Free, observed
<1>1. CASE Open
  BY <1>1 DEF Open
<1>2. CASE Close
  <2>1. \A k \in Slots : /\ saves'[k].stage = saves[k].stage
                          /\ saves'[k].text = saves[k].text
                          /\ saves'[k].mine = FALSE
    BY <1>2 DEF Close, Save
  <2> QED
    BY <1>2, <2>1 DEF Close, NoLoad
<1>3. CASE Revert
  BY <1>3 DEF Revert, Dirty
<1>4. ASSUME NEW p \in Projects, SelectProject(p) PROVE Shape'
  BY <1>4 DEF SelectProject, editor
<1>5. ASSUME NEW t \in Texts, Type(t) PROVE Shape'
  BY <1>5 DEF Type
<1>6. ASSUME NEW k \in Slots, PressSave(k) PROVE Shape'
  BY <1>6 DEF PressSave, editor, Writable, Saving
<1>7. CASE ReadSource
  BY <1>7 DEF ReadSource
<1>8. CASE FailLoad
  BY <1>8 DEF FailLoad
<1>9. CASE LandLoad
  BY <1>9 DEF LandLoad, NoLoad
<1>10. ASSUME NEW k \in Slots, SaveStep(k) \/ LoseAnswer(k) PROVE Shape'
  <2>1. CASE WriteTemporary(k)
    BY <2>1 DEF WriteTemporary, editor
  <2>2. CASE Replace(k)
    BY <2>2 DEF Replace, editor, Become
  <2>3. CASE Interrupt(k)
    BY <2>3 DEF Interrupt, editor, Become
  <2>4. CASE LandSave(k)
    BY <2>4 DEF LandSave, Become
  <2>5. CASE LoseAnswer(k)
    BY <2>5 DEF LoseAnswer, editor, Become
  <2> QED
    BY <1>10, <2>1, <2>2, <2>3, <2>4, <2>5 DEF SaveStep
<1>11. CASE UNCHANGED vars
  BY <1>11 DEF vars, editor
<1> QED
  BY <1>1, <1>2, <1>3, <1>4, <1>5, <1>6, <1>7, <1>8, <1>9, <1>10, <1>11
  DEF Next, ReviewerStep, LoadStep

-----------------------------------------------------------------------------
(* What the pane knows of its file.                                         *)

LEMMA StepFile == TypeOK /\ Shape /\ File /\ [Next]_vars => File'
<1> SUFFICES ASSUME TypeOK, Shape, File, [Next]_vars PROVE File'
  OBVIOUS
<1> USE DEF TypeOK, File, OnTheDisk, AnsweredIsOnDisk, ReplacedIsOnDisk,
            DocumentIsOnDisk, Free, observed
<1>1. CASE Open
  BY <1>1 DEF Open
<1>2. CASE Close
  BY <1>2 DEF Close
<1>3. CASE Revert
  BY <1>3 DEF Revert
<1>4. ASSUME NEW p \in Projects, SelectProject(p) PROVE File'
  BY <1>4 DEF SelectProject, editor
<1>5. ASSUME NEW t \in Texts, Type(t) PROVE File'
  BY <1>5 DEF Type
<1>6. ASSUME NEW k \in Slots, PressSave(k) PROVE File'
  BY <1>6 DEF PressSave, editor
<1>7. CASE ReadSource
  <2>1. document = Nothing /\ \A k \in Slots : ~(saves[k].stage = "replaced" /\ saves[k].mine)
    BY <1>7 DEF ReadSource, Shape, LoadIsEmpty, MineIsOpen
  <2> QED
    BY <1>7, <2>1 DEF ReadSource
<1>8. CASE FailLoad
  BY <1>8 DEF FailLoad
<1>9. CASE LandLoad
  <2>1. /\ document = Nothing /\ lost = Nothing
        /\ load.stage = "failed" => load.text = Nothing
        /\ \A k \in Slots : ~(saves[k].stage = "replaced" /\ saves[k].mine)
    BY <1>9 DEF LandLoad, Shape, LoadIsEmpty, MineIsOpen, LostHasDocument
  <2> QED
    BY <1>9, <2>1 DEF LandLoad, NoLoad
<1>10. ASSUME NEW k \in Slots, SaveStep(k) \/ LoseAnswer(k) PROVE File'
  <2>1. CASE WriteTemporary(k)
    BY <2>1 DEF WriteTemporary, editor
  <2>2. CASE Replace(k)
    <3>1. /\ \A j \in Slots : saves'[j].text = saves[j].text /\ saves'[j].mine = saves[j].mine
          /\ \A j \in Slots \ {k} : saves'[j].stage = saves[j].stage
          /\ saves[k].stage = "written" /\ saves'[k].stage = "replaced"
          /\ UNCHANGED <<home, load, document>>
      BY <2>2 DEF Replace, Become, Save, editor
    <3>2. known' => known /\ (saves[k].mine <=> saves[k].by = home)
      BY <2>2 DEF Replace
    <3>3. CASE saves[k].mine
      <4>1. \A j \in Slots : saves[j].stage = "replaced" /\ saves[j].mine => j = k
        BY <3>1, <3>3 DEF Shape, OneSave
      <4>2. load.stage = "none"
        BY <3>1, <3>3 DEF Shape, LoadIsEmpty, MineIsOpen
      <4>3. (known' => disk'[home] = saves[k].text) /\ lost' = Nothing
        BY <2>2, <3>2, <3>3 DEF Replace
      <4> QED
        BY <3>1, <3>3, <4>1, <4>2, <4>3
    <3>4. CASE ~saves[k].mine
      <4>1. (known' => disk'[home] = disk[home]) /\ lost' = lost
        BY <2>2, <3>2, <3>4 DEF Replace
      <4> QED
        BY <3>1, <3>2, <3>4, <4>1
    <3> QED
      BY <3>3, <3>4
  <2>3. CASE Interrupt(k)
    BY <2>3 DEF Interrupt, editor, Become
  <2>4. CASE LandSave(k)
    <3>1. saves[k].mine =>
            \A j \in Slots : saves[j].stage = "replaced" /\ saves[j].mine => j = k
      BY <2>4 DEF LandSave, Shape, OneSave
    <3> QED
      BY <2>4, <3>1 DEF LandSave, Become
  <2>5. CASE LoseAnswer(k)
    <3>1. saves[k].mine =>
            \A j \in Slots : saves[j].stage = "replaced" /\ saves[j].mine => j = k
      BY <2>5 DEF LoseAnswer, Shape, OneSave
    <3>2. saves[k].mine => saves[k].text # Nothing /\ load.stage = "none"
      BY <2>5 DEF LoseAnswer, Shape, SaveHasText, LoadIsEmpty, MineIsOpen
    <3> QED
      BY <2>5, <3>1, <3>2 DEF LoseAnswer, editor, Become
  <2> QED
    BY <1>10, <2>1, <2>2, <2>3, <2>4, <2>5 DEF SaveStep
<1>11. CASE UNCHANGED vars
  BY <1>11 DEF vars, editor
<1> QED
  BY <1>1, <1>2, <1>3, <1>4, <1>5, <1>6, <1>7, <1>8, <1>9, <1>10, <1>11
  DEF Next, ReviewerStep, LoadStep

LEMMA EditorInvariant == Spec => [](TypeOK /\ Shape /\ File)
<1>1. TypeOK /\ Shape /\ File /\ [Next]_vars => (TypeOK /\ Shape /\ File)'
  BY StepTyped, StepShape, StepFile
<1> QED
  BY <1>1, InitHolds, PTL DEF Spec

-----------------------------------------------------------------------------
(* The theorems.                                                            *)

(* TypeOK: the disk never holds anything but a text, and no request is in a     *)
(* stage useSource and source.py do not know.                               *)
THEOREM EditorTypeCorrect == Spec => []TypeOK
BY EditorInvariant, PTL

(* SavedIsOnDisk: between two saves the disk has what the pane calls saved, or  *)
(* what its last save sent if that answer was lost, however many saves of other  *)
(* panes are still under way (useSource.ts, save).                           *)
THEOREM SavedIsHonest == Spec => []SavedIsOnDisk
<1>1. TypeOK /\ Shape /\ File => SavedIsOnDisk
  BY DEF TypeOK, File, OnTheDisk, DocumentIsOnDisk, SavedIsOnDisk, Saving, Free
<1> QED
  BY <1>1, EditorInvariant, PTL

(* KeystrokesOutliveTheSave: no answer changes the text of a document that is   *)
(* in the editor (useSource.ts, save and load).                              *)
THEOREM KeystrokesStay == Spec => KeystrokesOutliveTheSave
<1> DEFINE Stays == document # Nothing /\ document' # document /\ pane' = pane
                      => text' = text
<1>1. ASSUME TypeOK, Shape, [Next]_vars PROVE [Stays]_vars
  <2>1. CASE Open \/ Close
    BY <2>1 DEF Open, Close
  <2>2. CASE LandLoad
    BY <1>1, <2>2 DEF LandLoad, Shape, LoadIsEmpty
  <2>3. ASSUME NEW k \in Slots, SaveStep(k) \/ LoseAnswer(k) PROVE Stays
    BY <2>3 DEF SaveStep, WriteTemporary, Replace, Interrupt, LandSave, LoseAnswer, editor
  <2>4. CASE Revert \/ ReadSource \/ FailLoad
    BY <2>4 DEF Revert, ReadSource, FailLoad
  <2>5. ASSUME NEW p \in Projects, SelectProject(p) PROVE Stays
    BY <2>5 DEF SelectProject, editor
  <2>6. ASSUME NEW t \in Texts, Type(t) PROVE Stays
    BY <2>6 DEF Type
  <2>7. ASSUME NEW k \in Slots, PressSave(k) PROVE Stays
    BY <2>7 DEF PressSave, editor
  <2> QED
    BY <1>1, <2>1, <2>2, <2>3, <2>4, <2>5, <2>6, <2>7 DEF Next, ReviewerStep, LoadStep
<1> QED
  BY <1>1, EditorInvariant, PTL DEF Spec, KeystrokesOutliveTheSave
=============================================================================
