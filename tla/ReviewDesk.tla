------------------------------ MODULE ReviewDesk -------------------------------
(***************************************************************************)
(* The desk of heimdall-qa, where one reviewer watches a run and answers it:  *)
(* the panes of the web app (App.tsx, StepPane.tsx, CampaignPane.tsx,         *)
(* UnitCard.tsx, DonePane.tsx, StatusBar.tsx, CommandPalette.tsx) over the     *)
(* selection and the panes the server keeps for it (workspace.py).            *)
(*                                                                         *)
(* A screen is the part of the bootstrap the panes look at.  What a component  *)
(* offers on a screen is a set of controls, and the reviewer may use any of    *)
(* them, click any row of the tree, or answer the step in the form.  The run   *)
(* goes on meanwhile and the screen lags behind it until the next read.       *)
(*                                                                         *)
(* Every project holds one campaign with one round, the rounds have as many     *)
(* rows, and each names its own.  RoundSession and RunEngine model   *)
(* the run itself, ClientSync the order of the answers.                      *)
(***************************************************************************)
EXTENDS Integers, FiniteSets

CONSTANTS
  Projects,    (* the open projects                                         *)
  Rows,        (* how many cases a round has                                *)
  Name,        (* the case id of each row of a project: a suite repeats some  *)
  MaxRuns,     (* bound: the plans started                                  *)
  Posts        (* bound: the verdicts in flight at once                     *)

RowIds == 1 .. Rows

ASSUME DeskAssumption ==
  /\ Rows \in Nat \ {0}
  /\ Name \in [Projects -> [RowIds -> RowIds]]
  /\ MaxRuns \in Nat

VARIABLES
  (* The run. *)
  phase,       (* the engine's phase; "starting" is running with no session  *)
  run,         (* the plans started so far, counting the one on disk         *)
  owner,       (* the project whose round is run                            *)
  next,        (* _next_index of the live session, from one                  *)
  written,     (* the rows whose step directory is written                   *)
  follow,      (* _follow                                                   *)
  focus,       (* _focus_index                                              *)
  handed,      (* _verdict: the answer the worker has not taken up           *)
  stopping,    (* _cancel                                                   *)
  past,        (* the last finished run of each project's round              *)
  (* The workspace. *)
  selected,    (* _selected_key                                             *)
  started,     (* _started_key                                              *)
  running,     (* _running                                                  *)
  reopened,    (* _historical_dir                                           *)
  (* The window. *)
  screen,      (* bootstrap                                                 *)
  comment,     (* the comment box: the step its text was written about       *)
  posts        (* the POSTs of the verdict form                             *)

session == <<run, owner, next, written, follow, focus, past>>
workspace == <<selected, started, running, reopened>>
vars == <<phase, session, handed, stopping, workspace, screen, comment, posts>>

-----------------------------------------------------------------------------
(* Values.                                                                  *)

Phases == {"idle", "starting", "running", "awaiting", "over"}
Panes  == {"campaign", "review", "historical", "done", "start"}

Dir    == [run : Nat, row : 0 .. Rows]
NoDir  == [run |-> 0, row |-> 0]

None        == "none"
Campaign(p) == [project |-> p, kind |-> "campaign", row |-> 0]
Round(p)    == [project |-> p, kind |-> "round", row |-> 0]
Case(p, i)  == [project |-> p, kind |-> "case", row |-> i]
NoNode      == [project |-> None, kind |-> "none", row |-> 0]
Nodes       == {Campaign(p) : p \in Projects} \cup {Round(p) : p \in Projects}
                 \cup {Case(p, i) : p \in Projects, i \in RowIds}

Answer   == [verdict : {"pass", "fail", "fail_stop"}, seen : Dir, note : Dir]
NoAnswer == [verdict |-> "none", seen |-> NoDir, note |-> NoDir]
Post     == [answer : Answer \cup {NoAnswer}, mine : BOOLEAN]
NoPost   == [answer |-> NoAnswer, mine |-> FALSE]

Less(a, b) == IF a < b THEN a ELSE b
More(a, b) == IF a < b THEN b ELSE a

-----------------------------------------------------------------------------
(* The live session, as session.view() tells it.                             *)

Busy   == phase \in {"starting", "running", "awaiting"}
Opened == phase \in {"running", "awaiting", "over"}

MaxFocus == More(1, IF phase = "awaiting" THEN More(written, next) ELSE written)

EffectiveFocus == IF follow /\ written > 0 THEN written ELSE focus

FocusedDir ==
  IF EffectiveFocus <= written THEN [run |-> run, row |-> EffectiveFocus] ELSE NoDir

AwaitingVerdict == phase = "awaiting" /\ EffectiveFocus = next

-----------------------------------------------------------------------------
(* The workspace, as view() tells it.                                        *)

(* The overlay found the live round in the tree: _live_round_key names the     *)
(* round by the project that was noted as running.                           *)
Painted == Opened /\ running = owner

(* _is_live: the live round and its cases.                                   *)
IsLive(n) ==
  Painted /\ n.project = owner /\ n.kind \in {"round", "case"}

(* _holds_live: those, and what holds them.                                  *)
HoldsLive(n) == Painted /\ n.project = owner

(* A seeded fault: the parked row is named only while the selection shows the  *)
(* live session, which breaks LeavingIsSafe.                                 *)
PendingKeyOfSelection ==
  IF phase = "awaiting" /\ HoldsLive(selected) THEN Case(owner, next) ELSE NoNode

(* _pending_key.                                                            *)
PendingKey ==
  IF phase = "awaiting" /\ Painted THEN Case(owner, next) ELSE NoNode

(* A seeded fault: the row is counted from zero, which breaks                  *)
(* JumpLeadsToTheForm.                                                      *)
RowFromZero(p, i) == More(1, i - 1)

(* A row is looked up by its case id, in the engine's view as on disk, and the  *)
(* first one of that name is it.                                            *)
RowOf(p, i) ==
  CHOOSE j \in RowIds : /\ Name[p][j] = Name[p][i]
                         /\ \A k \in 1 .. j - 1 : Name[p][k] # Name[p][i]

(* _historical_for: the step of the case in the last run on disk.             *)
HistoricalFor(n) ==
  LET row == RowOf(n.project, n.row)
  IN IF n.kind = "case" /\ row <= past[n.project].row
       THEN [run |-> past[n.project].run, row |-> row] ELSE NoDir

(* _pane, in the order of its returns.                                       *)
Pane(n) ==
  LET parkedHere == phase = "awaiting" /\ n = started
      shown      == IF HoldsLive(n) THEN FocusedDir ELSE reopened
  IN IF n.kind = "campaign" /\ ~parkedHere THEN "campaign"
     ELSE IF \/ parkedHere
             \/ IsLive(n) /\ (Busy \/ (n.kind = "case" /\ shown # NoDir)) THEN "review"
     ELSE IF n.kind = "round" /\ past[n.project] # NoDir THEN "done"
     ELSE IF n.kind = "case" /\ reopened # NoDir THEN "historical"
     ELSE "start"

(* The bootstrap: view() with the live session's fields where the selection   *)
(* holds the live round, and the stored session's where it does not.          *)
View ==
  LET live == HoldsLive(selected)
      pane == Pane(selected)
  IN [selected   |-> selected,
      pane       |-> pane,
      busy       |-> Busy,
      awaiting   |-> phase = "awaiting",
      pendingKey |-> PendingKey,
      liveHere   |-> /\ Busy
                     /\ \/ live /\ phase # "over"
                        \/ selected = started,
      liveRow    |-> IF live /\ phase # "over" THEN Case(owner, next) ELSE NoNode,
      over       |-> live /\ phase = "over",
      walk       |-> live,
      focus      |-> IF live THEN EffectiveFocus ELSE 1,
      highest    |-> IF live THEN MaxFocus ELSE 1,
      pending    |-> IF live THEN next ELSE 1,
      form       |-> live /\ pane = "review" /\ AwaitingVerdict,
      dir        |-> IF live THEN FocusedDir ELSE reopened]


-----------------------------------------------------------------------------
(* What each component offers on a screen v.                                 *)

Select(n) == [act |-> "select", node |-> n, row |-> 0]
Focus(i)  == [act |-> "focus", node |-> NoNode, row |-> i]
Run       == [act |-> "start", node |-> NoNode, row |-> 0]
Cancel    == [act |-> "cancel", node |-> NoNode, row |-> 0]

If(condition, control) == IF condition THEN {control} ELSE {}

(* StepHeader: the walk over the steps that ran, Anterior and Proximo.        *)
StepHeaderOffers(v) ==
  If(v.walk /\ v.focus > 1, Focus(v.focus - 1))
    \cup If(v.walk /\ v.focus < v.highest, Focus(v.focus + 1))

(* The footer of StepPane while no form is drawn: "Ir ao passo atual", and     *)
(* the case's own scopes.                                                   *)
StepFooterOffers(v) ==
  IF v.form THEN {}
  ELSE If(~v.over /\ v.focus # v.pending, Focus(v.pending))
         \cup If(v.selected.kind = "case" /\ ~v.busy, Run)

StepPaneOffers(v) == StepHeaderOffers(v) \cup StepFooterOffers(v)

(* CampaignPane: the plan in flight and the way to its parked row, or the      *)
(* scopes; and the rounds of the roll-up.                                    *)
CampaignPaneOffers(v) ==
  IF v.liveHere
    THEN If(v.awaiting /\ v.liveRow # NoNode, Select(v.liveRow))
    ELSE If(~v.busy, Run)
RollupOffers(v) == {Select(Round(v.selected.project))}

(* DonePane: the failed cases, which are rows of the round, and its scopes.    *)
DonePaneOffers(v) ==
  {Select(Case(v.selected.project, i)) : i \in RowIds} \cup If(~v.busy, Run)

(* UnitCard: the scopes, and the rows of the session's queue.                *)
UnitCardOffers(v) ==
  {Select(Case(v.selected.project, i)) : i \in RowIds} \cup If(~v.busy, Run)

(* The component App draws for the server's pane.                            *)
PaneOffers(v) ==
  CASE v.pane = "campaign" -> CampaignPaneOffers(v) \cup RollupOffers(v)
    [] v.pane = "done" -> DonePaneOffers(v)
    [] v.pane \in {"review", "historical"} -> StepPaneOffers(v)
    [] OTHER -> UnitCardOffers(v)

(* StatusBar: the way back to a parked step, and Cancelar.                   *)
StatusBarOffers(v) ==
  If(v.awaiting /\ v.pendingKey # NoNode /\ v.pendingKey # v.selected,
     Select(v.pendingKey))
    \cup If(v.busy, Cancel)

(* CommandPalette: the scopes whatever runs, and the rounds of the tree.      *)
PaletteOffers(v) ==
  {Run} \cup If(v.busy, Cancel) \cup {Select(Round(p)) : p \in Projects}

(* CollectionTree: every row.                                               *)
TreeOffers(v) == {Select(n) : n \in Nodes}

Offered(v) ==
  PaneOffers(v) \cup StatusBarOffers(v) \cup PaletteOffers(v) \cup TreeOffers(v)

-----------------------------------------------------------------------------
(* The run.                                                                 *)

Init ==
  /\ phase = "idle" /\ run = 1
  /\ owner = None
  /\ next = 1 /\ written = 0 /\ follow = TRUE /\ focus = 1
  /\ handed = NoAnswer /\ stopping = FALSE
  /\ past \in [Projects -> {NoDir, [run |-> 1, row |-> Rows]}]
  /\ selected \in {Campaign(p) : p \in Projects}
  /\ started = NoNode /\ running = None /\ reopened = NoDir
  /\ screen = View
  /\ comment = NoDir /\ posts = [k \in 1 .. Posts |-> NoPost]

window == <<screen, comment, posts>>

(* The plan is over: its run is the last one on disk.                        *)
Finish ==
  /\ phase' = "over"
  /\ past' = [past EXCEPT ![owner] = [run |-> run, row |-> written']]
  /\ handed' = NoAnswer
  /\ stopping' = FALSE

(* A seeded fault: the loop runs one past the last row, which breaks TypeOK.   *)
AdvancePastTheEnd ==
  IF next <= Rows
    THEN /\ phase' = "running"
         /\ next' = next + 1
         /\ handed' = NoAnswer
         /\ UNCHANGED <<past, stopping>>
    ELSE Finish /\ UNCHANGED next

(* The next row is decided, by itself or by the reviewer.                    *)
Advance ==
  IF next < Rows
    THEN /\ phase' = "running"
         /\ next' = next + 1
         /\ handed' = NoAnswer
         /\ UNCHANGED <<past, stopping>>
    ELSE Finish /\ UNCHANGED next

(* The worker opens the round.                                              *)
Open ==
  /\ phase = "starting"
  /\ phase' = "running"
  /\ next' = 1 /\ written' = 0 /\ follow' = TRUE /\ focus' = 1
  /\ UNCHANGED <<run, owner, past, handed, stopping, workspace, window>>

(* A row came back and decides itself ...                                    *)
Pass ==
  /\ phase = "running"
  /\ written' = next
  /\ Advance
  /\ UNCHANGED <<run, owner, follow, focus, workspace, window>>

(* ... or the round parks on it, and the pane is brought there.              *)
Park ==
  /\ phase = "running"
  /\ phase' = "awaiting"
  /\ written' = next
  /\ focus' = next
  /\ UNCHANGED <<run, owner, next, follow, past, handed, stopping, workspace,
                 window>>

(* The worker takes up the answer it was handed.                             *)
Wake ==
  /\ phase = "awaiting"
  /\ handed # NoAnswer
  /\ UNCHANGED <<run, owner, written, follow, focus, workspace, window>>
  /\ IF handed.verdict = "fail_stop" THEN Finish /\ UNCHANGED next ELSE Advance

(* The worker sees the cancel between two steps.                             *)
Halt ==
  /\ stopping
  /\ phase \in {"running", "awaiting"}
  /\ UNCHANGED <<run, owner, next, written, follow, focus, workspace, window>>
  /\ Finish

-----------------------------------------------------------------------------
(* The window.                                                              *)

(* A seeded fault: only another pane empties the box, which breaks             *)
(* CommentStaysWithItsStep.                                                 *)
DrawKeepsComment(v, inFlight) ==
  /\ screen' = v
  /\ LET remount == screen'.pane # screen.pane
     IN /\ comment' = IF remount THEN NoDir ELSE comment
        /\ posts' = IF remount THEN [k \in DOMAIN inFlight |->
                                       [inFlight[k] EXCEPT !.mine = FALSE]]
                    ELSE inFlight

(* React draws a bootstrap.  The pane is keyed by its name: another one mounts *)
(* a new StepPane, whose comment box is empty and which waits for no answer.   *)
(* A new step under the same pane only empties the box.                      *)
Draw(v, inFlight) ==
  /\ screen' = v
  /\ LET remount == screen'.pane # screen.pane
         asked   == <<screen'.dir, screen'.pending>> # <<screen.dir, screen.pending>>
     IN /\ comment' = IF remount \/ asked THEN NoDir ELSE comment
        /\ posts' = IF remount THEN [k \in DOMAIN inFlight |->
                                       [inFlight[k] EXCEPT !.mine = FALSE]]
                    ELSE inFlight

(* A read of the bootstrap, asked for by a frame of the stream.               *)
Refresh ==
  /\ screen # View
  /\ UNCHANGED <<phase, session, handed, stopping, workspace>>
  /\ Draw(View', posts)

(* _focus_live_case, and focus of the session.                                *)
FocusOn(i) ==
  /\ follow' = FALSE
  /\ focus' = More(1, Less(i, MaxFocus))

(* select.                                                                  *)
SelectNode(n) ==
  /\ selected' = n
  /\ reopened' = IF IsLive(n) THEN NoDir ELSE HistoricalFor(n)
  /\ IF IsLive(n) /\ n.kind = "case" THEN FocusOn(RowOf(n.project, n.row))
     ELSE UNCHANGED <<follow, focus>>
  /\ UNCHANGED <<phase, run, owner, next, written, past, handed, stopping, started,
                 running>>
  /\ Draw(View', posts)

(* focus.                                                                   *)
FocusStep(i) ==
  /\ IF Opened THEN FocusOn(i) ELSE UNCHANGED <<follow, focus>>
  /\ UNCHANGED <<phase, run, owner, next, written, past, handed, stopping,
                 workspace>>
  /\ Draw(View', posts)

(* start: the project is noted as the running one, and the engine takes the    *)
(* plan or refuses it with ROUND_BUSY.  Every plan runs the whole round.       *)
StartPlan ==
  /\ running' = selected.project
  /\ IF Busy
       THEN UNCHANGED <<phase, session, handed, stopping, selected, started,
                        reopened, window>>
       ELSE /\ run < MaxRuns
            /\ phase' = "starting"
            /\ run' = run + 1
            /\ owner' = selected.project
            /\ handed' = NoAnswer /\ stopping' = FALSE
            /\ reopened' = NoDir
            /\ started' = selected
            /\ UNCHANGED <<next, written, follow, focus, past, selected>>
            /\ Draw(View', posts)

(* cancel.                                                                  *)
CancelPlan ==
  /\ stopping' = Busy
  /\ UNCHANGED <<phase, session, handed, workspace>>
  /\ Draw(View', posts)

(* The reviewer uses something the screen offers.                            *)
Use(c) ==
  CASE c.act = "select" -> SelectNode(c.node)
    [] c.act = "focus"  -> FocusStep(c.row)
    [] c.act = "start"  -> StartPlan
    [] c.act = "cancel" -> CancelPlan

-----------------------------------------------------------------------------
(* The verdict form.                                                        *)

Sending == \E k \in DOMAIN posts : posts[k].mine

(* The reviewer writes about the step in front of them.                      *)
Type ==
  /\ screen.form
  /\ comment # screen.dir
  /\ comment' = screen.dir
  /\ UNCHANGED <<phase, session, handed, stopping, workspace, screen, posts>>

(* send: nothing while an answer is awaited, and no reproval without a        *)
(* comment.                                                                 *)
Press(verdict) ==
  /\ screen.form
  /\ ~Sending
  /\ verdict # "pass" => comment # NoDir
  /\ \E k \in DOMAIN posts :
       /\ posts[k] = NoPost
       /\ \A j \in 1 .. k - 1 : posts[j] # NoPost
       /\ posts' = [posts EXCEPT ![k] =
            [answer |-> [verdict |-> verdict, seen |-> screen.dir, note |-> comment],
             mine |-> TRUE]]
  /\ UNCHANGED <<phase, session, handed, stopping, workspace, screen, comment>>

(* submit_verdict: an answer while something is parked replaces the one that   *)
(* was handed over before.                                                  *)
Accepts(answer) ==
  /\ phase = "awaiting"
  /\ answer.verdict # "pass" => answer.note # NoDir

HandOver(k) ==
  handed' = IF Accepts(posts[k].answer) THEN posts[k].answer ELSE handed

(* The POST is answered: with the bootstrap, or with a refusal that leaves the *)
(* screen as it is.                                                         *)
Deliver(k) ==
  /\ posts[k] # NoPost
  /\ HandOver(k)
  /\ UNCHANGED <<phase, session, stopping, workspace>>
  /\ IF Accepts(posts[k].answer)
       THEN Draw(View', [posts EXCEPT ![k] = NoPost])
       ELSE posts' = [posts EXCEPT ![k] = NoPost] /\ UNCHANGED <<screen, comment>>

(* The network loses the POST, or its answer.                                *)
Lose(k) ==
  /\ posts[k] # NoPost
  /\ HandOver(k) \/ UNCHANGED handed
  /\ posts' = [posts EXCEPT ![k] = NoPost]
  /\ UNCHANGED <<phase, session, stopping, workspace, screen, comment>>

-----------------------------------------------------------------------------
WorkerStep == Open \/ Pass \/ Park \/ Wake \/ Halt
FormStep   == \/ Type
              \/ \E verdict \in {"pass", "fail", "fail_stop"} : Press(verdict)
              \/ \E k \in DOMAIN posts : Deliver(k) \/ Lose(k)
WindowStep == Refresh \/ \E c \in Offered(screen) : Use(c)

Next == WorkerStep \/ FormStep \/ WindowStep
Spec == Init /\ [][Next]_vars

-----------------------------------------------------------------------------
(* Properties.                                                              *)

TypeOK ==
  /\ phase \in Phases
  /\ run \in 1 .. More(1, MaxRuns)
  /\ owner \in Projects \cup {None}
  /\ next \in RowIds /\ written \in 0 .. Rows /\ focus \in RowIds
  /\ follow \in BOOLEAN /\ stopping \in BOOLEAN
  /\ handed \in Answer \cup {NoAnswer}
  /\ past \in [Projects -> Dir]
  /\ selected \in Nodes /\ started \in Nodes \cup {NoNode}
  /\ running \in Projects \cup {None}
  /\ reopened \in Dir /\ comment \in Dir
  /\ screen.pane \in Panes
  /\ posts \in [1 .. Posts -> Post]

(* "the parked step is reachable from the one strip that is always on screen   *)
(* - which is what makes leaving it safe rather than a trap"                  *)
(* (StatusBar.tsx:178): the screen of a parked run draws the form, or offers   *)
(* the way to the row or to the step.                                        *)
Reachable(v) ==
  \/ v.form
  \/ Select(PendingKey) \in StatusBarOffers(v)
  \/ v.pane = "review" /\ Focus(next) \in StepFooterOffers(v)

(* As long as nothing else was started meanwhile, no row the reviewer opens    *)
(* and no step they walk to loses the parked one.                            *)
LeavingIsSafe ==
  phase = "awaiting" /\ running = owner => Reachable(View)

(* The same of every parked run.                                            *)
ParkedIsReachable == phase = "awaiting" => Reachable(View)

(* Whichever way the reviewer takes to the parked row, they land on a step of   *)
(* its name, and the form is there or one press away, on "Ir ao passo atual".  *)
(* It is there exactly when no earlier row of the round has the name: "clicking *)
(* the third loop" does not "open the third loop instead of the first", as     *)
(* workspace.py:660-664 has it, but the first.                               *)
Jumps ==
  /\ phase = "awaiting" /\ PendingKey # NoNode
  /\ selected # PendingKey /\ selected' = PendingKey

LandsByTheForm(v) ==
  /\ Name[owner][v.focus] = Name[owner][next]
  /\ v.form \/ Focus(next) \in StepFooterOffers(v)
  /\ v.form <=> \A i \in 1 .. next - 1 : Name[owner][i] # Name[owner][next]

JumpLeadsToTheForm == [][Jumps => LandsByTheForm(screen')]_vars

(* "carrying the previous answer's comment into it would post one case's        *)
(* reasoning against another" (StepPane.tsx:58): what the box holds was        *)
(* written about the step on the screen.                                     *)
CommentStaysWithItsStep ==
  comment # NoDir => /\ screen.pane = "review"
                     /\ comment = screen.dir

(* "a verdict recorded against a case nobody was looking at is silent and       *)
(* attributed to the wrong thing" (panel.py:439).                            *)
VerdictIsForTheStepSeen ==
  [][Wake => handed.seen = [run |-> run, row |-> next]]_vars
=============================================================================
