---------------------------- MODULE ReviewDeskProofs ----------------------------
(***************************************************************************)
(* Theorems about ReviewDesk, for every set of projects, rounds of any length   *)
(* whose rows have any names, and any number of plans and of posts.           *)
(***************************************************************************)
EXTENDS ReviewDesk, WellFoundedInduction, TLAPS

USE DeskAssumption

(* The run and the workspace.                                               *)
ServerOK ==
  /\ phase \in Phases
  /\ run \in 1 .. More(1, MaxRuns)
  /\ owner \in Projects \cup {None}
  /\ phase # "idle" => owner \in Projects
  /\ next \in RowIds /\ written \in 0 .. Rows /\ focus \in RowIds
  /\ follow \in BOOLEAN /\ stopping \in BOOLEAN
  /\ handed \in Answer \cup {NoAnswer}
  /\ past \in [Projects -> Dir]
  /\ selected \in Nodes /\ started \in Nodes \cup {NoNode}
  /\ running \in Projects \cup {None}
  /\ reopened \in Dir

(* A screen: what its controls name exists, and a form is drawn under review.   *)
ScreenOK(v) ==
  /\ v.pane \in Panes /\ v.selected \in Nodes /\ v.dir \in Dir
  /\ v.pendingKey \in Nodes \cup {NoNode} /\ v.liveRow \in Nodes \cup {NoNode}
  /\ v.focus \in Int /\ v.highest \in Int /\ v.pending \in Int
  /\ v.form => v.pane = "review"

WindowOK == ScreenOK(screen) /\ comment \in Dir /\ posts \in [1 .. Posts -> Post]

DInv == ServerOK /\ WindowOK

-----------------------------------------------------------------------------
(* Values.                                                                  *)

LEMMA LessMore ==
  ASSUME NEW a \in Int, NEW b \in Int
  PROVE  /\ Less(a, b) \in Int /\ Less(a, b) <= a /\ Less(a, b) <= b
         /\ More(a, b) \in Int /\ More(a, b) >= a /\ More(a, b) >= b
         /\ Less(a, b) \in {a, b} /\ More(a, b) \in {a, b}
BY DEF Less, More

LEMMA NodeShape ==
  ASSUME NEW n \in Nodes
  PROVE  /\ n.project \in Projects
         /\ n.kind \in {"campaign", "round", "case"}
         /\ n.row \in 0 .. Rows
         /\ n.kind = "case" => n.row \in RowIds
BY DEF Nodes, Campaign, Round, Case, RowIds

LEMMA DirTyped == NoDir \in Dir
BY DEF NoDir, Dir

LEMMA FocusedTyped ==
  ASSUME ServerOK
  PROVE  /\ EffectiveFocus \in 0 .. Rows
         /\ MaxFocus \in RowIds
         /\ FocusedDir \in Dir
<1>1. EffectiveFocus \in 0 .. Rows
  BY DEF EffectiveFocus, ServerOK, RowIds
<1>2. MaxFocus \in RowIds
  BY DEF MaxFocus, More, ServerOK, RowIds
<1>3. run \in Nat
  BY DEF ServerOK, More
<1>4. FocusedDir \in Dir
  BY <1>1, <1>3, DirTyped DEF FocusedDir, Dir
<1> QED
  BY <1>1, <1>2, <1>4

LEMMA PaneTyped == ASSUME NEW n \in Nodes PROVE Pane(n) \in Panes
BY DEF Pane, Panes

(* What the server shows is a screen.                                        *)
LEMMA ViewTyped == ServerOK => ScreenOK(View)
<1> SUFFICES ASSUME ServerOK PROVE ScreenOK(View)
  OBVIOUS
<1>1. selected \in Nodes /\ next \in Int /\ reopened \in Dir
  BY DEF ServerOK, RowIds
<1>2. Pane(selected) \in Panes
  BY <1>1, PaneTyped
<1>3. phase # "idle" => Case(owner, next) \in Nodes
  BY DEF ServerOK, Nodes
<1>4. PendingKey \in Nodes \cup {NoNode}
  BY <1>3 DEF PendingKey
<1>5. HoldsLive(selected) => phase # "idle"
  BY DEF HoldsLive, Painted, Opened
<1> DEFINE dir == IF HoldsLive(selected) THEN FocusedDir ELSE reopened
           row == IF HoldsLive(selected) /\ phase # "over" THEN Case(owner, next) ELSE NoNode
           foc == IF HoldsLive(selected) THEN EffectiveFocus ELSE 1
           top == IF HoldsLive(selected) THEN MaxFocus ELSE 1
           pen == IF HoldsLive(selected) THEN next ELSE 1
           frm == HoldsLive(selected) /\ AwaitingVerdict /\ Pane(selected) = "review"
<1>6. dir \in Dir /\ row \in Nodes \cup {NoNode} /\ foc \in Int /\ top \in Int /\ pen \in Int
  BY <1>1, <1>3, <1>5, FocusedTyped DEF RowIds
<1>7. /\ View.pane = Pane(selected) /\ View.selected = selected /\ View.dir = dir
      /\ View.pendingKey = PendingKey /\ View.liveRow = row
      /\ View.focus = foc /\ View.highest = top /\ View.pending = pen
  BY DEF View
<1>8. View.form = frm
  BY DEF View
<1> HIDE DEF dir, row, foc, top, pen
<1>9. View.form => View.pane = "review"
  BY <1>7, <1>8
<1> QED
  BY <1>1, <1>2, <1>4, <1>6, <1>7, <1>9 DEF ScreenOK

(* The first row of a name: the row itself unless an earlier one has it.       *)
LEMMA RowOfTyped ==
  ASSUME NEW p \in Projects, NEW i \in RowIds
  PROVE  /\ RowOf(p, i) \in RowIds /\ RowOf(p, i) <= i
         /\ Name[p][RowOf(p, i)] = Name[p][i]
         /\ RowOf(p, i) = i <=> \A j \in 1 .. i - 1 : Name[p][j] # Name[p][i]
<1> DEFINE Named == {j \in RowIds : Name[p][j] = Name[p][i]}
           row == RowOf(p, i)
<1>1. Named # {} /\ Named \subseteq Nat
  BY DEF RowIds
<1>2. PICK j \in Named : \A k \in Named : <<k, j>> \notin OpToRel(<, Nat)
  BY <1>1, NatLessThanWellFounded, WFMin
<1>3. \A k \in 1 .. j - 1 : Name[p][k] # Name[p][i]
  <2> SUFFICES ASSUME NEW k \in 1 .. j - 1, Name[p][k] = Name[p][i] PROVE FALSE
    OBVIOUS
  <2>1. j \in Nat /\ k \in Nat /\ k < j /\ k \in Named
    BY DEF RowIds
  <2>2. <<k, j>> \in OpToRel(<, Nat)
    BY <2>1 DEF OpToRel
  <2> QED
    BY <1>2, <2>1, <2>2
<1>4. /\ row \in RowIds /\ Name[p][row] = Name[p][i]
      /\ \A k \in 1 .. row - 1 : Name[p][k] # Name[p][i]
  BY <1>2, <1>3 DEF RowOf
<1> HIDE DEF Named, row
<1>5. i \in Nat /\ row \in Nat /\ 1 <= i /\ 1 <= row
  BY <1>4 DEF RowIds
<1>6. row <= i
  BY <1>4, <1>5
<1>7. ASSUME \A k \in 1 .. i - 1 : Name[p][k] # Name[p][i] PROVE row = i
  BY <1>4, <1>5, <1>6, <1>7
<1> QED
  BY <1>4, <1>6, <1>7 DEF row

-----------------------------------------------------------------------------
(* Effects.                                                                 *)

server == <<phase, session, handed, stopping, workspace>>

LEMMA ServerRests == ServerOK /\ UNCHANGED server => ServerOK'
BY DEF server, session, workspace, ServerOK

LEMMA ViewRests == ServerOK' => ScreenOK(View)'
BY ViewTyped, PTL

(* A screen is drawn.                                                       *)
LEMMA DrawEffect ==
  ASSUME WindowOK, ServerOK', NEW inFlight \in [1 .. Posts -> Post], Draw(View', inFlight)
  PROVE  /\ screen' = View'
         /\ WindowOK'
         /\ comment' # NoDir => /\ comment' = comment /\ screen'.pane = screen.pane
                                /\ screen'.dir = screen.dir
<1>1. screen' = View'
  BY DEF Draw
<1>2. ScreenOK(screen)'
  BY <1>1, ViewRests DEF ScreenOK
<1>3. comment' \in Dir
  BY DirTyped DEF Draw, WindowOK
<1>4. posts' \in [1 .. Posts -> Post]
  BY DEF Draw, Post
<1>5. comment' # NoDir => /\ comment' = comment /\ screen'.pane = screen.pane
                          /\ screen'.dir = screen.dir
  BY <1>1 DEF Draw
<1> QED
  BY <1>1, <1>2, <1>3, <1>4, <1>5 DEF WindowOK

LEMMA FinishEffect ==
  ASSUME ServerOK, Finish, written' \in 0 .. Rows
  PROVE  /\ phase' = "over" /\ past' \in [Projects -> Dir]
         /\ handed' = NoAnswer /\ stopping' \in BOOLEAN
<1>1. [run |-> run, row |-> written'] \in Dir
  BY DEF ServerOK, Dir, More
<1> QED
  BY <1>1 DEF Finish, ServerOK

LEMMA AdvanceEffect ==
  ASSUME ServerOK, Advance, written' \in 0 .. Rows
  PROVE  /\ phase' \in {"running", "over"} /\ past' \in [Projects -> Dir]
         /\ next' \in RowIds
         /\ handed' = NoAnswer /\ stopping' \in BOOLEAN
<1>1. CASE next < Rows
  BY <1>1 DEF Advance, ServerOK, RowIds
<1>2. CASE ~(next < Rows)
  BY <1>2, FinishEffect DEF Advance, ServerOK
<1> QED
  BY <1>1, <1>2

LEMMA WorkerEffect == ServerOK /\ WorkerStep => ServerOK'
<1> SUFFICES ASSUME ServerOK, WorkerStep PROVE ServerOK'
  OBVIOUS
<1>1. CASE Open
  BY <1>1 DEF Open, ServerOK, workspace, Phases, RowIds
<1>2. CASE Pass
  <2>1. written' \in 0 .. Rows
    BY <1>2 DEF Pass, ServerOK, RowIds
  <2> QED
    BY <1>2, <2>1, AdvanceEffect DEF Pass, ServerOK, workspace, Phases
<1>3. CASE Park
  BY <1>3 DEF Park, ServerOK, workspace, Phases, RowIds
<1>4. CASE Wake
  <2>1. written' \in 0 .. Rows
    BY <1>4 DEF Wake, ServerOK
  <2>2. CASE Finish /\ UNCHANGED next
    BY <1>4, <2>1, <2>2, FinishEffect DEF Wake, ServerOK, workspace, Phases
  <2>3. CASE Advance
    BY <1>4, <2>1, <2>3, AdvanceEffect DEF Wake, ServerOK, workspace, Phases
  <2> QED
    BY <1>4, <2>2, <2>3 DEF Wake
<1>5. CASE Halt
  <2>1. written' \in 0 .. Rows
    BY <1>5 DEF Halt, ServerOK
  <2> QED
    BY <1>5, <2>1, FinishEffect DEF Halt, ServerOK, workspace, Phases
<1> QED
  BY <1>1, <1>2, <1>3, <1>4, <1>5 DEF WorkerStep

LEMMA FocusEffect ==
  ASSUME ServerOK, NEW i \in Int, FocusOn(i)
  PROVE  /\ follow' = FALSE /\ focus' \in RowIds
         /\ i \in 1 .. MaxFocus => focus' = i
BY FocusedTyped DEF FocusOn, More, Less, RowIds

LEMMA SelectEffect ==
  ASSUME ServerOK, NEW n \in Nodes, SelectNode(n)
  PROVE  ServerOK'
<1>1. HistoricalFor(n) \in Dir
  <2>1. past[n.project] \in Dir
    BY NodeShape DEF ServerOK
  <2>2. ASSUME n.kind = "case" PROVE RowOf(n.project, n.row) \in 0 .. Rows
    <3>1. n.project \in Projects /\ n.row \in RowIds
      BY <2>2, NodeShape
    <3>2. RowOf(n.project, n.row) \in RowIds
      BY <3>1, RowOfTyped
    <3> QED
      BY <3>2 DEF RowIds
  <2> QED
    BY <2>1, <2>2, DirTyped DEF HistoricalFor, Dir
<1>2. reopened' \in Dir
  BY <1>1, DirTyped DEF SelectNode
<1>3. focus' \in RowIds /\ follow' \in BOOLEAN
  <2>1. CASE IsLive(n) /\ n.kind = "case"
    <3>1. RowOf(n.project, n.row) \in Int
      <4>1. n.project \in Projects /\ n.row \in RowIds
        BY <2>1, NodeShape
      <4>2. RowOf(n.project, n.row) \in RowIds
        BY <4>1, RowOfTyped
      <4> QED
        BY <4>2 DEF RowIds
    <3> QED
      BY <2>1, <3>1, FocusEffect DEF SelectNode
  <2> QED
    BY <2>1 DEF SelectNode, ServerOK
<1> QED
  BY <1>2, <1>3 DEF SelectNode, ServerOK

LEMMA StartEffect ==
  ASSUME DInv, StartPlan
  PROVE  DInv'
<1>1. selected.project \in Projects
  BY NodeShape DEF DInv, ServerOK
<1>2. CASE Busy
  BY <1>1, <1>2 DEF StartPlan, DInv, ServerOK, WindowOK, ScreenOK, session, window
<1>3. CASE ~Busy
  <2>1. run' \in 1 .. More(1, MaxRuns)
    BY <1>3 DEF StartPlan, DInv, ServerOK, More
  <2>2. ServerOK'
    BY <1>1, <1>3, <2>1, DirTyped DEF StartPlan, DInv, ServerOK, Phases
  <2>3. WindowOK'
    BY <1>3, <2>2, DrawEffect DEF StartPlan, DInv, WindowOK
  <2> QED
    BY <2>2, <2>3 DEF DInv
<1> QED
  BY <1>2, <1>3

(* What a screen offers is a row of the tree, a step, or a plan.               *)
LEMMA OfferedTyped ==
  ASSUME NEW v, ScreenOK(v), NEW c \in Offered(v)
  PROVE  \/ c.act = "select" /\ c.node \in Nodes
         \/ c.act = "focus" /\ c.row \in Int
         \/ c.act \in {"start", "cancel"}
<1>1. v.selected.project \in Projects
  BY NodeShape DEF ScreenOK
<1>2. \A n : Select(n).act = "select" /\ Select(n).node = n
  BY DEF Select
<1>3. \A i : Focus(i).act = "focus" /\ Focus(i).row = i
  BY DEF Focus
<1>4. Run.act = "start" /\ Cancel.act = "cancel"
  BY DEF Run, Cancel
<1>5. \A p \in Projects : Round(p) \in Nodes /\ \A i \in RowIds : Case(p, i) \in Nodes
  BY DEF Nodes
<1>6. CASE c \in TreeOffers(v)
  BY <1>2, <1>6 DEF TreeOffers
<1>7. CASE c \in PaletteOffers(v)
  BY <1>2, <1>4, <1>5, <1>7 DEF PaletteOffers, If
<1>8. CASE c \in StatusBarOffers(v)
  BY <1>2, <1>4, <1>8 DEF StatusBarOffers, If, ScreenOK
<1>9. CASE c \in CampaignPaneOffers(v) \cup RollupOffers(v)
  BY <1>1, <1>2, <1>4, <1>5, <1>9 DEF CampaignPaneOffers, RollupOffers, If, ScreenOK
<1>10. CASE c \in DonePaneOffers(v) \cup UnitCardOffers(v)
  BY <1>1, <1>2, <1>4, <1>5, <1>10 DEF DonePaneOffers, UnitCardOffers, If
<1>11. CASE c \in StepPaneOffers(v)
  BY <1>3, <1>4, <1>11 DEF StepPaneOffers, StepHeaderOffers, StepFooterOffers, If, ScreenOK
<1> QED
  BY <1>6, <1>7, <1>8, <1>9, <1>10, <1>11 DEF Offered, PaneOffers, ScreenOK, Panes

-----------------------------------------------------------------------------
(* The invariant.                                                           *)

LEMMA InitHolds == Init => DInv
<1> SUFFICES ASSUME Init PROVE DInv
  OBVIOUS
<1>1. past \in [Projects -> Dir]
  <2>1. [run |-> 1, row |-> Rows] \in Dir
    BY DEF Dir
  <2> QED
    BY <2>1, DirTyped DEF Init
<1>2. follow \in BOOLEAN /\ stopping \in BOOLEAN
  BY DEF Init
<1>3. run \in 1 .. More(1, MaxRuns) /\ next \in RowIds /\ focus \in RowIds
      /\ written \in 0 .. Rows
  BY DEF Init, More, RowIds
<1>4. selected \in Nodes
  BY DEF Init, Nodes
<1>5. ServerOK
  BY <1>1, <1>2, <1>3, <1>4, DirTyped DEF Init, ServerOK, Phases
<1>6. ScreenOK(screen)
  BY <1>5, ViewTyped DEF Init
<1>7. comment \in Dir
  BY DirTyped DEF Init
<1>8. posts \in [1 .. Posts -> Post]
  <2>1. NoPost \in Post
    BY DEF NoPost, Post
  <2> QED
    BY <2>1 DEF Init
<1> QED
  BY <1>5, <1>6, <1>7, <1>8 DEF DInv, WindowOK

LEMMA UseHolds ==
  ASSUME DInv, NEW c \in Offered(screen), Use(c)
  PROVE  DInv'
<1>1. ServerOK /\ WindowOK /\ ScreenOK(screen) /\ posts \in [1 .. Posts -> Post]
  BY DEF DInv, WindowOK
<1>2. CASE c.act = "select" /\ c.node \in Nodes
  <2>1. SelectNode(c.node)
    BY <1>2 DEF Use
  <2>2. ServerOK'
    BY <1>1, <1>2, <2>1, SelectEffect
  <2> QED
    BY <1>1, <2>1, <2>2, DrawEffect DEF SelectNode, DInv
<1>3. CASE c.act = "focus" /\ c.row \in Int
  <2>1. FocusStep(c.row)
    BY <1>3 DEF Use
  <2>2. focus' \in RowIds /\ follow' \in BOOLEAN
    BY <1>1, <1>3, <2>1, FocusEffect DEF FocusStep, ServerOK
  <2>3. ServerOK'
    BY <1>1, <2>1, <2>2 DEF FocusStep, ServerOK, workspace
  <2> QED
    BY <1>1, <2>1, <2>3, DrawEffect DEF FocusStep, DInv
<1>4. CASE c.act = "start"
  BY <1>4, StartEffect DEF Use
<1>5. CASE c.act = "cancel"
  <2>1. CancelPlan
    BY <1>5 DEF Use
  <2>2. stopping' \in BOOLEAN
    BY <2>1 DEF CancelPlan, Busy
  <2>3. ServerOK'
    BY <1>1, <2>1, <2>2 DEF CancelPlan, ServerOK, session, workspace
  <2> QED
    BY <1>1, <2>1, <2>3, DrawEffect DEF CancelPlan, DInv
<1> QED
  BY <1>1, <1>2, <1>3, <1>4, <1>5, OfferedTyped

LEMMA FormHolds == DInv /\ FormStep => DInv'
<1> SUFFICES ASSUME DInv, FormStep PROVE DInv'
  OBVIOUS
<1>1. ServerOK /\ WindowOK /\ ScreenOK(screen) /\ posts \in [1 .. Posts -> Post]
      /\ comment \in Dir /\ screen.dir \in Dir
  BY DEF DInv, WindowOK, ScreenOK
<1>2. NoPost \in Post
  BY DEF NoPost, Post
<1>3. CASE Type
  <2>1. ServerOK'
    BY <1>1, <1>3, ServerRests DEF Type, server
  <2> QED
    BY <1>1, <1>3, <2>1 DEF Type, DInv, WindowOK
<1>4. ASSUME NEW verdict \in {"pass", "fail", "fail_stop"}, Press(verdict) PROVE DInv'
  <2>1. ServerOK'
    BY <1>1, <1>4, ServerRests DEF Press, server
  <2>2. [answer |-> [verdict |-> verdict, seen |-> screen.dir, note |-> comment],
         mine |-> TRUE] \in Post
    BY <1>1 DEF Post, Answer
  <2>3. posts' \in [1 .. Posts -> Post]
    BY <1>1, <1>4, <2>2 DEF Press
  <2> QED
    BY <1>1, <1>4, <2>1, <2>3 DEF Press, DInv, WindowOK
<1>5. ASSUME NEW k \in DOMAIN posts, Deliver(k) \/ Lose(k) PROVE DInv'
  <2>1. k \in 1 .. Posts /\ posts[k].answer \in Answer \cup {NoAnswer}
    BY <1>1 DEF Post
  <2>2. HandOver(k) \/ UNCHANGED handed => handed' \in Answer \cup {NoAnswer}
    BY <1>1, <2>1 DEF HandOver, ServerOK
  <2>3. ServerOK'
    BY <1>1, <1>5, <2>2 DEF Deliver, Lose, ServerOK, session, workspace
  <2>4. [posts EXCEPT ![k] = NoPost] \in [1 .. Posts -> Post]
    BY <1>1, <1>2
  <2>5. WindowOK'
    <3>1. CASE screen' = screen /\ comment' = comment /\ posts' = [posts EXCEPT ![k] = NoPost]
      BY <1>1, <2>4, <3>1 DEF WindowOK
    <3>2. CASE Draw(View', [posts EXCEPT ![k] = NoPost])
      BY <1>1, <2>3, <2>4, <3>2, DrawEffect
    <3> QED
      BY <1>5, <3>1, <3>2 DEF Deliver, Lose
  <2> QED
    BY <2>3, <2>5 DEF DInv
<1> QED
  BY <1>3, <1>4, <1>5 DEF FormStep

LEMMA StepHolds == DInv /\ [Next]_vars => DInv'
<1> SUFFICES ASSUME DInv, [Next]_vars PROVE DInv'
  OBVIOUS
<1>1. CASE WorkerStep
  <2>1. ServerOK'
    BY <1>1, WorkerEffect DEF DInv
  <2>2. UNCHANGED window
    BY <1>1 DEF WorkerStep, Open, Pass, Park, Wake, Halt
  <2> QED
    BY <2>1, <2>2 DEF DInv, WindowOK, ScreenOK, window
<1>2. CASE FormStep
  BY <1>2, FormHolds
<1>3. CASE Refresh
  <2>1. ServerOK'
    BY <1>3, ServerRests DEF Refresh, server, DInv
  <2>2. WindowOK /\ posts \in [1 .. Posts -> Post]
    BY DEF DInv, WindowOK
  <2> QED
    BY <1>3, <2>1, <2>2, DrawEffect DEF Refresh, DInv
<1>4. ASSUME NEW c \in Offered(screen), Use(c) PROVE DInv'
  BY <1>4, UseHolds
<1>5. CASE UNCHANGED vars
  BY <1>5, ServerRests DEF vars, server, DInv, WindowOK
<1> QED
  BY <1>1, <1>2, <1>3, <1>4, <1>5 DEF Next, WindowStep

LEMMA DeskInvariant == Spec => []DInv
BY InitHolds, StepHolds, PTL DEF Spec

-----------------------------------------------------------------------------
(* The theorems.                                                            *)

(* TypeOK: no row, step or answer that the round, the tree or the form does not  *)
(* have.                                                                    *)
THEOREM DeskTypeCorrect == Spec => []TypeOK
<1>1. DInv => TypeOK
  BY DEF DInv, ServerOK, WindowOK, ScreenOK, TypeOK
<1> QED
  BY <1>1, DeskInvariant, PTL

(* LeavingIsSafe: from wherever the reviewer went, StatusBar or StepPane leads    *)
(* back to the parked step, if nothing was started meanwhile.                  *)
THEOREM LeavingStaysSafe == Spec => []LeavingIsSafe
<1>1. DInv => LeavingIsSafe
  <2> SUFFICES ASSUME DInv, phase = "awaiting", running = owner PROVE Reachable(View)
    BY DEF LeavingIsSafe
  <2>1. owner \in Projects /\ next \in RowIds
    BY DEF DInv, ServerOK
  <2>2. Painted
    BY DEF Painted, Opened
  <2>3. PendingKey = Case(owner, next) /\ PendingKey # NoNode
    BY <2>1, <2>2 DEF PendingKey, Case, NoNode
  <2>4. View.awaiting = TRUE /\ View.pendingKey = PendingKey /\ View.selected = selected
    BY DEF View
  <2>5. CASE selected # PendingKey
    BY <2>3, <2>4, <2>5 DEF Reachable, StatusBarOffers, If
  <2>6. CASE selected = PendingKey
    <3>1. IsLive(selected) /\ HoldsLive(selected)
      BY <2>2, <2>3, <2>6 DEF IsLive, HoldsLive, Case
    <3>2. Busy
      BY DEF Busy
    <3>3. Pane(selected) = "review"
      BY <2>3, <2>6, <3>1, <3>2 DEF Pane, Case
    <3>4. View.form <=> AwaitingVerdict
      BY <3>1, <3>3 DEF View
    <3>5. View.pane = "review" /\ View.focus = EffectiveFocus /\ View.pending = next
      BY <3>1, <3>3 DEF View
    <3>6. ~View.over
      BY DEF View
    <3>7. CASE AwaitingVerdict
      BY <3>4, <3>7 DEF Reachable
    <3>8. CASE ~AwaitingVerdict
      <4>1. EffectiveFocus # next
        BY <3>8 DEF AwaitingVerdict
      <4> QED
        BY <3>4, <3>5, <3>6, <3>8, <4>1 DEF Reachable, StepFooterOffers, If
    <3> QED
      BY <3>7, <3>8
  <2> QED
    BY <2>5, <2>6
<1> QED
  BY <1>1, DeskInvariant, PTL

(* CommentStaysWithItsStep: StepPane empties its box whenever the step under it   *)
(* changes, however the change reached the screen.                            *)
THEOREM CommentsStay == Spec => []CommentStaysWithItsStep
<1>1. Init => CommentStaysWithItsStep
  BY DEF Init, CommentStaysWithItsStep
<1>2. ASSUME DInv, CommentStaysWithItsStep, [Next]_vars PROVE CommentStaysWithItsStep'
  <2>1. ASSUME screen' = screen, comment' = comment PROVE CommentStaysWithItsStep'
    BY <1>2, <2>1 DEF CommentStaysWithItsStep
  <2>2. ASSUME NEW v, NEW inFlight, Draw(v, inFlight) PROVE CommentStaysWithItsStep'
    BY <1>2, <2>2 DEF Draw, CommentStaysWithItsStep
  <2>3. CASE WorkerStep
    BY <2>1, <2>3 DEF WorkerStep, Open, Pass, Park, Wake, Halt, window
  <2>4. CASE Type
    BY <1>2, <2>4 DEF Type, CommentStaysWithItsStep, DInv, WindowOK, ScreenOK
  <2>5. ASSUME NEW verdict, Press(verdict) PROVE CommentStaysWithItsStep'
    BY <2>1, <2>5 DEF Press
  <2>6. ASSUME NEW k, Deliver(k) \/ Lose(k) PROVE CommentStaysWithItsStep'
    BY <2>1, <2>2, <2>6 DEF Deliver, Lose
  <2>7. CASE Refresh
    BY <2>2, <2>7 DEF Refresh
  <2>8. ASSUME NEW c \in Offered(screen), Use(c) PROVE CommentStaysWithItsStep'
    <3>1. \/ \E n : SelectNode(n) \/ \E i : FocusStep(i) \/ StartPlan \/ CancelPlan
      BY <1>2, <2>8, OfferedTyped DEF Use, DInv, WindowOK
    <3> QED
      BY <2>1, <2>2, <3>1 DEF SelectNode, FocusStep, StartPlan, CancelPlan, window
  <2>9. CASE UNCHANGED vars
    BY <2>1, <2>9 DEF vars
  <2> QED
    BY <1>2, <2>3, <2>4, <2>5, <2>6, <2>7, <2>8, <2>9 DEF Next, FormStep, WindowStep
<1> QED
  BY <1>1, <1>2, DeskInvariant, PTL DEF Spec

(* JumpLeadsToTheForm: a row opened by its key is focused by its name in         *)
(* _focus_live_case, so the pane is on the parked step where the name is its   *)
(* own, and on a step whose footer leads there where an earlier row has it.    *)
THEOREM JumpsLeadToTheForm == Spec => JumpLeadsToTheForm
<1>1. ASSUME DInv, Jumps, [Next]_vars PROVE LandsByTheForm(screen')
  <2> DEFINE row == RowOf(owner, next)
             v == screen'
  <2>1. SelectNode(PendingKey)
    <3>1. ~ UNCHANGED selected
      BY <1>1 DEF Jumps
    <3>2. ~WorkerStep /\ ~FormStep /\ ~Refresh /\ ~UNCHANGED vars
      BY <3>1 DEF WorkerStep, Open, Pass, Park, Wake, Halt, FormStep, Type, Press,
                  Deliver, Lose, Refresh, vars, workspace
    <3>3. PICK c \in Offered(screen) : Use(c)
      BY <1>1, <3>2 DEF Next, WindowStep
    <3>4. ~StartPlan /\ ~CancelPlan /\ \A i : ~FocusStep(i)
      BY <3>1 DEF StartPlan, CancelPlan, FocusStep, workspace
    <3>5. SelectNode(c.node)
      BY <1>1, <3>3, <3>4, OfferedTyped DEF Use, DInv, WindowOK
    <3> QED
      BY <1>1, <3>5 DEF SelectNode, Jumps
  <2>2. /\ Painted /\ PendingKey = Case(owner, next) /\ next \in RowIds
        /\ owner \in Projects /\ ServerOK /\ phase = "awaiting"
    BY <1>1 DEF Jumps, PendingKey, DInv, ServerOK
  <2>3. /\ IsLive(PendingKey) /\ PendingKey.kind = "case"
        /\ PendingKey.project = owner /\ PendingKey.row = next
    BY <2>2 DEF IsLive, Case
  <2>4. /\ row \in RowIds /\ row <= next /\ Name[owner][row] = Name[owner][next]
        /\ row = next <=> \A i \in 1 .. next - 1 : Name[owner][i] # Name[owner][next]
    BY <2>2, RowOfTyped
  <2> HIDE DEF row
  <2>5. row \in 1 .. MaxFocus /\ row \in Int
    <3>1. MaxFocus \in RowIds
      BY <2>2, FocusedTyped
    <3>2. MaxFocus = More(1, More(written, next)) /\ written \in Int /\ next \in Int
      BY <2>2 DEF MaxFocus, ServerOK, RowIds
    <3>3. next <= MaxFocus
      BY <3>2 DEF More
    <3> QED
      BY <2>2, <2>4, <3>1, <3>3 DEF RowIds
  <2>6. FocusOn(row)
    BY <2>1, <2>3 DEF SelectNode, row
  <2>7. follow' = FALSE /\ focus' = row
    BY <2>2, <2>5, <2>6, FocusEffect
  <2>8. /\ UNCHANGED <<phase, running, owner, next>> /\ screen' = View'
        /\ phase' = "awaiting" /\ selected' = PendingKey
    BY <1>1, <2>1, <2>2 DEF SelectNode, Draw, Jumps
  <2>9. HoldsLive(selected)' /\ IsLive(selected)' /\ Busy'
    BY <2>2, <2>3, <2>8 DEF HoldsLive, IsLive, Painted, Opened, Busy, Case
  <2>10. EffectiveFocus' = row
    BY <2>7, <2>8 DEF EffectiveFocus
  <2>11. Pane(selected)' = "review"
    BY <2>3, <2>8, <2>9 DEF Pane
  <2>12. v.form <=> row = next
    BY <2>8, <2>9, <2>10, <2>11 DEF View, AwaitingVerdict
  <2>13. v.focus = row /\ v.pending = next /\ ~v.over
    BY <2>8, <2>9, <2>10 DEF View
  <2>14. v.form \/ Focus(next) \in StepFooterOffers(v)
    BY <2>12, <2>13 DEF StepFooterOffers, If
  <2> QED
    BY <2>4, <2>12, <2>13, <2>14 DEF LandsByTheForm
<1>2. DInv /\ [Next]_vars => [Jumps => LandsByTheForm(screen')]_vars
  BY <1>1
<1> QED
  BY <1>2, DeskInvariant, PTL DEF Spec, JumpLeadsToTheForm
=============================================================================
