----------------------------- MODULE RoundSession ------------------------------
(***************************************************************************)
(* A live round of heimdall-qa (src/heimdall_qa/session.py), and the suite   *)
(* runner it drives (suite_run.py): the worker thread sends one step after    *)
(* another, decides what decides itself and parks on the rest, while request  *)
(* threads move the pane with focus.  The steps of a round are its cases; the *)
(* steps of a suite are its visible ones, loops and probes.                  *)
(*                                                                         *)
(* One action is what the worker does between two moments at which another   *)
(* thread, or a crash, could tell the difference.  What a case sends and gets *)
(* back is its automatic verdict; a loop's is one per iteration.             *)
(***************************************************************************)
EXTENDS Integers, SequencesExt, FiniteSetsExt

CONSTANTS
  Steps,     (* how many steps the round has                                *)
  Gated,     (* the steps whose case is marked "gate: human"                *)
  Loops      (* what the iterations of a loop may come back with            *)

Verdicts == {"pass", "fail", "skip"}
StepIds  == 1 .. Steps

ASSUME RoundAssumption ==
  /\ Steps \in Nat
  /\ Gated \subseteq StepIds
  /\ Loops \subseteq Seq(Verdicts) \ {<<>>}

VARIABLES
  mode,        (* _mode: walk or review                                      *)
  suite,       (* whether the round is a suite                               *)
  phase,       (* _phase                                                     *)
  nextIndex,   (* _next_index, counted from one                              *)
  inflight,    (* _inflight, or 0                                            *)
  follow,      (* _follow: the pane follows the run                          *)
  focusIndex,  (* _focus_index, counted from one                             *)
  pending,     (* _pending or _suite_pending                                 *)
  dirs,        (* _item_dirs: the steps whose directory was remembered       *)
  records,     (* _records of a round, SuiteRun.records of a suite           *)
  items,       (* _item_verdicts of a suite                                  *)
  human,       (* _human                                                     *)
  stopped,     (* SuiteRun._failed                                           *)
  disk,        (* the verdict.json of each step's directory                  *)
  summary,     (* summary.json                                               *)
  pc,          (* where the worker is                                        *)
  go           (* continue_round of the verdict being applied                *)

pane == <<follow, focusIndex>>
book == <<records, items, human>>
vars == <<mode, suite, phase, nextIndex, inflight, follow, focusIndex, pending,
          dirs, records, items, human, stopped, disk, summary, pc, go>>

-----------------------------------------------------------------------------
(* Values.                                                                  *)

Phases    == {"start", "running", "step", "done"}
Labels    == {"start", "advance", "wire", "landed", "write", "parked", "answer",
              "entered", "cleared", "finish", "close", "done", "aborted"}
NoPending == [auto |-> "none", ask |-> FALSE]
Pending   == [auto : Verdicts, ask : BOOLEAN]
NoFile    == [status |-> "none", actor |-> "none"]
File      == [status : Verdicts, actor : {"auto", "human"}]
Record    == [step : StepIds, verdict : Verdicts]
NoSummary == [written |-> FALSE, records |-> <<>>, human |-> <<>>]

Goto(label) == pc' = label
Moves(from, to) == pc = from /\ Goto(to)

Write(i, status, actor) ==
  disk' = [disk EXCEPT ![i] = [status |-> status, actor |-> actor]]

(* The step after which everything is still to come.                        *)
Largest(S) == IF S = {} THEN 0 ELSE Max(S)

-----------------------------------------------------------------------------
(* What view() shows.                                                       *)

(* _queue and _suite_queue: a round's row is looked up among the records, a  *)
(* suite's is the verdict at its position.                                  *)
Row(i) ==
  IF suite
    THEN IF i <= Len(items) THEN items[i] ELSE "pending"
    ELSE IF \E r \in Range(records) : r.step = i
           THEN records[Max({n \in DOMAIN records : records[n].step = i})].verdict
           ELSE "pending"

(* _max_focus: the furthest step the pane may be moved to.                   *)
MaxFocus ==
  Max({1, Largest(dirs)} \cup (IF phase = "step" THEN {nextIndex} ELSE {}))

(* _effective_focus: the step the pane is on.                               *)
EffectiveFocus ==
  IF follow /\ dirs # {} THEN Largest(dirs) ELSE focusIndex

(* view().awaiting_verdict: the verdict form is drawn for the step on screen. *)
Awaiting ==
  /\ phase = "step"
  /\ EffectiveFocus = nextIndex
  /\ pending # NoPending

(* _live_mark: where the run is.                                            *)
Live(i) ==
  CASE i = inflight -> "running"
    [] i # inflight /\ phase = "step" /\ pending # NoPending /\ i = nextIndex
         -> "awaiting"
    [] OTHER -> ""

(* engine._decided: the rows that are not pending.                          *)
Decided == Cardinality({i \in StepIds : Row(i) # "pending"})

-----------------------------------------------------------------------------
(* Seeded faults.  Each stands for a plausible slip in the operator it is     *)
(* named after; put in its place, it breaks the property named beside it.    *)

(* TypeOK: the loop runs one past the last step.                            *)
AdvanceOffByOne ==
  /\ pc = "advance"
  /\ IF nextIndex <= Steps + 1 /\ ~(suite /\ stopped)
       THEN phase' = "running" /\ inflight' = nextIndex /\ Goto("wire")
       ELSE Goto("finish") /\ UNCHANGED <<phase, inflight>>
  /\ UNCHANGED <<mode, suite, nextIndex, pane, pending, dirs, book, stopped,
                 disk, summary, go>>

(* ImplementsSessionLife: a case goes on the wire and the phase stays.        *)
AdvanceKeepsPhase ==
  /\ pc = "advance"
  /\ IF nextIndex <= Steps /\ ~(suite /\ stopped)
       THEN inflight' = nextIndex /\ Goto("wire")
       ELSE Goto("finish") /\ UNCHANGED inflight
  /\ UNCHANGED <<mode, suite, phase, nextIndex, pane, pending, dirs, book,
                 stopped, disk, summary, go>>

(* RowsAreOnDisk: the verdict of a step that decides itself is not written.  *)
WriteAutoNothing ==
  /\ Moves("write", "answer")
  /\ UNCHANGED <<mode, suite, phase, nextIndex, inflight, pane, pending, dirs,
                 book, stopped, disk, summary, go>>

(* FormIsForTheStepOnScreen: the pending step is not cleared.               *)
ClearNothing ==
  /\ Moves("entered", "cleared")
  /\ UNCHANGED <<mode, suite, phase, nextIndex, inflight, pane, pending, dirs,
                 book, stopped, disk, summary, go>>

(* SummaryIsTheVerdicts: a skipped case is not recorded.                     *)
EnterDropsSkips(status) ==
  IF suite
    THEN items' = Append(items, status) /\ UNCHANGED records
    ELSE /\ records' = IF status = "skip" THEN records
                       ELSE Append(records, [step |-> nextIndex, verdict |-> status])
         /\ UNCHANGED items

(* DecidedStaysDecided: a suite's queue is the newest verdict first.         *)
EnterInFront(status) ==
  IF suite
    THEN items' = <<status>> \o items /\ UNCHANGED records
    ELSE /\ records' = Append(records, [step |-> nextIndex, verdict |-> status])
         /\ UNCHANGED items

(* OneCaseAtATime: the index stays, and the case is sent again.              *)
NextStays ==
  /\ Moves("cleared", IF phase = "running" \/ (go /\ ~(suite /\ stopped))
                        THEN "advance" ELSE "finish")
  /\ go' = FALSE
  /\ UNCHANGED <<mode, suite, phase, nextIndex, inflight, pane, pending, dirs,
                 book, stopped, disk, summary>>

(* NobodySkipsTheHuman: review takes a gated pass by itself.                 *)
ExecuteUngated(auto) ==
  /\ ~suite
  /\ Moves("wire", IF auto = "skip" \/ (mode = "review" /\ auto = "pass")
                     THEN "write" ELSE "landed")
  /\ pending' = [auto |-> auto, ask |-> FALSE]
  /\ dirs' = dirs \cup {nextIndex}
  /\ inflight' = 0
  /\ UNCHANGED <<mode, suite, phase, nextIndex, pane, book, stopped, disk,
                 summary, go>>

(* WorkerComesBack: the round closes only over a full set of directories.    *)
FinishWhenFull ==
  /\ Moves("finish", "close")
  /\ dirs = StepIds
  /\ summary' = [written |-> TRUE, records |-> records, human |-> human]
  /\ UNCHANGED <<mode, suite, phase, nextIndex, inflight, pane, pending, dirs,
                 book, stopped, disk, go>>

-----------------------------------------------------------------------------
Init ==
  /\ mode \in {"walk", "review"}
  /\ suite \in BOOLEAN
  /\ phase = "start"
  /\ nextIndex = 1
  /\ inflight = 0
  /\ follow = TRUE
  /\ focusIndex = 1
  /\ pending = NoPending
  /\ dirs = {}
  /\ records = <<>>
  /\ items = <<>>
  /\ human = <<>>
  /\ stopped = FALSE
  /\ disk = [i \in StepIds |-> NoFile]
  /\ summary = NoSummary
  /\ pc = "start"
  /\ go = FALSE

(* start: the run directory exists and the walk begins.                     *)
Start ==
  /\ Moves("start", "advance")
  /\ UNCHANGED <<mode, suite, phase, nextIndex, inflight, pane, pending, dirs,
                 book, stopped, disk, summary, go>>

(* _advance and _advance_suite, the head of the loop: the watcher hears of   *)
(* the case before it goes on the wire.                                     *)
Advance ==
  /\ pc = "advance"
  /\ IF nextIndex <= Steps /\ ~(suite /\ stopped)
       THEN phase' = "running" /\ inflight' = nextIndex /\ Goto("wire")
       ELSE Goto("finish") /\ UNCHANGED <<phase, inflight>>
  /\ UNCHANGED <<mode, suite, nextIndex, pane, pending, dirs, book, stopped,
                 disk, summary, go>>

(* The step came back: its directory is remembered and it waits to be        *)
(* decided, by itself or by a human.                                        *)
Landed(auto, ask) ==
  /\ Moves("wire", IF ask THEN "landed" ELSE "write")
  /\ pending' = [auto |-> auto, ask |-> ask]
  /\ dirs' = dirs \cup {nextIndex}
  /\ inflight' = 0
  /\ UNCHANGED <<mode, suite, phase, nextIndex, pane, items, human, summary, go>>

(* _execute_current: a case, which asks unless it was skipped or is a pass   *)
(* that review may take by itself (_should_auto).                           *)
ExecuteCase(auto) ==
  /\ ~suite
  /\ Landed(auto, /\ auto # "skip"
                  /\ mode = "walk" \/ auto = "fail" \/ nextIndex \in Gated)
  /\ UNCHANGED <<records, stopped, disk>>

(* _execute_visible of a loop: every iteration is recorded, and has its own  *)
(* verdict.json; the last one's directory stands for the step.  A poll that  *)
(* never settles stops the suite.                                           *)
ExecuteLoop(loop, stop) ==
  LET failed == stop \/ "fail" \in Range(loop)
  IN /\ suite
     /\ stop => Last(loop) = "fail"
     /\ Landed(IF failed THEN "fail" ELSE "pass", mode = "walk" \/ failed)
     /\ records' = records \o [n \in DOMAIN loop |->
                                 [step |-> nextIndex, verdict |-> loop[n]]]
     /\ stopped' = (stopped \/ stop)
     /\ Write(nextIndex, Last(loop), "auto")

(* _execute_visible of a probe, which is no case and so not gated: recorded,  *)
(* and its verdict left to be written.                                      *)
ExecuteProbe(verdict) ==
  /\ suite
  /\ nextIndex \notin Gated
  /\ Landed(verdict, mode = "walk" \/ verdict = "fail")
  /\ records' = Append(records, [step |-> nextIndex, verdict |-> verdict])
  /\ UNCHANGED <<stopped, disk>>

(* The round stands on the step until a human decides it, and the pane is    *)
(* brought to it.                                                           *)
Park ==
  /\ Moves("landed", "parked")
  /\ phase' = "step"
  /\ focusIndex' = nextIndex
  /\ UNCHANGED <<mode, suite, nextIndex, inflight, follow, pending, dirs, book,
                 stopped, disk, summary, go>>

(* What decides itself is written to disk ...                               *)
WriteAuto ==
  /\ Moves("write", "answer")
  /\ Write(nextIndex, pending.auto, "auto")
  /\ UNCHANGED <<mode, suite, phase, nextIndex, inflight, pane, pending, dirs,
                 book, stopped, summary, go>>

(* ... and so is what a human decided: the first half of apply_verdict.      *)
WriteHuman(status, continue) ==
  /\ Moves("parked", "answer")
  /\ Write(nextIndex, status, "human")
  /\ go' = continue
  /\ UNCHANGED <<mode, suite, phase, nextIndex, inflight, pane, pending, dirs,
                 book, stopped, summary>>

(* The verdict of the pending step enters the queue.  A suite has recorded   *)
(* its steps as they came back, and does not again.                         *)
Enter(status) ==
  IF suite
    THEN items' = Append(items, status) /\ UNCHANGED records
    ELSE /\ records' = Append(records, [step |-> nextIndex, verdict |-> status])
         /\ UNCHANGED items

(* A step that decided itself is entered by the loop ...                     *)
EnterAuto ==
  /\ phase = "running"
  /\ Moves("answer", "entered")
  /\ Enter(pending.auto)
  /\ UNCHANGED <<mode, suite, phase, nextIndex, inflight, pane, pending, dirs,
                 human, stopped, disk, summary, go>>

(* ... and a human's by apply_verdict, where the phase is still "step".      *)
EnterHuman ==
  /\ phase = "step"
  /\ Moves("answer", "entered")
  /\ Enter(disk[nextIndex].status)
  /\ human' = Append(human, disk[nextIndex].status)
  /\ UNCHANGED <<mode, suite, phase, nextIndex, inflight, pane, pending, dirs,
                 stopped, disk, summary, go>>

(* Nothing is pending any more: the form and the mark are off the step, which *)
(* view, on a request thread, could still draw over the row just entered.    *)
ClearPending ==
  /\ Moves("entered", "cleared")
  /\ pending' = NoPending
  /\ UNCHANGED <<mode, suite, phase, nextIndex, inflight, pane, dirs, book,
                 stopped, disk, summary, go>>

(* The index moves, and the round goes on unless the human, or the suite     *)
(* itself, said stop.                                                       *)
NextStep ==
  /\ Moves("cleared", IF phase = "running" \/ (go /\ ~(suite /\ stopped))
                        THEN "advance" ELSE "finish")
  /\ nextIndex' = nextIndex + 1
  /\ go' = FALSE
  /\ UNCHANGED <<mode, suite, phase, inflight, pane, pending, dirs, book, stopped,
                 disk, summary>>

(* cancel: nobody decides the parked step.                                  *)
Cancel ==
  /\ Moves("parked", "finish")
  /\ pending' = NoPending
  /\ UNCHANGED <<mode, suite, phase, nextIndex, inflight, pane, dirs, book,
                 stopped, disk, summary, go>>

(* _finish: the summary and the evidence are written ...                    *)
Finish ==
  /\ Moves("finish", "close")
  /\ summary' = [written |-> TRUE, records |-> records, human |-> human]
  /\ UNCHANGED <<mode, suite, phase, nextIndex, inflight, pane, pending, dirs,
                 book, stopped, disk, go>>

(* ... and only then does the round call itself done.                       *)
Close ==
  /\ Moves("close", "done")
  /\ phase' = "done"
  /\ pending' = NoPending
  /\ UNCHANGED <<mode, suite, nextIndex, inflight, pane, dirs, book, stopped,
                 disk, summary, go>>

(* An exception leaves the session where it stands.  Between entering a       *)
(* verdict and moving the index nothing is called that could raise one.      *)
Abort ==
  /\ pc \notin {"parked", "entered", "cleared", "done", "aborted"}
  /\ Goto("aborted")
  /\ UNCHANGED <<mode, suite, phase, nextIndex, inflight, pane, pending, dirs,
                 book, stopped, disk, summary, go>>

(* focus, from a request thread.                                            *)
Focus(i) ==
  /\ phase \in {"step", "running", "done"}
  /\ follow' = FALSE
  /\ focusIndex' = Min({i, MaxFocus})
  /\ UNCHANGED <<mode, suite, phase, nextIndex, inflight, pending, dirs, book,
                 stopped, disk, summary, pc, go>>

Execute ==
  \/ \E auto \in Verdicts : ExecuteCase(auto)
  \/ \E loop \in Loops, stop \in BOOLEAN : ExecuteLoop(loop, stop)
  \/ \E verdict \in {"pass", "fail"} : ExecuteProbe(verdict)

Proceed ==
  \/ Start \/ Advance \/ Execute \/ Park \/ WriteAuto
  \/ EnterAuto \/ EnterHuman \/ ClearPending \/ NextStep
  \/ Finish \/ Close

Worker == Proceed \/ Abort

Reviewer ==
  \/ \E status \in {"pass", "fail"}, continue \in BOOLEAN : WriteHuman(status, continue)
  \/ Cancel
  \/ \E i \in 1 .. Steps + 1 : Focus(i)

Next == Worker \/ Reviewer

Spec == Init /\ [][Next]_vars

(* The worker runs; a human need not answer, and no exception is owed.       *)
FairSpec == Spec /\ WF_vars(Proceed)
-----------------------------------------------------------------------------
(* What a round promises.                                                   *)

(* Every variable stays in its range: no step index ever leaves the round,    *)
(* and the queue never holds more verdicts than the round has steps.         *)
TypeOK ==
  /\ mode \in {"walk", "review"} /\ suite \in BOOLEAN
  /\ phase \in Phases /\ pc \in Labels
  /\ nextIndex \in 1 .. Steps + 1
  /\ inflight \in 0 .. Steps
  /\ follow \in BOOLEAN /\ focusIndex \in 1 .. Steps + 1
  /\ pending \in Pending \cup {NoPending}
  /\ dirs \subseteq StepIds
  /\ records \in Seq(Record)
  /\ items \in Seq(Verdicts) /\ Len(items) <= Steps
  /\ human \in Seq(Verdicts)
  /\ stopped \in BOOLEAN /\ go \in BOOLEAN
  /\ disk \in [StepIds -> File \cup {NoFile}]
  /\ summary \in [written : BOOLEAN, records : Seq(Record), human : Seq(Verdicts)]

(* A row of the queue, which the counters, the feed and the tree are painted  *)
(* from, never tells a verdict that is not on disk: a crash cannot take back *)
(* what the screen has shown.                                               *)
RowsAreOnDisk ==
  \A i \in StepIds : Row(i) # "pending" => disk[i].status = Row(i)

(* "Approving from there would record a decision against a case nobody was   *)
(* looking at" (test_serve.py): the form is drawn, and the row marked as      *)
(* awaiting it, only for a step that ran and that nothing undecided precedes, *)
(* and that has no verdict in the queue.  The one exception is what the code  *)
(* does: a focus that falls between session.py:328 and 330 (319 and 321 of a  *)
(* suite) still draws both over the row whose verdict, on disk, is being      *)
(* entered that very moment.  The row marked as running is the first one      *)
(* without a verdict, always.                                               *)
Frontier(i) ==
  /\ Row(i) = "pending"
  /\ \A j \in 1 .. i - 1 : Row(j) # "pending"

BeingEntered(i) ==
  /\ pc = "entered"
  /\ i = nextIndex
  /\ disk[i] = [status |-> Row(i), actor |-> "human"]

FormIsFor(i) ==
  /\ i \in dirs
  /\ \A j \in 1 .. i - 1 : Row(j) # "pending"
  /\ Row(i) # "pending" => BeingEntered(i)

FormFitsTheStep ==
  /\ Awaiting => FormIsFor(EffectiveFocus)
  /\ \A i \in StepIds : Live(i) = "awaiting" => FormIsFor(i)
  /\ \A i \in StepIds : Live(i) = "running" => Frontier(i)

(* A worker that is parked waits for a form, so there is one to be had: it is *)
(* on screen while the pane follows the run, and a reviewer who browsed away  *)
(* is one focus from it, whatever the bound of focus is computed from.       *)
ParkedCanBeAnswered ==
  pc = "parked" =>
    /\ phase = "step" /\ pending # NoPending
    /\ follow => EffectiveFocus = nextIndex
    /\ Min({nextIndex, MaxFocus}) = nextIndex

(* Where a form is drawn it is the right one, and where one is waited for it   *)
(* can be had.                                                              *)
FormIsForTheStepOnScreen == FormFitsTheStep /\ ParkedCanBeAnswered

(* The summary of a round of cases is what the step directories say: the      *)
(* decided steps in their order, none of the undecided; and whatever the     *)
(* round, its rejection rate is over the verdicts humans gave.               *)
ByHuman(status) ==
  {i \in StepIds : disk[i] = [status |-> status, actor |-> "human"]}

SummaryIsTheVerdicts ==
  summary.written =>
    /\ ~suite => \A i \in StepIds :
         IF i <= Len(summary.records)
           THEN summary.records[i] = [step |-> i, verdict |-> disk[i].status]
           ELSE disk[i] = NoFile
    /\ \A status \in Verdicts :
         Cardinality(ByHuman(status))
           = Cardinality({n \in DOMAIN summary.human : summary.human[n] = status})

(* README.md:546, as far as the code keeps it: whatever shows a verdict no    *)
(* human gave is, in walk, a skipped case; is in no mode a failure; and is,  *)
(* in a round of cases, no gated step unless skipped.  Of a suite's gates     *)
(* nothing is said here: GateAsksHuman is what the README says of them.       *)
ByItself(i) == Row(i) # "pending" /\ disk[i].actor = "auto"

NobodySkipsTheHuman ==
  \A i \in StepIds : ByItself(i) =>
    /\ mode = "walk" => disk[i].status = "skip" /\ ~suite
    /\ disk[i].status # "fail"
    /\ i \in Gated /\ ~suite => disk[i].status = "skip"

(* README.md:546 says review "stops on a failing pack, on a case marked       *)
(* `gate: human`, or at a probe whose `values.*` failed": a gated step is     *)
(* decided by itself only as skipped.  A suite's step never looks at the gate *)
(* (session.py:447), so the code breaks it.                                  *)
GateAsksHuman ==
  \A i \in Gated : ByItself(i) => disk[i].status = "skip"

(* Cases go on the wire in order and once: a case is sent only when it never  *)
(* ran and everything before it has its verdict in the queue.                *)
OneCaseAtATime ==
  [][inflight' # 0 /\ inflight' # inflight =>
       /\ inflight' \notin dirs
       /\ \A i \in 1 .. inflight' - 1 : Row(i) # "pending"]_vars

(* A row that was decided stays as it is, on the screen and on disk, through *)
(* the end of the round and whatever the reviewer browses.                   *)
DecidedStaysDecided ==
  [][\A i \in StepIds : Row(i) # "pending" =>
       Row(i)' = Row(i) /\ disk'[i] = disk[i]]_vars

(* The worker goes forward through the round: to the next step, or to a later *)
(* stage of this one.  No verdict, no cancellation and no exception sends a   *)
(* step again, so a round is bounded by its steps, of which TypeOK bounds    *)
(* the index.                                                               *)
Rank == [start |-> 1, advance |-> 2, wire |-> 3, landed |-> 4, parked |-> 5,
         write |-> 6, answer |-> 7, entered |-> 8, cleared |-> 9,
         finish |-> 10, close |-> 11, done |-> 12, aborted |-> 13]

GoesForward ==
  pc' # pc =>
    \/ nextIndex' > nextIndex
    \/ nextIndex' = nextIndex /\ Rank[pc'] > Rank[pc]

RoundGoesForward == [][GoesForward]_vars

(* A round is a SessionLife to the engine that drives it.                    *)
Life == INSTANCE SessionLife WITH decided <- Decided
ImplementsSessionLife == Life!Spec

(* A worker that was let into the round comes back: with a step for a human,  *)
(* with the round done, or with an exception.                               *)
WorkerComesBack ==
  (pc # "parked") ~> (pc \in {"parked", "done", "aborted"})

=============================================================================
