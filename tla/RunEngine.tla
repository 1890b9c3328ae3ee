------------------------------- MODULE RunEngine -------------------------------
(***************************************************************************)
(* The engine of heimdall-qa (src/heimdall_qa/engine.py): request threads   *)
(* hand it a plan, verdicts and cancellations under one lock, and a worker  *)
(* thread per plan walks the plan's units, each a live RoundSession.        *)
(*                                                                         *)
(* One action is one critical section of the engine's lock (with the        *)
(* thread-local work that leads up to it) or one unlocked read of shared     *)
(* state.  A case, a step and a verdict carry no content: an action chooses  *)
(* among the outcomes the round could have.                                 *)
(***************************************************************************)
EXTENDS Integers, Sequences, FiniteSetsExt

CONSTANTS
  Plans,       (* the plans a caller may hand to start: sequences of units   *)
  MaxUnits,    (* the length of the longest plan                             *)
  MaxRuns,     (* bound: plans started over the engine's life                *)
  MaxInputs    (* bound: control inputs handed over during one plan          *)

Unit == [runnable : BOOLEAN, suite : BOOLEAN, cases : Nat]
UnitIds == 1 .. MaxUnits
Workers == 1 .. MaxRuns

ASSUME BoundsAssumption ==
  /\ MaxUnits \in Nat \ {0}
  /\ MaxRuns \in Nat \ {0}
  /\ MaxInputs \in Nat

ASSUME PlansAssumption ==
  \A p \in Plans : /\ p \in Seq(Unit)
                   /\ Len(p) \in UnitIds

VARIABLES
  phase,       (* _phase                                                     *)
  runs,        (* how many plans were started; _plan and _thread are the last *)
  unitIndex,   (* _unit_index, counted from one                              *)
  counts,      (* _unit_counts: the cases each stored unit decided           *)
  session,     (* _session, as <<worker, unit>>                              *)
  sview,       (* _session_view                                              *)
  verdict,     (* _verdict, stamped with the step that was parked            *)
  cancel,      (* _cancel                                                    *)
  startError,  (* whether _start_error is set                                *)
  error,       (* _error, by its origin                                      *)
  target,      (* _target                                                    *)
  reached,     (* _reached                                                   *)
  silent,      (* an observable moved and _revision has not been bumped since *)
  browse,      (* the view a focus request holds, not yet published          *)
  plan,        (* the plan each worker walks                                 *)
  pc,          (* where each worker is                                       *)
  at,          (* the unit each worker is at                                 *)
  sess,        (* the session objects, by worker and unit                    *)
  answered,    (* the worker's session has had a human verdict               *)
  taken        (* the verdict a worker took and has not applied              *)

shared == <<unitIndex, counts, session, sview, startError, error>>
inputs == <<verdict, cancel, target>>
locals == <<plan, at, sess, answered, taken>>
vars == <<phase, runs, unitIndex, counts, session, sview, verdict, cancel,
          startError, error, target, reached, silent, browse,
          plan, pc, at, sess, answered, taken>>

-----------------------------------------------------------------------------
(* Values.                                                                  *)

Terminal == {"done", "cancelled", "error"}
Settled  == {"idle", "awaiting"} \cup Terminal
Busy     == {"running", "awaiting"}

SessionPhases == {"none", "start", "running", "step", "done"}
SessionState  == [phase : SessionPhases, decided : Nat]
Errors        == {"none", "nothing", "refused", "raised"}

SessionRef == Workers \X UnitIds
NoSession  == <<0, 0>>
NoView     == [of |-> NoSession, phase |-> "none", decided |-> 0]
NoVerdict  == [go |-> FALSE, of |-> NoSession, step |-> 0]
View       == [of : SessionRef, phase : SessionPhases, decided : Nat]
Verdict    == [go : BOOLEAN, of : SessionRef, step : Nat \ {0}]
NotStored  == -1

Labels == {"check", "take", "unit", "build", "advance", "exec", "await",
           "waiting", "apply", "close", "scancel", "store", "after", "reap",
           "last", "raise", "final"}

NewSession == [phase |-> "none", decided |-> 0]
NoSessions == [u \in UnitIds |-> NewSession]

Goto(w, label) == pc' = [pc EXCEPT ![w] = label]
Moves(w, from, to) == pc[w] = from /\ Goto(w, to)

(* _touch: the revision moves, so a stream waiting for a change wakes.      *)
Touch == silent' = FALSE

(* _settle: every input handed over so far has been acted on.               *)
Settle == reached' = target /\ Touch

(* _end: the phase turns terminal.                                          *)
End(p) == phase' = p

UnitOf(w) == plan[w][at[w]]
SessionOf(w) == sess[w][at[w]]
ViewOf(s) == [of |-> s, phase |-> sess[s[1]][s[2]].phase,
              decided |-> sess[s[1]][s[2]].decided]

(* The session of worker w reaches phase p with n cases decided ...         *)
Become(w, p, n) ==
  sess' = [sess EXCEPT ![w][at[w]] = [phase |-> p, decided |-> n]]

(* ... and its view is adopted: _publish.                                   *)
Publish(w, p, n) ==
  /\ Become(w, p, n)
  /\ sview' = [of |-> <<w, at[w]>>, phase |-> p, decided |-> n]
  /\ Touch

-----------------------------------------------------------------------------
Init ==
  /\ phase = "idle"
  /\ runs = 0
  /\ unitIndex = 1
  /\ counts = [u \in UnitIds |-> NotStored]
  /\ session = NoSession
  /\ sview = NoView
  /\ verdict = NoVerdict
  /\ cancel = FALSE
  /\ startError = FALSE
  /\ error = "none"
  /\ target = 0
  /\ reached = 0
  /\ silent = FALSE
  /\ browse = NoView
  /\ plan = [w \in Workers |-> <<>>]
  /\ pc = [w \in Workers |-> "unborn"]
  /\ at = [w \in Workers |-> 1]
  /\ sess = [w \in Workers |-> NoSessions]
  /\ answered = [w \in Workers |-> FALSE]
  /\ taken = [w \in Workers |-> NoVerdict]

-----------------------------------------------------------------------------
(* Seeded faults.  Each stands for a plausible slip in the action it is named *)
(* after; put in its place, it breaks the property named beside it.          *)

(* TypeOK: the current unit is the one after.                               *)
TakeOffByOne(w) ==
  /\ pc[w] = "take"
  /\ unitIndex' = at[w] + 1
  /\ silent' = TRUE
  /\ IF UnitOf(w).runnable
       THEN Goto(w, "unit") /\ UNCHANGED at
       ELSE Goto(w, "check") /\ at' = [at EXCEPT ![w] = @ + 1]
  /\ UNCHANGED <<counts, session, sview, startError, error, inputs, phase, runs,
                 reached, browse, plan, sess, answered, taken>>

(* CountsAreTheSessions: the current unit does not move with the walk.       *)
TakeForgetsIndex(w) ==
  /\ pc[w] = "take"
  /\ IF UnitOf(w).runnable
       THEN Goto(w, "unit") /\ UNCHANGED at
       ELSE Goto(w, "check") /\ at' = [at EXCEPT ![w] = @ + 1]
  /\ UNCHANGED <<shared, inputs, phase, runs, reached, silent, browse,
                 plan, sess, answered, taken>>

(* SettledMeansActedOn: a cancellation is not counted as an input.           *)
CancelUncounted ==
  /\ target < MaxInputs
  /\ phase \in Busy
  /\ cancel' = TRUE
  /\ verdict' = NoVerdict
  /\ Touch
  /\ UNCHANGED <<shared, locals, phase, runs, target, reached, browse, pc>>

(* VerdictAnswersItsStep: the verdict stays behind for the next step.        *)
WakeKeepsVerdict(w) ==
  /\ pc[w] = "waiting"
  /\ verdict # NoVerdict \/ cancel
  /\ phase' = "running"
  /\ Settle
  /\ IF cancel
       THEN Goto(w, "scancel") /\ UNCHANGED taken
       ELSE Goto(w, "apply") /\ taken' = [taken EXCEPT ![w] = verdict]
  /\ UNCHANGED <<shared, verdict, cancel, target, runs, browse, plan, at, sess,
                 answered>>

(* CancelEndsPlan: the worker sleeps through a cancellation.                 *)
WakeOnVerdictOnly(w) ==
  /\ pc[w] = "waiting"
  /\ verdict # NoVerdict
  /\ phase' = "running"
  /\ Settle
  /\ Goto(w, "apply")
  /\ taken' = [taken EXCEPT ![w] = verdict]
  /\ verdict' = NoVerdict
  /\ UNCHANGED <<shared, cancel, target, runs, browse, plan, at, sess, answered>>

(* SessionsFollowLife: the parked step is counted before its verdict.        *)
ParkCounts(w) ==
  /\ Moves(w, "exec", "await")
  /\ Publish(w, "step", SessionOf(w).decided + 1)
  /\ UNCHANGED <<unitIndex, counts, session, startError, error, inputs, phase,
                 runs, reached, browse, plan, at, answered, taken>>

(* TerminalTellsTheTruth: the walk stops one unit early.                     *)
CheckStopsEarly(w) ==
  /\ pc[w] = "check"
  /\ Goto(w, IF at[w] > Len(plan[w]) - 1 /\ at[w] > 1 THEN "last"
             ELSE IF cancel THEN "reap" ELSE "take")
  /\ UNCHANGED <<shared, inputs, locals, phase, runs, reached, silent, browse>>

(* NothingRestsUnannounced: the end of the plan does not bump the revision.  *)
LastUntouched(w) ==
  /\ Moves(w, "last", "final")
  /\ IF (\A u \in UnitIds : counts[u] = NotStored)
          /\ \E u \in DOMAIN plan[runs] : plan[runs][u].runnable
       THEN /\ error' = IF startError THEN "refused" ELSE "nothing"
            /\ End("error")
       ELSE End("done") /\ UNCHANGED error
  /\ UNCHANGED <<unitIndex, counts, session, sview, startError, inputs, locals,
                 runs, reached, silent, browse>>

(* InputsAcknowledged: the thread's last act does not settle its inputs.     *)
FinalUnsettled(w) ==
  /\ Moves(w, "final", "dead")
  /\ IF phase = "running" THEN End("done") ELSE UNCHANGED phase
  /\ Touch
  /\ UNCHANGED <<shared, inputs, locals, runs, reached, browse>>

(* ImplementsPlanRun: the step is put to a human without a look at the       *)
(* cancellation.                                                            *)
AwaitBlindly(w) ==
  /\ Moves(w, "await", "waiting")
  /\ phase' = "awaiting"
  /\ Settle
  /\ UNCHANGED <<shared, inputs, locals, runs, browse>>

(* NoInputIsStranded: the worker parks without acknowledging its inputs.     *)
AwaitUnsettled(w) ==
  /\ pc[w] = "await"
  /\ IF cancel
       THEN Goto(w, "scancel") /\ UNCHANGED phase
       ELSE Goto(w, "waiting") /\ phase' = "awaiting"
  /\ Touch
  /\ UNCHANGED <<shared, inputs, locals, runs, reached, browse>>

(* WalkGoesForward: a refused round is tried again.                         *)
RefuseRetries(w) ==
  /\ pc[w] \in {"advance", "exec"}
  /\ ~answered[w]
  /\ Goto(w, "check")
  /\ startError' = TRUE
  /\ Touch
  /\ UNCHANGED <<unitIndex, counts, session, sview, error, inputs, locals, phase,
                 runs, reached, browse>>

(* ViewsAreOfThePast: the case on the wire is shown as decided.              *)
AdvanceShowsAhead(w) ==
  /\ Moves(w, "advance", "exec")
  /\ SessionOf(w).decided < UnitOf(w).cases
  /\ Become(w, "running", SessionOf(w).decided)
  /\ sview' = [of |-> <<w, at[w]>>, phase |-> "running",
               decided |-> SessionOf(w).decided + 1]
  /\ Touch
  /\ UNCHANGED <<unitIndex, counts, session, startError, error, inputs, phase,
                 runs, reached, browse, plan, at, answered, taken>>

-----------------------------------------------------------------------------
(* Request threads.                                                         *)

(* start: refuse while a plan is going (ROUND_BUSY), else forget everything  *)
(* of the plan before it and give the new one a thread of its own.  What a   *)
(* returned thread held is garbage by then.                                 *)
Collect(f, fresh) == [w \in Workers |-> IF pc[w] = "dead" THEN fresh ELSE f[w]]

Start(p) ==
  /\ runs < MaxRuns
  /\ phase \notin Busy
  /\ phase' = "running"
  /\ runs' = runs + 1
  /\ plan' = [Collect(plan, <<>>) EXCEPT ![runs + 1] = p]
  /\ sess' = Collect(sess, NoSessions)
  /\ at' = Collect(at, 1)
  /\ answered' = Collect(answered, FALSE)
  /\ taken' = Collect(taken, NoVerdict)
  /\ Goto(runs + 1, "check")
  /\ unitIndex' = 1
  /\ counts' = [u \in UnitIds |-> NotStored]
  /\ session' = NoSession
  /\ sview' = NoView
  /\ verdict' = NoVerdict
  /\ cancel' = FALSE
  /\ startError' = FALSE
  /\ error' = "none"
  /\ target' = 1
  /\ reached' = 0
  /\ Touch
  /\ UNCHANGED browse

(* submit_verdict: only while a step waits, and only when the session still  *)
(* has one to decide (validate_verdict).  A second submit overwrites the     *)
(* first until the worker wakes.                                            *)
Submit(go) ==
  /\ target < MaxInputs
  /\ phase = "awaiting"
  /\ session # NoSession
  /\ ViewOf(session).phase = "step"
  /\ verdict' = [go |-> go, of |-> session,
                 step |-> ViewOf(session).decided + 1]
  /\ target' = target + 1
  /\ Touch
  /\ UNCHANGED <<shared, locals, phase, runs, cancel, reached, browse, pc>>

(* cancel: a request, not an act; the worker notices it later.              *)
Cancel ==
  /\ target < MaxInputs
  /\ phase \in Busy
  /\ cancel' = TRUE
  /\ verdict' = NoVerdict
  /\ target' = target + 1
  /\ Touch
  /\ UNCHANGED <<shared, locals, phase, runs, reached, browse, pc>>

(* focus: the session is read without the lock and its view published with   *)
(* it; the worker may have moved in between.                                *)
FocusGrab ==
  /\ session # NoSession
  /\ browse = NoView
  /\ browse' = ViewOf(session)
  /\ UNCHANGED <<shared, inputs, locals, phase, runs, reached, silent, pc>>

FocusPublish ==
  /\ browse # NoView
  /\ sview' = browse
  /\ browse' = NoView
  /\ Touch
  /\ UNCHANGED <<unitIndex, counts, session, startError, error,
                 inputs, locals, phase, runs, reached, pc>>

-----------------------------------------------------------------------------
(* The worker: _walk.                                                       *)

(* The head of the loop over the plan's units, and its unlocked look at the  *)
(* cancellation.                                                            *)
Check(w) ==
  /\ pc[w] = "check"
  /\ Goto(w, IF at[w] > Len(plan[w]) THEN "last"
             ELSE IF cancel THEN "reap" ELSE "take")
  /\ UNCHANGED <<shared, inputs, locals, phase, runs, reached, silent, browse>>

(* The unit becomes the current one, without a bump of the revision.  One    *)
(* that cannot run was announced by start and is passed over.               *)
Take(w) ==
  /\ pc[w] = "take"
  /\ unitIndex' = at[w]
  /\ silent' = TRUE
  /\ IF UnitOf(w).runnable
       THEN Goto(w, "unit") /\ UNCHANGED at
       ELSE Goto(w, "check") /\ at' = [at EXCEPT ![w] = @ + 1]
  /\ UNCHANGED <<counts, session, sview, startError, error, inputs, phase, runs,
                 reached, browse, plan, sess, answered, taken>>

(* _finish_cancelled: should the engine's session still be parked, close and *)
(* store it; then end.                                                      *)
Reap(w) ==
  LET s == session
      parked == s # NoSession /\ ViewOf(s).phase = "step"
  IN /\ Moves(w, "reap", "final")
     /\ IF parked
          THEN /\ sess' = [sess EXCEPT ![s[1]][s[2]].phase = "done"]
               /\ sview' = [ViewOf(s) EXCEPT !.phase = "done"]
               /\ counts' = [counts EXCEPT ![unitIndex] = ViewOf(s).decided]
          ELSE UNCHANGED <<sess, sview, counts>>
     /\ End("cancelled")
     /\ Touch
     /\ UNCHANGED <<unitIndex, session, startError, error, inputs, runs, reached,
                    browse, plan, at, answered, taken>>

NothingStored == \A u \in UnitIds : counts[u] = NotStored
HasRunnable(p) == \E u \in DOMAIN p : p[u].runnable

(* After the last unit: a plan none of whose runnable units could start is   *)
(* an error and not an empty success.                                       *)
Last(w) ==
  /\ Moves(w, "last", "final")
  /\ IF NothingStored /\ HasRunnable(plan[runs])
       THEN /\ error' = IF startError THEN "refused" ELSE "nothing"
            /\ End("error")
       ELSE End("done") /\ UNCHANGED error
  /\ Touch
  /\ UNCHANGED <<unitIndex, counts, session, sview, startError, inputs, locals,
                 runs, reached, browse>>

(* _work: the handler of an exception that left _walk ...                   *)
Raise(w) ==
  /\ Moves(w, "raise", "final")
  /\ error' = "raised"
  /\ End("error")
  /\ Touch
  /\ UNCHANGED <<unitIndex, counts, session, sview, startError, inputs, locals,
                 runs, reached, browse>>

(* ... and its finally clause, the thread's last act.                       *)
Final(w) ==
  /\ Moves(w, "final", "dead")
  /\ IF phase = "running" THEN End("done") ELSE UNCHANGED phase
  /\ Settle
  /\ UNCHANGED <<shared, inputs, locals, runs, browse>>

-----------------------------------------------------------------------------
(* The worker: _run_unit and the session it drives.                         *)

(* The unit's first feed line, and the capture of the project's wiring.     *)
Announce(w) ==
  /\ Moves(w, "unit", "build")
  /\ Touch
  /\ UNCHANGED <<shared, inputs, locals, phase, runs, reached, browse>>

(* RoundSession(...) returned: the engine adopts the object.                *)
Build(w) ==
  /\ Moves(w, "build", "advance")
  /\ Become(w, "start", 0)
  /\ session' = <<w, at[w]>>
  /\ answered' = [answered EXCEPT ![w] = FALSE]
  /\ UNCHANGED <<unitIndex, counts, sview, startError, error, inputs, phase,
                 runs, reached, silent, browse, plan, at, taken>>

(* RoundSession._advance: a case goes on the wire and the watcher hears of   *)
(* it first.                                                                *)
Advance(w) ==
  /\ Moves(w, "advance", "exec")
  /\ SessionOf(w).decided < UnitOf(w).cases
  /\ Publish(w, "running", SessionOf(w).decided)
  /\ UNCHANGED <<unitIndex, counts, session, startError, error, inputs, phase,
                 runs, reached, browse, plan, at, answered, taken>>

(* The case came back and decided itself.                                   *)
Decide(w) ==
  /\ Moves(w, "exec", "advance")
  /\ Publish(w, "running", SessionOf(w).decided + 1)
  /\ UNCHANGED <<unitIndex, counts, session, startError, error, inputs, phase,
                 runs, reached, browse, plan, at, answered, taken>>

(* The case came back and wants a human.                                    *)
Park(w) ==
  /\ Moves(w, "exec", "await")
  /\ Publish(w, "step", SessionOf(w).decided)
  /\ UNCHANGED <<unitIndex, counts, session, startError, error, inputs, phase,
                 runs, reached, browse, plan, at, answered, taken>>

(* RoundSession._finish: every case decided, the human chose to stop, or a   *)
(* suite stopped itself.                                                    *)
FinishSession(w) ==
  /\ \/ pc[w] = "close"
     \/ /\ pc[w] = "advance"
        /\ \/ SessionOf(w).decided >= UnitOf(w).cases
           \/ UnitOf(w).suite /\ SessionOf(w).decided > 0
  /\ Goto(w, "store")
  /\ Publish(w, "done", SessionOf(w).decided)
  /\ UNCHANGED <<unitIndex, counts, session, startError, error, inputs, phase,
                 runs, reached, browse, plan, at, answered, taken>>

(* _guarded_start: a refusal raised inside session.start, before any human   *)
(* verdict, costs the unit and not the plan.                                *)
RefuseUnit(w) ==
  /\ pc[w] \in {"advance", "exec"}
  /\ ~answered[w]
  /\ Goto(w, "after")
  /\ startError' = TRUE
  /\ Touch
  /\ UNCHANGED <<unitIndex, counts, session, sview, error, inputs, locals, phase,
                 runs, reached, browse>>

(* An exception nothing below _work catches: the constructor's, one raised   *)
(* while a verdict is applied, or one that is no HarnessError.              *)
Crash(w) ==
  /\ pc[w] \in {"build", "advance", "exec", "apply", "close", "scancel"}
  /\ Goto(w, "raise")
  /\ UNCHANGED <<shared, inputs, locals, phase, runs, reached, silent, browse>>

(* _await_verdict, up to the wait.                                          *)
Await(w) ==
  /\ pc[w] = "await"
  /\ IF cancel
       THEN Goto(w, "scancel") /\ UNCHANGED phase
       ELSE Goto(w, "waiting") /\ phase' = "awaiting"
  /\ Settle
  /\ UNCHANGED <<shared, inputs, locals, runs, browse>>

(* ... and from the wake to the return.  A cancellation outranks a verdict.  *)
Wake(w) ==
  /\ pc[w] = "waiting"
  /\ verdict # NoVerdict \/ cancel
  /\ phase' = "running"
  /\ Settle
  /\ IF cancel
       THEN Goto(w, "scancel") /\ UNCHANGED <<verdict, taken>>
       ELSE /\ Goto(w, "apply")
            /\ taken' = [taken EXCEPT ![w] = verdict]
            /\ verdict' = NoVerdict
  /\ UNCHANGED <<shared, cancel, target, runs, browse, plan, at, sess, answered>>

(* RoundSession.apply_verdict, up to the next case or the end of the round.  *)
Apply(w) ==
  /\ pc[w] = "apply"
  /\ Goto(w, IF taken[w].go THEN "advance" ELSE "close")
  /\ Become(w, "step", SessionOf(w).decided + 1)
  /\ answered' = [answered EXCEPT ![w] = TRUE]
  /\ taken' = [taken EXCEPT ![w] = NoVerdict]
  /\ UNCHANGED <<shared, inputs, phase, runs, reached, silent, browse, plan, at>>

(* RoundSession.cancel: the parked step stays undecided.                    *)
CancelSession(w) ==
  /\ Moves(w, "scancel", "store")
  /\ Publish(w, "done", SessionOf(w).decided)
  /\ UNCHANGED <<unitIndex, counts, session, startError, error, inputs, phase,
                 runs, reached, browse, plan, at, answered, taken>>

(* _store_unit: the tally goes under the engine's current unit.             *)
Store(w) ==
  /\ Moves(w, "store", "after")
  /\ counts' = [counts EXCEPT ![unitIndex] = SessionOf(w).decided]
  /\ phase' = "running"
  /\ Touch
  /\ UNCHANGED <<unitIndex, session, sview, startError, error, inputs, locals,
                 runs, reached, browse>>

(* The second unlocked look at the cancellation, after each unit.           *)
After(w) ==
  /\ pc[w] = "after"
  /\ IF cancel
       THEN Goto(w, "reap") /\ UNCHANGED at
       ELSE Goto(w, "check") /\ at' = [at EXCEPT ![w] = @ + 1]
  /\ UNCHANGED <<shared, inputs, phase, runs, reached, silent, browse,
                 plan, sess, answered, taken>>

-----------------------------------------------------------------------------
WorkerStep(w) ==
  \/ Check(w) \/ Take(w) \/ Reap(w) \/ Last(w) \/ Raise(w) \/ Final(w)
  \/ Announce(w) \/ Build(w) \/ Advance(w) \/ Decide(w) \/ Park(w)
  \/ FinishSession(w) \/ RefuseUnit(w) \/ Crash(w) \/ Await(w) \/ Wake(w)
  \/ Apply(w) \/ CancelSession(w) \/ Store(w) \/ After(w)

Control == (\E go \in BOOLEAN : Submit(go)) \/ Cancel \/ FocusGrab \/ FocusPublish

Next ==
  \/ \E p \in Plans : Start(p)
  \/ Control
  \/ \E w \in Workers : WorkerStep(w)

Spec == Init /\ [][Next]_vars

(* A patient caller starts a plan only when the thread of the plan before it *)
(* has returned.  The engine does not enforce this: it looks at the phase.  *)
ThreadsReturned == \A w \in Workers : pc[w] \in {"unborn", "dead"}
PatientStart(p) == ThreadsReturned /\ Start(p)

PatientNext ==
  \/ \E p \in Plans : PatientStart(p)
  \/ Control
  \/ \E w \in Workers : WorkerStep(w)

PatientSpec == Init /\ [][PatientNext]_vars

(* A thread is scheduled, and a request or a disk write ends; a human, a     *)
(* caller and a browser owe nothing.                                        *)
FairPatientSpec == PatientSpec /\ \A w \in Workers : WF_vars(WorkerStep(w))
-----------------------------------------------------------------------------
(* What the engine promises.                                                *)

TypeFlags ==
  /\ phase \in {"idle"} \cup Busy \cup Terminal
  /\ cancel \in BOOLEAN
  /\ startError \in BOOLEAN
  /\ error \in Errors
  /\ silent \in BOOLEAN

TypeCounters ==
  /\ runs \in 0 .. MaxRuns
  /\ unitIndex \in UnitIds
  /\ target \in Nat
  /\ reached \in 0 .. target

TypeThreads ==
  /\ plan \in [Workers -> Plans \cup {<<>>}]
  /\ pc \in [Workers -> Labels \cup {"unborn", "dead"}]
  /\ at \in [Workers -> Nat \ {0}]
  /\ answered \in [Workers -> BOOLEAN]

TypeSessions ==
  /\ sess \in [Workers -> [UnitIds -> SessionState]]
  /\ counts \in [UnitIds -> Nat \cup {NotStored}]

TypeViews ==
  /\ session \in SessionRef \cup {NoSession}
  /\ sview \in View \cup {NoView}
  /\ browse \in View \cup {NoView}

TypeVerdicts ==
  /\ verdict \in Verdict \cup {NoVerdict}
  /\ taken \in [Workers -> Verdict \cup {NoVerdict}]

(* Every variable stays in its range; in particular the current unit is a    *)
(* unit, every pointer to a session points to one a worker of this engine    *)
(* owns, and the acknowledgement never runs ahead of the inputs.             *)
TypeOK ==
  /\ TypeFlags /\ TypeCounters /\ TypeThreads
  /\ TypeSessions /\ TypeViews /\ TypeVerdicts

(* wait_settled returns when the phase is settled and the acknowledgements   *)
(* have caught up.  Whoever it releases may rely on it: an awaiting engine   *)
(* has no input it has not acted on and its worker really is parked on the   *)
(* step it shows.                                                           *)
ParkedOn(w) ==
  /\ pc[w] = "waiting"
  /\ session = <<w, at[w]>>
  /\ SessionOf(w).phase = "step"

SettledMeansActedOn ==
  reached >= target /\ phase = "awaiting" =>
    verdict = NoVerdict /\ ~cancel /\ \E w \in Workers : ParkedOn(w)

(* The comment on _TERMINAL: the worker is not coming back.  A terminal      *)
(* phase is never shown while a worker still has a session to run.           *)
TerminalMeansStopped ==
  phase \in Terminal =>
    \A w \in Workers : pc[w] \in {"unborn", "final", "dead"}

(* A verdict carries no step of its own: what ties it to one is only that    *)
(* the worker was parked on that step when it was handed over.  The verdict  *)
(* a worker is about to apply was given for the very step it applies it to.  *)
VerdictAnswersItsStep ==
  \A w \in Workers : taken[w] # NoVerdict =>
    /\ pc[w] \in {"apply", "raise", "final", "dead"}
    /\ taken[w].of = <<w, at[w]>>
    /\ taken[w].step = SessionOf(w).decided + 1

(* The tally stored under a unit is that unit's own and final, and a plan    *)
(* that ended without an exception has stored every round that finished.     *)
CountsAreTheSessions ==
  runs > 0 =>
    /\ \A u \in UnitIds : counts[u] # NotStored =>
         /\ sess[runs][u].phase = "done"
         /\ counts[u] = sess[runs][u].decided
    /\ phase \in {"done", "cancelled"} =>
         \A u \in UnitIds : sess[runs][u].phase = "done" => counts[u] # NotStored

(* done is a claim about the whole plan: each unit that could run was at     *)
(* least built, even when an earlier one was refused.                       *)
DoneMeansWalked ==
  phase = "done" =>
    \A u \in DOMAIN plan[runs] :
      plan[runs][u].runnable => sess[runs][u].phase # "none"

(* What a terminal phase says of the threads and of the plan is so.          *)
TerminalTellsTheTruth == TerminalMeansStopped /\ DoneMeansWalked

(* wait_for_change calls a missed change late, never lost.  The walk moves   *)
(* the current unit without bumping the revision; nothing may come to rest   *)
(* there, for the stream would then never tell.                             *)
NothingRestsUnannounced == silent => phase = "running"

(* The engine implements PlanRun, for a patient caller: the phase is its life, *)
(* the cancellation flag its request to stop, the stored tallies its record. *)
StoredUnits == {u \in UnitIds : counts[u] # NotStored}

PlanRunOfEngine == INSTANCE PlanRun WITH
  Units <- UnitIds, life <- phase, stopping <- cancel, recorded <- StoredUnits

ImplementsPlanRun == PlanRunOfEngine!Spec

(* Between its constructor and the end of its plan a session of this module   *)
(* takes the steps of SessionLife, which RoundSession implements: the two     *)
(* models agree on what an engine may see of a round.                       *)
Life(w, u) == INSTANCE SessionLife WITH
  phase <- sess[w][u].phase, decided <- sess[w][u].decided

SessionsMove ==
  \A w \in Workers, u \in UnitIds :
    \/ sess'[w][u] = sess[w][u]
    \/ sess'[w][u] = NewSession
    \/ sess[w][u] = NewSession /\ Life(w, u)!Init'
    \/ Life(w, u)!Next

SessionsFollowLife == [][SessionsMove]_vars

(* wait_settled is released by a worker and by nobody else.  While an input   *)
(* is not acknowledged there is one with work left to do, and if it sleeps   *)
(* there is something to wake it: no way through the worker leaves an input   *)
(* to a thread that is gone or sleeps for good.                             *)
Stranded == {"unborn", "dead"}
Wakeable(w) == pc[w] = "waiting" => verdict # NoVerdict \/ cancel

NoInputIsStranded ==
  reached < target => \E w \in Workers : pc[w] \notin Stranded /\ Wakeable(w)

(* A worker only goes forward: to a later unit, to a later case of its unit,  *)
(* or to a later stage of its case.  A round that was refused, a session that *)
(* was cancelled or a step a human rejected is never begun again, and a crash *)
(* leads out of the walk.                                                   *)
Rank == [check |-> 1, take |-> 2, unit |-> 3, build |-> 4, advance |-> 5,
         exec |-> 6, await |-> 7, waiting |-> 8, apply |-> 9, close |-> 10,
         scancel |-> 11, store |-> 12, after |-> 13, reap |-> 14, last |-> 15,
         raise |-> 16, final |-> 17, dead |-> 18]
DecidedBy(w) == IF at[w] \in UnitIds THEN SessionOf(w).decided ELSE 0

GoesForward(w) ==
  pc'[w] # pc[w] /\ pc[w] # "unborn" =>
    \/ at'[w] > at[w]
    \/ /\ at'[w] = at[w]
       /\ \/ DecidedBy(w)' > DecidedBy(w)
          \/ DecidedBy(w)' = DecidedBy(w) /\ Rank[pc'[w]] > Rank[pc[w]]

AllGoForward == \A w \in Workers : GoesForward(w)

(* It goes no further than its plan, and its sessions no further than their   *)
(* cases, ...                                                               *)
WalkFits ==
  \A w \in Workers :
    /\ at[w] <= Len(plan[w]) + 1
    /\ \A u \in DOMAIN plan[w] : sess[w][u].decided <= plan[w][u].cases

(* ... so it comes to an end: there are only so many units, cases and stages.  *)
WalkGoesForward == [][AllGoForward /\ WalkFits']_vars

(* A focus may put an older view over a newer one, but never one the round   *)
(* has not reached: of the plan that runs, no view that is shown or about to  *)
(* be counts a verdict nobody gave, or ends a round that goes on.            *)
ShowsThePast(v) ==
  v # NoView /\ v.of[1] = runs =>
    LET s == sess[v.of[1]][v.of[2]]
    IN /\ v.decided <= s.decided
       /\ v.phase = "done" => s.phase = "done" /\ s.decided = v.decided

ViewsAreOfThePast == ShowsThePast(sview) /\ ShowsThePast(browse)

(* Every input handed over (the start itself, a verdict, a cancellation) is  *)
(* acknowledged in a settled state, which is what releases wait_settled.     *)
InputsAcknowledged == (reached < target) ~> (phase \in Settled /\ reached >= target)

(* A cancelled plan ends, wherever the cancellation found it.                *)
CancelEndsPlan == (cancel /\ phase \in Busy) ~> (phase \in Terminal)

-----------------------------------------------------------------------------
(* What comments of engine.py say and the code does not keep.               *)

(* engine.py:14-15, "one worker, one writer": at most one worker is at work  *)
(* on a plan.                                                               *)
AtWork(w) == pc[w] \notin {"unborn", "final", "dead"}
OneWriter == \A v, w \in Workers : AtWork(v) /\ AtWork(w) => v = w
=============================================================================
