---------------------------- MODULE RunEngineProofs ----------------------------
(***************************************************************************)
(* Theorems about RunEngine, for every set of plans and every bound.        *)
(***************************************************************************)
EXTENDS RunEngine, TLAPS

(* A thread exists exactly for the plans that were started, and only the     *)
(* last one may still be alive.                                             *)
LastThreadOnly ==
  \A w \in Workers : /\ pc[w] = "unborn" <=> w > runs
                     /\ w < runs => pc[w] = "dead"

(* What a thread not born yet will find.                                    *)
Fresh ==
  \A w \in Workers : w > runs =>
    at[w] = 1 /\ sess[w] = NoSessions /\ taken[w] = NoVerdict

(* The phase says where the worker is.                                      *)
PhaseTells ==
  /\ runs = 0 <=> phase = "idle"
  /\ runs > 0 =>
       /\ phase = "awaiting" <=> pc[runs] = "waiting"
       /\ phase \in Terminal <=> pc[runs] \in {"final", "dead"}

(* While the worker has a session in hand it is the engine's, and the unit   *)
(* it belongs to is the current one.                                        *)
InHand == {"advance", "exec", "await", "waiting", "apply", "close", "scancel", "store"}
WithUnit == {"take", "unit", "build", "after"} \cup InHand

SessionInHand ==
  runs > 0 =>
    /\ pc[runs] \in WithUnit => at[runs] \in DOMAIN plan[runs]
    /\ pc[runs] \in InHand \cup {"unit", "build"} => unitIndex = at[runs]
    /\ pc[runs] \in InHand => session = <<runs, at[runs]>>
    /\ pc[runs] \in {"await", "waiting", "apply", "scancel"} =>
         SessionOf(runs).phase = "step"
    /\ pc[runs] = "store" => SessionOf(runs).phase = "done"

(* Between two sessions nothing is left parked: the engine's session, if any, *)
(* is one of this plan and not at a step.                                   *)
NothingLeftParked ==
  runs > 0 =>
    /\ session # NoSession => session[1] = runs /\ session[2] \in UnitIds
    /\ /\ pc[runs] \in {"check", "take", "unit", "build", "after", "reap", "last"}
       /\ session # NoSession
       => sess[session[1]][session[2]].phase # "step"
    /\ pc[runs] = "advance" /\ SessionOf(runs).phase = "step" => answered[runs]
    /\ pc[runs] = "exec" => SessionOf(runs).phase = "running"

(* A verdict in the engine's hands is for the parked step, or is doomed by a *)
(* cancellation.                                                            *)
VerdictInHand ==
  /\ verdict # NoVerdict /\ ~cancel =>
       /\ runs > 0
       /\ pc[runs] = "waiting"
       /\ verdict.of = <<runs, at[runs]>>
       /\ verdict.step = SessionOf(runs).decided + 1
  /\ runs > 0 /\ pc[runs] = "waiting" /\ reached >= target =>
       verdict = NoVerdict /\ ~cancel
  /\ runs > 0 /\ pc[runs] = "reap" => cancel

(* What is recorded, and what has not been reached.                         *)
RecordedAt(u) ==
  /\ counts[u] # NotStored =>
       sess[runs][u].phase = "done" /\ counts[u] = sess[runs][u].decided
  /\ sess[runs][u].phase = "done" =>
       counts[u] # NotStored \/ (pc[runs] = "store" /\ u = at[runs])
  /\ u > at[runs] => sess[runs][u].phase = "none"
  /\ u = at[runs] /\ pc[runs] \in {"check", "take", "unit", "build"} =>
       sess[runs][u].phase = "none"
  /\ u = at[runs] /\ pc[runs] \in InHand \ {"store"} =>
       sess[runs][u].phase # "done"
  /\ u = at[runs] /\ pc[runs] \in InHand => counts[u] = NotStored

Recorded == runs > 0 => \A u \in UnitIds : RecordedAt(u)

(* The units behind the worker were all built, if they could run.           *)
Walked ==
  runs > 0 =>
    /\ \A u \in DOMAIN plan[runs] :
         /\ plan[runs][u].runnable
         /\ \/ u < at[runs]
            \/ u = at[runs] /\ pc[runs] \in InHand \cup {"after"}
         => sess[runs][u].phase # "none"
    /\ pc[runs] = "last" \/ phase = "done" => at[runs] > Len(plan[runs])
    /\ plan[runs] \in Plans

(* An unannounced move of the current unit is still between two sections.    *)
Unannounced ==
  silent => runs > 0 /\ pc[runs] \in {"check", "take", "unit", "last", "reap"}

IInv ==
  /\ LastThreadOnly /\ Fresh /\ PhaseTells /\ SessionInHand /\ VerdictInHand
  /\ VerdictAnswersItsStep /\ NothingLeftParked /\ Recorded /\ Walked /\ Unannounced

-----------------------------------------------------------------------------
(* Type correctness holds of the engine as it is, impatient callers too.     *)

(* A worker that is about to touch a unit of its plan is within the plan.    *)
InsidePlan ==
  \A w \in Workers :
    /\ pc[w] \notin {"unborn", "dead"} => plan[w] \in Plans
    /\ pc[w] \in WithUnit => at[w] \in DOMAIN plan[w]

TInv == TypeOK /\ InsidePlan

(* A position in a plan is a unit of the engine's table.                    *)
LEMMA PlanPositions ==
  ASSUME NEW p \in Plans
  PROVE  DOMAIN p \subseteq UnitIds /\ DOMAIN p = 1 .. Len(p) /\ Len(p) \in Nat
BY PlansAssumption, BoundsAssumption DEF UnitIds

(* A worker with a unit stands on a position of the session table.           *)
LEMMA SessionOfIsState ==
  ASSUME TInv, NEW w \in Workers, pc[w] \in WithUnit
  PROVE  /\ at[w] \in UnitIds
         /\ <<w, at[w]>> \in SessionRef
         /\ SessionOf(w) \in SessionState
         /\ SessionOf(w).decided \in Nat
<1>1. plan[w] \in Plans /\ at[w] \in DOMAIN plan[w]
  BY DEF TInv, InsidePlan, WithUnit, InHand
<1>2. at[w] \in UnitIds
  BY <1>1, PlanPositions
<1>3. SessionOf(w) \in SessionState
  BY <1>2 DEF TInv, TypeOK, TypeSessions, SessionOf
<1> QED
  BY <1>2, <1>3 DEF SessionRef, SessionState

(* What a pointer to a session shows is a view.                             *)
LEMMA ViewOfIsView ==
  ASSUME TypeSessions, NEW s \in SessionRef
  PROVE  /\ ViewOf(s) \in View
         /\ ViewOf(s).decided \in Nat
         /\ ViewOf(s).phase \in SessionPhases
<1>1. s[1] \in Workers /\ s[2] \in UnitIds
  BY DEF SessionRef
<1>2. sess[s[1]][s[2]] \in SessionState
  BY <1>1 DEF TypeSessions
<1> QED
  BY <1>2 DEF ViewOf, View, SessionState

(* Moving a session on keeps the table of sessions typed ...                 *)
LEMMA BecomeTyped ==
  ASSUME TInv, NEW w \in Workers, pc[w] \in WithUnit,
         NEW p \in SessionPhases, NEW n \in Nat, Become(w, p, n)
  PROVE  sess' \in [Workers -> [UnitIds -> SessionState]]
<1>1. [phase |-> p, decided |-> n] \in SessionState
  BY DEF SessionState
<1> QED
  BY <1>1, SessionOfIsState DEF Become, TInv, TypeOK, TypeSessions

(* ... and so does publishing it, with the view that is published.           *)
LEMMA PublishTyped ==
  ASSUME TInv, NEW w \in Workers, pc[w] \in WithUnit,
         NEW p \in SessionPhases, NEW n \in Nat, Publish(w, p, n)
  PROVE  /\ sess' \in [Workers -> [UnitIds -> SessionState]]
         /\ sview' \in View
         /\ silent' = FALSE
  BY BecomeTyped, SessionOfIsState DEF Publish, Touch, View

(* Start, every request and every step of a worker keep each variable in its*)
(* range and each busy worker inside the plan it walks.                     *)
LEMMA TypesInductive == Spec => []TInv
<1>1. Init => TInv
  <2> SUFFICES ASSUME Init PROVE TInv
    OBVIOUS
  <2> USE BoundsAssumption DEF Init, Workers, UnitIds
  <2>1. TypeFlags
    BY DEF TypeFlags, Errors
  <2>2. TypeCounters
    BY DEF TypeCounters
  <2>3. TypeThreads
    BY DEF TypeThreads
  <2>4. TypeSessions
    BY DEF TypeSessions, NoSessions, NewSession, SessionState, SessionPhases
  <2>5. TypeViews /\ TypeVerdicts
    BY DEF TypeViews, TypeVerdicts
  <2>6. InsidePlan
    BY DEF InsidePlan, WithUnit, InHand
  <2> QED
    BY <2>1, <2>2, <2>3, <2>4, <2>5, <2>6 DEF TInv, TypeOK
<1>2. TInv /\ [Next]_vars => TInv'
  <2> SUFFICES ASSUME TInv, [Next]_vars PROVE TInv'
    OBVIOUS
  <2> USE DEF TInv, TypeOK
  <2>1. ASSUME NEW p \in Plans, Start(p) PROVE TInv'
    <3>1. TypeFlags'
      BY <2>1 DEF Start, Touch, TypeFlags, Busy, Errors
    <3>2. TypeCounters'
      BY <2>1, BoundsAssumption DEF Start, TypeCounters, UnitIds
    <3>3. TypeThreads'
      <4>1. plan' \in [Workers -> Plans \cup {<<>>}]
        BY <2>1 DEF Start, Collect, TypeThreads
      <4>2. pc' \in [Workers -> Labels \cup {"unborn", "dead"}]
        BY <2>1 DEF Start, Goto, TypeThreads, Labels
      <4>3. at' \in [Workers -> Nat \ {0}]
        BY <2>1 DEF Start, Collect, TypeThreads
      <4>4. answered' \in [Workers -> BOOLEAN]
        BY <2>1 DEF Start, Collect, TypeThreads
      <4> QED
        BY <4>1, <4>2, <4>3, <4>4 DEF TypeThreads
    <3>4. TypeSessions'
      BY <2>1
      DEF Start, Collect, TypeSessions, NoSessions, NewSession, SessionState, SessionPhases
    <3>5. TypeViews'
      BY <2>1 DEF Start, TypeViews
    <3>6. TypeVerdicts'
      BY <2>1 DEF Start, Collect, TypeVerdicts
    <3>7. InsidePlan'
      BY <2>1
      DEF Start, Collect, Goto, TypeThreads, InsidePlan, WithUnit, InHand
    <3> QED
      BY <3>1, <3>2, <3>3, <3>4, <3>5, <3>6, <3>7
  <2>2. ASSUME NEW go \in BOOLEAN, Submit(go) PROVE TInv'
    <3>1. TypeFlags'
      BY <2>2 DEF Submit, Touch, shared, TypeFlags, Terminal, Busy, Errors
    <3>2. TypeCounters'
      BY <2>2, BoundsAssumption DEF Submit, shared, TypeCounters, UnitIds
    <3>3. TypeThreads'
      BY <2>2 DEF Submit, locals, TypeThreads, Labels
    <3>4. TypeSessions'
      BY <2>2 DEF Submit, shared, locals, TypeSessions
    <3>5. TypeViews'
      BY <2>2 DEF Submit, shared, TypeViews
    <3>6. TypeVerdicts'
      BY <2>2, ViewOfIsView DEF Submit, locals, TypeVerdicts, TypeViews, Verdict
    <3>7. InsidePlan'
      BY <2>2 DEF Submit, locals, TypeThreads, InsidePlan, WithUnit, InHand
    <3> QED
      BY <3>1, <3>2, <3>3, <3>4, <3>5, <3>6, <3>7
  <2>3. ASSUME Cancel PROVE TInv'
    <3>1. TypeFlags'
      BY <2>3 DEF Cancel, Touch, shared, TypeFlags, Terminal, Busy, Errors
    <3>2. TypeCounters'
      BY <2>3, BoundsAssumption DEF Cancel, shared, TypeCounters, UnitIds
    <3>3. TypeThreads'
      BY <2>3 DEF Cancel, locals, TypeThreads, Labels
    <3>4. TypeSessions'
      BY <2>3 DEF Cancel, shared, locals, TypeSessions
    <3>5. TypeViews'
      BY <2>3 DEF Cancel, shared, TypeViews
    <3>6. TypeVerdicts'
      BY <2>3 DEF Cancel, locals, TypeVerdicts
    <3>7. InsidePlan'
      BY <2>3 DEF Cancel, locals, TypeThreads, InsidePlan, WithUnit, InHand
    <3> QED
      BY <3>1, <3>2, <3>3, <3>4, <3>5, <3>6, <3>7
  <2>4. ASSUME FocusGrab PROVE TInv'
    <3>1. TypeFlags'
      BY <2>4 DEF FocusGrab, shared, inputs, TypeFlags, Terminal, Busy, Errors
    <3>2. TypeCounters'
      BY <2>4, BoundsAssumption
      DEF FocusGrab, shared, inputs, TypeCounters, UnitIds
    <3>3. TypeThreads'
      BY <2>4 DEF FocusGrab, locals, TypeThreads, Labels
    <3>4. TypeSessions'
      BY <2>4 DEF FocusGrab, shared, locals, TypeSessions
    <3>5. TypeViews'
      BY <2>4, ViewOfIsView DEF FocusGrab, shared, TypeViews
    <3>6. TypeVerdicts'
      BY <2>4 DEF FocusGrab, inputs, locals, TypeVerdicts
    <3>7. InsidePlan'
      BY <2>4 DEF FocusGrab, locals, TypeThreads, InsidePlan, WithUnit, InHand
    <3> QED
      BY <3>1, <3>2, <3>3, <3>4, <3>5, <3>6, <3>7
  <2>5. ASSUME FocusPublish PROVE TInv'
    <3>1. TypeFlags'
      BY <2>5 DEF FocusPublish, Touch, inputs, TypeFlags, Terminal, Busy, Errors
    <3>2. TypeCounters'
      BY <2>5, BoundsAssumption DEF FocusPublish, inputs, TypeCounters, UnitIds
    <3>3. TypeThreads'
      BY <2>5 DEF FocusPublish, locals, TypeThreads, Labels
    <3>4. TypeSessions'
      BY <2>5 DEF FocusPublish, locals, TypeSessions
    <3>5. TypeViews'
      BY <2>5 DEF FocusPublish, TypeViews
    <3>6. TypeVerdicts'
      BY <2>5 DEF FocusPublish, inputs, locals, TypeVerdicts
    <3>7. InsidePlan'
      BY <2>5
      DEF FocusPublish, locals, TypeThreads, InsidePlan, WithUnit, InHand
    <3> QED
      BY <3>1, <3>2, <3>3, <3>4, <3>5, <3>6, <3>7
  <2>6. ASSUME NEW w \in Workers, Check(w) PROVE TInv'
    <3>1. TypeFlags'
      BY <2>6 DEF Check, shared, inputs, TypeFlags, Terminal, Busy, Errors
    <3>2. TypeCounters'
      BY <2>6, BoundsAssumption DEF Check, shared, inputs, TypeCounters, UnitIds
    <3>3. TypeThreads'
      BY <2>6 DEF Check, locals, Goto, TypeThreads, Labels
    <3>4. TypeSessions'
      BY <2>6 DEF Check, shared, locals, TypeSessions
    <3>5. TypeViews'
      BY <2>6 DEF Check, shared, TypeViews
    <3>6. TypeVerdicts'
      BY <2>6 DEF Check, inputs, locals, TypeVerdicts
    <3>7. InsidePlan'
      BY <2>6 DEF Check, locals, Goto, TypeThreads, InsidePlan, WithUnit, InHand
    <3> QED
      BY <3>1, <3>2, <3>3, <3>4, <3>5, <3>6, <3>7
  <2>7. ASSUME NEW w \in Workers, Take(w) PROVE TInv'
    <3>1. TypeFlags'
      BY <2>7 DEF Take, inputs, TypeFlags, Terminal, Busy, Errors
    <3>2. TypeCounters'
      BY <2>7, BoundsAssumption, SessionOfIsState
      DEF Take, inputs, TypeCounters, UnitIds, WithUnit
    <3>3. TypeThreads'
      BY <2>7 DEF Take, Goto, TypeThreads, Labels
    <3>4. TypeSessions'
      BY <2>7 DEF Take, TypeSessions
    <3>5. TypeViews'
      BY <2>7 DEF Take, TypeViews
    <3>6. TypeVerdicts'
      BY <2>7 DEF Take, inputs, TypeVerdicts
    <3>7. InsidePlan'
      BY <2>7 DEF Take, Goto, TypeThreads, InsidePlan, WithUnit, InHand
    <3> QED
      BY <3>1, <3>2, <3>3, <3>4, <3>5, <3>6, <3>7
  <2>8. ASSUME NEW w \in Workers, Reap(w) PROVE TInv'
    <3>1. TypeFlags'
      BY <2>8 DEF Reap, Touch, End, inputs, TypeFlags, Terminal, Busy, Errors
    <3>2. TypeCounters'
      BY <2>8, BoundsAssumption DEF Reap, inputs, TypeCounters, UnitIds
    <3>3. TypeThreads'
      BY <2>8 DEF Reap, Moves, Goto, TypeThreads, Labels
    <3>4. TypeSessions'
      <4>1. CASE session # NoSession /\ ViewOf(session).phase = "step"
        <5>1. session \in SessionRef
          BY <4>1 DEF TypeViews
        <5>2. session[1] \in Workers /\ session[2] \in UnitIds
          BY <5>1 DEF SessionRef
        <5>3. [sess[session[1]][session[2]] EXCEPT !.phase = "done"] \in SessionState
          BY <5>2 DEF TypeSessions, SessionState, SessionPhases
        <5>4. ViewOf(session).decided \in Nat
          BY <5>1, ViewOfIsView
        <5>5. counts' \in [UnitIds -> Nat \cup {NotStored}]
          BY <2>8, <4>1, <5>4 DEF Reap, TypeSessions
        <5>6. sess' = [sess EXCEPT ![session[1]] = [sess[session[1]] EXCEPT
                        ![session[2]] = [sess[session[1]][session[2]] EXCEPT
                          !.phase = "done"]]]
          BY <2>8, <4>1 DEF Reap
        <5>7. sess' \in [Workers -> [UnitIds -> SessionState]]
          BY <5>2, <5>3, <5>6 DEF TypeSessions
        <5> QED
          BY <5>5, <5>7 DEF TypeSessions
      <4>2. CASE ~(session # NoSession /\ ViewOf(session).phase = "step")
        BY <2>8, <4>2 DEF Reap, TypeSessions
      <4> QED
        BY <4>1, <4>2
    <3>5. TypeViews'
      BY <2>8, ViewOfIsView DEF Reap, TypeViews, View, SessionPhases
    <3>6. TypeVerdicts'
      BY <2>8 DEF Reap, inputs, TypeVerdicts
    <3>7. InsidePlan'
      BY <2>8 DEF Reap, Moves, Goto, TypeThreads, InsidePlan, WithUnit, InHand
    <3> QED
      BY <3>1, <3>2, <3>3, <3>4, <3>5, <3>6, <3>7
  <2>9. ASSUME NEW w \in Workers, Last(w) PROVE TInv'
    <3>1. TypeFlags'
      BY <2>9 DEF Last, Touch, End, inputs, TypeFlags, Terminal, Busy, Errors
    <3>2. TypeCounters'
      BY <2>9, BoundsAssumption DEF Last, inputs, TypeCounters, UnitIds
    <3>3. TypeThreads'
      BY <2>9 DEF Last, Moves, locals, Goto, TypeThreads, Labels
    <3>4. TypeSessions'
      BY <2>9 DEF Last, locals, TypeSessions
    <3>5. TypeViews'
      BY <2>9 DEF Last, TypeViews
    <3>6. TypeVerdicts'
      BY <2>9 DEF Last, inputs, locals, TypeVerdicts
    <3>7. InsidePlan'
      BY <2>9
      DEF Last, Moves, locals, Goto, TypeThreads, InsidePlan, WithUnit, InHand
    <3> QED
      BY <3>1, <3>2, <3>3, <3>4, <3>5, <3>6, <3>7
  <2>10. ASSUME NEW w \in Workers, Raise(w) PROVE TInv'
    <3>1. TypeFlags'
      BY <2>10 DEF Raise, Touch, End, inputs, TypeFlags, Terminal, Busy, Errors
    <3>2. TypeCounters'
      BY <2>10, BoundsAssumption DEF Raise, inputs, TypeCounters, UnitIds
    <3>3. TypeThreads'
      BY <2>10 DEF Raise, Moves, locals, Goto, TypeThreads, Labels
    <3>4. TypeSessions'
      BY <2>10 DEF Raise, locals, TypeSessions
    <3>5. TypeViews'
      BY <2>10 DEF Raise, TypeViews
    <3>6. TypeVerdicts'
      BY <2>10 DEF Raise, inputs, locals, TypeVerdicts
    <3>7. InsidePlan'
      BY <2>10
      DEF Raise, Moves, locals, Goto, TypeThreads, InsidePlan, WithUnit, InHand
    <3> QED
      BY <3>1, <3>2, <3>3, <3>4, <3>5, <3>6, <3>7
  <2>11. ASSUME NEW w \in Workers, Final(w) PROVE TInv'
    <3>1. TypeFlags'
      BY <2>11
      DEF Final, Settle, End, shared, inputs, Touch, TypeFlags, Terminal, Busy, Errors
    <3>2. TypeCounters'
      BY <2>11, BoundsAssumption
      DEF Final, Settle, shared, inputs, TypeCounters, UnitIds
    <3>3. TypeThreads'
      BY <2>11 DEF Final, Moves, locals, Goto, TypeThreads, Labels
    <3>4. TypeSessions'
      BY <2>11 DEF Final, shared, locals, TypeSessions
    <3>5. TypeViews'
      BY <2>11 DEF Final, shared, TypeViews
    <3>6. TypeVerdicts'
      BY <2>11 DEF Final, inputs, locals, TypeVerdicts
    <3>7. InsidePlan'
      BY <2>11
      DEF Final, Moves, locals, Goto, TypeThreads, InsidePlan, WithUnit, InHand
    <3> QED
      BY <3>1, <3>2, <3>3, <3>4, <3>5, <3>6, <3>7
  <2>12. ASSUME NEW w \in Workers, Announce(w) PROVE TInv'
    <3>1. TypeFlags'
      BY <2>12
      DEF Announce, Touch, shared, inputs, TypeFlags, Terminal, Busy, Errors
    <3>2. TypeCounters'
      BY <2>12, BoundsAssumption
      DEF Announce, shared, inputs, TypeCounters, UnitIds
    <3>3. TypeThreads'
      BY <2>12 DEF Announce, Moves, locals, Goto, TypeThreads, Labels
    <3>4. TypeSessions'
      BY <2>12 DEF Announce, shared, locals, TypeSessions
    <3>5. TypeViews'
      BY <2>12 DEF Announce, shared, TypeViews
    <3>6. TypeVerdicts'
      BY <2>12 DEF Announce, inputs, locals, TypeVerdicts
    <3>7. InsidePlan'
      BY <2>12
      DEF Announce, Moves, locals, Goto, TypeThreads, InsidePlan, WithUnit, InHand
    <3> QED
      BY <3>1, <3>2, <3>3, <3>4, <3>5, <3>6, <3>7
  <2>13. ASSUME NEW w \in Workers, Build(w) PROVE TInv'
    <3>1. TypeFlags'
      BY <2>13 DEF Build, inputs, TypeFlags, Terminal, Busy, Errors
    <3>2. TypeCounters'
      BY <2>13, BoundsAssumption DEF Build, inputs, TypeCounters, UnitIds
    <3>3. TypeThreads'
      BY <2>13 DEF Build, Moves, Goto, TypeThreads, Labels
    <3>4. TypeSessions'
      BY <2>13, SessionOfIsState, BecomeTyped
      DEF Build, Moves, WithUnit, InHand, SessionPhases, TypeSessions
    <3>5. TypeViews'
      BY <2>13, SessionOfIsState DEF Build, Moves, WithUnit, TypeViews
    <3>6. TypeVerdicts'
      BY <2>13 DEF Build, inputs, TypeVerdicts
    <3>7. InsidePlan'
      BY <2>13 DEF Build, Moves, Goto, TypeThreads, InsidePlan, WithUnit, InHand
    <3> QED
      BY <3>1, <3>2, <3>3, <3>4, <3>5, <3>6, <3>7
  <2>14. ASSUME NEW w \in Workers, Advance(w) PROVE TInv'
    <3>1. TypeFlags'
      BY <2>14
      DEF Advance, Publish, inputs, Touch, TypeFlags, Terminal, Busy, Errors
    <3>2. TypeCounters'
      BY <2>14, BoundsAssumption DEF Advance, inputs, TypeCounters, UnitIds
    <3>3. TypeThreads'
      BY <2>14 DEF Advance, Moves, Goto, TypeThreads, Labels
    <3>4. TypeSessions'
      BY <2>14, SessionOfIsState, PublishTyped
      DEF Advance, Moves, WithUnit, InHand, SessionPhases, TypeSessions
    <3>5. TypeViews'
      BY <2>14, SessionOfIsState, PublishTyped
      DEF Advance, Moves, WithUnit, InHand, SessionPhases, TypeViews
    <3>6. TypeVerdicts'
      BY <2>14 DEF Advance, inputs, TypeVerdicts
    <3>7. InsidePlan'
      BY <2>14
      DEF Advance, Moves, Goto, TypeThreads, InsidePlan, WithUnit, InHand
    <3> QED
      BY <3>1, <3>2, <3>3, <3>4, <3>5, <3>6, <3>7
  <2>15. ASSUME NEW w \in Workers, Decide(w) PROVE TInv'
    <3>1. TypeFlags'
      BY <2>15
      DEF Decide, Publish, inputs, Touch, TypeFlags, Terminal, Busy, Errors
    <3>2. TypeCounters'
      BY <2>15, BoundsAssumption DEF Decide, inputs, TypeCounters, UnitIds
    <3>3. TypeThreads'
      BY <2>15 DEF Decide, Moves, Goto, TypeThreads, Labels
    <3>4. TypeSessions'
      <4>1. pc[w] \in WithUnit
        BY <2>15 DEF Decide, Moves, WithUnit, InHand
      <4>2. SessionOf(w).decided \in Nat
        BY <4>1, SessionOfIsState
      <4>5. SessionOf(w).decided + 1 \in Nat
        BY <4>2
      <4>6. "running" \in SessionPhases
        BY DEF SessionPhases
      <4>3. Publish(w, "running", SessionOf(w).decided + 1)
        BY <2>15 DEF Decide
      <4>4. sess' \in [Workers -> [UnitIds -> SessionState]] /\ sview' \in View
        BY <4>1, <4>3, <4>5, <4>6, PublishTyped
      <4> QED
        BY <2>15, <4>4 DEF Decide, TypeSessions
    <3>5. TypeViews'
      <4>1. pc[w] \in WithUnit
        BY <2>15 DEF Decide, Moves, WithUnit, InHand
      <4>2. SessionOf(w).decided \in Nat
        BY <4>1, SessionOfIsState
      <4>5. SessionOf(w).decided + 1 \in Nat
        BY <4>2
      <4>6. "running" \in SessionPhases
        BY DEF SessionPhases
      <4>3. Publish(w, "running", SessionOf(w).decided + 1)
        BY <2>15 DEF Decide
      <4>4. sess' \in [Workers -> [UnitIds -> SessionState]] /\ sview' \in View
        BY <4>1, <4>3, <4>5, <4>6, PublishTyped
      <4> QED
        BY <2>15, <4>4 DEF Decide, TypeViews
    <3>6. TypeVerdicts'
      BY <2>15 DEF Decide, inputs, TypeVerdicts
    <3>7. InsidePlan'
      BY <2>15
      DEF Decide, Moves, Goto, TypeThreads, InsidePlan, WithUnit, InHand
    <3> QED
      BY <3>1, <3>2, <3>3, <3>4, <3>5, <3>6, <3>7
  <2>16. ASSUME NEW w \in Workers, Park(w) PROVE TInv'
    <3>1. TypeFlags'
      BY <2>16
      DEF Park, Publish, inputs, Touch, TypeFlags, Terminal, Busy, Errors
    <3>2. TypeCounters'
      BY <2>16, BoundsAssumption DEF Park, inputs, TypeCounters, UnitIds
    <3>3. TypeThreads'
      BY <2>16 DEF Park, Moves, Goto, TypeThreads, Labels
    <3>4. TypeSessions'
      BY <2>16, SessionOfIsState, PublishTyped
      DEF Park, Moves, WithUnit, InHand, SessionPhases, TypeSessions
    <3>5. TypeViews'
      BY <2>16, SessionOfIsState, PublishTyped
      DEF Park, Moves, WithUnit, InHand, SessionPhases, TypeViews
    <3>6. TypeVerdicts'
      BY <2>16 DEF Park, inputs, TypeVerdicts
    <3>7. InsidePlan'
      BY <2>16 DEF Park, Moves, Goto, TypeThreads, InsidePlan, WithUnit, InHand
    <3> QED
      BY <3>1, <3>2, <3>3, <3>4, <3>5, <3>6, <3>7
  <2>17. ASSUME NEW w \in Workers, FinishSession(w) PROVE TInv'
    <3>1. TypeFlags'
      BY <2>17
      DEF FinishSession, Publish, inputs, Touch, TypeFlags, Terminal, Busy, Errors
    <3>2. TypeCounters'
      BY <2>17, BoundsAssumption
      DEF FinishSession, inputs, TypeCounters, UnitIds
    <3>3. TypeThreads'
      BY <2>17 DEF FinishSession, Goto, TypeThreads, Labels
    <3>4. TypeSessions'
      BY <2>17, SessionOfIsState, PublishTyped
      DEF FinishSession, Moves, WithUnit, InHand, SessionPhases, TypeSessions
    <3>5. TypeViews'
      BY <2>17, SessionOfIsState, PublishTyped
      DEF FinishSession, Moves, WithUnit, InHand, SessionPhases, TypeViews
    <3>6. TypeVerdicts'
      BY <2>17 DEF FinishSession, inputs, TypeVerdicts
    <3>7. InsidePlan'
      BY <2>17
      DEF FinishSession, Goto, TypeThreads, InsidePlan, WithUnit, InHand
    <3> QED
      BY <3>1, <3>2, <3>3, <3>4, <3>5, <3>6, <3>7
  <2>18. ASSUME NEW w \in Workers, RefuseUnit(w) PROVE TInv'
    <3>1. TypeFlags'
      BY <2>18 DEF RefuseUnit, Touch, inputs, TypeFlags, Terminal, Busy, Errors
    <3>2. TypeCounters'
      BY <2>18, BoundsAssumption DEF RefuseUnit, inputs, TypeCounters, UnitIds
    <3>3. TypeThreads'
      BY <2>18 DEF RefuseUnit, locals, Goto, TypeThreads, Labels
    <3>4. TypeSessions'
      BY <2>18 DEF RefuseUnit, locals, TypeSessions
    <3>5. TypeViews'
      BY <2>18 DEF RefuseUnit, TypeViews
    <3>6. TypeVerdicts'
      BY <2>18 DEF RefuseUnit, inputs, locals, TypeVerdicts
    <3>7. InsidePlan'
      BY <2>18
      DEF RefuseUnit, locals, Goto, TypeThreads, InsidePlan, WithUnit, InHand
    <3> QED
      BY <3>1, <3>2, <3>3, <3>4, <3>5, <3>6, <3>7
  <2>19. ASSUME NEW w \in Workers, Crash(w) PROVE TInv'
    <3>1. TypeFlags'
      BY <2>19 DEF Crash, shared, inputs, TypeFlags, Terminal, Busy, Errors
    <3>2. TypeCounters'
      BY <2>19, BoundsAssumption
      DEF Crash, shared, inputs, TypeCounters, UnitIds
    <3>3. TypeThreads'
      BY <2>19 DEF Crash, locals, Goto, TypeThreads, Labels
    <3>4. TypeSessions'
      BY <2>19 DEF Crash, shared, locals, TypeSessions
    <3>5. TypeViews'
      BY <2>19 DEF Crash, shared, TypeViews
    <3>6. TypeVerdicts'
      BY <2>19 DEF Crash, inputs, locals, TypeVerdicts
    <3>7. InsidePlan'
      BY <2>19
      DEF Crash, locals, Goto, TypeThreads, InsidePlan, WithUnit, InHand
    <3> QED
      BY <3>1, <3>2, <3>3, <3>4, <3>5, <3>6, <3>7
  <2>20. ASSUME NEW w \in Workers, Await(w) PROVE TInv'
    <3>1. TypeFlags'
      BY <2>20
      DEF Await, Settle, shared, inputs, Touch, TypeFlags, Terminal, Busy, Errors
    <3>2. TypeCounters'
      BY <2>20, BoundsAssumption
      DEF Await, Settle, shared, inputs, TypeCounters, UnitIds
    <3>3. TypeThreads'
      BY <2>20 DEF Await, locals, Goto, TypeThreads, Labels
    <3>4. TypeSessions'
      BY <2>20 DEF Await, shared, locals, TypeSessions
    <3>5. TypeViews'
      BY <2>20 DEF Await, shared, TypeViews
    <3>6. TypeVerdicts'
      BY <2>20 DEF Await, inputs, locals, TypeVerdicts
    <3>7. InsidePlan'
      BY <2>20
      DEF Await, locals, Goto, TypeThreads, InsidePlan, WithUnit, InHand
    <3> QED
      BY <3>1, <3>2, <3>3, <3>4, <3>5, <3>6, <3>7
  <2>21. ASSUME NEW w \in Workers, Wake(w) PROVE TInv'
    <3>1. TypeFlags'
      BY <2>21
      DEF Wake, Settle, shared, Touch, TypeFlags, Terminal, Busy, Errors
    <3>2. TypeCounters'
      BY <2>21, BoundsAssumption DEF Wake, Settle, shared, TypeCounters, UnitIds
    <3>3. TypeThreads'
      BY <2>21 DEF Wake, Goto, TypeThreads, Labels
    <3>4. TypeSessions'
      BY <2>21 DEF Wake, shared, TypeSessions
    <3>5. TypeViews'
      BY <2>21 DEF Wake, shared, TypeViews
    <3>6. TypeVerdicts'
      BY <2>21 DEF Wake, TypeVerdicts
    <3>7. InsidePlan'
      BY <2>21 DEF Wake, Goto, TypeThreads, InsidePlan, WithUnit, InHand
    <3> QED
      BY <3>1, <3>2, <3>3, <3>4, <3>5, <3>6, <3>7
  <2>22. ASSUME NEW w \in Workers, Apply(w) PROVE TInv'
    <3>1. TypeFlags'
      BY <2>22 DEF Apply, shared, inputs, TypeFlags, Terminal, Busy, Errors
    <3>2. TypeCounters'
      BY <2>22, BoundsAssumption
      DEF Apply, shared, inputs, TypeCounters, UnitIds
    <3>3. TypeThreads'
      BY <2>22 DEF Apply, Goto, TypeThreads, Labels
    <3>4. TypeSessions'
      <4>1. pc[w] \in WithUnit
        BY <2>22 DEF Apply, WithUnit, InHand
      <4>2. SessionOf(w).decided \in Nat
        BY <4>1, SessionOfIsState
      <4>5. SessionOf(w).decided + 1 \in Nat
        BY <4>2
      <4>6. "step" \in SessionPhases
        BY DEF SessionPhases
      <4>3. Become(w, "step", SessionOf(w).decided + 1)
        BY <2>22 DEF Apply
      <4>4. sess' \in [Workers -> [UnitIds -> SessionState]]
        BY <4>1, <4>3, <4>5, <4>6, BecomeTyped
      <4> QED
        BY <2>22, <4>4 DEF Apply, shared, TypeSessions
    <3>5. TypeViews'
      BY <2>22 DEF Apply, shared, TypeViews
    <3>6. TypeVerdicts'
      BY <2>22 DEF Apply, inputs, TypeVerdicts
    <3>7. InsidePlan'
      BY <2>22 DEF Apply, Goto, TypeThreads, InsidePlan, WithUnit, InHand
    <3> QED
      BY <3>1, <3>2, <3>3, <3>4, <3>5, <3>6, <3>7
  <2>23. ASSUME NEW w \in Workers, CancelSession(w) PROVE TInv'
    <3>1. TypeFlags'
      BY <2>23
      DEF CancelSession, Publish, inputs, Touch, TypeFlags, Terminal, Busy, Errors
    <3>2. TypeCounters'
      BY <2>23, BoundsAssumption
      DEF CancelSession, inputs, TypeCounters, UnitIds
    <3>3. TypeThreads'
      BY <2>23 DEF CancelSession, Moves, Goto, TypeThreads, Labels
    <3>4. TypeSessions'
      BY <2>23, SessionOfIsState, PublishTyped
      DEF CancelSession, Moves, WithUnit, InHand, SessionPhases, TypeSessions
    <3>5. TypeViews'
      BY <2>23, SessionOfIsState, PublishTyped
      DEF CancelSession, Moves, WithUnit, InHand, SessionPhases, TypeViews
    <3>6. TypeVerdicts'
      BY <2>23 DEF CancelSession, inputs, TypeVerdicts
    <3>7. InsidePlan'
      BY <2>23
      DEF CancelSession, Moves, Goto, TypeThreads, InsidePlan, WithUnit, InHand
    <3> QED
      BY <3>1, <3>2, <3>3, <3>4, <3>5, <3>6, <3>7
  <2>24. ASSUME NEW w \in Workers, Store(w) PROVE TInv'
    <3>1. TypeFlags'
      BY <2>24 DEF Store, Touch, inputs, TypeFlags, Terminal, Busy, Errors
    <3>2. TypeCounters'
      BY <2>24, BoundsAssumption DEF Store, inputs, TypeCounters, UnitIds
    <3>3. TypeThreads'
      BY <2>24 DEF Store, Moves, locals, Goto, TypeThreads, Labels
    <3>4. TypeSessions'
      BY <2>24, SessionOfIsState
      DEF Store, Moves, WithUnit, InHand, locals, TypeSessions, TypeCounters
    <3>5. TypeViews'
      BY <2>24 DEF Store, TypeViews
    <3>6. TypeVerdicts'
      BY <2>24 DEF Store, inputs, locals, TypeVerdicts
    <3>7. InsidePlan'
      BY <2>24
      DEF Store, Moves, locals, Goto, TypeThreads, InsidePlan, WithUnit, InHand
    <3> QED
      BY <3>1, <3>2, <3>3, <3>4, <3>5, <3>6, <3>7
  <2>25. ASSUME NEW w \in Workers, After(w) PROVE TInv'
    <3>1. TypeFlags'
      BY <2>25 DEF After, shared, inputs, TypeFlags, Terminal, Busy, Errors
    <3>2. TypeCounters'
      BY <2>25, BoundsAssumption
      DEF After, shared, inputs, TypeCounters, UnitIds
    <3>3. TypeThreads'
      BY <2>25 DEF After, Goto, TypeThreads, Labels
    <3>4. TypeSessions'
      BY <2>25 DEF After, shared, TypeSessions
    <3>5. TypeViews'
      BY <2>25 DEF After, shared, TypeViews
    <3>6. TypeVerdicts'
      BY <2>25 DEF After, inputs, TypeVerdicts
    <3>7. InsidePlan'
      BY <2>25 DEF After, Goto, TypeThreads, InsidePlan, WithUnit, InHand
    <3> QED
      BY <3>1, <3>2, <3>3, <3>4, <3>5, <3>6, <3>7
  <2>26. CASE UNCHANGED vars
    BY <2>26
    DEF vars, TypeFlags, TypeCounters, TypeThreads, TypeSessions, TypeViews,
        TypeVerdicts, InsidePlan
  <2> QED
    BY <2>1, <2>2, <2>3, <2>4, <2>5, <2>6, <2>7, <2>8, <2>9, <2>10, <2>11, <2>12, <2>13,
       <2>14, <2>15, <2>16, <2>17, <2>18, <2>19, <2>20, <2>21, <2>22, <2>23, <2>24, <2>25, <2>26
    DEF Next, Control, WorkerStep
<1> QED
  BY <1>1, <1>2, PTL DEF Spec

(* Every variable stays in its range under every step of the engine, of a    *)
(* caller, and of threads that overlap.                                     *)
THEOREM TypeCorrect == Spec => []TypeOK
<1>1. TInv => TypeOK
  BY DEF TInv
<1> QED
  BY <1>1, TypesInductive, PTL

-----------------------------------------------------------------------------
(* A patient caller: the strengthened invariant.                            *)

(* Only the thread of the last plan has steps to take.                       *)
LEMMA ActorIsLast ==
  ASSUME TInv, LastThreadOnly, NEW w \in Workers, pc[w] \notin {"unborn", "dead"}
  PROVE  w = runs /\ runs > 0 /\ runs \in Workers
BY BoundsAssumption DEF TInv, TypeOK, TypeCounters, LastThreadOnly, Workers

(* What moving a session on changes in the table, and what it leaves alone.  *)
LEMMA BecomeEffect ==
  ASSUME TInv, NEW w \in Workers, pc[w] \in WithUnit, NEW p, NEW n, Become(w, p, n)
  PROVE  /\ sess'[w][at[w]] = [phase |-> p, decided |-> n]
         /\ \A u \in UnitIds \ {at[w]} : sess'[w][u] = sess[w][u]
         /\ \A v \in Workers \ {w} : sess'[v] = sess[v]
BY SessionOfIsState DEF Become, TInv, TypeOK, TypeSessions

(* A patient caller is a caller: what holds of the engine holds for it.     *)
LEMMA PatientIsSpec == PatientSpec => Spec
<1>1. PatientNext => Next
  BY DEF PatientNext, PatientStart, Next
<1> QED
  BY <1>1, PTL DEF PatientSpec, Spec

(* The strengthened invariant holds from the start and through every step of*)
(* the engine, as long as no plan is started over a living thread.          *)
LEMMA PatientInductive == PatientSpec => []IInv
<1>1. Init => IInv
  <2> SUFFICES ASSUME Init PROVE IInv
    OBVIOUS
  <2> USE BoundsAssumption DEF Init, Workers
  <2>1. LastThreadOnly /\ Fresh
    BY DEF LastThreadOnly, Fresh
  <2>2. PhaseTells /\ SessionInHand /\ NothingLeftParked /\ Recorded /\ Walked /\ Unannounced
    BY DEF PhaseTells, SessionInHand, NothingLeftParked, Recorded,  Walked, Unannounced
  <2>3. VerdictInHand /\ VerdictAnswersItsStep
    BY DEF VerdictInHand, VerdictAnswersItsStep
  <2> QED
    BY <2>1, <2>2, <2>3 DEF IInv
<1>2. TInv /\ TInv' /\ IInv /\ [PatientNext]_vars => IInv'
  <2> SUFFICES ASSUME TInv, TInv', IInv, [PatientNext]_vars PROVE IInv'
    OBVIOUS
  <2>0. /\ TypeFlags /\ TypeCounters /\ TypeThreads /\ TypeSessions /\ TypeVerdicts
        /\ InsidePlan
    BY DEF TInv, TypeOK
  <2>00. /\ LastThreadOnly /\ Fresh /\ PhaseTells /\ SessionInHand /\ VerdictInHand
         /\ VerdictAnswersItsStep /\ NothingLeftParked /\ Recorded /\ Walked
         /\ Unannounced
    BY DEF IInv
  <2>1. ASSUME NEW p \in Plans, ThreadsReturned, Start(p) PROVE IInv'
    <3>0. /\ runs' = runs + 1 /\ runs' \in Workers /\ runs \in Nat
          /\ \A w \in Workers : pc[w] \in {"unborn", "dead"}
          /\ pc'[runs'] = "check"
          /\ \A w \in Workers \ {runs'} : pc'[w] = pc[w]
          /\ plan'[runs'] = p
      BY <2>1, <2>0, BoundsAssumption
      DEF Start, Goto, Collect, ThreadsReturned, TypeCounters, TypeThreads, Workers
    <3>00. /\ at'[runs'] = 1 /\ sess'[runs'] = NoSessions
           /\ \A w \in Workers : taken'[w] = NoVerdict
           /\ \A w \in Workers : w > runs => at'[w] = 1 /\ sess'[w] = NoSessions
      BY <2>1, <2>0, <2>00, <3>0
      DEF Start, Collect, LastThreadOnly, Fresh, VerdictAnswersItsStep, TypeCounters,
          Workers
    <3>1. LastThreadOnly'
      BY <3>0, <3>00, <2>1, <2>0, <2>00 DEF LastThreadOnly, TypeThreads, Start, Workers
    <3>2. Fresh'
      BY <3>0, <3>00, <2>1, <2>0, <2>00 DEF Fresh, Start, Workers
    <3>3. PhaseTells'
      BY <3>0, <3>00, <2>1, <2>0, <2>00
      DEF PhaseTells, TypeThreads, TypeFlags, Terminal, Busy, Start
    <3>4. SessionInHand'
      BY <3>0, <3>00, <2>1, <2>0, <2>00
      DEF SessionInHand, SessionOf, TypeThreads, InHand, WithUnit, Start
    <3>5. VerdictInHand'
      BY <3>0, <3>00, <2>1, <2>0, <2>00
      DEF VerdictInHand, SessionOf, TypeThreads, Start
    <3>6. VerdictAnswersItsStep'
      BY <3>0, <3>00, <2>1, <2>0, <2>00
      DEF VerdictAnswersItsStep, SessionOf, TypeThreads, Start
    <3>7. NothingLeftParked'
      BY <3>0, <3>00, <2>1, <2>0, <2>00
      DEF NothingLeftParked, SessionOf, TypeThreads, InHand, Start
    <3>8. Recorded'
      BY <3>0, <3>00, <2>1, <2>0, <2>00
      DEF Recorded, TypeThreads, InHand, RecordedAt, TypeSessions, TypeCounters, Start, NoSessions, NewSession, UnitIds
    <3>9. Walked'
      <4>1. \A u \in DOMAIN p : ~(u < 1)
        BY PlanPositions
      <4>2. phase' # "done"
        BY <2>1 DEF Start
      <4> QED
        BY <3>0, <3>00, <4>1, <4>2 DEF Walked, InHand
    <3>10. Unannounced'
      BY <3>0, <3>00, <2>1, <2>0, <2>00 DEF Touch, Unannounced, TypeThreads, Start
    <3> QED
      BY <3>1, <3>2, <3>3, <3>4, <3>5, <3>6, <3>7, <3>8, <3>9, <3>10
      DEF IInv
  <2>2. ASSUME NEW go \in BOOLEAN, Submit(go) PROVE IInv'
    <3>1. LastThreadOnly'
      BY <2>2, <2>0, <2>00 DEF Submit, LastThreadOnly, TypeThreads
    <3>2. Fresh'
      BY <2>2, <2>0, <2>00 DEF Submit, locals, Fresh
    <3>3. PhaseTells'
      BY <2>2, <2>0, <2>00
      DEF Submit, PhaseTells, TypeThreads, TypeFlags, Terminal, Busy
    <3>4. SessionInHand'
      BY <2>2, <2>0, <2>00
      DEF Submit, shared, locals, SessionInHand, SessionOf, TypeThreads, InHand, WithUnit
    <3>5. VerdictInHand'
      BY <2>2, <2>0, <2>00
      DEF Submit, locals, VerdictInHand, SessionOf, TypeThreads, PhaseTells, SessionInHand, ViewOf, InHand, TypeCounters
    <3>6. VerdictAnswersItsStep'
      BY <2>2, <2>0, <2>00
      DEF Submit, locals, VerdictAnswersItsStep, SessionOf, TypeThreads
    <3>7. NothingLeftParked'
      BY <2>2, <2>0, <2>00
      DEF Submit, shared, locals, NothingLeftParked, SessionOf, TypeThreads, InHand
    <3>8. Recorded'
      BY <2>2, <2>0, <2>00
      DEF Submit, shared, locals, Recorded, TypeThreads, InHand, RecordedAt, TypeSessions, TypeCounters
    <3>9. Walked'
      BY <2>2, <2>0, <2>00, PlanPositions
      DEF Submit, locals, Walked, TypeThreads, InHand
    <3>10. Unannounced'
      BY <2>2, <2>0, <2>00 DEF Submit, Touch, Unannounced, TypeThreads
    <3> QED
      BY <3>1, <3>2, <3>3, <3>4, <3>5, <3>6, <3>7, <3>8, <3>9, <3>10
      DEF IInv
  <2>3. ASSUME Cancel PROVE IInv'
    <3>1. LastThreadOnly'
      BY <2>3, <2>0, <2>00 DEF Cancel, LastThreadOnly, TypeThreads
    <3>2. Fresh'
      BY <2>3, <2>0, <2>00 DEF Cancel, locals, Fresh
    <3>3. PhaseTells'
      BY <2>3, <2>0, <2>00
      DEF Cancel, PhaseTells, TypeThreads, TypeFlags, Terminal, Busy
    <3>4. SessionInHand'
      BY <2>3, <2>0, <2>00
      DEF Cancel, shared, locals, SessionInHand, SessionOf, TypeThreads, InHand, WithUnit
    <3>5. VerdictInHand'
      BY <2>3, <2>0, <2>00
      DEF Cancel, locals, VerdictInHand, SessionOf, TypeThreads, PhaseTells, TypeCounters
    <3>6. VerdictAnswersItsStep'
      BY <2>3, <2>0, <2>00
      DEF Cancel, locals, VerdictAnswersItsStep, SessionOf, TypeThreads
    <3>7. NothingLeftParked'
      BY <2>3, <2>0, <2>00
      DEF Cancel, shared, locals, NothingLeftParked, SessionOf, TypeThreads, InHand
    <3>8. Recorded'
      BY <2>3, <2>0, <2>00
      DEF Cancel, shared, locals, Recorded, TypeThreads, InHand, RecordedAt, TypeSessions, TypeCounters
    <3>9. Walked'
      BY <2>3, <2>0, <2>00, PlanPositions
      DEF Cancel, locals, Walked, TypeThreads, InHand
    <3>10. Unannounced'
      BY <2>3, <2>0, <2>00 DEF Cancel, Touch, Unannounced, TypeThreads
    <3> QED
      BY <3>1, <3>2, <3>3, <3>4, <3>5, <3>6, <3>7, <3>8, <3>9, <3>10
      DEF IInv
  <2>4. ASSUME FocusGrab PROVE IInv'
    <3>1. LastThreadOnly'
      BY <2>4, <2>0, <2>00 DEF FocusGrab, LastThreadOnly, TypeThreads
    <3>2. Fresh'
      BY <2>4, <2>0, <2>00 DEF FocusGrab, locals, Fresh
    <3>3. PhaseTells'
      BY <2>4, <2>0, <2>00
      DEF FocusGrab, PhaseTells, TypeThreads, TypeFlags, Terminal, Busy
    <3>4. SessionInHand'
      BY <2>4, <2>0, <2>00
      DEF FocusGrab, shared, locals, SessionInHand, SessionOf, TypeThreads, InHand, WithUnit
    <3>5. VerdictInHand'
      BY <2>4, <2>0, <2>00
      DEF FocusGrab, inputs, locals, VerdictInHand, SessionOf, TypeThreads
    <3>6. VerdictAnswersItsStep'
      BY <2>4, <2>0, <2>00
      DEF FocusGrab, locals, VerdictAnswersItsStep, SessionOf, TypeThreads
    <3>7. NothingLeftParked'
      BY <2>4, <2>0, <2>00
      DEF FocusGrab, shared, locals, NothingLeftParked, SessionOf, TypeThreads, InHand
    <3>8. Recorded'
      BY <2>4, <2>0, <2>00
      DEF FocusGrab, shared, locals, Recorded, TypeThreads, InHand, RecordedAt, TypeSessions, TypeCounters
    <3>9. Walked'
      BY <2>4, <2>0, <2>00, PlanPositions
      DEF FocusGrab, locals, Walked, TypeThreads, InHand
    <3>10. Unannounced'
      BY <2>4, <2>0, <2>00 DEF FocusGrab, Unannounced, TypeThreads
    <3> QED
      BY <3>1, <3>2, <3>3, <3>4, <3>5, <3>6, <3>7, <3>8, <3>9, <3>10
      DEF IInv
  <2>5. ASSUME FocusPublish PROVE IInv'
    <3>1. LastThreadOnly'
      BY <2>5, <2>0, <2>00 DEF FocusPublish, LastThreadOnly, TypeThreads
    <3>2. Fresh'
      BY <2>5, <2>0, <2>00 DEF FocusPublish, locals, Fresh
    <3>3. PhaseTells'
      BY <2>5, <2>0, <2>00
      DEF FocusPublish, PhaseTells, TypeThreads, TypeFlags, Terminal, Busy
    <3>4. SessionInHand'
      BY <2>5, <2>0, <2>00
      DEF FocusPublish, locals, SessionInHand, SessionOf, TypeThreads, InHand, WithUnit
    <3>5. VerdictInHand'
      BY <2>5, <2>0, <2>00
      DEF FocusPublish, inputs, locals, VerdictInHand, SessionOf, TypeThreads
    <3>6. VerdictAnswersItsStep'
      BY <2>5, <2>0, <2>00
      DEF FocusPublish, locals, VerdictAnswersItsStep, SessionOf, TypeThreads
    <3>7. NothingLeftParked'
      BY <2>5, <2>0, <2>00
      DEF FocusPublish, locals, NothingLeftParked, SessionOf, TypeThreads, InHand
    <3>8. Recorded'
      BY <2>5, <2>0, <2>00
      DEF FocusPublish, locals, Recorded, TypeThreads, InHand, RecordedAt, TypeSessions, TypeCounters
    <3>9. Walked'
      BY <2>5, <2>0, <2>00, PlanPositions
      DEF FocusPublish, locals, Walked, TypeThreads, InHand
    <3>10. Unannounced'
      BY <2>5, <2>0, <2>00 DEF FocusPublish, Touch, Unannounced, TypeThreads
    <3> QED
      BY <3>1, <3>2, <3>3, <3>4, <3>5, <3>6, <3>7, <3>8, <3>9, <3>10
      DEF IInv
  <2>6. ASSUME NEW w \in Workers, Check(w) PROVE IInv'
    <3>0. w = runs /\ runs \in Workers /\ runs > 0 /\ runs' = runs
      BY <2>6, <2>0, <2>00, ActorIsLast DEF Check
    <3>1. LastThreadOnly'
      BY <2>6, <2>0, <2>00, <3>0 DEF Check, Goto, LastThreadOnly, TypeThreads
    <3>2. Fresh'
      BY <2>6, <2>0, <2>00, <3>0 DEF Check, locals, Fresh
    <3>3. PhaseTells'
      BY <2>6, <2>0, <2>00, <3>0
      DEF Check, Goto, PhaseTells, TypeThreads, TypeFlags, Terminal, Busy
    <3>4. SessionInHand'
      BY <2>6, <2>0, <2>00, <3>0
      DEF Check, Goto, shared, locals, SessionInHand, SessionOf, TypeThreads, InHand, WithUnit
    <3>5. VerdictInHand'
      BY <2>6, <2>0, <2>00, <3>0
      DEF Check, Goto, inputs, locals, VerdictInHand, SessionOf, TypeThreads
    <3>6. VerdictAnswersItsStep'
      BY <2>6, <2>0, <2>00, <3>0
      DEF Check, Goto, locals, VerdictAnswersItsStep, SessionOf, TypeThreads
    <3>7. NothingLeftParked'
      BY <2>6, <2>0, <2>00, <3>0
      DEF Check, Goto, shared, locals, NothingLeftParked, SessionOf, TypeThreads, InHand
    <3>8. Recorded'
      BY <2>6, <2>0, <2>00, <3>0
      DEF Check, Goto, shared, locals, Recorded, TypeThreads, InHand, RecordedAt, TypeSessions, TypeCounters
    <3>9. Walked'
      BY <2>6, <2>0, <2>00, <3>0, PlanPositions
      DEF Check, Goto, locals, Walked, TypeThreads, InHand
    <3>10. Unannounced'
      BY <2>6, <2>0, <2>00, <3>0 DEF Check, Goto, Unannounced, TypeThreads
    <3> QED
      BY <3>1, <3>2, <3>3, <3>4, <3>5, <3>6, <3>7, <3>8, <3>9, <3>10
      DEF IInv
  <2>7. ASSUME NEW w \in Workers, Take(w) PROVE IInv'
    <3>0. w = runs /\ runs \in Workers /\ runs > 0 /\ runs' = runs
      BY <2>7, <2>0, <2>00, ActorIsLast DEF Take
    <3>01. at'[w] \in {at[w], at[w] + 1} /\ at[w] \in Nat \ {0}
      BY <2>7, <2>0, <3>0 DEF Take, TypeThreads
    <3>1. LastThreadOnly'
      BY <2>7, <2>0, <2>00, <3>0 DEF Take, Goto, LastThreadOnly, TypeThreads
    <3>2. Fresh'
      BY <2>7, <2>0, <2>00, <3>0, BoundsAssumption
      DEF Take, Fresh, TypeThreads, TypeSessions, TypeVerdicts, TypeCounters, Workers
    <3>3. PhaseTells'
      BY <2>7, <2>0, <2>00, <3>0
      DEF Take, Goto, PhaseTells, TypeThreads, TypeFlags, Terminal, Busy
    <3>4. SessionInHand'
      BY <2>7, <2>0, <2>00, <3>0
      DEF Take, Goto, SessionInHand, SessionOf, TypeThreads, InHand, WithUnit
    <3>5. VerdictInHand'
      BY <2>7, <2>0, <2>00, <3>0
      DEF Take, Goto, inputs, VerdictInHand, SessionOf, TypeThreads
    <3>6. VerdictAnswersItsStep'
      BY <2>7, <2>0, <2>00, <3>0
      DEF Take, Goto, VerdictAnswersItsStep, SessionOf, TypeThreads
    <3>7. NothingLeftParked'
      BY <2>7, <2>0, <2>00, <3>0
      DEF Take, Goto, NothingLeftParked, SessionOf, TypeThreads, InHand
    <3>8. Recorded'
      <4>1. ASSUME NEW u \in UnitIds PROVE RecordedAt(u)'
        <5>1. /\ RecordedAt(u)
              /\ sess' = sess /\ counts' = counts /\ runs' = runs
          BY <2>7, <2>00, <3>0 DEF Take, Recorded
        <5>2. \/ pc'[runs] = "unit" /\ at'[runs] = at[runs]
              \/ pc'[runs] = "check" /\ at'[runs] = at[runs] + 1
          BY <2>7, <2>0, <3>0 DEF Take, Goto, TypeThreads
        <5>3. pc[runs] = "take" /\ at[runs] \in Nat
          BY <2>7, <2>0, <3>0 DEF Take, TypeThreads
        <5>4. CASE pc'[runs] = "unit" /\ at'[runs] = at[runs]
          BY <5>1, <5>2, <5>3, <5>4 DEF RecordedAt, InHand
        <5>5. CASE at'[runs] = at[runs] + 1 /\ pc'[runs] = "check"
          BY <5>1, <5>3, <5>5 DEF RecordedAt, InHand, UnitIds
        <5> QED
          BY <5>2, <5>4, <5>5
      <4> QED
        BY <4>1 DEF Recorded
    <3>9. Walked'
      BY <2>7, <2>0, <2>00, <3>0, PlanPositions, <3>01
      DEF Take, Goto, Walked, TypeThreads, InHand, UnitOf, InsidePlan, WithUnit
    <3>10. Unannounced'
      BY <2>7, <2>0, <2>00, <3>0 DEF Take, Goto, Unannounced, TypeThreads
    <3> QED
      BY <3>1, <3>2, <3>3, <3>4, <3>5, <3>6, <3>7, <3>8, <3>9, <3>10
      DEF IInv
  <2>8. ASSUME NEW w \in Workers, Reap(w) PROVE IInv'
    <3>0. w = runs /\ runs \in Workers /\ runs > 0 /\ runs' = runs
      BY <2>8, <2>0, <2>00, ActorIsLast DEF Reap, Moves
    <3>01. UNCHANGED <<sess, sview, counts>>
      BY <2>8, <2>00, <3>0 DEF Reap, Moves, NothingLeftParked, ViewOf
    <3>1. LastThreadOnly'
      BY <2>8, <2>0, <2>00, <3>0 DEF Reap, Moves, Goto, LastThreadOnly, TypeThreads
    <3>2. Fresh'
      BY <2>8, <2>0, <2>00, <3>0, BoundsAssumption, <3>01
      DEF Reap, Fresh, TypeThreads, TypeSessions, TypeVerdicts, TypeCounters, Workers
    <3>3. PhaseTells'
      BY <2>8, <2>0, <2>00, <3>0
      DEF Reap, Moves, Goto, End, PhaseTells, TypeThreads, TypeFlags, Terminal, Busy
    <3>4. SessionInHand'
      BY <2>8, <2>0, <2>00, <3>0
      DEF Reap, Moves, Goto, SessionInHand, SessionOf, TypeThreads, InHand, WithUnit
    <3>5. VerdictInHand'
      BY <2>8, <2>0, <2>00, <3>0
      DEF Reap, Moves, Goto, inputs, VerdictInHand, SessionOf, TypeThreads
    <3>6. VerdictAnswersItsStep'
      BY <2>8, <2>0, <2>00, <3>0, <3>01
      DEF Reap, Moves, Goto, VerdictAnswersItsStep, SessionOf, TypeThreads
    <3>7. NothingLeftParked'
      BY <2>8, <2>0, <2>00, <3>0, <3>01
      DEF Reap, Moves, Goto, NothingLeftParked, SessionOf, TypeThreads, InHand
    <3>8. Recorded'
      BY <2>8, <2>0, <2>00, <3>0, <3>01
      DEF Reap, Moves, Goto, Recorded, TypeThreads, InHand, RecordedAt, TypeSessions, TypeCounters
    <3>9. Walked'
      BY <2>8, <2>0, <2>00, <3>0, PlanPositions, <3>01
      DEF Reap, Moves, Goto, End, Walked, TypeThreads, InHand
    <3>10. Unannounced'
      BY <2>8, <2>0, <2>00, <3>0 DEF Reap, Moves, Goto, Touch, Unannounced, TypeThreads
    <3> QED
      BY <3>1, <3>2, <3>3, <3>4, <3>5, <3>6, <3>7, <3>8, <3>9, <3>10
      DEF IInv
  <2>9. ASSUME NEW w \in Workers, Last(w) PROVE IInv'
    <3>0. w = runs /\ runs \in Workers /\ runs > 0 /\ runs' = runs
      BY <2>9, <2>0, <2>00, ActorIsLast DEF Last, Moves
    <3>1. LastThreadOnly'
      BY <2>9, <2>0, <2>00, <3>0 DEF Last, Moves, Goto, LastThreadOnly, TypeThreads
    <3>2. Fresh'
      BY <2>9, <2>0, <2>00, <3>0 DEF Last, locals, Fresh
    <3>3. PhaseTells'
      BY <2>9, <2>0, <2>00, <3>0
      DEF Last, Moves, Goto, End, PhaseTells, TypeThreads, TypeFlags, Terminal, Busy
    <3>4. SessionInHand'
      BY <2>9, <2>0, <2>00, <3>0
      DEF Last, Moves, Goto, locals, SessionInHand, SessionOf, TypeThreads, InHand, WithUnit
    <3>5. VerdictInHand'
      BY <2>9, <2>0, <2>00, <3>0
      DEF Last, Moves, Goto, inputs, locals, VerdictInHand, SessionOf, TypeThreads
    <3>6. VerdictAnswersItsStep'
      BY <2>9, <2>0, <2>00, <3>0
      DEF Last, Moves, Goto, locals, VerdictAnswersItsStep, SessionOf, TypeThreads
    <3>7. NothingLeftParked'
      BY <2>9, <2>0, <2>00, <3>0
      DEF Last, Moves, Goto, locals, NothingLeftParked, SessionOf, TypeThreads, InHand
    <3>8. Recorded'
      BY <2>9, <2>0, <2>00, <3>0
      DEF Last, Moves, Goto, locals, Recorded, TypeThreads, InHand, RecordedAt, TypeSessions, TypeCounters
    <3>9. Walked'
      BY <2>9, <2>0, <2>00, <3>0, PlanPositions
      DEF Last, Moves, Goto, locals, End, Walked, TypeThreads, InHand
    <3>10. Unannounced'
      BY <2>9, <2>0, <2>00, <3>0 DEF Last, Moves, Goto, Touch, Unannounced, TypeThreads
    <3> QED
      BY <3>1, <3>2, <3>3, <3>4, <3>5, <3>6, <3>7, <3>8, <3>9, <3>10
      DEF IInv
  <2>10. ASSUME NEW w \in Workers, Raise(w) PROVE IInv'
    <3>0. w = runs /\ runs \in Workers /\ runs > 0 /\ runs' = runs
      BY <2>10, <2>0, <2>00, ActorIsLast DEF Raise, Moves
    <3>1. LastThreadOnly'
      BY <2>10, <2>0, <2>00, <3>0 DEF Raise, Moves, Goto, LastThreadOnly, TypeThreads
    <3>2. Fresh'
      BY <2>10, <2>0, <2>00, <3>0 DEF Raise, locals, Fresh
    <3>3. PhaseTells'
      BY <2>10, <2>0, <2>00, <3>0
      DEF Raise, Moves, Goto, End, PhaseTells, TypeThreads, TypeFlags, Terminal, Busy
    <3>4. SessionInHand'
      BY <2>10, <2>0, <2>00, <3>0
      DEF Raise, Moves, Goto, locals, SessionInHand, SessionOf, TypeThreads, InHand, WithUnit
    <3>5. VerdictInHand'
      BY <2>10, <2>0, <2>00, <3>0
      DEF Raise, Moves, Goto, inputs, locals, VerdictInHand, SessionOf, TypeThreads
    <3>6. VerdictAnswersItsStep'
      BY <2>10, <2>0, <2>00, <3>0
      DEF Raise, Moves, Goto, locals, VerdictAnswersItsStep, SessionOf, TypeThreads
    <3>7. NothingLeftParked'
      BY <2>10, <2>0, <2>00, <3>0
      DEF Raise, Moves, Goto, locals, NothingLeftParked, SessionOf, TypeThreads, InHand
    <3>8. Recorded'
      BY <2>10, <2>0, <2>00, <3>0
      DEF Raise, Moves, Goto, locals, Recorded, TypeThreads, InHand, RecordedAt, TypeSessions, TypeCounters
    <3>9. Walked'
      BY <2>10, <2>0, <2>00, <3>0, PlanPositions
      DEF Raise, Moves, Goto, locals, End, Walked, TypeThreads, InHand
    <3>10. Unannounced'
      BY <2>10, <2>0, <2>00, <3>0
      DEF Raise, Moves, Goto, Touch, Unannounced, TypeThreads
    <3> QED
      BY <3>1, <3>2, <3>3, <3>4, <3>5, <3>6, <3>7, <3>8, <3>9, <3>10
      DEF IInv
  <2>11. ASSUME NEW w \in Workers, Final(w) PROVE IInv'
    <3>0. w = runs /\ runs \in Workers /\ runs > 0 /\ runs' = runs
      BY <2>11, <2>0, <2>00, ActorIsLast DEF Final, Moves
    <3>1. LastThreadOnly'
      BY <2>11, <2>0, <2>00, <3>0 DEF Final, Moves, Goto, LastThreadOnly, TypeThreads
    <3>2. Fresh'
      BY <2>11, <2>0, <2>00, <3>0 DEF Final, locals, Fresh
    <3>3. PhaseTells'
      BY <2>11, <2>0, <2>00, <3>0
      DEF Final, Moves, Goto, End, PhaseTells, TypeThreads, TypeFlags, Terminal, Busy
    <3>4. SessionInHand'
      BY <2>11, <2>0, <2>00, <3>0
      DEF Final, Moves, Goto, shared, locals, SessionInHand, SessionOf, TypeThreads, InHand, WithUnit
    <3>5. VerdictInHand'
      BY <2>11, <2>0, <2>00, <3>0
      DEF Final, Moves, Goto, inputs, locals, Settle, VerdictInHand, SessionOf, TypeThreads
    <3>6. VerdictAnswersItsStep'
      BY <2>11, <2>0, <2>00, <3>0
      DEF Final, Moves, Goto, locals, VerdictAnswersItsStep, SessionOf, TypeThreads
    <3>7. NothingLeftParked'
      BY <2>11, <2>0, <2>00, <3>0
      DEF Final, Moves, Goto, shared, locals, NothingLeftParked, SessionOf, TypeThreads, InHand
    <3>8. Recorded'
      BY <2>11, <2>0, <2>00, <3>0
      DEF Final, Moves, Goto, shared, locals, Recorded, TypeThreads, InHand, RecordedAt, TypeSessions, TypeCounters
    <3>9. Walked'
      BY <2>11, <2>0, <2>00, <3>0, PlanPositions
      DEF Final, Moves, Goto, locals, End, Walked, TypeThreads, InHand, PhaseTells, Terminal
    <3>10. Unannounced'
      BY <2>11, <2>0, <2>00, <3>0
      DEF Final, Moves, Goto, Settle, Touch, Unannounced, TypeThreads
    <3> QED
      BY <3>1, <3>2, <3>3, <3>4, <3>5, <3>6, <3>7, <3>8, <3>9, <3>10
      DEF IInv
  <2>12. ASSUME NEW w \in Workers, Announce(w) PROVE IInv'
    <3>0. w = runs /\ runs \in Workers /\ runs > 0 /\ runs' = runs
      BY <2>12, <2>0, <2>00, ActorIsLast DEF Announce, Moves
    <3>1. LastThreadOnly'
      BY <2>12, <2>0, <2>00, <3>0
      DEF Announce, Moves, Goto, LastThreadOnly, TypeThreads
    <3>2. Fresh'
      BY <2>12, <2>0, <2>00, <3>0 DEF Announce, locals, Fresh
    <3>3. PhaseTells'
      BY <2>12, <2>0, <2>00, <3>0
      DEF Announce, Moves, Goto, PhaseTells, TypeThreads, TypeFlags, Terminal, Busy
    <3>4. SessionInHand'
      BY <2>12, <2>0, <2>00, <3>0
      DEF Announce, Moves, Goto, shared, locals, SessionInHand, SessionOf, TypeThreads, InHand, WithUnit
    <3>5. VerdictInHand'
      BY <2>12, <2>0, <2>00, <3>0
      DEF Announce, Moves, Goto, inputs, locals, VerdictInHand, SessionOf, TypeThreads
    <3>6. VerdictAnswersItsStep'
      BY <2>12, <2>0, <2>00, <3>0
      DEF Announce, Moves, Goto, locals, VerdictAnswersItsStep, SessionOf, TypeThreads
    <3>7. NothingLeftParked'
      BY <2>12, <2>0, <2>00, <3>0
      DEF Announce, Moves, Goto, shared, locals, NothingLeftParked, SessionOf, TypeThreads, InHand
    <3>8. Recorded'
      BY <2>12, <2>0, <2>00, <3>0
      DEF Announce, Moves, Goto, shared, locals, Recorded, TypeThreads, InHand, RecordedAt, TypeSessions, TypeCounters
    <3>9. Walked'
      BY <2>12, <2>0, <2>00, <3>0, PlanPositions
      DEF Announce, Moves, Goto, locals, Walked, TypeThreads, InHand
    <3>10. Unannounced'
      BY <2>12, <2>0, <2>00, <3>0
      DEF Announce, Moves, Goto, Touch, Unannounced, TypeThreads
    <3> QED
      BY <3>1, <3>2, <3>3, <3>4, <3>5, <3>6, <3>7, <3>8, <3>9, <3>10
      DEF IInv
  <2>13. ASSUME NEW w \in Workers, Build(w) PROVE IInv'
    <3>0. w = runs /\ runs \in Workers /\ runs > 0 /\ runs' = runs
      BY <2>13, <2>0, <2>00, ActorIsLast DEF Build, Moves
    <3>00. /\ sess'[w][at[w]] = [phase |-> "start", decided |-> 0]
           /\ \A u \in UnitIds \ {at[w]} : sess'[w][u] = sess[w][u]
           /\ \A v \in Workers \ {w} : sess'[v] = sess[v]
           /\ at[w] \in UnitIds
      BY <2>13, BecomeEffect, SessionOfIsState DEF Build, WithUnit, InHand, Moves
    <3>1. LastThreadOnly'
      BY <2>13, <2>0, <2>00, <3>0 DEF Build, Moves, Goto, LastThreadOnly, TypeThreads
    <3>2. Fresh'
      BY <2>13, <2>0, <2>00, <3>0, <3>00, BoundsAssumption
      DEF Build, Fresh, TypeThreads, TypeSessions, TypeVerdicts, TypeCounters, Workers
    <3>3. PhaseTells'
      BY <2>13, <2>0, <2>00, <3>0
      DEF Build, Moves, Goto, PhaseTells, TypeThreads, TypeFlags, Terminal, Busy
    <3>4. SessionInHand'
      BY <2>13, <2>0, <2>00, <3>0, <3>00
      DEF Build, Moves, Goto, SessionInHand, SessionOf, TypeThreads, InHand, WithUnit
    <3>5. VerdictInHand'
      BY <2>13, <2>0, <2>00, <3>0, <3>00
      DEF Build, Moves, Goto, inputs, VerdictInHand, SessionOf, TypeThreads
    <3>6. VerdictAnswersItsStep'
      BY <2>13, <2>0, <2>00, <3>0, <3>00
      DEF Build, Moves, Goto, VerdictAnswersItsStep, SessionOf, TypeThreads
    <3>7. NothingLeftParked'
      BY <2>13, <2>0, <2>00, <3>0, <3>00
      DEF Build, Moves, Goto, NothingLeftParked, SessionOf, TypeThreads, InHand, NoSession
    <3>8. Recorded'
      BY <2>13, <2>0, <2>00, <3>0, <3>00
      DEF Build, Moves, Goto, Recorded, TypeThreads, InHand, RecordedAt, TypeSessions, TypeCounters
    <3>9. Walked'
      <4>1. /\ plan[runs] \in Plans /\ DOMAIN plan[runs] \subseteq UnitIds
            /\ plan' = plan /\ at' = at /\ phase' = phase
            /\ pc'[runs] # "last" /\ pc[runs] \in InHand \cup {"build"}
        BY <2>13, <2>0, <2>00, <3>0, PlanPositions
        DEF Build, Moves, Goto, TypeThreads, Walked, InHand
      <4>2. ASSUME NEW u \in DOMAIN plan[runs], plan[runs][u].runnable, u < at[runs]
            PROVE  sess'[runs][u].phase # "none"
        BY <2>00, <3>0, <3>00, <4>1, <4>2 DEF Walked
      <4>3. sess'[runs][at[runs]].phase # "none"
        BY <3>0, <3>00
      <4> QED
        BY <2>00, <3>0, <4>1, <4>2, <4>3 DEF Walked, InHand
    <3>10. Unannounced'
      BY <2>13, <2>0, <2>00, <3>0 DEF Build, Moves, Goto, Unannounced, TypeThreads
    <3> QED
      BY <3>1, <3>2, <3>3, <3>4, <3>5, <3>6, <3>7, <3>8, <3>9, <3>10
      DEF IInv
  <2>14. ASSUME NEW w \in Workers, Advance(w) PROVE IInv'
    <3>0. w = runs /\ runs \in Workers /\ runs > 0 /\ runs' = runs
      BY <2>14, <2>0, <2>00, ActorIsLast DEF Advance, Moves
    <3>00. /\ sess'[w][at[w]] = [phase |-> "running", decided |-> SessionOf(w).decided]
           /\ \A u \in UnitIds \ {at[w]} : sess'[w][u] = sess[w][u]
           /\ \A v \in Workers \ {w} : sess'[v] = sess[v]
           /\ at[w] \in UnitIds
      BY <2>14, BecomeEffect, SessionOfIsState
      DEF Advance, WithUnit, InHand, Moves, Publish
    <3>1. LastThreadOnly'
      BY <2>14, <2>0, <2>00, <3>0 DEF Advance, Moves, Goto, LastThreadOnly, TypeThreads
    <3>2. Fresh'
      BY <2>14, <2>0, <2>00, <3>0, <3>00, BoundsAssumption
      DEF Advance, Fresh, TypeThreads, TypeSessions, TypeVerdicts, TypeCounters, Workers
    <3>3. PhaseTells'
      BY <2>14, <2>0, <2>00, <3>0
      DEF Advance, Moves, Goto, PhaseTells, TypeThreads, TypeFlags, Terminal, Busy
    <3>4. SessionInHand'
      BY <2>14, <2>0, <2>00, <3>0, <3>00
      DEF Advance, Moves, Goto, SessionInHand, SessionOf, TypeThreads, InHand, WithUnit
    <3>5. VerdictInHand'
      BY <2>14, <2>0, <2>00, <3>0, <3>00
      DEF Advance, Moves, Goto, inputs, VerdictInHand, SessionOf, TypeThreads
    <3>6. VerdictAnswersItsStep'
      BY <2>14, <2>0, <2>00, <3>0, <3>00
      DEF Advance, Moves, Goto, VerdictAnswersItsStep, SessionOf, TypeThreads
    <3>7. NothingLeftParked'
      BY <2>14, <2>0, <2>00, <3>0, <3>00
      DEF Advance, Moves, Goto, NothingLeftParked, SessionOf, TypeThreads, InHand, NoSession
    <3>8. Recorded'
      BY <2>14, <2>0, <2>00, <3>0, <3>00
      DEF Advance, Moves, Goto, Recorded, TypeThreads, InHand, RecordedAt, TypeSessions, TypeCounters
    <3>9. Walked'
      <4>1. /\ plan[runs] \in Plans /\ DOMAIN plan[runs] \subseteq UnitIds
            /\ plan' = plan /\ at' = at /\ phase' = phase
            /\ pc'[runs] # "last" /\ pc[runs] \in InHand \cup {"build"}
        BY <2>14, <2>0, <2>00, <3>0, PlanPositions
        DEF Advance, Moves, Goto, TypeThreads, Walked, InHand
      <4>2. ASSUME NEW u \in DOMAIN plan[runs], plan[runs][u].runnable, u < at[runs]
            PROVE  sess'[runs][u].phase # "none"
        BY <2>00, <3>0, <3>00, <4>1, <4>2 DEF Walked
      <4>3. sess'[runs][at[runs]].phase # "none"
        BY <3>0, <3>00
      <4> QED
        BY <2>00, <3>0, <4>1, <4>2, <4>3 DEF Walked, InHand
    <3>10. Unannounced'
      BY <2>14, <2>0, <2>00, <3>0
      DEF Advance, Moves, Goto, Publish, Unannounced, TypeThreads, Touch
    <3> QED
      BY <3>1, <3>2, <3>3, <3>4, <3>5, <3>6, <3>7, <3>8, <3>9, <3>10
      DEF IInv
  <2>15. ASSUME NEW w \in Workers, Decide(w) PROVE IInv'
    <3>0. w = runs /\ runs \in Workers /\ runs > 0 /\ runs' = runs
      BY <2>15, <2>0, <2>00, ActorIsLast DEF Decide, Moves
    <3>00. /\ sess'[w][at[w]] = [phase |-> "running", decided |-> SessionOf(w).decided + 1]
           /\ \A u \in UnitIds \ {at[w]} : sess'[w][u] = sess[w][u]
           /\ \A v \in Workers \ {w} : sess'[v] = sess[v]
           /\ at[w] \in UnitIds
      BY <2>15, BecomeEffect, SessionOfIsState
      DEF Decide, WithUnit, InHand, Moves, Publish
    <3>1. LastThreadOnly'
      BY <2>15, <2>0, <2>00, <3>0 DEF Decide, Moves, Goto, LastThreadOnly, TypeThreads
    <3>2. Fresh'
      BY <2>15, <2>0, <2>00, <3>0, <3>00, BoundsAssumption
      DEF Decide, Fresh, TypeThreads, TypeSessions, TypeVerdicts, TypeCounters, Workers
    <3>3. PhaseTells'
      BY <2>15, <2>0, <2>00, <3>0
      DEF Decide, Moves, Goto, PhaseTells, TypeThreads, TypeFlags, Terminal, Busy
    <3>4. SessionInHand'
      BY <2>15, <2>0, <2>00, <3>0, <3>00
      DEF Decide, Moves, Goto, SessionInHand, SessionOf, TypeThreads, InHand, WithUnit
    <3>5. VerdictInHand'
      BY <2>15, <2>0, <2>00, <3>0, <3>00
      DEF Decide, Moves, Goto, inputs, VerdictInHand, SessionOf, TypeThreads
    <3>6. VerdictAnswersItsStep'
      BY <2>15, <2>0, <2>00, <3>0, <3>00
      DEF Decide, Moves, Goto, VerdictAnswersItsStep, SessionOf, TypeThreads
    <3>7. NothingLeftParked'
      BY <2>15, <2>0, <2>00, <3>0, <3>00
      DEF Decide, Moves, Goto, NothingLeftParked, SessionOf, TypeThreads, InHand, NoSession
    <3>8. Recorded'
      BY <2>15, <2>0, <2>00, <3>0, <3>00
      DEF Decide, Moves, Goto, Recorded, TypeThreads, InHand, RecordedAt, TypeSessions, TypeCounters
    <3>9. Walked'
      <4>1. /\ plan[runs] \in Plans /\ DOMAIN plan[runs] \subseteq UnitIds
            /\ plan' = plan /\ at' = at /\ phase' = phase
            /\ pc'[runs] # "last" /\ pc[runs] \in InHand \cup {"build"}
        BY <2>15, <2>0, <2>00, <3>0, PlanPositions
        DEF Decide, Moves, Goto, TypeThreads, Walked, InHand
      <4>2. ASSUME NEW u \in DOMAIN plan[runs], plan[runs][u].runnable, u < at[runs]
            PROVE  sess'[runs][u].phase # "none"
        BY <2>00, <3>0, <3>00, <4>1, <4>2 DEF Walked
      <4>3. sess'[runs][at[runs]].phase # "none"
        BY <3>0, <3>00
      <4> QED
        BY <2>00, <3>0, <4>1, <4>2, <4>3 DEF Walked, InHand
    <3>10. Unannounced'
      BY <2>15, <2>0, <2>00, <3>0
      DEF Decide, Moves, Goto, Publish, Unannounced, TypeThreads, Touch
    <3> QED
      BY <3>1, <3>2, <3>3, <3>4, <3>5, <3>6, <3>7, <3>8, <3>9, <3>10
      DEF IInv
  <2>16. ASSUME NEW w \in Workers, Park(w) PROVE IInv'
    <3>0. w = runs /\ runs \in Workers /\ runs > 0 /\ runs' = runs
      BY <2>16, <2>0, <2>00, ActorIsLast DEF Park, Moves
    <3>00. /\ sess'[w][at[w]] = [phase |-> "step", decided |-> SessionOf(w).decided]
           /\ \A u \in UnitIds \ {at[w]} : sess'[w][u] = sess[w][u]
           /\ \A v \in Workers \ {w} : sess'[v] = sess[v]
           /\ at[w] \in UnitIds
      BY <2>16, BecomeEffect, SessionOfIsState
      DEF Park, WithUnit, InHand, Moves, Publish
    <3>1. LastThreadOnly'
      BY <2>16, <2>0, <2>00, <3>0 DEF Park, Moves, Goto, LastThreadOnly, TypeThreads
    <3>2. Fresh'
      BY <2>16, <2>0, <2>00, <3>0, <3>00, BoundsAssumption
      DEF Park, Fresh, TypeThreads, TypeSessions, TypeVerdicts, TypeCounters, Workers
    <3>3. PhaseTells'
      BY <2>16, <2>0, <2>00, <3>0
      DEF Park, Moves, Goto, PhaseTells, TypeThreads, TypeFlags, Terminal, Busy
    <3>4. SessionInHand'
      BY <2>16, <2>0, <2>00, <3>0, <3>00
      DEF Park, Moves, Goto, SessionInHand, SessionOf, TypeThreads, InHand, WithUnit
    <3>5. VerdictInHand'
      BY <2>16, <2>0, <2>00, <3>0, <3>00
      DEF Park, Moves, Goto, inputs, VerdictInHand, SessionOf, TypeThreads
    <3>6. VerdictAnswersItsStep'
      BY <2>16, <2>0, <2>00, <3>0, <3>00
      DEF Park, Moves, Goto, VerdictAnswersItsStep, SessionOf, TypeThreads
    <3>7. NothingLeftParked'
      BY <2>16, <2>0, <2>00, <3>0, <3>00
      DEF Park, Moves, Goto, NothingLeftParked, SessionOf, TypeThreads, InHand, NoSession
    <3>8. Recorded'
      BY <2>16, <2>0, <2>00, <3>0, <3>00
      DEF Park, Moves, Goto, Recorded, TypeThreads, InHand, RecordedAt, TypeSessions, TypeCounters
    <3>9. Walked'
      <4>1. /\ plan[runs] \in Plans /\ DOMAIN plan[runs] \subseteq UnitIds
            /\ plan' = plan /\ at' = at /\ phase' = phase
            /\ pc'[runs] # "last" /\ pc[runs] \in InHand \cup {"build"}
        BY <2>16, <2>0, <2>00, <3>0, PlanPositions
        DEF Park, Moves, Goto, TypeThreads, Walked, InHand
      <4>2. ASSUME NEW u \in DOMAIN plan[runs], plan[runs][u].runnable, u < at[runs]
            PROVE  sess'[runs][u].phase # "none"
        BY <2>00, <3>0, <3>00, <4>1, <4>2 DEF Walked
      <4>3. sess'[runs][at[runs]].phase # "none"
        BY <3>0, <3>00
      <4> QED
        BY <2>00, <3>0, <4>1, <4>2, <4>3 DEF Walked, InHand
    <3>10. Unannounced'
      BY <2>16, <2>0, <2>00, <3>0
      DEF Park, Moves, Goto, Publish, Unannounced, TypeThreads, Touch
    <3> QED
      BY <3>1, <3>2, <3>3, <3>4, <3>5, <3>6, <3>7, <3>8, <3>9, <3>10
      DEF IInv
  <2>17. ASSUME NEW w \in Workers, FinishSession(w) PROVE IInv'
    <3>0. w = runs /\ runs \in Workers /\ runs > 0 /\ runs' = runs
      BY <2>17, <2>0, <2>00, ActorIsLast DEF FinishSession
    <3>00. /\ sess'[w][at[w]] = [phase |-> "done", decided |-> SessionOf(w).decided]
           /\ \A u \in UnitIds \ {at[w]} : sess'[w][u] = sess[w][u]
           /\ \A v \in Workers \ {w} : sess'[v] = sess[v]
           /\ at[w] \in UnitIds
      BY <2>17, BecomeEffect, SessionOfIsState
      DEF FinishSession, WithUnit, InHand, Publish
    <3>1. LastThreadOnly'
      BY <2>17, <2>0, <2>00, <3>0 DEF FinishSession, Goto, LastThreadOnly, TypeThreads
    <3>2. Fresh'
      BY <2>17, <2>0, <2>00, <3>0, <3>00, BoundsAssumption
      DEF FinishSession, Fresh, TypeThreads, TypeSessions, TypeVerdicts, TypeCounters, Workers
    <3>3. PhaseTells'
      BY <2>17, <2>0, <2>00, <3>0
      DEF FinishSession, Goto, PhaseTells, TypeThreads, TypeFlags, Terminal, Busy
    <3>4. SessionInHand'
      BY <2>17, <2>0, <2>00, <3>0, <3>00
      DEF FinishSession, Goto, SessionInHand, SessionOf, TypeThreads, InHand, WithUnit
    <3>5. VerdictInHand'
      BY <2>17, <2>0, <2>00, <3>0, <3>00
      DEF FinishSession, Goto, inputs, VerdictInHand, SessionOf, TypeThreads
    <3>6. VerdictAnswersItsStep'
      BY <2>17, <2>0, <2>00, <3>0, <3>00
      DEF FinishSession, Goto, VerdictAnswersItsStep, SessionOf, TypeThreads
    <3>7. NothingLeftParked'
      BY <2>17, <2>0, <2>00, <3>0, <3>00
      DEF FinishSession, Goto, NothingLeftParked, SessionOf, TypeThreads, InHand, NoSession
    <3>8. Recorded'
      BY <2>17, <2>0, <2>00, <3>0, <3>00
      DEF FinishSession, Goto, Recorded, TypeThreads, InHand, RecordedAt, TypeSessions, TypeCounters
    <3>9. Walked'
      <4>1. /\ plan[runs] \in Plans /\ DOMAIN plan[runs] \subseteq UnitIds
            /\ plan' = plan /\ at' = at /\ phase' = phase
            /\ pc'[runs] # "last" /\ pc[runs] \in InHand \cup {"build"}
        BY <2>17, <2>0, <2>00, <3>0, PlanPositions
        DEF FinishSession, Moves, Goto, TypeThreads, Walked, InHand
      <4>2. ASSUME NEW u \in DOMAIN plan[runs], plan[runs][u].runnable, u < at[runs]
            PROVE  sess'[runs][u].phase # "none"
        BY <2>00, <3>0, <3>00, <4>1, <4>2 DEF Walked
      <4>3. sess'[runs][at[runs]].phase # "none"
        BY <3>0, <3>00
      <4> QED
        BY <2>00, <3>0, <4>1, <4>2, <4>3 DEF Walked, InHand
    <3>10. Unannounced'
      BY <2>17, <2>0, <2>00, <3>0
      DEF FinishSession, Goto, Publish, Unannounced, TypeThreads, Touch
    <3> QED
      BY <3>1, <3>2, <3>3, <3>4, <3>5, <3>6, <3>7, <3>8, <3>9, <3>10
      DEF IInv
  <2>18. ASSUME NEW w \in Workers, RefuseUnit(w) PROVE IInv'
    <3>0. w = runs /\ runs \in Workers /\ runs > 0 /\ runs' = runs
      BY <2>18, <2>0, <2>00, ActorIsLast DEF RefuseUnit
    <3>1. LastThreadOnly'
      BY <2>18, <2>0, <2>00, <3>0 DEF RefuseUnit, Goto, LastThreadOnly, TypeThreads
    <3>2. Fresh'
      BY <2>18, <2>0, <2>00, <3>0 DEF RefuseUnit, locals, Fresh
    <3>3. PhaseTells'
      BY <2>18, <2>0, <2>00, <3>0
      DEF RefuseUnit, Goto, PhaseTells, TypeThreads, TypeFlags, Terminal, Busy
    <3>4. SessionInHand'
      BY <2>18, <2>0, <2>00, <3>0
      DEF RefuseUnit, Goto, locals, SessionInHand, SessionOf, TypeThreads, InHand, WithUnit
    <3>5. VerdictInHand'
      BY <2>18, <2>0, <2>00, <3>0
      DEF RefuseUnit, Goto, inputs, locals, VerdictInHand, SessionOf, TypeThreads
    <3>6. VerdictAnswersItsStep'
      BY <2>18, <2>0, <2>00, <3>0
      DEF RefuseUnit, Goto, locals, VerdictAnswersItsStep, SessionOf, TypeThreads
    <3>7. NothingLeftParked'
      BY <2>18, <2>0, <2>00, <3>0
      DEF RefuseUnit, Goto, locals, NothingLeftParked, SessionOf, TypeThreads, InHand, SessionInHand
    <3>8. Recorded'
      BY <2>18, <2>0, <2>00, <3>0
      DEF RefuseUnit, Goto, locals, Recorded, TypeThreads, InHand, RecordedAt, TypeSessions, TypeCounters
    <3>9. Walked'
      BY <2>18, <2>0, <2>00, <3>0, PlanPositions
      DEF RefuseUnit, Goto, locals, Walked, TypeThreads, InHand
    <3>10. Unannounced'
      BY <2>18, <2>0, <2>00, <3>0 DEF RefuseUnit, Goto, Touch, Unannounced, TypeThreads
    <3> QED
      BY <3>1, <3>2, <3>3, <3>4, <3>5, <3>6, <3>7, <3>8, <3>9, <3>10
      DEF IInv
  <2>19. ASSUME NEW w \in Workers, Crash(w) PROVE IInv'
    <3>0. w = runs /\ runs \in Workers /\ runs > 0 /\ runs' = runs
      BY <2>19, <2>0, <2>00, ActorIsLast DEF Crash
    <3>1. LastThreadOnly'
      BY <2>19, <2>0, <2>00, <3>0 DEF Crash, Goto, LastThreadOnly, TypeThreads
    <3>2. Fresh'
      BY <2>19, <2>0, <2>00, <3>0 DEF Crash, locals, Fresh
    <3>3. PhaseTells'
      BY <2>19, <2>0, <2>00, <3>0
      DEF Crash, Goto, PhaseTells, TypeThreads, TypeFlags, Terminal, Busy
    <3>4. SessionInHand'
      BY <2>19, <2>0, <2>00, <3>0
      DEF Crash, Goto, shared, locals, SessionInHand, SessionOf, TypeThreads, InHand, WithUnit
    <3>5. VerdictInHand'
      BY <2>19, <2>0, <2>00, <3>0
      DEF Crash, Goto, inputs, locals, VerdictInHand, SessionOf, TypeThreads
    <3>6. VerdictAnswersItsStep'
      BY <2>19, <2>0, <2>00, <3>0
      DEF Crash, Goto, locals, VerdictAnswersItsStep, SessionOf, TypeThreads
    <3>7. NothingLeftParked'
      BY <2>19, <2>0, <2>00, <3>0
      DEF Crash, Goto, shared, locals, NothingLeftParked, SessionOf, TypeThreads, InHand
    <3>8. Recorded'
      BY <2>19, <2>0, <2>00, <3>0
      DEF Crash, Goto, shared, locals, Recorded, TypeThreads, InHand, RecordedAt, TypeSessions, TypeCounters
    <3>9. Walked'
      BY <2>19, <2>0, <2>00, <3>0, PlanPositions
      DEF Crash, Goto, locals, Walked, TypeThreads, InHand
    <3>10. Unannounced'
      BY <2>19, <2>0, <2>00, <3>0 DEF Crash, Goto, Unannounced, TypeThreads
    <3> QED
      BY <3>1, <3>2, <3>3, <3>4, <3>5, <3>6, <3>7, <3>8, <3>9, <3>10
      DEF IInv
  <2>20. ASSUME NEW w \in Workers, Await(w) PROVE IInv'
    <3>0. w = runs /\ runs \in Workers /\ runs > 0 /\ runs' = runs
      BY <2>20, <2>0, <2>00, ActorIsLast DEF Await
    <3>1. LastThreadOnly'
      BY <2>20, <2>0, <2>00, <3>0 DEF Await, Goto, LastThreadOnly, TypeThreads
    <3>2. Fresh'
      BY <2>20, <2>0, <2>00, <3>0 DEF Await, locals, Fresh
    <3>3. PhaseTells'
      BY <2>20, <2>0, <2>00, <3>0
      DEF Await, Goto, PhaseTells, TypeThreads, TypeFlags, Terminal, Busy
    <3>4. SessionInHand'
      BY <2>20, <2>0, <2>00, <3>0
      DEF Await, Goto, shared, locals, SessionInHand, SessionOf, TypeThreads, InHand, WithUnit
    <3>5. VerdictInHand'
      BY <2>20, <2>0, <2>00, <3>0
      DEF Await, Goto, inputs, locals, Settle, VerdictInHand, SessionOf, TypeThreads
    <3>6. VerdictAnswersItsStep'
      BY <2>20, <2>0, <2>00, <3>0
      DEF Await, Goto, locals, VerdictAnswersItsStep, SessionOf, TypeThreads
    <3>7. NothingLeftParked'
      BY <2>20, <2>0, <2>00, <3>0
      DEF Await, Goto, shared, locals, NothingLeftParked, SessionOf, TypeThreads, InHand
    <3>8. Recorded'
      BY <2>20, <2>0, <2>00, <3>0
      DEF Await, Goto, shared, locals, Recorded, TypeThreads, InHand, RecordedAt, TypeSessions, TypeCounters
    <3>9. Walked'
      BY <2>20, <2>0, <2>00, <3>0, PlanPositions
      DEF Await, Goto, locals, Walked, TypeThreads, InHand
    <3>10. Unannounced'
      BY <2>20, <2>0, <2>00, <3>0
      DEF Await, Goto, Settle, Touch, Unannounced, TypeThreads
    <3> QED
      BY <3>1, <3>2, <3>3, <3>4, <3>5, <3>6, <3>7, <3>8, <3>9, <3>10
      DEF IInv
  <2>21. ASSUME NEW w \in Workers, Wake(w) PROVE IInv'
    <3>0. w = runs /\ runs \in Workers /\ runs > 0 /\ runs' = runs
      BY <2>21, <2>0, <2>00, ActorIsLast DEF Wake
    <3>1. LastThreadOnly'
      BY <2>21, <2>0, <2>00, <3>0 DEF Wake, Goto, LastThreadOnly, TypeThreads
    <3>2. Fresh'
      BY <2>21, <2>0, <2>00, <3>0, BoundsAssumption
      DEF Wake, Fresh, TypeThreads, TypeSessions, TypeVerdicts, TypeCounters, Workers
    <3>3. PhaseTells'
      BY <2>21, <2>0, <2>00, <3>0
      DEF Wake, Goto, PhaseTells, TypeThreads, TypeFlags, Terminal, Busy
    <3>4. SessionInHand'
      BY <2>21, <2>0, <2>00, <3>0
      DEF Wake, Goto, shared, SessionInHand, SessionOf, TypeThreads, InHand, WithUnit
    <3>5. VerdictInHand'
      BY <2>21, <2>0, <2>00, <3>0
      DEF Wake, Goto, Settle, VerdictInHand, SessionOf, TypeThreads
    <3>6. VerdictAnswersItsStep'
      BY <2>21, <2>0, <2>00, <3>0
      DEF Wake, Goto, VerdictAnswersItsStep, SessionOf, TypeThreads, VerdictInHand, TypeVerdicts
    <3>7. NothingLeftParked'
      BY <2>21, <2>0, <2>00, <3>0
      DEF Wake, Goto, shared, NothingLeftParked, SessionOf, TypeThreads, InHand
    <3>8. Recorded'
      BY <2>21, <2>0, <2>00, <3>0
      DEF Wake, Goto, shared, Recorded, TypeThreads, InHand, RecordedAt, TypeSessions, TypeCounters
    <3>9. Walked'
      BY <2>21, <2>0, <2>00, <3>0, PlanPositions
      DEF Wake, Goto, Walked, TypeThreads, InHand
    <3>10. Unannounced'
      BY <2>21, <2>0, <2>00, <3>0
      DEF Wake, Goto, Settle, Touch, Unannounced, TypeThreads
    <3> QED
      BY <3>1, <3>2, <3>3, <3>4, <3>5, <3>6, <3>7, <3>8, <3>9, <3>10
      DEF IInv
  <2>22. ASSUME NEW w \in Workers, Apply(w) PROVE IInv'
    <3>0. w = runs /\ runs \in Workers /\ runs > 0 /\ runs' = runs
      BY <2>22, <2>0, <2>00, ActorIsLast DEF Apply
    <3>00. /\ sess'[w][at[w]] = [phase |-> "step", decided |-> SessionOf(w).decided + 1]
           /\ \A u \in UnitIds \ {at[w]} : sess'[w][u] = sess[w][u]
           /\ \A v \in Workers \ {w} : sess'[v] = sess[v]
           /\ at[w] \in UnitIds
      <4>1. Become(w, "step", SessionOf(w).decided + 1) /\ pc[w] \in WithUnit
        BY <2>22 DEF Apply, WithUnit, InHand
      <4>2. at[w] \in UnitIds
        BY <4>1, SessionOfIsState
      <4>3. sess \in [Workers -> [UnitIds -> SessionState]]
        BY <2>0 DEF TypeSessions
      <4> DEFINE n == SessionOf(w).decided + 1
      <4>4. Become(w, "step", n)
        BY <4>1
      <4> HIDE DEF n
      <4>5. /\ sess'[w][at[w]] = [phase |-> "step", decided |-> n]
            /\ \A u \in UnitIds \ {at[w]} : sess'[w][u] = sess[w][u]
            /\ \A v \in Workers \ {w} : sess'[v] = sess[v]
        BY <4>2, <4>3, <4>4 DEF Become
      <4> QED
        BY <4>2, <4>5 DEF n
    <3>1. LastThreadOnly'
      BY <2>22, <2>0, <2>00, <3>0 DEF Apply, Goto, LastThreadOnly, TypeThreads
    <3>2. Fresh'
      BY <2>22, <2>0, <2>00, <3>0, <3>00, BoundsAssumption
      DEF Apply, Fresh, TypeThreads, TypeSessions, TypeVerdicts, TypeCounters, Workers
    <3>3. PhaseTells'
      BY <2>22, <2>0, <2>00, <3>0
      DEF Apply, Goto, PhaseTells, TypeThreads, TypeFlags, Terminal, Busy
    <3>4. SessionInHand'
      BY <2>22, <2>0, <2>00, <3>0, <3>00
      DEF Apply, Goto, shared, SessionInHand, SessionOf, TypeThreads, InHand, WithUnit
    <3>5. VerdictInHand'
      BY <2>22, <2>0, <2>00, <3>0, <3>00
      DEF Apply, Goto, inputs, VerdictInHand, SessionOf, TypeThreads
    <3>6. VerdictAnswersItsStep'
      BY <2>22, <2>0, <2>00, <3>0, <3>00
      DEF Apply, Goto, VerdictAnswersItsStep, SessionOf, TypeThreads, TypeVerdicts
    <3>7. NothingLeftParked'
      BY <2>22, <2>0, <2>00, <3>0, <3>00
      DEF Apply, Goto, shared, NothingLeftParked, SessionOf, TypeThreads, InHand, NoSession
    <3>8. Recorded'
      BY <2>22, <2>0, <2>00, <3>0, <3>00
      DEF Apply, Goto, shared, Recorded, TypeThreads, InHand, RecordedAt, TypeSessions, TypeCounters
    <3>9. Walked'
      <4>1. /\ plan[runs] \in Plans /\ DOMAIN plan[runs] \subseteq UnitIds
            /\ plan' = plan /\ at' = at /\ phase' = phase
            /\ pc'[runs] # "last" /\ pc[runs] \in InHand \cup {"build"}
        BY <2>22, <2>0, <2>00, <3>0, PlanPositions
        DEF Apply, Moves, Goto, TypeThreads, Walked, InHand
      <4>2. ASSUME NEW u \in DOMAIN plan[runs], plan[runs][u].runnable, u < at[runs]
            PROVE  sess'[runs][u].phase # "none"
        BY <2>00, <3>0, <3>00, <4>1, <4>2 DEF Walked
      <4>3. sess'[runs][at[runs]].phase # "none"
        BY <3>0, <3>00
      <4> QED
        BY <2>00, <3>0, <4>1, <4>2, <4>3 DEF Walked, InHand
    <3>10. Unannounced'
      BY <2>22, <2>0, <2>00, <3>0 DEF Apply, Goto, Unannounced, TypeThreads
    <3> QED
      BY <3>1, <3>2, <3>3, <3>4, <3>5, <3>6, <3>7, <3>8, <3>9, <3>10
      DEF IInv
  <2>23. ASSUME NEW w \in Workers, CancelSession(w) PROVE IInv'
    <3>0. w = runs /\ runs \in Workers /\ runs > 0 /\ runs' = runs
      BY <2>23, <2>0, <2>00, ActorIsLast DEF CancelSession, Moves
    <3>00. /\ sess'[w][at[w]] = [phase |-> "done", decided |-> SessionOf(w).decided]
           /\ \A u \in UnitIds \ {at[w]} : sess'[w][u] = sess[w][u]
           /\ \A v \in Workers \ {w} : sess'[v] = sess[v]
           /\ at[w] \in UnitIds
      BY <2>23, BecomeEffect, SessionOfIsState
      DEF CancelSession, WithUnit, InHand, Moves, Publish
    <3>1. LastThreadOnly'
      BY <2>23, <2>0, <2>00, <3>0
      DEF CancelSession, Moves, Goto, LastThreadOnly, TypeThreads
    <3>2. Fresh'
      BY <2>23, <2>0, <2>00, <3>0, <3>00, BoundsAssumption
      DEF CancelSession, Fresh, TypeThreads, TypeSessions, TypeVerdicts, TypeCounters, Workers
    <3>3. PhaseTells'
      BY <2>23, <2>0, <2>00, <3>0
      DEF CancelSession, Moves, Goto, PhaseTells, TypeThreads, TypeFlags, Terminal, Busy
    <3>4. SessionInHand'
      BY <2>23, <2>0, <2>00, <3>0, <3>00
      DEF CancelSession, Moves, Goto, SessionInHand, SessionOf, TypeThreads, InHand, WithUnit
    <3>5. VerdictInHand'
      BY <2>23, <2>0, <2>00, <3>0, <3>00
      DEF CancelSession, Moves, Goto, inputs, VerdictInHand, SessionOf, TypeThreads
    <3>6. VerdictAnswersItsStep'
      BY <2>23, <2>0, <2>00, <3>0, <3>00
      DEF CancelSession, Moves, Goto, VerdictAnswersItsStep, SessionOf, TypeThreads
    <3>7. NothingLeftParked'
      BY <2>23, <2>0, <2>00, <3>0, <3>00
      DEF CancelSession, Moves, Goto, NothingLeftParked, SessionOf, TypeThreads, InHand, NoSession
    <3>8. Recorded'
      BY <2>23, <2>0, <2>00, <3>0, <3>00
      DEF CancelSession, Moves, Goto, Recorded, TypeThreads, InHand, RecordedAt, TypeSessions, TypeCounters
    <3>9. Walked'
      <4>1. /\ plan[runs] \in Plans /\ DOMAIN plan[runs] \subseteq UnitIds
            /\ plan' = plan /\ at' = at /\ phase' = phase
            /\ pc'[runs] # "last" /\ pc[runs] \in InHand \cup {"build"}
        BY <2>23, <2>0, <2>00, <3>0, PlanPositions
        DEF CancelSession, Moves, Goto, TypeThreads, Walked, InHand
      <4>2. ASSUME NEW u \in DOMAIN plan[runs], plan[runs][u].runnable, u < at[runs]
            PROVE  sess'[runs][u].phase # "none"
        BY <2>00, <3>0, <3>00, <4>1, <4>2 DEF Walked
      <4>3. sess'[runs][at[runs]].phase # "none"
        BY <3>0, <3>00
      <4> QED
        BY <2>00, <3>0, <4>1, <4>2, <4>3 DEF Walked, InHand
    <3>10. Unannounced'
      BY <2>23, <2>0, <2>00, <3>0
      DEF CancelSession, Moves, Goto, Publish, Unannounced, TypeThreads, Touch
    <3> QED
      BY <3>1, <3>2, <3>3, <3>4, <3>5, <3>6, <3>7, <3>8, <3>9, <3>10
      DEF IInv
  <2>24. ASSUME NEW w \in Workers, Store(w) PROVE IInv'
    <3>0. w = runs /\ runs \in Workers /\ runs > 0 /\ runs' = runs
      BY <2>24, <2>0, <2>00, ActorIsLast DEF Store, Moves
    <3>1. LastThreadOnly'
      BY <2>24, <2>0, <2>00, <3>0 DEF Store, Moves, Goto, LastThreadOnly, TypeThreads
    <3>2. Fresh'
      BY <2>24, <2>0, <2>00, <3>0 DEF Store, locals, Fresh
    <3>3. PhaseTells'
      BY <2>24, <2>0, <2>00, <3>0
      DEF Store, Moves, Goto, PhaseTells, TypeThreads, TypeFlags, Terminal, Busy
    <3>4. SessionInHand'
      BY <2>24, <2>0, <2>00, <3>0
      DEF Store, Moves, Goto, locals, SessionInHand, SessionOf, TypeThreads, InHand, WithUnit
    <3>5. VerdictInHand'
      BY <2>24, <2>0, <2>00, <3>0
      DEF Store, Moves, Goto, inputs, locals, VerdictInHand, SessionOf, TypeThreads
    <3>6. VerdictAnswersItsStep'
      BY <2>24, <2>0, <2>00, <3>0
      DEF Store, Moves, Goto, locals, VerdictAnswersItsStep, SessionOf, TypeThreads
    <3>7. NothingLeftParked'
      BY <2>24, <2>0, <2>00, <3>0
      DEF Store, Moves, Goto, locals, NothingLeftParked, SessionOf, TypeThreads, InHand, SessionInHand
    <3>8. Recorded'
      <4>1. ASSUME NEW u \in UnitIds PROVE RecordedAt(u)'
        <5>1. /\ RecordedAt(u) /\ sess' = sess /\ runs' = runs /\ at' = at
              /\ pc[runs] = "store" /\ pc'[runs] = "after"
          BY <2>24, <2>0, <2>00, <3>0
          DEF Store, Moves, Goto, TypeThreads, Recorded, locals
        <5>2. /\ unitIndex = at[runs]
              /\ sess[runs][at[runs]].phase = "done"
              /\ sess[runs][at[runs]].decided \in Nat
          BY <2>0, <2>00, <3>0, <5>1, SessionOfIsState
          DEF SessionInHand, SessionOf, InHand, WithUnit
        <5>3. /\ counts'[at[runs]] = sess[runs][at[runs]].decided
              /\ u # at[runs] => counts'[u] = counts[u]
          BY <2>24, <2>0, <3>0, <5>2 DEF Store, SessionOf, TypeSessions, TypeCounters
        <5>4. CASE u = at[runs]
          BY <5>1, <5>2, <5>3, <5>4 DEF RecordedAt, InHand, NotStored
        <5>5. CASE u # at[runs]
          BY <5>1, <5>3, <5>5 DEF RecordedAt, InHand
        <5> QED
          BY <5>4, <5>5
      <4> QED
        BY <4>1 DEF Recorded
    <3>9. Walked'
      BY <2>24, <2>0, <2>00, <3>0, PlanPositions
      DEF Store, Moves, Goto, locals, Walked, TypeThreads, InHand
    <3>10. Unannounced'
      BY <2>24, <2>0, <2>00, <3>0
      DEF Store, Moves, Goto, Touch, Unannounced, TypeThreads
    <3> QED
      BY <3>1, <3>2, <3>3, <3>4, <3>5, <3>6, <3>7, <3>8, <3>9, <3>10
      DEF IInv
  <2>25. ASSUME NEW w \in Workers, After(w) PROVE IInv'
    <3>0. w = runs /\ runs \in Workers /\ runs > 0 /\ runs' = runs
      BY <2>25, <2>0, <2>00, ActorIsLast DEF After
    <3>01. at'[w] \in {at[w], at[w] + 1} /\ at[w] \in Nat \ {0}
      BY <2>25, <2>0, <3>0 DEF After, TypeThreads
    <3>1. LastThreadOnly'
      BY <2>25, <2>0, <2>00, <3>0 DEF After, Goto, LastThreadOnly, TypeThreads
    <3>2. Fresh'
      BY <2>25, <2>0, <2>00, <3>0, BoundsAssumption
      DEF After, Fresh, TypeThreads, TypeSessions, TypeVerdicts, TypeCounters, Workers
    <3>3. PhaseTells'
      BY <2>25, <2>0, <2>00, <3>0
      DEF After, Goto, PhaseTells, TypeThreads, TypeFlags, Terminal, Busy
    <3>4. SessionInHand'
      BY <2>25, <2>0, <2>00, <3>0
      DEF After, Goto, shared, SessionInHand, SessionOf, TypeThreads, InHand, WithUnit
    <3>5. VerdictInHand'
      BY <2>25, <2>0, <2>00, <3>0
      DEF After, Goto, inputs, VerdictInHand, SessionOf, TypeThreads
    <3>6. VerdictAnswersItsStep'
      BY <2>25, <2>0, <2>00, <3>0
      DEF After, Goto, VerdictAnswersItsStep, SessionOf, TypeThreads
    <3>7. NothingLeftParked'
      BY <2>25, <2>0, <2>00, <3>0
      DEF After, Goto, shared, NothingLeftParked, SessionOf, TypeThreads, InHand
    <3>8. Recorded'
      <4>1. ASSUME NEW u \in UnitIds PROVE RecordedAt(u)'
        <5>1. /\ RecordedAt(u)
              /\ sess' = sess /\ counts' = counts /\ runs' = runs
          BY <2>25, <2>00, <3>0 DEF After, Recorded, shared
        <5>2. \/ pc'[runs] = "reap" /\ at'[runs] = at[runs]
              \/ pc'[runs] = "check" /\ at'[runs] = at[runs] + 1
          BY <2>25, <2>0, <3>0 DEF After, Goto, TypeThreads
        <5>3. pc[runs] = "after" /\ at[runs] \in Nat
          BY <2>25, <2>0, <3>0 DEF After, TypeThreads
        <5>4. CASE pc'[runs] = "reap" /\ at'[runs] = at[runs]
          BY <5>1, <5>2, <5>3, <5>4 DEF RecordedAt, InHand
        <5>5. CASE at'[runs] = at[runs] + 1 /\ pc'[runs] = "check"
          BY <5>1, <5>3, <5>5 DEF RecordedAt, InHand, UnitIds
        <5> QED
          BY <5>2, <5>4, <5>5
      <4> QED
        BY <4>1 DEF Recorded
    <3>9. Walked'
      BY <2>25, <2>0, <2>00, <3>0, PlanPositions, <3>01
      DEF After, Goto, Walked, TypeThreads, InHand
    <3>10. Unannounced'
      BY <2>25, <2>0, <2>00, <3>0 DEF After, Goto, Unannounced, TypeThreads
    <3> QED
      BY <3>1, <3>2, <3>3, <3>4, <3>5, <3>6, <3>7, <3>8, <3>9, <3>10
      DEF IInv
  <2>26. CASE UNCHANGED vars
    BY <2>26, <2>00
    DEF vars, IInv, LastThreadOnly, Fresh, PhaseTells, SessionInHand, SessionOf,
        VerdictInHand, VerdictAnswersItsStep, NothingLeftParked, Recorded,
        RecordedAt, Walked, Unannounced
  <2> QED
    BY <2>1, <2>2, <2>3, <2>4, <2>5, <2>6, <2>7, <2>8, <2>9, <2>10, <2>11, <2>12, <2>13,
       <2>14, <2>15, <2>16, <2>17, <2>18, <2>19, <2>20, <2>21, <2>22, <2>23, <2>24, <2>25, <2>26
    DEF PatientNext, PatientStart, Control, WorkerStep
<1> QED
  BY <1>1, <1>2, TypesInductive, PatientIsSpec, PTL DEF PatientSpec

(* Both invariants together, which is what every theorem below rests on.    *)
LEMMA PatientInvariants == PatientSpec => [](TInv /\ IInv)
  BY PatientInductive, TypesInductive, PatientIsSpec, PTL

-----------------------------------------------------------------------------
(* What follows for a patient caller.                                       *)

(* At most one worker writes runs/: one plan, one writer.                    *)
THEOREM OneWriterAtATime == PatientSpec => []OneWriter
<1>1. TInv /\ IInv => OneWriter
  <2> SUFFICES ASSUME TInv, IInv, NEW v \in Workers, NEW w \in Workers,
                      AtWork(v), AtWork(w)
               PROVE  v = w
    BY DEF OneWriter
  <2> QED
    BY ActorIsLast DEF AtWork, IInv
<1> QED
  BY <1>1, PatientInvariants, PTL

(* A terminal phase is never shown over a worker that still has work.        *)
LEMMA TerminalStops ==
  ASSUME TInv, IInv, phase \in Terminal, NEW w \in Workers
  PROVE  pc[w] \in {"unborn", "final", "dead"}
<1>1. runs > 0 /\ runs \in Workers /\ pc[runs] \in {"final", "dead"}
  BY BoundsAssumption
  DEF TInv, TypeOK, TypeCounters, IInv, PhaseTells, Terminal, Workers
<1>2. w > runs \/ w < runs \/ w = runs
  BY <1>1 DEF Workers
<1> QED
  BY <1>1, <1>2 DEF IInv, LastThreadOnly

(* ... at any moment of the engine, for a patient caller.                    *)
THEOREM WorkerStopsBeforeTerminal == PatientSpec => []TerminalMeansStopped
<1>1. TInv /\ IInv => TerminalMeansStopped
  BY TerminalStops DEF TerminalMeansStopped
<1> QED
  BY <1>1, PatientInvariants, PTL

(* Whoever wait_settled releases on an awaiting engine finds no input        *)
(* pending, and a worker that is parked where the engine says.               *)
THEOREM SettledIsHonest == PatientSpec => []SettledMeansActedOn
<1>1. TInv /\ IInv => SettledMeansActedOn
  <2> SUFFICES ASSUME TInv, IInv, reached >= target, phase = "awaiting"
               PROVE  verdict = NoVerdict /\ ~cancel /\ \E w \in Workers : ParkedOn(w)
    BY DEF SettledMeansActedOn
  <2>1. runs > 0 /\ runs \in Workers /\ pc[runs] = "waiting"
    BY BoundsAssumption
    DEF TInv, TypeOK, TypeCounters, IInv, PhaseTells, Workers
  <2>2. ParkedOn(runs)
    BY <2>1 DEF IInv, SessionInHand, InHand, ParkedOn
  <2>3. verdict = NoVerdict /\ ~cancel
    BY <2>1 DEF IInv, VerdictInHand
  <2> QED
    BY <2>1, <2>2, <2>3
<1> QED
  BY <1>1, PatientInvariants, PTL

(* A verdict is applied to the step it was given for.                       *)
THEOREM VerdictsReachTheirStep == PatientSpec => []VerdictAnswersItsStep
<1>1. IInv => VerdictAnswersItsStep
  BY DEF IInv
<1> QED
  BY <1>1, PatientInductive, PTL

(* The stored tallies are the sessions', and a plan that ended stored every  *)
(* round that finished.                                                     *)
THEOREM TalliesAreTheSessions == PatientSpec => []CountsAreTheSessions
<1>1. TInv /\ IInv => CountsAreTheSessions
  <2> SUFFICES ASSUME TInv, IInv, runs > 0, NEW u \in UnitIds PROVE
        /\ counts[u] # NotStored =>
             sess[runs][u].phase = "done" /\ counts[u] = sess[runs][u].decided
        /\ phase \in {"done", "cancelled"} /\ sess[runs][u].phase = "done"
             => counts[u] # NotStored
    BY DEF CountsAreTheSessions
  <2>1. RecordedAt(u)
    BY DEF IInv, Recorded
  <2>2. phase \in {"done", "cancelled"} => pc[runs] \in {"final", "dead"}
    BY DEF IInv, PhaseTells, Terminal
  <2> QED
    BY <2>1, <2>2 DEF RecordedAt
<1> QED
  BY <1>1, PatientInvariants, PTL

(* done means every unit that could run was built.                          *)
THEOREM DoneWalkedThePlan == PatientSpec => []DoneMeansWalked
<1>1. TInv /\ IInv => DoneMeansWalked
  <2> SUFFICES ASSUME TInv, IInv, phase = "done",
                      NEW u \in DOMAIN plan[runs], plan[runs][u].runnable
               PROVE  sess[runs][u].phase # "none"
    BY DEF DoneMeansWalked
  <2>1. runs > 0 /\ runs \in Workers
    BY BoundsAssumption
    DEF TInv, TypeOK, TypeCounters, IInv, PhaseTells, Workers
  <2>2. plan[runs] \in Plans /\ at[runs] > Len(plan[runs]) /\ at[runs] \in Nat
    BY <2>1 DEF IInv, Walked, TInv, TypeOK, TypeThreads
  <2>3. u < at[runs]
    BY <2>2, PlanPositions
  <2> QED
    BY <2>1, <2>3 DEF IInv, Walked
<1> QED
  BY <1>1, PatientInvariants, PTL

(* What a terminal phase says of the threads and of the plan is so.          *)
THEOREM TerminalIsHonest == PatientSpec => []TerminalTellsTheTruth
BY WorkerStopsBeforeTerminal, DoneWalkedThePlan, PTL DEF TerminalTellsTheTruth

(* The engine never comes to rest on a change it did not announce.           *)
THEOREM RestIsAnnounced == PatientSpec => []NothingRestsUnannounced
<1>1. TInv /\ IInv => NothingRestsUnannounced
  <2> SUFFICES ASSUME TInv, IInv, silent PROVE phase = "running"
    BY DEF NothingRestsUnannounced
  <2>1. runs > 0 /\ pc[runs] \in {"check", "take", "unit", "last", "reap"}
    BY DEF IInv, Unannounced
  <2>2. phase \notin {"idle", "awaiting"} \cup Terminal
    BY <2>1 DEF IInv, PhaseTells, TInv, TypeOK, TypeCounters
  <2> QED
    BY <2>2 DEF TInv, TypeOK, TypeFlags, Busy
<1> QED
  BY <1>1, PatientInvariants, PTL

(* Every step of the engine is a step of the plan's life as PlanRun has it,  *)
(* or leaves that life alone.                                               *)
THEOREM EngineImplementsPlanRun == PatientSpec => ImplementsPlanRun
<1> USE DEF PlanRunOfEngine!vars
<1>1. Init => PlanRunOfEngine!Init
  BY DEF Init, PlanRunOfEngine!Init, StoredUnits
<1>2. TInv /\ IInv /\ [PatientNext]_vars => [PlanRunOfEngine!Next]_PlanRunOfEngine!vars
  <2> SUFFICES ASSUME TInv, IInv, [PatientNext]_vars
               PROVE  [PlanRunOfEngine!Next]_PlanRunOfEngine!vars
    OBVIOUS
  <2>0. counts' = counts => UNCHANGED StoredUnits
    BY DEF StoredUnits
  <2>00. ASSUME NEW w \in Workers, pc[w] \notin {"unborn", "dead"}
         PROVE  w = runs /\ runs > 0 /\ runs \in Workers
    BY <2>00, ActorIsLast DEF IInv
  <2>01. ASSUME NEW w \in Workers, pc[w] \notin {"unborn", "final", "dead", "waiting"}
         PROVE  phase = "running"
    BY <2>00, <2>01
    DEF IInv, PhaseTells, TInv, TypeOK, TypeFlags, TypeCounters, Busy
  <2>1. ASSUME NEW p \in Plans, Start(p) PROVE PlanRunOfEngine!Begin
    BY <2>1
    DEF Start, Busy, StoredUnits, PlanRunOfEngine!Begin, PlanRunOfEngine!Going
  <2>2. ASSUME NEW go \in BOOLEAN, Submit(go) PROVE UNCHANGED PlanRunOfEngine!vars
    BY <2>2, <2>0 DEF Submit, shared
  <2>3. ASSUME Cancel PROVE PlanRunOfEngine!RequestStop
    BY <2>3, <2>0
    DEF Cancel, Busy, shared, PlanRunOfEngine!RequestStop, PlanRunOfEngine!Going
  <2>4. ASSUME FocusGrab \/ FocusPublish PROVE UNCHANGED PlanRunOfEngine!vars
    BY <2>4, <2>0 DEF FocusGrab, FocusPublish, shared, inputs
  <2>5. ASSUME NEW w \in Workers,
               \/ Check(w) \/ Take(w) \/ Announce(w) \/ Build(w) \/ Advance(w)
               \/ Decide(w) \/ Park(w) \/ FinishSession(w) \/ RefuseUnit(w)
               \/ Crash(w) \/ Apply(w) \/ CancelSession(w) \/ After(w)
        PROVE  UNCHANGED PlanRunOfEngine!vars
    BY <2>5, <2>0
    DEF Check, Take, Announce, Build, Advance, Decide, Park, FinishSession,
        RefuseUnit, Crash, Apply, CancelSession, After, shared, inputs
  <2>6. ASSUME NEW w \in Workers, Reap(w)
        PROVE  PlanRunOfEngine!Conclude("cancelled")
    <3>1. w = runs /\ runs > 0 /\ phase = "running" /\ cancel
      BY <2>6, <2>00, <2>01 DEF Reap, Moves, IInv, VerdictInHand
    <3>2. counts' = counts
      BY <2>6, <3>1 DEF Reap, Moves, IInv, NothingLeftParked, ViewOf
    <3> QED
      BY <2>6, <2>0, <3>1, <3>2 DEF Reap, End, inputs, PlanRunOfEngine!Conclude
  <2>7. ASSUME NEW w \in Workers, Last(w) \/ Raise(w)
        PROVE  \E how \in {"done", "error"} : PlanRunOfEngine!Conclude(how)
    <3>1. phase = "running"
      BY <2>7, <2>01 DEF Last, Raise, Moves
    <3> QED
      BY <2>7, <2>0, <3>1
      DEF Last, Raise, End, inputs, PlanRunOfEngine!Conclude
  <2>8. ASSUME NEW w \in Workers, Final(w) PROVE UNCHANGED PlanRunOfEngine!vars
    <3>1. phase # "running"
      BY <2>8, <2>00 DEF Final, Moves, IInv, PhaseTells, Terminal
    <3> QED
      BY <2>8, <2>0, <3>1 DEF Final, shared, inputs
  <2>9. ASSUME NEW w \in Workers, Await(w)
        PROVE  PlanRunOfEngine!Ask \/ UNCHANGED PlanRunOfEngine!vars
    <3>1. phase = "running"
      BY <2>9, <2>01 DEF Await
    <3> QED
      BY <2>9, <2>0, <3>1 DEF Await, shared, inputs, PlanRunOfEngine!Ask
  <2>10. ASSUME NEW w \in Workers, Wake(w) PROVE PlanRunOfEngine!Resume
    <3>1. phase = "awaiting"
      BY <2>10, <2>00 DEF Wake, IInv, PhaseTells
    <3> QED
      BY <2>10, <2>0, <3>1 DEF Wake, shared, PlanRunOfEngine!Resume
  <2>11. ASSUME NEW w \in Workers, Store(w)
         PROVE  \E u \in UnitIds : PlanRunOfEngine!Record(u)
    <3>1. /\ w = runs /\ runs > 0 /\ phase = "running" /\ runs \in Workers
          /\ unitIndex = at[w] /\ at[w] \in UnitIds
          /\ SessionOf(w).decided \in Nat
      BY <2>11, <2>00, <2>01, SessionOfIsState
      DEF Store, Moves, IInv, SessionInHand, InHand, WithUnit
    <3>2. counts[unitIndex] = NotStored
      BY <2>11, <3>1 DEF Store, Moves, IInv, Recorded, RecordedAt, InHand
    <3>3. counts' = [counts EXCEPT ![unitIndex] = SessionOf(w).decided]
      BY <2>11 DEF Store
    <3>4. counts \in [UnitIds -> Nat \cup {NotStored}]
      BY DEF TInv, TypeOK, TypeSessions
    <3>5. StoredUnits' = StoredUnits \cup {unitIndex} /\ unitIndex \notin StoredUnits
      BY <3>1, <3>2, <3>3, <3>4 DEF StoredUnits, NotStored
    <3>6. phase' = phase /\ cancel' = cancel
      BY <2>11, <3>1 DEF Store, inputs
    <3> QED
      BY <3>1, <3>5, <3>6 DEF PlanRunOfEngine!Record
  <2>12. CASE UNCHANGED vars
    BY <2>12, <2>0 DEF vars
  <2> QED
    BY <2>1, <2>2, <2>3, <2>4, <2>5, <2>6, <2>7, <2>8, <2>9, <2>10, <2>11, <2>12
    DEF PatientNext, PatientStart, Control, WorkerStep, PlanRunOfEngine!Next,
        PlanRunOfEngine!Ended
<1> QED
  BY <1>1, <1>2, PatientInvariants, PTL
  DEF PatientSpec, ImplementsPlanRun, PlanRunOfEngine!Spec

-----------------------------------------------------------------------------
(* The sessions of the engine live the life a round promises.               *)

(* A session that was never built decided nothing, and the one a worker has  *)
(* in hand was built.                                                       *)
Built ==
  \A w \in Workers :
    /\ \A u \in UnitIds : sess[w][u].phase = "none" => sess[w][u] = NewSession
    /\ pc[w] \in InHand => SessionOf(w).phase # "none"

(* A step that moves the session a worker stands on, to a phase a built       *)
(* session has, keeps both.                                                 *)
LEMMA BecomeKeepsBuilt ==
  ASSUME TInv, Built, NEW w \in Workers, pc[w] \in WithUnit,
         NEW p \in SessionPhases \ {"none"}, NEW n \in Nat, Become(w, p, n),
         NEW label, Goto(w, label), at' = at
  PROVE  Built'
<1>1. /\ sess'[w][at[w]] = [phase |-> p, decided |-> n]
      /\ \A u \in UnitIds \ {at[w]} : sess'[w][u] = sess[w][u]
      /\ \A v \in Workers \ {w} : sess'[v] = sess[v]
  BY BecomeEffect
<1>2. ASSUME NEW v \in Workers, NEW u \in UnitIds, sess'[v][u].phase = "none"
      PROVE  sess'[v][u] = NewSession
  BY <1>1, <1>2 DEF Built
<1>3. ASSUME NEW v \in Workers, pc'[v] \in InHand
      PROVE  sess'[v][at'[v]].phase # "none"
  <2>1. CASE v = w
    BY <1>1, <2>1
  <2>2. CASE v # w
    <3>1. pc'[v] = pc[v] /\ sess'[v] = sess[v]
      BY <1>1, <2>2 DEF Goto, TInv, TypeOK, TypeThreads
    <3> QED
      BY <1>3, <3>1 DEF Built, SessionOf
  <2> QED
    BY <2>1, <2>2
<1> QED
  BY <1>2, <1>3 DEF Built, SessionOf

(* A step that moves no session and gives no worker one keeps both.          *)
LEMMA StillBuilt ==
  ASSUME Built, sess' = sess,
         \A w \in Workers : pc'[w] \in InHand => pc[w] \in InHand /\ at'[w] = at[w]
  PROVE  Built'
BY DEF Built, SessionOf

(* Only a constructor makes a session, and only a new plan forgets one.      *)
LEMMA BuiltInductive == PatientSpec => []Built
<1>1. Init => Built
  BY DEF Init, Built, NoSessions, NewSession, InHand
<1>2. TInv /\ IInv /\ Built /\ [PatientNext]_vars => Built'
  <2> SUFFICES ASSUME TInv, IInv, Built, [PatientNext]_vars PROVE Built'
    OBVIOUS
  <2>0. pc \in [Workers -> Labels \cup {"unborn", "dead"}]
    BY DEF TInv, TypeOK, TypeThreads
  <2>1. ASSUME NEW p \in Plans, Start(p) PROVE Built'
    <3>1. ASSUME NEW w \in Workers, NEW u \in UnitIds
          PROVE  sess'[w][u] = sess[w][u] \/ sess'[w][u] = NewSession
      BY <2>1 DEF Start, Collect, NoSessions
    <3>2. ASSUME NEW w \in Workers, pc'[w] \in InHand
          PROVE  sess'[w] = sess[w] /\ at'[w] = at[w] /\ pc[w] \in InHand
      BY <2>0, <2>1, <3>2 DEF Start, Collect, Goto, InHand
    <3> QED
      BY <3>1, <3>2 DEF Built, SessionOf
  <2>2. ASSUME Control PROVE Built'
    BY <2>2, StillBuilt
    DEF Control, Submit, Cancel, FocusGrab, FocusPublish, shared, inputs, locals
  <2>3. ASSUME NEW w \in Workers,
               \/ Check(w) \/ Take(w) \/ Last(w) \/ Raise(w) \/ Final(w)
               \/ Announce(w) \/ RefuseUnit(w) \/ Crash(w) \/ Await(w)
               \/ Wake(w) \/ Store(w) \/ After(w)
        PROVE  Built'
    <3>1. sess' = sess
      BY <2>3
      DEF Check, Take, Last, Raise, Final, Announce, RefuseUnit, Crash, Await,
          Wake, Store, After, locals
    <3>2. pc'[w] \in InHand => pc[w] \in InHand /\ at' = at
      BY <2>0, <2>3
      DEF Check, Take, Last, Raise, Final, Announce, RefuseUnit, Crash, Await,
          Wake, Store, After, locals, Moves, Goto, InHand
    <3>3. \A v \in Workers \ {w} : pc'[v] = pc[v] /\ at'[v] = at[v]
      BY <2>0, <2>3
      DEF Check, Take, Last, Raise, Final, Announce, RefuseUnit, Crash, Await,
          Wake, Store, After, locals, Moves, Goto, TInv, TypeOK, TypeThreads
    <3> QED
      BY <3>1, <3>2, <3>3, StillBuilt
  <2>4. ASSUME NEW w \in Workers, Reap(w) PROVE Built'
    <3>1. sess' = sess
      BY <2>4, ActorIsLast DEF Reap, Moves, IInv, NothingLeftParked, ViewOf
    <3> QED
      BY <2>0, <2>4, <3>1, StillBuilt DEF Reap, Moves, Goto, InHand
  <2>5. ASSUME NEW w \in Workers, Build(w) PROVE Built'
    BY <2>5, BecomeKeepsBuilt
    DEF Build, Moves, WithUnit, SessionPhases
  <2>6. ASSUME NEW w \in Workers,
               Advance(w) \/ Decide(w) \/ Park(w) \/ FinishSession(w)
               \/ Apply(w) \/ CancelSession(w)
        PROVE  Built'
    <3>1. pc[w] \in WithUnit /\ at' = at
      BY <2>6
      DEF Advance, Decide, Park, FinishSession, Apply, CancelSession, Moves,
          WithUnit, InHand
    <3>2. SessionOf(w).decided \in Nat
      BY <3>1, SessionOfIsState
    <3>3. PICK p \in SessionPhases \ {"none"}, n \in Nat : Become(w, p, n)
      BY <2>6, <3>2
      DEF Advance, Decide, Park, FinishSession, Apply, CancelSession, Publish,
          SessionPhases
    <3>4. \E label : Goto(w, label)
      BY <2>6
      DEF Advance, Decide, Park, FinishSession, Apply, CancelSession, Moves
    <3> QED
      BY <3>1, <3>3, <3>4, BecomeKeepsBuilt
  <2>7. CASE UNCHANGED vars
    BY <2>7, StillBuilt DEF vars
  <2> QED
    BY <2>1, <2>2, <2>3, <2>4, <2>5, <2>6, <2>7
    DEF PatientNext, PatientStart, WorkerStep
<1> QED
  BY <1>1, <1>2, PatientInvariants, PTL DEF PatientSpec

(* The moves of the session in hand that are moves of a round's life.        *)
LifeMoves(s, p, n) ==
  \/ s = NewSession /\ p = "start" /\ n = 0
  \/ s.phase \in {"start", "running", "step"}
       /\ p \in {"running", "done"} /\ n = s.decided
  \/ s.phase = "running" /\ p = "running" /\ n = s.decided + 1
  \/ s.phase = "running" /\ p = "step" /\ n = s.decided
  \/ s.phase = "step" /\ p = "step" /\ n = s.decided + 1

(* No session is forgotten and each that moves lives on.                     *)
SessionsLive ==
  \A w \in Workers, u \in UnitIds :
    \/ sess'[w][u] = sess[w][u]
    \/ sess[w][u] = NewSession /\ Life(w, u)!Init'
    \/ Life(w, u)!Next

(* It is enough to look at the session a worker moves.                       *)
LEMMA OneSessionMoves ==
  ASSUME TInv, NEW w \in Workers, pc[w] \in WithUnit, NEW p, NEW n,
         Become(w, p, n), LifeMoves(SessionOf(w), p, n)
  PROVE  SessionsLive
<1> SUFFICES ASSUME NEW v \in Workers, NEW u \in UnitIds
             PROVE  \/ sess'[v][u] = sess[v][u]
                    \/ sess[v][u] = NewSession /\ Life(v, u)!Init'
                    \/ Life(v, u)!Next
  BY DEF SessionsLive
<1>1. CASE v = w /\ u = at[w]
  <2>1. sess'[v][u] = [phase |-> p, decided |-> n] /\ LifeMoves(sess[v][u], p, n)
    BY <1>1, BecomeEffect DEF SessionOf
  <2>2. CASE sess[v][u] = NewSession /\ p = "start" /\ n = 0
    BY <2>1, <2>2 DEF Life!Init
  <2>3. CASE ~(sess[v][u] = NewSession /\ p = "start" /\ n = 0)
    BY <2>1, <2>3
    DEF LifeMoves, Life!Next, Life!Send, Life!Land, Life!Ask, Life!Answer, Life!Close
  <2> QED
    BY <2>2, <2>3
<1>2. CASE ~(v = w /\ u = at[w])
  BY <1>2, BecomeEffect
<1> QED
  BY <1>1, <1>2

(* Every step of a request or of the worker lets each session live on ...     *)
LEMMA SessionsLiveOn ==
  ASSUME TInv, IInv, Built, Control \/ \E w \in Workers : WorkerStep(w)
  PROVE  SessionsLive
<1>0. sess' = sess => SessionsLive
  BY DEF SessionsLive
<1>1. ASSUME Control PROVE SessionsLive
  BY <1>0, <1>1
  DEF Control, Submit, Cancel, FocusGrab, FocusPublish, locals
<1>2. ASSUME NEW w \in Workers,
             \/ Check(w) \/ Take(w) \/ Last(w) \/ Raise(w) \/ Final(w)
             \/ Announce(w) \/ RefuseUnit(w) \/ Crash(w) \/ Await(w)
             \/ Wake(w) \/ Store(w) \/ After(w)
      PROVE  SessionsLive
  BY <1>0, <1>2
  DEF Check, Take, Last, Raise, Final, Announce, RefuseUnit, Crash, Await,
      Wake, Store, After, locals
<1>3. ASSUME NEW w \in Workers, Reap(w) PROVE SessionsLive
  <2>1. sess' = sess
    BY <1>3, ActorIsLast DEF Reap, Moves, IInv, NothingLeftParked, ViewOf
  <2> QED
    BY <1>0, <2>1
<1>4. ASSUME NEW w \in Workers, pc[w] \in WithUnit
      PROVE  /\ w = runs /\ runs > 0 /\ runs \in Workers
             /\ at[w] \in UnitIds
             /\ SessionOf(w) = sess[w][at[w]]
             /\ SessionOf(w).phase \in SessionPhases
             /\ RecordedAt(at[w])
  BY <1>4, ActorIsLast, SessionOfIsState
  DEF IInv, WithUnit, InHand, SessionOf, SessionState, Recorded
<1>5. ASSUME NEW w \in Workers, Build(w) PROVE SessionsLive
  <2>1. pc[w] = "build" /\ pc[w] \in WithUnit /\ Become(w, "start", 0)
    BY <1>5 DEF Build, Moves, WithUnit
  <2>2. SessionOf(w) = NewSession
    BY <1>4, <2>1 DEF RecordedAt, Built
  <2> QED
    BY <2>1, <2>2, OneSessionMoves DEF LifeMoves
<1>6. ASSUME NEW w \in Workers, Advance(w) PROVE SessionsLive
  <2>1. /\ pc[w] = "advance" /\ pc[w] \in WithUnit
        /\ Become(w, "running", SessionOf(w).decided)
    BY <1>6 DEF Advance, Moves, Publish, WithUnit, InHand
  <2>2. SessionOf(w).phase \in {"start", "running", "step"}
    BY <1>4, <2>1 DEF RecordedAt, Built, InHand, SessionPhases
  <2> QED
    BY <2>1, <2>2, OneSessionMoves DEF LifeMoves
<1>7. ASSUME NEW w \in Workers, Decide(w) PROVE SessionsLive
  <2>1. /\ pc[w] = "exec" /\ pc[w] \in WithUnit
        /\ Become(w, "running", SessionOf(w).decided + 1)
    BY <1>7 DEF Decide, Moves, Publish, WithUnit, InHand
  <2>2. SessionOf(w).phase = "running"
    BY <1>4, <2>1 DEF IInv, NothingLeftParked
  <2> QED
    BY <2>1, <2>2, OneSessionMoves DEF LifeMoves
<1>8. ASSUME NEW w \in Workers, Park(w) PROVE SessionsLive
  <2>1. /\ pc[w] = "exec" /\ pc[w] \in WithUnit
        /\ Become(w, "step", SessionOf(w).decided)
    BY <1>8 DEF Park, Moves, Publish, WithUnit, InHand
  <2>2. SessionOf(w).phase = "running"
    BY <1>4, <2>1 DEF IInv, NothingLeftParked
  <2> QED
    BY <2>1, <2>2, OneSessionMoves DEF LifeMoves
<1>9. ASSUME NEW w \in Workers, FinishSession(w) \/ CancelSession(w)
       PROVE  SessionsLive
  <2>1. /\ pc[w] \in {"advance", "close", "scancel"} /\ pc[w] \in WithUnit
        /\ Become(w, "done", SessionOf(w).decided)
    BY <1>9 DEF FinishSession, CancelSession, Moves, Publish, WithUnit, InHand
  <2>2. SessionOf(w).phase \in {"start", "running", "step"}
    BY <1>4, <2>1 DEF RecordedAt, Built, InHand, SessionPhases
  <2> QED
    BY <2>1, <2>2, OneSessionMoves DEF LifeMoves
<1>10. ASSUME NEW w \in Workers, Apply(w)
       PROVE  SessionsLive
  <2>1. /\ pc[w] = "apply" /\ pc[w] \in WithUnit
        /\ Become(w, "step", SessionOf(w).decided + 1)
    BY <1>10 DEF Apply, WithUnit, InHand
  <2>2. SessionOf(w).phase = "step"
    BY <1>4, <2>1 DEF IInv, SessionInHand
  <2> QED
    BY <2>1, <2>2, OneSessionMoves DEF LifeMoves
<1> QED
  BY <1>1, <1>2, <1>3, <1>5, <1>6, <1>7, <1>8, <1>9, <1>10 DEF WorkerStep

(* ... so whatever the engine and its callers do, each session is made by    *)
(* its constructor and from then on sends, lands, asks, is answered and      *)
(* closes in the order SessionLife allows, until its plan is forgotten.      *)
THEOREM SessionsLiveTheirLife == PatientSpec => SessionsFollowLife
<1>1. TInv /\ IInv /\ Built /\ [PatientNext]_vars => SessionsMove
  <2> SUFFICES ASSUME TInv, IInv, Built, [PatientNext]_vars PROVE SessionsMove
    OBVIOUS
  <2>1. ASSUME NEW p \in Plans, Start(p) PROVE SessionsMove
    BY <2>1 DEF Start, Collect, NoSessions, SessionsMove
  <2>2. ASSUME Control \/ \E w \in Workers : WorkerStep(w) PROVE SessionsMove
    BY <2>2, SessionsLiveOn DEF SessionsLive, SessionsMove
  <2>3. CASE UNCHANGED vars
    BY <2>3 DEF vars, SessionsMove
  <2> QED
    BY <2>1, <2>2, <2>3 DEF PatientNext, PatientStart
<1> QED
  BY <1>1, PatientInvariants, BuiltInductive, PTL
  DEF PatientSpec, SessionsFollowLife

-----------------------------------------------------------------------------
(* What the liveness of the engine rests on: nobody is stranded ...          *)

(* An input that is not acknowledged is in the hands of a living thread, and  *)
(* one that waits with it has something to wake to.                         *)
InGoodHands ==
  /\ reached < target => runs > 0 /\ pc[runs] # "dead"
  /\ reached < target /\ runs > 0 /\ pc[runs] = "waiting" =>
       verdict # NoVerdict \/ cancel

(* Every path of the worker that leaves an input unacknowledged leads on.    *)
LEMMA HandsInductive == PatientSpec => []InGoodHands
<1>1. Init => InGoodHands
  BY DEF Init, InGoodHands
<1>2. TInv /\ IInv /\ InGoodHands /\ [PatientNext]_vars => InGoodHands'
  <2> SUFFICES ASSUME TInv, IInv, InGoodHands, [PatientNext]_vars
               PROVE  InGoodHands'
    OBVIOUS
  <2>0. /\ pc \in [Workers -> Labels \cup {"unborn", "dead"}]
        /\ runs \in Nat /\ target \in Nat /\ reached \in 0 .. target
    BY BoundsAssumption DEF TInv, TypeOK, TypeThreads, TypeCounters
  <2>00. ASSUME NEW w \in Workers, pc[w] \notin {"unborn", "dead"}
         PROVE  w = runs /\ runs > 0 /\ runs \in Workers
    BY <2>00, ActorIsLast DEF IInv
  <2>1. ASSUME NEW p \in Plans, Start(p) PROVE InGoodHands'
    <3>1. runs' \in Workers /\ runs' > 0 /\ pc'[runs'] = "check"
      BY <2>0, <2>1, BoundsAssumption DEF Start, Goto, Workers
    <3> QED
      BY <3>1 DEF InGoodHands
  <2>2. ASSUME NEW go \in BOOLEAN, Submit(go) PROVE InGoodHands'
    <3>1. runs > 0 /\ pc[runs] = "waiting"
      BY <2>0, <2>2 DEF Submit, IInv, PhaseTells
    <3>2. ViewOf(session).decided \in Nat
      BY <2>2, ViewOfIsView DEF Submit, TInv, TypeOK, TypeViews
    <3>3. verdict' # NoVerdict
      BY <2>2, <3>2 DEF Submit, NoVerdict
    <3> QED
      BY <2>2, <3>1, <3>3 DEF Submit, InGoodHands
  <2>3. ASSUME Cancel PROVE InGoodHands'
    <3>1. runs > 0 /\ pc[runs] # "dead"
      BY <2>0, <2>3 DEF Cancel, Busy, IInv, PhaseTells, Terminal
    <3> QED
      BY <2>3, <3>1 DEF Cancel, InGoodHands
  <2>4. ASSUME FocusGrab \/ FocusPublish PROVE InGoodHands'
    BY <2>4 DEF FocusGrab, FocusPublish, inputs, InGoodHands
  <2>5. ASSUME NEW w \in Workers, Await(w) \/ Wake(w) \/ Final(w)
        PROVE  InGoodHands'
    <3>1. reached' = target'
      BY <2>5 DEF Await, Wake, Final, Settle, inputs
    <3> QED
      BY <2>0, <2>5, <3>1 DEF InGoodHands, Await, Wake, Final, inputs
  <2>6. ASSUME NEW w \in Workers,
               \/ Check(w) \/ Take(w) \/ Reap(w) \/ Last(w) \/ Raise(w)
               \/ Announce(w) \/ Build(w) \/ Advance(w) \/ Decide(w) \/ Park(w)
               \/ FinishSession(w) \/ RefuseUnit(w) \/ Crash(w) \/ Apply(w)
               \/ CancelSession(w) \/ Store(w) \/ After(w)
        PROVE  InGoodHands'
    <3>1. pc[w] \notin {"unborn", "dead"} /\ pc'[w] \notin {"waiting", "dead"}
      BY <2>0, <2>6
      DEF Check, Take, Reap, Last, Raise, Announce, Build, Advance, Decide, Park,
          FinishSession, RefuseUnit, Crash, Apply, CancelSession, Store, After,
          Moves, Goto
    <3>2. w = runs /\ runs > 0 /\ runs' = runs
      BY <2>00, <2>6, <3>1
      DEF Check, Take, Reap, Last, Raise, Announce, Build, Advance, Decide, Park,
          FinishSession, RefuseUnit, Crash, Apply, CancelSession, Store, After
    <3> QED
      BY <3>1, <3>2 DEF InGoodHands
  <2>7. CASE UNCHANGED vars
    BY <2>7 DEF vars, InGoodHands
  <2> QED
    BY <2>1, <2>2, <2>3, <2>4, <2>5, <2>6, <2>7
    DEF PatientNext, PatientStart, Control, WorkerStep
<1> QED
  BY <1>1, <1>2, PatientInvariants, PTL DEF PatientSpec

(* While an input waits to be acknowledged there is a living thread with     *)
(* something to do, so wait_settled is never left to nobody.                 *)
THEOREM NobodyIsStranded == PatientSpec => []NoInputIsStranded
<1>1. TInv /\ IInv /\ InGoodHands => NoInputIsStranded
  <2> SUFFICES ASSUME TInv, IInv, InGoodHands, reached < target
               PROVE  \E w \in Workers : pc[w] \notin Stranded /\ Wakeable(w)
    BY DEF NoInputIsStranded
  <2>1. runs \in Workers /\ pc[runs] \notin Stranded
    BY BoundsAssumption
    DEF TInv, TypeOK, TypeCounters, Workers, IInv, LastThreadOnly, InGoodHands,
        Stranded
  <2>2. Wakeable(runs)
    BY DEF InGoodHands, Wakeable
  <2> QED
    BY <2>1, <2>2
<1> QED
  BY <1>1, PatientInvariants, HandsInductive, PTL

-----------------------------------------------------------------------------
(* ... nobody sees what has not happened ...                                *)

(* A view v is behind the tables of sessions t of run r.                     *)
Behind(v, r, t) ==
  v # NoView /\ v.of[1] = r =>
    /\ v.decided <= t[v.of[1]][v.of[2]].decided
    /\ v.phase = "done" =>
         /\ t[v.of[1]][v.of[2]].phase = "done"
         /\ t[v.of[1]][v.of[2]].decided = v.decided

(* What is shown, held or current is of this plan or of one before it.       *)
ViewsAreOld ==
  /\ session[1] <= runs
  /\ sview.of[1] <= runs /\ Behind(sview, runs, sess)
  /\ browse.of[1] <= runs /\ Behind(browse, runs, sess)

(* A session that lives on never decides less, and a closed one nothing more. *)
LEMMA SessionsGrow ==
  ASSUME TInv, SessionsLive, NEW w \in Workers, NEW u \in UnitIds
  PROVE  /\ sess[w][u].decided \in Nat /\ sess'[w][u].decided \in Nat
         /\ sess[w][u].decided <= sess'[w][u].decided
         /\ sess[w][u].phase = "done" => sess'[w][u] = sess[w][u]
<1>1. sess[w][u].decided \in Nat
  BY DEF TInv, TypeOK, TypeSessions, SessionState
<1>2. CASE sess[w][u] = NewSession /\ Life(w, u)!Init'
  BY <1>1, <1>2 DEF Life!Init, NewSession
<1>3. CASE Life(w, u)!Next
  BY <1>1, <1>3
  DEF Life!Next, Life!Send, Life!Land, Life!Ask, Life!Answer, Life!Close
<1> QED
  BY <1>1, <1>2, <1>3 DEF SessionsLive

(* So a view that was behind stays behind.                                  *)
LEMMA BehindStays ==
  ASSUME TInv, SessionsLive, NEW v \in View \cup {NoView}, Behind(v, runs, sess)
  PROVE  Behind(v, runs, sess')
<1> SUFFICES ASSUME v # NoView, v.of[1] = runs
             PROVE  /\ v.decided <= sess'[v.of[1]][v.of[2]].decided
                    /\ v.phase = "done" =>
                         /\ sess'[v.of[1]][v.of[2]].phase = "done"
                         /\ sess'[v.of[1]][v.of[2]].decided = v.decided
  BY DEF Behind
<1>1. v.of[1] \in Workers /\ v.of[2] \in UnitIds /\ v.decided \in Nat
  BY DEF View, SessionRef
<1> QED
  BY <1>1, SessionsGrow DEF Behind

(* A published view is one of the session as it is published.                *)
LEMMA PublishedIsTrue ==
  ASSUME TInv, NEW w \in Workers, pc[w] \in WithUnit,
         NEW p \in SessionPhases, NEW n \in Nat, Publish(w, p, n)
  PROVE  Behind(sview', w, sess') /\ sview'.of[1] = w
<1>1. sess'[w][at[w]] = [phase |-> p, decided |-> n]
  BY BecomeEffect DEF Publish
<1> QED
  BY <1>1 DEF Publish, Behind

(* Publishing, browsing and moving on never put a view ahead of its round.   *)
LEMMA ViewsInductive == PatientSpec => []ViewsAreOld
<1>1. Init => ViewsAreOld
  BY DEF Init, ViewsAreOld, Behind, NoView, NoSession
<1>2. TInv /\ IInv /\ Built /\ ViewsAreOld /\ [PatientNext]_vars => ViewsAreOld'
  <2> SUFFICES ASSUME TInv, IInv, Built, ViewsAreOld, [PatientNext]_vars
               PROVE  ViewsAreOld'
    OBVIOUS
  <2>0. /\ sview \in View \cup {NoView} /\ browse \in View \cup {NoView}
        /\ session \in SessionRef \cup {NoSession}
        /\ runs \in Nat
    BY BoundsAssumption DEF TInv, TypeOK, TypeViews, TypeCounters
  <2>1. ASSUME NEW p \in Plans, Start(p) PROVE ViewsAreOld'
    <3>1. browse.of[1] \in Nat /\ browse.of[1] < runs'
      BY <2>0, <2>1, BoundsAssumption
      DEF Start, ViewsAreOld, View, SessionRef, Workers, NoView, NoSession
    <3>2. /\ session' = NoSession /\ sview' = NoView
          /\ browse' = browse /\ runs' = runs + 1
      BY <2>1 DEF Start
    <3> QED
      BY <2>0, <3>1, <3>2 DEF ViewsAreOld, Behind, NoView, NoSession
  <2>2. ASSUME Control \/ \E w \in Workers : WorkerStep(w)
        PROVE  /\ Behind(sview, runs, sess')
               /\ Behind(browse, runs, sess')
    BY <2>0, <2>2, SessionsLiveOn, BehindStays DEF ViewsAreOld
  <2>3. ASSUME \/ \E go \in BOOLEAN : Submit(go)
               \/ Cancel
        PROVE  ViewsAreOld'
    <3>1. UNCHANGED <<session, sview, browse, runs, sess>>
      BY <2>3 DEF Submit, Cancel, shared, locals
    <3> QED
      BY <3>1 DEF ViewsAreOld
  <2>4. ASSUME FocusGrab PROVE ViewsAreOld'
    <3>1. UNCHANGED <<session, sview, runs, sess>> /\ browse' = ViewOf(session)
      BY <2>4 DEF FocusGrab, shared, locals
    <3>2. session \in SessionRef /\ session[1] <= runs
      BY <2>0, <2>4 DEF FocusGrab, ViewsAreOld
    <3>3. sess[session[1]][session[2]].decided \in Nat
      BY <3>2 DEF SessionRef, TInv, TypeOK, TypeSessions, SessionState
    <3> QED
      BY <3>1, <3>2, <3>3 DEF ViewsAreOld, Behind, ViewOf
  <2>5. ASSUME FocusPublish PROVE ViewsAreOld'
    <3>1. sview' = browse /\ browse' = NoView /\ UNCHANGED <<session, runs, sess>>
      BY <2>5 DEF FocusPublish, locals
    <3> QED
      BY <2>0, <3>1 DEF ViewsAreOld, Behind, NoView, NoSession
  <2>6. ASSUME NEW w \in Workers,
               \/ Advance(w) \/ Decide(w) \/ Park(w) \/ FinishSession(w)
               \/ CancelSession(w)
        PROVE  ViewsAreOld'
    <3>1. pc[w] \in WithUnit /\ w = runs /\ UNCHANGED <<session, runs, browse>>
      BY <2>6, ActorIsLast
      DEF Advance, Decide, Park, FinishSession, CancelSession, Moves,
          WithUnit, InHand, IInv
    <3>2. SessionOf(w).decided \in Nat
      BY <3>1, SessionOfIsState
    <3>3. PICK p \in SessionPhases, n \in Nat : Publish(w, p, n)
      BY <2>6, <3>2
      DEF Advance, Decide, Park, FinishSession, CancelSession, SessionPhases
    <3>4. Behind(sview', runs, sess') /\ sview'.of[1] = runs
      BY <3>1, <3>3, PublishedIsTrue
    <3>5. Behind(browse, runs, sess')
      BY <2>2, <2>6 DEF WorkerStep
    <3> QED
      BY <2>0, <3>1, <3>4, <3>5 DEF ViewsAreOld
  <2>7. ASSUME NEW w \in Workers,
               \/ Check(w) \/ Take(w) \/ Reap(w) \/ Last(w) \/ Raise(w)
               \/ Final(w) \/ Announce(w) \/ Build(w) \/ RefuseUnit(w)
               \/ Crash(w) \/ Await(w) \/ Wake(w) \/ Apply(w) \/ Store(w)
               \/ After(w)
        PROVE  ViewsAreOld'
    <3>0. session'[1] <= runs
      BY <2>0, <2>7, ActorIsLast
      DEF Check, Take, Reap, Last, Raise, Final, Announce, Build, RefuseUnit,
          Crash, Await, Wake, Apply, Store, After, Moves, shared, IInv, ViewsAreOld
    <3>1. Reap(w) => sview' = sview
      BY ActorIsLast DEF Reap, Moves, IInv, NothingLeftParked, ViewOf
    <3>2. UNCHANGED <<sview, browse, runs>>
      BY <2>7, <3>1
      DEF Check, Take, Reap, Last, Raise, Final, Announce, Build, RefuseUnit,
          Crash, Await, Wake, Apply, Store, After, shared
    <3>3. Behind(sview, runs, sess') /\ Behind(browse, runs, sess')
      BY <2>2, <2>7 DEF WorkerStep
    <3> QED
      BY <3>0, <3>2, <3>3 DEF ViewsAreOld
  <2>8. CASE UNCHANGED vars
    BY <2>8 DEF vars, ViewsAreOld
  <2> QED
    BY <2>1, <2>3, <2>4, <2>5, <2>6, <2>7, <2>8
    DEF PatientNext, PatientStart, Control, WorkerStep
<1> QED
  BY <1>1, <1>2, PatientInvariants, BuiltInductive, PTL DEF PatientSpec

(* However late a focus publishes what it read, the view it puts up counts no *)
(* verdict and no end that its round has not reached.                       *)
THEOREM ViewsAreNeverAhead == PatientSpec => []ViewsAreOfThePast
<1>1. ViewsAreOld => ViewsAreOfThePast
  BY DEF ViewsAreOld, Behind, ViewsAreOfThePast, ShowsThePast
<1> QED
  BY <1>1, ViewsInductive, PTL

-----------------------------------------------------------------------------
(* ... and the walk goes forward, impatient callers included.                *)

(* Where a worker is tells what it has yet to meet: a thread not born yet     *)
(* finds everything fresh, sessions ahead of a worker are untouched, and it   *)
(* is within its plan and its unit.                                         *)
Early    == {"check", "take", "unit", "build"}
WithCase == {"exec", "await", "waiting", "apply"}

Onward(w) ==
  /\ pc[w] = "unborn" => at[w] = 1 /\ plan[w] = <<>> /\ sess[w] = NoSessions
  /\ \A u \in UnitIds :
       u > at[w] \/ (u = at[w] /\ pc[w] \in Early) => sess[w][u] = NewSession
  /\ at[w] <= Len(plan[w]) + 1
  /\ \A u \in DOMAIN plan[w] : sess[w][u].decided <= plan[w][u].cases
  /\ pc[w] \in WithCase => SessionOf(w).decided < UnitOf(w).cases

AllOnward ==
  /\ \A w \in Workers : pc[w] = "unborn" <=> w > runs
  /\ \A w \in Workers : Onward(w)

(* What a step does to the sessions of a worker it does not move.            *)
CountsStay(w) ==
  \A u \in UnitIds : /\ sess'[w][u].decided = sess[w][u].decided
                     /\ sess[w][u] = NewSession => sess'[w][u] = NewSession

(* A worker that stays at its unit, whose sessions count what they counted.   *)
LEMMA StaysOnward ==
  ASSUME TInv, TInv', NEW w \in Workers, Onward(w), CountsStay(w),
         at'[w] = at[w], plan'[w] = plan[w],
         pc'[w] = "unborn" => pc[w] = "unborn",
         pc'[w] \in Early => pc[w] \in Early,
         pc'[w] \in WithCase => pc[w] \in WithCase
  PROVE  Onward(w)'
<1>1. DOMAIN plan[w] \subseteq UnitIds
  <2>1. plan[w] \in Plans \/ plan[w] = <<>>
    BY DEF TInv, TypeOK, TypeThreads
  <2>2. DOMAIN <<>> = {}
    OBVIOUS
  <2> QED
    BY <2>1, <2>2, PlanPositions
<1>2. pc[w] = "unborn" => sess'[w] = NoSessions
  <2> SUFFICES ASSUME pc[w] = "unborn" PROVE sess'[w] = NoSessions
    OBVIOUS
  <2>1. \A u \in UnitIds : sess'[w][u] = NewSession
    BY DEF Onward, CountsStay, NoSessions
  <2>2. sess'[w] \in [UnitIds -> SessionState]
    BY DEF TInv, TypeOK, TypeSessions
  <2> QED
    BY <2>1, <2>2 DEF NoSessions
<1>3. pc[w] \in WithCase => at[w] \in UnitIds
  BY <1>1 DEF WithCase, TInv, InsidePlan, WithUnit, InHand
<1>4. \A u \in UnitIds :
        u > at'[w] \/ (u = at'[w] /\ pc'[w] \in Early) => sess'[w][u] = NewSession
  BY DEF Onward, CountsStay
<1>5. \A u \in DOMAIN plan'[w] : sess'[w][u].decided <= plan'[w][u].cases
  BY <1>1 DEF Onward, CountsStay
<1>6. pc'[w] \in WithCase => sess'[w][at'[w]].decided < plan'[w][at'[w]].cases
  BY <1>3 DEF Onward, CountsStay, SessionOf, UnitOf
<1> QED
  BY <1>2, <1>4, <1>5, <1>6 DEF Onward, SessionOf, UnitOf

(* A worker that moves its session, within the cases of the unit.            *)
LEMMA BecomesOnward ==
  ASSUME TInv, NEW w \in Workers, Onward(w), at'[w] = at[w], plan'[w] = plan[w],
         pc[w] \in WithUnit, NEW p, NEW n \in Nat, Become(w, p, n),
         n <= UnitOf(w).cases, pc'[w] \notin Early \cup {"unborn"},
         pc'[w] \in WithCase => n < UnitOf(w).cases
  PROVE  Onward(w)'
<1>1. /\ sess'[w][at[w]] = [phase |-> p, decided |-> n]
      /\ \A u \in UnitIds \ {at[w]} : sess'[w][u] = sess[w][u]
  BY BecomeEffect
<1>2. DOMAIN plan[w] \subseteq UnitIds /\ at[w] \in DOMAIN plan[w] /\ at[w] \in UnitIds
  BY SessionOfIsState, PlanPositions DEF TInv, InsidePlan, WithUnit, InHand
<1>3. at[w] \in Nat
  BY DEF TInv, TypeOK, TypeThreads
<1> QED
  BY <1>1, <1>2, <1>3 DEF Onward, SessionOf, UnitOf, UnitIds

(* A worker at a unit of its plan: the unit's cases, and the place after it.  *)
LEMMA UnitInPlan ==
  ASSUME TInv, NEW w \in Workers, pc[w] \in WithUnit
  PROVE  /\ UnitOf(w).cases \in Nat
         /\ at[w] \in 1 .. Len(plan[w])
         /\ at[w] \in Nat /\ Len(plan[w]) \in Nat
<1>1. plan[w] \in Plans /\ at[w] \in DOMAIN plan[w]
  BY DEF TInv, InsidePlan, WithUnit, InHand
<1>2. plan[w] \in Seq(Unit)
  BY <1>1, PlansAssumption
<1>3. plan[w][at[w]] \in Unit
  BY <1>1, <1>2
<1>4. UnitOf(w).cases \in Nat
  BY <1>3 DEF UnitOf, Unit
<1> QED
  BY <1>1, <1>4, PlanPositions

(* Sweeping up a parked session takes nothing from any tally.                *)
LEMMA ReapKeepsCounts ==
  ASSUME TInv, NEW w \in Workers, Reap(w), NEW v \in Workers
  PROVE  CountsStay(v)
<1> SUFFICES ASSUME NEW u \in UnitIds
             PROVE  /\ sess'[v][u].decided = sess[v][u].decided
                    /\ sess[v][u] = NewSession => sess'[v][u] = NewSession
  BY DEF CountsStay
<1>1. CASE session # NoSession /\ ViewOf(session).phase = "step"
  <2>1. session[1] \in Workers /\ session[2] \in UnitIds
    BY <1>1 DEF TInv, TypeOK, TypeViews, SessionRef
  <2>2. sess' = [sess EXCEPT ![session[1]][session[2]].phase = "done"]
    BY <1>1 DEF Reap
  <2>3. sess[session[1]][session[2]].phase = "step"
    BY <1>1 DEF ViewOf
  <2>4. sess \in [Workers -> [UnitIds -> SessionState]]
    BY DEF TInv, TypeOK, TypeSessions
  <2>5. CASE v = session[1] /\ u = session[2]
    <3>1. sess[v][u] \in SessionState
      BY <2>4
    <3>2. sess'[v][u] = [sess[v][u] EXCEPT !.phase = "done"]
      BY <2>1, <2>2, <2>4, <2>5
    <3> QED
      BY <2>3, <2>5, <3>1, <3>2 DEF SessionState, NewSession
  <2>6. CASE ~(v = session[1] /\ u = session[2])
    BY <2>1, <2>2, <2>4, <2>6
  <2> QED
    BY <2>5, <2>6
<1>2. CASE ~(session # NoSession /\ ViewOf(session).phase = "step")
  BY <1>2 DEF Reap
<1> QED
  BY <1>1, <1>2

(* What a step of a worker leaves alone of the others.                       *)
OthersStay(w) ==
  /\ runs' = runs /\ plan' = plan
  /\ \A v \in Workers \ {w} : pc'[v] = pc[v] /\ at'[v] = at[v] /\ CountsStay(v)

LEMMA StepsLeaveOthers ==
  ASSUME TInv, NEW w \in Workers, WorkerStep(w)
  PROVE  OthersStay(w)
<1>0. /\ pc \in [Workers -> Labels \cup {"unborn", "dead"}]
      /\ at \in [Workers -> Nat \ {0}]
      /\ sess \in [Workers -> [UnitIds -> SessionState]]
  BY DEF TInv, TypeOK, TypeThreads, TypeSessions
<1>1. CASE \/ Check(w) \/ Take(w) \/ Last(w) \/ Raise(w) \/ Final(w)
           \/ Announce(w) \/ RefuseUnit(w) \/ Crash(w) \/ Await(w)
           \/ Wake(w) \/ Store(w) \/ After(w)
  BY <1>0, <1>1
  DEF Check, Take, Last, Raise, Final, Announce, RefuseUnit, Crash, Await, Wake,
      Store, After, locals, Moves, Goto, OthersStay, CountsStay
<1>2. CASE Reap(w)
  <2>1. /\ runs' = runs /\ plan' = plan /\ at' = at
        /\ \A v \in Workers \ {w} : pc'[v] = pc[v]
    BY <1>0, <1>2 DEF Reap, Moves, Goto
  <2> QED
    BY <1>2, <2>1, ReapKeepsCounts DEF OthersStay
<1>3. CASE \/ Build(w) \/ Advance(w) \/ Decide(w) \/ Park(w) \/ FinishSession(w)
           \/ Apply(w) \/ CancelSession(w)
  BY <1>0, <1>3
  DEF Build, Advance, Decide, Park, FinishSession, Apply, CancelSession, Moves,
      Goto, Publish, Become, OthersStay, CountsStay
<1> QED
  BY <1>1, <1>2, <1>3 DEF WorkerStep

(* Every step, of any caller and of threads that overlap, leaves each worker  *)
(* within its plan and what is ahead of it untouched.                       *)
LEMMA OnwardInductive == Spec => []AllOnward
<1>1. Init => AllOnward
  <2> SUFFICES ASSUME Init PROVE AllOnward
    OBVIOUS
  <2>1. \A w \in Workers : pc[w] = "unborn" /\ w > runs
    BY BoundsAssumption DEF Init, Workers
  <2>2. ASSUME NEW w \in Workers PROVE Onward(w)
    BY <2>2 DEF Init, Onward, NoSessions, Early, WithCase
  <2> QED
    BY <2>1, <2>2 DEF AllOnward
<1>2. TInv /\ TInv' /\ AllOnward /\ [Next]_vars => AllOnward'
  <2> SUFFICES ASSUME TInv, TInv', AllOnward, [Next]_vars PROVE AllOnward'
    OBVIOUS
  <2>0. /\ pc \in [Workers -> Labels \cup {"unborn", "dead"}]
        /\ at \in [Workers -> Nat \ {0}]
        /\ runs \in Nat
    BY BoundsAssumption DEF TInv, TypeOK, TypeThreads, TypeCounters
  <2>1. ASSUME NEW p \in Plans, Start(p) PROVE AllOnward'
    <3>0. /\ runs + 1 \in Workers /\ runs' = runs + 1
          /\ pc' = [pc EXCEPT ![runs + 1] = "check"]
          /\ pc[runs + 1] = "unborn"
      BY <2>0, <2>1, BoundsAssumption DEF Start, Goto, Workers, AllOnward
    <3>1. \A w \in Workers : pc'[w] = "unborn" <=> w > runs'
      BY <2>0, <3>0 DEF AllOnward, Workers
    <3>2. ASSUME NEW w \in Workers, w # runs + 1, pc[w] # "dead" PROVE Onward(w)'
      <4>1. /\ pc'[w] = pc[w] /\ at'[w] = at[w] /\ plan'[w] = plan[w]
            /\ sess'[w] = sess[w]
        BY <2>0, <2>1, <3>0, <3>2 DEF Start, Collect
      <4> QED
        BY <4>1, StaysOnward DEF AllOnward, CountsStay
    <3>3. ASSUME NEW w \in Workers, pc[w] = "dead" PROVE Onward(w)'
      <4>1. /\ pc'[w] = "dead" /\ at'[w] = 1 /\ plan'[w] = <<>>
            /\ sess'[w] = NoSessions
        BY <2>0, <2>1, <3>0, <3>3 DEF Start, Collect
      <4> QED
        BY <4>1 DEF Onward, NoSessions, Early, WithCase
    <3>4. ASSUME NEW w \in Workers, w = runs + 1 PROVE Onward(w)'
      <4>1. /\ pc'[w] = "check" /\ at'[w] = 1
            /\ plan'[w] = p /\ sess'[w] = NoSessions
        BY <2>0, <2>1, <3>0, <3>4 DEF Start, Collect, AllOnward, Onward
      <4>2. DOMAIN p \subseteq UnitIds /\ Len(p) \in Nat
        BY PlanPositions
      <4>3. \A u \in DOMAIN p : p[u].cases \in Nat
        <5>1. p \in Seq(Unit)
          BY PlansAssumption
        <5>2. \A u \in DOMAIN p : p[u] \in Unit
          BY <5>1
        <5> QED
          BY <5>2 DEF Unit
      <4> QED
        BY <4>1, <4>2, <4>3 DEF Onward, NoSessions, NewSession, Early, WithCase
    <3> QED
      BY <3>1, <3>2, <3>3, <3>4 DEF AllOnward
  <2>2. ASSUME Control PROVE AllOnward'
    <3>1. UNCHANGED <<runs, pc, at, plan, sess>>
      BY <2>2 DEF Control, Submit, Cancel, FocusGrab, FocusPublish, locals
    <3> QED
      BY <3>1 DEF AllOnward, Onward, SessionOf, UnitOf
  <2>3. ASSUME NEW w \in Workers, WorkerStep(w) PROVE AllOnward'
    <3>0. OthersStay(w)
      BY <2>3, StepsLeaveOthers
    <3>1. \A v \in Workers \ {w} : Onward(v)'
      BY <3>0, StaysOnward DEF OthersStay, AllOnward
    <3>2. pc[w] # "unborn" /\ pc'[w] # "unborn"
      BY <2>0, <2>3
      DEF WorkerStep, Check, Take, Reap, Last, Raise, Final, Announce, Build, Advance,
          Decide, Park, FinishSession, RefuseUnit, Crash, Await, Wake, Apply,
          CancelSession, Store, After, Moves, Goto
    <3>3. \A v \in Workers : pc'[v] = "unborn" <=> v > runs'
      BY <3>0, <3>2 DEF AllOnward, OthersStay
    <3>4. Onward(w)
      BY DEF AllOnward
    <3>5. plan'[w] = plan[w]
      BY <3>0 DEF OthersStay
    <3>6. ASSUME \/ Check(w) \/ Last(w) \/ Raise(w) \/ Final(w) \/ Announce(w)
                 \/ RefuseUnit(w) \/ Crash(w) \/ Await(w) \/ Wake(w) \/ Store(w)
          PROVE  Onward(w)'
      <4>1. at'[w] = at[w] /\ CountsStay(w)
        BY <3>6
        DEF CountsStay, Check, Last, Raise, Final, Announce, RefuseUnit, Crash, Await, Wake,
            Store, locals
      <4>2. /\ pc'[w] \in Early => pc[w] \in Early
            /\ pc'[w] \in WithCase => pc[w] \in WithCase
        BY <2>0, <3>6
        DEF Check, Last, Raise, Final, Announce, RefuseUnit, Crash, Await, Wake,
            Store, Moves, Goto, Early, WithCase
      <4> QED
        BY <3>2, <3>4, <3>5, <4>1, <4>2, StaysOnward
    <3>7. ASSUME Take(w) \/ After(w) PROVE Onward(w)'
      <4>0. /\ sess'[w] = sess[w] /\ pc[w] \in WithUnit
            /\ \/ at'[w] = at[w] /\ pc[w] = "take" /\ pc'[w] = "unit"
               \/ at'[w] = at[w] /\ pc[w] = "after" /\ pc'[w] = "reap"
               \/ at'[w] = at[w] + 1 /\ pc'[w] = "check"
        BY <2>0, <3>7 DEF Take, After, Goto, WithUnit
      <4>1. CASE at'[w] = at[w]
        <5>1. CountsStay(w)
          BY <4>0 DEF CountsStay
        <5> QED
          BY <2>0, <3>2, <3>4, <3>5, <4>0, <4>1, <5>1, StaysOnward
          DEF Early, WithCase
      <4>2. CASE at'[w] = at[w] + 1 /\ pc'[w] = "check"
        <5>1. at[w] + 1 <= Len(plan[w]) + 1 /\ at[w] \in Nat
          BY <4>0, UnitInPlan
        <5>2. \A u \in UnitIds : u >= at[w] + 1 => sess[w][u] = NewSession
          BY <3>4, <5>1 DEF Onward, UnitIds
        <5> QED
          BY <3>4, <3>5, <4>0, <4>2, <5>1, <5>2
          DEF Onward, UnitIds, Early, WithCase
      <4> QED
        BY <4>0, <4>1, <4>2
    <3>8. ASSUME Reap(w) PROVE Onward(w)'
      <4>1. at'[w] = at[w] /\ pc'[w] = "final"
        BY <2>0, <3>8 DEF Reap, Moves, Goto
      <4> QED
        BY <3>4, <3>5, <3>8, <4>1, ReapKeepsCounts, StaysOnward DEF Early, WithCase
    <3>9. ASSUME \/ Build(w) \/ Advance(w) \/ Decide(w) \/ Park(w)
                 \/ FinishSession(w) \/ Apply(w) \/ CancelSession(w)
          PROVE  Onward(w)'
      <4>0. pc[w] \in WithUnit /\ at'[w] = at[w]
        BY <3>9
        DEF Build, Advance, Decide, Park, FinishSession, Apply, CancelSession,
            Moves, WithUnit, InHand
      <4>1. /\ SessionOf(w).decided \in Nat /\ UnitOf(w).cases \in Nat
            /\ SessionOf(w).decided <= UnitOf(w).cases
        BY <3>4, <4>0, SessionOfIsState, UnitInPlan DEF Onward, SessionOf, UnitOf, TInv, InsidePlan, WithUnit, InHand
      <4>2. PICK p \in SessionPhases, n \in Nat :
              /\ Become(w, p, n)
              /\ n <= UnitOf(w).cases
              /\ pc'[w] \in WithCase => n < UnitOf(w).cases
        BY <2>0, <3>4, <3>9, <4>1
        DEF Build, Advance, Decide, Park, FinishSession, Apply, CancelSession,
            Moves, Goto, Publish, WithCase, Onward, SessionPhases
      <4>3. pc'[w] \notin Early \cup {"unborn"}
        BY <2>0, <3>9
        DEF Build, Advance, Decide, Park, FinishSession, Apply, CancelSession,
            Moves, Goto, Early
      <4> QED
        BY <3>4, <3>5, <4>0, <4>2, <4>3, BecomesOnward
    <3> QED
      BY <2>3, <3>1, <3>3, <3>6, <3>7, <3>8, <3>9 DEF WorkerStep, AllOnward
  <2>4. CASE UNCHANGED vars
    BY <2>4 DEF vars, AllOnward, Onward, SessionOf, UnitOf
  <2> QED
    BY <2>1, <2>2, <2>3, <2>4 DEF Next
<1> QED
  BY <1>1, <1>2, TypesInductive, PTL DEF Spec

(* No worker, however many overlap, runs past its plan or decides more cases   *)
(* than a unit of it has.                                                   *)
THEOREM WalksStayInside == Spec => []WalkFits
<1>1. AllOnward => WalkFits
  BY DEF AllOnward, Onward, WalkFits
<1> QED
  BY <1>1, OnwardInductive, PTL

(* A unit whose sessions count what they counted has decided what it had.     *)
LEMMA CountsOfTheUnit ==
  ASSUME TInv, NEW w \in Workers, CountsStay(w), at'[w] = at[w]
  PROVE  DecidedBy(w)' = DecidedBy(w)
BY DEF DecidedBy, CountsStay, SessionOf

(* Each step of each thread takes it to a later unit, case or stage, whoever   *)
(* else runs beside it.                                                     *)
THEOREM WorkersGoForward == Spec => WalkGoesForward
<1>1. TInv /\ AllOnward /\ [Next]_vars => AllGoForward
  <2> SUFFICES ASSUME TInv, AllOnward, [Next]_vars,
                      NEW v \in Workers, pc'[v] # pc[v], pc[v] # "unborn"
               PROVE  \/ at'[v] > at[v]
                      \/ /\ at'[v] = at[v]
                         /\ \/ DecidedBy(v)' > DecidedBy(v)
                            \/ /\ DecidedBy(v)' = DecidedBy(v)
                               /\ Rank[pc'[v]] > Rank[pc[v]]
    BY DEF AllGoForward, GoesForward
  <2>0. /\ pc \in [Workers -> Labels \cup {"unborn", "dead"}]
        /\ at \in [Workers -> Nat \ {0}]
        /\ runs \in Nat
    BY BoundsAssumption DEF TInv, TypeOK, TypeThreads, TypeCounters
  <2>1. ASSUME NEW p \in Plans, Start(p) PROVE FALSE
    BY <2>0, <2>1, BoundsAssumption DEF Start, Goto, Workers, AllOnward
  <2>2. ASSUME Control PROVE FALSE
    BY <2>2 DEF Control, Submit, Cancel, FocusGrab, FocusPublish
  <2>3. ASSUME NEW w \in Workers, WorkerStep(w) PROVE v = w
    BY <2>3, StepsLeaveOthers DEF OthersStay
  <2>4. CASE \/ Check(v) \/ Last(v) \/ Raise(v) \/ Final(v) \/ Announce(v)
             \/ RefuseUnit(v) \/ Crash(v) \/ Await(v) \/ Wake(v) \/ Store(v)
    <3>1. at'[v] = at[v] /\ CountsStay(v)
      BY <2>4
      DEF Check, Last, Raise, Final, Announce, RefuseUnit, Crash, Await, Wake,
          Store, locals, CountsStay
    <3>2. Rank[pc'[v]] > Rank[pc[v]]
      BY <2>0, <2>4
      DEF Check, Last, Raise, Final, Announce, RefuseUnit, Crash, Await, Wake,
          Store, Moves, Goto, Rank
    <3> QED
      BY <3>1, <3>2, CountsOfTheUnit
  <2>5. CASE Take(v) \/ After(v)
    <3>1. CASE at'[v] = at[v]
      <4>1. CountsStay(v) /\ Rank[pc'[v]] > Rank[pc[v]]
        BY <2>0, <2>5, <3>1 DEF Take, After, Goto, CountsStay, Rank
      <4> QED
        BY <3>1, <4>1, CountsOfTheUnit
    <3>2. CASE at'[v] # at[v]
      BY <2>0, <2>5, <3>2 DEF Take, After
    <3> QED
      BY <3>1, <3>2
  <2>6. CASE Reap(v)
    <3>1. at'[v] = at[v] /\ CountsStay(v)
      BY <2>6, ReapKeepsCounts DEF Reap
    <3>2. pc[v] = "reap" /\ pc'[v] = "final"
      BY <2>0, <2>6 DEF Reap, Moves, Goto
    <3> QED
      BY <3>1, <3>2, CountsOfTheUnit DEF Rank
  <2>7. CASE \/ Build(v) \/ Advance(v) \/ Decide(v) \/ Park(v)
             \/ FinishSession(v) \/ Apply(v) \/ CancelSession(v)
    <3>1. pc[v] \in WithUnit /\ at'[v] = at[v]
      BY <2>7
      DEF Build, Advance, Decide, Park, FinishSession, Apply, CancelSession,
          Moves, WithUnit, InHand
    <3>2. /\ at[v] \in UnitIds
          /\ SessionOf(v).decided \in Nat
          /\ DecidedBy(v) = SessionOf(v).decided
      BY <3>1, SessionOfIsState DEF DecidedBy
    <3>3. ASSUME NEW p, NEW n, Become(v, p, n) PROVE DecidedBy(v)' = n
      <4>1. sess'[v][at'[v]] = [phase |-> p, decided |-> n]
        BY <3>1, <3>3, BecomeEffect
      <4>2. at'[v] \in UnitIds
        BY <3>1, <3>2
      <4> QED
        BY <4>1, <4>2 DEF DecidedBy, SessionOf
    <3>4. CASE Build(v)
      <4>1. DecidedBy(v)' = 0 /\ Rank[pc'[v]] > Rank[pc[v]]
        BY <2>0, <3>3, <3>4 DEF Build, Moves, Goto, Rank
      <4>2. SessionOf(v) = NewSession
        BY <3>2, <3>4 DEF Build, Moves, AllOnward, Onward, Early, SessionOf
      <4> QED
        BY <3>1, <3>2, <4>1, <4>2 DEF NewSession
    <3>5. CASE Decide(v) \/ Apply(v)
      <4>1. DecidedBy(v)' = SessionOf(v).decided + 1
        BY <3>3, <3>5 DEF Decide, Apply, Publish
      <4> QED
        BY <3>1, <3>2, <4>1
    <3>6. CASE Advance(v) \/ Park(v) \/ FinishSession(v) \/ CancelSession(v)
      <4>1. DecidedBy(v)' = SessionOf(v).decided
        BY <3>3, <3>6 DEF Advance, Park, FinishSession, CancelSession, Publish
      <4>2. Rank[pc'[v]] > Rank[pc[v]]
        BY <2>0, <3>6
        DEF Advance, Park, FinishSession, CancelSession, Moves, Goto, Rank
      <4> QED
        BY <3>1, <3>2, <4>1, <4>2
    <3> QED
      BY <2>7, <3>4, <3>5, <3>6
  <2>8. CASE UNCHANGED vars
    BY <2>8 DEF vars
  <2> QED
    BY <2>1, <2>2, <2>3, <2>4, <2>5, <2>6, <2>7, <2>8 DEF Next, WorkerStep
<1> QED
  BY <1>1, TypesInductive, OnwardInductive, WalksStayInside, PTL
  DEF Spec, WalkGoesForward

=============================================================================
