--------------------------- MODULE RoundSessionProofs ---------------------------
(***************************************************************************)
(* Theorems about RoundSession, for every number of steps, every set of      *)
(* gated ones and whatever a loop's iterations come back with.              *)
(***************************************************************************)
EXTENDS RoundSession, FiniteSetTheorems, SequenceTheorems, TLAPS

Back == {"landed", "write", "parked", "answer", "entered"}

(* How many steps have their verdict in the queue: for as long as the worker  *)
(* has yet to move its index, the next one too.                              *)
Entered == IF pc \in {"entered", "cleared"} THEN nextIndex ELSE nextIndex - 1

(* What is on the wire or pending is the next step, and nothing else is.     *)
AtNextStep ==
  /\ pc \in {"wire", "cleared"} \cup Back => nextIndex \in StepIds
  /\ pc = "wire" => inflight = nextIndex
  /\ inflight # 0 => /\ inflight = nextIndex
                     /\ pc \in {"wire", "aborted"}
                     /\ dirs = 1 .. nextIndex - 1
  /\ pc \in Back => pending # NoPending
  /\ pc = "cleared" => dirs = 1 .. nextIndex
  /\ pending # NoPending => /\ nextIndex \in StepIds
                            /\ dirs = 1 .. nextIndex
                            /\ pc \in Back \cup {"aborted"}

(* The directories are those of the steps that came back, without a gap.     *)
NoGap ==
  /\ \/ dirs = 1 .. nextIndex - 1
     \/ dirs = 1 .. nextIndex /\ nextIndex \in StepIds
  /\ pc \in {"start", "advance", "wire"} => dirs = 1 .. nextIndex - 1

(* The phase says where the worker is.                                      *)
PhaseTells ==
  /\ pc = "start" => phase = "start"
  /\ pc \in {"wire", "landed", "write"} => phase = "running"
  /\ pc = "parked" => phase = "step"
  /\ pc \in {"answer", "entered", "cleared"} => phase \in {"running", "step"}
  /\ phase = "done" => pc = "done"

(* The queue has a verdict for each step that was entered, and no other.     *)
Entry(i) == IF suite THEN items[i] ELSE records[i].verdict

Queue ==
  /\ suite => Len(items) = Entered
  /\ ~suite => /\ items = <<>>
               /\ Len(records) = Entered
               /\ \A n \in 1 .. Entered : records[n].step = n

(* The disk has what the queue has, at most the next step besides, and that  *)
(* one is a human's only while the worker is putting it into the queue.      *)
OnDisk ==
  /\ \A i \in 1 .. Entered : disk[i].status = Entry(i)
  /\ \A i \in StepIds : i > nextIndex => disk[i] = NoFile
  /\ pc = "answer" /\ phase = "running" =>
       disk[nextIndex] = [status |-> pending.auto, actor |-> "auto"]
  /\ pc \in {"answer", "entered"} /\ phase = "step" =>
       disk[nextIndex].actor = "human"
  /\ nextIndex \in StepIds =>
       /\ pc \in {"start", "advance", "wire"} => disk[nextIndex] = NoFile
       /\ ~suite /\ pc \notin {"answer", "entered", "cleared", "aborted"} =>
            disk[nextIndex] = NoFile
       /\ disk[nextIndex].actor = "human" =>
            pc \in {"answer", "entered", "cleared", "aborted"}

(* What decides itself, or is about to, may.                                 *)
MayDecideItself(i, status) ==
  /\ mode = "walk" => status = "skip" /\ ~suite
  /\ status # "fail"
  /\ i \in Gated /\ ~suite => status = "skip"

RightByItself(i) == disk[i].actor = "auto" => MayDecideItself(i, disk[i].status)
PendingMay == MayDecideItself(nextIndex, pending.auto)

DecidesRightly ==
  /\ \A i \in 1 .. Entered : RightByItself(i)
  /\ pc = "write" \/ (pc = "answer" /\ phase = "running") => PendingMay

(* The human verdicts are those the directories have from a human.           *)
HumanBefore(k, status) ==
  {i \in 1 .. k : disk[i] = [status |-> status, actor |-> "human"]}
HumanSaid(status) == {n \in DOMAIN human : human[n] = status}

HumanCounted ==
  \A status \in Verdicts :
    Cardinality(HumanBefore(Entered, status)) = Cardinality(HumanSaid(status))

Summarised ==
  /\ summary.written => pc \in {"close", "done", "aborted"}
  /\ SummaryIsTheVerdicts

RInv ==
  /\ TypeOK /\ AtNextStep /\ NoGap /\ PhaseTells /\ Queue /\ OnDisk
  /\ DecidesRightly /\ HumanCounted /\ Summarised

-----------------------------------------------------------------------------
(* What the operators of view() compute.                                    *)

(* The largest step of a gapless set of steps is its last.                   *)
LEMMA LargestOfInterval ==
  ASSUME NEW m \in Nat
  PROVE  Largest(1 .. m) = m
<1>1. CASE m = 0
  BY <1>1 DEF Largest
<1>2. CASE m # 0
  <2>1. m \in 1 .. m /\ \A y \in 1 .. m : m >= y
    BY <1>2
  <2>2. \A x \in 1 .. m : (\A y \in 1 .. m : x >= y) => x = m
    BY <2>1
  <2>3. Max(1 .. m) = m
    BY <2>1, <2>2 DEF Max
  <2> QED
    BY <2>1, <2>3 DEF Largest
<1> QED
  BY <1>1, <1>2

(* The pane's bound is a step of the round, or one past the last.            *)
LEMMA MaxFocusInRound ==
  ASSUME TypeOK, NoGap
  PROVE  MaxFocus \in 1 .. Steps + 1
<1> DEFINE L == Largest(dirs)
           n == IF phase = "step" THEN nextIndex ELSE 1
           b == IF L >= 1 THEN L ELSE 1
           m == IF b >= n THEN b ELSE n
<1>0. nextIndex \in 1 .. Steps + 1 /\ Steps \in Nat
  BY RoundAssumption DEF TypeOK
<1>1. L \in 0 .. Steps
  <2>1. CASE dirs = 1 .. nextIndex - 1
    BY <2>1, <1>0, LargestOfInterval
  <2>2. CASE dirs = 1 .. nextIndex /\ nextIndex \in StepIds
    BY <2>2, <1>0, LargestOfInterval DEF StepIds
  <2> QED
    BY <2>1, <2>2 DEF NoGap
<1> DEFINE S == {1, L} \cup (IF phase = "step" THEN {nextIndex} ELSE {})
<1>2. m \in S /\ \A y \in S : m >= y
  BY <1>0, <1>1
<1>3. \A x \in S : (\A y \in S : x >= y) => x = m
  BY <1>0, <1>1, <1>2
<1>4. MaxFocus = m
  BY <1>2, <1>3 DEF MaxFocus, Max
<1> QED
  BY <1>4, <1>0, <1>1

(* The steps that were entered are a first stretch of the round.             *)
LEMMA EnteredInRound ==
  ASSUME TypeOK, AtNextStep
  PROVE  Entered \in 0 .. Steps
BY RoundAssumption DEF TypeOK, AtNextStep, Entered, Back, StepIds

(* A row is the queue's entry where it has one, and pending elsewhere.       *)
LEMMA RowIsEntry ==
  ASSUME TypeOK, AtNextStep, Queue, NEW i \in StepIds
  PROVE  Row(i) = IF i <= Entered THEN Entry(i) ELSE "pending"
<1>0. Entered \in 0 .. Steps /\ Steps \in Nat /\ i \in 1 .. Steps
  BY EnteredInRound, RoundAssumption DEF StepIds
<1>1. CASE suite
  BY <1>0, <1>1 DEF Row, Entry, Queue
<1>2. CASE ~suite
  <2>0. /\ records \in Seq(Record) /\ DOMAIN records = 1 .. Entered
        /\ \A n \in DOMAIN records : records[n].step = n
    BY <1>0, <1>2 DEF TypeOK, Queue
  <2>1. CASE i <= Entered
    <3>1. i \in DOMAIN records /\ records[i] \in Range(records)
      BY <1>0, <2>0, <2>1 DEF Range
    <3>2. {n \in DOMAIN records : records[n].step = i} = {i}
      BY <2>0, <3>1
    <3>3. Max({i}) = i
      BY <1>0 DEF Max
    <3> QED
      BY <1>2, <2>0, <2>1, <3>1, <3>2, <3>3 DEF Row, Entry
  <2>2. CASE ~(i <= Entered)
    <3>1. ~\E r \in Range(records) : r.step = i
      BY <1>0, <2>0, <2>2 DEF Range
    <3> QED
      BY <1>2, <2>2, <3>1 DEF Row
  <2> QED
    BY <2>1, <2>2
<1> QED
  BY <1>1, <1>2

(* An entry of the queue is a verdict.                                      *)
LEMMA EntryIsVerdict ==
  ASSUME TypeOK, AtNextStep, Queue, NEW i \in StepIds, i <= Entered
  PROVE  Entry(i) \in Verdicts
<1>0. Entered \in 0 .. Steps /\ Steps \in Nat /\ i \in 1 .. Steps
  BY EnteredInRound, RoundAssumption DEF StepIds
<1>1. CASE suite
  BY <1>0, <1>1 DEF Entry, Queue, TypeOK
<1>2. CASE ~suite
  <2>1. records[i] \in Record
    BY <1>0, <1>2 DEF Queue, TypeOK
  <2> QED
    BY <1>2, <2>1 DEF Entry, Record
<1> QED
  BY <1>1, <1>2

(* What is decided is what was entered.                                     *)
LEMMA DecidedIsEntered ==
  ASSUME TypeOK, AtNextStep, Queue
  PROVE  Decided = Entered
<1>0. Entered \in 0 .. Steps /\ Steps \in Nat
  BY EnteredInRound, RoundAssumption
<1>1. {i \in StepIds : Row(i) # "pending"} = 1 .. Entered
  <2>1. ASSUME NEW i \in StepIds PROVE Row(i) # "pending" <=> i <= Entered
    BY RowIsEntry, EntryIsVerdict DEF Verdicts
  <2> QED
    BY <2>1, <1>0 DEF StepIds
<1>2. Entered \in Int /\ 1 \in Int /\ (1 > Entered <=> Entered = 0)
  BY <1>0
<1>3. Cardinality(1 .. Entered) = IF 1 > Entered THEN 0 ELSE Entered - 1 + 1
  BY <1>2, FS_Interval
<1>4. Cardinality(1 .. Entered) = Entered
  BY <1>2, <1>3
<1> QED
  BY <1>1, <1>4 DEF Decided

(* Where the next step stands once its verdict is in the queue.              *)
LEMMA EnterEffect ==
  ASSUME TypeOK, Queue, nextIndex \in StepIds, NEW status \in Verdicts,
         Enter(status), pc = "answer", pc' = "entered",
         UNCHANGED <<suite, nextIndex>>
  PROVE  /\ Entered = nextIndex - 1 /\ Entered' = nextIndex
         /\ Queue'
         /\ records' \in Seq(Record)
         /\ items' \in Seq(Verdicts) /\ Len(items') <= Steps
         /\ \A i \in 1 .. nextIndex - 1 : Entry(i)' = Entry(i)
         /\ \A i \in {nextIndex} : Entry(i)' = status
<1>0. /\ nextIndex \in 1 .. Steps /\ Steps \in Nat
      /\ records \in Seq(Record) /\ items \in Seq(Verdicts)
  BY RoundAssumption DEF TypeOK, StepIds
<1>1. Entered = nextIndex - 1 /\ Entered' = nextIndex
  BY DEF Entered
<1>2. CASE suite
  <2>1. items' = Append(items, status) /\ records' = records /\ Len(items) = nextIndex - 1
    BY <1>1, <1>2 DEF Enter, Queue
  <2>2. /\ items' \in Seq(Verdicts) /\ Len(items') = nextIndex
        /\ \A i \in 1 .. nextIndex - 1 : items'[i] = items[i]
        /\ items'[nextIndex] = status
    BY <2>1, <1>0
  <2>3. Queue'
    BY <1>1, <1>2, <2>2 DEF Queue
  <2>4. \A i \in 1 .. nextIndex - 1 : Entry(i)' = Entry(i)
    BY <1>2, <2>2 DEF Entry
  <2> QED
    BY <1>0, <1>1, <1>2, <2>1, <2>2, <2>3, <2>4 DEF Entry
<1>3. CASE ~suite
  <2> DEFINE r == [step |-> nextIndex, verdict |-> status]
  <2>1. /\ records' = Append(records, r) /\ items' = items /\ items = <<>>
        /\ Len(records) = nextIndex - 1
        /\ \A n \in 1 .. nextIndex - 1 : records[n].step = n
    BY <1>1, <1>3 DEF Enter, Queue
  <2>2. r \in Record
    BY DEF Record
  <2>3. /\ records' \in Seq(Record) /\ Len(records') = nextIndex
        /\ \A i \in 1 .. nextIndex - 1 : records'[i] = records[i]
        /\ records'[nextIndex] = r
    BY <2>1, <2>2, <1>0
  <2>4. \A n \in 1 .. nextIndex : records'[n].step = n
    BY <2>1, <2>3, <1>0
  <2>5. items' \in Seq(Verdicts) /\ Len(items') <= Steps
    BY <2>1, <1>0
  <2>6. Queue'
    BY <1>1, <1>3, <2>1, <2>3, <2>4, <1>0 DEF Queue
  <2>7. \A i \in 1 .. nextIndex - 1 : Entry(i)' = Entry(i)
    BY <1>3, <2>3 DEF Entry
  <2> QED
    BY <1>0, <1>1, <1>3, <2>3, <2>5, <2>6, <2>7 DEF Entry
<1> QED
  BY <1>2, <1>3

(* One more human verdict is one more directory that says so.                *)
LEMMA HumanCountGrows ==
  ASSUME TypeOK, TypeOK', HumanCounted, nextIndex \in StepIds,
         Entered = nextIndex - 1, Entered' = nextIndex, disk' = disk,
         \/ human' = human /\ disk[nextIndex].actor = "auto"
         \/ /\ disk[nextIndex].actor = "human"
            /\ human' = Append(human, disk[nextIndex].status)
  PROVE  HumanCounted'
<1>0. /\ nextIndex \in 1 .. Steps /\ Steps \in Nat /\ human \in Seq(Verdicts)
      /\ disk[nextIndex] \in File \cup {NoFile}
  BY RoundAssumption DEF TypeOK, StepIds
<1>00. disk[nextIndex].actor = "human" => disk[nextIndex] \in File
  BY <1>0 DEF NoFile
<1> SUFFICES ASSUME NEW status \in Verdicts
             PROVE  Cardinality(HumanBefore(Entered, status)')
                      = Cardinality(HumanSaid(status)')
  BY DEF HumanCounted
<1> DEFINE H == HumanBefore(Entered, status)
           D == HumanSaid(status)
           mine == disk[nextIndex] = [status |-> status, actor |-> "human"]
<1>1. HumanBefore(Entered, status)' = IF mine THEN H \cup {nextIndex} ELSE H
  <2>1. HumanBefore(Entered, status)' =
          {i \in 1 .. nextIndex : disk[i] = [status |-> status, actor |-> "human"]}
    BY <1>0 DEF HumanBefore
  <2>2. 1 .. nextIndex = (1 .. nextIndex - 1) \cup {nextIndex}
    BY <1>0
  <2> QED
    BY <2>1, <2>2 DEF HumanBefore
<1>2. nextIndex \notin H /\ H \subseteq 1 .. nextIndex - 1
  BY <1>0 DEF HumanBefore
<1>3. D \subseteq 1 .. Len(human) /\ Len(human) + 1 \notin D
  BY <1>0 DEF HumanSaid
<1>4. IsFiniteSet(H) /\ IsFiniteSet(D)
  <2>1. Len(human) \in Int /\ nextIndex - 1 \in Int /\ 1 \in Int
    BY <1>0
  <2>2. IsFiniteSet(1 .. nextIndex - 1) /\ IsFiniteSet(1 .. Len(human))
    BY <2>1, FS_Interval
  <2> QED
    BY <1>2, <1>3, <2>2, FS_Subset
<1>5. Cardinality(H) = Cardinality(D)
  BY DEF HumanCounted
<1>6. CASE human' = human /\ disk[nextIndex].actor = "auto"
  <2>1. ~mine
    BY <1>6
  <2>2. HumanSaid(status)' = D
    BY <1>6 DEF HumanSaid
  <2> QED
    BY <1>1, <1>5, <2>1, <2>2
<1>7. CASE /\ disk[nextIndex].actor = "human"
           /\ human' = Append(human, disk[nextIndex].status)
  <2>1. mine <=> disk[nextIndex].status = status
    BY <1>00, <1>7 DEF File
  <2>2. HumanSaid(status)' = IF mine THEN D \cup {Len(human) + 1} ELSE D
    <3>1. /\ DOMAIN human' = 1 .. Len(human) + 1 /\ DOMAIN human = 1 .. Len(human)
          /\ Len(human) \in Nat
          /\ \A n \in 1 .. Len(human) : human'[n] = human[n]
          /\ human'[Len(human) + 1] = disk[nextIndex].status
      <4>1. disk[nextIndex].status \in Verdicts
        BY <1>00, <1>7 DEF File
      <4> QED
        BY <1>0, <1>7, <4>1
    <3> QED
      BY <3>1, <2>1 DEF HumanSaid
  <2>3. CASE mine
    <3>1. Cardinality(H \cup {nextIndex}) = Cardinality(H) + 1
      BY <1>2, <1>4, FS_AddElement
    <3>2. Cardinality(D \cup {Len(human) + 1}) = Cardinality(D) + 1
      BY <1>3, <1>4, FS_AddElement
    <3> QED
      BY <1>1, <1>5, <2>2, <2>3, <3>1, <3>2
  <2>4. CASE ~mine
    BY <1>1, <1>5, <2>2, <2>4
  <2> QED
    BY <2>3, <2>4
<1> QED
  BY <1>6, <1>7

-----------------------------------------------------------------------------
(* The strengthened invariant is inductive.                                 *)

(* A summary that was written stays what the directories say, since by then  *)
(* no directory is written to.                                              *)
LEMMA SummaryKept ==
  ASSUME Summarised, summary' = summary, suite' = suite,
         \/ pc \notin {"close", "done", "aborted"}
         \/ disk' = disk /\ pc' \in {"close", "done", "aborted"}
  PROVE  Summarised'
<1>1. CASE ~summary.written
  BY <1>1 DEF Summarised, SummaryIsTheVerdicts
<1>2. CASE summary.written
  <2>1. disk' = disk /\ pc' \in {"close", "done", "aborted"}
    BY <1>2 DEF Summarised
  <2>2. SummaryIsTheVerdicts' <=> SummaryIsTheVerdicts
    BY <2>1 DEF SummaryIsTheVerdicts, ByHuman
  <2> QED
    BY <2>1, <2>2 DEF Summarised
<1> QED
  BY <1>1, <1>2

(* A step that neither writes a verdict nor enters one into the queue keeps   *)
(* what is said of the queue and of the human verdicts.                      *)
LEMMA QuietKept ==
  ASSUME RInv, Entered' = Entered, nextIndex' \in {nextIndex, nextIndex + 1},
         UNCHANGED <<suite, mode, records, items, human, disk>>
  PROVE  /\ Queue' /\ HumanCounted'
         /\ \A i \in 1 .. Entered' : disk'[i].status = Entry(i)'
         /\ \A i \in StepIds : i > nextIndex' => disk'[i] = NoFile
         /\ \A i \in 1 .. Entered' : RightByItself(i)'
<1>1. Queue'
  BY DEF RInv, Queue
<1>2. HumanCounted'
  BY DEF RInv, HumanCounted, HumanBefore, HumanSaid
<1>3. \A i \in 1 .. Entered' : disk'[i].status = Entry(i)'
  BY DEF RInv, OnDisk, Entry
<1>4. \A i \in StepIds : i > nextIndex' => disk'[i] = NoFile
  BY RoundAssumption DEF RInv, OnDisk, TypeOK, StepIds
<1>5. \A i \in 1 .. Entered' : RightByItself(i)'
  BY DEF RInv, DecidesRightly, RightByItself, MayDecideItself
<1> QED
  BY <1>1, <1>2, <1>3, <1>4, <1>5

(* The initial states satisfy the invariant.                                *)
LEMMA InitRInv == Init => RInv
<1> SUFFICES ASSUME Init PROVE RInv
  OBVIOUS
<1>0. /\ Steps \in Nat /\ nextIndex = 1 /\ 1 .. nextIndex - 1 = {}
      /\ Entered = 0 /\ 1 .. Entered = {}
  BY RoundAssumption DEF Init, Entered
<1>1. TypeOK
  <2>1. /\ records \in Seq(Record) /\ items \in Seq(Verdicts) /\ Len(items) <= Steps
        /\ human \in Seq(Verdicts)
    BY <1>0 DEF Init
  <2>2. summary \in [written : BOOLEAN, records : Seq(Record), human : Seq(Verdicts)]
    BY DEF Init, NoSummary
  <2>3. disk \in [StepIds -> File \cup {NoFile}]
    BY DEF Init
  <2>4. /\ mode \in {"walk", "review"} /\ phase \in Phases /\ pc \in Labels
        /\ pending = NoPending /\ dirs \subseteq StepIds
    BY DEF Init, Phases, Labels
  <2>5. /\ nextIndex \in 1 .. Steps + 1 /\ inflight \in 0 .. Steps
        /\ focusIndex \in 1 .. Steps + 1
    BY <1>0 DEF Init
  <2>6. suite \in BOOLEAN /\ follow \in BOOLEAN /\ stopped \in BOOLEAN /\ go \in BOOLEAN
    BY DEF Init
  <2> QED
    BY <2>1, <2>2, <2>3, <2>4, <2>5, <2>6 DEF TypeOK
<1>2. AtNextStep /\ NoGap /\ PhaseTells
  BY <1>0 DEF Init, AtNextStep, NoGap, PhaseTells, Back
<1>3. Queue /\ OnDisk /\ DecidesRightly
  BY <1>0 DEF Init, Queue, OnDisk, DecidesRightly, NoFile, StepIds
<1>4. HumanCounted
  <2> SUFFICES ASSUME NEW status \in Verdicts
               PROVE  Cardinality(HumanBefore(Entered, status))
                        = Cardinality(HumanSaid(status))
    BY DEF HumanCounted
  <2>1. HumanBefore(Entered, status) = {}
    BY <1>0 DEF HumanBefore
  <2>2. HumanSaid(status) = {}
    BY DEF Init, HumanSaid
  <2> QED
    BY <2>1, <2>2
<1>5. Summarised
  BY DEF Init, Summarised, SummaryIsTheVerdicts, NoSummary
<1> QED
  BY <1>1, <1>2, <1>3, <1>4, <1>5 DEF RInv

(* A worker's quiet steps: the ones that leave the queue and the disk alone.  *)
LEMMA StartInv ==
  ASSUME RInv, Start
  PROVE  RInv'
<1> USE RoundAssumption DEF RInv, Start, Moves, Goto, pane, book
<1>0. Entered' = Entered
  BY DEF Entered
<1>1. TypeOK'
  BY DEF TypeOK, Labels
<1>2. AtNextStep' /\ NoGap' /\ PhaseTells'
  BY DEF AtNextStep, NoGap, PhaseTells, Back
<1>3. OnDisk' /\ DecidesRightly'
  BY <1>0, QuietKept DEF OnDisk, DecidesRightly
<1> QED
  BY <1>1, <1>2, <1>3, <1>0, QuietKept, SummaryKept

LEMMA AdvanceInv ==
  ASSUME RInv, Advance
  PROVE  RInv'
<1> USE RoundAssumption DEF RInv, Advance, Goto, pane, book
<1>0. nextIndex \in 1 .. Steps + 1
  BY DEF TypeOK
<1>00. Entered' = Entered
  BY DEF Entered
<1>1. TypeOK'
  BY <1>0 DEF TypeOK, Labels, Phases
<1>2. AtNextStep'
  BY <1>0 DEF AtNextStep, Back, NoGap, StepIds
<1>3. NoGap' /\ PhaseTells'
  BY <1>0 DEF NoGap, PhaseTells
<1>4. OnDisk' /\ DecidesRightly'
  BY <1>00, QuietKept DEF OnDisk, DecidesRightly
<1> QED
  BY <1>1, <1>2, <1>3, <1>4, <1>00, QuietKept, SummaryKept

LEMMA ParkInv ==
  ASSUME RInv, Park
  PROVE  RInv'
<1> USE RoundAssumption DEF RInv, Park, Moves, Goto, book
<1>0. Entered' = Entered
  BY DEF Entered
<1>1. TypeOK'
  BY DEF TypeOK, Labels, Phases
<1>2. AtNextStep' /\ NoGap' /\ PhaseTells'
  BY DEF AtNextStep, NoGap, PhaseTells, Back
<1>3. OnDisk' /\ DecidesRightly'
  BY <1>0, QuietKept DEF OnDisk, DecidesRightly
<1> QED
  BY <1>1, <1>2, <1>3, <1>0, QuietKept, SummaryKept

LEMMA CancelInv ==
  ASSUME RInv, Cancel
  PROVE  RInv'
<1> USE RoundAssumption DEF RInv, Cancel, Moves, Goto, pane, book
<1>0. Entered' = Entered
  BY DEF Entered
<1>1. TypeOK'
  BY DEF TypeOK, Labels
<1>2. AtNextStep' /\ NoGap' /\ PhaseTells'
  BY DEF AtNextStep, NoGap, PhaseTells, Back
<1>3. OnDisk' /\ DecidesRightly'
  BY <1>0, QuietKept DEF OnDisk, DecidesRightly
<1> QED
  BY <1>1, <1>2, <1>3, <1>0, QuietKept, SummaryKept

LEMMA CloseInv ==
  ASSUME RInv, Close
  PROVE  RInv'
<1> USE RoundAssumption DEF RInv, Close, Moves, Goto, pane, book
<1>0. Entered' = Entered
  BY DEF Entered
<1>1. TypeOK'
  BY DEF TypeOK, Labels, Phases
<1>2. AtNextStep' /\ NoGap' /\ PhaseTells'
  BY DEF AtNextStep, NoGap, PhaseTells, Back
<1>3. OnDisk' /\ DecidesRightly'
  BY <1>0, QuietKept DEF OnDisk, DecidesRightly
<1> QED
  BY <1>1, <1>2, <1>3, <1>0, QuietKept, SummaryKept

LEMMA AbortInv ==
  ASSUME RInv, Abort
  PROVE  RInv'
<1> USE RoundAssumption DEF RInv, Abort, Goto, pane, book
<1>0. Entered' = Entered
  BY DEF Entered
<1>1. TypeOK'
  BY DEF TypeOK, Labels
<1>2. AtNextStep' /\ NoGap' /\ PhaseTells'
  BY DEF AtNextStep, NoGap, PhaseTells, Back
<1>3. OnDisk' /\ DecidesRightly'
  BY <1>0, QuietKept DEF OnDisk, DecidesRightly
<1> QED
  BY <1>1, <1>2, <1>3, <1>0, QuietKept, SummaryKept

(* A reviewer who moves the pane moves nothing else.                         *)
LEMMA FocusInv ==
  ASSUME RInv, NEW j \in 1 .. Steps + 1, Focus(j)
  PROVE  RInv'
<1> USE RoundAssumption DEF RInv, Focus, book
<1>0. Entered' = Entered
  BY DEF Entered
<1>1. focusIndex' \in 1 .. Steps + 1
  <2> DEFINE m == IF j <= MaxFocus THEN j ELSE MaxFocus
  <2>1. MaxFocus \in 1 .. Steps + 1
    BY MaxFocusInRound
  <2>2. m \in {j, MaxFocus} /\ \A y \in {j, MaxFocus} : m =< y
    BY <2>1
  <2>3. Min({j, MaxFocus}) = m
    BY <2>1, <2>2 DEF Min
  <2> QED
    BY <2>1, <2>3
<1>2. TypeOK'
  BY <1>1 DEF TypeOK
<1>3. AtNextStep' /\ NoGap' /\ PhaseTells'
  BY DEF AtNextStep, NoGap, PhaseTells, Back
<1>4. OnDisk' /\ DecidesRightly'
  BY <1>0, QuietKept DEF OnDisk, DecidesRightly, PendingMay, MayDecideItself
<1>5. Summarised'
  BY DEF Summarised, SummaryIsTheVerdicts, ByHuman
<1> QED
  BY <1>0, <1>2, <1>3, <1>4, <1>5, QuietKept

(* A step that came back: its directory is the next one, and it waits.       *)
LEMMA LandedInv ==
  ASSUME RInv, NEW auto \in Verdicts, NEW ask \in BOOLEAN, Landed(auto, ask),
         suite' = suite
  PROVE  /\ AtNextStep' /\ NoGap' /\ PhaseTells'
         /\ nextIndex \in 1 .. Steps /\ dirs' \subseteq StepIds
         /\ pending' \in Pending
<1> USE RoundAssumption DEF RInv, Landed, Moves, Goto, pane
<1>1. nextIndex \in 1 .. Steps /\ dirs = 1 .. nextIndex - 1
  BY DEF AtNextStep, NoGap, StepIds
<1>2. dirs' = 1 .. nextIndex
  BY <1>1
<1>3. pending' \in Pending /\ pending' # NoPending
  BY DEF Pending, NoPending, Verdicts
<1>4. AtNextStep'
  BY <1>1, <1>2, <1>3 DEF AtNextStep, Back, StepIds
<1>5. NoGap' /\ PhaseTells'
  BY <1>1, <1>2 DEF NoGap, PhaseTells, StepIds
<1> QED
  BY <1>1, <1>2, <1>3, <1>4, <1>5 DEF StepIds

LEMMA ExecuteCaseInv ==
  ASSUME RInv, NEW auto \in Verdicts, ExecuteCase(auto)
  PROVE  RInv'
<1> DEFINE ask == /\ auto # "skip"
                  /\ mode = "walk" \/ auto = "fail" \/ nextIndex \in Gated
<1>1. /\ Landed(auto, ask) /\ ask \in BOOLEAN /\ ~suite
      /\ UNCHANGED <<mode, suite, phase, nextIndex, pane, book, stopped, disk, summary, go>>
      /\ pc = "wire" /\ pc' = IF ask THEN "landed" ELSE "write"
      /\ pending' = [auto |-> auto, ask |-> ask] /\ inflight' = 0
      /\ Entered' = Entered
  BY DEF ExecuteCase, Landed, Moves, Goto, Entered, book
<1>2. /\ AtNextStep' /\ NoGap' /\ PhaseTells'
      /\ nextIndex \in 1 .. Steps /\ dirs' \subseteq StepIds
      /\ pending' \in Pending
  BY <1>1, LandedInv
<1>3. TypeOK'
  BY <1>1, <1>2, RoundAssumption DEF RInv, TypeOK, Labels, pane, book
<1>4. OnDisk'
  BY <1>1, QuietKept DEF RInv, OnDisk, book
<1>5. DecidesRightly'
  <2>1. pc' = "write" => PendingMay'
    BY <1>1 DEF PendingMay, MayDecideItself, RInv, TypeOK, Verdicts
  <2> QED
    BY <1>1, <2>1, QuietKept DEF DecidesRightly, book
<1>6. Queue' /\ HumanCounted' /\ Summarised'
  BY <1>1, QuietKept, SummaryKept DEF RInv, book
<1> QED
  BY <1>2, <1>3, <1>4, <1>5, <1>6 DEF RInv

(* What a suite's step leaves in its directory and among the records touches *)
(* nothing that is decided.                                                 *)
LEMMA SuiteStepKept ==
  ASSUME RInv, suite, pc = "wire", nextIndex \in 1 .. Steps,
         UNCHANGED <<suite, mode, phase, nextIndex, items, human, summary>>,
         pc' \in {"landed", "write"},
         \A i \in StepIds : i # nextIndex => disk'[i] = disk[i],
         disk'[nextIndex] = disk[nextIndex] \/ disk'[nextIndex].actor = "auto"
  PROVE  /\ Queue' /\ OnDisk' /\ HumanCounted' /\ Summarised'
         /\ \A i \in 1 .. Entered' : RightByItself(i)'
<1>0. /\ Entered = nextIndex - 1 /\ Entered' = Entered
      /\ Steps \in Nat /\ \A i \in 1 .. Entered : disk'[i] = disk[i] /\ i \in StepIds
      /\ disk[nextIndex].actor # "human"
  BY RoundAssumption DEF StepIds, RInv, OnDisk, Entered
<1>1. Queue'
  BY <1>0 DEF RInv, Queue
<1>2. OnDisk'
  <2>1. \A i \in 1 .. Entered' : disk'[i].status = Entry(i)'
    BY <1>0 DEF RInv, OnDisk, Entry
  <2>2. \A i \in StepIds : i > nextIndex' => disk'[i] = NoFile
    BY <1>0 DEF RInv, OnDisk, StepIds
  <2>3. disk'[nextIndex].actor # "human"
    BY <1>0
  <2> QED
    BY <2>1, <2>2, <2>3 DEF OnDisk
<1>3. HumanCounted'
  BY <1>0 DEF RInv, HumanCounted, HumanBefore, HumanSaid
<1>4. Summarised'
  BY SummaryKept DEF RInv
<1>5. \A i \in 1 .. Entered' : RightByItself(i)'
  BY <1>0 DEF RInv, DecidesRightly, RightByItself, MayDecideItself
<1> QED
  BY <1>1, <1>2, <1>3, <1>4, <1>5

LEMMA ExecuteLoopInv ==
  ASSUME RInv, NEW loop \in Loops, NEW stop \in BOOLEAN, ExecuteLoop(loop, stop)
  PROVE  RInv'
<1> DEFINE failed == stop \/ "fail" \in Range(loop)
           auto == IF failed THEN "fail" ELSE "pass"
           ask == mode = "walk" \/ failed
           more == [n \in DOMAIN loop |-> [step |-> nextIndex, verdict |-> loop[n]]]
<1>1. /\ Landed(auto, ask) /\ suite
      /\ UNCHANGED <<mode, suite, phase, nextIndex, pane, items, human, summary, go>>
      /\ pc = "wire" /\ pc' = (IF ask THEN "landed" ELSE "write")
      /\ pending' = [auto |-> auto, ask |-> ask] /\ inflight' = 0
      /\ records' = records \o more
      /\ stopped' = (stopped \/ stop)
      /\ disk' = [disk EXCEPT ![nextIndex] = [status |-> Last(loop), actor |-> "auto"]]
  BY DEF ExecuteLoop, Landed, Moves, Goto, Write
<1>2. auto \in Verdicts /\ ask \in BOOLEAN
  BY DEF Verdicts
<1>3. /\ AtNextStep' /\ NoGap' /\ PhaseTells'
      /\ nextIndex \in 1 .. Steps /\ dirs' \subseteq StepIds
      /\ pending' \in Pending
  BY <1>1, <1>2, LandedInv
<1>4. loop \in Seq(Verdicts) /\ loop # <<>> /\ Last(loop) \in Verdicts
  <2>1. loop \in Seq(Verdicts) /\ loop # <<>>
    BY RoundAssumption
  <2>2. Len(loop) \in 1 .. Len(loop)
    BY <2>1
  <2> QED
    BY <2>1, <2>2 DEF Last
<1>5. more \in Seq(Record)
  <2>1. DOMAIN loop = 1 .. Len(loop) /\ Len(loop) \in Nat
    BY <1>4
  <2>2. \A n \in 1 .. Len(loop) : [step |-> nextIndex, verdict |-> loop[n]] \in Record
    BY <1>3, <1>4 DEF Record, StepIds
  <2> QED
    BY <2>1, <2>2
<1>6. TypeOK'
  <2>1. records' \in Seq(Record)
    BY <1>1, <1>5 DEF RInv, TypeOK
  <2>2. disk' \in [StepIds -> File \cup {NoFile}]
    BY <1>1, <1>4 DEF RInv, TypeOK, File
  <2> QED
    BY <1>1, <1>3, <2>1, <2>2, RoundAssumption DEF RInv, TypeOK, Labels, pane
<1>7. /\ Queue' /\ OnDisk' /\ HumanCounted' /\ Summarised'
      /\ \A i \in 1 .. Entered' : RightByItself(i)'
  <2>1. \A i \in StepIds : i # nextIndex => disk'[i] = disk[i]
    BY <1>1 DEF RInv, TypeOK
  <2>2. disk'[nextIndex].actor = "auto"
    BY <1>1, <1>3 DEF RInv, TypeOK, StepIds
  <2> QED
    BY <1>1, <1>3, <2>1, <2>2, SuiteStepKept
<1>8. DecidesRightly'
  <2>1. pc' = "write" => PendingMay'
    BY <1>1 DEF PendingMay, MayDecideItself, RInv, TypeOK
  <2>2. pc' # "answer"
    BY <1>1
  <2> QED
    BY <1>7, <2>1, <2>2 DEF DecidesRightly
<1> QED
  BY <1>3, <1>6, <1>7, <1>8 DEF RInv

LEMMA ExecuteProbeInv ==
  ASSUME RInv, NEW v \in {"pass", "fail"}, ExecuteProbe(v)
  PROVE  RInv'
<1> DEFINE ask == mode = "walk" \/ v = "fail"
           r == [step |-> nextIndex, verdict |-> v]
<1>1. /\ Landed(v, ask) /\ suite
      /\ UNCHANGED <<mode, suite, phase, nextIndex, pane, items, human, summary, go,
                     stopped, disk>>
      /\ pc = "wire" /\ pc' = (IF ask THEN "landed" ELSE "write")
      /\ pending' = [auto |-> v, ask |-> ask] /\ inflight' = 0
      /\ records' = Append(records, r)
  BY DEF ExecuteProbe, Landed, Moves, Goto
<1>2. v \in Verdicts /\ ask \in BOOLEAN
  BY DEF Verdicts
<1>3. /\ AtNextStep' /\ NoGap' /\ PhaseTells'
      /\ nextIndex \in 1 .. Steps /\ dirs' \subseteq StepIds
      /\ pending' \in Pending
  BY <1>1, <1>2, LandedInv
<1>4. TypeOK'
  <2>1. records' \in Seq(Record)
    BY <1>1, <1>2, <1>3 DEF RInv, TypeOK, Record, StepIds
  <2> QED
    BY <1>1, <1>3, <2>1, RoundAssumption DEF RInv, TypeOK, Labels, pane
<1>5. /\ Queue' /\ OnDisk' /\ HumanCounted' /\ Summarised'
      /\ \A i \in 1 .. Entered' : RightByItself(i)'
  BY <1>1, <1>3, SuiteStepKept
<1>6. DecidesRightly'
  <2>1. pc' = "write" => PendingMay'
    BY <1>1 DEF PendingMay, MayDecideItself, RInv, TypeOK
  <2>2. pc' # "answer"
    BY <1>1
  <2> QED
    BY <1>5, <2>1, <2>2 DEF DecidesRightly
<1> QED
  BY <1>3, <1>4, <1>5, <1>6 DEF RInv

LEMMA WriteAutoInv ==
  ASSUME RInv, WriteAuto
  PROVE  RInv'
<1>1. /\ pc = "write" /\ pc' = "answer"
      /\ disk' = [disk EXCEPT ![nextIndex] = [status |-> pending.auto, actor |-> "auto"]]
      /\ UNCHANGED <<mode, suite, phase, nextIndex, inflight, pane, pending, dirs, book,
                     stopped, summary, go>>
  BY DEF WriteAuto, Moves, Goto, Write
<1>2. /\ nextIndex \in 1 .. Steps /\ Steps \in Nat /\ pending \in Pending
      /\ phase = "running"
  BY <1>1, RoundAssumption
  DEF RInv, TypeOK, AtNextStep, PhaseTells, Back, StepIds
<1>3. /\ \A i \in StepIds : i # nextIndex => disk'[i] = disk[i]
      /\ disk'[nextIndex] = [status |-> pending.auto, actor |-> "auto"]
      /\ Entered = nextIndex - 1 /\ Entered' = Entered
      /\ \A i \in 1 .. Entered : i \in StepIds /\ disk'[i] = disk[i]
      /\ disk' \in [StepIds -> File \cup {NoFile}]
  BY <1>1, <1>2 DEF RInv, TypeOK, Entered, StepIds, File, Pending
<1>4. TypeOK'
  BY <1>1, <1>3 DEF RInv, TypeOK, Labels, pane, book
<1>5. AtNextStep' /\ NoGap' /\ PhaseTells'
  BY <1>1 DEF RInv, AtNextStep, NoGap, PhaseTells, Back
<1>6. Queue' /\ HumanCounted'
  <2>1. Queue'
    BY <1>1, <1>3 DEF RInv, Queue, book
  <2>2. HumanCounted'
    BY <1>1, <1>3 DEF RInv, HumanCounted, HumanBefore, HumanSaid, book
  <2> QED
    BY <2>1, <2>2
<1>7. OnDisk'
  <2>1. \A i \in 1 .. Entered' : disk'[i].status = Entry(i)'
    BY <1>1, <1>3 DEF RInv, OnDisk, Entry, book
  <2>2. \A i \in StepIds : i > nextIndex' => disk'[i] = NoFile
    BY <1>1, <1>2, <1>3 DEF RInv, OnDisk, StepIds
  <2> QED
    BY <1>1, <1>2, <1>3, <2>1, <2>2 DEF OnDisk
<1>8. DecidesRightly'
  <2>1. \A i \in 1 .. Entered' : RightByItself(i)'
    BY <1>1, <1>3 DEF RInv, DecidesRightly, RightByItself, MayDecideItself
  <2>2. PendingMay'
    BY <1>1 DEF RInv, DecidesRightly, PendingMay, MayDecideItself
  <2> QED
    BY <2>1, <2>2 DEF DecidesRightly
<1>9. Summarised'
  BY <1>1, SummaryKept DEF RInv
<1> QED
  BY <1>4, <1>5, <1>6, <1>7, <1>8, <1>9 DEF RInv

LEMMA WriteHumanInv ==
  ASSUME RInv, NEW status \in {"pass", "fail"}, NEW continue \in BOOLEAN,
         WriteHuman(status, continue)
  PROVE  RInv'
<1>1. /\ pc = "parked" /\ pc' = "answer" /\ go' \in BOOLEAN
      /\ disk' = [disk EXCEPT ![nextIndex] = [status |-> status, actor |-> "human"]]
      /\ UNCHANGED <<mode, suite, phase, nextIndex, inflight, pane, pending, dirs, book,
                     stopped, summary>>
  BY DEF WriteHuman, Moves, Goto, Write
<1>2. /\ nextIndex \in 1 .. Steps /\ Steps \in Nat
      /\ phase = "step"
  BY <1>1, RoundAssumption
  DEF RInv, TypeOK, AtNextStep, PhaseTells, Back, StepIds
<1>3. /\ \A i \in StepIds : i # nextIndex => disk'[i] = disk[i]
      /\ disk'[nextIndex] = [status |-> status, actor |-> "human"]
      /\ Entered = nextIndex - 1 /\ Entered' = Entered
      /\ \A i \in 1 .. Entered : i \in StepIds /\ disk'[i] = disk[i]
      /\ disk' \in [StepIds -> File \cup {NoFile}]
  BY <1>1, <1>2 DEF RInv, TypeOK, Entered, StepIds, File, Verdicts
<1>4. TypeOK'
  BY <1>1, <1>3 DEF RInv, TypeOK, Labels, pane, book
<1>5. AtNextStep' /\ NoGap' /\ PhaseTells'
  BY <1>1 DEF RInv, AtNextStep, NoGap, PhaseTells, Back
<1>6. Queue' /\ HumanCounted'
  <2>1. Queue'
    BY <1>1, <1>3 DEF RInv, Queue, book
  <2>2. HumanCounted'
    BY <1>1, <1>3 DEF RInv, HumanCounted, HumanBefore, HumanSaid, book
  <2> QED
    BY <2>1, <2>2
<1>7. OnDisk'
  <2>1. \A i \in 1 .. Entered' : disk'[i].status = Entry(i)'
    BY <1>1, <1>3 DEF RInv, OnDisk, Entry, book
  <2>2. \A i \in StepIds : i > nextIndex' => disk'[i] = NoFile
    BY <1>1, <1>2, <1>3 DEF RInv, OnDisk, StepIds
  <2> QED
    BY <1>1, <1>2, <1>3, <2>1, <2>2 DEF OnDisk
<1>8. DecidesRightly'
  <2>1. \A i \in 1 .. Entered' : RightByItself(i)'
    BY <1>1, <1>3 DEF RInv, DecidesRightly, RightByItself, MayDecideItself
  <2> QED
    BY <1>1, <1>2, <2>1 DEF DecidesRightly
<1>9. Summarised'
  BY <1>1, SummaryKept DEF RInv
<1> QED
  BY <1>4, <1>5, <1>6, <1>7, <1>8, <1>9 DEF RInv

(* A verdict that is on disk enters the queue.                              *)
LEMMA EnterInv ==
  ASSUME RInv, TypeOK', pc = "answer", pc' = "entered",
         NEW status \in Verdicts, Enter(status), disk[nextIndex].status = status,
         UNCHANGED <<mode, suite, phase, nextIndex, inflight, pending, dirs, disk,
                     summary>>,
         \/ /\ human' = human /\ PendingMay /\ phase = "running"
            /\ disk[nextIndex] = [status |-> pending.auto, actor |-> "auto"]
         \/ /\ disk[nextIndex].actor = "human" /\ phase = "step"
            /\ human' = Append(human, disk[nextIndex].status)
  PROVE  RInv'
<1>0. /\ nextIndex \in StepIds /\ Steps \in Nat /\ nextIndex \in 1 .. Steps
      /\ 1 .. nextIndex = (1 .. nextIndex - 1) \cup {nextIndex}
  BY RoundAssumption DEF RInv, AtNextStep, Back, StepIds
<1>1. /\ Entered = nextIndex - 1 /\ Entered' = nextIndex
      /\ Queue'
      /\ \A i \in 1 .. nextIndex - 1 : Entry(i)' = Entry(i)
      /\ \A i \in {nextIndex} : Entry(i)' = status
  BY <1>0, EnterEffect DEF RInv
<1>2. AtNextStep' /\ NoGap' /\ PhaseTells'
  BY <1>0 DEF RInv, AtNextStep, NoGap, PhaseTells, Back
<1>3. OnDisk'
  <2>1. \A i \in 1 .. Entered' : disk'[i].status = Entry(i)'
    BY <1>0, <1>1 DEF RInv, OnDisk
  <2> QED
    BY <2>1, <1>0 DEF RInv, OnDisk, NoFile
<1>4. DecidesRightly'
  <2>1. \A i \in 1 .. nextIndex - 1 : RightByItself(i)
    BY <1>1 DEF RInv, DecidesRightly
  <2>2. RightByItself(nextIndex)
    BY DEF PendingMay, RightByItself
  <2>3. \A i \in 1 .. nextIndex : RightByItself(i)
    BY <1>0, <2>1, <2>2
  <2>4. \A i \in 1 .. nextIndex : RightByItself(i)'
    BY <2>3 DEF RightByItself, MayDecideItself
  <2> QED
    BY <1>1, <2>4 DEF DecidesRightly
<1>5. HumanCounted'
  BY <1>0, <1>1, HumanCountGrows DEF RInv
<1>6. Summarised'
  BY SummaryKept DEF RInv
<1> QED
  BY <1>1, <1>2, <1>3, <1>4, <1>5, <1>6 DEF RInv

LEMMA EnterAutoInv ==
  ASSUME RInv, EnterAuto
  PROVE  RInv'
<1>1. /\ phase = "running" /\ pc = "answer" /\ pc' = "entered" /\ Enter(pending.auto)
      /\ UNCHANGED <<mode, suite, phase, nextIndex, inflight, pane, pending, dirs,
                     human, stopped, disk, summary, go>>
  BY DEF EnterAuto, Moves, Goto
<1>2. /\ nextIndex \in StepIds /\ pending \in Pending
      /\ disk[nextIndex] = [status |-> pending.auto, actor |-> "auto"]
      /\ PendingMay
  BY <1>1 DEF RInv, TypeOK, AtNextStep, OnDisk, DecidesRightly, Back
<1>3. pending.auto \in Verdicts
  BY <1>2 DEF Pending
<1>4. TypeOK'
  <2>1. records' \in Seq(Record) /\ items' \in Seq(Verdicts) /\ Len(items') <= Steps
    BY <1>1, <1>2, <1>3, EnterEffect DEF RInv
  <2> QED
    BY <1>1, <2>1 DEF RInv, TypeOK, Labels, pane
<1> QED
  BY <1>1, <1>2, <1>3, <1>4, EnterInv

LEMMA EnterHumanInv ==
  ASSUME RInv, EnterHuman
  PROVE  RInv'
<1> DEFINE status == disk[nextIndex].status
<1>1. /\ phase = "step" /\ pc = "answer" /\ pc' = "entered"
      /\ Enter(status)
      /\ human' = Append(human, status)
      /\ UNCHANGED <<mode, suite, phase, nextIndex, inflight, pane, pending, dirs,
                     stopped, disk, summary, go>>
  BY DEF EnterHuman, Moves, Goto
<1>2. /\ nextIndex \in StepIds /\ disk[nextIndex].actor = "human"
      /\ disk[nextIndex] \in File \cup {NoFile}
  BY <1>1 DEF RInv, TypeOK, AtNextStep, OnDisk, Back
<1>3. status \in Verdicts
  BY <1>2 DEF NoFile, File
<1>4. TypeOK'
  <2>1. records' \in Seq(Record) /\ items' \in Seq(Verdicts) /\ Len(items') <= Steps
    BY <1>1, <1>2, <1>3, EnterEffect DEF RInv
  <2>2. human' \in Seq(Verdicts)
    BY <1>1, <1>3 DEF RInv, TypeOK
  <2> QED
    BY <1>1, <2>1, <2>2 DEF RInv, TypeOK, Labels, pane
<1> QED
  BY <1>1, <1>2, <1>3, <1>4, EnterInv

LEMMA ClearPendingInv ==
  ASSUME RInv, ClearPending
  PROVE  RInv'
<1> USE RoundAssumption DEF RInv, ClearPending, Moves, Goto, pane, book
<1>0. Entered' = Entered
  BY DEF Entered
<1>1. TypeOK'
  BY DEF TypeOK, Labels
<1>2. AtNextStep' /\ NoGap' /\ PhaseTells'
  BY DEF AtNextStep, NoGap, PhaseTells, Back
<1>3. OnDisk' /\ DecidesRightly'
  BY <1>0, QuietKept DEF OnDisk, DecidesRightly
<1> QED
  BY <1>0, <1>1, <1>2, <1>3, QuietKept, SummaryKept

(* The index moves past a step that was entered.                             *)
LEMMA NextStepInv ==
  ASSUME RInv, NextStep
  PROVE  RInv'
<1>1. /\ pc = "cleared" /\ pc' \in {"advance", "finish"}
      /\ nextIndex' = nextIndex + 1 /\ go' = FALSE
      /\ UNCHANGED <<mode, suite, phase, inflight, follow, focusIndex, pending, dirs,
                     records, items, human, stopped, disk, summary>>
  BY DEF NextStep, Moves, Goto, pane, book
<1>2. /\ nextIndex \in 1 .. Steps /\ Steps \in Nat /\ dirs = 1 .. nextIndex
      /\ pending = NoPending /\ inflight = 0
  BY <1>1, RoundAssumption DEF RInv, AtNextStep, Back, StepIds
<1>3. Entered' = Entered /\ Entered = nextIndex
  BY <1>1, <1>2 DEF Entered
<1>4. TypeOK'
  <2>1. nextIndex' \in 1 .. Steps + 1
    BY <1>1, <1>2
  <2>2. pc' \in Labels /\ go' \in BOOLEAN
    BY <1>1 DEF Labels
  <2> QED
    BY <1>1, <2>1, <2>2 DEF RInv, TypeOK
<1>5. AtNextStep' /\ NoGap' /\ PhaseTells'
  BY <1>1, <1>2 DEF RInv, AtNextStep, NoGap, PhaseTells, Back
<1>6. OnDisk'
  <2>1. \A i \in StepIds : i > nextIndex => disk'[i] = NoFile
    BY <1>1 DEF RInv, OnDisk
  <2>2. nextIndex' \in StepIds => disk'[nextIndex'] = NoFile
    BY <1>1, <1>2, <2>1
  <2> QED
    BY <1>1, <1>3, <2>2, QuietKept DEF OnDisk, NoFile
<1>7. DecidesRightly'
  BY <1>1, <1>3, QuietKept DEF DecidesRightly
<1> QED
  BY <1>1, <1>3, <1>4, <1>5, <1>6, <1>7, QuietKept, SummaryKept DEF RInv

(* The summary is written when no verdict is on its way, so it is what the    *)
(* directories say.                                                         *)
LEMMA FinishInv ==
  ASSUME RInv, Finish
  PROVE  RInv'
<1>1. /\ pc = "finish" /\ pc' = "close"
      /\ summary' = [written |-> TRUE, records |-> records, human |-> human]
      /\ UNCHANGED <<mode, suite, phase, nextIndex, inflight, pane, pending, dirs, book,
                     stopped, disk, go>>
  BY DEF Finish, Moves, Goto
<1>0. /\ nextIndex \in 1 .. Steps + 1 /\ Steps \in Nat
      /\ Entered = nextIndex - 1 /\ Entered' = Entered
  BY <1>1, RoundAssumption DEF RInv, TypeOK, Entered
<1>2. TypeOK'
  BY <1>1 DEF RInv, TypeOK, Labels, pane, book
<1>3. AtNextStep' /\ NoGap' /\ PhaseTells'
  BY <1>1 DEF RInv, AtNextStep, NoGap, PhaseTells, Back
<1>4. OnDisk' /\ DecidesRightly'
  BY <1>0, <1>1, QuietKept DEF RInv, OnDisk, DecidesRightly, book
<1>5. SummaryIsTheVerdicts'
  <2>1. ASSUME ~suite, NEW i \in StepIds
        PROVE  IF i <= Len(records)
                 THEN records[i] = [step |-> i, verdict |-> disk[i].status]
                 ELSE disk[i] = NoFile
    <3>1. /\ Len(records) = nextIndex - 1 /\ records \in Seq(Record) /\ i \in 1 .. Steps
          /\ \A n \in 1 .. nextIndex - 1 : records[n].step = n
      BY <1>0, <2>1 DEF RInv, Queue, TypeOK, StepIds
    <3>2. CASE i <= Len(records)
      <4>1. records[i] \in Record /\ i \in 1 .. nextIndex - 1
        BY <1>0, <3>1, <3>2
      <4>2. disk[i].status = records[i].verdict
        BY <1>0, <4>1, <2>1 DEF RInv, OnDisk, Entry
      <4> QED
        BY <3>1, <3>2, <4>1, <4>2 DEF Record
    <3>3. CASE ~(i <= Len(records))
      <4>1. i > nextIndex \/ i = nextIndex
        BY <1>0, <3>1, <3>3
      <4> QED
        BY <1>1, <2>1, <3>3, <4>1 DEF RInv, OnDisk
    <3> QED
      BY <3>2, <3>3
  <2>2. ASSUME NEW status \in Verdicts
        PROVE  Cardinality(ByHuman(status))
                 = Cardinality({n \in DOMAIN human : human[n] = status})
    <3>1. ASSUME NEW i \in StepIds, disk[i] = [status |-> status, actor |-> "human"]
          PROVE  i \in 1 .. nextIndex - 1
      <4>1. i # nextIndex
        BY <1>1, <3>1 DEF RInv, OnDisk
      <4>2. ~(i > nextIndex)
        BY <3>1 DEF RInv, OnDisk, NoFile
      <4> QED
        BY <4>1, <4>2, <1>0 DEF StepIds
    <3>2. ByHuman(status) = HumanBefore(Entered, status)
      BY <3>1, <1>0 DEF ByHuman, HumanBefore, StepIds
    <3> QED
      BY <3>2 DEF RInv, HumanCounted, HumanSaid
  <2> QED
    BY <1>1, <2>1, <2>2 DEF SummaryIsTheVerdicts, ByHuman, book
<1> QED
  BY <1>0, <1>1, <1>2, <1>3, <1>4, <1>5, QuietKept DEF RInv, Summarised, book

(* Every step of the worker and of the reviewer keeps the invariant.         *)
LEMMA NextInv == RInv /\ [Next]_vars => RInv'
<1> SUFFICES ASSUME RInv, [Next]_vars PROVE RInv'
  OBVIOUS
<1>1. CASE Worker
  <2>1. CASE Execute
    BY <2>1, ExecuteCaseInv, ExecuteLoopInv, ExecuteProbeInv DEF Execute
  <2> QED
    BY <1>1, <2>1, StartInv, AdvanceInv, ParkInv, WriteAutoInv, EnterAutoInv,
       EnterHumanInv, ClearPendingInv, NextStepInv, FinishInv, CloseInv, AbortInv
    DEF Worker, Proceed
<1>2. CASE Reviewer
  BY <1>2, WriteHumanInv, CancelInv, FocusInv DEF Reviewer
<1>3. CASE UNCHANGED vars
  <2>0. Entered' = Entered
    BY <1>3 DEF Entered, vars
  <2>1. TypeOK'
    BY <1>3 DEF RInv, TypeOK, vars
  <2>2. AtNextStep' /\ NoGap' /\ PhaseTells'
    BY <1>3 DEF RInv, AtNextStep, NoGap, PhaseTells, vars
  <2>3. OnDisk' /\ DecidesRightly'
    BY <1>3, <2>0, QuietKept
    DEF RInv, OnDisk, DecidesRightly, PendingMay, MayDecideItself, vars
  <2>4. Summarised'
    BY <1>3 DEF RInv, Summarised, SummaryIsTheVerdicts, ByHuman, vars
  <2> QED
    BY <1>3, <2>0, <2>1, <2>2, <2>3, <2>4, QuietKept DEF RInv, vars
<1> QED
  BY <1>1, <1>2, <1>3 DEF Next

LEMMA RoundInvariant == Spec => []RInv
BY InitRInv, NextInv, PTL DEF Spec

-----------------------------------------------------------------------------
(* What follows.                                                            *)

(* No step index leaves the round, and the queue is never longer than it.    *)
THEOREM RoundTypeCorrect == Spec => []TypeOK
<1>1. RInv => TypeOK
  BY DEF RInv
<1> QED
  BY <1>1, RoundInvariant, PTL

(* What the screen shows as decided is on disk.                              *)
THEOREM ShownIsOnDisk == Spec => []RowsAreOnDisk
<1>1. RInv => RowsAreOnDisk
  <2> SUFFICES ASSUME RInv, NEW i \in StepIds, Row(i) # "pending"
               PROVE  disk[i].status = Row(i)
    BY DEF RowsAreOnDisk
  <2>1. Entered \in Nat /\ i \in Nat /\ 1 <= i
    BY EnteredInRound, RoundAssumption DEF RInv, StepIds
  <2>2. i <= Entered /\ Row(i) = Entry(i)
    BY RowIsEntry DEF RInv
  <2> QED
    BY <2>1, <2>2 DEF RInv, OnDisk
<1> QED
  BY <1>1, RoundInvariant, PTL

(* Everything before the next step is decided, and unless it is being entered *)
(* or about to be left, it is the first one that is not.                     *)
LEMMA BehindIsDecided ==
  ASSUME RInv, nextIndex \in StepIds
  PROVE  \A j \in 1 .. nextIndex - 1 : Row(j) # "pending"
<1>1. nextIndex \in 1 .. Steps /\ Steps \in Nat /\ Entered \in {nextIndex - 1, nextIndex}
  BY RoundAssumption DEF StepIds, Entered
<1>2. ASSUME NEW j \in 1 .. nextIndex - 1 PROVE Row(j) # "pending"
  BY <1>1, <1>2, RowIsEntry, EntryIsVerdict DEF RInv, StepIds, Verdicts
<1> QED
  BY <1>2

LEMMA NextIsFrontier ==
  ASSUME RInv, nextIndex \in StepIds, pc \notin {"entered", "cleared"}
  PROVE  Frontier(nextIndex)
<1>1. nextIndex \in 1 .. Steps /\ Steps \in Nat /\ Entered = nextIndex - 1
  BY RoundAssumption DEF StepIds, Entered
<1>2. Row(nextIndex) = "pending"
  BY <1>1, RowIsEntry DEF RInv
<1> QED
  BY <1>2, BehindIsDecided DEF Frontier

(* The verdict form is drawn for the step on screen, and that step ran, has    *)
(* nothing undecided before it, and is undecided or being entered.           *)
THEOREM FormFits == Spec => []FormFitsTheStep
<1>1. RInv => FormFitsTheStep
  <2> SUFFICES ASSUME RInv PROVE FormFitsTheStep
    OBVIOUS
  <2>1. ASSUME phase = "step", pending # NoPending PROVE FormIsFor(nextIndex)
    <3>1. /\ nextIndex \in StepIds /\ dirs = 1 .. nextIndex /\ nextIndex \in dirs
          /\ pc \in Back \cup {"aborted"}
      BY <2>1, RoundAssumption DEF RInv, AtNextStep, StepIds
    <3>2. CASE pc = "entered"
      <4>1. Entered = nextIndex /\ nextIndex \in 1 .. Entered
        BY <3>1, <3>2, RoundAssumption DEF Entered, StepIds
      <4>2. disk[nextIndex].status = Entry(nextIndex) /\ disk[nextIndex].actor = "human"
        BY <2>1, <3>2, <4>1 DEF RInv, OnDisk
      <4>3. disk[nextIndex] \in File
        BY <3>1, <4>2 DEF RInv, TypeOK, NoFile
      <4>4. Row(nextIndex) = Entry(nextIndex)
        BY <3>1, <4>1, RowIsEntry DEF RInv, StepIds
      <4>5. BeingEntered(nextIndex)
        BY <3>2, <4>2, <4>3, <4>4 DEF BeingEntered, File
      <4> QED
        BY <3>1, <4>5, BehindIsDecided DEF FormIsFor
    <3>3. CASE pc # "entered"
      <4>1. Frontier(nextIndex)
        BY <3>1, <3>3, NextIsFrontier DEF Back
      <4> QED
        BY <3>1, <4>1 DEF FormIsFor, Frontier
    <3> QED
      BY <3>2, <3>3
  <2>2. Awaiting => FormIsFor(EffectiveFocus)
    BY <2>1 DEF Awaiting
  <2>3. ASSUME NEW i \in StepIds, Live(i) = "awaiting" PROVE FormIsFor(i)
    BY <2>1, <2>3 DEF Live
  <2>4. ASSUME NEW i \in StepIds, Live(i) = "running" PROVE Frontier(i)
    <3>1. i \in 1 .. Steps /\ Steps \in Nat /\ i = inflight
      BY <2>4, RoundAssumption DEF StepIds, Live
    <3>2. inflight = nextIndex /\ pc \notin {"entered", "cleared"}
      BY <3>1 DEF RInv, AtNextStep
    <3> QED
      BY <2>4, <3>1, <3>2, NextIsFrontier
  <2> QED
    BY <2>2, <2>3, <2>4 DEF FormFitsTheStep
<1> QED
  BY <1>1, RoundInvariant, PTL

(* A round's summary is what its directories say.                            *)
THEOREM SummaryIsHonest == Spec => []SummaryIsTheVerdicts
<1>1. RInv => SummaryIsTheVerdicts
  BY DEF RInv, Summarised
<1> QED
  BY <1>1, RoundInvariant, PTL

(* What no human decided was, whatever the mode, the gates and the rounds, as *)
(* NobodySkipsTheHuman has it.                                              *)
THEOREM HumansAreAsked == Spec => []NobodySkipsTheHuman
<1>1. RInv => NobodySkipsTheHuman
  <2> SUFFICES ASSUME RInv, NEW i \in StepIds, ByItself(i)
               PROVE  MayDecideItself(i, disk[i].status)
    BY DEF NobodySkipsTheHuman, MayDecideItself
  <2>1. Entered \in Nat /\ i \in Nat /\ 1 <= i
    BY EnteredInRound, RoundAssumption DEF RInv, StepIds
  <2>2. i <= Entered
    BY RowIsEntry DEF RInv, ByItself
  <2> QED
    BY <2>1, <2>2 DEF RInv, DecidesRightly, RightByItself, ByItself
<1> QED
  BY <1>1, RoundInvariant, PTL

(* Cases go on the wire in order and once.                                  *)
THEOREM CasesInOrder == Spec => OneCaseAtATime
<1> DEFINE Sent == inflight' # 0 /\ inflight' # inflight =>
                     /\ inflight' \notin dirs
                     /\ \A i \in 1 .. inflight' - 1 : Row(i) # "pending"
<1>1. RInv /\ [Next]_vars => [Sent]_vars
  <2> SUFFICES ASSUME RInv, [Next]_vars, inflight' # 0, inflight' # inflight
               PROVE  /\ inflight' \notin dirs
                      /\ \A i \in 1 .. inflight' - 1 : Row(i) # "pending"
    OBVIOUS
  <2>1. Advance /\ inflight' = nextIndex
    <3>1. ~UNCHANGED vars
      BY DEF vars
    <3>2. CASE Worker
      BY <3>2
      DEF Worker, Proceed, Start, Advance, Execute, ExecuteCase, ExecuteLoop,
          ExecuteProbe, Landed, Park, WriteAuto, EnterAuto, EnterHuman,
          ClearPending, NextStep, Finish, Close, Abort
    <3>3. CASE Reviewer
      BY <3>3 DEF Reviewer, WriteHuman, Cancel, Focus
    <3> QED
      BY <3>1, <3>2, <3>3 DEF Next
  <2>2. nextIndex \in StepIds /\ dirs = 1 .. nextIndex - 1 /\ pc = "advance"
    BY <2>1 DEF Advance, Goto, RInv, TypeOK, NoGap, StepIds
  <2>3. Frontier(nextIndex)
    BY <2>2, NextIsFrontier
  <2> QED
    BY <2>1, <2>2, <2>3, RoundAssumption DEF Frontier, StepIds
<1> QED
  BY <1>1, RoundInvariant, PTL DEF Spec, OneCaseAtATime

(* What a step changes of the queue and the disk begins after what is entered. *)
LEMMA BehindIsSettled ==
  ASSUME RInv, RInv', [Next]_vars
  PROVE  /\ suite' = suite
         /\ Entered' \in {Entered, Entered + 1}
         /\ \A i \in 1 .. Entered : Entry(i)' = Entry(i) /\ disk'[i] = disk[i]
<1>0. /\ nextIndex \in 1 .. Steps + 1 /\ Steps \in Nat /\ Entered \in 0 .. Steps
      /\ \A i \in 1 .. Entered : i \in StepIds
  BY EnteredInRound, RoundAssumption DEF RInv, TypeOK, StepIds
<1>1. CASE UNCHANGED <<suite, records, items, disk>> /\ Entered' = Entered
  BY <1>1 DEF Entry
<1>2. CASE \E loop \in Loops, stop \in BOOLEAN : ExecuteLoop(loop, stop)
  <2>1. /\ suite /\ UNCHANGED <<suite, nextIndex, items>>
        /\ pc = "wire" /\ pc' \in {"landed", "write"}
        /\ \E f : disk' = [disk EXCEPT ![nextIndex] = f]
    BY <1>2 DEF ExecuteLoop, Landed, Moves, Goto, Write
  <2>2. Entered = nextIndex - 1 /\ Entered' = Entered
    BY <2>1 DEF Entered
  <2> QED
    BY <1>0, <2>1, <2>2 DEF Entry, RInv, TypeOK
<1>3. CASE \E v \in {"pass", "fail"} : ExecuteProbe(v)
  BY <1>3 DEF ExecuteProbe, Landed, Moves, Goto, Entry, Entered
<1>4. CASE WriteAuto \/ \E status \in {"pass", "fail"}, c \in BOOLEAN : WriteHuman(status, c)
  <2>1. /\ UNCHANGED <<suite, nextIndex, records, items>>
        /\ pc \in {"write", "parked"} /\ pc' = "answer"
        /\ \E f : disk' = [disk EXCEPT ![nextIndex] = f]
    BY <1>4 DEF WriteAuto, WriteHuman, Write, Moves, Goto, book
  <2>2. Entered = nextIndex - 1 /\ Entered' = Entered
    BY <2>1 DEF Entered
  <2> QED
    BY <1>0, <2>1, <2>2 DEF Entry, RInv, TypeOK
<1>5. CASE EnterAuto \/ EnterHuman
  <2>1. /\ pc = "answer" /\ pc' = "entered" /\ UNCHANGED <<suite, nextIndex, disk>>
        /\ \/ Enter(pending.auto) /\ phase = "running"
           \/ Enter(disk[nextIndex].status) /\ phase = "step"
    BY <1>5 DEF EnterAuto, EnterHuman, Moves, Goto
  <2>2. nextIndex \in StepIds /\ pending \in Pending /\ disk[nextIndex] \in File \cup {NoFile}
    BY <2>1 DEF RInv, AtNextStep, Back, TypeOK
  <2>3. PICK status \in Verdicts : Enter(status)
    BY <2>1, <2>2 DEF RInv, OnDisk, Pending, File, NoFile
  <2>4. /\ Entered = nextIndex - 1 /\ Entered' = nextIndex
        /\ \A i \in 1 .. nextIndex - 1 : Entry(i)' = Entry(i)
    BY <2>1, <2>2, <2>3, EnterEffect DEF RInv
  <2> QED
    BY <1>0, <2>1, <2>4
<1>6. CASE NextStep
  BY <1>0, <1>1, <1>6 DEF NextStep, Moves, Goto, Entered, book
<1> QED
  <2>1. CASE Worker
    BY <1>1, <1>2, <1>3, <1>4, <1>5, <1>6, <2>1
    DEF Worker, Proceed, Start, Advance, Execute, ExecuteCase, Landed, Park,
        ClearPending, Finish, Close, Abort, Moves, Goto, Entered, book
  <2>2. CASE Reviewer
    BY <1>1, <1>4, <2>2 DEF Reviewer, Cancel, Focus, Moves, Goto, Entered, book
  <2>3. CASE UNCHANGED vars
    BY <1>1, <2>3 DEF vars, Entered
  <2> QED
    BY <2>1, <2>2, <2>3 DEF Next

(* The rows before and after a step.                                        *)
RowsAreEntries ==
  \A k \in StepIds : Row(k) = IF k <= Entered THEN Entry(k) ELSE "pending"

LEMMA RowsNow == RInv => RowsAreEntries
BY RowIsEntry DEF RInv, RowsAreEntries

(* What holds of every state with the invariant holds of the next one.       *)
LEMMA RowsNext == RInv' => RowsAreEntries'
BY RowsNow, PTL

(* A decided row never changes, on the screen or on disk.                    *)
THEOREM DecisionsStand == Spec => DecidedStaysDecided
<1>1. RInv /\ RInv' /\ [Next]_vars =>
        \A i \in StepIds : Row(i) # "pending" => Row(i)' = Row(i) /\ disk'[i] = disk[i]
  <2> SUFFICES ASSUME RInv, RInv', [Next]_vars, NEW i \in StepIds, Row(i) # "pending"
               PROVE  Row(i)' = Row(i) /\ disk'[i] = disk[i]
    OBVIOUS
  <2>1. Entered \in Nat /\ i \in Nat /\ 1 <= i
    BY EnteredInRound, RoundAssumption DEF RInv, StepIds
  <2>2. i <= Entered /\ Row(i) = Entry(i)
    BY RowIsEntry DEF RInv
  <2>3. i <= Entered' /\ Entry(i)' = Entry(i) /\ disk'[i] = disk[i]
    BY <2>1, <2>2, BehindIsSettled
  <2>4. Row(i)' = Entry(i)'
    BY <2>3, RowsNext DEF RowsAreEntries
  <2> QED
    BY <2>2, <2>3, <2>4
<1> QED
  BY <1>1, RoundInvariant, PTL DEF Spec, DecidedStaysDecided

(* A round is a SessionLife to the engine that drives it: its initial states  *)
(* and its steps are, with the number of decided rows as the count.          *)
CountIsEntered == Decided = Entered

LEMMA CountNow == RInv => CountIsEntered
BY DecidedIsEntered DEF RInv, CountIsEntered

(* ... and so after a step.                                                 *)
LEMMA CountNext == RInv' => CountIsEntered'
BY CountNow, PTL

THEOREM RoundImplementsSessionLife == Spec => ImplementsSessionLife
<1>1. Init => Life!Init
  <2> SUFFICES ASSUME Init PROVE Life!Init
    OBVIOUS
  <2>1. Decided = Entered
    BY InitRInv, CountNow DEF CountIsEntered
  <2> QED
    BY <2>1 DEF Init, Entered, Life!Init
<1>2. RInv /\ RInv' /\ [Next]_vars => [Life!Next]_(Life!vars)
  <2> SUFFICES ASSUME RInv, RInv', [Next]_vars PROVE Life!Next \/ UNCHANGED Life!vars
    OBVIOUS
  <2>1. Decided = Entered /\ Decided' = Entered'
    BY CountNow, CountNext DEF CountIsEntered
  <2>2. nextIndex \in Nat
    BY RoundAssumption DEF RInv, TypeOK
  <2>3. CASE phase' = phase /\ Entered' = Entered
    BY <2>1, <2>3 DEF Life!vars
  <2>4. CASE Advance
    <3>1. Entered' = Entered /\ (phase' = "running" \/ UNCHANGED phase)
      BY <2>4 DEF Advance, Goto, Entered
    <3>2. phase \in {"start", "running", "step"}
      BY <2>4 DEF Advance, RInv, TypeOK, Phases, PhaseTells
    <3> QED
      BY <2>1, <2>3, <3>1, <3>2 DEF Life!Next, Life!Send
  <2>5. CASE Park
    BY <2>1, <2>5 DEF Park, Moves, Goto, Entered, RInv, PhaseTells, Life!Next, Life!Ask
  <2>6. CASE EnterAuto
    BY <2>1, <2>2, <2>6 DEF EnterAuto, Moves, Goto, Entered, Life!Next, Life!Land
  <2>7. CASE EnterHuman
    BY <2>1, <2>2, <2>7 DEF EnterHuman, Moves, Goto, Entered, Life!Next, Life!Answer
  <2>8. CASE Close
    <3>1. phase \in {"start", "running", "step"}
      BY <2>8 DEF Close, Moves, RInv, TypeOK, Phases, PhaseTells
    <3> QED
      BY <2>1, <2>8, <3>1 DEF Close, Moves, Goto, Entered, Life!Next, Life!Close
  <2> QED
    <3>0. CASE NextStep
      BY <2>2, <2>3, <3>0 DEF NextStep, Moves, Goto, Entered
    <3>1. CASE Worker
      BY <3>0, <2>3, <2>4, <2>5, <2>6, <2>7, <2>8, <3>1
      DEF Worker, Proceed, Start, Execute, ExecuteCase, ExecuteLoop, ExecuteProbe,
          Landed, WriteAuto, ClearPending, Finish, Abort, Moves, Goto, Entered
    <3>2. CASE Reviewer
      BY <2>3, <3>2 DEF Reviewer, WriteHuman, Cancel, Focus, Moves, Goto, Entered
    <3>3. CASE UNCHANGED vars
      BY <2>3, <3>3 DEF vars, Entered
    <3> QED
      BY <3>1, <3>2, <3>3 DEF Next
<1> QED
  BY <1>1, <1>2, RoundInvariant, PTL DEF Spec, ImplementsSessionLife, Life!Spec

-----------------------------------------------------------------------------
(* What the worker's return rests on.                                       *)

(* The bound of focus reaches the parked step.                               *)
LEMMA FocusReachesTheStep ==
  ASSUME RInv, pc = "parked"
  PROVE  Min({nextIndex, MaxFocus}) = nextIndex
<1>0. nextIndex \in StepIds /\ Steps \in Nat /\ phase = "step" /\ dirs = 1 .. nextIndex
  BY RoundAssumption DEF RInv, AtNextStep, Back, PhaseTells
<1>1. Largest(dirs) = nextIndex
  BY <1>0, LargestOfInterval DEF StepIds
<1> DEFINE S == {1, nextIndex}
<1>2. MaxFocus = Max(S)
  <2>1. {1, Largest(dirs)} \cup {nextIndex} = S
    BY <1>1
  <2> QED
    BY <1>0, <2>1 DEF MaxFocus
<1>3. Max(S) = nextIndex
  <2>1. nextIndex \in S /\ \A y \in S : nextIndex >= y
    BY <1>0 DEF StepIds
  <2>2. \A x \in S : (\A y \in S : x >= y) => x = nextIndex
    BY <1>0, <2>1 DEF StepIds
  <2> QED
    BY <2>1, <2>2 DEF Max
<1>4. {nextIndex, MaxFocus} = {nextIndex}
  BY <1>2, <1>3
<1>5. Min({nextIndex}) = nextIndex
  BY <1>0 DEF Min, StepIds
<1> QED
  BY <1>4, <1>5

(* Whoever follows the run sees the form of a parked step, and whoever        *)
(* browsed away can focus it.                                               *)
THEOREM ParkedIsAnswerable == Spec => []ParkedCanBeAnswered
<1>1. RInv => ParkedCanBeAnswered
  <2> SUFFICES ASSUME RInv, pc = "parked"
               PROVE  /\ phase = "step" /\ pending # NoPending
                      /\ follow => EffectiveFocus = nextIndex
                      /\ Min({nextIndex, MaxFocus}) = nextIndex
    BY DEF ParkedCanBeAnswered
  <2>1. /\ phase = "step" /\ pending # NoPending
        /\ nextIndex \in StepIds /\ dirs = 1 .. nextIndex
    BY DEF RInv, AtNextStep, Back, PhaseTells
  <2>2. Largest(dirs) = nextIndex /\ dirs # {}
    BY <2>1, LargestOfInterval, RoundAssumption DEF StepIds
  <2> QED
    BY <2>1, <2>2, FocusReachesTheStep DEF EffectiveFocus
<1> QED
  BY <1>1, RoundInvariant, PTL

(* So a form that is drawn is for the step on screen, and a step that waits    *)
(* for one can be shown with it.                                            *)
THEOREM FormIsHonest == Spec => []FormIsForTheStepOnScreen
BY FormFits, ParkedIsAnswerable, PTL DEF FormIsForTheStepOnScreen

(* Every step of the worker, of the reviewer and of a failure leads to the    *)
(* next step of the round or to a later stage of this one.                   *)
THEOREM RoundsGoForward == Spec => RoundGoesForward
<1>1. RInv /\ [Next]_vars => GoesForward
  <2> SUFFICES ASSUME RInv, [Next]_vars, pc' # pc
               PROVE  \/ nextIndex' > nextIndex
                      \/ nextIndex' = nextIndex /\ Rank[pc'] > Rank[pc]
    BY DEF GoesForward
  <2>0. nextIndex \in Nat /\ pc \in Labels
    BY RoundAssumption DEF RInv, TypeOK
  <2>1. CASE NextStep
    BY <2>0, <2>1 DEF NextStep
  <2>2. CASE \/ Start \/ Park \/ WriteAuto \/ EnterAuto \/ EnterHuman
             \/ ClearPending \/ Finish \/ Close
    BY <2>2 DEF Start, Park, WriteAuto, EnterAuto, EnterHuman, ClearPending,
                Finish, Close, Moves, Goto, Rank
  <2>3. CASE Advance
    BY <2>3 DEF Advance, Goto, Rank
  <2>4. CASE Execute
    <3>1. PICK auto \in Verdicts, ask \in BOOLEAN : Landed(auto, ask)
      BY <2>4 DEF Execute, ExecuteCase, ExecuteLoop, ExecuteProbe, Verdicts
    <3>2. pc = "wire" /\ pc' \in {"landed", "write"} /\ nextIndex' = nextIndex
      BY <3>1 DEF Landed, Moves, Goto
    <3> QED
      BY <3>2 DEF Rank
  <2>5. CASE Abort
    BY <2>0, <2>5 DEF Abort, Goto, Labels, Rank
  <2>6. CASE Reviewer
    <3>1. pc = "parked" /\ pc' \in {"answer", "finish"} /\ nextIndex' = nextIndex
      BY <2>6 DEF Reviewer, WriteHuman, Cancel, Focus, Moves, Goto
    <3> QED
      BY <3>1 DEF Rank
  <2>7. CASE UNCHANGED vars
    BY <2>7 DEF vars
  <2> QED
    BY <2>1, <2>2, <2>3, <2>4, <2>5, <2>6, <2>7 DEF Next, Worker, Proceed
<1> QED
  BY <1>1, RoundInvariant, PTL DEF Spec, RoundGoesForward

=============================================================================
