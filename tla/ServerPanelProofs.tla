---------------------------- MODULE ServerPanelProofs ----------------------------
(***************************************************************************)
(* Theorems about ServerPanel, for every set of projects, every set of slow     *)
(* servers and any number of presses in flight.                              *)
(***************************************************************************)
EXTENDS ServerPanel, TLAPS

USE ServerAssumption

(* A request that closes a project found another one open.                    *)
CopyHasAnother ==
  \A k \in Slots :
    task[k].stage = "treed" /\ task[k].op = "remove"
      => task[k].copy \ {task[k].project} # {}

(* A server that is still coming was given up on.                             *)
ComingIsAnError == \A s \in Servers : server[s].thread = "coming" => server[s].error

LInv == TypeOK /\ LastProjectStays /\ CopyHasAnother /\ BusyIsReleased

-----------------------------------------------------------------------------
(* Effects.                                                                 *)

LEMMA FreshTyped ==
  ASSUME NEW op \in Ops, NEW turn \in BOOLEAN, NEW project \in Projects,
         NEW stage \in Stages, NEW waits \in SUBSET Reads
  PROVE  Fresh(op, turn, project, stage, waits) \in Task
<1>1. NotRead \in Shown
  BY DEF NotRead, Shown
<1> QED
  BY <1>1 DEF Fresh, Task

LEMMA NoTaskTyped == NoTask \in Task
BY FreshTyped DEF NoTask, Ops, Stages

LEMMA PutEffect ==
  ASSUME TypeOK, NEW k \in Slots, NEW c \in Task, Put(k, c)
  PROVE  /\ task' \in [Slots -> Task]
         /\ task'[k] = c
         /\ \A j \in Slots \ {k} : task'[j] = task[j]
BY DEF Put, TypeOK

LEMMA StateTyped == ASSUME TypeOK, NEW s \in Servers PROVE State(s) \in States
BY DEF State, States

(* A task that goes on keeps what it was asked for.                           *)
Same(k) == /\ task'[k].op = task[k].op
           /\ task'[k].project = task[k].project
           /\ task'[k].turn = task[k].turn
Others(k) == \A j \in Slots \ {k} : task'[j] = task[j]

LEMMA RefuseEffect ==
  ASSUME TypeOK, NEW k \in Slots, Refuse(k)
  PROVE  /\ task' \in [Slots -> Task] /\ Others(k)
         /\ task'[k].op = task[k].op /\ task'[k].stage = "failed"
<1>1. task[k].op \in Ops
  BY DEF TypeOK, Task
<1>2. Fresh(task[k].op, FALSE, Launched, "failed", {}) \in Task
  BY <1>1, FreshTyped DEF Stages
<1>3. task'[k] = Fresh(task[k].op, FALSE, Launched, "failed", {})
      /\ task' \in [Slots -> Task] /\ Others(k)
  BY <1>2, PutEffect DEF Refuse, Others
<1>4. task'[k].op = task[k].op /\ task'[k].stage = "failed"
  BY <1>3 DEF Fresh
<1> QED
  BY <1>3, <1>4

LEMMA DropEffect ==
  ASSUME TypeOK, NEW k \in Slots, Drop(k)
  PROVE  task' \in [Slots -> Task] /\ task'[k] = NoTask /\ Others(k)
BY NoTaskTyped, PutEffect DEF Drop, Others

LEMMA BeginEffect ==
  ASSUME TypeOK, NEW k \in Slots, NEW op \in Ops, NEW turn \in BOOLEAN,
         NEW project \in Projects, Begin(k, op, turn, project)
  PROVE  /\ task' \in [Slots -> Task]
         /\ task'[k] = Fresh(op, turn, project,
                             IF op = "read" THEN "reading" ELSE "sent",
                             IF op = "read" THEN Reads ELSE {})
         /\ Others(k)
         /\ left' \in 0 .. Presses /\ trusted' \in BOOLEAN
         /\ UNCHANGED <<process, shown>>
<1> DEFINE c == Fresh(op, turn, project, IF op = "read" THEN "reading" ELSE "sent",
                      IF op = "read" THEN Reads ELSE {})
<1>1. c \in Task
  BY FreshTyped DEF Stages
<1>2. Put(k, c)
  BY DEF Begin
<1>3. left' \in 0 .. Presses /\ trusted' \in BOOLEAN /\ UNCHANGED <<process, shown>>
  BY DEF Begin, TypeOK
<1> HIDE DEF c
<1> QED
  BY <1>1, <1>2, <1>3, PutEffect DEF c, Others

LEMMA SwitchEffect ==
  ASSUME TypeOK, NEW k \in Slots, NEW s \in Servers, Switch(k, s)
  PROVE  /\ task' \in [Slots -> Task] /\ server' \in [Servers -> Server]
         /\ Same(k) /\ Others(k)
         /\ task'[k].stage \in {"file", "answered"}
         /\ s = "mcp" => task'[k].stage = "answered"
         /\ task'[k].seen = [NotRead EXCEPT ![s] = State(s)']
         /\ \A r \in Servers \ {s} : server'[r] = server[r]
         /\ server'[s].thread = "coming" => server'[s].error \/ server'[s] = server[s]
<1>1. PICK after \in IF task[k].turn THEN Started(s) ELSE {Stopped(s)} :
        server' = [server EXCEPT ![s] = after]
  BY DEF Switch
<1>2. after \in Server /\ (after.thread = "coming" => after.error \/ after = server[s])
  <2>1. server[s] \in Server
    BY DEF TypeOK
  <2>2. CASE task[k].turn
    <3>1. CASE after = server[s]
      BY <2>1, <3>1
    <3>2. CASE after = [thread |-> "up", error |-> FALSE]
      BY <3>2 DEF Server
    <3>3. CASE after = [thread |-> "none", error |-> TRUE]
      BY <3>3 DEF Server
    <3>4. CASE after = [thread |-> "coming", error |-> TRUE]
      BY <3>4 DEF Server
    <3> QED
      BY <2>2, <3>1, <3>2, <3>3, <3>4 DEF Started
  <2>3. CASE ~task[k].turn
    <3>1. after = Stopped(s)
      BY <2>3
    <3> QED
      BY <2>1, <3>1 DEF Stopped, Server
  <2> QED
    BY <2>2, <2>3
<1>3. server' \in [Servers -> Server] /\ server'[s] = after
      /\ \A r \in Servers \ {s} : server'[r] = server[r]
  BY <1>1, <1>2 DEF TypeOK
<1> DEFINE up == State(s)' = "running"
           c  == [task[k] EXCEPT
                    !.stage = IF s = "demo" /\ task[k].turn /\ up THEN "file" ELSE "answered",
                    !.seen = [NotRead EXCEPT ![s] = State(s)']]
<1>4. State(s)' \in States
  BY <1>3 DEF State, States
<1>5. [NotRead EXCEPT ![s] = State(s)'] \in Shown
  <2>1. CASE s = "mcp"
    BY <1>4, <2>1, NoTaskTyped DEF Shown, NotRead
  <2>2. CASE s = "demo"
    BY <1>4, <2>2, NoTaskTyped DEF Shown, NotRead
  <2> QED
    BY <2>1, <2>2 DEF Servers
<1>6. c \in Task
  BY <1>5 DEF TypeOK, Task, Stages
<1>7. Put(k, c)
  BY DEF Switch
<1>8. /\ c.op = task[k].op /\ c.project = task[k].project /\ c.turn = task[k].turn
      /\ c.stage \in {"file", "answered"}
      /\ s = "mcp" => c.stage = "answered"
      /\ c.seen = [NotRead EXCEPT ![s] = State(s)']
  BY DEF TypeOK, Task
<1> HIDE DEF c
<1> QED
  BY <1>2, <1>3, <1>6, <1>7, <1>8, PutEffect DEF Same, Others

(* What a request does to the task it belongs to.                            *)
GoesOn(k) ==
  /\ task' \in [Slots -> Task] /\ Others(k)
  /\ task[k].stage # "none"
  /\ task'[k].op = task[k].op /\ task'[k].stage # "none"
  /\ task'[k].stage = "treed" /\ task'[k].op = "remove"
       => task'[k].copy \ {task'[k].project} # {}

LEMMA RefuseGoesOn ==
  ASSUME TypeOK, NEW k \in Slots, Refuse(k), task[k].stage # "none"
  PROVE  GoesOn(k) /\ task'[k].stage # "reading"
BY RefuseEffect DEF GoesOn

LEMMA ReadFileEffect ==
  ASSUME TypeOK, NEW k \in Slots, ReadFile(k)
  PROVE  GoesOn(k) /\ task'[k].stage # "reading"
<1> DEFINE c == [task[k] EXCEPT !.stage = "filed", !.copy = registered]
<1>1. CASE Put(k, c)
  <2>1. c \in Task /\ c.op = task[k].op /\ c.stage = "filed"
    BY DEF TypeOK, Task, Stages
  <2> HIDE DEF c
  <2> QED
    BY <1>1, <2>1, PutEffect DEF ReadFile, GoesOn, Others
<1> QED
  BY <1>1, RefuseGoesOn DEF ReadFile

LEMMA WriteFileEffect ==
  ASSUME TypeOK, NEW k \in Slots, WriteFile(k)
  PROVE  GoesOn(k) /\ task'[k].stage # "reading" /\ registered' \in SUBSET Projects
<1> DEFINE c == [task[k] EXCEPT !.copy = {}, !.stage =
                   IF task[k].op = "remove" THEN "answered" ELSE "tree"]
<1>1. task[k].copy \in SUBSET Projects /\ task[k].project \in Projects
  BY DEF TypeOK, Task
<1>2. registered' \in SUBSET Projects
  BY <1>1 DEF WriteFile, TypeOK
<1>3. CASE Put(k, c)
  <2>1. c \in Task /\ c.op = task[k].op /\ c.stage \in {"answered", "tree"}
    BY DEF TypeOK, Task, Stages
  <2> HIDE DEF c
  <2> QED
    BY <1>2, <1>3, <2>1, PutEffect DEF WriteFile, GoesOn, Others
<1> QED
  BY <1>2, <1>3, RefuseGoesOn DEF WriteFile

LEMMA ReadTreeEffect ==
  ASSUME TypeOK, LastProjectStays, NEW k \in Slots, ReadTree(k)
  PROVE  GoesOn(k) /\ task'[k].stage # "reading"
<1> DEFINE c == [task[k] EXCEPT !.stage = "treed", !.copy = open]
<1>1. task[k].stage # "none"
  BY DEF ReadTree, InTree
<1>2. CASE Put(k, c) /\ ~(task[k].op = "remove" /\ (task[k].project \notin open
                                                   \/ open = {task[k].project}))
  <2>1. c \in Task /\ c.op = task[k].op /\ c.stage = "treed"
        /\ c.copy = open /\ c.project = task[k].project
    BY DEF TypeOK, Task, Stages
  <2>2. task[k].op = "remove" => open \ {task[k].project} # {}
    BY <1>2 DEF LastProjectStays
  <2> HIDE DEF c
  <2> QED
    BY <1>1, <1>2, <2>1, <2>2, PutEffect DEF GoesOn, Others
<1> QED
  BY <1>1, <1>2, RefuseGoesOn DEF ReadTree

LEMMA WriteTreeEffect ==
  ASSUME TypeOK, LastProjectStays, CopyHasAnother, NEW k \in Slots, WriteTree(k)
  PROVE  GoesOn(k) /\ task'[k].stage # "reading" /\ open' \in SUBSET Projects /\ LastProjectStays'
<1> DEFINE c == [task[k] EXCEPT !.copy = {}, !.stage =
                   IF task[k].op = "remove" THEN "file" ELSE "answered"]
<1>1. task[k].copy \in SUBSET Projects /\ task[k].project \in Projects
  BY DEF TypeOK, Task
<1>2. open' \in SUBSET Projects /\ open' # {}
  BY <1>1 DEF WriteTree, TypeOK, CopyHasAnother, LastProjectStays
<1>3. c \in Task /\ c.op = task[k].op /\ c.stage \in {"answered", "file"}
  BY DEF TypeOK, Task, Stages
<1>4. Put(k, c) /\ task[k].stage = "treed"
  BY DEF WriteTree
<1> HIDE DEF c
<1> QED
  BY <1>2, <1>3, <1>4, PutEffect DEF GoesOn, Others, LastProjectStays

LEMMA ServeReadEffect ==
  ASSUME TypeOK, NEW k \in Slots, NEW r \in Reads, ServeRead(k, r)
  PROVE  /\ GoesOn(k)
         /\ task'[k].stage = "reading"
         /\ task'[k].waits = task[k].waits \ {r}
         /\ task'[k].seen =
              IF r = "list" THEN [task[k].seen EXCEPT !.open = open,
                                                     !.listed = open \cup registered]
              ELSE [task[k].seen EXCEPT ![r] = State(r)]
<1> DEFINE new == IF r = "list" THEN [task[k].seen EXCEPT !.open = open,
                                                        !.listed = open \cup registered]
                  ELSE [task[k].seen EXCEPT ![r] = State(r)]
           c == [task[k] EXCEPT !.waits = @ \ {r}, !.seen = new]
<1>1. task[k] \in Task /\ task[k].seen \in Shown /\ task[k].stage = "reading"
  BY DEF TypeOK, Task, ServeRead
<1>2. new \in Shown
  <2>1. CASE r = "list"
    BY <1>1, <2>1 DEF Shown, TypeOK
  <2>2. CASE r = "mcp"
    BY <1>1, <2>2, StateTyped DEF Shown, Servers
  <2>3. CASE r = "demo"
    BY <1>1, <2>3, StateTyped DEF Shown, Servers
  <2> QED
    BY <2>1, <2>2, <2>3 DEF Reads
<1>3. Put(k, c)
  BY DEF ServeRead
<1> HIDE DEF new
<1>4. c \in Task /\ c.op = task[k].op /\ c.stage = "reading"
      /\ c.waits = task[k].waits \ {r} /\ c.seen = new
  BY <1>1, <1>2 DEF Task
<1> HIDE DEF c
<1>5. task'[k] = c /\ task' \in [Slots -> Task] /\ Others(k)
  BY <1>3, <1>4, PutEffect DEF Others
<1> QED
  BY <1>1, <1>4, <1>5 DEF GoesOn, new

LEMMA ReloadEffect ==
  ASSUME TypeOK, NEW k \in Slots, AnswerAndReload(k)
  PROVE  /\ GoesOn(k) /\ shown' \in Shown
         /\ task'[k].stage = "reading" /\ task'[k].waits = Reads
<1> DEFINE c == [task[k] EXCEPT !.stage = "reading", !.seen = NotRead, !.waits = Reads]
<1>1. task[k] \in Task /\ task[k].seen \in Shown /\ task[k].stage = "answered"
  BY DEF TypeOK, Task, AnswerAndReload
<1>2. NotRead \in Shown
  BY DEF NotRead, Shown
<1>3. c \in Task /\ c.op = task[k].op /\ c.stage = "reading" /\ c.waits = Reads
  BY <1>1, <1>2 DEF Task, Stages
<1>4. Put(k, c)
  BY DEF AnswerAndReload
<1>5. shown' \in Shown
  BY <1>1 DEF AnswerAndReload, Shown, TypeOK
<1> HIDE DEF c
<1> QED
  BY <1>1, <1>3, <1>4, <1>5, PutEffect DEF GoesOn, Others

-----------------------------------------------------------------------------
(* The invariant of the controls and of the open projects.                   *)

LEMMA InitHolds == Init => LInv
<1> SUFFICES ASSUME Init PROVE LInv
  OBVIOUS
<1>1. task \in [Slots -> Task]
  BY NoTaskTyped DEF Init
<1>2. server \in [Servers -> Server]
  BY DEF Init, Server
<1>3. open \in SUBSET Projects /\ open # {} /\ registered \in SUBSET Projects
  BY DEF Init
<1>4. shown \in Shown
  BY DEF Init, NotRead, Shown
<1>5. TypeOK
  <2>1. left \in 0 .. Presses
    BY DEF Init
  <2>2. dialog \in BOOLEAN /\ busy \in BOOLEAN /\ trusted \in BOOLEAN
    BY DEF Init
  <2> QED
    BY <1>1, <1>2, <1>3, <1>4, <2>1, <2>2 DEF TypeOK
<1>6. CopyHasAnother
  BY DEF Init, CopyHasAnother, NoTask, Fresh
<1>7. BusyIsReleased
  BY DEF Init, BusyIsReleased
<1> QED
  BY <1>3, <1>5, <1>6, <1>7 DEF LInv, LastProjectStays

(* A press that begins: the controls of the dialog, and the other doors.       *)
LEMMA BeginHolds ==
  ASSUME LInv, NEW k \in Slots, NEW op \in Ops, NEW turn \in BOOLEAN,
         NEW project \in Projects, Begin(k, op, turn, project),
         dialog' \in BOOLEAN,
         busy' = busy \/ (busy' = TRUE /\ op \notin {"read", "palette"})
  PROVE  LInv'
<1>1. /\ task' \in [Slots -> Task] /\ Others(k)
      /\ left' \in 0 .. Presses /\ trusted' \in BOOLEAN
      /\ UNCHANGED <<process, shown>>
      /\ task'[k].op = op /\ task'[k].stage \in {"sent", "reading"}
  <2>1. /\ task' \in [Slots -> Task] /\ Others(k)
        /\ task'[k] = Fresh(op, turn, project,
                            IF op = "read" THEN "reading" ELSE "sent",
                            IF op = "read" THEN Reads ELSE {})
        /\ left' \in 0 .. Presses /\ trusted' \in BOOLEAN
        /\ UNCHANGED <<process, shown>>
    BY BeginEffect DEF LInv
  <2>2. task'[k].op = op /\ task'[k].stage \in {"sent", "reading"}
    BY <2>1 DEF Fresh
  <2> QED
    BY <2>1, <2>2
<1>2. TypeOK'
  BY <1>1 DEF LInv, TypeOK, process
<1>3. task'[k] # NoTask
  BY <1>1 DEF NoTask, Fresh
<1>4. Free(k)
  BY DEF Begin
<1>5. BusyIsReleased'
  BY <1>1, <1>3, <1>4 DEF LInv, BusyIsReleased, Free, Others
<1>6. CopyHasAnother' /\ LastProjectStays'
  BY <1>1 DEF LInv, CopyHasAnother, LastProjectStays, Others, process
<1> QED
  BY <1>2, <1>5, <1>6 DEF LInv

LEMMA DialogHolds ==
  ASSUME LInv, NEW k \in Slots,
         \/ ToggleMcp(k) \/ ToggleDemo(k) \/ OpenDemo(k) \/ Reload(k)
         \/ OpenDialog(k) \/ EnableDemo(k)
         \/ \E p \in Projects : Add(k, p) \/ Remove(k, p)
  PROVE  LInv'
<1>1. dialog \in BOOLEAN /\ busy \in BOOLEAN
  BY DEF LInv, TypeOK
<1>2. ASSUME NEW op \in {"mcp", "demo", "add", "remove"}, NEW turn \in BOOLEAN,
             NEW project \in Projects, Press(k, op, turn, project)
      PROVE  LInv'
  BY <1>1, <1>2, BeginHolds DEF Press, Ops
<1>3. CASE ToggleMcp(k) \/ ToggleDemo(k) \/ OpenDemo(k)
  BY <1>2, <1>3 DEF ToggleMcp, ToggleDemo, OpenDemo
<1>4. CASE Reload(k) \/ OpenDialog(k) \/ EnableDemo(k)
  BY <1>1, <1>4, BeginHolds DEF Reload, OpenDialog, EnableDemo, Ops
<1>5. ASSUME NEW p \in Projects, Add(k, p) PROVE LInv'
  BY <1>1, <1>5, BeginHolds DEF Add, Ops
<1>6. ASSUME NEW p \in Projects, Remove(k, p) PROVE LInv'
  BY <1>2, <1>6 DEF Remove
<1> QED
  BY <1>3, <1>4, <1>5, <1>6

(* A request that goes on, whatever it does to the process.                   *)
LEMMA GoesOnHolds ==
  ASSUME LInv, NEW k \in Slots, GoesOn(k),
         server' \in [Servers -> Server], open' \in SUBSET Projects,
         registered' \in SUBSET Projects, shown' \in Shown, LastProjectStays',
         UNCHANGED <<dialog, busy, left, trusted>>
  PROVE  LInv'
<1>1. TypeOK'
  BY DEF LInv, TypeOK, GoesOn
<1>2. CopyHasAnother'
  BY DEF LInv, CopyHasAnother, GoesOn, Others
<1>3. task'[k] # NoTask
  BY DEF GoesOn, NoTask, Fresh
<1>4. BusyIsReleased'
  BY <1>3 DEF LInv, BusyIsReleased, Free, GoesOn, Others
<1> QED
  BY <1>1, <1>2, <1>4 DEF LInv

LEMMA ServeHolds ==
  ASSUME LInv, NEW k \in Slots, ServeStep(k) \/ LossStep(k) \/ AnswerAndReload(k)
  PROVE  LInv'
<1>1. LInv /\ TypeOK /\ LastProjectStays /\ CopyHasAnother
  BY DEF LInv
<1>2. /\ server \in [Servers -> Server] /\ shown \in Shown
      /\ open \in SUBSET Projects /\ registered \in SUBSET Projects
  BY <1>1 DEF TypeOK
<1>3. ASSUME NEW s \in Servers, Switch(k, s) PROVE LInv'
  <2>1. /\ task' \in [Slots -> Task] /\ Others(k)
        /\ task'[k].op = task[k].op /\ task'[k].stage \in {"file", "answered"}
        /\ server' \in [Servers -> Server]
    BY <1>1, <1>3, SwitchEffect DEF Same
  <2>2. GoesOn(k)
    BY <1>3, <2>1 DEF GoesOn, Switch
  <2> QED
    BY <1>1, <1>2, <1>3, <2>1, <2>2, GoesOnHolds DEF Switch, LastProjectStays
<1>4. CASE ReadFile(k)
  BY <1>1, <1>2, <1>4, ReadFileEffect, GoesOnHolds DEF ReadFile, process, LastProjectStays
<1>5. CASE WriteFile(k)
  BY <1>1, <1>2, <1>5, WriteFileEffect, GoesOnHolds DEF WriteFile, LastProjectStays
<1>6. CASE ReadTree(k)
  BY <1>1, <1>2, <1>6, ReadTreeEffect, GoesOnHolds DEF ReadTree, process, LastProjectStays
<1>7. CASE WriteTree(k)
  BY <1>1, <1>2, <1>7, WriteTreeEffect, GoesOnHolds DEF WriteTree
<1>8. ASSUME NEW r \in Reads, ServeRead(k, r) PROVE LInv'
  BY <1>1, <1>2, <1>8, ServeReadEffect, GoesOnHolds DEF ServeRead, process, LastProjectStays
<1>9. CASE LossStep(k)
  BY <1>1, <1>2, <1>9, RefuseGoesOn, GoesOnHolds
  DEF LossStep, Lose, LoseRead, process, LastProjectStays
<1>10. CASE AnswerAndReload(k)
  BY <1>1, <1>2, <1>10, ReloadEffect, GoesOnHolds
  DEF AnswerAndReload, process, LastProjectStays
<1> QED
  BY <1>3, <1>4, <1>5, <1>6, <1>7, <1>8, <1>9, <1>10 DEF ServeStep

(* A press that is over.                                                    *)
LEMMA OverHolds ==
  ASSUME LInv, NEW k \in Slots, Over(k), shown' \in Shown, trusted' \in BOOLEAN
  PROVE  LInv'
<1>1. task' \in [Slots -> Task] /\ task'[k] = NoTask /\ Others(k)
  BY DropEffect DEF Over, LInv
<1>2. UNCHANGED <<server, open, registered, dialog, left>>
  BY DEF Over, process
<1>3. busy' = IF task[k].op \in {"read", "palette"} THEN busy ELSE FALSE
  BY DEF Over
<1>4. TypeOK'
  BY <1>1, <1>2, <1>3 DEF LInv, TypeOK
<1>5. CopyHasAnother' /\ LastProjectStays'
  BY <1>1, <1>2 DEF LInv, CopyHasAnother, LastProjectStays, Others, NoTask, Fresh
<1>6. BusyIsReleased'
  BY <1>1, <1>3 DEF LInv, BusyIsReleased, Free, Others
<1> QED
  BY <1>4, <1>5, <1>6 DEF LInv

LEMMA AnswerHolds ==
  ASSUME LInv, NEW k \in Slots,
         Fail(k) \/ AnswerMcp(k) \/ AnswerPalette(k) \/ EndReload(k)
  PROVE  LInv'
<1>1. shown \in Shown /\ trusted \in BOOLEAN /\ task[k] \in Task /\ task[k].seen \in Shown
  BY DEF LInv, TypeOK, Task
<1>2. CASE Fail(k)
  BY <1>1, <1>2, OverHolds DEF Fail
<1>3. CASE AnswerMcp(k)
  <2>1. shown' \in Shown
    BY <1>1, <1>3 DEF AnswerMcp, Shown
  <2> QED
    BY <1>1, <1>3, <2>1, OverHolds DEF AnswerMcp
<1>4. CASE AnswerPalette(k)
  BY <1>1, <1>4, OverHolds DEF AnswerPalette
<1>5. CASE EndReload(k)
  BY <1>1, <1>5, OverHolds DEF EndReload
<1> QED
  BY <1>2, <1>3, <1>4, <1>5

LEMMA StepHolds == LInv /\ [Next]_vars => LInv'
<1> SUFFICES ASSUME LInv, [Next]_vars PROVE LInv'
  OBVIOUS
<1>1. CASE DialogStep
  <2>1. CASE CloseDialog
    BY <2>1 DEF CloseDialog, LInv, TypeOK, LastProjectStays, CopyHasAnother,
                BusyIsReleased, Free, process
  <2> QED
    BY <1>1, <2>1, DialogHolds DEF DialogStep
<1>2. ASSUME NEW s \in Servers, ComeUp(s) PROVE LInv'
  <2>1. server' \in [Servers -> Server]
    BY <1>2 DEF ComeUp, LInv, TypeOK, Server
  <2> QED
    BY <1>2, <2>1 DEF ComeUp, LInv, TypeOK, LastProjectStays, CopyHasAnother,
                      BusyIsReleased, Free
<1>3. ASSUME NEW k \in Slots, ServeStep(k) \/ AnswerStep(k) \/ LossStep(k) PROVE LInv'
  BY <1>3, ServeHolds, AnswerHolds DEF AnswerStep
<1>4. CASE UNCHANGED vars
  BY <1>4 DEF vars, process, LInv, TypeOK, LastProjectStays, CopyHasAnother,
              BusyIsReleased, Free
<1> QED
  BY <1>1, <1>2, <1>3, <1>4 DEF Next

LEMMA ControlsInvariant == Spec => []LInv
BY InitHolds, StepHolds, PTL DEF Spec

-----------------------------------------------------------------------------
(* What a trusted press says.  While the last press found no other on its way,  *)
(* it is the only one that can be out; what it has read so far is as it was     *)
(* read; and the MCP switch, which is not followed by a read, found everything   *)
(* else on the screen as it is.                                             *)

Tells(v, reads) ==
  /\ "mcp" \in reads => v.mcp = State("mcp")
  /\ "demo" \in reads => v.demo = State("demo")
  /\ "list" \in reads => v.open = open /\ v.listed = open \cup registered

OneTrusted ==
  trusted => \A j, k \in Slots : ~Free(j) /\ ~Free(k) => j = k

TrustedRest == trusted /\ Quiet => Tells(shown, Reads)

TrustedSwitch ==
  trusted => \A k \in Slots : ~Free(k) /\ task[k].op = "mcp" =>
    /\ task[k].stage \in {"sent", "answered", "failed"}
    /\ task[k].stage = "sent" => Tells(shown, Reads)
    /\ task[k].stage = "answered" => /\ Tells(shown, {"demo", "list"})
                                     /\ task[k].seen.mcp = State("mcp")

TrustedRead ==
  trusted => \A k \in Slots : ~Free(k) =>
    /\ task[k].op # "palette"
    /\ task[k].stage = "reading" => Tells(task[k].seen, Reads \ task[k].waits)

TInv == ComingIsAnError /\ OneTrusted /\ TrustedRest /\ TrustedSwitch /\ TrustedRead

LEMMA TrustInit == Init => TInv
BY DEF Init, TInv, ComingIsAnError, OneTrusted, TrustedRest, TrustedSwitch, TrustedRead

LEMMA TrustBegins ==
  ASSUME TypeOK, TInv, NEW k \in Slots, NEW op \in Ops, NEW turn \in BOOLEAN,
         NEW project \in Projects, Begin(k, op, turn, project)
  PROVE  TInv'
<1>1. /\ Others(k)
      /\ task'[k] = Fresh(op, turn, project, IF op = "read" THEN "reading" ELSE "sent",
                          IF op = "read" THEN Reads ELSE {})
      /\ UNCHANGED <<process, shown>>
  BY BeginEffect
<1>2. /\ task'[k].op = op
      /\ task'[k].stage = IF op = "read" THEN "reading" ELSE "sent"
      /\ task'[k].waits = IF op = "read" THEN Reads ELSE {}
  BY <1>1 DEF Fresh
<1>3. UNCHANGED <<server, open, registered, shown>>
  BY <1>1 DEF process
<1>4. ComingIsAnError'
  BY <1>3 DEF TInv, ComingIsAnError
<1>5. CASE ~trusted'
  BY <1>4, <1>5 DEF TInv, OneTrusted, TrustedRest, TrustedSwitch, TrustedRead
<1>6. CASE trusted'
  <2>1. Alone(k) /\ op # "palette" /\ (op = "mcp" => trusted) /\ Free(k)
    BY <1>6 DEF Begin
  <2>2. Quiet
    BY <2>1 DEF Quiet, Alone
  <2>3. \A j \in Slots \ {k} : Free(j)'
    BY <1>1, <2>1 DEF Alone, Free, Others
  <2>4. ~Free(k)'
    BY <1>2 DEF Free, NoTask, Fresh
  <2>5. OneTrusted' /\ TrustedRest'
    BY <2>3, <2>4 DEF OneTrusted, TrustedRest, Quiet
  <2>6. op = "mcp" => Tells(shown, Reads)'
    BY <1>3, <2>1, <2>2 DEF TInv, TrustedRest, Tells, State
  <2>7. TrustedSwitch'
    BY <1>2, <2>3, <2>6 DEF TrustedSwitch
  <2>8. TrustedRead'
    BY <1>2, <2>1, <2>3 DEF TrustedRead, Tells
  <2> QED
    BY <1>4, <2>5, <2>7, <2>8 DEF TInv
<1> QED
  BY <1>5, <1>6

(* A request that goes on: it is the only one, and it says what it must by now. *)
LEMMA TrustGoesOn ==
  ASSUME TypeOK, TInv, NEW k \in Slots, GoesOn(k), UNCHANGED trusted,
         ComingIsAnError',
         trusted /\ task[k].op = "mcp" =>
           /\ task'[k].stage \in {"answered", "failed"}
           /\ task'[k].stage = "answered" => /\ Tells(shown, {"demo", "list"})'
                                             /\ task'[k].seen.mcp = State("mcp")',
         trusted /\ task'[k].stage = "reading"
           => Tells(task[k].seen, Reads \ task[k].waits)'
  PROVE  TInv'
<1>1. ~Free(k) /\ ~Free(k)'
  BY DEF GoesOn, Free, NoTask, Fresh
<1>2. CASE ~trusted'
  BY <1>2 DEF TInv, OneTrusted, TrustedRest, TrustedSwitch, TrustedRead
<1>3. CASE trusted'
  <2>1. \A j \in Slots \ {k} : Free(j)
    BY <1>1, <1>3 DEF TInv, OneTrusted
  <2>2. \A j \in Slots \ {k} : Free(j)'
    BY <2>1 DEF GoesOn, Others, Free
  <2>3. OneTrusted' /\ TrustedRest'
    BY <1>1, <2>2 DEF OneTrusted, TrustedRest, Quiet
  <2>4. TrustedSwitch'
    BY <1>3, <2>2 DEF TrustedSwitch, GoesOn
  <2>5. TrustedRead'
    BY <1>1, <1>3, <2>2 DEF TInv, TrustedRead, GoesOn
  <2> QED
    BY <2>3, <2>4, <2>5 DEF TInv
<1> QED
  BY <1>2, <1>3

(* A press that is over leaves nothing on its way, and the screen as it is.     *)
LEMMA TrustEnds ==
  ASSUME TypeOK, TInv, NEW k \in Slots, Over(k), ~Free(k),
         trusted' => trusted /\ Tells(shown, Reads)'
  PROVE  TInv'
<1>1. task'[k] = NoTask /\ Others(k) /\ UNCHANGED server
  BY DropEffect DEF Over, process
<1>2. ComingIsAnError'
  BY <1>1 DEF TInv, ComingIsAnError
<1>3. ASSUME trusted' PROVE \A j \in Slots : Free(j)'
  BY <1>1, <1>3 DEF TInv, OneTrusted, Free, Others
<1> QED
  BY <1>2, <1>3 DEF TInv, OneTrusted, TrustedRest, TrustedSwitch, TrustedRead

LEMMA TrustDialog ==
  ASSUME TypeOK, TInv, NEW k \in Slots,
         \/ ToggleMcp(k) \/ ToggleDemo(k) \/ OpenDemo(k) \/ Reload(k)
         \/ OpenDialog(k) \/ EnableDemo(k)
         \/ \E p \in Projects : Add(k, p) \/ Remove(k, p)
  PROVE  TInv'
<1>1. PICK op \in Ops, turn \in BOOLEAN, project \in Projects : Begin(k, op, turn, project)
  <2>1. CASE ToggleMcp(k) \/ ToggleDemo(k) \/ OpenDemo(k)
    BY <2>1 DEF ToggleMcp, ToggleDemo, OpenDemo, Press, Ops
  <2>2. CASE Reload(k) \/ OpenDialog(k) \/ EnableDemo(k)
    BY <2>2 DEF Reload, OpenDialog, EnableDemo, Ops
  <2>3. ASSUME NEW p \in Projects, Add(k, p) \/ Remove(k, p)
        PROVE  \E op \in Ops, turn \in BOOLEAN, project \in Projects :
                 Begin(k, op, turn, project)
    BY <2>3 DEF Add, Remove, Press, Ops
  <2> QED
    BY <2>1, <2>2, <2>3
<1> QED
  BY <1>1, TrustBegins

LEMMA TrustSwitches ==
  ASSUME TypeOK, TInv, NEW k \in Slots, NEW s \in Servers, Switch(k, s)
  PROVE  TInv'
<1>1. /\ task' \in [Slots -> Task] /\ Same(k) /\ Others(k)
      /\ task'[k].stage \in {"file", "answered"}
      /\ s = "mcp" => task'[k].stage = "answered"
      /\ task'[k].seen = [NotRead EXCEPT ![s] = State(s)']
      /\ \A r \in Servers \ {s} : server'[r] = server[r]
      /\ server'[s].thread = "coming" => server'[s].error \/ server'[s] = server[s]
  BY SwitchEffect
<1>2. /\ task[k].stage = "sent"
      /\ s = IF task[k].op = "mcp" THEN "mcp" ELSE "demo"
      /\ UNCHANGED <<open, registered, shown, trusted>>
  BY DEF Switch
<1>3. GoesOn(k)
  BY <1>1, <1>2 DEF GoesOn, Same
<1>4. ComingIsAnError'
  BY <1>1 DEF TInv, ComingIsAnError
<1>5. ASSUME trusted, task[k].op = "mcp"
      PROVE  /\ task'[k].stage = "answered" /\ Tells(shown, {"demo", "list"})'
             /\ task'[k].seen.mcp = State("mcp")'
  <2>1. s = "mcp"
    BY <1>2, <1>5
  <2>2. task'[k].seen.mcp = State("mcp")'
    BY <1>1, <2>1 DEF NotRead
  <2>3. server'["demo"] = server["demo"]
    BY <1>1, <2>1 DEF Servers
  <2>4. ~Free(k)
    BY <1>2 DEF Free, NoTask, Fresh
  <2>5. Tells(shown, Reads)
    BY <1>2, <1>5, <2>4 DEF TInv, TrustedSwitch
  <2>6. Tells(shown, {"demo", "list"})'
    BY <1>2, <2>3, <2>5 DEF Tells, State, Reads
  <2> QED
    BY <1>1, <2>1, <2>2, <2>6
<1>6. task'[k].stage # "reading"
  BY <1>1
<1> QED
  BY <1>2, <1>3, <1>4, <1>5, <1>6, TrustGoesOn

(* The requests that touch the registry and the tree belong to no MCP switch,   *)
(* and are followed by a read.                                              *)
LEMMA TrustFiles ==
  ASSUME TypeOK, LastProjectStays, CopyHasAnother, TInv, NEW k \in Slots,
         ReadFile(k) \/ WriteFile(k) \/ ReadTree(k) \/ WriteTree(k)
  PROVE  TInv'
<1>1. GoesOn(k)
  BY ReadFileEffect, WriteFileEffect, ReadTreeEffect, WriteTreeEffect
<1>2. UNCHANGED <<server, shown, trusted>>
  BY DEF ReadFile, WriteFile, ReadTree, WriteTree, process
<1>3. ComingIsAnError'
  BY <1>2 DEF TInv, ComingIsAnError
<1>4. ~Free(k)
  BY <1>1 DEF GoesOn, Free, NoTask, Fresh
<1>5. task[k].stage \notin {"answered", "failed"}
      /\ (task[k].stage = "sent" => task[k].op \in {"add", "remove"})
  BY DEF ReadFile, WriteFile, ReadTree, WriteTree, InTree
<1>6. trusted => task[k].op # "mcp"
  BY <1>4, <1>5 DEF TInv, TrustedSwitch
<1>7. task'[k].stage # "reading"
  BY ReadFileEffect, WriteFileEffect, ReadTreeEffect, WriteTreeEffect
<1> QED
  BY <1>1, <1>2, <1>3, <1>6, <1>7, TrustGoesOn

LEMMA TrustReads ==
  ASSUME TypeOK, TInv, NEW k \in Slots, NEW r \in Reads, ServeRead(k, r)
  PROVE  TInv'
<1>1. /\ GoesOn(k)
      /\ task'[k].waits = task[k].waits \ {r}
      /\ task'[k].seen =
           IF r = "list" THEN [task[k].seen EXCEPT !.open = open,
                                                  !.listed = open \cup registered]
           ELSE [task[k].seen EXCEPT ![r] = State(r)]
  BY ServeReadEffect
<1>2. /\ UNCHANGED <<server, open, registered, shown, trusted>>
      /\ task[k].stage = "reading"
  BY DEF ServeRead, process
<1>3. ComingIsAnError'
  BY <1>2 DEF TInv, ComingIsAnError
<1>4. ~Free(k)
  BY <1>1 DEF GoesOn, Free, NoTask, Fresh
<1>5. trusted => task[k].op # "mcp"
  BY <1>2, <1>4 DEF TInv, TrustedSwitch
<1>6. ASSUME trusted PROVE Tells(task[k].seen, Reads \ task[k].waits)'
  <2>1. Tells(task[k].seen, Reads \ task[k].waits)
    BY <1>2, <1>4, <1>6 DEF TInv, TrustedRead
  <2>2. task[k].seen \in Shown
    BY DEF TypeOK, Task
  <2>3. State("mcp")' = State("mcp") /\ State("demo")' = State("demo")
    BY <1>2 DEF State
  <2>4. CASE r = "list"
    <3>1. /\ task'[k].seen.open = open /\ task'[k].seen.listed = open \cup registered
          /\ task'[k].seen.mcp = task[k].seen.mcp /\ task'[k].seen.demo = task[k].seen.demo
      BY <1>1, <2>2, <2>4 DEF Shown
    <3> QED
      BY <1>1, <1>2, <2>1, <2>3, <2>4, <3>1 DEF Tells
  <2>5. CASE r = "mcp"
    <3>1. /\ task'[k].seen.mcp = State("mcp") /\ task'[k].seen.demo = task[k].seen.demo
          /\ task'[k].seen.open = task[k].seen.open
          /\ task'[k].seen.listed = task[k].seen.listed
      BY <1>1, <2>2, <2>5 DEF Shown
    <3> QED
      BY <1>1, <1>2, <2>1, <2>3, <2>5, <3>1 DEF Tells
  <2>6. CASE r = "demo"
    <3>1. /\ task'[k].seen.demo = State("demo") /\ task'[k].seen.mcp = task[k].seen.mcp
          /\ task'[k].seen.open = task[k].seen.open
          /\ task'[k].seen.listed = task[k].seen.listed
      BY <1>1, <2>2, <2>6 DEF Shown
    <3> QED
      BY <1>1, <1>2, <2>1, <2>3, <2>6, <3>1 DEF Tells
  <2> QED
    BY <2>4, <2>5, <2>6 DEF Reads
<1> QED
  BY <1>1, <1>2, <1>3, <1>5, <1>6, TrustGoesOn

LEMMA TrustLosses ==
  ASSUME TypeOK, TInv, NEW k \in Slots, LossStep(k)
  PROVE  TInv'
<1>1. Refuse(k) /\ task[k].stage # "none" /\ UNCHANGED <<process, shown, trusted>>
  BY DEF LossStep, Lose, LoseRead
<1>2. GoesOn(k)
  BY <1>1, RefuseGoesOn
<1>3. task'[k].stage = "failed"
  BY <1>1, RefuseEffect
<1>4. ComingIsAnError'
  BY <1>1 DEF TInv, ComingIsAnError, process
<1> QED
  BY <1>1, <1>2, <1>3, <1>4, TrustGoesOn

LEMMA TrustAnswers ==
  ASSUME TypeOK, TInv, NEW k \in Slots, AnswerStep(k)
  PROVE  TInv'
<1>1. task[k].stage # "none" => ~Free(k)
  BY DEF Free, NoTask, Fresh
<1>2. task[k].seen \in Shown /\ shown \in Shown
  BY DEF TypeOK, Task
<1>3. CASE Fail(k)
  BY <1>1, <1>3, TrustEnds DEF Fail
<1>4. CASE AnswerMcp(k)
  <2>1. UNCHANGED <<server, open, registered, trusted>> /\ ~Free(k)
    BY <1>1, <1>4 DEF AnswerMcp, Over, process
  <2>2. ASSUME trusted PROVE Tells(shown, Reads)'
    <3>1. Tells(shown, {"demo", "list"}) /\ task[k].seen.mcp = State("mcp")
      BY <1>4, <2>1, <2>2 DEF AnswerMcp, TInv, TrustedSwitch
    <3>2. /\ shown'.mcp = task[k].seen.mcp /\ shown'.demo = shown.demo
          /\ shown'.open = shown.open /\ shown'.listed = shown.listed
      BY <1>2, <1>4 DEF AnswerMcp, Shown
    <3> QED
      BY <2>1, <3>1, <3>2 DEF Tells, State
  <2> QED
    BY <1>4, <2>1, <2>2, TrustEnds DEF AnswerMcp
<1>5. CASE AnswerPalette(k)
  <2>1. ~Free(k) /\ UNCHANGED trusted
    BY <1>1, <1>5 DEF AnswerPalette
  <2>2. ~trusted
    BY <1>5, <2>1 DEF AnswerPalette, TInv, TrustedRead
  <2> QED
    BY <1>5, <2>1, <2>2, TrustEnds DEF AnswerPalette
<1>6. CASE EndReload(k)
  <2>1. UNCHANGED <<server, open, registered, trusted>> /\ ~Free(k)
    BY <1>1, <1>6 DEF EndReload, Over, process
  <2>2. ASSUME trusted PROVE Tells(shown, Reads)'
    <3>1. Tells(task[k].seen, Reads \ task[k].waits) /\ task[k].waits = {}
      BY <1>6, <2>1, <2>2 DEF EndReload, TInv, TrustedRead
    <3>2. shown' = task[k].seen
      BY <1>6 DEF EndReload
    <3> QED
      BY <2>1, <3>1, <3>2 DEF Tells, State
  <2> QED
    BY <1>6, <2>1, <2>2, TrustEnds DEF EndReload
<1>7. CASE AnswerAndReload(k)
  <2>1. GoesOn(k) /\ task'[k].stage = "reading" /\ task'[k].waits = Reads
    BY <1>7, ReloadEffect
  <2>2. task[k].op # "mcp" /\ UNCHANGED <<process, trusted>>
    BY <1>7 DEF AnswerAndReload
  <2>3. ComingIsAnError'
    BY <2>2 DEF TInv, ComingIsAnError, process
  <2>4. Tells(task[k].seen, Reads \ task[k].waits)'
    BY <2>1 DEF Tells
  <2> QED
    BY <2>1, <2>2, <2>3, <2>4, TrustGoesOn
<1> QED
  BY <1>3, <1>4, <1>5, <1>6, <1>7 DEF AnswerStep

LEMMA TrustStep == LInv /\ TInv /\ [Next]_vars => TInv'
<1> SUFFICES ASSUME LInv, TInv, [Next]_vars PROVE TInv'
  OBVIOUS
<1>1. TypeOK /\ LastProjectStays /\ CopyHasAnother
  BY DEF LInv
<1>2. ASSUME UNCHANGED <<process, shown, task, trusted>> PROVE TInv'
  BY <1>2 DEF process, TInv, ComingIsAnError, OneTrusted, TrustedRest, TrustedSwitch,
              TrustedRead, Tells, State, Quiet, Free
<1>3. CASE DialogStep
  BY <1>1, <1>2, <1>3, TrustDialog DEF DialogStep, CloseDialog
<1>4. ASSUME NEW s \in Servers, ComeUp(s) PROVE TInv'
  <2>1. UNCHANGED <<open, registered, shown, task, trusted>>
    BY <1>4 DEF ComeUp
  <2>2. /\ server[s].error /\ server'[s].error
        /\ server'[s].thread = "up"
        /\ \A r \in Servers \ {s} : server'[r] = server[r]
    BY <1>1, <1>4 DEF ComeUp, TInv, ComingIsAnError, TypeOK, Server
  <2>3. ComingIsAnError'
    BY <2>2 DEF TInv, ComingIsAnError
  <2>4. \A r \in Servers : State(r)' = State(r)
    BY <2>2 DEF State
  <2>5. State("mcp")' = State("mcp") /\ State("demo")' = State("demo")
    BY <2>4 DEF Servers
  <2> QED
    BY <2>1, <2>3, <2>5 DEF TInv, OneTrusted, TrustedRest, TrustedSwitch, TrustedRead,
                            Tells, Quiet, Free
<1>5. ASSUME NEW k \in Slots, ServeStep(k) PROVE TInv'
  BY <1>1, <1>5, TrustSwitches, TrustFiles, TrustReads DEF ServeStep
<1>6. ASSUME NEW k \in Slots, AnswerStep(k) \/ LossStep(k) PROVE TInv'
  BY <1>1, <1>6, TrustAnswers, TrustLosses
<1>7. CASE UNCHANGED vars
  BY <1>2, <1>7 DEF vars
<1> QED
  BY <1>3, <1>4, <1>5, <1>6, <1>7 DEF Next

LEMMA PanelInvariant == Spec => [](LInv /\ TInv)
<1>1. LInv /\ TInv /\ [Next]_vars => (LInv /\ TInv)'
  BY StepHolds, TrustStep
<1>2. Init => LInv /\ TInv
  BY InitHolds, TrustInit
<1> QED
  BY <1>1, <1>2, PTL DEF Spec

-----------------------------------------------------------------------------
(* The theorems.                                                            *)

(* TypeOK: the states of the two runtimes, the two lists of projects and the     *)
(* presses in flight.                                                       *)
THEOREM PanelTypeCorrect == Spec => []TypeOK
BY ControlsInvariant, PTL DEF LInv

(* LastProjectStays: whatever projects are opened and closed together,           *)
(* Workspace.remove_project never leaves the client without one.              *)
THEOREM AProjectIsOpen == Spec => []LastProjectStays
BY ControlsInvariant, PTL DEF LInv

(* While the controls of ServerDialog are disabled, a press that will enable    *)
(* them is on its way (DialogTellsTheTruth, first half).                       *)
THEOREM ControlsComeBack == Spec => []BusyIsReleased
BY ControlsInvariant, PTL DEF LInv

(* After a press that had the process to itself, a switch drawn on has a server   *)
(* up behind it and one drawn off has none: not even a thread still coming, for  *)
(* that one was given up on.  Behind an error anything may be.                 *)
THEOREM SwitchesAreHonest == Spec => []SwitchTellsTheTruth
<1>1. LInv /\ TInv => SwitchTellsTheTruth
  <2> SUFFICES ASSUME LInv, TInv, Quiet, trusted, dialog
               PROVE  /\ \A s \in Servers :
                           \/ shown[s] = "running" /\ server[s].thread = "up"
                           \/ shown[s] = "stopped" /\ server[s].thread = "none"
                           \/ shown[s] = "error" /\ server[s].error
                      /\ shown.open = open /\ shown.listed = open \cup registered
    BY DEF SwitchTellsTheTruth
  <2>1. Tells(shown, Reads)
    BY DEF TInv, TrustedRest
  <2>2. ASSUME NEW s \in Servers
        PROVE  \/ State(s) = "running" /\ server[s].thread = "up"
               \/ State(s) = "stopped" /\ server[s].thread = "none"
               \/ State(s) = "error" /\ server[s].error
    <3>1. server[s] \in Server /\ (server[s].thread = "coming" => server[s].error)
      BY DEF LInv, TypeOK, TInv, ComingIsAnError
    <3> QED
      BY <3>1 DEF State, Server
  <2>3. shown["mcp"] = State("mcp") /\ shown["demo"] = State("demo")
    BY <2>1 DEF Tells, Reads
  <2>4. shown.open = open /\ shown.listed = open \cup registered
    BY <2>1 DEF Tells, Reads
  <2>5. \A s \in Servers : shown[s] = State(s)
    BY <2>3 DEF Servers
  <2> QED
    BY <2>2, <2>4, <2>5
<1> QED
  BY <1>1, PanelInvariant, PTL

(* DialogTellsTheTruth: the controls will be enabled, and at rest no switch is    *)
(* on over a server that is down nor off over one that is up.                 *)
THEOREM DialogIsHonest == Spec => []DialogTellsTheTruth
BY ControlsComeBack, SwitchesAreHonest, PTL DEF DialogTellsTheTruth
=============================================================================
