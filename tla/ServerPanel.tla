------------------------------ MODULE ServerPanel ------------------------------
(***************************************************************************)
(* The Server dialog of heimdall-qa (ServerDialog.tsx, App.tsx) over what it   *)
(* switches: the embedded MCP server and the bundled demo (mcp/runtime.py,     *)
(* demo/runtime.py, demo/sample.py), and the projects that are open and the    *)
(* ones the registry remembers (serve/api.py, workspace.py, projects.py).     *)
(*                                                                         *)
(* Every press is a chain of requests: the write, and for most of them the     *)
(* three reads of reload.  Requests run on a pool of threads; a server's own   *)
(* start and stop run whole under its lock, while the registry file and the    *)
(* list of open projects are each read and then replaced with no lock.        *)
(***************************************************************************)
EXTENDS Integers, FiniteSets

CONSTANTS
  Projects,    (* the directories that may be opened                        *)
  Launched,    (* the one the client was launched for, open and unregistered *)
  Demo,        (* the demo's own directory                                  *)
  Slow,        (* the servers whose start may take longer than it is waited for *)
  Tasks,       (* bound: the presses in flight at once                       *)
  Presses      (* bound: the presses                                         *)

ASSUME ServerAssumption ==
  /\ Launched \in Projects /\ Demo \in Projects
  /\ Slow \subseteq {"mcp", "demo"}
  /\ Tasks \in Nat /\ Presses \in Nat

VARIABLES
  (* The process. *)
  server,      (* of each embedded server, its thread and its error          *)
  open,        (* the open projects                                         *)
  registered,  (* the registry file                                         *)
  (* The dialog. *)
  dialog,      (* open                                                      *)
  busy,        (* busy                                                      *)
  shown,       (* mcp, demo and projects                                    *)
  task,        (* the presses that are not done yet                         *)
  left,        (* the presses that are left                                  *)
  trusted      (* the last press found no other on its way and lost nothing, *)
               (* and what it did not read was read before (observed)        *)

process == <<server, open, registered>>
vars == <<process, dialog, busy, shown, task, left, trusted>>

-----------------------------------------------------------------------------
(* Values.                                                                  *)

Servers == {"mcp", "demo"}
Server  == [thread : {"none", "coming", "up"}, error : BOOLEAN]
States  == {"running", "stopped", "error"}
Unread  == "unread"
Shown   == [mcp : States \cup {Unread}, demo : States \cup {Unread},
            open : SUBSET Projects, listed : SUBSET Projects]
NotRead == [mcp |-> Unread, demo |-> Unread, open |-> {}, listed |-> {}]

Slots  == 1 .. Tasks
Ops    == {"mcp", "demo", "palette", "add", "remove", "read"}
Stages == {"none", "sent", "file", "filed", "tree", "treed", "answered",
           "failed", "reading"}
Reads  == {"mcp", "demo", "list"}

(* A press: what it asks for, how far it is, the copy its request is replacing, *)
(* what it was answered, and the reads it waits for.                         *)
Task   == [op : Ops, turn : BOOLEAN, project : Projects, stage : Stages,
           copy : SUBSET Projects, seen : Shown, waits : SUBSET Reads]
Fresh(op, turn, project, stage, waits) ==
  [op |-> op, turn |-> turn, project |-> project, stage |-> stage,
   copy |-> {}, seen |-> NotRead, waits |-> waits]
NoTask == Fresh("read", FALSE, Launched, "none", {})

Free(k)  == task[k] = NoTask
Quiet    == \A k \in Slots : Free(k)
Alone(k) == \A j \in Slots \ {k} : Free(j)

(* A seeded fault: the thread's own word, which breaks TypeOK.                *)
StateOfItsThread(s) ==
  IF server[s].error THEN "error" ELSE server[s].thread

(* state, of the runtime of either server.                                   *)
State(s) ==
  IF server[s].error THEN "error"
  ELSE IF server[s].thread = "up" THEN "running" ELSE "stopped"

Init ==
  /\ server = [s \in Servers |-> [thread |-> "none", error |-> FALSE]]
  /\ registered \in SUBSET (Projects \ {Launched})
  /\ open = registered \cup {Launched}
  /\ dialog = FALSE /\ busy = FALSE
  /\ shown = NotRead
  /\ task = [k \in Slots |-> NoTask]
  /\ left = Presses
  /\ trusted = FALSE

-----------------------------------------------------------------------------
(* The presses.                                                             *)

Put(k, changed) == task' = [task EXCEPT ![k] = changed]
Refuse(k)       == Put(k, Fresh(task[k].op, FALSE, Launched, "failed", {}))
Drop(k)         == Put(k, NoTask)

Begin(k, op, turn, project) ==
  /\ Free(k) /\ \A j \in 1 .. k - 1 : ~Free(j)
  /\ left > 0 /\ left' = left - 1
  /\ Put(k, Fresh(op, turn, project, IF op = "read" THEN "reading" ELSE "sent",
                  IF op = "read" THEN Reads ELSE {}))
  /\ trusted' = /\ Alone(k)
                /\ op \notin {"palette"}
                /\ op = "mcp" => trusted
  /\ UNCHANGED <<process, shown>>

(* What a control of the dialog starts: it is disabled while busy, and marks   *)
(* the dialog busy.                                                         *)
Press(k, op, turn, project) ==
  /\ dialog /\ ~busy
  /\ Begin(k, op, turn, project)
  /\ busy' = TRUE
  /\ UNCHANGED dialog

(* toggleMcp, toggleDemo: the switch asks for the other side of what it shows. *)
ToggleMcp(k) ==
  /\ shown.mcp # Unread
  /\ Press(k, "mcp", shown.mcp # "running", Launched)
ToggleDemo(k) ==
  /\ shown.demo # Unread
  /\ Press(k, "demo", shown.demo # "running", Demo)

(* openDemo, offered while the demo is not in the tree.                      *)
OpenDemo(k) ==
  /\ shown.demo # Unread /\ Demo \notin shown.open
  /\ Press(k, "add", TRUE, Demo)

(* remove, by the button of a listed project.                                *)
Remove(k, p) ==
  /\ p \in shown.listed
  /\ Press(k, "remove", TRUE, p)

(* add: the button is disabled while busy, and Enter in the field is not.     *)
Add(k, p) ==
  /\ dialog
  /\ Begin(k, "add", TRUE, p)
  /\ busy' = TRUE
  /\ UNCHANGED dialog

(* reload, by its button, and on every opening of the dialog.                *)
Reload(k) ==
  /\ dialog /\ ~busy
  /\ Begin(k, "read", TRUE, Launched)
  /\ UNCHANGED <<dialog, busy>>
OpenDialog(k) ==
  /\ ~dialog
  /\ dialog' = TRUE
  /\ Begin(k, "read", TRUE, Launched)
  /\ UNCHANGED busy

(* Closing stops nothing that is on its way.                                 *)
CloseDialog ==
  /\ dialog
  /\ dialog' = FALSE
  /\ UNCHANGED <<process, busy, shown, task, left, trusted>>

(* enableDemo: the command palette's door to the same request.                *)
EnableDemo(k) ==
  /\ Begin(k, "palette", TRUE, Demo)
  /\ UNCHANGED <<dialog, busy>>

-----------------------------------------------------------------------------
(* The embedded servers.                                                    *)

(* start: a live thread is left as it is; a new one binds, dies of a taken     *)
(* port, or is not up in time, and then it lives on behind the error.         *)
Started(s) ==
  IF server[s].thread # "none" THEN {server[s]}
  ELSE {[thread |-> "up", error |-> FALSE], [thread |-> "none", error |-> TRUE]}
         \cup {[thread |-> "coming", error |-> TRUE] : slow \in Slow \cap {s}}

(* stop: the thread is asked to leave and forgotten.                         *)
Stopped(s) ==
  IF server[s].thread = "none" THEN server[s] ELSE [thread |-> "none", error |-> FALSE]

(* set_mcp and set_demo.  A demo that is up goes on to be registered and drawn. *)
Switch(k, s) ==
  /\ task[k].stage = "sent"
  /\ s = IF task[k].op = "mcp" THEN "mcp" ELSE "demo"
  /\ task[k].op \in {"mcp", "demo", "palette"}
  /\ \E after \in IF task[k].turn THEN Started(s) ELSE {Stopped(s)} :
       server' = [server EXCEPT ![s] = after]
  /\ LET up == State(s)' = "running"
     IN Put(k, [task[k] EXCEPT
                  !.stage = IF s = "demo" /\ task[k].turn /\ up THEN "file" ELSE "answered",
                  !.seen = [NotRead EXCEPT ![s] = State(s)']])
  /\ UNCHANGED <<open, registered, dialog, busy, shown, left, trusted>>

(* A server that was given up on comes up after all.                         *)
ComeUp(s) ==
  /\ server[s].thread = "coming"
  /\ server' = [server EXCEPT ![s].thread = "up"]
  /\ UNCHANGED <<open, registered, dialog, busy, shown, task, left, trusted>>

-----------------------------------------------------------------------------
(* The registry file and the open projects.                                  *)

(* add and remove of the registry read the file; the gate of a registration,   *)
(* or the file itself, may refuse.                                          *)
ReadFile(k) ==
  /\ \/ task[k].stage = "file"
     \/ task[k].stage = "sent" /\ task[k].op = "add"
  /\ \/ Put(k, [task[k] EXCEPT !.stage = "filed", !.copy = registered])
     \/ Refuse(k)
  /\ UNCHANGED <<process, dialog, busy, shown, left, trusted>>

(* _write: the copy with the project, or without it, takes the file's place.   *)
(* A project that the copy does not hold is not removed from anything.        *)
WriteFile(k) ==
  LET project == task[k].project
      copy    == task[k].copy
  IN /\ task[k].stage = "filed"
     /\ \/ /\ registered' = IF task[k].op # "remove" THEN copy \cup {project}
                            ELSE IF project \in copy THEN copy \ {project}
                            ELSE registered
           /\ Put(k, [task[k] EXCEPT !.copy = {}, !.stage =
                        IF task[k].op = "remove" THEN "answered" ELSE "tree"])
        \/ Refuse(k) /\ UNCHANGED registered
     /\ UNCHANGED <<server, open, dialog, busy, shown, left, trusted>>

InTree(k) == \/ task[k].stage = "tree"
             \/ task[k].stage = "sent" /\ task[k].op = "remove"

(* A seeded fault: the last project may be closed, which breaks               *)
(* LastProjectStays.                                                        *)
ReadTreeOfAny(k) ==
  /\ InTree(k)
  /\ IF task[k].op = "remove" /\ task[k].project \notin open
       THEN Refuse(k)
       ELSE Put(k, [task[k] EXCEPT !.stage = "treed", !.copy = open])
  /\ UNCHANGED <<process, dialog, busy, shown, left, trusted>>

(* add_project and remove_project look at the open projects: one that is not   *)
(* among them cannot be closed, nor can the last one.                        *)
ReadTree(k) ==
  /\ InTree(k)
  /\ IF task[k].op = "remove" /\ (task[k].project \notin open
                                  \/ open = {task[k].project})
       THEN Refuse(k)
       ELSE Put(k, [task[k] EXCEPT !.stage = "treed", !.copy = open])
  /\ UNCHANGED <<process, dialog, busy, shown, left, trusted>>

(* They put another list in its place, unless the project was there already.   *)
WriteTree(k) ==
  LET project == task[k].project
      copy    == task[k].copy
  IN /\ task[k].stage = "treed"
     /\ open' = IF task[k].op = "remove" THEN copy \ {project}
                ELSE IF project \in copy THEN open
                ELSE copy \cup {project}
     /\ Put(k, [task[k] EXCEPT !.copy = {}, !.stage =
                  IF task[k].op = "remove" THEN "file" ELSE "answered"])
     /\ UNCHANGED <<server, registered, dialog, busy, shown, left, trusted>>

-----------------------------------------------------------------------------
(* The answers.                                                             *)

(* The network loses the request, or its answer.                             *)
Lose(k) ==
  /\ task[k].stage \in {"sent", "answered"}
  /\ Refuse(k)
  /\ UNCHANGED <<process, dialog, busy, shown, left, trusted>>

(* One of the three reads is answered.                                       *)
ServeRead(k, r) ==
  /\ task[k].stage = "reading" /\ r \in task[k].waits
  /\ LET seen == task[k].seen
     IN Put(k, [task[k] EXCEPT
                  !.waits = @ \ {r},
                  !.seen = IF r = "list"
                             THEN [seen EXCEPT !.open = open,
                                               !.listed = open \cup registered]
                             ELSE [seen EXCEPT ![r] = State(r)]])
  /\ UNCHANGED <<process, dialog, busy, shown, left, trusted>>

LoseRead(k) ==
  /\ task[k].stage = "reading"
  /\ Refuse(k)
  /\ UNCHANGED <<process, dialog, busy, shown, left, trusted>>

(* A press that is over gives the controls back, whoever took them since.      *)
Over(k) ==
  /\ Drop(k)
  /\ busy' = IF task[k].op \in {"read", "palette"} THEN busy ELSE FALSE
  /\ UNCHANGED <<process, dialog, left>>

(* A refusal, a lost request or a lost read is told in a toast.               *)
Fail(k) ==
  /\ task[k].stage = "failed"
  /\ Over(k)
  /\ trusted' = FALSE
  /\ UNCHANGED shown

(* A seeded fault: the switch is drawn as it was asked for, which breaks       *)
(* DialogTellsTheTruth.                                                     *)
AnswerMcpAsAsked(k) ==
  /\ task[k].stage = "answered" /\ task[k].op = "mcp"
  /\ shown' = [shown EXCEPT !.mcp = IF task[k].turn THEN "running" ELSE "stopped"]
  /\ Over(k)
  /\ UNCHANGED trusted

(* The answer of the MCP switch is what it shows.                            *)
AnswerMcp(k) ==
  /\ task[k].stage = "answered" /\ task[k].op = "mcp"
  /\ shown' = [shown EXCEPT !.mcp = task[k].seen.mcp]
  /\ Over(k)
  /\ UNCHANGED trusted

(* The palette's goes to the tree and not to the dialog.                      *)
AnswerPalette(k) ==
  /\ task[k].stage = "answered" /\ task[k].op = "palette"
  /\ Over(k)
  /\ UNCHANGED <<shown, trusted>>

(* Every other one is followed by a reload.                                  *)
AnswerAndReload(k) ==
  /\ task[k].stage = "answered" /\ task[k].op \in {"demo", "add", "remove"}
  /\ shown' = IF task[k].op = "demo" THEN [shown EXCEPT !.demo = task[k].seen.demo]
              ELSE shown
  /\ Put(k, [task[k] EXCEPT !.stage = "reading", !.seen = NotRead, !.waits = Reads])
  /\ UNCHANGED <<process, dialog, busy, left, trusted>>

(* reload draws the three reads together.                                    *)
EndReload(k) ==
  /\ task[k].stage = "reading" /\ task[k].waits = {}
  /\ shown' = task[k].seen
  /\ Over(k)
  /\ UNCHANGED trusted

-----------------------------------------------------------------------------
DialogStep == CloseDialog \/ \E k \in Slots :
  \/ ToggleMcp(k) \/ ToggleDemo(k) \/ OpenDemo(k) \/ Reload(k)
  \/ OpenDialog(k) \/ EnableDemo(k)
  \/ \E p \in Projects : Add(k, p) \/ Remove(k, p)
ServeStep(k) ==
  \/ \E s \in Servers : Switch(k, s)
  \/ ReadFile(k) \/ WriteFile(k) \/ ReadTree(k) \/ WriteTree(k)
  \/ \E r \in Reads : ServeRead(k, r)
AnswerStep(k) == \/ Fail(k) \/ AnswerMcp(k) \/ AnswerPalette(k)
                 \/ AnswerAndReload(k) \/ EndReload(k)
LossStep(k) == Lose(k) \/ LoseRead(k)

Next == \/ DialogStep
        \/ \E s \in Servers : ComeUp(s)
        \/ \E k \in Slots : ServeStep(k) \/ AnswerStep(k) \/ LossStep(k)
Spec == Init /\ [][Next]_vars

-----------------------------------------------------------------------------
(* Properties.                                                              *)

TypeOK ==
  /\ server \in [Servers -> Server]
  /\ open \in SUBSET Projects /\ registered \in SUBSET Projects
  /\ dialog \in BOOLEAN /\ busy \in BOOLEAN
  /\ shown \in Shown
  /\ task \in [Slots -> Task]
  /\ left \in 0 .. Presses
  /\ trusted \in BOOLEAN

(* "A client with no project has no tree, no editor and no round to run"       *)
(* (workspace.py:203), not even when two presses close two projects at once.   *)
LastProjectStays == open # {}

(* "It reflects the server's state" (ServerDialog.tsx:397): once the last press *)
(* is over, and if it had the process to itself, a switch that is drawn on has *)
(* a server listening behind it, one drawn off has no thread, one drawn in     *)
(* error had a start that failed, and the projects are the ones there are.     *)
(* Of an error it says no more: a server that was given up on and came up      *)
(* after all listens behind it (state, of the runtimes, asks the error first). *)
SwitchTellsTheTruth ==
  Quiet /\ trusted /\ dialog =>
    /\ \A s \in Servers :
         \/ shown[s] = "running" /\ server[s].thread = "up"
         \/ shown[s] = "stopped" /\ server[s].thread = "none"
         \/ shown[s] = "error" /\ server[s].error
    /\ shown.open = open /\ shown.listed = open \cup registered

(* finally: the controls never stay disabled with nothing left to enable them,  *)
(* whichever press was refused and whichever of two ends first.               *)
BusyIsReleased ==
  busy => \E k \in Slots : ~Free(k) /\ task[k].op \notin {"read", "palette"}

(* A dialog that is disabled will be enabled, and one at rest tells the truth.  *)
DialogTellsTheTruth == BusyIsReleased /\ SwitchTellsTheTruth
=============================================================================
