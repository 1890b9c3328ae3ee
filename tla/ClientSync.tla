------------------------------ MODULE ClientSync -------------------------------
(***************************************************************************)
(* How the desktop client of heimdall-qa keeps its screen in step with the   *)
(* server: the reads and writes of useHarness.ts, the event stream of sse.ts *)
(* and the generator that feeds it (serve/api.py).                          *)
(*                                                                         *)
(* A screen is a photograph of the server: how often the engine's revision    *)
(* moved and how many writes were performed by then.  One action is one turn  *)
(* of the client's event loop, or one thing the server or the network does    *)
(* between two turns; answers land in any order.                            *)
(***************************************************************************)
EXTENDS Integers, Sequences

CONSTANTS
  Writes,      (* the writes a reviewer may send                            *)
  Delays,      (* Len(RECONNECT_DELAYS_MS)                                  *)
  MaxMoves,    (* bound: how often the engine's revision moves              *)
  MaxBreaks    (* bound: streams that break or are reopened by hand         *)

ASSUME ClientAssumption ==
  /\ Delays \in Nat
  /\ MaxMoves \in Nat
  /\ MaxBreaks \in Nat

VARIABLES
  server,      (* the server's state                                        *)
  (* The stream. *)
  stream,      (* connecting, up, or lost                                   *)
  cursor,      (* revision of event_frames: the last one it woke for         *)
  due,         (* event_frames has a frame to send                          *)
  wire,        (* the revisions of the frames on their way                  *)
  connected,   (* this stream was connected once                            *)
  attempt,     (* failed attempts since it was                              *)
  breaks,      (* breaks so far                                             *)
  (* The refs and the state of useHarness. *)
  latest,      (* latest: the revision of the last frame, or None            *)
  refreshing,  (* refreshing                                                *)
  again,       (* refreshAgain                                              *)
  epoch,       (* mutationEpoch                                             *)
  issued,      (* issued                                                    *)
  applied,     (* applied                                                   *)
  live,        (* live                                                      *)
  screen,      (* bootstrap                                                 *)
  (* What is in flight. *)
  read,        (* the read of refresh                                       *)
  write,       (* each write                                                *)
  spoke        (* who spoke last: none, read, write, or failed               *)

streamVars == <<stream, cursor, due, wire, connected, attempt, breaks>>
refs == <<epoch, issued, applied>>
vars == <<server, streamVars, latest, refreshing, again, refs, live, screen,
          read, write, spoke>>

-----------------------------------------------------------------------------
(* Values.                                                                  *)

None    == -1
Photo   == [rev : Nat, acts : Nat]
Nothing == [rev |-> 0, acts |-> 0]

Read   == [stage : {"none", "sent", "answered", "failed"},
           epoch : Nat, mine : Nat, photo : Photo]
Write  == [stage : {"unsent", "sent", "done", "answered", "failed", "landed"},
           photo : Photo]
NoRead == [stage |-> "none", epoch |-> 0, mine |-> 0, photo |-> Nothing]

Sent(e, n) == [stage |-> "sent", epoch |-> e, mine |-> n, photo |-> Nothing]

(* A seeded fault, see below: a request that finds a read in flight is        *)
(* dropped, which breaks BurstIsServed.                                     *)
RefreshDropped ==
  IF refreshing
    THEN UNCHANGED <<again, refreshing, read, issued>>
    ELSE /\ refreshing' = TRUE
         /\ again' = FALSE
         /\ issued' = issued + 1
         /\ read' = Sent(epoch, issued + 1)

(* refresh: one read at a time; a request that finds one in flight is served  *)
(* by another when that one landed.                                         *)
Refresh ==
  IF refreshing
    THEN again' = TRUE /\ UNCHANGED <<refreshing, read, issued>>
    ELSE /\ refreshing' = TRUE
         /\ again' = FALSE
         /\ issued' = issued + 1
         /\ read' = Sent(epoch, issued + 1)

NoRefresh == UNCHANGED <<refreshing, again, read, issued>>

-----------------------------------------------------------------------------
(* The client has mounted: the first read is out and the stream is opening.   *)
Init ==
  /\ server = Nothing
  /\ stream = "connecting"
  /\ cursor = 0 /\ due = FALSE /\ wire = <<>>
  /\ connected = FALSE /\ attempt = 0 /\ breaks = 0
  /\ latest = None
  /\ refreshing = TRUE /\ again = FALSE
  /\ epoch = 0 /\ issued = 1 /\ applied = 0
  /\ live = FALSE
  /\ screen = Nothing
  /\ read = Sent(0, 1)
  /\ write = [w \in Writes |-> [stage |-> "unsent", photo |-> Nothing]]
  /\ spoke = "none"

-----------------------------------------------------------------------------
(* Seeded faults.  Each stands for a plausible slip in the operator it is     *)
(* named after; put in its place, it breaks the property named beside it.    *)

(* TypeOK: the stream is retried once too often.                            *)
FallTooLate ==
  /\ due' = FALSE
  /\ wire' = <<>>
  /\ attempt' = attempt + 1
  /\ IF attempt > Delays
       THEN stream' = "lost" /\ live' = FALSE
       ELSE stream' = "connecting" /\ UNCHANGED live

(* ReadsMoveForward: whatever lands is shown.                               *)
FreshAlways == TRUE

(* ChangesReachTheClient and ChangeIsUnderWay: a stream that is opened sends   *)
(* nothing at first.                                                        *)
ConnectSilently ==
  /\ stream = "connecting"
  /\ stream' = "up"
  /\ cursor' = server.rev
  /\ due' = FALSE
  /\ wire' = <<>>
  /\ attempt' = 0
  /\ connected' = TRUE
  /\ IF connected THEN Refresh ELSE NoRefresh
  /\ UNCHANGED <<server, breaks, latest, epoch, applied, live, screen, write, spoke>>

(* RefreshEnds: a read that failed leaves refreshing set.                    *)
ReadFailedStays ==
  /\ read.stage = "failed"
  /\ spoke' = "failed"
  /\ read' = NoRead
  /\ UNCHANGED <<server, streamVars, latest, refreshing, again, refs, live, screen,
                 write>>

-----------------------------------------------------------------------------
(* The server.                                                              *)

(* The worker, or another window, moves the engine's revision.               *)
Move ==
  /\ server.rev < MaxMoves
  /\ server' = [server EXCEPT !.rev = @ + 1]
  /\ UNCHANGED <<streamVars, latest, refreshing, again, refs, live, screen, read,
                 write, spoke>>

(* _read: the screen, as it is when it is asked for.                         *)
AnswerRead ==
  /\ read.stage = "sent"
  /\ read' = [read EXCEPT !.stage = "answered", !.photo = server]
  /\ UNCHANGED <<server, streamVars, latest, refreshing, again, refs, live, screen,
                 write, spoke>>

FailRead ==
  /\ read.stage = "sent"
  /\ read' = [read EXCEPT !.stage = "failed"]
  /\ UNCHANGED <<server, streamVars, latest, refreshing, again, refs, live, screen,
                 write, spoke>>

(* _mutate: the call is performed, and may move the revision ...             *)
PerformWrite(w) ==
  /\ write[w].stage = "sent"
  /\ write' = [write EXCEPT ![w].stage = "done"]
  /\ \E moved \in {0, 1} :
       /\ server.rev + moved <= MaxMoves
       /\ server' = [rev |-> server.rev + moved, acts |-> server.acts + 1]
  /\ UNCHANGED <<streamVars, latest, refreshing, again, refs, live, screen, read,
                 spoke>>

(* ... or refused, or its answer lost on the way ...                         *)
RefuseWrite(w) ==
  /\ write[w].stage \in {"sent", "done"}
  /\ write' = [write EXCEPT ![w].stage = "failed"]
  /\ UNCHANGED <<server, streamVars, latest, refreshing, again, refs, live, screen,
                 read, spoke>>

(* ... and then the screen is read for the answer.                          *)
AnswerWrite(w) ==
  /\ write[w].stage = "done"
  /\ write' = [write EXCEPT ![w].stage = "answered", ![w].photo = server]
  /\ UNCHANGED <<server, streamVars, latest, refreshing, again, refs, live, screen,
                 read, spoke>>

-----------------------------------------------------------------------------
(* The stream.                                                              *)

(* openStream's connection is accepted: event_frames notes the revision and  *)
(* owes a first frame, and a client that was connected before re-reads.      *)
Connect ==
  /\ stream = "connecting"
  /\ stream' = "up"
  /\ cursor' = server.rev
  /\ due' = TRUE
  /\ wire' = <<>>
  /\ attempt' = 0
  /\ connected' = TRUE
  /\ IF connected THEN Refresh ELSE NoRefresh
  /\ UNCHANGED <<server, breaks, latest, epoch, applied, live, screen, write, spoke>>

(* event_frames: wait_change returns ...                                    *)
StreamWake ==
  /\ stream = "up"
  /\ ~due
  /\ cursor # server.rev
  /\ cursor' = server.rev
  /\ due' = TRUE
  /\ UNCHANGED <<server, stream, wire, connected, attempt, breaks, latest,
                 refreshing, again, refs, live, screen, read, write, spoke>>

(* ... and the frame carries what the engine says by then.                   *)
StreamSend ==
  /\ stream = "up"
  /\ due
  /\ due' = FALSE
  /\ wire' = Append(wire, server.rev)
  /\ UNCHANGED <<server, stream, cursor, connected, attempt, breaks, latest,
                 refreshing, again, refs, live, screen, read, write, spoke>>

(* The catch of connect: frames on their way are gone; another attempt after *)
(* a delay, until there are no delays left.                                 *)
Fall ==
  /\ due' = FALSE
  /\ wire' = <<>>
  /\ attempt' = attempt + 1
  /\ IF attempt + 1 > Delays
       THEN stream' = "lost" /\ live' = FALSE
       ELSE stream' = "connecting" /\ UNCHANGED live

Break ==
  /\ stream = "up"
  /\ breaks < MaxBreaks
  /\ breaks' = breaks + 1
  /\ Fall
  /\ UNCHANGED <<server, cursor, connected, latest, refreshing, again, refs, screen,
                 read, write, spoke>>

ConnectFails ==
  /\ stream = "connecting"
  /\ Fall
  /\ UNCHANGED <<server, cursor, connected, breaks, latest, refreshing, again, refs,
                 screen, read, write, spoke>>

-----------------------------------------------------------------------------
(* The client.                                                              *)

(* onState: a frame means re-read the screen, unless it repeats the last.    *)
FrameLands ==
  /\ wire # <<>>
  /\ wire' = Tail(wire)
  /\ live' = TRUE
  /\ latest' = Head(wire)
  /\ IF latest = Head(wire) THEN NoRefresh ELSE Refresh
  /\ UNCHANGED <<server, stream, cursor, due, connected, attempt, breaks, epoch,
                 applied, screen, write, spoke>>

(* The end of a turn of refresh's loop: once more, or done.                  *)
NextTurn ==
  IF again
    THEN /\ again' = FALSE
         /\ issued' = issued + 1
         /\ read' = Sent(epoch, issued + 1)
         /\ UNCHANGED <<refreshing, live>>
    ELSE /\ refreshing' = FALSE
         /\ live' = TRUE
         /\ read' = NoRead
         /\ UNCHANGED <<again, issued>>

(* A read that a write's answer overtook is dropped, and so is one that a     *)
(* later read overtook.                                                     *)
Fresh ==
  /\ read.epoch = epoch
  /\ read.mine >= applied

ReadLands ==
  /\ read.stage = "answered"
  /\ IF Fresh
       THEN applied' = read.mine /\ screen' = read.photo /\ spoke' = "read"
       ELSE UNCHANGED <<applied, screen, spoke>>
  /\ NextTurn
  /\ UNCHANGED <<server, streamVars, latest, epoch, write>>

(* A read that failed says so and is not tried again.                        *)
ReadFailed ==
  /\ read.stage = "failed"
  /\ spoke' = "failed"
  /\ NextTurn
  /\ UNCHANGED <<server, streamVars, latest, epoch, applied, screen, write>>

(* act: nothing keeps a second write from being sent while one is out.        *)
SendWrite(w) ==
  /\ write[w].stage = "unsent"
  /\ write' = [write EXCEPT ![w].stage = "sent"]
  /\ UNCHANGED <<server, streamVars, latest, refreshing, again, refs, live, screen,
                 read, spoke>>

(* A write's answer is applied, and what was already in flight invalidated.  *)
WriteLands(w) ==
  /\ write[w].stage = "answered"
  /\ write' = [write EXCEPT ![w].stage = "landed"]
  /\ epoch' = epoch + 1
  /\ issued' = issued + 1
  /\ applied' = issued + 1
  /\ screen' = write[w].photo
  /\ spoke' = "write"
  /\ UNCHANGED <<server, streamVars, latest, refreshing, again, live, read>>

(* reconnect: a new stream, and a read that does not wait for it.            *)
Reconnect ==
  /\ breaks < MaxBreaks
  /\ breaks' = breaks + 1
  /\ stream' = "connecting"
  /\ connected' = FALSE
  /\ attempt' = 0
  /\ due' = FALSE
  /\ wire' = <<>>
  /\ Refresh
  /\ UNCHANGED <<server, cursor, latest, epoch, applied, live, screen, write, spoke>>

-----------------------------------------------------------------------------
ServerStep ==
  \/ AnswerRead \/ FailRead
  \/ \E w \in Writes : PerformWrite(w) \/ RefuseWrite(w) \/ AnswerWrite(w)

StreamStep == Connect \/ StreamWake \/ StreamSend \/ ConnectFails
ClientStep == FrameLands \/ ReadLands \/ ReadFailed \/ \E w \in Writes : WriteLands(w)
Reviewer   == Reconnect \/ \E w \in Writes : SendWrite(w)

Next == ServerStep \/ StreamStep \/ ClientStep \/ Reviewer \/ Move \/ Break

Spec == Init /\ [][Next]_vars

(* The server answers, the stream works or breaks, the event loop turns.     *)
FairSpec ==
  /\ Spec
  /\ WF_vars(ServerStep) /\ WF_vars(ClientStep)
  /\ WF_vars(Connect \/ ConnectFails) /\ WF_vars(StreamWake \/ StreamSend)
  /\ WF_vars(FrameLands)
-----------------------------------------------------------------------------
(* What the client promises.                                                *)

StreamType ==
  /\ stream \in {"connecting", "up", "lost"}
  /\ cursor \in Nat /\ due \in BOOLEAN /\ connected \in BOOLEAN
  /\ wire \in Seq(Nat)
  /\ attempt \in 0 .. Delays + 1
  /\ stream = "connecting" => attempt <= Delays
  /\ stream = "up" => attempt = 0
  /\ breaks \in 0 .. MaxBreaks

ScreenType ==
  /\ latest \in Nat \cup {None}
  /\ refreshing \in BOOLEAN /\ again \in BOOLEAN /\ live \in BOOLEAN
  /\ epoch \in Nat /\ issued \in Nat /\ applied \in 0 .. issued
  /\ spoke \in {"none", "read", "write", "failed"}

FlightType ==
  /\ server \in Photo /\ screen \in Photo
  /\ read \in Read
  /\ write \in [Writes -> Write]

(* Every variable stays in its range; in particular a stream gives up after   *)
(* as many attempts as there are delays.                                    *)
TypeOK == StreamType /\ ScreenType /\ FlightType

(* "keeps the row a click opened when an older read lands after the answer"   *)
(* (useHarness.test.tsx): a read never takes the screen back, neither behind  *)
(* a write that was shown nor behind an earlier read.                       *)
ReadsMoveForward ==
  [][screen' # screen /\ UNCHANGED write =>
       screen'.rev >= screen.rev /\ screen'.acts >= screen.acts]_vars

(* Nothing is on its way that could still move the screen.                   *)
Quiet ==
  /\ stream = "up" /\ ~due /\ wire = <<>> /\ cursor = server.rev
  /\ ~refreshing
  /\ \A w \in Writes : write[w].stage \in {"unsent", "failed", "landed"}

(* "serves the last frame of a burst, not the first" (useHarness.test.tsx):   *)
(* when everything has come to rest and a read spoke last, the screen is at   *)
(* the engine's revision, whatever was coalesced, skipped or lost.           *)
BurstIsServed == Quiet /\ spoke = "read" => screen.rev = server.rev

(* engine.py:184, a change a wait missed is "late, never lost": each move of  *)
(* the revision reaches the client in a frame, unless the stream is given up. *)
ChangesReachTheClient ==
  \A r \in 1 .. MaxMoves : (server.rev = r) ~> (latest >= r \/ stream = "lost")

(* What that rests on: while the stream is up, a revision the client has not   *)
(* seen is one event_frames has yet to wake for, a frame it owes, or the last  *)
(* frame on its way.  The revision noted when a stream is opened, or a frame    *)
(* swallowed where two moves share a wake, would leave it none of these.       *)
ChangeIsUnderWay ==
  stream = "up" /\ latest # server.rev =>
    \/ due
    \/ cursor # server.rev
    \/ wire # <<>> /\ wire[Len(wire)] = server.rev

(* Once the engine rests (an instance moves it finitely often), the loop of   *)
(* refresh comes to its end and lets a later request out.                    *)
RefreshEnds == refreshing ~> ~refreshing

(* What that rests on: refreshing is set exactly while a read is out, so the   *)
(* latch never shuts later requests out behind a read that is gone, and a     *)
(* request that was put off waits for a read that will come back.             *)
RequestsAreHeld ==
  /\ refreshing <=> read.stage # "none"
  /\ again => refreshing

-----------------------------------------------------------------------------
(* What comments of the client say and the code does not keep.               *)

(* useHarness.ts:97-98, "Coalescing instead means the last request of a burst *)
(* is always served": when everything has come to rest and no read failed,    *)
(* the screen is at the engine's revision.                                   *)
ScreenCatchesUp == Quiet /\ spoke # "failed" => screen.rev = server.rev
=============================================================================
