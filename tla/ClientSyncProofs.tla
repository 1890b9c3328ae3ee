---------------------------- MODULE ClientSyncProofs ----------------------------
(***************************************************************************)
(* Theorems about ClientSync, for every set of writes, every schedule of      *)
(* delays and every number of moves and breaks.                             *)
(***************************************************************************)
EXTENDS ClientSync, SequenceTheorems, TLAPS

Older(p, q) == p.rev <= q.rev /\ p.acts <= q.acts

(* One read at a time, and it took the last number but those of writes.      *)
OneRead ==
  /\ refreshing <=> read.stage # "none"
  /\ read.stage # "none" => /\ read.epoch <= epoch
                            /\ read.epoch = epoch => applied <= read.mine
                            /\ read.mine <= issued

(* No frame and no photograph is ahead of the server.                        *)
FramesBehind ==
  /\ cursor <= server.rev
  /\ latest <= server.rev
  /\ \A i \in 1 .. Len(wire) : wire[i] <= server.rev

PhotosBehind ==
  /\ Older(screen, server)
  /\ Older(read.photo, server)
  /\ \A w \in Writes : Older(write[w].photo, server)

(* A read that will be shown is not behind what is.                          *)
ReadIsNewer ==
  read.stage = "answered" /\ read.epoch = epoch => Older(screen, read.photo)

(* A read that came back knows the last frame, or another is asked for.       *)
ReadKnowsFrame == read.stage = "answered" => latest <= read.photo.rev \/ again

(* A read is overtaken only by a write, which then spoke last ...            *)
Overtaken == refreshing /\ read.epoch # epoch => spoke = "write"

(* ... and so, where a read spoke last, the screen knows the last frame.      *)
ScreenKnowsFrame == spoke = "read" => refreshing \/ latest <= screen.rev

(* The last frame sent carries what the generator woke for.                  *)
LastFrame == IF wire = <<>> THEN latest ELSE wire[Len(wire)]
FramesCover == stream = "up" /\ ~due => cursor <= LastFrame

CInv ==
  /\ TypeOK
  /\ OneRead
  /\ FramesBehind
  /\ PhotosBehind
  /\ ReadIsNewer
  /\ ReadKnowsFrame
  /\ Overtaken
  /\ ScreenKnowsFrame
  /\ FramesCover

(* Sequences: a frame taken from the front, and one put at the end.          *)
LEMMA TailLast ==
  ASSUME NEW s \in Seq(Nat), s # <<>>
  PROVE  /\ Tail(s) \in Seq(Nat)
         /\ Head(s) \in Nat
         /\ Head(s) = s[1]
         /\ \A i \in 1 .. Len(Tail(s)) : i + 1 \in 1 .. Len(s) /\ Tail(s)[i] = s[i + 1]
         /\ Tail(s) = <<>> => Head(s) = s[Len(s)]
         /\ Tail(s) # <<>> => Tail(s)[Len(Tail(s))] = s[Len(s)]
<1>1. Len(s) \in Nat \ {0} /\ Len(Tail(s)) = Len(s) - 1 /\ Tail(s) \in Seq(Nat)
  BY HeadTailProperties, EmptySeq
<1>2. Tail(s) = <<>> => Len(Tail(s)) = 0
  BY EmptySeq
<1>3. Tail(s) # <<>> => Len(Tail(s)) \in Nat \ {0}
  BY <1>1, EmptySeq
<1>4. \A i \in 1 .. Len(Tail(s)) : Tail(s)[i] = s[i + 1]
  BY HeadTailProperties
<1>5. Head(s) \in Nat /\ Head(s) = s[1]
  BY HeadTailProperties
<1> QED
  BY <1>1, <1>2, <1>3, <1>4, <1>5

LEMMA AppendLast ==
  ASSUME NEW s \in Seq(Nat), NEW n \in Nat
  PROVE  /\ Append(s, n) \in Seq(Nat)
         /\ Append(s, n) # <<>>
         /\ Append(s, n)[Len(Append(s, n))] = n
         /\ \A i \in 1 .. Len(Append(s, n)) :
              Append(s, n)[i] = n \/ (i \in 1 .. Len(s) /\ Append(s, n)[i] = s[i])
  OBVIOUS

(* What Refresh and the end of a turn of its loop do to the read.            *)
LEMMA RefreshEffect ==
  ASSUME ScreenType, FlightType, Refresh
  PROVE  /\ refreshing' /\ refreshing' \in BOOLEAN /\ again' \in BOOLEAN
         /\ issued' \in Nat /\ issued <= issued'
         /\ read' \in Read
         /\ refreshing => read' = read /\ again'
         /\ ~refreshing => /\ read'.stage = "sent" /\ read'.epoch = epoch
                           /\ read'.mine = issued' /\ issued < issued'
                           /\ read'.photo = Nothing
<1> USE DEF ScreenType, FlightType, Read, Photo, Nothing, Refresh, Sent
<1>1. CASE refreshing
  BY <1>1
<1>2. CASE ~refreshing
  <2>1. refreshing' = TRUE /\ again' = FALSE /\ issued' = issued + 1
    BY <1>2
  <2>2. read' = [stage |-> "sent", epoch |-> epoch, mine |-> issued + 1, photo |-> Nothing]
    BY <1>2
  <2>3. /\ read'.stage = "sent" /\ read'.epoch = epoch /\ read'.mine = issued + 1
        /\ read'.photo = Nothing
    BY <2>2
  <2>4. read' \in Read
    BY <2>2
  <2>5. issued' \in Nat /\ issued <= issued' /\ issued < issued' /\ read'.mine = issued'
    BY <2>1, <2>3
  <2> HIDE DEF ScreenType, FlightType, Read, Photo, Nothing, Refresh, Sent
  <2> QED
    BY <1>2, <2>1, <2>3, <2>4, <2>5, Zenon
<1> QED
  BY <1>1, <1>2

LEMMA NextTurnEffect ==
  ASSUME ScreenType, FlightType, NextTurn
  PROVE  /\ refreshing' \in BOOLEAN /\ again' \in BOOLEAN /\ live' \in BOOLEAN
         /\ issued' \in Nat /\ issued <= issued'
         /\ read' \in Read /\ read'.stage # "answered" /\ read'.photo = Nothing
         /\ again => /\ refreshing' = refreshing
                     /\ read'.stage = "sent" /\ read'.epoch = epoch
                     /\ read'.mine = issued' /\ issued < issued'
         /\ ~again => ~refreshing' /\ read'.stage = "none" /\ ~again'
<1> USE DEF ScreenType, FlightType, Read, Photo, Nothing, NextTurn, Sent, NoRead
<1>1. CASE again
  <2>1. /\ again' = FALSE /\ refreshing' = refreshing /\ live' = live
        /\ issued' = issued + 1
    BY <1>1
  <2>2. read' = [stage |-> "sent", epoch |-> epoch, mine |-> issued + 1, photo |-> Nothing]
    BY <1>1
  <2>3. /\ read'.stage = "sent" /\ read'.epoch = epoch /\ read'.mine = issued + 1
        /\ read'.photo = Nothing
    BY <2>2
  <2>4. read' \in Read
    BY <2>2
  <2>5. issued' \in Nat /\ issued <= issued' /\ issued < issued' /\ read'.mine = issued'
    BY <2>1, <2>3
  <2>6. refreshing' \in BOOLEAN /\ again' \in BOOLEAN /\ live' \in BOOLEAN
    BY <2>1
  <2>7. read'.stage # "answered"
    BY <2>3
  <2> HIDE DEF ScreenType, FlightType, Read, Photo, Nothing, NextTurn, Sent, NoRead
  <2> QED
    BY <1>1, <2>1, <2>3, <2>4, <2>5, <2>6, <2>7, Zenon
<1>2. CASE ~again
  <2>1. /\ refreshing' = FALSE /\ live' = TRUE /\ again' = again /\ issued' = issued
    BY <1>2
  <2>2. read' = [stage |-> "none", epoch |-> 0, mine |-> 0, photo |-> Nothing]
    BY <1>2
  <2>3. read'.stage = "none" /\ read'.photo = Nothing
    BY <2>2
  <2>4. read' \in Read
    BY <2>2
  <2>5. issued' \in Nat /\ issued <= issued'
    BY <2>1, <2>3
  <2>6. refreshing' \in BOOLEAN /\ again' \in BOOLEAN /\ live' \in BOOLEAN
    BY <2>1
  <2>7. read'.stage # "answered"
    BY <2>3
  <2> HIDE DEF ScreenType, FlightType, Read, Photo, Nothing, NextTurn, Sent, NoRead
  <2> QED
    BY <1>2, <2>1, <2>3, <2>4, <2>5, <2>6, <2>7, Zenon
<1> QED
  BY <1>1, <1>2

(* The invariant holds at first and each action keeps it: under each, a step   *)
(* per conjunct the action can disturb, and one for all it leaves alone.        *)
LEMMA InitInv == Init => CInv
<1> SUFFICES ASSUME Init
             PROVE  CInv
  OBVIOUS
<1> USE ClientAssumption DEF Init, Nothing, None, NoRead, Sent
<1>1. StreamType
  <2>1. <<>> \in Seq(Nat)
    BY EmptySeq
  <2>2. 0 \in 0 .. Delays + 1 /\ 0 <= Delays /\ 0 \in 0 .. MaxBreaks
    OBVIOUS
  <2> QED
    BY <2>1, <2>2 DEF StreamType
<1>2. ScreenType
  <2>1. latest = None /\ epoch = 0 /\ issued = 1 /\ applied = 0 /\ spoke = "none"
    OBVIOUS
  <2>2. refreshing \in BOOLEAN /\ again \in BOOLEAN /\ live \in BOOLEAN
    OBVIOUS
  <2> QED
    BY <2>1, <2>2 DEF ScreenType
<1>3. FlightType
  BY DEF FlightType, Photo, Read, Write
<1>4. OneRead /\ ReadIsNewer /\ ReadKnowsFrame /\ Overtaken /\ ScreenKnowsFrame /\ FramesCover
  BY DEF OneRead, ReadIsNewer, ReadKnowsFrame, Overtaken, ScreenKnowsFrame, FramesCover
<1>5. FramesBehind
  BY EmptySeq DEF FramesBehind
<1>6. PhotosBehind
  BY DEF PhotosBehind, Older
<1> QED
  BY <1>1, <1>2, <1>3, <1>4, <1>5, <1>6 DEF CInv, TypeOK

LEMMA MoveInv ==
  ASSUME CInv, Move
  PROVE  CInv'
<1> USE ClientAssumption DEF CInv, TypeOK, Photo, Read, Write, Nothing, None, Older,
       streamVars, refs
<1>1. FlightType'
  BY DEF FlightType, Move
<1>2. FramesBehind'
  <2>1. server.rev \in Nat /\ server'.rev \in Nat /\ server.rev <= server'.rev
    BY DEF FlightType, Move
  <2>2. wire' = wire /\ cursor' = cursor /\ latest' = latest
    BY DEF Move
  <2> QED
    BY <2>1, <2>2 DEF FramesBehind, StreamType, ScreenType
<1>3. PhotosBehind'
  <2>1. Older(screen, server)'
    BY DEF PhotosBehind, FlightType, Move
  <2>2. Older(read.photo, server)'
    BY DEF PhotosBehind, FlightType, Move
  <2>3. ASSUME NEW v \in Writes
        PROVE  Older(write[v].photo, server)'
    BY DEF PhotosBehind, FlightType, Move
  <2> QED
    BY <2>1, <2>2, <2>3 DEF PhotosBehind
<1>4. /\ StreamType' /\ ScreenType' /\ OneRead' /\ ReadIsNewer'
      /\ ReadKnowsFrame' /\ Overtaken' /\ ScreenKnowsFrame' /\ FramesCover'
  BY DEF StreamType, ScreenType, OneRead, ReadIsNewer, ReadKnowsFrame, Overtaken,
         ScreenKnowsFrame, FramesCover, LastFrame, Move
<1> QED
  BY <1>1, <1>2, <1>3, <1>4

LEMMA AnswerReadInv ==
  ASSUME CInv, AnswerRead
  PROVE  CInv'
<1> USE ClientAssumption DEF CInv, TypeOK, Photo, Read, Write, Nothing, None, Older,
       streamVars, refs
<1>1. FlightType'
  BY DEF FlightType, AnswerRead
<1>2. OneRead'
  BY DEF OneRead, FlightType, AnswerRead
<1>3. PhotosBehind'
  <2>1. Older(screen, server)'
    BY DEF PhotosBehind, AnswerRead
  <2>2. Older(read.photo, server)'
    BY DEF PhotosBehind, FlightType, AnswerRead
  <2>3. ASSUME NEW v \in Writes
        PROVE  Older(write[v].photo, server)'
    BY DEF PhotosBehind, AnswerRead
  <2> QED
    BY <2>1, <2>2, <2>3 DEF PhotosBehind
<1>4. ReadIsNewer'
  BY DEF ReadIsNewer, PhotosBehind, AnswerRead
<1>5. ReadKnowsFrame'
  BY DEF ReadKnowsFrame, FramesBehind, AnswerRead
<1>6. Overtaken'
  BY DEF Overtaken, AnswerRead
<1>7. /\ StreamType' /\ ScreenType' /\ FramesBehind'
      /\ ScreenKnowsFrame' /\ FramesCover'
  BY DEF StreamType, ScreenType, FramesBehind, ScreenKnowsFrame, FramesCover,
         LastFrame, AnswerRead
<1> QED
  BY <1>1, <1>2, <1>3, <1>4, <1>5, <1>6, <1>7

LEMMA FailReadInv ==
  ASSUME CInv, FailRead
  PROVE  CInv'
<1> USE ClientAssumption DEF CInv, TypeOK, Photo, Read, Write, Nothing, None, Older,
       streamVars, refs
<1>1. FlightType'
  BY DEF FlightType, FailRead
<1>2. OneRead'
  BY DEF OneRead, FlightType, FailRead
<1>3. PhotosBehind'
  BY DEF PhotosBehind, FailRead
<1>4. ReadIsNewer'
  BY DEF ReadIsNewer, PhotosBehind, FailRead
<1>5. ReadKnowsFrame'
  BY DEF ReadKnowsFrame, FailRead
<1>6. Overtaken'
  BY DEF Overtaken, FailRead
<1>7. /\ StreamType' /\ ScreenType' /\ FramesBehind'
      /\ ScreenKnowsFrame' /\ FramesCover'
  BY DEF StreamType, ScreenType, FramesBehind, ScreenKnowsFrame, FramesCover,
         LastFrame, FailRead
<1> QED
  BY <1>1, <1>2, <1>3, <1>4, <1>5, <1>6, <1>7

LEMMA PerformWriteInv ==
  ASSUME CInv, NEW w \in Writes, PerformWrite(w)
  PROVE  CInv'
<1> USE ClientAssumption DEF CInv, TypeOK, Photo, Read, Write, Nothing, None, Older,
       streamVars, refs
<1>1. FlightType'
  BY DEF FlightType, PerformWrite
<1>2. FramesBehind'
  <2>1. server.rev \in Nat /\ server'.rev \in Nat /\ server.rev <= server'.rev
    BY DEF FlightType, PerformWrite
  <2>2. wire' = wire /\ cursor' = cursor /\ latest' = latest
    BY DEF PerformWrite
  <2> QED
    BY <2>1, <2>2 DEF FramesBehind, StreamType, ScreenType
<1>3. PhotosBehind'
  <2>1. Older(screen, server)'
    BY DEF PhotosBehind, FlightType, PerformWrite
  <2>2. Older(read.photo, server)'
    BY DEF PhotosBehind, FlightType, PerformWrite
  <2>3. ASSUME NEW v \in Writes
        PROVE  Older(write[v].photo, server)'
    BY DEF PhotosBehind, FlightType, PerformWrite
  <2> QED
    BY <2>1, <2>2, <2>3 DEF PhotosBehind
<1>4. /\ StreamType' /\ ScreenType' /\ OneRead' /\ ReadIsNewer'
      /\ ReadKnowsFrame' /\ Overtaken' /\ ScreenKnowsFrame' /\ FramesCover'
  BY DEF StreamType, ScreenType, OneRead, ReadIsNewer, ReadKnowsFrame, Overtaken,
         ScreenKnowsFrame, FramesCover, LastFrame, PerformWrite
<1> QED
  BY <1>1, <1>2, <1>3, <1>4

LEMMA RefuseWriteInv ==
  ASSUME CInv, NEW w \in Writes, RefuseWrite(w)
  PROVE  CInv'
<1> USE ClientAssumption DEF CInv, TypeOK, Photo, Read, Write, Nothing, None, Older,
       streamVars, refs
<1>1. FlightType'
  BY DEF FlightType, RefuseWrite
<1>2. PhotosBehind'
  BY DEF PhotosBehind, FlightType, RefuseWrite
<1>3. /\ StreamType' /\ ScreenType' /\ OneRead' /\ FramesBehind' /\ ReadIsNewer'
      /\ ReadKnowsFrame' /\ Overtaken' /\ ScreenKnowsFrame' /\ FramesCover'
  BY DEF StreamType, ScreenType, OneRead, FramesBehind, ReadIsNewer, ReadKnowsFrame,
         Overtaken, ScreenKnowsFrame, FramesCover, LastFrame, RefuseWrite
<1> QED
  BY <1>1, <1>2, <1>3

LEMMA AnswerWriteInv ==
  ASSUME CInv, NEW w \in Writes, AnswerWrite(w)
  PROVE  CInv'
<1> USE ClientAssumption DEF CInv, TypeOK, Photo, Read, Write, Nothing, None, Older,
       streamVars, refs
<1>1. FlightType'
  BY DEF FlightType, AnswerWrite
<1>2. PhotosBehind'
  <2>1. Older(screen, server)'
    BY DEF PhotosBehind, AnswerWrite
  <2>2. Older(read.photo, server)'
    BY DEF PhotosBehind, AnswerWrite
  <2>3. ASSUME NEW v \in Writes
        PROVE  Older(write[v].photo, server)'
    BY DEF PhotosBehind, FlightType, AnswerWrite
  <2> QED
    BY <2>1, <2>2, <2>3 DEF PhotosBehind
<1>3. /\ StreamType' /\ ScreenType' /\ OneRead' /\ FramesBehind' /\ ReadIsNewer'
      /\ ReadKnowsFrame' /\ Overtaken' /\ ScreenKnowsFrame' /\ FramesCover'
  BY DEF StreamType, ScreenType, OneRead, FramesBehind, ReadIsNewer, ReadKnowsFrame,
         Overtaken, ScreenKnowsFrame, FramesCover, LastFrame, AnswerWrite
<1> QED
  BY <1>1, <1>2, <1>3

LEMMA ConnectInv ==
  ASSUME CInv, Connect
  PROVE  CInv'
<1> USE ClientAssumption DEF CInv, TypeOK, Photo, Read, Write, Nothing, None, Older,
       streamVars, refs
<1>1. StreamType'
  BY RefreshEffect DEF StreamType, FlightType, Connect
<1>2. ScreenType'
  BY RefreshEffect DEF ScreenType, StreamType, FlightType, Connect, NoRefresh
<1>3. FlightType'
  BY RefreshEffect DEF FlightType, Connect, NoRefresh
<1>4. OneRead'
  BY RefreshEffect DEF OneRead, ScreenType, FlightType, Connect, NoRefresh
<1>5. FramesBehind'
  BY RefreshEffect DEF FramesBehind, ScreenType, FlightType, Connect, NoRefresh
<1>6. PhotosBehind'
  <2>1. Older(screen, server)'
    BY RefreshEffect DEF PhotosBehind, Connect
  <2>2. Older(read.photo, server)'
    BY RefreshEffect DEF PhotosBehind, FlightType, Connect, NoRefresh
  <2>3. ASSUME NEW v \in Writes
        PROVE  Older(write[v].photo, server)'
    BY DEF PhotosBehind, Connect
  <2> QED
    BY <2>1, <2>2, <2>3 DEF PhotosBehind
<1>7. ReadIsNewer'
  BY RefreshEffect DEF ReadIsNewer, Connect, NoRefresh
<1>8. ReadKnowsFrame'
  BY RefreshEffect DEF ReadKnowsFrame, Connect, NoRefresh
<1>9. Overtaken'
  BY RefreshEffect DEF Overtaken, Connect, NoRefresh
<1>10. ScreenKnowsFrame'
  BY RefreshEffect DEF ScreenKnowsFrame, Overtaken, Connect, NoRefresh
<1>11. FramesCover'
  BY DEF FramesCover, Connect, NoRefresh
<1> QED
  BY <1>1, <1>2, <1>3, <1>4, <1>5, <1>6, <1>7, <1>8, <1>9, <1>10, <1>11

LEMMA StreamWakeInv ==
  ASSUME CInv, StreamWake
  PROVE  CInv'
<1> USE ClientAssumption DEF CInv, TypeOK, Photo, Read, Write, Nothing, None, Older,
       streamVars, refs
<1>1. StreamType'
  BY DEF StreamType, FlightType, StreamWake
<1>2. FramesBehind'
  BY DEF FramesBehind, StreamType, FlightType, StreamWake
<1>3. FramesCover'
  BY DEF FramesCover, FramesBehind, StreamWake
<1>4. /\ ScreenType' /\ FlightType' /\ OneRead' /\ PhotosBehind'
      /\ ReadIsNewer' /\ ReadKnowsFrame' /\ Overtaken' /\ ScreenKnowsFrame'
  BY DEF ScreenType, FlightType, OneRead, PhotosBehind, ReadIsNewer, ReadKnowsFrame,
         Overtaken, ScreenKnowsFrame, StreamWake
<1> QED
  BY <1>1, <1>2, <1>3, <1>4

LEMMA StreamSendInv ==
  ASSUME CInv, StreamSend
  PROVE  CInv'
<1> USE ClientAssumption DEF CInv, TypeOK, Photo, Read, Write, Nothing, None, Older,
       streamVars, refs
<1>1. StreamType'
  BY AppendLast DEF StreamType, FlightType, StreamSend
<1>2. FramesBehind'
  BY AppendLast DEF FramesBehind, StreamType, FlightType, StreamSend
<1>3. FramesCover'
  BY AppendLast DEF FramesCover, FramesBehind, LastFrame, StreamSend
<1>4. /\ ScreenType' /\ FlightType' /\ OneRead' /\ PhotosBehind'
      /\ ReadIsNewer' /\ ReadKnowsFrame' /\ Overtaken' /\ ScreenKnowsFrame'
  BY DEF ScreenType, FlightType, OneRead, PhotosBehind, ReadIsNewer, ReadKnowsFrame,
         Overtaken, ScreenKnowsFrame, StreamSend
<1> QED
  BY <1>1, <1>2, <1>3, <1>4

LEMMA BreakInv ==
  ASSUME CInv, Break
  PROVE  CInv'
<1> USE ClientAssumption DEF CInv, TypeOK, Photo, Read, Write, Nothing, None, Older,
       streamVars, refs
<1>1. StreamType'
  <2>1. attempt \in 0 .. Delays /\ attempt' = attempt + 1
    BY DEF StreamType, Break, Fall
  <2>2. /\ stream' \in {"connecting", "lost"}
        /\ stream' = "connecting" => attempt + 1 <= Delays
    BY DEF Break, Fall
  <2>3. /\ due' = FALSE /\ wire' = <<>> /\ cursor' = cursor /\ connected' = connected
        /\ breaks' \in 0 .. MaxBreaks
    BY DEF StreamType, Break, Fall
  <2>4. /\ attempt' \in 0 .. Delays + 1
        /\ stream' = "connecting" => attempt' <= Delays
        /\ stream' = "up" => attempt' = 0
    BY <2>1, <2>2
  <2>5. /\ stream' \in {"connecting", "up", "lost"}
        /\ cursor' \in Nat /\ due' \in BOOLEAN /\ connected' \in BOOLEAN
        /\ wire' \in Seq(Nat)
    BY <2>2, <2>3, EmptySeq DEF StreamType
  <2> QED
    BY <2>3, <2>4, <2>5 DEF StreamType
<1>2. ScreenType'
  BY DEF ScreenType, Break, Fall
<1>3. FramesBehind'
  BY DEF FramesBehind, ScreenType, Break, Fall
<1>4. FramesCover'
  BY DEF FramesCover, FramesBehind, Break, Fall
<1>5. /\ FlightType' /\ OneRead' /\ PhotosBehind' /\ ReadIsNewer'
      /\ ReadKnowsFrame' /\ Overtaken' /\ ScreenKnowsFrame'
  BY DEF FlightType, OneRead, PhotosBehind, ReadIsNewer, ReadKnowsFrame, Overtaken,
         ScreenKnowsFrame, Break
<1> QED
  BY <1>1, <1>2, <1>3, <1>4, <1>5

LEMMA ConnectFailsInv ==
  ASSUME CInv, ConnectFails
  PROVE  CInv'
<1> USE ClientAssumption DEF CInv, TypeOK, Photo, Read, Write, Nothing, None, Older,
       streamVars, refs
<1>1. StreamType'
  <2>1. attempt \in 0 .. Delays /\ attempt' = attempt + 1
    BY DEF StreamType, ConnectFails, Fall
  <2>2. /\ stream' \in {"connecting", "lost"}
        /\ stream' = "connecting" => attempt + 1 <= Delays
    BY DEF ConnectFails, Fall
  <2>3. /\ due' = FALSE /\ wire' = <<>> /\ cursor' = cursor /\ connected' = connected
        /\ breaks' \in 0 .. MaxBreaks
    BY DEF StreamType, ConnectFails, Fall
  <2>4. /\ attempt' \in 0 .. Delays + 1
        /\ stream' = "connecting" => attempt' <= Delays
        /\ stream' = "up" => attempt' = 0
    BY <2>1, <2>2
  <2>5. /\ stream' \in {"connecting", "up", "lost"}
        /\ cursor' \in Nat /\ due' \in BOOLEAN /\ connected' \in BOOLEAN
        /\ wire' \in Seq(Nat)
    BY <2>2, <2>3, EmptySeq DEF StreamType
  <2> QED
    BY <2>3, <2>4, <2>5 DEF StreamType
<1>2. ScreenType'
  BY DEF ScreenType, ConnectFails, Fall
<1>3. FramesBehind'
  BY DEF FramesBehind, ScreenType, ConnectFails, Fall
<1>4. FramesCover'
  BY DEF FramesCover, FramesBehind, ConnectFails, Fall
<1>5. /\ FlightType' /\ OneRead' /\ PhotosBehind' /\ ReadIsNewer'
      /\ ReadKnowsFrame' /\ Overtaken' /\ ScreenKnowsFrame'
  BY DEF FlightType, OneRead, PhotosBehind, ReadIsNewer, ReadKnowsFrame, Overtaken,
         ScreenKnowsFrame, ConnectFails
<1> QED
  BY <1>1, <1>2, <1>3, <1>4, <1>5

LEMMA FrameLandsInv ==
  ASSUME CInv, FrameLands
  PROVE  CInv'
<1> USE ClientAssumption DEF CInv, TypeOK, Photo, Read, Write, Nothing, None, Older,
       streamVars, refs
<1>1. StreamType'
  BY TailLast, RefreshEffect DEF StreamType, FrameLands
<1>2. ScreenType'
  <2>1. latest' \in Nat /\ live' = TRUE /\ epoch' = epoch /\ applied' = applied /\ spoke' = spoke
    BY TailLast DEF StreamType, FrameLands
  <2>2. CASE latest = Head(wire)
    BY <2>1, <2>2 DEF ScreenType, FrameLands, NoRefresh
  <2>3. CASE latest # Head(wire)
    BY <2>1, <2>3, RefreshEffect DEF ScreenType, FrameLands
  <2> QED
    BY <2>2, <2>3
<1>3. FlightType'
  BY RefreshEffect DEF FlightType, FrameLands, NoRefresh
<1>4. OneRead'
  <2>1. applied' = applied /\ epoch' = epoch
    BY DEF FrameLands
  <2>2. CASE latest = Head(wire)
    BY <2>1, <2>2 DEF OneRead, FrameLands, NoRefresh
  <2>3. CASE latest # Head(wire)
    <3>1. Refresh
      BY <2>3 DEF FrameLands
    <3>2. CASE refreshing
      BY <2>1, <3>1, <3>2 DEF OneRead, Refresh
    <3>3. CASE ~refreshing
      <4>1. applied <= issued'
        BY <3>1, <3>3, RefreshEffect DEF ScreenType
      <4> QED
        BY <2>1, <3>1, <3>3, <4>1, RefreshEffect DEF OneRead, ScreenType
    <3> QED
      BY <3>2, <3>3
  <2> QED
    BY <2>2, <2>3
<1>5. FramesBehind'
  <2>1. /\ Head(wire) = wire[1] /\ Len(wire) \in Nat /\ 1 \in 1 .. Len(wire)
        /\ \A i \in 1 .. Len(Tail(wire)) : i + 1 \in 1 .. Len(wire) /\ Tail(wire)[i] = wire[i + 1]
    BY TailLast, EmptySeq DEF FrameLands
  <2>2. latest' = Head(wire) /\ wire' = Tail(wire) /\ cursor' = cursor /\ server' = server
    BY DEF FrameLands
  <2> QED
    BY <2>1, <2>2 DEF FramesBehind
<1>6. PhotosBehind'
  <2>1. Older(screen, server)'
    BY RefreshEffect DEF PhotosBehind, FrameLands
  <2>2. Older(read.photo, server)'
    BY RefreshEffect DEF PhotosBehind, FlightType, FrameLands, NoRefresh
  <2>3. ASSUME NEW v \in Writes
        PROVE  Older(write[v].photo, server)'
    BY DEF PhotosBehind, FrameLands
  <2> QED
    BY <2>1, <2>2, <2>3 DEF PhotosBehind
<1>7. ReadIsNewer'
  BY RefreshEffect DEF ReadIsNewer, FrameLands, NoRefresh
<1>8. ReadKnowsFrame'
  BY RefreshEffect DEF ReadKnowsFrame, FrameLands, NoRefresh
<1>9. Overtaken'
  BY RefreshEffect DEF Overtaken, FrameLands, NoRefresh
<1>10. ScreenKnowsFrame'
  BY RefreshEffect DEF ScreenKnowsFrame, Overtaken, FrameLands, NoRefresh
<1>11. FramesCover'
  BY TailLast DEF FramesCover, LastFrame, StreamType, FrameLands, NoRefresh
<1> QED
  BY <1>1, <1>2, <1>3, <1>4, <1>5, <1>6, <1>7, <1>8, <1>9, <1>10, <1>11

LEMMA ReadLandsInv ==
  ASSUME CInv, ReadLands
  PROVE  CInv'
<1> USE ClientAssumption DEF CInv, TypeOK, Photo, Read, Write, Nothing, None, Older,
       streamVars, refs
<1>1. ScreenType'
  <2>1. applied' \in 0 .. issued /\ spoke' \in {"none", "read", "write", "failed"}
    BY DEF ScreenType, FlightType, OneRead, ReadLands
  <2>2. latest' = latest /\ epoch' = epoch
    BY DEF ReadLands
  <2> QED
    BY <2>1, <2>2, NextTurnEffect DEF ScreenType, ReadLands
<1>2. FlightType'
  BY NextTurnEffect DEF FlightType, ReadLands
<1>3. OneRead'
  <2>1. refreshing /\ epoch' = epoch
    BY DEF OneRead, ReadLands
  <2>2. applied' <= issued /\ applied' \in Nat
    BY DEF ScreenType, FlightType, OneRead, ReadLands
  <2>3. CASE again
    <3>1. /\ refreshing' = refreshing /\ read'.stage = "sent" /\ read'.epoch = epoch
          /\ read'.mine = issued' /\ issued < issued' /\ issued' \in Nat
      BY <2>3, NextTurnEffect DEF ReadLands
    <3> QED
      BY <2>1, <2>2, <3>1 DEF OneRead, ScreenType
  <2>4. CASE ~again
    BY <2>4, NextTurnEffect DEF OneRead, ReadLands
  <2> QED
    BY <2>3, <2>4
<1>4. PhotosBehind'
  <2>1. Older(screen, server)'
    BY NextTurnEffect DEF PhotosBehind, ReadLands
  <2>2. Older(read.photo, server)'
    BY NextTurnEffect DEF PhotosBehind, FlightType, ReadLands
  <2>3. ASSUME NEW v \in Writes
        PROVE  Older(write[v].photo, server)'
    BY DEF PhotosBehind, ReadLands
  <2> QED
    BY <2>1, <2>2, <2>3 DEF PhotosBehind
<1>5. ReadIsNewer'
  BY NextTurnEffect DEF ReadIsNewer, ReadLands
<1>6. ReadKnowsFrame'
  BY NextTurnEffect DEF ReadKnowsFrame, ReadLands
<1>7. Overtaken'
  BY NextTurnEffect DEF Overtaken, ReadLands
<1>8. ScreenKnowsFrame'
  BY NextTurnEffect DEF ScreenKnowsFrame, OneRead, ReadKnowsFrame, Overtaken,
         ReadLands, Fresh
<1>9. StreamType' /\ FramesBehind' /\ FramesCover'
  BY DEF StreamType, FramesBehind, FramesCover, LastFrame, ReadLands
<1> QED
  BY <1>1, <1>2, <1>3, <1>4, <1>5, <1>6, <1>7, <1>8, <1>9

LEMMA ReadFailedInv ==
  ASSUME CInv, ReadFailed
  PROVE  CInv'
<1> USE ClientAssumption DEF CInv, TypeOK, Photo, Read, Write, Nothing, None, Older,
       streamVars, refs
<1>1. ScreenType'
  BY NextTurnEffect DEF ScreenType, ReadFailed
<1>2. FlightType'
  BY NextTurnEffect DEF FlightType, ReadFailed
<1>3. OneRead'
  <2>1. refreshing /\ epoch' = epoch /\ applied' = applied
    BY DEF OneRead, ReadFailed
  <2>2. CASE again
    <3>1. /\ refreshing' = refreshing /\ read'.stage = "sent" /\ read'.epoch = epoch
          /\ read'.mine = issued' /\ issued < issued' /\ issued' \in Nat
      BY <2>2, NextTurnEffect DEF ReadFailed
    <3> QED
      BY <2>1, <3>1 DEF OneRead, ScreenType
  <2>3. CASE ~again
    BY <2>3, NextTurnEffect DEF OneRead, ReadFailed
  <2> QED
    BY <2>2, <2>3
<1>4. PhotosBehind'
  <2>1. Older(screen, server)'
    BY NextTurnEffect DEF PhotosBehind, ReadFailed
  <2>2. Older(read.photo, server)'
    BY NextTurnEffect DEF PhotosBehind, FlightType, ReadFailed
  <2>3. ASSUME NEW v \in Writes
        PROVE  Older(write[v].photo, server)'
    BY DEF PhotosBehind, ReadFailed
  <2> QED
    BY <2>1, <2>2, <2>3 DEF PhotosBehind
<1>5. ReadIsNewer'
  BY NextTurnEffect DEF ReadIsNewer, ReadFailed
<1>6. ReadKnowsFrame'
  BY NextTurnEffect DEF ReadKnowsFrame, ReadFailed
<1>7. Overtaken'
  BY NextTurnEffect DEF Overtaken, ReadFailed
<1>8. ScreenKnowsFrame'
  BY NextTurnEffect DEF ScreenKnowsFrame, Overtaken, ReadFailed
<1>9. StreamType' /\ FramesBehind' /\ FramesCover'
  BY DEF StreamType, FramesBehind, FramesCover, LastFrame, ReadFailed
<1> QED
  BY <1>1, <1>2, <1>3, <1>4, <1>5, <1>6, <1>7, <1>8, <1>9

LEMMA SendWriteInv ==
  ASSUME CInv, NEW w \in Writes, SendWrite(w)
  PROVE  CInv'
<1> USE ClientAssumption DEF CInv, TypeOK, Photo, Read, Write, Nothing, None, Older,
       streamVars, refs
<1>1. FlightType'
  BY DEF FlightType, SendWrite
<1>2. PhotosBehind'
  BY DEF PhotosBehind, FlightType, SendWrite
<1>3. /\ StreamType' /\ ScreenType' /\ OneRead' /\ FramesBehind' /\ ReadIsNewer'
      /\ ReadKnowsFrame' /\ Overtaken' /\ ScreenKnowsFrame' /\ FramesCover'
  BY DEF StreamType, ScreenType, OneRead, FramesBehind, ReadIsNewer, ReadKnowsFrame,
         Overtaken, ScreenKnowsFrame, FramesCover, LastFrame, SendWrite
<1> QED
  BY <1>1, <1>2, <1>3

LEMMA WriteLandsInv ==
  ASSUME CInv, NEW w \in Writes, WriteLands(w)
  PROVE  CInv'
<1> USE ClientAssumption DEF CInv, TypeOK, Photo, Read, Write, Nothing, None, Older,
       streamVars, refs
<1>1. ScreenType'
  <2>1. /\ epoch' = epoch + 1 /\ issued' = issued + 1 /\ applied' = issued + 1
        /\ spoke' = "write" /\ latest' = latest
        /\ refreshing' = refreshing /\ again' = again /\ live' = live
    BY DEF WriteLands
  <2> QED
    BY <2>1 DEF ScreenType
<1>2. FlightType'
  BY DEF FlightType, WriteLands
<1>3. OneRead'
  BY DEF OneRead, ScreenType, FlightType, WriteLands
<1>4. PhotosBehind'
  BY DEF PhotosBehind, ScreenType, FlightType, WriteLands
<1>5. ReadIsNewer'
  BY DEF ReadIsNewer, OneRead, PhotosBehind, ScreenType, WriteLands
<1>6. Overtaken'
  BY DEF Overtaken, OneRead, ScreenType, WriteLands
<1>7. ScreenKnowsFrame'
  BY DEF ScreenKnowsFrame, Overtaken, WriteLands
<1>8. StreamType' /\ FramesBehind' /\ ReadKnowsFrame' /\ FramesCover'
  BY DEF StreamType, FramesBehind, ReadKnowsFrame, FramesCover, LastFrame, WriteLands
<1> QED
  BY <1>1, <1>2, <1>3, <1>4, <1>5, <1>6, <1>7, <1>8

LEMMA ReconnectInv ==
  ASSUME CInv, Reconnect
  PROVE  CInv'
<1> USE ClientAssumption DEF CInv, TypeOK, Photo, Read, Write, Nothing, None, Older,
       streamVars, refs
<1>1. StreamType'
  <2>1. /\ stream' = "connecting" /\ connected' = FALSE /\ attempt' = 0 /\ due' = FALSE
        /\ wire' = <<>> /\ cursor' = cursor /\ breaks' = breaks + 1 /\ breaks < MaxBreaks
    BY DEF Reconnect
  <2>2. wire' \in Seq(Nat) /\ breaks' \in 0 .. MaxBreaks
    BY <2>1, EmptySeq DEF StreamType
  <2>3. due' \in BOOLEAN /\ connected' \in BOOLEAN
    BY <2>1
  <2> QED
    BY <2>1, <2>2, <2>3 DEF StreamType
<1>2. ScreenType'
  BY RefreshEffect DEF ScreenType, Reconnect
<1>3. FlightType'
  BY RefreshEffect DEF FlightType, Reconnect
<1>4. OneRead'
  <2>1. epoch' = epoch /\ applied' = applied /\ Refresh
    BY DEF Reconnect
  <2>2. CASE refreshing
    BY <2>1, <2>2, RefreshEffect DEF OneRead, ScreenType, FlightType
  <2>3. CASE ~refreshing
    BY <2>1, <2>3, RefreshEffect DEF OneRead, ScreenType, FlightType
  <2> QED
    BY <2>2, <2>3
<1>5. FramesBehind'
  BY RefreshEffect DEF FramesBehind, ScreenType, Reconnect
<1>6. PhotosBehind'
  <2>1. /\ screen' = screen /\ server' = server /\ write' = write
    BY DEF Reconnect
  <2>2. read'.photo = read.photo \/ read'.photo = Nothing
    BY RefreshEffect DEF Reconnect
  <2>3. server.rev \in Nat /\ server.acts \in Nat
    BY DEF FlightType
  <2>4. Older(read.photo, server)' /\ Older(screen, server)'
    BY <2>1, <2>2, <2>3 DEF PhotosBehind
  <2>5. \A v \in Writes : Older(write[v].photo, server)'
    BY <2>1 DEF PhotosBehind
  <2> QED
    BY <2>4, <2>5 DEF PhotosBehind
<1>7. ReadIsNewer'
  BY RefreshEffect DEF ReadIsNewer, Reconnect
<1>8. ReadKnowsFrame'
  BY RefreshEffect DEF ReadKnowsFrame, Reconnect
<1>9. Overtaken'
  BY RefreshEffect DEF Overtaken, Reconnect
<1>10. ScreenKnowsFrame'
  BY RefreshEffect DEF ScreenKnowsFrame, Overtaken, Reconnect
<1>11. FramesCover'
  BY DEF FramesCover, Reconnect
<1> QED
  BY <1>1, <1>2, <1>3, <1>4, <1>5, <1>6, <1>7, <1>8, <1>9, <1>10, <1>11

(* Every action keeps the invariant, and so does a step that changes nothing.  *)
LEMMA NextInv == CInv /\ [Next]_vars => CInv'
<1> SUFFICES ASSUME CInv, [Next]_vars
             PROVE  CInv'
  OBVIOUS
<1>1. CASE ServerStep
  BY <1>1, AnswerReadInv, FailReadInv, PerformWriteInv, RefuseWriteInv, AnswerWriteInv
     DEF ServerStep
<1>2. CASE StreamStep
  BY <1>2, ConnectInv, StreamWakeInv, StreamSendInv, ConnectFailsInv DEF StreamStep
<1>3. CASE ClientStep
  BY <1>3, FrameLandsInv, ReadLandsInv, ReadFailedInv, WriteLandsInv DEF ClientStep
<1>4. CASE Reviewer
  BY <1>4, ReconnectInv, SendWriteInv DEF Reviewer
<1>5. CASE Move
  BY <1>5, MoveInv
<1>6. CASE Break
  BY <1>6, BreakInv
<1>7. CASE UNCHANGED vars
  <2> USE DEF CInv, TypeOK, vars, streamVars, refs
  <2>1. StreamType' /\ ScreenType' /\ FlightType'
    BY <1>7 DEF StreamType, ScreenType, FlightType
  <2>2. OneRead' /\ FramesBehind' /\ PhotosBehind' /\ ReadIsNewer' /\ ReadKnowsFrame'
    BY <1>7 DEF OneRead, FramesBehind, PhotosBehind, ReadIsNewer, ReadKnowsFrame, Older
  <2>3. Overtaken' /\ ScreenKnowsFrame' /\ FramesCover'
    BY <1>7 DEF Overtaken, ScreenKnowsFrame, FramesCover, LastFrame
  <2> QED
    BY <2>1, <2>2, <2>3
<1> QED
  BY <1>1, <1>2, <1>3, <1>4, <1>5, <1>6, <1>7 DEF Next

LEMMA ClientInvariant == Spec => []CInv
<1>1. Init => CInv
  BY InitInv
<1> QED
  BY <1>1, NextInv, PTL DEF Spec

(* Type correctness, for any number of delays: a stream that is given up was    *)
(* tried once for each of them and once more.                                 *)
THEOREM ClientTypeCorrect == Spec => []TypeOK
<1>1. CInv => TypeOK
  BY DEF CInv
<1> QED
  BY <1>1, ClientInvariant, PTL

(* useHarness.ts:137, the check that drops a read: whatever lands in whatever   *)
(* order, a read never takes the screen back.  Only ReadLands and WriteLands    *)
(* change the screen, and a read that is shown is not behind it.               *)
THEOREM ReadsNeverGoBack == Spec => ReadsMoveForward
<1>1. CInv /\ [Next]_vars => (screen' # screen /\ UNCHANGED write =>
        screen'.rev >= screen.rev /\ screen'.acts >= screen.acts)
  <2> SUFFICES ASSUME CInv, Next, screen' # screen, write' = write
               PROVE  screen'.rev >= screen.rev /\ screen'.acts >= screen.acts
    BY DEF vars
  <2>1. ~ServerStep /\ ~StreamStep /\ ~Reviewer /\ ~Move /\ ~Break
    BY DEF ServerStep, AnswerRead, FailRead, PerformWrite, RefuseWrite, AnswerWrite,
           StreamStep, Connect, StreamWake, StreamSend, ConnectFails,
           Reviewer, Reconnect, SendWrite, Move, Break
  <2>2. ASSUME NEW w \in Writes, WriteLands(w)
        PROVE  FALSE
    <3>1. write'[w].stage = "landed" /\ write[w].stage = "answered"
      BY <2>2 DEF WriteLands, CInv, TypeOK, FlightType, Write
    <3> QED
      BY <3>1
  <2>3. ReadLands
    BY <2>1, <2>2 DEF Next, ClientStep, FrameLands, ReadFailed
  <2>4. read.stage = "answered" /\ read.epoch = epoch /\ screen' = read.photo
    BY <2>3 DEF ReadLands, Fresh
  <2>5. Older(screen, read.photo)
    BY <2>4 DEF CInv, ReadIsNewer
  <2> QED
    BY <2>4, <2>5 DEF Older, CInv, TypeOK, FlightType, Read, Photo
<1> QED
  BY <1>1, ClientInvariant, PTL DEF Spec, ReadsMoveForward

(* "the last request of a burst is always served" (useHarness.ts:97-98), where   *)
(* a read spoke last: at rest the last frame carries the engine's revision, the  *)
(* screen knows the last frame, and neither is ahead of the engine.             *)
THEOREM LastRequestIsServed == Spec => []BurstIsServed
<1>1. CInv => BurstIsServed
  <2> SUFFICES ASSUME CInv, Quiet, spoke = "read"
               PROVE  screen.rev = server.rev
    BY DEF BurstIsServed
  <2>1. server.rev <= latest
    BY DEF CInv, Quiet, FramesCover, LastFrame
  <2>2. latest <= screen.rev
    BY DEF CInv, Quiet, ScreenKnowsFrame
  <2>3. screen.rev <= server.rev
    BY DEF CInv, PhotosBehind, Older
  <2>4. /\ server.rev \in Nat /\ screen.rev \in Nat /\ latest \in Int
    BY DEF CInv, TypeOK, ScreenType, FlightType, Photo, None
  <2> QED
    BY <2>1, <2>2, <2>3, <2>4
<1> QED
  BY <1>1, ClientInvariant, PTL

(* engine.py:184, "late, never lost", for a stream that is up: between the      *)
(* revision the client knows and the engine's there is always a wake, a frame   *)
(* that is owed or one on its way that carries it.  The frames that were sent   *)
(* reach as far as the generator woke for (FramesCover) and none is ahead of    *)
(* the engine (FramesBehind).                                                *)
THEOREM ChangesAreUnderWay == Spec => []ChangeIsUnderWay
<1>1. CInv => ChangeIsUnderWay
  <2> SUFFICES ASSUME CInv, stream = "up", latest # server.rev, ~due, cursor = server.rev
               PROVE  wire # <<>> /\ wire[Len(wire)] = server.rev
    BY DEF ChangeIsUnderWay
  <2>1. server.rev <= LastFrame
    BY DEF CInv, FramesCover
  <2>2. server.rev \in Nat /\ latest \in Int /\ latest <= server.rev /\ wire \in Seq(Nat)
    BY DEF CInv, TypeOK, StreamType, ScreenType, FlightType, FramesBehind, Photo, None
  <2>3. wire # <<>>
    BY <2>1, <2>2 DEF LastFrame
  <2>4. Len(wire) \in 1 .. Len(wire)
    BY <2>2, <2>3, EmptySeq
  <2>5. wire[Len(wire)] \in Nat /\ wire[Len(wire)] <= server.rev
    BY <2>2, <2>4, ElementOfSeq DEF CInv, FramesBehind
  <2> QED
    BY <2>1, <2>2, <2>3, <2>5 DEF LastFrame
<1> QED
  BY <1>1, ClientInvariant, PTL

(* A request is put off only while the loop of refresh is in a turn.          *)
LEMMA PutOffStays ==
  ASSUME again => refreshing, [Next]_vars
  PROVE  (again => refreshing)'
<1>1. CASE ReadLands \/ ReadFailed
  BY <1>1 DEF ReadLands, ReadFailed, NextTurn
<1>2. CASE Connect \/ FrameLands \/ Reconnect
  BY <1>2 DEF Connect, FrameLands, Reconnect, Refresh, NoRefresh
<1>3. CASE UNCHANGED <<refreshing, again>>
  BY <1>3
<1> QED
  BY <1>1, <1>2, <1>3
  DEF Next, ServerStep, AnswerRead, FailRead, PerformWrite, RefuseWrite, AnswerWrite,
      StreamStep, StreamWake, StreamSend, ConnectFails, ClientStep, WriteLands,
      Reviewer, SendWrite, Move, Break, vars

(* useHarness.ts:120-149, the latch of refresh: it is set exactly while a read   *)
(* is out, whether reads land, fail or are overtaken by writes, so no later     *)
(* request is ever put off for good.                                        *)
THEOREM LatchIsHeld == Spec => []RequestsAreHeld
<1>1. Init => (again => refreshing)
  BY DEF Init
<1>2. (again => refreshing) /\ [Next]_vars => (again => refreshing)'
  BY PutOffStays
<1>3. CInv /\ (again => refreshing) => RequestsAreHeld
  BY DEF CInv, OneRead, RequestsAreHeld
<1> QED
  BY <1>1, <1>2, <1>3, ClientInvariant, PTL DEF Spec
=============================================================================
