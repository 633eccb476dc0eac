---------------------------- MODULE ViewerProofs ----------------------------
(***************************************************************************)
(* Theorems about Viewer for any number of connections and frames and any  *)
(* size of the queue.                                                      *)
(***************************************************************************)
EXTENDS Viewer, SequenceTheorems, TLAPS

USE QueueAssumption, ViewerBounds DEF None, Readers, Queues, Frames

-----------------------------------------------------------------------------
(* The inductive invariant.  The queues of a connection have one writer,   *)
(* its reader, which is why a queue that was emptied is still empty when   *)
(* the new frame is put.                                                   *)

\* The queue of r holds at most one frame, which r has decoded; that of the
\* last connection holds nothing older than the screen.
QueueInv(r) ==
  \/ dataQ[r] = << >>
  \/ \E n \in Frames : /\ dataQ[r] = <<n>> /\ n <= frame[r]
                       /\ r = made => shown <= n

ReaderInv(r) ==
  /\ r > made => pc[r] = "unborn" /\ frame[r] = 0 /\ dataQ[r] = << >>
  /\ r <= made => pc[r] # "unborn" /\ out[r] = r
  /\ pc[r] # "full"
  /\ pc[r] \in {"drain", "put"} => frame[r] # 0
  /\ pc[r] = "put" => dataQ[r] = << >>
  /\ r = made /\ frame[r] # 0 => shown <= frame[r]
  /\ r = made /\ frame[r] # 0 /\ pc[r] \notin {"drain", "put"}
       => dataQ[r] = <<frame[r]>> \/ (dataQ[r] = << >> /\ shown = frame[r])
  /\ QueueInv(r)

GuiInv ==
  /\ queue = made
  /\ dataQ[0] = << >>
  /\ gui = "stop" => stop[reader]
  /\ gui = "act" => reader = None
  /\ command = "connect" => made < MaxConnects

Inv == TypeOK /\ GuiInv /\ OneLiveReader /\ \A r \in Readers : ReaderInv(r)

LEMMA InvInit == Init => Inv
  <1> SUFFICES ASSUME Init PROVE Inv
    OBVIOUS
  <1>1. TypeOK
    BY DEF Init, TypeOK, Commands, Kinds, ReaderPlaces
  <1>2. GuiInv /\ OneLiveReader
    BY DEF Init, GuiInv, OneLiveReader
  <1>3. ASSUME NEW r \in Readers PROVE ReaderInv(r)
    BY DEF Init, ReaderInv, QueueInv
  <1> QED BY <1>1, <1>2, <1>3 DEF Inv

-----------------------------------------------------------------------------
(* Steps of a reader.                                                      *)

\* A reader that runs belongs to a connection and writes its queue.
LEMMA RunningReader ==
  ASSUME Inv, NEW r \in Readers, Reader(r)
  PROVE  pc[r] \notin {"unborn", "done", "full"} /\ r <= made /\ out[r] = r
  <1>1. ReaderInv(r) /\ pc[r] \in ReaderPlaces /\ made \in Nat
    BY DEF Inv, TypeOK
  <1>2. pc[r] \notin {"unborn", "done"}
    BY DEF Reader, OpenBus, ReportConnected, OpenFails, CheckStop, RecvTimeout,
           RecvFails, Awake, TakeFrame, RecvOther, RecvShort, RecvDistances,
           Discard, NothingToDiscard, Put
  <1> QED BY <1>1, <1>2 DEF ReaderInv

\* A reader reports to the status queue, if to any.
LEMMA ReportType ==
  ASSUME TypeOK, NEW r, NEW kind \in Kinds, Report(r, kind)
  PROVE  statusQ' \in Seq(Kinds)
  BY DEF TypeOK, Report

\* Taking a frame keeps every frame number in its range.
LEMMA TakenType ==
  ASSUME TypeOK, NEW r, TakeFrame(r)
  PROVE  /\ taken' \in 0 .. MaxFrames /\ taken' = taken + 1
         /\ shown \in 0 .. taken'
         /\ frame \in [Readers -> 0 .. taken']
         /\ taken' \in Frames
  <1>1. /\ taken \in 0 .. MaxFrames /\ taken < MaxFrames /\ taken' = taken + 1
        /\ shown \in 0 .. taken /\ frame \in [Readers -> 0 .. taken]
    BY DEF TypeOK, TakeFrame
  <1>2. taken' \in Frames /\ 0 .. taken \subseteq 0 .. taken'
    BY <1>1
  <1> QED BY <1>1, <1>2

\* What a step of reader r leaves alone.
LEMMA ReaderFrame ==
  ASSUME Inv, NEW r \in Readers, Reader(r)
  PROVE  /\ UNCHANGED <<guiVars, stop, out>>
         /\ \A s \in Readers \ {r} : /\ pc'[s] = pc[s]
                                     /\ frame'[s] = frame[s]
                                     /\ dataQ'[s] = dataQ[s]
         /\ dataQ'[0] = dataQ[0]
  <1>1. out[r] = r /\ r # 0
    BY RunningReader
  <1>2. /\ pc \in [Readers -> ReaderPlaces] /\ frame \in [Readers -> 0 .. taken]
        /\ dataQ \in [Queues -> Seq(Frames)]
    BY DEF Inv, TypeOK
  <1>3. CASE OpenBus(r) \/ ReportConnected(r) \/ OpenFails(r) \/ CheckStop(r)
    BY <1>2, <1>3 DEF OpenBus, ReportConnected, OpenFails, CheckStop, GoTo,
                      guiVars
  <1>4. CASE RecvTimeout(r) \/ RecvFails(r) \/ Awake(r) \/ RecvOther(r)
             \/ RecvShort(r)
    BY <1>2, <1>4 DEF RecvTimeout, RecvFails, Awake, RecvOther, RecvShort,
                      TakeFrame, GoTo, guiVars
  <1>5. CASE RecvDistances(r)
    BY <1>2, <1>5 DEF RecvDistances, TakeFrame, GoTo, guiVars
  <1>6. CASE Discard(r)
    BY <1>1, <1>2, <1>6 DEF Discard, GoTo, guiVars
  <1>7. CASE NothingToDiscard(r)
    BY <1>2, <1>7 DEF NothingToDiscard, GoTo, guiVars
  <1>8. CASE Put(r)
    BY <1>1, <1>2, <1>8 DEF Put, GoTo, guiVars
  <1> QED BY <1>3, <1>4, <1>5, <1>6, <1>7, <1>8 DEF Reader

LEMMA ReaderType ==
  ASSUME Inv, NEW r \in Readers, Reader(r)
  PROVE  TypeOK'
  <1> USE DEF TypeOK
  <1>1. TypeOK /\ out[r] = r
    BY RunningReader DEF Inv
  <1>2. UNCHANGED <<gui, command, made, reader, queue, status, shown, stop,
                    out>>
    BY ReaderFrame DEF guiVars
  <1>3. CASE OpenBus(r)
    BY <1>1, <1>3 DEF OpenBus, GoTo, ReaderPlaces, guiVars
  <1>4. CASE ReportConnected(r)
    BY <1>1, <1>4, ReportType DEF ReportConnected, GoTo, ReaderPlaces, Kinds,
                                  guiVars
  <1>5. CASE OpenFails(r)
    BY <1>1, <1>5, ReportType DEF OpenFails, GoTo, ReaderPlaces, Kinds, guiVars
  <1>6. CASE CheckStop(r) \/ RecvTimeout(r) \/ Awake(r)
    BY <1>1, <1>6 DEF CheckStop, RecvTimeout, Awake, GoTo, ReaderPlaces, guiVars
  <1>7. CASE RecvFails(r)
    BY <1>1, <1>7, ReportType DEF RecvFails, GoTo, ReaderPlaces, Kinds, guiVars
  <1>8. CASE RecvOther(r)
    BY <1>1, <1>2, <1>8, TakenType DEF RecvOther, GoTo, ReaderPlaces, guiVars
  <1>9. CASE RecvShort(r)
    <2>1. statusQ' \in Seq(Kinds)
      BY <1>1, <1>9, ReportType DEF RecvShort, Kinds
    <2> QED BY <1>1, <1>2, <1>9, <2>1, TakenType
            DEF RecvShort, GoTo, ReaderPlaces, guiVars
  <1>10. CASE RecvDistances(r)
    <2>1. frame' \in [Readers -> 0 .. taken']
      <3>1. frame' = [frame EXCEPT ![r] = taken'] /\ TakeFrame(r)
        BY <1>10 DEF RecvDistances
      <3>2. frame \in [Readers -> 0 .. taken'] /\ taken' \in Frames
        BY <1>1, <3>1, TakenType
      <3>3. taken' \in 0 .. taken'
        BY <3>2
      <3> QED BY <3>1, <3>2, <3>3
    <2> QED BY <1>1, <1>2, <1>10, <2>1, TakenType
            DEF RecvDistances, GoTo, ReaderPlaces, guiVars
  <1>11. CASE Discard(r)
    <2>1. dataQ[r] \in Seq(Frames) /\ dataQ[r] # << >>
      BY <1>1, <1>11 DEF Discard
    <2>2. Tail(dataQ[r]) \in Seq(Frames)
      BY <2>1, HeadTailProperties
    <2> QED BY <1>1, <1>2, <1>11, <2>2 DEF Discard, GoTo, ReaderPlaces, guiVars
  <1>12. CASE NothingToDiscard(r)
    BY <1>1, <1>2, <1>12 DEF NothingToDiscard, GoTo, ReaderPlaces, guiVars
  <1>13. CASE Put(r)
    <2>1. frame[r] \in Frames
      <3>1. frame[r] # 0
        BY <1>13 DEF Inv, ReaderInv, Put
      <3> QED BY <1>1, <3>1
    <2>2. Append(dataQ[r], frame[r]) \in Seq(Frames)
      BY <1>1, <2>1
    <2> QED BY <1>1, <1>2, <1>13, <2>2 DEF Put, GoTo, ReaderPlaces, guiVars
  <1> QED BY <1>3, <1>4, <1>5, <1>6, <1>7, <1>8, <1>9, <1>10, <1>11, <1>12,
             <1>13
          DEF Reader

\* A step of reader r keeps what the invariant says of r.  Only r writes its
\* queue, so nothing comes in between the emptying and the put.
LEMMA ReaderKeepsOwn ==
  ASSUME Inv, NEW r \in Readers, Reader(r)
  PROVE  ReaderInv(r)'
  <1>1. /\ ReaderInv(r) /\ out[r] = r /\ r <= made /\ pc[r] # "unborn"
    BY RunningReader DEF Inv
  <1>2. /\ made' = made /\ shown' = shown /\ out' = out
        /\ pc \in [Readers -> ReaderPlaces] /\ frame \in [Readers -> 0 .. taken]
        /\ dataQ \in [Queues -> Seq(Frames)] /\ shown \in 0 .. taken
        /\ taken \in 0 .. MaxFrames /\ made \in Queues
    <2>1. UNCHANGED <<guiVars, stop, out>>
      BY ReaderFrame
    <2> QED BY <2>1 DEF guiVars, Inv, TypeOK
  <1>3. CASE /\ UNCHANGED <<frame, dataQ>>
             /\ pc[r] \notin {"drain", "put"}
             /\ pc'[r] \notin {"unborn", "full", "drain", "put"}
    BY <1>1, <1>2, <1>3 DEF ReaderInv, QueueInv
  <1>4. CASE RecvDistances(r)
    <2>1. /\ pc'[r] = "drain" /\ frame'[r] = taken + 1 /\ dataQ' = dataQ
          /\ frame[r] <= taken /\ shown <= taken
      BY <1>2, <1>4 DEF RecvDistances, TakeFrame, GoTo
    <2>2. QueueInv(r)'
      BY <1>1, <1>2, <2>1 DEF ReaderInv, QueueInv
    <2> QED BY <1>1, <1>2, <2>1, <2>2 DEF ReaderInv
  <1>5. CASE Discard(r)
    <2>1. pc[r] = "drain" /\ pc'[r] = "drain" /\ UNCHANGED frame
      BY <1>1, <1>2, <1>5 DEF ReaderInv, Discard, GoTo
    <2>2. PICK n \in Frames : dataQ[r] = <<n>>
      BY <1>1, <1>5 DEF ReaderInv, QueueInv, Discard
    <2>3. Tail(<<n>>) = << >>
      OBVIOUS
    <2>4. dataQ'[r] = << >>
      BY <1>1, <1>2, <1>5, <2>2, <2>3 DEF Discard
    <2> QED BY <1>1, <1>2, <2>1, <2>4 DEF ReaderInv, QueueInv
  <1>6. CASE NothingToDiscard(r)
    <2>1. /\ pc[r] = "drain" /\ pc'[r] = "put" /\ UNCHANGED <<frame, dataQ>>
          /\ dataQ[r] = << >>
      BY <1>1, <1>2, <1>6 DEF ReaderInv, NothingToDiscard, GoTo
    <2> QED BY <1>1, <1>2, <2>1 DEF ReaderInv, QueueInv
  <1>7. CASE Put(r)
    <2>1. pc[r] = "put" /\ dataQ[r] = << >> /\ frame[r] # 0 /\ frame' = frame
      BY <1>1, <1>7 DEF ReaderInv, Put
    <2>2. ~(Len(dataQ[r]) >= QueueSize)
      BY <2>1
    <2>3. Append(<< >>, frame[r]) = <<frame[r]>>
      OBVIOUS
    <2>4. /\ pc' = [pc EXCEPT ![r] = "loop"]
          /\ dataQ' = [dataQ EXCEPT ![r] = Append(dataQ[r], frame[r])]
      BY <1>1, <1>7, <2>2 DEF Put, GoTo
    <2>5. pc'[r] = "loop" /\ dataQ'[r] = <<frame[r]>>
      <3>1. pc'[r] = "loop" /\ dataQ'[r] = Append(dataQ[r], frame[r])
        BY <1>2, <2>4
      <3> QED BY <2>1, <2>3, <3>1
    <2>6. frame[r] \in Frames
      <3>1. frame[r] \in 0 .. taken /\ taken \in 0 .. MaxFrames
        BY <1>2
      <3> QED BY <2>1, <3>1
    <2>7. r = made => shown <= frame[r]
      BY <1>1, <2>1 DEF ReaderInv
    <2>8. QueueInv(r)'
      BY <1>2, <2>1, <2>5, <2>6, <2>7 DEF QueueInv
    <2> QED BY <1>1, <1>2, <2>1, <2>5, <2>6, <2>7, <2>8 DEF ReaderInv
  <1>8. CASE OpenBus(r) \/ ReportConnected(r) \/ OpenFails(r) \/ CheckStop(r)
    BY <1>2, <1>3, <1>8 DEF OpenBus, ReportConnected, OpenFails, CheckStop, GoTo
  <1>9. CASE RecvTimeout(r) \/ RecvFails(r) \/ Awake(r) \/ RecvOther(r)
             \/ RecvShort(r)
    BY <1>2, <1>3, <1>9 DEF RecvTimeout, RecvFails, Awake, RecvOther, RecvShort,
                            TakeFrame, GoTo
  <1> QED BY <1>4, <1>5, <1>6, <1>7, <1>8, <1>9 DEF Reader

LEMMA ReaderKeeps ==
  ASSUME Inv, NEW r \in Readers, Reader(r)
  PROVE  Inv'
  <1>1. /\ UNCHANGED <<gui, command, made, reader, queue, shown, stop, out>>
        /\ \A s \in Readers \ {r} : /\ pc'[s] = pc[s] /\ frame'[s] = frame[s]
                                    /\ dataQ'[s] = dataQ[s]
        /\ dataQ'[0] = dataQ[0]
    BY ReaderFrame DEF guiVars
  <1>2. GuiInv'
    BY <1>1 DEF Inv, GuiInv
  <1>3. OneLiveReader'
    <2>1. pc[r] \notin {"unborn", "done"}
      BY RunningReader
    <2> QED BY <1>1, <2>1 DEF Inv, OneLiveReader
  <1>4. ASSUME NEW s \in Readers PROVE ReaderInv(s)'
    <2>1. CASE s = r
      BY <2>1, ReaderKeepsOwn
    <2>2. CASE s # r
      BY <1>1, <2>2 DEF Inv, ReaderInv, QueueInv
    <2> QED BY <2>1, <2>2
  <1> QED BY <1>2, <1>3, <1>4, ReaderType DEF Inv

-----------------------------------------------------------------------------
(* Steps of the GUI thread.                                                *)

\* A command begins, and disconnect_can stops the reader there is.
LEMMA BeginKeeps ==
  ASSUME Inv, NEW c \in Commands, Begin(c)
  PROVE  Inv'
  <1>1. UNCHANGED <<made, reader, queue, status, shown, pc, bus, out, frame,
                    dataQ, statusQ, taken>>
    BY DEF Begin
  <1>2. TypeOK'
    BY <1>1 DEF Inv, TypeOK, Begin
  <1>3. GuiInv'
    <2>1. gui' = "stop" => stop'[reader]
      BY DEF Inv, TypeOK, Begin
    <2> QED BY <1>1, <2>1 DEF Inv, GuiInv, Begin
  <1>4. OneLiveReader'
    <2>1. \A r \in Readers : stop[r] => stop'[r]
      BY DEF Inv, TypeOK, Begin
    <2> QED BY <1>1, <2>1 DEF Inv, OneLiveReader
  <1>5. ASSUME NEW r \in Readers PROVE ReaderInv(r)'
    BY <1>1 DEF Inv, ReaderInv, QueueInv
  <1> QED BY <1>2, <1>3, <1>4, <1>5 DEF Inv

\* self.reader is given up only after the reader was told to stop.
LEMMA ShutDownKeeps ==
  ASSUME Inv, ShutDown
  PROVE  Inv'
  <1>1. UNCHANGED <<command, made, queue, status, shown, pc, stop, out, frame,
                    dataQ, statusQ, taken>>
    BY DEF ShutDown
  <1>2. TypeOK'
    BY <1>1 DEF Inv, TypeOK, ShutDown
  <1>3. GuiInv'
    BY <1>1 DEF Inv, GuiInv, ShutDown
  <1>4. OneLiveReader'
    <2>1. reader \in Readers /\ stop[reader] /\ reader' = None
      BY DEF Inv, TypeOK, GuiInv, ShutDown
    <2> QED BY <1>1, <2>1 DEF Inv, OneLiveReader
  <1>5. ASSUME NEW r \in Readers PROVE ReaderInv(r)'
    BY <1>1 DEF Inv, ReaderInv, QueueInv
  <1> QED BY <1>2, <1>3, <1>4, <1>5 DEF Inv

\* The new reader is the only one of its queues, which are empty.
LEMMA ConnectKeeps ==
  ASSUME Inv, Connect
  PROVE  Inv'
  <1>1. /\ made' = made + 1 /\ reader' = made + 1 /\ queue' = made + 1
        /\ statusQ' = << >> /\ gui' = "idle" /\ command' = "none"
        /\ out' = [out EXCEPT ![made + 1] = made + 1]
        /\ pc' = [pc EXCEPT ![made + 1] = "open"]
        /\ status' = "connecting"
        /\ UNCHANGED <<shown, stop, bus, frame, dataQ, taken>>
    BY DEF Connect, GoTo
  <1>2. made \in Nat /\ made + 1 \in Readers /\ reader = None
    BY DEF Inv, GuiInv, TypeOK, Connect
  <1>3. TypeOK'
    BY <1>1, <1>2 DEF Inv, TypeOK, ReaderPlaces, Kinds
  <1>4. GuiInv'
    BY <1>1, <1>2 DEF Inv, GuiInv
  <1>5. OneLiveReader'
    BY <1>1, <1>2 DEF Inv, TypeOK, OneLiveReader
  <1>6. ASSUME NEW r \in Readers PROVE ReaderInv(r)'
    <2>1. /\ ReaderInv(r) /\ pc \in [Readers -> ReaderPlaces]
          /\ out \in [Readers -> Queues]
      BY DEF Inv, TypeOK
    <2>2. CASE r = made + 1
      <3>1. pc'[r] = "open" /\ out'[r] = r
        BY <1>1, <2>1, <2>2
      <3> QED BY <1>1, <1>2, <2>1, <2>2, <3>1 DEF ReaderInv, QueueInv
    <2>3. CASE r # made + 1
      <3>1. pc'[r] = pc[r] /\ out'[r] = out[r] /\ (r <= made' => r <= made)
        BY <1>1, <1>2, <2>1, <2>3
      <3> QED BY <1>1, <1>2, <2>1, <2>3, <3>1 DEF ReaderInv, QueueInv
    <2> QED BY <2>2, <2>3
  <1> QED BY <1>3, <1>4, <1>5, <1>6 DEF Inv

LEMMA EndCommandKeeps ==
  ASSUME Inv, ConnectBadId \/ Disconnect \/ Close
  PROVE  Inv'
  <1>1. /\ UNCHANGED <<made, reader, queue, shown, readerVars, dataQ, statusQ,
                       taken>>
        /\ gui' \in {"idle", "closed"} /\ command' = "none"
        /\ status' \in {status, "disconnected"}
    BY DEF ConnectBadId, Disconnect, Close
  <1>2. TypeOK'
    BY <1>1 DEF Inv, TypeOK, readerVars
  <1>3. GuiInv' /\ OneLiveReader'
    BY <1>1 DEF Inv, GuiInv, OneLiveReader, readerVars
  <1>4. ASSUME NEW r \in Readers PROVE ReaderInv(r)'
    BY <1>1 DEF Inv, ReaderInv, QueueInv, readerVars
  <1> QED BY <1>2, <1>3, <1>4 DEF Inv

LEMMA PollStatusKeeps ==
  ASSUME Inv, PollStatus \/ DataPolled
  PROVE  Inv'
  <1>1. /\ UNCHANGED <<command, made, reader, queue, shown, readerVars, dataQ,
                       taken>>
        /\ gui' \in {"idle", "data"}
    BY DEF PollStatus, DataPolled
  <1>2. TypeOK'
    <2>1. statusQ' \in Seq(Kinds)
      <3>1. CASE PollStatus
        BY <3>1 DEF PollStatus
      <3>2. CASE DataPolled
        BY <3>2 DEF Inv, TypeOK, DataPolled
      <3> QED BY <3>1, <3>2
    <2>2. statusQ # << >> => statusQ[Len(statusQ)] \in Kinds
      BY DEF Inv, TypeOK
    <2>3. status' \in Kinds \cup {"ready", "connecting", "disconnected"}
      BY <2>2 DEF Inv, TypeOK, PollStatus, DataPolled
    <2> QED BY <1>1, <2>1, <2>3 DEF Inv, TypeOK, readerVars
  <1>3. GuiInv' /\ OneLiveReader'
    BY <1>1 DEF Inv, GuiInv, OneLiveReader, readerVars
  <1>4. ASSUME NEW r \in Readers PROVE ReaderInv(r)'
    BY <1>1 DEF Inv, ReaderInv, QueueInv, readerVars
  <1> QED BY <1>2, <1>3, <1>4 DEF Inv

\* What PollData shows: the one frame of the queue of the last connection.
LEMMA PolledFrame ==
  ASSUME Inv, PollData
  PROVE  /\ made \in Readers /\ dataQ[made] = <<shown'>>
         /\ shown' \in Frames /\ shown <= shown' /\ shown' <= frame[made]
         /\ dataQ' = [dataQ EXCEPT ![made] = << >>]
  <1>1. queue = made /\ dataQ[0] = << >> /\ dataQ[made] # << >>
    BY DEF Inv, GuiInv, PollData
  <1>2. made \in Readers
    BY <1>1 DEF Inv, TypeOK
  <1>3. PICK n \in Frames : /\ dataQ[made] = <<n>> /\ n <= frame[made]
                            /\ shown <= n
    BY <1>1, <1>2 DEF Inv, ReaderInv, QueueInv
  <1>4. Head(<<n>>) = n /\ Tail(<<n>>) = << >>
    OBVIOUS
  <1>5. shown' = n /\ dataQ' = [dataQ EXCEPT ![made] = << >>]
    BY <1>1, <1>3, <1>4 DEF PollData
  <1> QED BY <1>2, <1>3, <1>5

LEMMA PollDataKeeps ==
  ASSUME Inv, PollData
  PROVE  Inv'
  <1>1. UNCHANGED <<gui, command, made, reader, queue, status, pc, stop, bus,
                    out, frame, statusQ, taken>>
    BY DEF PollData, readerVars
  <1>2. /\ dataQ \in [Queues -> Seq(Frames)] /\ << >> \in Seq(Frames)
        /\ frame \in [Readers -> 0 .. taken] /\ taken \in 0 .. MaxFrames
    BY DEF Inv, TypeOK
  <1>3. TypeOK'
    <2>1. dataQ' \in [Queues -> Seq(Frames)]
      BY <1>2, PolledFrame
    <2>2. shown' \in 0 .. taken
      BY <1>2, PolledFrame
    <2> QED BY <1>1, <2>1, <2>2 DEF Inv, TypeOK
  <1>4. GuiInv' /\ OneLiveReader'
    <2>1. dataQ'[0] = dataQ[0]
      BY <1>2, PolledFrame
    <2>2. gui = "data"
      BY DEF PollData
    <2> QED BY <1>1, <2>1, <2>2 DEF Inv, GuiInv, OneLiveReader
  <1>5. ASSUME NEW r \in Readers PROVE ReaderInv(r)'
    <2>1. ReaderInv(r)
      BY DEF Inv
    <2>2. CASE r = made
      <3>1. dataQ'[r] = << >> /\ dataQ[r] = <<shown'>> /\ shown' <= frame[r]
        BY <1>2, <2>2, PolledFrame
      <3>2. <<shown'>> = <<frame[r]>> => shown' = frame[r]
        OBVIOUS
      <3>3. <<shown'>> # << >>
        OBVIOUS
      <3> QED BY <1>1, <2>1, <2>2, <3>1, <3>2, <3>3 DEF ReaderInv, QueueInv
    <2>3. CASE r # made
      <3>1. dataQ'[r] = dataQ[r]
        BY <1>2, <2>3, PolledFrame
      <3> QED BY <1>1, <2>1, <2>3, <3>1 DEF ReaderInv, QueueInv
    <2> QED BY <2>2, <2>3
  <1> QED BY <1>3, <1>4, <1>5 DEF Inv

-----------------------------------------------------------------------------
(* The theorems.                                                           *)

LEMMA GuiKeeps == ASSUME Inv, Gui PROVE Inv'
  BY ShutDownKeeps, ConnectKeeps, EndCommandKeeps, PollStatusKeeps,
     PollDataKeeps DEF Gui

LEMMA InvNext == Inv /\ [Next]_vars => Inv'
  <1> SUFFICES ASSUME Inv, [Next]_vars PROVE Inv'
    OBVIOUS
  <1>1. CASE Gui
    BY <1>1, GuiKeeps
  <1>2. CASE \E c \in Commands : Begin(c)
    BY <1>2, BeginKeeps
  <1>3. CASE \E r \in Readers : Reader(r)
    BY <1>3, ReaderKeeps
  <1>4. CASE UNCHANGED vars
    <2>1. TypeOK'
      BY <1>4 DEF Inv, TypeOK, vars, guiVars, readerVars
    <2>2. GuiInv' /\ OneLiveReader'
      BY <1>4 DEF Inv, GuiInv, OneLiveReader, vars, guiVars, readerVars
    <2>3. ASSUME NEW r \in Readers PROVE ReaderInv(r)'
      BY <1>4 DEF Inv, ReaderInv, QueueInv, vars, guiVars, readerVars
    <2> QED BY <2>1, <2>2, <2>3 DEF Inv
  <1> QED BY <1>1, <1>2, <1>3, <1>4 DEF Next

LEMMA InvHolds == Spec => []Inv
  BY InvInit, InvNext, PTL DEF Spec

\* The state of both threads keeps its types, and disconnect_can shuts down
\* only a reader there is.
THEOREM TypeCorrect == Spec => []TypeOK
  <1>1. Inv => TypeOK
    BY DEF Inv
  <1> QED BY <1>1, InvHolds, PTL

\* However connects, disconnects and slow opens interleave, a reader that was
\* not told to stop is the one of the current connection.
THEOREM OneReaderIsLive == Spec => []OneLiveReader
  <1>1. Inv => OneLiveReader
    BY DEF Inv
  <1> QED BY <1>1, InvHolds, PTL

\* A reader begins to receive only after it has looked at its stop event, and
\* the bus of one that is told to stop while it receives is shut down before
\* self.reader is given up.
LEMMA ReceivingNext ==
  ASSUME Inv, OnlyCurrentReceives, [Next]_vars
  PROVE  OnlyCurrentReceives'
  <1>1. /\ pc \in [Readers -> ReaderPlaces] /\ reader \in {None, made}
        /\ bus \in [Readers -> {"none", "open", "closed"}]
        /\ made \in Queues /\ (gui = "stop" => reader # None)
        /\ gui = "act" => reader = None
        /\ command = "connect" => made < MaxConnects
    BY DEF Inv, TypeOK, GuiInv
  <1>2. ASSUME NEW s \in Readers, Reader(s) PROVE OnlyCurrentReceives'
    <2>1. /\ reader' = reader /\ \A r \in Readers \ {s} : pc'[r] = pc[r]
          /\ \A r \in Readers \ {s} : bus'[r] = bus[r]
      BY <1>1, <1>2, ReaderFrame
      DEF guiVars, Reader, OpenBus, ReportConnected, OpenFails, CheckStop,
          RecvTimeout, RecvFails, Awake, TakeFrame, RecvOther, RecvShort,
          RecvDistances, Discard, NothingToDiscard, Put
    <2>2. CASE CheckStop(s)
      <3>1. pc[s] = "loop" /\ (pc'[s] = "recv" => ~stop[s])
        BY <1>1, <2>2 DEF CheckStop, GoTo
      <3>2. pc'[s] = "recv" => s = reader
        BY <3>1 DEF Inv, OneLiveReader
      <3> QED BY <2>1, <3>2 DEF OnlyCurrentReceives
    <2>3. CASE ~CheckStop(s)
      <3>1. pc'[s] # "recv"
        BY <1>1, <1>2, <2>3
        DEF Reader, OpenBus, ReportConnected, OpenFails, RecvTimeout, RecvFails,
            Awake, RecvOther, RecvShort, RecvDistances, Discard,
            NothingToDiscard, Put, GoTo
      <3> QED BY <2>1, <3>1 DEF OnlyCurrentReceives
    <2> QED BY <2>2, <2>3
  <1>3. CASE ShutDown
    <2>1. reader \in Readers /\ pc' = pc /\ reader' = None
          /\ bus' = [bus EXCEPT ![reader] = IF @ = "open" THEN "closed" ELSE @]
      BY <1>1, <1>3 DEF ShutDown
    <2>2. \A r \in Readers : bus'[r] = "open" => r # reader /\ bus[r] = "open"
      BY <1>1, <2>1
    <2> QED BY <2>1, <2>2 DEF OnlyCurrentReceives
  <1>4. CASE Connect
    <2>1. reader = None /\ bus' = bus /\ made + 1 \in Readers
          /\ pc' = [pc EXCEPT ![made + 1] = "open"]
      BY <1>1, <1>4 DEF Connect, GoTo
    <2>2. \A r \in Readers : pc'[r] = "recv" => pc[r] = "recv"
      BY <1>1, <2>1
    <2> QED BY <2>1, <2>2 DEF OnlyCurrentReceives
  <1>5. CASE UNCHANGED <<pc, bus, reader>>
    BY <1>5 DEF OnlyCurrentReceives
  <1>6. CASE \/ ConnectBadId \/ Disconnect \/ Close \/ PollStatus \/ PollData
             \/ DataPolled \/ (\E c \in Commands : Begin(c)) \/ UNCHANGED vars
    BY <1>5, <1>6
    DEF ConnectBadId, Disconnect, Close, PollStatus, PollData, DataPolled,
        Begin, vars, guiVars, readerVars
  <1> QED BY <1>2, <1>3, <1>4, <1>6 DEF Next, Gui

\* No frame of the adapter goes to a reader of an earlier connection, not even
\* when stop came too early to shut its bus down.
THEOREM FramesGoToTheCurrent == Spec => []OnlyCurrentReceives
  <1>1. Init => OnlyCurrentReceives
    BY DEF Init, OnlyCurrentReceives
  <1> QED BY <1>1, InvHolds, ReceivingNext, PTL DEF Spec

\* _put_latest never loses the newest frame of the connection that is polled,
\* whatever the GUI takes in between and however large its queue is.
THEOREM PutLatestKeepsTheNewest == Spec => []NewestKept
  <1>1. Inv => NewestKept
    <2> SUFFICES ASSUME Inv, NEW r \in Readers, out[r] = queue, frame[r] # 0,
                        pc[r] \notin {"drain", "put", "full"}
                 PROVE  dataQ[queue] = <<frame[r]>>
                        \/ (dataQ[queue] = << >> /\ shown = frame[r])
      BY DEF NewestKept
    <2>1. ReaderInv(r) /\ queue = made /\ made \in Queues /\ r \in Readers
      BY DEF Inv, GuiInv, TypeOK
    <2>2. r <= made
      BY <2>1 DEF ReaderInv
    <2>3. r = made
      BY <2>1, <2>2 DEF ReaderInv
    <2> QED BY <2>1, <2>3 DEF ReaderInv
  <1> QED BY <1>1, InvHolds, PTL

\* The screen never goes back to an older frame, across any number of
\* reconnects.
THEOREM ScreenGoesForward == Spec => ShownInOrder
  <1>1. Inv /\ [Next]_vars => [shown' >= shown]_shown
    <2> SUFFICES ASSUME Inv, [Next]_vars, shown' # shown PROVE shown' >= shown
      OBVIOUS
    <2>1. \A r \in Readers : ~Reader(r)
      BY ReaderFrame DEF guiVars
    <2>2. \A c \in Commands : ~Begin(c)
      BY DEF Begin
    <2>3. PollData
      BY <2>1, <2>2 DEF Next, Gui, ShutDown, Connect, ConnectBadId, Disconnect,
                        Close, PollStatus, DataPolled, vars, guiVars
    <2>4. shown <= shown' /\ shown' \in Frames
      BY <2>3, PolledFrame
    <2>5. shown \in 0 .. taken
      BY DEF Inv, TypeOK
    <2> QED BY <2>4, <2>5
  <1> QED BY <1>1, InvHolds, PTL DEF Spec, ShownInOrder
=============================================================================
