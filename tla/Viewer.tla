------------------------------- MODULE Viewer -------------------------------
(***************************************************************************)
(* The PC side of the sensor ECU (ustest.py): each connection has a reader *)
(* thread that takes CAN FD frames from its adapter and leaves the newest  *)
(* in a queue of one frame; the GUI thread polls the queue, and starts and *)
(* stops readers as its user asks.  Frames are numbered as they are taken.  *)
(***************************************************************************)
EXTENDS Naturals, Sequences

CONSTANTS
  QueueSize,     \* LATEST_FRAME_QUEUE_SIZE: 1
  MaxConnects,   \* bound: how often the user connects
  MaxFrames,     \* bound: frames the readers take from their adapters
  MaxStatus      \* bound: waiting status messages at which a bus stops failing

ASSUME QueueAssumption == QueueSize \in Nat \ {0}
ASSUME ViewerBounds == /\ MaxConnects \in Nat
                       /\ MaxFrames \in Nat
                       /\ MaxStatus \in Nat

None    == 0
Readers == 1 .. MaxConnects
Queues  == 0 .. MaxConnects   \* queue 0: the pair made by the constructor
Frames  == 1 .. MaxFrames

VARIABLES
  gui,      \* what the GUI thread is doing
  command,  \* the command it carries out, or "none"
  made,     \* connections so far
  reader,   \* self.reader: the reader of the last connection, or None
  queue,    \* which data_queue and status_queue the GUI polls
  status,   \* the status line
  shown,    \* last_data
  pc,       \* where each reader is in run or in _put_latest
  stop,     \* _stop_event of each reader
  bus,      \* _bus of each reader
  out,      \* which queues each reader writes
  frame,    \* the last frame each reader decoded
  dataQ,    \* the data queues
  statusQ,  \* the status queue the GUI polls; nobody reads a replaced one
  taken     \* frames taken from adapters: the number of the last one

guiVars    == <<gui, command, made, reader, queue, status, shown>>
readerVars == <<pc, stop, bus, out, frame>>
vars == <<guiVars, readerVars, dataQ, statusQ, taken>>

Commands == {"connect", "bad id", "disconnect", "close"}

Init ==
  /\ gui = "idle" /\ command = "none"
  /\ made = 0 /\ reader = None /\ queue = 0
  /\ status = "ready" /\ shown = 0
  /\ pc = [r \in Readers |-> "unborn"]
  /\ stop = [r \in Readers |-> FALSE]
  /\ bus = [r \in Readers |-> "none"]
  /\ out = [r \in Readers |-> 0]
  /\ frame = [r \in Readers |-> 0]
  /\ dataQ = [q \in Queues |-> << >>] /\ statusQ = << >>
  /\ taken = 0

-----------------------------------------------------------------------------
(* The reader thread.                                                      *)

GoTo(r, place) == pc' = [pc EXCEPT ![r] = place]
Report(r, kind) ==
  statusQ' = IF out[r] = queue THEN Append(statusQ, kind) ELSE statusQ

\* make_pcan_fd_bus succeeds: the adapter hands out frames from now on.
OpenBus(r) ==
  /\ pc[r] = "open"
  /\ bus' = [bus EXCEPT ![r] = "open"]
  /\ GoTo(r, "connected")
  /\ UNCHANGED <<guiVars, stop, out, frame, dataQ, statusQ, taken>>

\* Mutant of ReportConnected: the first frame is awaited before the check.
ReportThenReceive(r) ==
  /\ pc[r] = "connected"
  /\ Report(r, "connected")
  /\ GoTo(r, "recv")
  /\ UNCHANGED <<guiVars, stop, bus, out, frame, dataQ, taken>>

ReportConnected(r) ==
  /\ pc[r] = "connected"
  /\ Report(r, "connected")
  /\ GoTo(r, "loop")
  /\ UNCHANGED <<guiVars, stop, bus, out, frame, dataQ, taken>>

\* Mutant of OpenFails: the thread returns before it reports.
OpenFailsSilently(r) ==
  /\ pc[r] = "open"
  /\ GoTo(r, "done")
  /\ UNCHANGED <<guiVars, stop, bus, out, frame, dataQ, statusQ, taken>>

\* No driver, no adapter, or the channel is still in use.
OpenFails(r) ==
  /\ pc[r] = "open"
  /\ Report(r, "error")
  /\ GoTo(r, "done")
  /\ UNCHANGED <<guiVars, stop, bus, out, frame, dataQ, taken>>

CheckStop(r) ==
  /\ pc[r] = "loop"
  /\ GoTo(r, IF stop[r] THEN "done" ELSE "recv")
  /\ UNCHANGED <<guiVars, stop, bus, out, frame, dataQ, statusQ, taken>>

\* recv gives None: nothing came within CAN_RECV_TIMEOUT_S.
RecvTimeout(r) ==
  /\ pc[r] = "recv" /\ bus[r] = "open"
  /\ GoTo(r, "loop")
  /\ UNCHANGED <<guiVars, stop, bus, out, frame, dataQ, statusQ, taken>>

\* recv raises: the bus was shut down under the reader, or is disturbed.
RecvFails(r) ==
  /\ pc[r] = "recv"
  /\ bus[r] = "open" => Len(statusQ) < MaxStatus
  /\ Report(r, "error")
  /\ GoTo(r, "sleep")
  /\ UNCHANGED <<guiVars, stop, bus, out, frame, dataQ, taken>>

\* Mutant of Awake: after an error recv is tried again and again.
AwakeAndRetry(r) ==
  /\ pc[r] = "sleep"
  /\ GoTo(r, "recv")
  /\ UNCHANGED <<guiVars, stop, bus, out, frame, dataQ, statusQ, taken>>

Awake(r) ==
  /\ pc[r] = "sleep"
  /\ GoTo(r, "loop")
  /\ UNCHANGED <<guiVars, stop, bus, out, frame, dataQ, statusQ, taken>>

\* recv hands out the next frame.
TakeFrame(r) ==
  /\ pc[r] = "recv" /\ bus[r] = "open"
  /\ taken < MaxFrames /\ taken' = taken + 1

\* A frame of another identifier, or with an extended one.
RecvOther(r) ==
  /\ TakeFrame(r)
  /\ GoTo(r, "loop")
  /\ UNCHANGED <<guiVars, stop, bus, out, frame, dataQ, statusQ>>

\* decode_ultrasonic_payload raises: fewer than 23 bytes.
RecvShort(r) ==
  /\ TakeFrame(r)
  /\ Report(r, "warn")
  /\ GoTo(r, "loop")
  /\ UNCHANGED <<guiVars, stop, bus, out, frame, dataQ>>

\* Mutant of RecvDistances: the queue is not emptied before the put.
RecvWithoutDrain(r) ==
  /\ TakeFrame(r)
  /\ frame' = [frame EXCEPT ![r] = taken']
  /\ GoTo(r, "put")
  /\ UNCHANGED <<guiVars, stop, bus, out, dataQ, statusQ>>

\* A distance frame is decoded; _put_latest is entered.
RecvDistances(r) ==
  /\ TakeFrame(r)
  /\ frame' = [frame EXCEPT ![r] = taken']
  /\ GoTo(r, "drain")
  /\ UNCHANGED <<guiVars, stop, bus, out, dataQ, statusQ>>

\* get_nowait takes a frame out: in the loop that empties the queue, or
\* ("full") to make room after a put that found it full.
Discard(r) ==
  /\ pc[r] \in {"drain", "full"} /\ dataQ[out[r]] # << >>
  /\ dataQ' = [dataQ EXCEPT ![out[r]] = Tail(@)]
  /\ GoTo(r, IF pc[r] = "drain" THEN "drain" ELSE "put")
  /\ UNCHANGED <<guiVars, stop, bus, out, frame, statusQ, taken>>

\* get_nowait raises Empty: the loop ends, or the new frame is given up.
NothingToDiscard(r) ==
  /\ pc[r] \in {"drain", "full"} /\ dataQ[out[r]] = << >>
  /\ GoTo(r, IF pc[r] = "drain" THEN "put" ELSE "loop")
  /\ UNCHANGED <<guiVars, stop, bus, out, frame, dataQ, statusQ, taken>>

\* put_nowait, which raises Full at QueueSize frames.
Put(r) ==
  LET full == Len(dataQ[out[r]]) >= QueueSize
  IN /\ pc[r] = "put"
     /\ dataQ' = IF full THEN dataQ
                 ELSE [dataQ EXCEPT ![out[r]] = Append(@, frame[r])]
     /\ GoTo(r, IF full THEN "full" ELSE "loop")
     /\ UNCHANGED <<guiVars, stop, bus, out, frame, statusQ, taken>>

Reader(r) ==
  \/ OpenBus(r) \/ ReportConnected(r) \/ OpenFails(r) \/ CheckStop(r)
  \/ RecvTimeout(r) \/ RecvFails(r) \/ Awake(r)
  \/ RecvOther(r) \/ RecvShort(r) \/ RecvDistances(r)
  \/ Discard(r) \/ NothingToDiscard(r) \/ Put(r)

-----------------------------------------------------------------------------
(* The GUI thread: commands.                                               *)

\* Mutant of Begin: connect_can does not stop the reader it replaces.
BeginWithoutStop(c) ==
  /\ gui = "idle"
  /\ c = "connect" => made < MaxConnects
  /\ command' = c
  /\ IF reader = None \/ c = "connect"
       THEN gui' = "act" /\ UNCHANGED stop
       ELSE gui' = "stop" /\ stop' = [stop EXCEPT ![reader] = TRUE]
  /\ UNCHANGED <<made, reader, queue, status, shown, pc, bus, out, frame,
                 dataQ, statusQ, taken>>

\* Mutant of Begin: self.reader is not compared with None.
BeginUnchecked(c) ==
  /\ gui = "idle"
  /\ c = "connect" => made < MaxConnects
  /\ command' = c
  /\ gui' = "stop"
  /\ stop' = [r \in Readers |-> stop[r] \/ r = reader]
  /\ UNCHANGED <<made, reader, queue, status, shown, pc, bus, out, frame,
                 dataQ, statusQ, taken>>

\* Every command first runs disconnect_can: the stop event of the current
\* reader, if there is one, is set.
Begin(c) ==
  /\ gui = "idle"
  /\ c = "connect" => made < MaxConnects
  /\ command' = c
  /\ IF reader = None
       THEN gui' = "act" /\ UNCHANGED stop
       ELSE gui' = "stop" /\ stop' = [stop EXCEPT ![reader] = TRUE]
  /\ UNCHANGED <<made, reader, queue, status, shown, pc, bus, out, frame,
                 dataQ, statusQ, taken>>

\* The rest of stop: the bus is shut down if the reader has opened it by now.
ShutDown ==
  /\ gui = "stop"
  /\ bus' = [bus EXCEPT ![reader] = IF @ = "open" THEN "closed" ELSE @]
  /\ reader' = None /\ gui' = "act"
  /\ UNCHANGED <<command, made, queue, status, shown, pc, stop, out,
                 frame, dataQ, statusQ, taken>>

\* Mutant of Connect: the queues of the last connection are used again.
ConnectSharingQueues ==
  /\ gui = "act" /\ command = "connect"
  /\ made' = made + 1 /\ reader' = made'
  /\ out' = [out EXCEPT ![made'] = queue]
  /\ GoTo(made', "open")
  /\ status' = "connecting" /\ gui' = "idle" /\ command' = "none"
  /\ UNCHANGED <<queue, shown, stop, bus, frame, dataQ, statusQ,
                 taken>>

\* Mutant of Connect: the reader is made before the queues are replaced.
ConnectThenReplace ==
  /\ gui = "act" /\ command = "connect"
  /\ made' = made + 1 /\ reader' = made' /\ queue' = made' /\ statusQ' = << >>
  /\ out' = [out EXCEPT ![made'] = queue]
  /\ GoTo(made', "open")
  /\ status' = "connecting" /\ gui' = "idle" /\ command' = "none"
  /\ UNCHANGED <<shown, stop, bus, frame, dataQ, taken>>

\* connect_can: new queues, and a new reader that writes them.
Connect ==
  /\ gui = "act" /\ command = "connect"
  /\ made' = made + 1 /\ reader' = made' /\ queue' = made' /\ statusQ' = << >>
  /\ out' = [out EXCEPT ![made'] = made']
  /\ GoTo(made', "open")
  /\ status' = "connecting" /\ gui' = "idle" /\ command' = "none"
  /\ UNCHANGED <<shown, stop, bus, frame, dataQ, taken>>

\* connect_can returns early on an identifier that is no number: the old
\* reader is stopped and the status line is left as it was.
ConnectBadId ==
  /\ gui = "act" /\ command = "bad id"
  /\ gui' = "idle" /\ command' = "none"
  /\ UNCHANGED <<made, reader, queue, status, shown, readerVars,
                 dataQ, statusQ, taken>>

Disconnect ==
  /\ gui = "act" /\ command = "disconnect"
  /\ status' = "disconnected" /\ gui' = "idle" /\ command' = "none"
  /\ UNCHANGED <<made, reader, queue, shown, readerVars, dataQ,
                 statusQ, taken>>

Close ==
  /\ gui = "act" /\ command = "close"
  /\ gui' = "closed" /\ command' = "none"
  /\ UNCHANGED <<made, reader, queue, status, shown, readerVars,
                 dataQ, statusQ, taken>>

-----------------------------------------------------------------------------
(* The GUI thread: _poll_queues, every GUI_POLL_INTERVAL_MS.               *)

\* The loop over status_queue, in one step: each message goes over the one
\* before it.  It ends, as an error is at least 0.5 s after the last.
PollStatus ==
  /\ gui = "idle" /\ gui' = "data"
  /\ status' = IF statusQ = << >> THEN status ELSE statusQ[Len(statusQ)]
  /\ statusQ' = << >>
  /\ UNCHANGED <<command, made, reader, queue, shown, readerVars, dataQ, taken>>

\* The loop over data_queue, a frame at a time.
PollData ==
  /\ gui = "data" /\ dataQ[queue] # << >>
  /\ shown' = Head(dataQ[queue])
  /\ dataQ' = [dataQ EXCEPT ![queue] = Tail(@)]
  /\ UNCHANGED <<gui, command, made, reader, queue, status, readerVars,
                 statusQ, taken>>

DataPolled ==
  /\ gui = "data" /\ dataQ[queue] = << >>
  /\ gui' = "idle"
  /\ UNCHANGED <<command, made, reader, queue, status, shown, readerVars,
                 dataQ, statusQ, taken>>

\* The GUI thread goes on with what it began, and its timer comes again.
Gui ==
  \/ ShutDown \/ Connect \/ ConnectBadId \/ Disconnect \/ Close
  \/ PollStatus \/ PollData \/ DataPolled

Next ==
  \/ Gui
  \/ \E c \in Commands : Begin(c)
  \/ \E r \in Readers : Reader(r)

\* Threads run and Tk serves its timer; nobody has to click or to send.
Fairness == WF_vars(Gui) /\ \A r \in Readers : WF_vars(Reader(r))

Spec == Init /\ [][Next]_vars /\ Fairness

-----------------------------------------------------------------------------
(* Properties.                                                             *)

ReaderPlaces == {"unborn", "open", "connected", "loop", "recv", "sleep",
                 "drain", "put", "full", "done"}
Kinds == {"connected", "warn", "error"}

\* Types, and what disconnect_can relies on: it stops only a reader it has.
TypeOK ==
  /\ gui \in {"idle", "stop", "act", "data", "closed"}
  /\ command \in Commands \cup {"none"}
  /\ made \in Queues /\ queue \in 0 .. made
  /\ reader \in {None, made}
  /\ status \in Kinds \cup {"ready", "connecting", "disconnected"}
  /\ shown \in 0 .. taken /\ taken \in 0 .. MaxFrames
  /\ pc \in [Readers -> ReaderPlaces]
  /\ stop \in [Readers -> BOOLEAN]
  /\ bus \in [Readers -> {"none", "open", "closed"}]
  /\ out \in [Readers -> Queues]
  /\ frame \in [Readers -> 0 .. taken]
  /\ dataQ \in [Queues -> Seq(Frames)]
  /\ statusQ \in Seq(Kinds)
  /\ gui = "stop" => reader # None

\* At most one reader has not been told to stop, and it is the one of the
\* current connection, however connects and disconnects interleave with
\* readers that are still opening their bus.  A stopped one may still open
\* the adapter: OnlyCurrentReceives is about what it can do with it.
OneLiveReader ==
  \A r \in Readers :
    pc[r] \notin {"unborn", "done"} /\ ~stop[r] => r = reader

\* Frames are taken from an adapter only for the current connection: a reader
\* that opens its bus when stop has already looked for it, and so is left
\* with an open one, never receives from it.
OnlyCurrentReceives ==
  \A r \in Readers : pc[r] = "recv" /\ bus[r] = "open" => r = reader

\* _put_latest loses no newest frame: outside of it the last frame a reader
\* of the polled queue decoded waits in the queue or is on the screen,
\* although the GUI takes frames out between any two of its steps.
NewestKept ==
  \A r \in Readers :
    out[r] = queue /\ frame[r] # 0 /\ pc[r] \notin {"drain", "put", "full"}
    => dataQ[queue] = <<frame[r]>> \/ (dataQ[queue] = << >> /\ shown = frame[r])

\* The screen never goes back to an older frame, not even when a reader that
\* was stopped in the middle of a frame finishes it after the reconnect.
ShownInOrder == [][shown' >= shown]_shown

\* A reader that is told to stop ends, wherever stop meets it: before its
\* bus is open, in recv, in its error pause or in _put_latest.
StoppedReaderEnds ==
  \A r \in Readers : stop[r] ~> pc[r] = "done"

\* A frame the current reader decoded is shown, or a newer one is, unless the
\* user ends the connection first.
NewestShown ==
  \A r \in Readers, n \in Frames :
    reader = r /\ frame[r] = n ~> shown >= n \/ reader # r

\* A connection that cannot be made is reported in the status line, unless
\* the user has gone on by then.
FailureReported ==
  \A r \in Readers :
    reader = r /\ pc[r] = "done" /\ bus[r] = "none"
      ~> status = "error" \/ reader # r
=============================================================================
