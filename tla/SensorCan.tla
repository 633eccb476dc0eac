----------------------------- MODULE SensorCan ------------------------------
(***************************************************************************)
(* The CAN task of the sensor ECU (App_Can.c) and the transmit path of its *)
(* driver (McmcanFd.c): every 100 ms the task copies g_distances into a    *)
(* message, field by field, while the ultrasonic task goes on writing it,  *)
(* and hands the message to transmit buffer 0 of the MCMCAN node.  The bus *)
(* sends a requested buffer whenever it wins arbitration, and the node     *)
(* stores the frames of other nodes in the elements of receive FIFO 0, one *)
(* after the other (CanRx has the FIFO's other side, the interrupt that    *)
(* empties it); the message RAM of the two is configured to overlap.       *)
(***************************************************************************)
EXTENDS Naturals

CONSTANTS
  FieldCount,      \* distances in a message: ULTRASONIC_SENSOR_COUNT
  MaxRetry,        \* the retry limit of sendFrame: 1000
  UpdatesPerCopy,  \* distances that may change while one message is copied
  MaxVersion,      \* bound: how often each distance changes
  FifoSize,        \* rxFifo0Size
  SharedElements,  \* FIFO elements whose bytes overlap transmit buffer 0
  ForeignTraffic,  \* whether other nodes send on the bus
  Foreign,         \* the content of an element another frame was put over
  Empty            \* the content of an element before the first message

Fields   == 1 .. FieldCount
Versions == 0 .. MaxVersion
Boards   == [Fields -> Versions]
FifoElements == 0 .. FifoSize - 1

Contents == Boards \cup {Foreign, Empty}

ASSUME FieldAssumption == FieldCount \in Nat \ {0} /\ MaxVersion \in Nat
ASSUME RetryAssumption == MaxRetry \in Nat \ {0}
ASSUME CopyAssumption  == UpdatesPerCopy \in Nat
ASSUME FifoAssumption  == /\ FifoSize \in Nat \ {0}
                          /\ SharedElements \subseteq FifoElements
                          /\ ForeignTraffic \in BOOLEAN
ASSUME ContentAssumption == Foreign \notin Boards /\ Empty \notin Boards

VARIABLES
  board,      \* g_distances: how often each distance has changed
  pc,         \* the CAN task's place
  field,      \* the next field sendUltrasonicDistanceMessage copies
  message,    \* its local message
  retry,      \* sendFrame's retry counter
  txElement,  \* transmit buffer 0 in message RAM
  txPending,  \* its transmission request bit
  busOff,     \* the node has left the bus
  delivered,  \* the last frame sent on the bus
  rxPut,      \* put index of receive FIFO 0
  written,    \* history: the message of the last request
  seen,       \* history: the boards since the copy began
  updates     \* distances changed since the copy began

taskVars == <<pc, field, message, retry>>
vars == <<board, taskVars, txElement, txPending, busOff, delivered, rxPut,
          written, seen, updates>>

Steps == {"init", "copy", "try", "write", "request", "sleep"}

Init ==
  /\ board = [f \in Fields |-> 0]
  /\ pc = "init"
  /\ field = 1
  /\ message = [f \in Fields |-> 0]
  /\ retry = 0
  /\ txElement = Empty /\ txPending = FALSE
  /\ busOff = FALSE
  /\ delivered = Empty
  /\ rxPut = 0
  /\ written = Empty
  /\ seen = {} /\ updates = 0

-----------------------------------------------------------------------------
(* The ultrasonic task: one distance changes.                              *)

\* While a message is being copied at most UpdatesPerCopy distances change:
\* two results of the measurement are at least the guard time apart.
UpdateDistance(f) ==
  /\ board[f] < MaxVersion
  /\ pc = "copy" => updates < UpdatesPerCopy
  /\ board' = [board EXCEPT ![f] = @ + 1]
  /\ IF pc = "copy"
       THEN seen' = seen \cup {board'} /\ updates' = updates + 1
       ELSE UNCHANGED <<seen, updates>>
  /\ UNCHANGED <<taskVars, txElement, txPending, busOff, delivered, rxPut,
                 written>>

-----------------------------------------------------------------------------
(* The CAN task.                                                           *)

\* Mutant of StartCopy: the first field is left from the message before.
StartCopySkipsFirst ==
  /\ pc \in {"init", "sleep"}
  /\ pc' = "copy" /\ field' = 2
  /\ seen' = {board} /\ updates' = 0
  /\ UNCHANGED <<board, message, retry, txElement, txPending, busOff,
                 delivered, rxPut, written>>

\* Mutant of StartCopy: the message is copied once and sent again and again.
StartCopyOnce ==
  /\ pc \in {"init", "sleep"}
  /\ pc' = IF pc = "init" THEN "copy" ELSE "try"
  /\ field' = 1 /\ retry' = 0
  /\ seen' = {board} /\ updates' = 0
  /\ UNCHANGED <<board, message, txElement, txPending, busOff, delivered,
                 rxPut, written>>

\* Entering sendUltrasonicDistanceMessage, first after CanApp_Init and then
\* each time vTaskDelay expires.
StartCopy ==
  /\ pc \in {"init", "sleep"}
  /\ pc' = "copy" /\ field' = 1
  /\ seen' = {board} /\ updates' = 0
  /\ UNCHANGED <<board, message, retry, txElement, txPending, busOff,
                 delivered, rxPut, written>>

\* message.<field> = g_distances[...], one 16-bit access.
CopyField ==
  /\ pc = "copy" /\ field \in Fields
  /\ message' = [message EXCEPT ![field] = board[field]]
  /\ field' = field + 1
  /\ UNCHANGED <<board, pc, retry, txElement, txPending, busOff, delivered,
                 rxPut, written, seen, updates>>

\* The call of sendFrame: the message is copied to txData, retry starts at 0.
EnterSendFrame ==
  /\ pc = "copy" /\ field > FieldCount
  /\ pc' = "try" /\ retry' = 0
  /\ UNCHANGED <<board, field, message, txElement, txPending, busOff,
                 delivered, rxPut, written, seen, updates>>

\* Mutant of BufferBusy: retry <= limit, one attempt too many.
BufferBusyOneMore ==
  /\ pc = "try" /\ txPending
  /\ retry' = retry + 1
  /\ pc' = IF retry' <= MaxRetry THEN "try" ELSE "sleep"
  /\ UNCHANGED <<board, field, message, txElement, txPending, busOff,
                 delivered, rxPut, written, seen, updates>>

\* Mutant of BufferBusy: retry until success, without a limit.
BufferBusyForever ==
  /\ pc = "try" /\ txPending
  /\ UNCHANGED vars

\* IfxCan_Can_sendMessage finds the buffer still pending: notSentBusy.  After
\* MaxRetry attempts the message is given up without a report.
BufferBusy ==
  /\ pc = "try" /\ txPending
  /\ retry' = retry + 1
  /\ pc' = IF retry' < MaxRetry THEN "try" ELSE "sleep"
  /\ UNCHANGED <<board, field, message, txElement, txPending, busOff,
                 delivered, rxPut, written, seen, updates>>

\* Mutant of BufferFree: the request bit is not looked at.
BufferFreeUnchecked ==
  /\ pc = "try"
  /\ pc' = "write"
  /\ UNCHANGED <<board, field, message, retry, txElement, txPending, busOff,
                 delivered, rxPut, written, seen, updates>>

BufferFree ==
  /\ pc = "try" /\ ~txPending
  /\ pc' = "write"
  /\ UNCHANGED <<board, field, message, retry, txElement, txPending, busOff,
                 delivered, rxPut, written, seen, updates>>

\* The element is filled in message RAM ...
WriteElement ==
  /\ pc = "write"
  /\ txElement' = message
  /\ pc' = "request"
  /\ UNCHANGED <<board, field, message, retry, txPending, busOff, delivered,
                 rxPut, written, seen, updates>>

\* ... and only then its transmission is requested; sendFrame returns.
RequestTransmission ==
  /\ pc = "request"
  /\ txPending' = TRUE
  /\ written' = message
  /\ retry' = retry + 1
  /\ pc' = "sleep"
  /\ UNCHANGED <<board, field, message, txElement, busOff, delivered, rxPut,
                 seen, updates>>

CanTask ==
  \/ StartCopy \/ CopyField \/ EnterSendFrame \/ BufferBusy \/ BufferFree
  \/ WriteElement \/ RequestTransmission

-----------------------------------------------------------------------------
(* The node and the bus, modelled from how the driver uses them.           *)

\* The pending buffer wins arbitration and is sent as it is in message RAM.
Transmit ==
  /\ txPending /\ ~busOff
  /\ delivered' = txElement
  /\ txPending' = FALSE
  /\ UNCHANGED <<board, taskVars, txElement, busOff, rxPut, written, seen,
                 updates>>

\* Too many errors: the node leaves the bus.  No code brings it back.
GoBusOff ==
  /\ ~busOff /\ busOff' = TRUE
  /\ UNCHANGED <<board, taskVars, txElement, txPending, delivered, rxPut,
                 written, seen, updates>>

\* A frame of another node.  No filter is configured, so it is accepted to
\* FIFO 0, over whatever its bytes are shared with.
ReceiveForeign ==
  /\ ForeignTraffic /\ ~busOff
  /\ rxPut' = (rxPut + 1) % FifoSize
  /\ txElement' = IF rxPut \in SharedElements THEN Foreign ELSE txElement
  /\ UNCHANGED <<board, taskVars, txPending, busOff, delivered, written, seen,
                 updates>>

Next ==
  \/ CanTask \/ Transmit \/ GoBusOff \/ ReceiveForeign
  \/ \E f \in Fields : UpdateDistance(f)

\* The scheduler runs the task; the bus serves a pending frame some time.
Fairness == WF_vars(CanTask) /\ WF_vars(Transmit)

Spec == Init /\ [][Next]_vars /\ Fairness

-----------------------------------------------------------------------------
(* Properties.                                                             *)

TypeOK ==
  /\ board \in Boards /\ message \in Boards
  /\ pc \in Steps
  /\ field \in 1 .. FieldCount + 1
  /\ retry \in 0 .. MaxRetry
  /\ txElement \in Contents /\ delivered \in Contents /\ written \in Contents
  /\ txPending \in BOOLEAN /\ busOff \in BOOLEAN
  /\ rxPut \in FifoElements
  /\ seen \subseteq Boards /\ updates \in 0 .. UpdatesPerCopy

\* A finished message is the board at one moment of its copy, although its
\* fields are read one by one and the ultrasonic task may run in between.
SnapshotIsAtomic == pc \in {"try", "write", "request"} => message \in seen

\* What waits in the transmit buffer is the message that was requested.
FrameIntact == txPending => txElement = written

\* What else can get into the transmit buffer: with the areas of the message
\* RAM that McmcanFd_Init configures, the frames of other nodes.
Overwrites == IF ForeignTraffic /\ SharedElements # {} THEN {Foreign} ELSE {}

\* sendFrame never touches a message that waits: what is sent, or waits, is
\* the message of the last request, never one of a later, still unrequested
\* attempt or a mixture; only a received frame can replace it, and only where
\* the layout lets one.
RequestedIsSent ==
  /\ txPending => txElement \in {written} \cup Overwrites
  /\ ~txPending => delivered \in {written} \cup Overwrites

\* Every message leaves sendFrame, sent or given up, even when the bus is
\* gone: the CAN task cannot hang in its retry loop.
SendTerminates == pc = "try" ~> pc = "sleep"

\* Once the distances stay what they are, the bus ends up showing them,
\* unless the node leaves the bus: a message given up is made good later.
BoardReachesBus ==
  \A b \in Boards :
    []~busOff /\ <>[](board = b) => <>[](delivered = b)
=============================================================================
