-------------------------------- MODULE CanRx --------------------------------
(***************************************************************************)
(* The receive path of the CAN driver (McmcanFd.c) as the judgment and the *)
(* motor ECU build it: receive FIFO 0 of the MCMCAN node, the interrupt    *)
(* handler that takes one frame per interrupt and copies it to the mailbox *)
(* of its command, and the Recv functions with which the tasks poll the    *)
(* mailboxes.  The handler runs on the core of the tasks and interrupts    *)
(* them between any two accesses; the bus goes on while it runs.           *)
(*                                                                         *)
(* A frame is its identifier and a number, in the order of the bus.        *)
(***************************************************************************)
EXTENDS Naturals, Sequences

CONSTANTS
  Commands,  \* the identifiers the build has a mailbox for
  Others,    \* identifiers of other frames accepted to the FIFO
  FifoSize,  \* rxFifo0Size
  Words,     \* accesses in which memcpy copies a mailbox to *out
  Repeats,   \* a frame stored while RF0N is set requests the interrupt anew
  Paced,     \* frames come only when the handler of the last one is done
  MaxSent    \* bound on the frames of a behaviour

ASSUME IdAssumption   == Commands \cap Others = {}
ASSUME SizeAssumption == FifoSize \in Nat \ {0} /\ Words \in Nat \ {0}
ASSUME PaceAssumption == Repeats \in BOOLEAN /\ Paced \in BOOLEAN
ASSUME SentAssumption == MaxSent \in Nat

VARIABLES
  sent,        \* frames so far on the bus
  fifo,        \* the stored frames, oldest first
  newMessage,  \* RF0N
  request,     \* the interrupt waits to be served
  isr,         \* the handler's place, "off" when it does not run
  frame,       \* its rxMsg and rxData
  mailbox,     \* s_latest<command>: the frame it was copied from, 0 for none
  ready,       \* s_rx<command>Ready
  task,        \* the place of the task that polls each mailbox
  out,         \* what its Recv has copied so far, a number per word
  received     \* history: what its last Recv that returned TRUE had in *out

rxVars   == <<newMessage, request, isr, frame>>
taskVars == <<task, out, received>>
vars == <<sent, fifo, rxVars, mailbox, ready, taskVars>>

Numbers == 0 .. MaxSent
Frames  == [id : Commands \cup Others, no : Numbers]
Copies  == UNION { [1 .. n -> Numbers] : n \in 0 .. Words }

IsrSteps  == {"off", "read", "store", "clear"}
TaskSteps == {"idle", "copy"}

Init ==
  /\ sent = 0
  /\ fifo = << >>
  /\ newMessage = FALSE /\ request = FALSE
  /\ isr = "off" /\ frame \in [id : Others, no : {0}]
  /\ mailbox = [c \in Commands |-> 0]
  /\ ready = [c \in Commands |-> FALSE]
  /\ task = [c \in Commands |-> "idle"]
  /\ out = [c \in Commands |-> << >>]
  /\ received = [c \in Commands |-> [w \in 1 .. Words |-> 0]]

-----------------------------------------------------------------------------
(* The node, modelled from how the driver configures and uses it.          *)

\* Another ECU sends a frame of this identifier.
Send ==
  /\ sent < MaxSent
  /\ Paced => isr = "off" /\ ~request
  /\ sent' = sent + 1

\* It is stored, RF0N set, and the interrupt requested when RF0N rises.
StoreFrame(i) ==
  /\ Send
  /\ Len(fifo) < FifoSize
  /\ fifo' = Append(fifo, [id |-> i, no |-> sent'])
  /\ newMessage' = TRUE
  /\ request' = (request \/ ~newMessage \/ Repeats)
  /\ UNCHANGED <<isr, frame, mailbox, ready, taskVars>>

\* The blocking FIFO is full: the frame is lost and nothing is signalled.
LoseFrame ==
  /\ Send
  /\ Len(fifo) >= FifoSize
  /\ UNCHANGED <<fifo, rxVars, mailbox, ready, taskVars>>

-----------------------------------------------------------------------------
(* McmcanFd_IsrRxHandler.                                                  *)

EnterIsr ==
  /\ isr = "off" /\ request
  /\ request' = FALSE
  /\ isr' = "read"
  /\ UNCHANGED <<sent, fifo, newMessage, frame, mailbox, ready, taskVars>>

\* Mutant of ReadMessage: two elements are taken without a look at the level.
ReadMessageTwice ==
  /\ isr = "read"
  /\ frame' \in IF Len(fifo) >= 2 THEN {fifo[2]} ELSE Frames
  /\ fifo' = IF Len(fifo) >= 2 THEN Tail(Tail(fifo)) ELSE << >>
  /\ isr' = "store"
  /\ UNCHANGED <<sent, newMessage, request, mailbox, ready, taskVars>>

\* Mutant of ReadMessage: the element at the put side is taken.
ReadMessageNewest ==
  /\ isr = "read" /\ fifo # << >>
  /\ frame' = fifo[Len(fifo)]
  /\ fifo' = SubSeq(fifo, 1, Len(fifo) - 1)
  /\ isr' = "store"
  /\ UNCHANGED <<sent, newMessage, request, mailbox, ready, taskVars>>

\* Mutant of ReadMessage: the element is not acknowledged.
ReadMessageUnacknowledged ==
  /\ isr = "read" /\ fifo # << >>
  /\ frame' = Head(fifo)
  /\ isr' = "store"
  /\ UNCHANGED <<sent, fifo, newMessage, request, mailbox, ready, taskVars>>

\* IfxCan_Can_readMessage: the element at the get index is read and
\* acknowledged.  An empty FIFO would yield whatever is in its memory.
ReadMessage ==
  /\ isr = "read"
  /\ frame' \in IF fifo = << >> THEN Frames ELSE {Head(fifo)}
  /\ fifo' = IF fifo = << >> THEN fifo ELSE Tail(fifo)
  /\ isr' = "store"
  /\ UNCHANGED <<sent, newMessage, request, mailbox, ready, taskVars>>

\* Mutant of StoreCommand: a break is missing, and the frame goes into the
\* mailbox of the next case as well.
StoreCommandFallsThrough ==
  /\ isr = "store"
  /\ IF frame.id \in Commands
       THEN \E next \in Commands :
              /\ mailbox' =
                   [mailbox EXCEPT ![frame.id] = frame.no, ![next] = frame.no]
              /\ ready' = [ready EXCEPT ![frame.id] = TRUE, ![next] = TRUE]
       ELSE UNCHANGED <<mailbox, ready>>
  /\ isr' = "clear"
  /\ UNCHANGED <<sent, fifo, newMessage, request, frame, taskVars>>

\* The switch: a frame without a mailbox is dropped.
StoreCommand ==
  /\ isr = "store"
  /\ IF frame.id \in Commands
       THEN /\ mailbox' = [mailbox EXCEPT ![frame.id] = frame.no]
            /\ ready' = [ready EXCEPT ![frame.id] = TRUE]
       ELSE UNCHANGED <<mailbox, ready>>
  /\ isr' = "clear"
  /\ UNCHANGED <<sent, fifo, newMessage, request, frame, taskVars>>

\* RF0N is cleared, for the frames stored since the read as well.
ClearFlag ==
  /\ isr = "clear"
  /\ newMessage' = FALSE
  /\ isr' = "off"
  /\ UNCHANGED <<sent, fifo, request, frame, mailbox, ready, taskVars>>

Isr == EnterIsr \/ ReadMessage \/ StoreCommand \/ ClearFlag

-----------------------------------------------------------------------------
(* McmcanFd_Recv<command>.  When it returns FALSE it changes nothing.      *)

\* Mutant of BeginRecv: the flag is not looked at.
BeginRecvUnchecked(c) ==
  /\ isr = "off"
  /\ task[c] = "idle"
  /\ task' = [task EXCEPT ![c] = "copy"]
  /\ out' = [out EXCEPT ![c] = << >>]
  /\ UNCHANGED <<sent, fifo, rxVars, mailbox, ready, received>>

BeginRecv(c) ==
  /\ isr = "off"
  /\ task[c] = "idle" /\ ready[c]
  /\ task' = [task EXCEPT ![c] = "copy"]
  /\ out' = [out EXCEPT ![c] = << >>]
  /\ UNCHANGED <<sent, fifo, rxVars, mailbox, ready, received>>

\* Mutant of CopyWord: one access past the end.
CopyWordOneMore(c) ==
  /\ isr = "off"
  /\ task[c] = "copy" /\ Len(out[c]) <= Words
  /\ out' = [out EXCEPT ![c] = Append(@, mailbox[c])]
  /\ UNCHANGED <<sent, fifo, rxVars, mailbox, ready, task, received>>

CopyWord(c) ==
  /\ isr = "off"
  /\ task[c] = "copy" /\ Len(out[c]) < Words
  /\ out' = [out EXCEPT ![c] = Append(@, mailbox[c])]
  /\ UNCHANGED <<sent, fifo, rxVars, mailbox, ready, task, received>>

\* Mutant of EndRecv: the ready flag stays set.
EndRecvStaysReady(c) ==
  /\ isr = "off"
  /\ task[c] = "copy" /\ Len(out[c]) = Words
  /\ task' = [task EXCEPT ![c] = "idle"]
  /\ received' = [received EXCEPT ![c] = out[c]]
  /\ UNCHANGED <<sent, fifo, rxVars, mailbox, ready, out>>

EndRecv(c) ==
  /\ isr = "off"
  /\ task[c] = "copy" /\ Len(out[c]) = Words
  /\ ready' = [ready EXCEPT ![c] = FALSE]
  /\ task' = [task EXCEPT ![c] = "idle"]
  /\ received' = [received EXCEPT ![c] = out[c]]
  /\ UNCHANGED <<sent, fifo, rxVars, mailbox, out>>

Recv(c) == BeginRecv(c) \/ CopyWord(c) \/ EndRecv(c)

Next ==
  \/ \E i \in Commands \cup Others : StoreFrame(i)
  \/ LoseFrame
  \/ Isr
  \/ \E c \in Commands : Recv(c)

Spec == Init /\ [][Next]_vars

-----------------------------------------------------------------------------
(* Properties.                                                             *)

TypeOK ==
  /\ sent \in Numbers
  /\ fifo \in Seq(Frames) /\ Len(fifo) <= FifoSize
  /\ newMessage \in BOOLEAN /\ request \in BOOLEAN
  /\ isr \in IsrSteps /\ frame \in Frames
  /\ mailbox \in [Commands -> Numbers]
  /\ ready \in [Commands -> BOOLEAN]
  /\ task \in [Commands -> TaskSteps]
  /\ out \in [Commands -> Copies]
  /\ received \in [Commands -> [1 .. Words -> Numbers]]

\* The handler never reads an element that holds no frame, although it does
\* not look at the fill level and frames share one request.
ReadsStored == isr = "read" => fifo # << >>

\* Recv returns TRUE.
Ends(c) == task[c] = "copy" /\ task'[c] = "idle"

\* A Recv that returns TRUE never hands out a command the last one has handed
\* out, or an older one, in any word, however interrupts fall into it.
OnlyNewer ==
  [][ \A c \in Commands : Ends(c) =>
        \A w \in 1 .. Words : received'[c][w] > received[c][w] ]_vars

\* The mailbox holds a newer command than the first word copied from it.
Overtaken(c) == mailbox[c] > out[c][1]

\* A Recv hands out all of the latest command unless the handler has stored
\* another one since its first access: not by one that came between the look
\* at the flag and that access, nor by those stored for other commands.
TornOnlyIfOvertaken ==
  [][ \A c \in Commands : Ends(c) /\ ~Overtaken(c) =>
        \A w \in 1 .. Words : received'[c][w] = mailbox[c] ]_vars

\* No task repeats a command: each TRUE has a frame of its own.
ReadyIsUnread ==
  \A c \in Commands : ready[c] => mailbox[c] > received[c][Words]

\* The node can still receive: a full FIFO is being emptied.  This is where
\* it matters that a frame stored while RF0N is set requests an interrupt.
NeverStuck == Len(fifo) = FifoSize => request \/ isr # "off"

\* At rest the handler has taken every frame: a command of another ECU
\* (CanMsg.h) does not wait in the FIFO for the next one to push it out.
NothingLeftBehind == isr = "off" /\ ~request => fifo = << >>

\* What Recv hands out is one command: the fields of UltrasonicDistanceCmd_t
\* are those of one 0x200 frame.
RecvIsWhole ==
  \A c \in Commands, v, w \in 1 .. Words : received[c][v] = received[c][w]

\* The latest command, which s_latest<command> is named for, has been handed
\* out or is reported ready by the flag: no single command, such as the start
\* of AutoParkingCmd_t, is taken by the driver and then never seen.
LatestIsKept ==
  \A c \in Commands :
    task[c] = "idle" => ready[c] \/ received[c][Words] = mailbox[c]

\* FIFO, handler, flag and Recv together are a mailbox: whatever interrupts
\* whom, the commands arrive in the order of the bus, and a Recv that returns
\* TRUE takes what has arrived since the last one did.
Box ==
  INSTANCE Mailbox WITH
    latest <- mailbox,
    fresh <- ready,
    given <- [c \in Commands |-> { received[c][w] : w \in 1 .. Words }]

ReadsMailbox == Box!Spec
=============================================================================
