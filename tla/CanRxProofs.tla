---------------------------- MODULE CanRxProofs -----------------------------
(***************************************************************************)
(* Theorems about CanRx for every set of commands, FIFO size, number of    *)
(* words and number of frames.                                             *)
(***************************************************************************)
EXTENDS CanRx, TLAPS

USE IdAssumption, SizeAssumption, PaceAssumption, SentAssumption

-----------------------------------------------------------------------------
(* Types.                                                                  *)

\* A copy in progress is a sequence of at most Words numbers.
LEMMA CopyIsSeq ==
  \A s : s \in Copies <=> s \in Seq(Numbers) /\ Len(s) <= Words
  <1>1. ASSUME NEW s \in Copies PROVE s \in Seq(Numbers) /\ Len(s) <= Words
    <2>1. PICK n \in 0 .. Words : s \in [1 .. n -> Numbers]
      BY <1>1 DEF Copies
    <2>2. n \in Nat
      OBVIOUS
    <2>3. s \in Seq(Numbers) /\ Len(s) = n
      BY <2>1, <2>2
    <2> QED BY <2>3
  <1>2. ASSUME NEW s \in Seq(Numbers), Len(s) <= Words PROVE s \in Copies
    <2>1. Len(s) \in 0 .. Words /\ s \in [1 .. Len(s) -> Numbers]
      BY <1>2
    <2> QED BY <2>1 DEF Copies
  <1> QED BY <1>1, <1>2

\* So is one that has not begun.
LEMMA EmptyCopy == << >> \in Copies
  <1>1. << >> \in Seq(Numbers) /\ Len(<< >>) = 0
    OBVIOUS
  <1>2. << >> \in Seq(Numbers) /\ Len(<< >>) <= Words
    BY <1>1
  <1> QED BY <1>2, CopyIsSeq

LEMMA TypeInit == Init => TypeOK
  <1> SUFFICES ASSUME Init PROVE TypeOK
    OBVIOUS
  <1> USE DEF Init
  <1>1. sent \in Numbers /\ fifo \in Seq(Frames) /\ Len(fifo) <= FifoSize
    BY DEF Numbers
  <1>2. frame \in Frames
    BY DEF Frames, Numbers
  <1>3. mailbox \in [Commands -> Numbers]
    BY DEF Numbers
  <1>4. out \in [Commands -> Copies]
    BY EmptyCopy
  <1>5. received \in [Commands -> [1 .. Words -> Numbers]]
    BY DEF Numbers
  <1>6. ready \in [Commands -> BOOLEAN] /\ task \in [Commands -> TaskSteps]
    BY DEF TaskSteps
  <1>7. newMessage \in BOOLEAN /\ request \in BOOLEAN /\ isr \in IsrSteps
    BY DEF IsrSteps
  <1> QED BY <1>1, <1>2, <1>3, <1>4, <1>5, <1>6, <1>7 DEF TypeOK

LEMMA TypeNext == TypeOK /\ [Next]_vars => TypeOK'
  <1> SUFFICES ASSUME TypeOK, [Next]_vars PROVE TypeOK'
    OBVIOUS
  <1> USE DEF TypeOK, IsrSteps, TaskSteps, rxVars, taskVars
  <1>1. ASSUME NEW i \in Commands \cup Others, StoreFrame(i) PROVE TypeOK'
    <2>1. sent' \in Numbers
      BY <1>1 DEF StoreFrame, Send, Numbers
    <2>2. [id |-> i, no |-> sent'] \in Frames
      BY <2>1 DEF Frames
    <2>3. fifo' \in Seq(Frames) /\ Len(fifo') <= FifoSize
      BY <1>1, <2>2 DEF StoreFrame
    <2> QED BY <1>1, <2>1, <2>3 DEF StoreFrame
  <1>2. CASE LoseFrame
    BY <1>2 DEF LoseFrame, Send, Numbers
  <1>3. CASE EnterIsr
    BY <1>3 DEF EnterIsr
  <1>4. CASE ReadMessage
    <2>1. frame' \in Frames
      BY <1>4 DEF ReadMessage
    <2>2. fifo' \in Seq(Frames) /\ Len(fifo') <= FifoSize
      BY <1>4 DEF ReadMessage
    <2> QED BY <1>4, <2>1, <2>2 DEF ReadMessage
  <1>5. CASE StoreCommand
    <2>1. frame.no \in Numbers
      BY DEF Frames
    <2>2. mailbox' \in [Commands -> Numbers] /\ ready' \in [Commands -> BOOLEAN]
      BY <1>5, <2>1 DEF StoreCommand
    <2> QED BY <1>5, <2>2 DEF StoreCommand
  <1>6. CASE ClearFlag
    BY <1>6 DEF ClearFlag
  <1>7. ASSUME NEW c \in Commands, BeginRecv(c) PROVE TypeOK'
    <2>1. out' \in [Commands -> Copies]
      BY <1>7, EmptyCopy DEF BeginRecv
    <2>2. task' \in [Commands -> TaskSteps]
      BY <1>7 DEF BeginRecv
    <2> QED BY <1>7, <2>1, <2>2 DEF BeginRecv
  <1>8. ASSUME NEW c \in Commands, CopyWord(c) PROVE TypeOK'
    <2>1. /\ out[c] \in Seq(Numbers) /\ Len(out[c]) < Words
          /\ mailbox[c] \in Numbers
      BY <1>8, CopyIsSeq DEF CopyWord
    <2>2. /\ Append(out[c], mailbox[c]) \in Seq(Numbers)
          /\ Len(Append(out[c], mailbox[c])) <= Words
      BY <2>1
    <2>3. Append(out[c], mailbox[c]) \in Copies
      BY <2>2, CopyIsSeq
    <2>4. out' \in [Commands -> Copies]
      BY <1>8, <2>3 DEF CopyWord
    <2> QED BY <1>8, <2>4 DEF CopyWord
  <1>9. ASSUME NEW c \in Commands, EndRecv(c) PROVE TypeOK'
    <2>1. out[c] \in [1 .. Words -> Numbers]
      BY <1>9, CopyIsSeq DEF EndRecv
    <2>2. received' \in [Commands -> [1 .. Words -> Numbers]]
      BY <1>9, <2>1 DEF EndRecv
    <2>3. task' \in [Commands -> TaskSteps] /\ ready' \in [Commands -> BOOLEAN]
      BY <1>9 DEF EndRecv
    <2> QED BY <1>9, <2>2, <2>3 DEF EndRecv
  <1>10. CASE UNCHANGED vars
    BY <1>10 DEF vars
  <1> QED
    BY <1>1, <1>2, <1>3, <1>4, <1>5, <1>6, <1>7, <1>8, <1>9, <1>10
    DEF Next, Isr, Recv

\* The variables keep their types: the FIFO never holds more than it can.
THEOREM TypeCorrect == Spec => []TypeOK
  BY TypeInit, TypeNext, PTL DEF Spec

-----------------------------------------------------------------------------
(* Requests and stored frames.                                             *)

\* A request and a handler about to read each have a stored frame.
RequestInv ==
  /\ request => Len(fifo) >= 1
  /\ isr = "read" => Len(fifo) >= 1
  /\ request /\ isr = "read" => Len(fifo) >= 2

LEMMA RequestNext == TypeOK /\ RequestInv /\ [Next]_vars => RequestInv'
  <1> SUFFICES ASSUME TypeOK, RequestInv, [Next]_vars PROVE RequestInv'
    OBVIOUS
  <1> USE DEF TypeOK, RequestInv, rxVars
  <1>1. ASSUME NEW i \in Commands \cup Others, StoreFrame(i) PROVE RequestInv'
    <2>1. Len(fifo') = Len(fifo) + 1 /\ Len(fifo) \in Nat /\ isr' = isr
      BY <1>1 DEF StoreFrame
    <2> QED BY <2>1
  <1>2. CASE ReadMessage
    <2>1. isr' = "store" /\ request' = request
      BY <1>2 DEF ReadMessage
    <2>2. request => Len(fifo') >= 1
      BY <1>2 DEF ReadMessage
    <2> QED BY <2>1, <2>2
  <1>3. CASE EnterIsr
    BY <1>3 DEF EnterIsr
  <1>4. CASE StoreCommand \/ ClearFlag
    BY <1>4 DEF StoreCommand, ClearFlag
  <1>5. CASE LoseFrame
    BY <1>5 DEF LoseFrame
  <1>6. ASSUME NEW c \in Commands, Recv(c) PROVE RequestInv'
    BY <1>6 DEF Recv, BeginRecv, CopyWord, EndRecv
  <1>7. CASE UNCHANGED vars
    BY <1>7 DEF vars
  <1> QED
    BY <1>1, <1>2, <1>3, <1>4, <1>5, <1>6, <1>7 DEF Next, Isr

\* One frame per interrupt is always there to be read, whether or not a
\* frame stored while RF0N is set requests an interrupt of its own.
THEOREM HandlerReadsAFrame == Spec => []ReadsStored
  <1>1. Init => RequestInv
    BY DEF Init, RequestInv
  <1>2. TypeOK /\ RequestInv => ReadsStored
    BY DEF TypeOK, RequestInv, ReadsStored
  <1> QED BY <1>1, <1>2, TypeInit, TypeNext, RequestNext, PTL DEF Spec

-----------------------------------------------------------------------------
(* The FIFO under the two assumptions on requests and pace.                *)

\* After its read the handler has left room, or a request for another read.
RoomInv ==
  isr # "read" /\ ~request => Len(fifo) < FifoSize

LEMMA RoomNext ==
  ASSUME Repeats, TypeOK, RequestInv, RoomInv, [Next]_vars PROVE RoomInv'
  <1> USE DEF TypeOK, RoomInv, rxVars
  <1>1. ASSUME NEW i \in Commands \cup Others, StoreFrame(i) PROVE RoomInv'
    BY <1>1 DEF StoreFrame
  <1>2. CASE ReadMessage
    <2>1. Len(fifo) >= 1 /\ Len(fifo) <= FifoSize
      BY <1>2 DEF ReadMessage, RequestInv
    <2>2. Len(fifo') < FifoSize
      BY <1>2, <2>1 DEF ReadMessage
    <2> QED BY <2>2
  <1>3. CASE EnterIsr
    BY <1>3 DEF EnterIsr
  <1>4. CASE StoreCommand \/ ClearFlag
    BY <1>4 DEF StoreCommand, ClearFlag
  <1>5. CASE LoseFrame
    BY <1>5 DEF LoseFrame
  <1>6. ASSUME NEW c \in Commands, Recv(c) PROVE RoomInv'
    BY <1>6 DEF Recv, BeginRecv, CopyWord, EndRecv
  <1>7. CASE UNCHANGED vars
    BY <1>7 DEF vars
  <1> QED
    BY <1>1, <1>2, <1>3, <1>4, <1>5, <1>6, <1>7 DEF Next, Isr

\* If every stored frame requests the interrupt, the backlog can fill the
\* FIFO but never block it, for any FIFO size.
THEOREM FifoIsNeverStuck ==
  ASSUME Repeats PROVE Spec => []NeverStuck
  <1>1. Init => RequestInv /\ RoomInv
    BY DEF Init, RequestInv, RoomInv
  <1>2. RoomInv => NeverStuck
    BY DEF RoomInv, NeverStuck
  <1>3. TypeOK /\ RequestInv /\ RoomInv /\ [Next]_vars => RoomInv'
    BY RoomNext
  <1> QED BY <1>1, <1>2, <1>3, TypeInit, TypeNext, RequestNext, PTL DEF Spec

-----------------------------------------------------------------------------
(* The order of the commands.                                              *)

\* Frames leave the FIFO in the order of the bus: each is newer than all the
\* mailboxes hold, and older than those behind it.
OrderInv ==
  /\ \A c \in Commands : mailbox[c] <= sent
  /\ \A i \in 1 .. Len(fifo) : fifo[i].no <= sent
  /\ \A i, j \in 1 .. Len(fifo) : i < j => fifo[i].no < fifo[j].no
  /\ \A c \in Commands, i \in 1 .. Len(fifo) : mailbox[c] < fifo[i].no
  /\ isr = "store" =>
       /\ frame.no <= sent
       /\ \A c \in Commands : mailbox[c] < frame.no
       /\ \A i \in 1 .. Len(fifo) : frame.no < fifo[i].no

LEMMA OrderInit == Init => OrderInv
  BY DEF Init, OrderInv

LEMMA OrderNext == TypeOK /\ RequestInv /\ OrderInv /\ [Next]_vars => OrderInv'
  <1> SUFFICES ASSUME TypeOK, RequestInv, OrderInv, [Next]_vars PROVE OrderInv'
    OBVIOUS
  <1> USE DEF rxVars
  <1>0. /\ sent \in Nat /\ fifo \in Seq(Frames) /\ Len(fifo) \in Nat
        /\ frame.no \in Nat
        /\ \A c \in Commands : mailbox[c] \in Nat
        /\ \A i \in 1 .. Len(fifo) : fifo[i].no \in Nat
    <2>1. sent \in Nat /\ fifo \in Seq(Frames) /\ Len(fifo) \in Nat
      BY DEF TypeOK, Numbers
    <2>2. \A r \in Frames : r.no \in Nat
      BY DEF Frames, Numbers
    <2>3. frame.no \in Nat
      BY <2>2 DEF TypeOK
    <2>4. \A c \in Commands : mailbox[c] \in Nat
      BY DEF TypeOK, Numbers
    <2>5. \A i \in 1 .. Len(fifo) : fifo[i] \in Frames
      BY <2>1
    <2> QED BY <2>1, <2>2, <2>3, <2>4, <2>5
  <1>1. ASSUME NEW f \in Commands \cup Others, StoreFrame(f) PROVE OrderInv'
    <2>1. /\ sent' = sent + 1 /\ Len(fifo') = Len(fifo) + 1
          /\ \A i \in 1 .. Len(fifo) : fifo'[i] = fifo[i]
          /\ fifo'[Len(fifo) + 1].no = sent + 1
          /\ UNCHANGED <<mailbox, isr, frame>>
      BY <1>0, <1>1 DEF StoreFrame, Send
    <2>2. \A i \in 1 .. Len(fifo') : i \in 1 .. Len(fifo) \/ i = Len(fifo) + 1
      BY <1>0, <2>1
    <2>3. \A i \in 1 .. Len(fifo') : fifo'[i].no <= sent'
      BY <1>0, <2>1, <2>2 DEF OrderInv
    <2>4. \A i, j \in 1 .. Len(fifo') : i < j => fifo'[i].no < fifo'[j].no
      BY <1>0, <2>1, <2>2 DEF OrderInv
    <2>5. \A c \in Commands, i \in 1 .. Len(fifo') : mailbox'[c] < fifo'[i].no
      BY <1>0, <2>1, <2>2 DEF OrderInv
    <2>6. isr' = "store" =>
            /\ frame'.no <= sent' /\ \A c \in Commands : mailbox'[c] < frame'.no
            /\ \A i \in 1 .. Len(fifo') : frame'.no < fifo'[i].no
      BY <1>0, <2>1, <2>2 DEF OrderInv
    <2>7. \A c \in Commands : mailbox'[c] <= sent'
      BY <1>0, <2>1 DEF OrderInv
    <2> QED BY <2>3, <2>4, <2>5, <2>6, <2>7 DEF OrderInv
  <1>2. CASE ReadMessage
    <2>1. Len(fifo) >= 1 /\ fifo # << >>
      BY <1>0, <1>2 DEF ReadMessage, RequestInv
    <2>2. frame' = fifo[1] /\ fifo' = Tail(fifo) /\ isr' = "store"
          /\ UNCHANGED <<sent, mailbox>>
      BY <1>2, <2>1 DEF ReadMessage
    <2>3. /\ Len(fifo') = Len(fifo) - 1
          /\ \A i \in 1 .. Len(fifo') : fifo'[i] = fifo[i + 1]
      BY <1>0, <2>1, <2>2
    <2>4. \A i \in 1 .. Len(fifo') : i + 1 \in 1 .. Len(fifo) /\ 1 < i + 1
      BY <1>0, <2>3
    <2>5. 1 \in 1 .. Len(fifo)
      BY <1>0, <2>1
    <2>6. \A i, j \in 1 .. Len(fifo') : i < j => fifo'[i].no < fifo'[j].no
      BY <2>3, <2>4 DEF OrderInv
    <2>7. \A i \in 1 .. Len(fifo') : fifo'[i].no <= sent'
      BY <2>2, <2>3, <2>4 DEF OrderInv
    <2>8. \A c \in Commands, i \in 1 .. Len(fifo') : mailbox'[c] < fifo'[i].no
      BY <2>2, <2>3, <2>4 DEF OrderInv
    <2>9. /\ frame'.no <= sent' /\ \A c \in Commands : mailbox'[c] < frame'.no
          /\ \A i \in 1 .. Len(fifo') : frame'.no < fifo'[i].no
      BY <2>2, <2>3, <2>4, <2>5 DEF OrderInv
    <2> QED BY <2>2, <2>6, <2>7, <2>8, <2>9 DEF OrderInv
  <1>3. CASE StoreCommand
    <2>1. /\ isr = "store" /\ isr' = "clear" /\ UNCHANGED <<sent, fifo, frame>>
          /\ \A c \in Commands : mailbox'[c] \in {mailbox[c], frame.no}
      BY <1>3 DEF StoreCommand, TypeOK
    <2> QED BY <1>0, <2>1 DEF OrderInv
  <1>4. CASE EnterIsr \/ ClearFlag
    BY <1>4 DEF EnterIsr, ClearFlag, OrderInv
  <1>5. CASE LoseFrame
    <2>1. sent' = sent + 1 /\ UNCHANGED <<fifo, isr, frame, mailbox>>
      BY <1>5 DEF LoseFrame, Send
    <2> QED BY <1>0, <2>1 DEF OrderInv
  <1>6. ASSUME NEW c \in Commands, Recv(c) PROVE OrderInv'
    BY <1>6 DEF Recv, BeginRecv, CopyWord, EndRecv, OrderInv
  <1>7. CASE UNCHANGED vars
    BY <1>7 DEF vars, OrderInv
  <1> QED
    BY <1>1, <1>2, <1>3, <1>4, <1>5, <1>6, <1>7 DEF Next, Isr

\* What a Recv has copied is newer than all the last one returned, and a
\* mailbox that is ready is newer than that too.
ReadFor(c) ==
  /\ task[c] = "copy" => ready[c]
  /\ ready[c] => \A w \in 1 .. Words : received[c][w] < mailbox[c]
  /\ \A w \in 1 .. Words : received[c][w] <= mailbox[c]
  /\ task[c] = "copy" =>
       \A v \in 1 .. Len(out[c]) :
         /\ out[c][v] <= mailbox[c]
         /\ \A w \in 1 .. Words : received[c][w] < out[c][v]

ReadInv == \A c \in Commands : ReadFor(c)

LEMMA ReadInit == Init => ReadInv
  <1> SUFFICES ASSUME Init, NEW c \in Commands PROVE ReadFor(c)
    BY DEF ReadInv
  <1>1. mailbox[c] = 0 /\ received[c] = [w \in 1 .. Words |-> 0]
    BY DEF Init
  <1>2. task[c] = "idle" /\ ~ready[c]
    BY DEF Init
  <1> QED BY <1>1, <1>2 DEF ReadFor

LEMMA ReadNext == TypeOK /\ OrderInv /\ ReadInv /\ [Next]_vars => ReadInv'
  <1> SUFFICES ASSUME TypeOK, OrderInv, ReadInv, [Next]_vars,
                      NEW c \in Commands
               PROVE  ReadFor(c)'
    BY DEF ReadInv
  <1> USE DEF rxVars, taskVars
  <1>0. /\ ReadFor(c)
        /\ mailbox[c] \in Nat
        /\ \A w \in 1 .. Words : received[c][w] \in Nat
        /\ out[c] \in Seq(Numbers) /\ Len(out[c]) \in Nat
        /\ \A v \in 1 .. Len(out[c]) : out[c][v] \in Nat
    BY CopyIsSeq DEF ReadInv, TypeOK, Numbers
  <1>1. ASSUME UNCHANGED <<mailbox, ready, task, out, received>>
        PROVE  ReadFor(c)'
    BY <1>0, <1>1 DEF ReadFor
  <1>2. CASE StoreCommand
    <2>1. CASE mailbox'[c] = mailbox[c] /\ ready'[c] = ready[c]
      BY <1>0, <1>2, <2>1 DEF StoreCommand, ReadFor
    <2>2. CASE mailbox'[c] = frame.no /\ ready'[c]
      <3>1. frame.no \in Nat
        BY DEF TypeOK, Frames, Numbers
      <3>2. mailbox[c] < mailbox'[c]
        BY <1>2, <2>2 DEF StoreCommand, OrderInv
      <3>3. \A w \in 1 .. Words : received[c][w] < mailbox'[c]
        BY <1>0, <2>2, <3>1, <3>2 DEF ReadFor
      <3>4. task[c] = "copy" => \A v \in 1 .. Len(out[c]) : out[c][v] <= mailbox'[c]
        BY <1>0, <2>2, <3>1, <3>2 DEF ReadFor
      <3>5. \A w \in 1 .. Words : received[c][w] <= mailbox'[c]
        BY <1>0, <2>2, <3>1, <3>3
      <3>6. UNCHANGED <<task, out, received>>
        BY <1>2 DEF StoreCommand
      <3> QED BY <1>0, <2>2, <3>3, <3>4, <3>5, <3>6 DEF ReadFor
    <2> QED BY <1>2, <2>1, <2>2 DEF StoreCommand, TypeOK
  <1>3. ASSUME NEW d \in Commands, BeginRecv(d) PROVE ReadFor(c)'
    <2>1. CASE c = d
      <3>1. /\ task'[c] = "copy" /\ out'[c] = << >> /\ ready[c]
            /\ UNCHANGED <<mailbox, ready, received>>
        BY <1>3, <2>1 DEF BeginRecv, TypeOK
      <3> QED BY <1>0, <3>1 DEF ReadFor
    <2>2. CASE c # d
      <3>1. /\ task'[c] = task[c] /\ out'[c] = out[c]
            /\ UNCHANGED <<mailbox, ready, received>>
        BY <1>3, <2>2 DEF BeginRecv, TypeOK
      <3> QED BY <1>0, <3>1 DEF ReadFor
    <2> QED BY <2>1, <2>2
  <1>4. ASSUME NEW d \in Commands, CopyWord(d) PROVE ReadFor(c)'
    <2>1. UNCHANGED <<task, mailbox, ready, received>>
      BY <1>4 DEF CopyWord
    <2>2. CASE c = d
      <3>1. task[c] = "copy" /\ out'[c] = Append(out[c], mailbox[c])
        BY <1>4, <2>2 DEF CopyWord, TypeOK
      <3>2. /\ Len(out'[c]) = Len(out[c]) + 1
            /\ out'[c][Len(out[c]) + 1] = mailbox[c]
            /\ \A v \in 1 .. Len(out[c]) : out'[c][v] = out[c][v]
        BY <1>0, <3>1 DEF Numbers
      <3>3. \A v \in 1 .. Len(out'[c]) : v \in 1 .. Len(out[c]) \/ v = Len(out[c]) + 1
        BY <1>0, <3>2
      <3>4. \A v \in 1 .. Len(out'[c]) : out'[c][v] <= mailbox[c]
        BY <1>0, <3>1, <3>2, <3>3 DEF ReadFor
      <3>5. \A v \in 1 .. Len(out'[c]), w \in 1 .. Words : received[c][w] < out'[c][v]
        BY <1>0, <3>1, <3>2, <3>3 DEF ReadFor
      <3> QED BY <1>0, <2>1, <3>4, <3>5 DEF ReadFor
    <2>3. CASE c # d
      <3>1. out'[c] = out[c]
        BY <1>4, <2>3 DEF CopyWord, TypeOK
      <3> QED BY <1>0, <2>1, <3>1 DEF ReadFor
    <2> QED BY <2>2, <2>3
  <1>5. ASSUME NEW d \in Commands, EndRecv(d) PROVE ReadFor(c)'
    <2>1. CASE c = d
      <3>1. /\ task'[c] = "idle" /\ ~ready'[c] /\ received'[c] = out[c]
            /\ task[c] = "copy" /\ Len(out[c]) = Words
            /\ UNCHANGED mailbox
        BY <1>5, <2>1 DEF EndRecv, TypeOK
      <3>2. \A w \in 1 .. Words : received'[c][w] <= mailbox'[c]
        BY <1>0, <3>1 DEF ReadFor
      <3> QED BY <3>1, <3>2 DEF ReadFor
    <2>2. CASE c # d
      <3>1. /\ task'[c] = task[c] /\ out'[c] = out[c] /\ ready'[c] = ready[c]
            /\ received'[c] = received[c] /\ UNCHANGED mailbox
        BY <1>5, <2>2 DEF EndRecv, TypeOK
      <3> QED BY <1>0, <3>1 DEF ReadFor
    <2> QED BY <2>1, <2>2
  <1> QED
    BY <1>1, <1>2, <1>3, <1>4, <1>5
    DEF Next, Isr, Recv, vars, StoreFrame, LoseFrame, EnterIsr, ReadMessage,
        ClearFlag

OrderlyInv == TypeOK /\ RequestInv /\ OrderInv /\ ReadInv

LEMMA OrderlyInit == Init => OrderlyInv
  BY TypeInit, OrderInit, ReadInit DEF Init, OrderlyInv, RequestInv

LEMMA OrderlyNext == OrderlyInv /\ [Next]_vars => OrderlyInv'
  BY TypeNext, RequestNext, OrderNext, ReadNext DEF OrderlyInv

\* A command reported ready is newer than the one last handed out.
THEOREM ReadyIsNew == Spec => []ReadyIsUnread
  <1>1. OrderlyInv => ReadyIsUnread
    BY DEF OrderlyInv, ReadInv, ReadFor, ReadyIsUnread
  <1> QED BY <1>1, OrderlyInit, OrderlyNext, PTL DEF Spec

\* Only EndRecv ends a Recv.
LEMMA EndOfRecv ==
  ASSUME TypeOK, [Next]_vars, NEW c \in Commands, Ends(c)
  PROVE  /\ task[c] = "copy" /\ Len(out[c]) = Words
         /\ received'[c] = out[c]
  <1>1. PICK d \in Commands : BeginRecv(d) \/ EndRecv(d)
    BY DEF Ends, Next, Isr, Recv, vars, StoreFrame, LoseFrame, EnterIsr,
           ReadMessage, StoreCommand, ClearFlag, CopyWord, rxVars, taskVars
  <1>2. EndRecv(d) /\ c = d
    BY <1>1 DEF Ends, BeginRecv, EndRecv, TypeOK
  <1> QED BY <1>2 DEF EndRecv, TypeOK

\* Each Recv that returns TRUE hands out commands newer than all the last one
\* did, for any number of words and wherever the handler interrupts it.
THEOREM RecvOnlyNewer == Spec => OnlyNewer
  <1> DEFINE Newer ==
        \A c \in Commands : Ends(c) =>
          \A w \in 1 .. Words : received'[c][w] > received[c][w]
  <1>1. ASSUME OrderlyInv, [Next]_vars PROVE [Newer]_vars
    <2> SUFFICES ASSUME NEW c \in Commands, Ends(c), NEW w \in 1 .. Words
                 PROVE  received'[c][w] > received[c][w]
      OBVIOUS
    <2>1. /\ task[c] = "copy" /\ Len(out[c]) = Words
          /\ received'[c] = out[c]
      BY <1>1, EndOfRecv DEF OrderlyInv
    <2>2. received[c][w] < out[c][w]
      BY <1>1, <2>1 DEF OrderlyInv, ReadInv, ReadFor
    <2>3. received[c][w] \in Nat /\ out[c][w] \in Nat
      BY <1>1, <2>1, CopyIsSeq DEF OrderlyInv, TypeOK, Numbers
    <2> QED BY <2>1, <2>2, <2>3
  <1>2. OrderlyInv /\ [Next]_vars => [Newer]_vars
    BY <1>1
  <1> QED BY <1>2, OrderlyInit, OrderlyNext, PTL DEF Spec, OnlyNewer

-----------------------------------------------------------------------------
(* The abstract mailbox.                                                   *)

\* The frames of which the last Recv has handed out words.
Given(c) == { received[c][w] : w \in 1 .. Words }

LEMMA BoxInit == Init => Box!Init
  <1> SUFFICES ASSUME Init PROVE Box!Init
    OBVIOUS
  <1>1. 1 \in 1 .. Words
    OBVIOUS
  <1>2. ASSUME NEW c \in Commands PROVE Given(c) = {0}
    <2>1. \A w \in 1 .. Words : received[c][w] = 0
      BY DEF Init
    <2> QED BY <1>1, <2>1 DEF Given
  <1> QED BY <1>2 DEF Init, Box!Init, Given

\* A command the handler stores arrives in the mailbox.
LEMMA StoreArrives ==
  ASSUME OrderlyInv, StoreCommand
  PROVE  \/ \E c \in Commands : Box!Arrive(c)
         \/ UNCHANGED Box!vars
  <1>1. UNCHANGED received
    BY DEF StoreCommand, taskVars
  <1>2. CASE frame.id \notin Commands
    BY <1>1, <1>2 DEF StoreCommand, Box!vars
  <1>3. CASE frame.id \in Commands
    <2>1. /\ mailbox' = [mailbox EXCEPT ![frame.id] = frame.no]
          /\ ready' = [ready EXCEPT ![frame.id] = TRUE]
      BY <1>3 DEF StoreCommand
    <2>2. frame.no \in Numbers
      BY DEF OrderlyInv, TypeOK, Frames
    <2>3. \A d \in Commands : mailbox[d] < frame.no
      BY DEF OrderlyInv, OrderInv, StoreCommand
    <2>4. Box!Arrive(frame.id)
      BY <1>1, <2>1, <2>2, <2>3 DEF Box!Arrive
    <2> QED BY <1>3, <2>4
  <1> QED BY <1>2, <1>3

\* What the end of Recv changes of what has been handed out.
LEMMA EndGives ==
  ASSUME TypeOK, NEW c \in Commands, EndRecv(c)
  PROVE  /\ Given(c)' = { out[c][w] : w \in 1 .. Words }
         /\ [d \in Commands |-> Given(d)'] =
              [[d \in Commands |-> Given(d)] EXCEPT ![c] = Given(c)']
  <1>1. /\ received' = [received EXCEPT ![c] = out[c]]
        /\ received \in [Commands -> [1 .. Words -> Numbers]]
    BY DEF EndRecv, TypeOK
  <1>2. received'[c] = out[c]
    BY <1>1
  <1>3. Given(c)' = { out[c][w] : w \in 1 .. Words }
    BY <1>2 DEF Given
  <1>4. \A d \in Commands \ {c} : Given(d)' = Given(d)
    BY <1>1 DEF Given
  <1> QED BY <1>3, <1>4

\* The end of Recv takes words of unseen commands.
LEMMA EndTakes ==
  ASSUME OrderlyInv, NEW c \in Commands, EndRecv(c) PROVE Box!Take(c)
  <1>1. /\ task[c] = "copy" /\ Len(out[c]) = Words
        /\ ready' = [ready EXCEPT ![c] = FALSE]
        /\ UNCHANGED mailbox
    BY DEF EndRecv
  <1>2. ReadFor(c) /\ ready[c] /\ TypeOK
    BY <1>1 DEF OrderlyInv, ReadInv, ReadFor
  <1>3. \A w \in 1 .. Words : out[c][w] \in Numbers
    BY <1>1, <1>2, CopyIsSeq DEF TypeOK
  <1> DEFINE S == { out[c][w] : w \in 1 .. Words }
             Box_Given == [d \in Commands |-> Given(d)]
  <1>4. 1 \in 1 .. Words /\ out[c][1] \in S
    OBVIOUS
  <1>5. \A n \in S : n \in Numbers /\ n <= mailbox[c]
    BY <1>1, <1>2, <1>3 DEF ReadFor
  <1>6. \A n \in S, o \in Given(c) : o < n
    BY <1>1, <1>2 DEF ReadFor, Given
  <1>7. Box_Given[c] = Given(c)
    OBVIOUS
  <1>8. S \in (SUBSET Box!Unseen(c)) \ {{}}
    BY <1>4, <1>5, <1>6, <1>7 DEF Box!Unseen, Given
  <1>9. Box_Given' = [Box_Given EXCEPT ![c] = S]
    BY <1>2, EndGives
  <1> QED BY <1>1, <1>2, <1>8, <1>9 DEF Box!Take, Given

\* The other steps leave the mailbox alone.
LEMMA BoxSteps ==
  ASSUME [Next]_vars
  PROVE  \/ StoreCommand
         \/ \E c \in Commands : EndRecv(c)
         \/ UNCHANGED Box!vars
  <1>1. UNCHANGED <<mailbox, ready, received>> => UNCHANGED Box!vars
    BY DEF Box!vars
  <1> QED
    BY <1>1
    DEF Next, Isr, Recv, vars, StoreFrame, LoseFrame, EnterIsr, ReadMessage,
        ClearFlag, BeginRecv, CopyWord, rxVars, taskVars

LEMMA BoxNext == OrderlyInv /\ [Next]_vars => [Box!Next]_(Box!vars)
  BY BoxSteps, StoreArrives, EndTakes DEF Box!Next

\* The receive path is a mailbox, for any FIFO, any number of words and of
\* commands, wherever the handler interrupts a copy, and whether or not each
\* frame requests an interrupt of its own.
THEOREM ImplementsTheMailbox == Spec => ReadsMailbox
  <1> QED
    BY BoxInit, BoxNext, OrderlyInit, OrderlyNext, PTL
    DEF Spec, ReadsMailbox, Box!Spec

-----------------------------------------------------------------------------
(* A copy the handler interrupts.                                          *)

\* As long as the mailbox is the one the first word was copied from, all the
\* words are.
CopyInv ==
  \A c \in Commands :
    task[c] = "copy" /\ Len(out[c]) >= 1 /\ out[c][1] = mailbox[c] =>
      \A v \in 1 .. Len(out[c]) : out[c][v] = mailbox[c]

LEMMA CopyInit == Init => CopyInv
  BY DEF Init, CopyInv

LEMMA CopyNext == OrderlyInv /\ CopyInv /\ [Next]_vars => CopyInv'
  <1> SUFFICES ASSUME OrderlyInv, CopyInv, [Next]_vars, NEW c \in Commands,
                      task'[c] = "copy", Len(out'[c]) >= 1,
                      out'[c][1] = mailbox'[c],
                      NEW v \in 1 .. Len(out'[c])
               PROVE  out'[c][v] = mailbox'[c]
    BY DEF CopyInv
  <1> USE DEF rxVars, taskVars
  <1>0. /\ TypeOK /\ ReadFor(c) /\ mailbox[c] \in Nat
        /\ out[c] \in Seq(Numbers) /\ Len(out[c]) \in Nat
        /\ \A w \in 1 .. Len(out[c]) : out[c][w] \in Nat
    BY CopyIsSeq DEF OrderlyInv, ReadInv, TypeOK, Numbers
  <1>1. ASSUME mailbox'[c] = mailbox[c], task'[c] = task[c], out'[c] = out[c]
        PROVE  out'[c][v] = mailbox'[c]
    BY <1>1 DEF CopyInv
  <1>2. CASE StoreCommand
    <2>1. UNCHANGED <<task, out>> /\ isr = "store"
      BY <1>2 DEF StoreCommand
    <2>2. CASE mailbox'[c] = mailbox[c]
      BY <1>1, <2>1, <2>2
    <2>3. CASE mailbox'[c] # mailbox[c]
      <3>1. mailbox'[c] = frame.no /\ frame.no \in Nat
        BY <1>0, <1>2, <2>3 DEF StoreCommand, TypeOK, Frames, Numbers
      <3>2. mailbox[c] < mailbox'[c]
        BY <2>1, <3>1 DEF OrderlyInv, OrderInv
      <3>3. 1 \in 1 .. Len(out[c]) /\ out[c][1] <= mailbox[c]
        BY <1>0, <2>1 DEF ReadFor
      <3> QED BY <1>0, <2>1, <3>1, <3>2, <3>3
    <2> QED BY <2>2, <2>3
  <1>3. ASSUME NEW d \in Commands, Recv(d), c # d
        PROVE  out'[c][v] = mailbox'[c]
    <2>1. mailbox'[c] = mailbox[c] /\ task'[c] = task[c] /\ out'[c] = out[c]
      BY <1>0, <1>3 DEF Recv, BeginRecv, CopyWord, EndRecv, TypeOK
    <2> QED BY <1>1, <2>1
  <1>4. CASE BeginRecv(c)
    BY <1>0, <1>4 DEF BeginRecv, TypeOK
  <1>5. CASE CopyWord(c)
    <2> DEFINE n == Len(out[c])
    <2>1. /\ task[c] = "copy" /\ out'[c] = Append(out[c], mailbox[c])
          /\ UNCHANGED <<task, mailbox>>
      BY <1>0, <1>5 DEF CopyWord, TypeOK
    <2>2. /\ Len(out'[c]) = n + 1 /\ out'[c][n + 1] = mailbox[c]
          /\ \A w \in 1 .. n : out'[c][w] = out[c][w]
      BY <1>0, <2>1 DEF Numbers
    <2>3. CASE v = n + 1
      BY <2>1, <2>2, <2>3
    <2>4. CASE v \in 1 .. n
      <3>1. n >= 1 /\ out[c][1] = mailbox[c]
        BY <1>0, <2>1, <2>2, <2>4
      <3> QED BY <2>1, <2>2, <2>4, <3>1 DEF CopyInv
    <2> QED BY <1>0, <2>2, <2>3, <2>4
  <1>6. CASE EndRecv(c)
    BY <1>0, <1>6 DEF EndRecv, TypeOK
  <1> QED
    BY <1>1, <1>2, <1>3, <1>4, <1>5, <1>6
    DEF Next, Isr, Recv, vars, StoreFrame, LoseFrame, EnterIsr, ReadMessage,
        ClearFlag

\* Wherever the handler interrupts a copy: only a store into that mailbox,
\* after the first access, keeps Recv from handing out the latest command
\* and all of it.
THEOREM OnlyOvertakenIsTorn == Spec => TornOnlyIfOvertaken
  <1> DEFINE Whole ==
        \A c \in Commands : Ends(c) /\ ~Overtaken(c) =>
          \A w \in 1 .. Words : received'[c][w] = mailbox[c]
  <1>1. ASSUME OrderlyInv, CopyInv, [Next]_vars PROVE [Whole]_vars
    <2> SUFFICES ASSUME NEW c \in Commands, Ends(c), ~Overtaken(c),
                        NEW w \in 1 .. Words
                 PROVE  received'[c][w] = mailbox[c]
      OBVIOUS
    <2>1. /\ task[c] = "copy" /\ Len(out[c]) = Words
          /\ received'[c] = out[c]
      BY <1>1, EndOfRecv DEF OrderlyInv
    <2>2. /\ mailbox[c] \in Nat
          /\ 1 \in 1 .. Len(out[c]) /\ out[c][1] \in Nat
      BY <1>1, <2>1, CopyIsSeq DEF OrderlyInv, TypeOK, Numbers
    <2>3. out[c][1] <= mailbox[c]
      BY <1>1, <2>1, <2>2 DEF OrderlyInv, ReadInv, ReadFor
    <2>4. out[c][1] = mailbox[c]
      BY <2>2, <2>3 DEF Overtaken
    <2> QED BY <1>1, <2>1, <2>2, <2>4 DEF CopyInv
  <1>2. OrderlyInv /\ CopyInv /\ [Next]_vars => [Whole]_vars
    BY <1>1
  <1> QED
    BY <1>2, OrderlyInit, OrderlyNext, CopyInit, CopyNext, PTL
    DEF Spec, TornOnlyIfOvertaken
=============================================================================
