-------------------------- MODULE SensorCanProofs ---------------------------
(***************************************************************************)
(* Theorems about SensorCan for every number of fields, retries, versions  *)
(* and FIFO elements.                                                      *)
(***************************************************************************)
EXTENDS SensorCan, TLAPS

USE FieldAssumption, RetryAssumption, CopyAssumption, FifoAssumption

\* While sendFrame is at work it has an attempt left.
RetryInv == pc \in {"try", "write", "request"} => retry < MaxRetry

LEMMA TypeInit == Init => TypeOK
  <1> SUFFICES ASSUME Init PROVE TypeOK
    OBVIOUS
  <1>1. board \in Boards /\ message \in Boards
    BY DEF Init, Boards, Versions
  <1>2. /\ field \in 1 .. FieldCount + 1 /\ retry \in 0 .. MaxRetry
        /\ rxPut \in FifoElements
        /\ updates \in 0 .. UpdatesPerCopy
    BY DEF Init, FifoElements
  <1> QED BY <1>1, <1>2 DEF Init, TypeOK, Contents, Steps

\* The put index wraps inside the FIFO.
LEMMA PutIndexType ==
  ASSUME NEW i \in FifoElements PROVE (i + 1) % FifoSize \in FifoElements
  BY DEF FifoElements

LEMMA TypeNext == TypeOK /\ RetryInv /\ [Next]_vars => TypeOK'
  <1> SUFFICES ASSUME TypeOK, RetryInv, [Next]_vars PROVE TypeOK'
    OBVIOUS
  <1> USE DEF TypeOK, RetryInv, Steps, taskVars
  <1>1. ASSUME NEW f \in Fields, UpdateDistance(f) PROVE TypeOK'
    <2>1. board[f] + 1 \in Versions
      BY <1>1 DEF UpdateDistance, Boards, Versions
    <2>2. board' \in Boards
      BY <1>1, <2>1 DEF UpdateDistance, Boards
    <2>3. seen' \subseteq Boards
      BY <1>1, <2>2 DEF UpdateDistance
    <2>4. updates' \in 0 .. UpdatesPerCopy
      BY <1>1 DEF UpdateDistance
    <2> QED BY <1>1, <2>2, <2>3, <2>4 DEF UpdateDistance
  <1>2. CASE StartCopy
    BY <1>2 DEF StartCopy
  <1>3. CASE CopyField
    <2>1. message' \in Boards
      BY <1>3 DEF CopyField, Boards
    <2> QED BY <1>3, <2>1 DEF CopyField, Fields
  <1>4. CASE EnterSendFrame
    BY <1>4 DEF EnterSendFrame
  <1>5. CASE BufferBusy
    <2>1. retry' \in 0 .. MaxRetry
      BY <1>5 DEF BufferBusy
    <2> QED BY <1>5, <2>1 DEF BufferBusy
  <1>6. CASE BufferFree
    BY <1>6 DEF BufferFree
  <1>7. CASE WriteElement
    BY <1>7 DEF WriteElement, Contents
  <1>8. CASE RequestTransmission
    <2>1. retry' \in 0 .. MaxRetry
      BY <1>8 DEF RequestTransmission
    <2> QED BY <1>8, <2>1 DEF RequestTransmission, Contents
  <1>9. CASE Transmit
    BY <1>9 DEF Transmit
  <1>10. CASE GoBusOff
    BY <1>10 DEF GoBusOff
  <1>11. CASE ReceiveForeign
    BY <1>11, PutIndexType DEF ReceiveForeign, Contents
  <1>12. CASE UNCHANGED vars
    BY <1>12 DEF vars
  <1> QED
    BY <1>1, <1>2, <1>3, <1>4, <1>5, <1>6, <1>7, <1>8, <1>9, <1>10, <1>11,
       <1>12
    DEF Next, CanTask

LEMMA RetryNext == TypeOK /\ RetryInv /\ [Next]_vars => RetryInv'
  BY DEF TypeOK, RetryInv, Next, CanTask, UpdateDistance, StartCopy, CopyField,
         EnterSendFrame, BufferBusy, BufferFree, WriteElement,
         RequestTransmission, Transmit, GoBusOff, ReceiveForeign,
         vars, taskVars, Steps

\* The variables keep their types, and the retry counter its limit.
THEOREM TypeCorrect == Spec => []TypeOK
  <1>1. Init => TypeOK /\ RetryInv
    BY TypeInit DEF Init, RetryInv
  <1>2. TypeOK /\ RetryInv /\ [Next]_vars => (TypeOK /\ RetryInv)'
    BY TypeNext, RetryNext
  <1> QED BY <1>1, <1>2, PTL DEF Spec

-----------------------------------------------------------------------------
(* The snapshot.                                                           *)

\* The condition on the scheduling under which a message is one board.
SingleUpdate == UpdatesPerCopy <= 1

\* old is a board seen during the copy that differs from the present one in
\* at most one field, and what has been copied so far agrees with one of them.
CopiedFrom(old) ==
  /\ updates = 0 => old = board
  /\ \E g \in Fields : \A f \in Fields \ {g} : old[f] = board[f]
  /\ \/ \A f \in 1 .. field - 1 : message[f] = old[f]
     \/ \A f \in 1 .. field - 1 : message[f] = board[f]

SnapshotInv ==
  /\ pc = "copy" => board \in seen /\ \E old \in seen : CopiedFrom(old)
  /\ SnapshotIsAtomic

LEMMA SnapshotInit == Init => SnapshotInv
  BY DEF Init, SnapshotInv, SnapshotIsAtomic

\* The copied fields are a full board when the last one is copied.
LEMMA CopyComplete ==
  ASSUME TypeOK, SnapshotInv, pc = "copy", field > FieldCount
  PROVE  message \in seen
  <1>1. PICK old \in seen : CopiedFrom(old)
    BY DEF SnapshotInv
  <1>2. field - 1 = FieldCount
    BY DEF TypeOK
  <1>3. old \in Boards /\ board \in Boards /\ message \in Boards
    BY DEF TypeOK
  <1>4. CASE \A f \in 1 .. field - 1 : message[f] = old[f]
    <2>1. message = old
      BY <1>2, <1>3, <1>4 DEF Boards, Fields
    <2> QED BY <2>1
  <1>5. CASE \A f \in 1 .. field - 1 : message[f] = board[f]
    <2>1. message = board
      BY <1>2, <1>3, <1>5 DEF Boards, Fields
    <2> QED BY <2>1 DEF SnapshotInv
  <1> QED BY <1>1, <1>4, <1>5 DEF CopiedFrom

\* Copying the next field keeps the message on the old or on the new board:
\* the one field in which they differ decides which.
LEMMA CopyFieldKeeps ==
  ASSUME TypeOK, SnapshotInv, CopyField
  PROVE  pc' = "copy" /\ board' \in seen' /\ \E old \in seen' : CopiedFrom(old)'
  <1>0. /\ pc' = "copy" /\ board' = board /\ seen' = seen
        /\ updates' = updates /\ field' = field + 1 /\ field \in Fields
        /\ pc = "copy"
    BY DEF CopyField
  <1>1. PICK old \in seen : CopiedFrom(old)
    BY <1>0 DEF SnapshotInv
  <1>2. PICK g \in Fields : \A f \in Fields \ {g} : old[f] = board[f]
    BY <1>1 DEF CopiedFrom
  <1>3. /\ message'[field] = board[field]
        /\ \A f \in Fields \ {field} : message'[f] = message[f]
    BY DEF CopyField, TypeOK, Boards
  <1>4. \A f \in 1 .. field' - 1 : f = field \/ f \in 1 .. field - 1
    BY <1>0 DEF TypeOK
  <1>5. \A f \in 1 .. field - 1 : f \in Fields \ {field}
    BY <1>0 DEF Fields
  <1>6. \/ \A f \in 1 .. field' - 1 : message'[f] = old[f]
        \/ \A f \in 1 .. field' - 1 : message'[f] = board[f]
    <2>1. CASE \A f \in 1 .. field - 1 : message[f] = board[f]
      BY <2>1, <1>3, <1>4, <1>5
    <2>2. CASE /\ \A f \in 1 .. field - 1 : message[f] = old[f]
               /\ field # g
      <3>1. old[field] = board[field]
        BY <2>2, <1>0, <1>2
      <3> QED BY <2>2, <3>1, <1>3, <1>4, <1>5
    <2>3. CASE /\ \A f \in 1 .. field - 1 : message[f] = old[f]
               /\ field = g
      <3>1. \A f \in 1 .. field - 1 : old[f] = board[f]
        BY <2>3, <1>2, <1>5
      <3> QED BY <2>3, <3>1, <1>3, <1>4, <1>5
    <2> QED BY <2>1, <2>2, <2>3, <1>1 DEF CopiedFrom
  <1>7. CopiedFrom(old)'
    BY <1>0, <1>1, <1>2, <1>6 DEF CopiedFrom
  <1> QED BY <1>0, <1>7 DEF SnapshotInv

\* The first change during a copy turns the present board into the old one.
LEMMA UpdateKeeps ==
  ASSUME TypeOK, SingleUpdate, SnapshotInv, NEW f \in Fields,
         UpdateDistance(f), pc = "copy"
  PROVE  board' \in seen' /\ \E old \in seen' : CopiedFrom(old)'
  <1>1. /\ updates = 0 /\ updates' = 1 /\ seen' = seen \cup {board'}
        /\ field' = field /\ message' = message
    BY DEF UpdateDistance, SingleUpdate, TypeOK, taskVars
  <1>2. PICK old \in seen : CopiedFrom(old)
    BY DEF SnapshotInv
  <1>3. old = board
    BY <1>1, <1>2 DEF CopiedFrom
  <1>4. \A h \in Fields \ {f} : old[h] = board'[h]
    BY <1>3 DEF UpdateDistance, TypeOK, Boards
  <1>5. \A h \in 1 .. field' - 1 : message'[h] = old[h]
    BY <1>1, <1>2, <1>3 DEF CopiedFrom
  <1>6. CopiedFrom(old)'
    BY <1>1, <1>4, <1>5 DEF CopiedFrom
  <1> QED BY <1>1, <1>6

LEMMA SnapshotNext ==
  ASSUME SingleUpdate, TypeOK, SnapshotInv, [Next]_vars
  PROVE  SnapshotInv'
  <1> USE DEF SnapshotIsAtomic
  <1>1. ASSUME NEW f \in Fields, UpdateDistance(f) PROVE SnapshotInv'
    <2>1. CASE pc = "copy"
      <3>1. pc' = "copy"
        BY <1>1, <2>1 DEF UpdateDistance, taskVars
      <3> QED BY <1>1, <2>1, <3>1, UpdateKeeps DEF SnapshotInv
    <2>2. CASE pc # "copy"
      BY <1>1, <2>2 DEF UpdateDistance, taskVars, SnapshotInv
    <2> QED BY <2>1, <2>2
  <1>2. CASE StartCopy
    <2>1. /\ pc' = "copy" /\ field' = 1 /\ updates' = 0 /\ board' = board
          /\ seen' = {board} /\ message' = message
      BY <1>2 DEF StartCopy
    <2>2. CopiedFrom(board)'
      <3>1. 1 \in Fields
        BY DEF Fields
      <3>2. \A f \in 1 .. field' - 1 : FALSE
        BY <2>1
      <3> QED BY <2>1, <3>1, <3>2 DEF CopiedFrom
    <2> QED BY <2>1, <2>2 DEF SnapshotInv
  <1>3. CASE CopyField
    BY <1>3, CopyFieldKeeps DEF SnapshotInv
  <1>4. CASE EnterSendFrame
    <2>1. message \in seen
      BY <1>4, CopyComplete DEF EnterSendFrame
    <2> QED BY <1>4, <2>1 DEF EnterSendFrame, SnapshotInv
  <1>5. ASSUME UNCHANGED <<message, seen>>, pc # "copy", pc' # "copy",
               pc' \in {"try", "write", "request"}
                 => pc \in {"try", "write", "request"}
        PROVE  SnapshotInv'
    BY <1>5 DEF SnapshotInv
  <1>6. ASSUME UNCHANGED <<board, pc, field, message, seen, updates>>
        PROVE  SnapshotInv'
    BY <1>6 DEF SnapshotInv, CopiedFrom
  <1> QED
    BY <1>1, <1>2, <1>3, <1>4, <1>5, <1>6
    DEF Next, CanTask, vars, taskVars, BufferBusy, BufferFree, WriteElement,
        RequestTransmission, Transmit, GoBusOff, ReceiveForeign

\* A message is the board at one moment, for any number of fields copied one
\* by one, as long as at most one distance changes during a copy.
THEOREM SnapshotsAreAtomic ==
  ASSUME SingleUpdate PROVE Spec => []SnapshotIsAtomic
  <1>1. Init => TypeOK /\ RetryInv /\ SnapshotInv
    BY TypeInit, SnapshotInit DEF Init, RetryInv
  <1>2. TypeOK /\ RetryInv /\ SnapshotInv /\ [Next]_vars
          => (TypeOK /\ RetryInv /\ SnapshotInv)'
    BY TypeNext, RetryNext, SnapshotNext
  <1>3. SnapshotInv => SnapshotIsAtomic
    BY DEF SnapshotInv
  <1> QED BY <1>1, <1>2, <1>3, PTL DEF Spec

-----------------------------------------------------------------------------
(* The transmit buffer.                                                    *)

\* The driver fills the element only while no transmission is requested, and
\* until the request only a received frame may get into it.
RequestInv ==
  /\ RequestedIsSent
  /\ pc = "write" => ~txPending
  /\ pc = "request" => ~txPending /\ txElement \in {message} \cup Overwrites

LEMMA RequestNext == RequestInv /\ [Next]_vars => RequestInv'
  <1> SUFFICES ASSUME RequestInv, [Next]_vars PROVE RequestInv'
    OBVIOUS
  <1> USE DEF RequestInv, RequestedIsSent
  <1>1. CASE ReceiveForeign
    <2>1. txElement' = txElement \/ (txElement' = Foreign /\ Foreign \in Overwrites)
      BY <1>1 DEF ReceiveForeign, Overwrites
    <2> QED BY <1>1, <2>1 DEF ReceiveForeign, taskVars
  <1>2. CASE WriteElement \/ RequestTransmission
    BY <1>2 DEF WriteElement, RequestTransmission
  <1>3. CASE BufferFree \/ BufferBusy
    BY <1>3 DEF BufferFree, BufferBusy
  <1>4. CASE StartCopy \/ CopyField \/ EnterSendFrame
    BY <1>4 DEF StartCopy, CopyField, EnterSendFrame
  <1>5. CASE Transmit \/ GoBusOff
    BY <1>5 DEF Transmit, GoBusOff, taskVars
  <1>6. ASSUME NEW f \in Fields, UpdateDistance(f) PROVE RequestInv'
    BY <1>6 DEF UpdateDistance, taskVars
  <1>7. CASE UNCHANGED vars
    BY <1>7 DEF vars, taskVars
  <1> QED
    BY <1>1, <1>2, <1>3, <1>4, <1>5, <1>6, <1>7 DEF Next, CanTask

\* Whatever the layout of the message RAM and the traffic: what waits or is
\* sent is the last message requested, or a received frame if one can be
\* stored over it, never a message sendFrame wrote over a pending one.
THEOREM RequestsAreSent == Spec => []RequestedIsSent
  <1>1. Init => RequestInv
    BY DEF Init, RequestInv, RequestedIsSent
  <1>2. RequestInv => RequestedIsSent
    BY DEF RequestInv
  <1> QED BY <1>1, <1>2, RequestNext, PTL DEF Spec
=============================================================================
