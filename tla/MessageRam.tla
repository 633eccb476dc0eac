----------------------------- MODULE MessageRam -----------------------------
(***************************************************************************)
(* The layout of the node's message RAM that McmcanFd_Init configures:     *)
(* where receive FIFO 0 and the dedicated transmit buffers begin and which *)
(* byte offsets their elements occupy.  Each element has an 8-byte header  *)
(* and a 64-byte data field.                                               *)
(***************************************************************************)
EXTENDS Naturals

RxFifo0StartAddress   == 512      \* 0x200
TxBuffersStartAddress == 1024     \* 0x400
RxFifo0Size           == 16
DedicatedTxBuffers    == 4
HeaderBytes           == 8
DataFieldBytes        == 64
ElementBytes          == HeaderBytes + DataFieldBytes

\* IfxCan_Node_getRxFifo0ElementAddress, IfxCan_Node_getTxBufferElementAddress
RxFifo0ElementAddress(i)  == RxFifo0StartAddress + ElementBytes * i
TxBufferElementAddress(b) == TxBuffersStartAddress + ElementBytes * b

\* The bytes of an element at an address whose frame carries n data bytes.
BytesUsed(address, n) == address .. address + HeaderBytes + n - 1

\* FIFO elements that a frame of rxBytes is stored into over the bytes of a
\* frame of txBytes waiting in transmit buffer b.
Overlapping(b, txBytes, rxBytes) ==
  { i \in 0 .. RxFifo0Size - 1 :
      BytesUsed(RxFifo0ElementAddress(i), rxBytes)
        \cap BytesUsed(TxBufferElementAddress(b), txBytes) # {} }
=============================================================================
