---------------------------- MODULE MCSensorCan -----------------------------
(* Small instances of SensorCan for TLC, with the real layout of the RAM.  *)
EXTENDS SensorCan
LOCAL INSTANCE MessageRam

\* The elements a frame of one byte or more shares with a 24-byte message in
\* transmit buffer 0.
RealFifoSize == RxFifo0Size
RealShared   == Overlapping(0, 24, 1)

\* A layout in which no element of the FIFO reaches the buffer.
NoneShared == {}
=============================================================================
