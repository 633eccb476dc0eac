--------------------------- MODULE CpuSyncProofs ----------------------------
(***************************************************************************)
(* Theorems about CpuSync for every set of cores, timeout and timer range. *)
(***************************************************************************)
EXTENDS CpuSync, TLAPS

USE CoreAssumption, TimeAssumption

\* A core that waits has looked at the timer late[c] units ago, when its
\* timeout had not passed, and the wrapped difference is the time it waited.
WaitInv(c) ==
  /\ pc[c] \in {"reset", "emitted"} => waited[c] = 0 /\ late[c] = 0
  /\ pc[c] \in Waiting => /\ waited[c] < Timeout + late[c]
                          /\ TicksSince(begin[c]) = waited[c]
  /\ pc[c] = "released" => event = Cores \/ waited[c] >= Timeout

Inv == TypeOK /\ \A c \in Cores : WaitInv(c)

LEMMA InvInit == Init => Inv
  <1> SUFFICES ASSUME Init PROVE Inv
    OBVIOUS
  <1>1. TypeOK
    BY DEF Init, TypeOK, CoreStates
  <1>2. ASSUME NEW c \in Cores PROVE WaitInv(c)
    BY DEF Init, WaitInv, Waiting
  <1> QED BY <1>1, <1>2 DEF Inv

\* The difference of two timer values follows the timer, across its wrap.
LEMMA TickCounts ==
  ASSUME TypeOK, Tick, NEW c \in Cores, TicksSince(begin[c]) + 1 < StmRange
  PROVE  /\ stm' \in 0 .. StmRange - 1
         /\ TicksSince(begin[c])' = TicksSince(begin[c]) + 1
  <1>1. stm \in 0 .. StmRange - 1 /\ begin[c] \in 0 .. StmRange - 1
    BY DEF TypeOK
  <1>2. /\ begin' = begin
        /\ stm' = IF stm = StmRange - 1 THEN 0 ELSE stm + 1
    BY DEF Tick
  <1> QED BY <1>1, <1>2 DEF TicksSince

LEMMA TickKeeps == ASSUME Inv, Tick PROVE Inv'
  <1>1. /\ stm' \in 0 .. StmRange - 1
        /\ UNCHANGED <<event, pc, begin>>
        /\ late' = [c \in Cores |-> IF pc[c] \in Waiting THEN late[c] + 1 ELSE late[c]]
        /\ waited' = [c \in Cores |->
                        IF pc[c] \in Waiting THEN waited[c] + 1 ELSE waited[c]]
        /\ \A c \in Cores : pc[c] \in Waiting => late[c] < PollGap
    BY DEF Tick, Inv, TypeOK
  <1>2. ASSUME NEW c \in Cores PROVE WaitInv(c)'
                                   /\ late'[c] \in 0 .. PollGap
                                   /\ waited'[c] \in 0 .. Timeout + PollGap
    <2>1. /\ WaitInv(c) /\ late[c] \in 0 .. PollGap
          /\ waited[c] \in 0 .. Timeout + PollGap
      BY DEF Inv, TypeOK
    <2>2. CASE pc[c] \in Waiting
      <3>1. late'[c] = late[c] + 1 /\ waited'[c] = waited[c] + 1 /\ pc'[c] = pc[c]
        BY <1>1, <2>2
      <3>2. late[c] < PollGap /\ waited[c] < Timeout + late[c]
        BY <1>1, <2>1, <2>2 DEF WaitInv
      <3>3. TicksSince(begin[c])' = waited[c] + 1
        BY <2>1, <2>2, <3>2, TickCounts DEF WaitInv, Inv
      <3> QED BY <2>1, <2>2, <3>1, <3>2, <3>3 DEF WaitInv, Waiting
    <2>3. CASE pc[c] \notin Waiting
      <3>1. late'[c] = late[c] /\ waited'[c] = waited[c] /\ pc'[c] = pc[c]
        BY <1>1, <2>3
      <3> QED BY <1>1, <2>1, <2>3, <3>1 DEF WaitInv, Waiting
    <2> QED BY <2>2, <2>3
  <1>3. TypeOK'
    BY <1>1, <1>2 DEF Inv, TypeOK
  <1> QED BY <1>2, <1>3 DEF Inv

\* A step of one core: no other core and no timer moves.
LEMMA CoreKeeps ==
  ASSUME Inv, NEW d \in Cores, EmitEvent(d) \/ Wait(d) PROVE Inv'
  <1>1. \A c \in Cores \ {d} :
           /\ pc'[c] = pc[c] /\ begin'[c] = begin[c]
           /\ late'[c] = late[c] /\ waited'[c] = waited[c]
    BY DEF Inv, TypeOK, EmitEvent, Wait, BeginWait, AllDone, SomeMissing,
           TimedOut, WaitOn
  <1>2. stm' = stm /\ event \subseteq event' /\ event' \subseteq Cores
    BY DEF Inv, TypeOK, EmitEvent, Wait, BeginWait, AllDone, SomeMissing,
           TimedOut, WaitOn
  <1>3. \A c \in Cores \ {d} : WaitInv(c)'
    <2> SUFFICES ASSUME NEW c \in Cores \ {d} PROVE WaitInv(c)'
      OBVIOUS
    <2>1. WaitInv(c)
      BY DEF Inv
    <2>2. event = Cores => event' = Cores
      BY <1>2
    <2>3. TicksSince(begin[c])' = TicksSince(begin[c])
      BY <1>1, <1>2 DEF TicksSince
    <2> QED BY <1>1, <2>1, <2>2, <2>3 DEF WaitInv
  <1>4. WaitInv(d)'
    <2>0. /\ WaitInv(d) /\ stm \in 0 .. StmRange - 1
          /\ begin[d] \in 0 .. StmRange - 1 /\ late[d] \in 0 .. PollGap
          /\ waited[d] \in 0 .. Timeout + PollGap
      BY DEF Inv, TypeOK
    <2>1. CASE EmitEvent(d)
      <3>1. /\ pc[d] = "reset" /\ pc'[d] = "emitted"
            /\ waited' = waited /\ late' = late
        BY <2>1 DEF EmitEvent, Inv, TypeOK
      <3> QED BY <2>0, <3>1 DEF WaitInv, Waiting
    <2>2. CASE BeginWait(d)
      <3>1. /\ pc[d] = "emitted" /\ pc'[d] = "bits" /\ begin'[d] = stm
            /\ waited' = waited /\ late' = late
        BY <2>2 DEF BeginWait, Inv, TypeOK
      <3>2. TicksSince(begin[d])' = 0
        BY <1>2, <2>0, <3>1 DEF TicksSince
      <3> QED BY <2>0, <3>1, <3>2 DEF WaitInv, Waiting
    <2>3. CASE AllDone(d)
      <3>1. pc'[d] = "released" /\ event' = Cores
        BY <2>3 DEF AllDone, Inv, TypeOK
      <3> QED BY <3>1 DEF WaitInv, Waiting
    <2>4. CASE SomeMissing(d)
      <3>1. /\ pc[d] = "bits" /\ pc'[d] = "clock" /\ begin' = begin
            /\ waited' = waited /\ late' = late
        BY <2>4 DEF SomeMissing, Inv, TypeOK
      <3>2. TicksSince(begin[d])' = TicksSince(begin[d])
        BY <1>2, <3>1 DEF TicksSince
      <3> QED BY <2>0, <3>1, <3>2 DEF WaitInv, Waiting
    <2>5. CASE TimedOut(d)
      <3>1. /\ pc[d] = "clock" /\ pc'[d] = "released" /\ waited' = waited
            /\ TicksSince(begin[d]) >= Timeout
        BY <2>5 DEF TimedOut, Inv, TypeOK
      <3> QED BY <2>0, <3>1 DEF WaitInv, Waiting
    <2>6. CASE WaitOn(d)
      <3>1. /\ pc[d] = "clock" /\ pc'[d] = "bits" /\ late'[d] = 0
            /\ waited' = waited /\ begin' = begin
            /\ TicksSince(begin[d]) < Timeout
        BY <2>6 DEF WaitOn, Inv, TypeOK
      <3>2. TicksSince(begin[d])' = TicksSince(begin[d])
        BY <1>2, <3>1 DEF TicksSince
      <3> QED BY <2>0, <3>1, <3>2 DEF WaitInv, Waiting
    <2> QED BY <2>1, <2>2, <2>3, <2>4, <2>5, <2>6 DEF Wait
  <1>5. TypeOK'
    <2>1. pc' \in [Cores -> CoreStates]
      BY DEF Inv, TypeOK, CoreStates, EmitEvent, Wait, BeginWait, AllDone,
             SomeMissing, TimedOut, WaitOn
    <2>2. /\ begin' \in [Cores -> 0 .. StmRange - 1]
          /\ late' \in [Cores -> 0 .. PollGap]
          /\ waited' \in [Cores -> 0 .. Timeout + PollGap]
      BY DEF Inv, TypeOK, EmitEvent, Wait, BeginWait, AllDone, SomeMissing,
             TimedOut, WaitOn
    <2> QED BY <1>2, <2>1, <2>2 DEF Inv, TypeOK
  <1> QED BY <1>3, <1>4, <1>5 DEF Inv

LEMMA InvNext == Inv /\ [Next]_vars => Inv'
  <1> SUFFICES ASSUME Inv, [Next]_vars PROVE Inv'
    OBVIOUS
  <1>1. CASE UNCHANGED vars
    BY <1>1 DEF vars, Inv, TypeOK, WaitInv, TicksSince
  <1> QED BY <1>1, TickKeeps, CoreKeeps DEF Next

\* The inductive invariant holds in every reachable state.
LEMMA InvCorrect == Spec => []Inv
  BY InvInit, InvNext, PTL DEF Spec

\* The variables keep their types; no core waits longer than the timeout and
\* one gap between two looks at the timer.
THEOREM TypeCorrect == Spec => []TypeOK
  <1>1. Inv => TypeOK
    BY DEF Inv
  <1> QED BY <1>1, InvCorrect, PTL

\* A core passes the barrier only with all cores there or its timeout really
\* over, for any number of cores and wherever the 32-bit timer wraps.
THEOREM BarrierOrTimeout == Spec => []ReleasedOrTimedOut
  <1>1. Inv => ReleasedOrTimedOut
    BY DEF Inv, WaitInv, ReleasedOrTimedOut
  <1> QED BY <1>1, InvCorrect, PTL
=============================================================================
