--------------------------- MODULE ExecutorProofs ----------------------------
(***************************************************************************)
(* For every set of processors and devices: a processor never stays halted *)
(* on an event that nobody is about to tell it of, and every step of the   *)
(* executor is a step of the event loop it implements.                     *)
(***************************************************************************)
EXTENDS Executor, TLAPS

\* The inductive invariant holds of every state of block_on and its wakers.
THEOREM InvHolds == Spec => []Inv
<1>1. Init => Inv
  BY SourceAssumption DEF Init, Inv, TypeOK, NoIpiNeeded, EventKnown, HaltedWoken,
     HandlerRuns, InterruptsEnabled, Source
<1>2. Inv /\ [Next]_vars => Inv'
  <2> SUFFICES ASSUME Inv, [Next]_vars PROVE Inv'
    OBVIOUS
  <2> USE SourceAssumption DEF Inv, TypeOK, Source
  <2>1. CASE PollFuture
    BY <2>1 DEF PollFuture, Cpu, NoIpiNeeded, EventKnown, HaltedWoken, HandlerRuns,
       InterruptsEnabled
  <2>2. CASE DisableInterrupts
    BY <2>2 DEF DisableInterrupts, Cpu, NoIpiNeeded, EventKnown, HaltedWoken, HandlerRuns,
       InterruptsEnabled
  <2>3. CASE StoreNeedIpi
    BY <2>3 DEF StoreNeedIpi, Cpu, NoIpiNeeded, EventKnown, HaltedWoken, HandlerRuns,
       InterruptsEnabled
  <2>4. CASE CheckWokenUp
    BY <2>4 DEF CheckWokenUp, Cpu, NoIpiNeeded, EventKnown, HaltedWoken, HandlerRuns,
       InterruptsEnabled
  <2>5. CASE ClearNeedIpi
    BY <2>5 DEF ClearNeedIpi, Cpu, NoIpiNeeded, EventKnown, HaltedWoken, HandlerRuns,
       InterruptsEnabled
  <2>6. CASE TakeIpi
    BY <2>6 DEF TakeIpi, Resumed, NoIpiNeeded, EventKnown, HaltedWoken, HandlerRuns,
       InterruptsEnabled
  <2>7. ASSUME NEW s \in Source, Happens(s) PROVE Inv'
    BY <2>7 DEF Happens, NoIpiNeeded, EventKnown, HaltedWoken, HandlerRuns,
       InterruptsEnabled
  <2>8. ASSUME NEW s \in Source, StoreWokenUp(s) PROVE Inv'
    BY <2>8 DEF StoreWokenUp, NoIpiNeeded, EventKnown, HaltedWoken, HandlerRuns,
       InterruptsEnabled
  <2>9. ASSUME NEW s \in Source, SwapNeedIpi(s) PROVE Inv'
    BY <2>9 DEF SwapNeedIpi, Resumed, NoIpiNeeded, EventKnown, HaltedWoken, HandlerRuns,
       InterruptsEnabled
  <2>10. ASSUME NEW s \in Source, SendIpi(s) PROVE Inv'
    BY <2>10 DEF SendIpi, NoIpiNeeded, EventKnown, HaltedWoken, HandlerRuns,
       InterruptsEnabled
  <2>11. ASSUME NEW d \in Device, EnterHandler(d) PROVE Inv'
    BY <2>11 DEF EnterHandler, NoIpiNeeded, EventKnown, HaltedWoken, HandlerRuns,
       InterruptsEnabled
  <2>12. CASE UNCHANGED vars
    BY <2>12 DEF vars, NoIpiNeeded, EventKnown, HaltedWoken, HandlerRuns,
       InterruptsEnabled
  <2>. QED
    BY <2>1, <2>2, <2>3, <2>4, <2>5, <2>6, <2>7, <2>8, <2>9, <2>10, <2>11, <2>12
       DEF Next, BlockOn, WakeByRef
<1>. QED
  BY <1>1, <1>2, PTL DEF Spec

\* A halted processor with an unhandled event is about to be resumed: block_on
\* never sleeps through a wake-up.
THEOREM NeverSleepsOnEvent == Spec => []NoSleepOnEvent
<1>1. Inv => NoSleepOnEvent
  BY SourceAssumption
     DEF Inv, NoSleepOnEvent, NoIpiNeeded, EventKnown, HaltedWoken, HandlerRuns, TypeOK, Source
<1>. QED
  BY <1>1, InvHolds, PTL

\* Every step of block_on, of its wakers and of the interrupt handlers is a step of
\* the event loop, or changes nothing of it.
THEOREM StepsImplementEventLoop == Spec => Loop!Init /\ [][Loop!Next]_Loop!vars
<1>1. Init => Loop!Init
  BY DEF Init, Loop!Init
<1>2. Inv /\ [Next]_vars => [Loop!Next]_Loop!vars
  <2> SUFFICES ASSUME Inv, [Next]_vars PROVE [Loop!Next]_Loop!vars
    OBVIOUS
  <2>1. CASE PollFuture
    BY <2>1 DEF PollFuture, Cpu, Loop!Next, Loop!Poll
  <2>2. CASE DisableInterrupts \/ StoreNeedIpi \/ CheckWokenUp \/ ClearNeedIpi
    BY <2>2 DEF DisableInterrupts, StoreNeedIpi, CheckWokenUp, ClearNeedIpi, Cpu, Loop!vars
  <2>3. CASE TakeIpi
    BY <2>3 DEF TakeIpi, Resumed, Loop!vars
  <2>4. ASSUME NEW s \in Source, Happens(s) PROVE Loop!Next
    BY <2>4 DEF Happens, Loop!Next, Loop!Signal
  <2>5. ASSUME NEW s \in Source, WakeByRef(s) PROVE UNCHANGED Loop!vars
    BY <2>5 DEF WakeByRef, StoreWokenUp, SwapNeedIpi, SendIpi, Resumed, Loop!vars
  <2>6. ASSUME NEW d \in Device, EnterHandler(d) PROVE UNCHANGED Loop!vars
    BY <2>6 DEF EnterHandler, Loop!vars
  <2>7. CASE UNCHANGED vars
    BY <2>7 DEF vars, Loop!vars
  <2>. QED
    BY <2>1, <2>2, <2>3, <2>4, <2>5, <2>6, <2>7 DEF Next, BlockOn
<1>. QED
  BY <1>1, <1>2, InvHolds, PTL DEF Spec
=============================================================================
