-------------------------- MODULE ArmExecutorProofs --------------------------
(***************************************************************************)
(* For every set of wakers: the wfe/sev executor never waits on an event   *)
(* that nobody is about to tell it of, and every one of its steps is a     *)
(* step of the event loop it implements.                                   *)
(***************************************************************************)
EXTENDS ArmExecutor, TLAPS

\* The inductive invariant holds of every state of block_on and its wakers: an event
\* is known to its waker, to woken_up or to the poll that comes, and block_on waits in
\* `wfe` with woken_up set only if an event has been or is about to be sent.
THEOREM InvHolds == Spec => []Inv
<1>1. Init => Inv
  BY DEF Init, Inv, TypeOK
<1>2. Inv /\ [Next]_vars => Inv'
  <2> SUFFICES ASSUME Inv, [Next]_vars PROVE Inv'
    OBVIOUS
  <2> USE DEF Inv, TypeOK
  <2>1. CASE PollFuture
    BY <2>1 DEF PollFuture
  <2>2. CASE CheckWokenUp
    BY <2>2 DEF CheckWokenUp
  <2>3. CASE WaitForEvent
    BY <2>3 DEF WaitForEvent
  <2>4. ASSUME NEW s \in Source, Happens(s) PROVE Inv'
    BY <2>4 DEF Happens
  <2>5. ASSUME NEW s \in Source, StoreWokenUp(s) PROVE Inv'
    BY <2>5 DEF StoreWokenUp
  <2>6. ASSUME NEW s \in Source, SendEvent(s) PROVE Inv'
    BY <2>6 DEF SendEvent
  <2>7. CASE UNCHANGED vars
    BY <2>7 DEF vars
  <2>. QED
    BY <2>1, <2>2, <2>3, <2>4, <2>5, <2>6, <2>7 DEF Next, BlockOn, WakeByRef
<1>. QED
  BY <1>1, <1>2, PTL DEF Spec

\* "if an event happens between the moment when we check the value of
\* `local_waken.woken_up` and the moment when we call `wfe`, then the `wfe`
\* instruction will immediately return": block_on never waits through a wake-up.
THEOREM NeverSleepsOnEvent == Spec => []NoSleepOnEvent
<1>1. Inv => NoSleepOnEvent
  BY DEF Inv, TypeOK, NoSleepOnEvent
<1>. QED
  BY <1>1, InvHolds, PTL

\* Every step of block_on and of its wakers is a step of the event loop, or changes
\* nothing of it.
THEOREM StepsImplementEventLoop == Spec => Loop!Init /\ [][Loop!Next]_Loop!vars
<1>1. Init => Loop!Init
  BY DEF Init, Loop!Init
<1>2. Inv /\ [Next]_vars => [Loop!Next]_Loop!vars
  <2> SUFFICES ASSUME Inv, [Next]_vars PROVE [Loop!Next]_Loop!vars
    OBVIOUS
  <2>1. CASE PollFuture
    BY <2>1 DEF PollFuture, Loop!Next, Loop!Poll
  <2>2. CASE CheckWokenUp \/ WaitForEvent
    BY <2>2 DEF CheckWokenUp, WaitForEvent, Loop!vars
  <2>3. ASSUME NEW s \in Source, Happens(s) PROVE Loop!Next
    BY <2>3 DEF Happens, Loop!Next, Loop!Signal
  <2>4. ASSUME NEW s \in Source, WakeByRef(s) PROVE UNCHANGED Loop!vars
    BY <2>4 DEF WakeByRef, StoreWokenUp, SendEvent, Loop!vars
  <2>5. CASE UNCHANGED vars
    BY <2>5 DEF vars, Loop!vars
  <2>. QED
    BY <2>1, <2>2, <2>3, <2>4, <2>5 DEF Next, BlockOn
<1>. QED
  BY <1>1, <1>2, InvHolds, PTL DEF Spec
=============================================================================
