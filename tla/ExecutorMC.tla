----------------------------- MODULE ExecutorMC ------------------------------
(***************************************************************************)
(* The two executors for TLC: a kernel is built either for x86_64 or for   *)
(* ARM.  `arch` chooses which of the two runs; the other stays in its      *)
(* initial state.  On x86_64 two other processors and two local interrupts *)
(* call the waker, on ARM three holders of the waker.                      *)
(***************************************************************************)
EXTENDS Executor
CONSTANTS r1, r2, d1, d2, ArmSource
MCRemote == {r1, r2}
MCDevice == {d1, d2}

VARIABLES arch, arm_pc, arm_woken_up, event_register, arm_at, arm_ready

Arm == INSTANCE ArmExecutor
         WITH Source <- ArmSource, pc <- arm_pc, woken_up <- arm_woken_up,
              at <- arm_at, ready <- arm_ready

armvars == <<arm_pc, arm_woken_up, event_register, arm_at, arm_ready>>
allvars == <<vars, armvars, arch>>

MCInit == Init /\ Arm!Init /\ arch \in {"x86_64", "arm"}

OnX86 == arch = "x86_64" /\ UNCHANGED <<armvars, arch>>
OnArm == arch = "arm" /\ UNCHANGED <<vars, arch>>

MCNext ==
    \/ OnX86 /\ Next
    \/ OnArm /\ Arm!Next

\* The fairness of Executor and of ArmExecutor, of the one that runs.
MCFairness ==
    /\ SF_allvars(OnX86 /\ BlockOn)
    /\ SF_allvars(OnX86 /\ TakeIpi)
    /\ \A s \in Source : WF_allvars(OnX86 /\ WakeByRef(s))
    /\ \A d \in Device : SF_allvars(OnX86 /\ EnterHandler(d))
    /\ WF_allvars(OnArm /\ Arm!BlockOn)
    /\ \A s \in ArmSource : WF_allvars(OnArm /\ Arm!WakeByRef(s))

MCSpec == MCInit /\ [][MCNext]_allvars /\ MCFairness
-----------------------------------------------------------------------------

\* The wfe/sev executor polls its future after every event.
ArmImplementsEventLoop == Arm!ImplementsEventLoop
=============================================================================
