------------------------------ MODULE Executor -------------------------------
(***************************************************************************)
(* The executor of the bare-metal kernel on x86_64                         *)
(* (kernel/standalone/src/arch/x86_64/executor.rs): `block_on` on one      *)
(* processor, and the `Waker` that other processors and the interrupt      *)
(* handlers of this processor call.                                        *)
(*                                                                         *)
(* One step is one access to the two atomics, or one instruction that      *)
(* changes whether an interrupt can be taken.  All the atomics are SeqCst. *)
(* An interrupt handler runs to its end before the interrupted code goes   *)
(* on.  `ready` is a history variable: the sources whose event no poll has *)
(* seen.                                                                   *)
(***************************************************************************)
CONSTANTS Remote,   \* sources that call the waker from another processor
          Device,   \* interrupts of this processor whose handler calls it
          NoOne

ASSUME SourceAssumption == Remote \cap Device = {} /\ NoOne \notin Remote \cup Device

Source == Remote \cup Device

VARIABLES pc,        \* where block_on is
          need_ipi,  \* Waker::need_ipi
          woken_up,  \* Waker::woken_up
          ipi,       \* the executor's vector is pending in the local APIC
          at,        \* at[s]: where the call of wake_by_ref by s is
          serving,   \* the device whose handler is running, or NoOne
          ready

vars == <<pc, need_ipi, woken_up, ipi, at, serving, ready>>

TypeOK ==
    /\ pc \in {"poll", "wait", "disabled", "stored", "woken", "halt", "done"}
    /\ need_ipi \in BOOLEAN
    /\ woken_up \in BOOLEAN
    /\ ipi \in BOOLEAN
    /\ at \in [Source -> {"idle", "raised", "store", "cas", "send"}]
    /\ serving \in Device \cup {NoOne}
    /\ ready \subseteq Source

Init ==
    /\ pc = "poll"
    /\ need_ipi = FALSE
    /\ woken_up = FALSE
    /\ ipi = FALSE
    /\ at = [s \in Source |-> "idle"]
    /\ serving = NoOne
    /\ ready = {}

InterruptsEnabled == pc \in {"poll", "wait", "halt", "done"}

\* `hlt` returns once an interrupt has been handled.
Resumed == IF pc = "halt" THEN "wait" ELSE pc
-----------------------------------------------------------------------------
(* block_on; it makes no step while a handler runs *)

Cpu(from, to) == pc = from /\ serving = NoOne /\ pc' = to

\* Future::poll: everything that is ready is handled; the future completes or not.
PollFuture ==
    /\ \E to \in {"wait", "done"} : Cpu("poll", to)
    /\ ready' = {}
    /\ UNCHANGED <<need_ipi, woken_up, ipi, at, serving>>

DisableInterrupts ==
    /\ Cpu("wait", "disabled")
    /\ UNCHANGED <<need_ipi, woken_up, ipi, at, serving, ready>>

StoreNeedIpi ==
    /\ Cpu("disabled", "stored")
    /\ need_ipi' = TRUE
    /\ UNCHANGED <<woken_up, ipi, at, serving, ready>>

\* The compare-and-swap on woken_up.  When it fails, `sti; hlt` follows, and no
\* interrupt can be taken between the two.
CheckWokenUp ==
    /\ Cpu("stored", IF woken_up THEN "woken" ELSE "halt")
    /\ woken_up' = FALSE
    /\ UNCHANGED <<need_ipi, ipi, at, serving, ready>>

ClearNeedIpi ==
    /\ Cpu("woken", "poll")
    /\ need_ipi' = FALSE
    /\ UNCHANGED <<woken_up, ipi, at, serving, ready>>
-----------------------------------------------------------------------------
(* wake_by_ref *)

\* Something happens that the future waits for: another processor goes on to call
\* the waker, a device raises its interrupt.
Happens(s) ==
    /\ at[s] = "idle"
    /\ at' = [at EXCEPT ![s] = IF s \in Device THEN "raised" ELSE "store"]
    /\ ready' = ready \cup {s}
    /\ UNCHANGED <<pc, need_ipi, woken_up, ipi, serving>>

\* The processor takes the interrupt of a device.
EnterHandler(d) ==
    /\ at[d] = "raised" /\ InterruptsEnabled /\ serving = NoOne
    /\ serving' = d
    /\ at' = [at EXCEPT ![d] = "store"]
    /\ UNCHANGED <<pc, need_ipi, woken_up, ipi, ready>>

\* Mutant: the waker sets woken_up and never looks at need_ipi.
StoreWokenUpOnly(s) ==
    /\ at[s] = "store"
    /\ woken_up' = TRUE
    /\ at' = [at EXCEPT ![s] = "idle"]
    /\ IF s \in Device
         THEN serving' = NoOne /\ pc' = Resumed
         ELSE UNCHANGED <<serving, pc>>
    /\ UNCHANGED <<need_ipi, ipi, ready>>

StoreWokenUp(s) ==
    /\ at[s] = "store"
    /\ woken_up' = TRUE
    /\ at' = [at EXCEPT ![s] = "cas"]
    /\ UNCHANGED <<pc, need_ipi, ipi, serving, ready>>

\* Mutant: the test that the caller is on another processor is inverted.
SwapNeedIpiInverted(s) ==
    /\ at[s] = "cas"
    /\ need_ipi' = FALSE
    /\ at' = [at EXCEPT ![s] = "idle"]
    /\ ipi' = (ipi \/ (need_ipi /\ s \in Device))
    /\ IF s \in Device
         THEN serving' = NoOne /\ pc' = Resumed
         ELSE UNCHANGED <<serving, pc>>
    /\ UNCHANGED <<woken_up, ready>>

\* The compare-and-swap on need_ipi.  A caller on the processor itself sends no
\* IPI: it is in a handler, whose end makes `hlt` return.
SwapNeedIpi(s) ==
    /\ at[s] = "cas"
    /\ need_ipi' = FALSE
    /\ at' = [at EXCEPT ![s] = IF need_ipi /\ s \in Remote THEN "send" ELSE "idle"]
    /\ IF s \in Device
         THEN serving' = NoOne /\ pc' = Resumed
         ELSE UNCHANGED <<serving, pc>>
    /\ UNCHANGED <<woken_up, ipi, ready>>

SendIpi(s) ==
    /\ at[s] = "send"
    /\ ipi' = TRUE
    /\ at' = [at EXCEPT ![s] = "idle"]
    /\ UNCHANGED <<pc, need_ipi, woken_up, serving, ready>>

\* The processor takes the executor's own interrupt; nobody registered a waker for
\* its vector, so the handler only acknowledges it.
TakeIpi ==
    /\ ipi /\ InterruptsEnabled /\ serving = NoOne
    /\ ipi' = FALSE
    /\ pc' = Resumed
    /\ UNCHANGED <<need_ipi, woken_up, at, serving, ready>>
-----------------------------------------------------------------------------
BlockOn == PollFuture \/ DisableInterrupts \/ StoreNeedIpi \/ CheckWokenUp \/ ClearNeedIpi

WakeByRef(s) == StoreWokenUp(s) \/ SwapNeedIpi(s) \/ SendIpi(s)

Next ==
    \/ BlockOn
    \/ TakeIpi
    \/ \E s \in Source : Happens(s) \/ WakeByRef(s)
    \/ \E d \in Device : EnterHandler(d)

\* The processors keep executing instructions and take the interrupts that are
\* pending for them.  Interrupts do not come back to back for ever: block_on makes a
\* step again and again between them.  Events need not happen.
Fairness ==
    /\ SF_vars(BlockOn)
    /\ SF_vars(TakeIpi)
    /\ \A s \in Source : WF_vars(WakeByRef(s))
    /\ \A d \in Device : SF_vars(EnterHandler(d))

Spec == Init /\ [][Next]_vars /\ Fairness
-----------------------------------------------------------------------------
\* A halted processor with an event that nobody has handled is about to be resumed:
\* an interrupt is pending or being handled, or another processor that has seen
\* need_ipi is about to send the IPI.  The order of the accesses that the comment
\* in block_on argues for ("We store `true` in `need_ipi` before checking
\* `woken_up`") and the adjacency of `sti` and `hlt` are what this rests on.
NoSleepOnEvent ==
    pc = "halt" /\ ready # {} =>
        \/ ipi
        \/ \E d \in Device : at[d] # "idle"
        \/ \E r \in Remote : \/ at[r] \in {"store", "send"}
                             \/ at[r] = "cas" /\ need_ipi

\* "If this is true, then you must set `woken_up` to true and send an IPI. If this
\* is false, then setting `woken_up` to true is enough" (need_ipi): while the flag
\* is false no processor is halted or about to be, except one that an IPI or a
\* handler will resume.
NoIpiNeeded ==
    ~need_ipi /\ pc \in {"stored", "halt"} => ipi \/ \E r \in Remote : at[r] = "send"

\* block_on polls its future after every event, until the future completes: the
\* executor implements the event loop its callers rely on.
Loop == INSTANCE EventLoop WITH finished <- pc = "done"
ImplementsEventLoop == Loop!Spec
-----------------------------------------------------------------------------
\* What makes NoSleepOnEvent inductive: an event is known to somebody, and a
\* processor that halts with woken_up set is one whose waker has not finished.
EventKnown ==
    \A s \in ready : \/ at[s] \in {"raised", "store"}
                     \/ woken_up
                     \/ pc \in {"poll", "woken", "done"}

HaltedWoken ==
    pc = "halt" /\ woken_up /\ need_ipi => \E s \in Source : at[s] = "cas"

HandlerRuns ==
    /\ \A d \in Device : at[d] \in {"store", "cas"} <=> serving = d
    /\ \A d \in Device : at[d] # "send"
    /\ \A r \in Remote : at[r] # "raised"
    /\ serving # NoOne => InterruptsEnabled

Inv == TypeOK /\ NoIpiNeeded /\ EventKnown /\ HaltedWoken /\ HandlerRuns
=============================================================================
