----------------------------- MODULE ArmExecutor -----------------------------
(***************************************************************************)
(* The executor of the bare-metal kernel on ARM                            *)
(* (kernel/standalone/src/arch/arm/executor.rs): `block_on` sleeps with    *)
(* `wfe`, and the waker is a store followed by `dsb sy ; sev`.             *)
(***************************************************************************)
CONSTANT Source     \* whoever holds a clone of the waker

VARIABLES pc,             \* where block_on is
          woken_up,       \* LocalWake::woken_up
          event_register, \* the processor's 1-bit event register
          at,             \* at[s]: where the call of wake_by_ref by s is
          ready           \* history: sources whose event no poll has seen

vars == <<pc, woken_up, event_register, at, ready>>

TypeOK ==
    /\ pc \in {"poll", "check", "wfe", "done"}
    /\ woken_up \in BOOLEAN
    /\ event_register \in BOOLEAN
    /\ at \in [Source -> {"idle", "store", "sev"}]
    /\ ready \subseteq Source

Init ==
    /\ pc = "poll"
    /\ woken_up = FALSE
    /\ event_register \in BOOLEAN     \* nothing clears it before the first wfe
    /\ at = [s \in Source |-> "idle"]
    /\ ready = {}

PollFuture ==
    /\ pc = "poll"
    /\ pc' \in {"check", "done"}
    /\ ready' = {}
    /\ UNCHANGED <<woken_up, event_register, at>>

CheckWokenUp ==
    /\ pc = "check"
    /\ pc' = IF woken_up THEN "poll" ELSE "wfe"
    /\ woken_up' = FALSE
    /\ UNCHANGED <<event_register, at, ready>>

\* `wfe` waits until the event register is set, and clears it.
WaitForEvent ==
    /\ pc = "wfe" /\ event_register
    /\ event_register' = FALSE
    /\ pc' = "check"
    /\ UNCHANGED <<woken_up, at, ready>>

Happens(s) ==
    /\ at[s] = "idle"
    /\ at' = [at EXCEPT ![s] = "store"]
    /\ ready' = ready \cup {s}
    /\ UNCHANGED <<pc, woken_up, event_register>>

StoreWokenUp(s) ==
    /\ at[s] = "store"
    /\ woken_up' = TRUE
    /\ at' = [at EXCEPT ![s] = "sev"]
    /\ UNCHANGED <<pc, event_register, ready>>

SendEvent(s) ==
    /\ at[s] = "sev"
    /\ event_register' = TRUE
    /\ at' = [at EXCEPT ![s] = "idle"]
    /\ UNCHANGED <<pc, woken_up, ready>>

BlockOn == PollFuture \/ CheckWokenUp \/ WaitForEvent

\* Mutant: the event is sent before woken_up is set.
WakeByRefSwapped(s) ==
    /\ \/ /\ at[s] = "store"
          /\ event_register' = TRUE
          /\ at' = [at EXCEPT ![s] = "sev"]
          /\ UNCHANGED woken_up
       \/ /\ at[s] = "sev"
          /\ woken_up' = TRUE
          /\ at' = [at EXCEPT ![s] = "idle"]
          /\ UNCHANGED event_register
    /\ UNCHANGED <<pc, ready>>

WakeByRef(s) == StoreWokenUp(s) \/ SendEvent(s)

Next == BlockOn \/ \E s \in Source : Happens(s) \/ WakeByRef(s)

Fairness == WF_vars(BlockOn) /\ \A s \in Source : WF_vars(WakeByRef(s))

Spec == Init /\ [][Next]_vars /\ Fairness
-----------------------------------------------------------------------------
\* A processor that waits in `wfe` while an event is unhandled has its event
\* register set, or a waker is still to set it: "if an event happens between the
\* moment when we check the value of `local_waken.woken_up` and the moment when we
\* call `wfe`, then the `wfe` instruction will immediately return".
NoSleepOnEvent ==
    pc = "wfe" /\ ready # {} => event_register \/ \E s \in Source : at[s] # "idle"

\* block_on polls its future after every event, until the future completes.
Loop == INSTANCE EventLoop WITH finished <- pc = "done"
ImplementsEventLoop == Loop!Spec

\* The inductive invariant: an event is known to its waker, to woken_up or to the
\* poll that comes; woken_up is not left set behind a processor's back.
Inv ==
    /\ TypeOK
    /\ \A s \in ready : at[s] = "store" \/ woken_up \/ pc \in {"poll", "done"}
    /\ pc = "wfe" /\ woken_up => event_register \/ \E s \in Source : at[s] = "sev"
=============================================================================
