------------------------------ MODULE EventLoop ------------------------------
(***************************************************************************)
(* What `block_on` promises, whatever the processor: events of some        *)
(* sources become pending at any time; the loop polls its future, and one  *)
(* poll handles everything that is pending; a pending event is always      *)
(* followed by a poll, until the future completes.                         *)
(*                                                                         *)
(* `Executor` (x86_64) and `ArmExecutor` are shown to implement it.        *)
(***************************************************************************)
CONSTANT Source     \* whoever holds a clone of the waker

VARIABLES ready,    \* sources with an event that no poll has handled yet
          finished  \* the future has completed and block_on has returned

vars == <<ready, finished>>

TypeOK == ready \subseteq Source /\ finished \in BOOLEAN

Init == ready = {} /\ finished = FALSE

Signal(s) == ready' = ready \cup {s} /\ UNCHANGED finished

Poll == ~finished /\ ready' = {} /\ finished' \in BOOLEAN

Next == Poll \/ \E s \in Source : Signal(s)

Spec == Init /\ [][Next]_vars /\ WF_vars(ready # {} /\ Poll)
=============================================================================
