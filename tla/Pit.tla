--------------------------------- MODULE Pit ---------------------------------
(***************************************************************************)
(* The programmable interrupt timer                                        *)
(* (kernel/standalone/src/arch/x86_64/pit.rs): a duration longer than its  *)
(* 16-bit counter is cut into one-shots, each programmed by the poll that  *)
(* follows the interrupt of the previous one.                              *)
(***************************************************************************)
EXTENDS Integers

CONSTANTS MaxU16,   \* u16::max_value(): the longest one-shot
          MaxTicks  \* bound on the duration of a timer, in ticks

VARIABLES num_ticks,       \* the duration of the timer
          raised, num_major_ticks, minor_modulus, \* the PitFuture
          programming,     \* ticks that poll is about to program, 0 when it is not running
          registered,      \* a waker is registered for the interrupt vector
          count,           \* the counter of the PIT, 0 when it is stopped
          irq,             \* the interrupt has been raised and not handled
          woken,           \* the task must be polled
          done,            \* the future is ready
          elapsed,         \* ticks since the timer was created
          missed           \* the assertion of wake_by_ref has failed

vars == <<num_ticks, raised, num_major_ticks, minor_modulus, programming, registered, count,
          irq, woken, done, elapsed, missed>>

\* Mutant: the remainder is that of a division by 2^16.
MajorByRange(n) == n \div (MaxU16 + 1)
\* PitControl::timer.
Major(n) == n \div MaxU16
Minor(n) == n % MaxU16

Init ==
    /\ num_ticks \in 0 .. MaxTicks
    /\ raised = TRUE
    /\ num_major_ticks = Major(num_ticks) /\ minor_modulus = Minor(num_ticks)
    /\ programming = 0
    /\ registered = FALSE
    /\ count = 0 /\ irq = FALSE
    /\ woken = TRUE
    /\ done = FALSE
    /\ elapsed = 0
    /\ missed = FALSE

RegisterWaker == TRUE

\* poll, up to the registration of the waker.  The task may be polled at any time.
Poll ==
    /\ ~done /\ ~missed /\ programming = 0
    /\ woken' = FALSE
    /\ raised' = FALSE
    /\ IF ~raised
       THEN UNCHANGED <<num_major_ticks, minor_modulus, programming, registered, done>>
       ELSE LET ticks == IF num_major_ticks = 0 THEN minor_modulus ELSE MaxU16
            IN  /\ IF num_major_ticks = 0
                   THEN minor_modulus' = 0 /\ UNCHANGED num_major_ticks
                   ELSE num_major_ticks' = num_major_ticks - 1 /\ UNCHANGED minor_modulus
                /\ done' = (ticks = 0)
                /\ programming' = ticks
                /\ registered' = IF ticks = 0 THEN registered ELSE RegisterWaker
    /\ UNCHANGED <<num_ticks, count, irq, elapsed, missed>>

\* channel0_one_shot, the last thing that poll does.
Program ==
    /\ programming # 0
    /\ count' = programming
    /\ programming' = 0
    /\ UNCHANGED <<num_ticks, raised, num_major_ticks, minor_modulus, registered, irq, woken,
                   done, elapsed, missed>>

\* The hardware counts, and raises IRQ 0 on terminal count.
Count ==
    /\ count > 0
    /\ count' = count - 1
    /\ irq' = (irq \/ count = 1)
    /\ elapsed' = elapsed + 1
    /\ UNCHANGED <<num_ticks, raised, num_major_ticks, minor_modulus, programming, registered,
                   woken, done, missed>>

\* The interrupt handler takes the waker and wakes it: RaisingArc::wake_by_ref.
Interrupt ==
    /\ irq /\ ~missed
    /\ irq' = FALSE
    /\ IF registered
       THEN /\ registered' = FALSE
            /\ raised' = TRUE
            /\ missed' = raised
            /\ woken' = (woken \/ ~raised)
       ELSE UNCHANGED <<registered, raised, missed, woken>>
    /\ UNCHANGED <<num_ticks, num_major_ticks, minor_modulus, programming, count, done, elapsed>>

Next == Poll \/ Program \/ Count \/ Interrupt

\* The hardware counts, interrupts are handled, and the executor polls what was woken.
Fairness ==
    /\ WF_vars(Program) /\ WF_vars(Count) /\ WF_vars(Interrupt)
    /\ WF_vars(woken /\ Poll)
Spec == Init /\ [][Next]_vars /\ Fairness
-----------------------------------------------------------------------------
(* Properties *)

\* "If `_was_raised` is true here, then we will miss a interrupt": the assertion never
\* fails, whatever the polls that nothing asked for; and the future, once ready, has
\* counted its ticks and no more, over all its one-shots.
PitExact == ~missed /\ (done => elapsed = num_ticks)
=============================================================================
