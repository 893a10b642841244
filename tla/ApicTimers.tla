----------------------------- MODULE ApicTimers ------------------------------
(***************************************************************************)
(* The timers of the bare-metal kernel on x86_64                           *)
(* (kernel/standalone/src/arch/x86_64/apic/timers.rs): a list of deadlines *)
(* shared by all the `TimerFuture`s, whose first element is programmed in  *)
(* the local APIC, and the interrupt that wakes the future of that first   *)
(* element.                                                                *)
(*                                                                         *)
(* One TSC tick is one clock unit.  The APIC is in TSC-deadline mode.  A   *)
(* future stands for the task that polls it and for its waker.             *)
(***************************************************************************)
EXTENDS Integers, FiniteSets, SequencesExt

CONSTANTS Future,     \* the futures that register_tsc_timer returns
          ClockValue, \* the values it is called with
          ClockZero,  \* the TSC when the timers were initialised
          MaxTsc,     \* bound on the TSC
          MaxDrops,   \* bound on the futures dropped before they complete
          None

ASSUME TimersAssumption ==
    /\ ClockZero \in Nat /\ MaxTsc \in Nat /\ MaxDrops \in Nat
    /\ ClockValue \subseteq 1..MaxTsc
    /\ None \notin Future

VARIABLES tsc,       \* the time stamp counter
          timers,    \* Timers::timers: a sequence of [tsc, waker]
          state,     \* state[f]: "unused", "waiting", "ready" or "dropped"
          tsc_value, \* tsc_value[f]: TimerFuture::tsc_value
          in_list,   \* futures whose in_timers_list is true
          woken,     \* futures whose task has been woken and not polled since
          deadline,  \* the TSC-deadline MSR, 0 when disarmed
          idt_waker, \* the waker registered for the interrupt vector
          panicked   \* a debug_assert has failed

vars == <<tsc, timers, state, tsc_value, in_list, woken, deadline, idt_waker, panicked>>

Init ==
    /\ tsc = ClockZero
    /\ timers = <<>>
    /\ state = [f \in Future |-> "unused"]
    /\ tsc_value = [f \in Future |-> 0]
    /\ in_list = {} /\ woken = {}
    /\ deadline = 0 /\ idt_waker = None
    /\ panicked = FALSE

\* monotonic_clock
MonotonicClock == tsc - ClockZero

Dropped == {f \in Future : state[f] = "dropped"}

\* Mutant: the timers that are removed along with the one that fired are not woken.
WakeNobody(fs) == {}

\* Waking the task of a future that is gone has no effect.
Wake(fs) == {f \in fs : state[f] = "waiting"}

\* Mutant: the interrupt is programmed and its waker is left as it was.
UpdateApicTimerStateNoWaker(list) ==
    IF list = <<>>
      THEN UNCHANGED <<deadline, idt_waker, panicked>>
      ELSE deadline' = list[1].tsc /\ UNCHANGED <<idt_waker, panicked>>

\* update_apic_timer_state, once `list` is the list of timers.
UpdateApicTimerState(list) ==
    IF list = <<>>
      THEN UNCHANGED <<deadline, idt_waker, panicked>>
      ELSE IF list[1].tsc > tsc
        THEN /\ idt_waker' = list[1].waker
             /\ deadline' = list[1].tsc
             /\ UNCHANGED panicked
        ELSE panicked' = TRUE /\ UNCHANGED <<deadline, idt_waker>>
-----------------------------------------------------------------------------
\* register_tsc_timer; the task that owns the future polls it at least once.
RegisterTscTimer(f, value) ==
    /\ ~panicked /\ state[f] = "unused"
    /\ state' = [state EXCEPT ![f] = "waiting"]
    /\ tsc_value' = [tsc_value EXCEPT ![f] = value]
    /\ woken' = woken \cup {f}
    /\ UNCHANGED <<tsc, timers, in_list, deadline, idt_waker, panicked>>

\* poll, the deadline reached: the future removes itself and every earlier timer
\* that the list starts with, and wakes the others.
PollReached(f) ==
    /\ tsc >= tsc_value[f]
    /\ state' = [state EXCEPT ![f] = "ready"]
    /\ in_list' = in_list \ {f}
    /\ IF f \notin in_list
         THEN woken' = woken \ {f} /\ UNCHANGED <<timers, deadline, idt_waker, panicked>>
         ELSE LET later == SelectInSeq(timers, LAMBDA t : t.tsc > tsc)
                  kept  == IF later = 0 THEN <<>> ELSE SubSeq(timers, later, Len(timers))
                  gone  == 1..(Len(timers) - Len(kept))
              IN  /\ timers' = kept
                  /\ woken' = (woken \cup Wake({timers[i].waker : i \in gone})) \ {f}
                  /\ IF gone = {} THEN UNCHANGED <<deadline, idt_waker, panicked>>
                                  ELSE UpdateApicTimerState(kept)
    /\ UNCHANGED <<tsc, tsc_value>>

\* poll, the deadline not reached: the first poll inserts the timer before the first
\* one that is later, and at the front when there is none.
PollNotReached(f) ==
    /\ tsc < tsc_value[f]
    /\ woken' = woken \ {f}
    /\ in_list' = in_list \cup {f}
    /\ IF f \in in_list
         THEN UNCHANGED <<timers, deadline, idt_waker, panicked>>
         ELSE LET later == SelectInSeq(timers, LAMBDA t : t.tsc > tsc_value[f])
                  pos   == IF later = 0 THEN 1 ELSE later
              IN  /\ timers' = InsertAt(timers, pos, [tsc |-> tsc_value[f], waker |-> f])
                  /\ IF pos = 1 THEN UpdateApicTimerState(timers')
                                ELSE UNCHANGED <<deadline, idt_waker, panicked>>
    /\ UNCHANGED <<tsc, state, tsc_value>>

\* A task is polled when it has been woken, and may be polled at any other time.
Poll(f) ==
    /\ ~panicked /\ state[f] = "waiting"
    /\ PollReached(f) \/ PollNotReached(f)

\* TimerFuture::drop of a future that has not completed.  A timer followed by one of
\* the same value stays in the list.
Drop(f) ==
    /\ ~panicked /\ state[f] = "waiting" /\ Cardinality(Dropped) < MaxDrops
    /\ state' = [state EXCEPT ![f] = "dropped"]
    /\ woken' = woken \ {f}
    /\ LET mine == SelectInSeq(timers, LAMBDA t : t.tsc = tsc_value[f])
           stays == \/ f \notin in_list
                    \/ mine = 0
                    \/ mine < Len(timers) /\ timers[mine + 1].tsc = tsc_value[f]
       IN  IF stays
             THEN UNCHANGED <<timers, deadline, idt_waker, panicked>>
             ELSE /\ timers' = RemoveAt(timers, mine)
                  /\ IF mine = 1 THEN UpdateApicTimerState(timers')
                                 ELSE UNCHANGED <<deadline, idt_waker, panicked>>
    /\ UNCHANGED <<tsc, tsc_value, in_list>>

\* The timer's interrupt: the MSR is cleared by the hardware, and the handler wakes
\* the waker of its vector, which the AtomicWaker forgets.
Interrupt ==
    /\ ~panicked /\ deadline # 0 /\ tsc >= deadline
    /\ deadline' = 0
    /\ woken' = woken \cup Wake({idt_waker} \ {None})
    /\ idt_waker' = None
    /\ UNCHANGED <<tsc, timers, state, tsc_value, in_list, panicked>>

Tick ==
    /\ ~panicked /\ tsc < MaxTsc
    /\ tsc' = tsc + 1
    /\ UNCHANGED <<timers, state, tsc_value, in_list, woken, deadline, idt_waker, panicked>>

Next ==
    \/ Interrupt \/ Tick
    \/ \E f \in Future : Poll(f) \/ Drop(f) \/ \E v \in ClockValue : RegisterTscTimer(f, v)

\* Time passes, the interrupt comes, and the executor polls the tasks it was told
\* to poll.
Fairness ==
    /\ WF_vars(Tick) /\ WF_vars(Interrupt)
    /\ \A f \in Future : WF_vars(f \in woken /\ Poll(f))

Spec == Init /\ [][Next]_vars /\ Fairness
-----------------------------------------------------------------------------
Fired == deadline = 0 /\ timers # <<>> /\ tsc >= timers[1].tsc

\* "The TSC value and the `Waker` stored in the first element of this list must
\* always be respectively the value that is present in the TSC deadline MSR, and the
\* Waker in the IDT for the timer's interrupt (with the exception of the interval
\* between when a timer interrupt has been triggered and when the awakened timer
\* future is being polled)": whatever is inserted, removed or dropped.
HeadProgrammed ==
    timers # <<>> /\ ~panicked =>
        Fired \/ (deadline = timers[1].tsc /\ idt_waker = timers[1].waker)

\* "Returns a `Future` that fires when the given amount of time has elapsed": every
\* timer completes, as long as none is dropped.
EveryTimerFires ==
    \A f \in Future : state[f] = "waiting" ~> state[f] = "ready" \/ Dropped # {}
=============================================================================
