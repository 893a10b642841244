------------------------------- MODULE ApBoot --------------------------------
(***************************************************************************)
(* How the boot processor of an x86_64 machine starts the other ones       *)
(* (kernel/standalone/src/arch/x86_64.rs, from the initialisation of the   *)
(* timers to the end, and arch/x86_64/ap_boot.rs): INIT, SIPI and one      *)
(* retry, the code that a started processor executes out of a buffer that  *)
(* the boot processor wrote and frees, the closure that it takes, and the  *)
(* channel that the kernel comes from.                                     *)
(*                                                                         *)
(* Time is the TSC, in units of 10 ms.  TimerBase tells what a timer is    *)
(* relative to: "zero" is register_tsc_timer as it is, whose deadline is   *)
(* compared with the absolute TSC, and "registration" is its documentation *)
(* ("fires when the given amount of time has elapsed").                    *)
(***************************************************************************)
EXTENDS Integers, Sequences, FiniteSets

CONSTANTS Processors, \* acpi_tables.application_processors, a sequence
          TimerBases, \* subset of {"zero", "registration"}
          Second,     \* units of time in a second, at least 2
          MaxTsc,     \* bound on the TSC
          None

Ap == {Processors[i] : i \in DOMAIN Processors}

VARIABLES timer_base,
          kind,      \* kind[p]: "ok", "unresponsive" or "disabled"
          tsc,
          pc,        \* where the boot processor is
          ticks,     \* rdtsc_ticks_per_sec
          cur,       \* index of the processor being started
          attempts,
          deadline,  \* tsc_value of the timer waited for
          buffer,    \* whose bootstrap code the buffer holds, or None when free
          closure,   \* closure[p]: "none", "boxed", "taken" or "freed"
          ap,        \* ap[p]: what processor p does
          sipi_at,   \* sipi_at[p]: when p received its SIPI
          result,    \* result[p]: what boot_associated_processor returned
          channels,  \* kernel_channels
          sent,      \* processors that the kernel has been sent to
          num_cpus,
          running    \* Kernel::running, and the processor that set it

bsp == <<pc, ticks, cur, attempts, deadline, buffer, result, channels, sent, num_cpus>>
vars == <<timer_base, kind, tsc, pc, ticks, cur, attempts, deadline, buffer, closure, ap,
          sipi_at, result, channels, sent, num_cpus, running>>

Init ==
    /\ timer_base \in TimerBases
    /\ kind \in [Ap -> {"ok", "unresponsive", "disabled"}]
    /\ tsc = 0 /\ ticks = 0
    /\ pc = "calibrate"
    /\ cur = 1 /\ attempts = 0 /\ deadline = 0
    /\ buffer = None
    /\ closure = [p \in Ap |-> "none"]
    /\ ap = [p \in Ap |-> "halted"]
    /\ sipi_at = [p \in Ap |-> 0]
    /\ result = [p \in Ap |-> None]
    /\ channels = <<>> /\ sent = {}
    /\ num_cpus = 0
    /\ running = None

\* Executing code: between the reception of the SIPI and the signal.
Starting(p) == ap[p] \in {"template", "closure"}
Signalled(p) == ap[p] \in {"signalled", "kernel", "panicked"}
-----------------------------------------------------------------------------
(* Timers. *)

\* register_tsc_timer, in units that rdtsc_ticks_per_sec has been measured with.
TscValue(duration) ==
    IF timer_base = "zero" THEN duration ELSE tsc + duration
\* TimerFuture::poll.
Elapsed(value) == tsc >= value

\* A processor that reacts does so in less than a second.  The boot processor executes
\* in no time what it does between two waits, and polls at once what has been woken.
Prompt ==
    /\ \A p \in Ap : Starting(p) => tsc - sipi_at[p] < Second - 1
    /\ \/ pc = "calibrate" /\ tsc < Second
       \/ pc = "wait_init" /\ ~Elapsed(deadline)
       \/ pc = "select" /\ ~Elapsed(deadline) /\ ~Signalled(Processors[cur])
Tick ==
    /\ tsc < MaxTsc /\ Prompt
    /\ tsc' = tsc + 1
    /\ UNCHANGED <<timer_base, kind, closure, ap, sipi_at, running, bsp>>
-----------------------------------------------------------------------------
(* The boot processor. *)

\* timers::init: a timer of one second of the PIT, between two reads of the TSC.
Calibrate ==
    /\ pc = "calibrate" /\ tsc >= Second
    /\ ticks' = tsc
    /\ pc' = "next"
    /\ UNCHANGED <<timer_base, kind, tsc, closure, ap, sipi_at, running, cur, attempts,
                   deadline, buffer, result, channels, sent, num_cpus>>

\* The beginning of an iteration of the loop over the processors, up to the wait that
\* follows the INIT.
BootProcessor ==
    /\ pc = "next" /\ cur <= Len(Processors)
    /\ LET p == Processors[cur]
       IN  IF kind[p] = "disabled"
           THEN cur' = cur + 1 /\ UNCHANGED <<pc, attempts, deadline, buffer, closure, ap>>
           ELSE /\ buffer' = p
                /\ ap' = [ap EXCEPT ![p] = "init"]
                /\ deadline' = TscValue(1)
                /\ closure' = [closure EXCEPT ![p] = "boxed"]
                /\ attempts' = 0
                /\ pc' = "wait_init"
                /\ UNCHANGED cur
    /\ UNCHANGED <<timer_base, kind, tsc, sipi_at, running, ticks, result, channels, sent, num_cpus>>

WaitAfterInit ==
    /\ pc = "wait_init" /\ Elapsed(deadline)
    /\ pc' = "attempt"
    /\ UNCHANGED <<timer_base, kind, tsc, closure, ap, sipi_at, running, ticks, cur, attempts,
                   deadline, buffer, result, channels, sent, num_cpus>>

DropBuffer == None

\* boot_associated_processor returns: the buffer is dropped, and the channel of the
\* kernel with it unless it is kept.
Returned(p, r) ==
    /\ buffer' = DropBuffer
    /\ result' = [result EXCEPT ![p] = r]
    /\ channels' = IF r = "Ok" THEN Append(channels, p) ELSE channels
    /\ cur' = cur + 1
    /\ pc' = "next"

\* Mutant: the buffer is released once the SIPI is on its way.
KeptForNobody(p) == None
KeptFor(p) == p

Incremented(n) == n + 1

\* One iteration of the loop, up to its wait.  The SIPI is lost when the target is busy,
\* and ignored by a processor that has already started.
Attempt ==
    /\ pc = "attempt"
    /\ LET p == Processors[cur]
       IN  IF attempts >= 2
           THEN /\ closure' = [closure EXCEPT ![p] = "freed"]
                /\ Returned(p, "Timeout")
                /\ UNCHANGED <<attempts, deadline, ap, sipi_at>>
           ELSE /\ attempts' = Incremented(attempts)
                /\ \/ UNCHANGED <<ap, sipi_at>>
                   \/ /\ ap[p] = "init" /\ kind[p] = "ok"
                      /\ ap' = [ap EXCEPT ![p] = "template"]
                      /\ sipi_at' = [sipi_at EXCEPT ![p] = tsc]
                /\ deadline' = TscValue(Second)
                /\ pc' = "select"
                /\ buffer' = KeptFor(p)
                /\ UNCHANGED <<cur, closure, result, channels>>
    /\ UNCHANGED <<timer_base, kind, tsc, running, ticks, sent, num_cpus>>

\* block_on(select(ap_ready_timeout, init_finished_future)), which polls the timer first.
Select ==
    /\ pc = "select"
    /\ IF Elapsed(deadline)
       THEN pc' = "attempt" /\ UNCHANGED <<cur, buffer, result, channels>>
       ELSE Signalled(Processors[cur]) /\ Returned(Processors[cur], "Ok")
    /\ UNCHANGED <<timer_base, kind, tsc, closure, ap, sipi_at, running, ticks, attempts,
                   deadline, sent, num_cpus>>

CountCpus == Len(channels) + 1
KernelInit ==
    /\ pc = "next" /\ cur > Len(Processors)
    /\ num_cpus' = CountCpus
    /\ pc' = "send"
    /\ UNCHANGED <<timer_base, kind, tsc, closure, ap, sipi_at, running, ticks, cur, attempts,
                   deadline, buffer, result, channels, sent>>

\* Mutant: one processor is given the kernel.
OnlyFirst(s) == <<>>
Remaining(s) == Tail(s)

\* The kernel is sent to one processor, or the boot processor runs it.  Sending fails
\* when the other end is gone.
SendKernel ==
    /\ pc = "send"
    /\ IF channels # <<>>
       THEN /\ channels' = Remaining(channels)
            /\ IF ap[Head(channels)] = "wild"
               THEN pc' = "panic" /\ UNCHANGED sent
               ELSE sent' = sent \cup {Head(channels)} /\ UNCHANGED pc
            /\ UNCHANGED running
       ELSE /\ pc' = "run"
            /\ running' = IF running = None THEN "bsp" ELSE running
            /\ UNCHANGED <<channels, sent>>
    /\ UNCHANGED <<timer_base, kind, tsc, closure, ap, sipi_at, ticks, cur, attempts,
                   deadline, buffer, result, num_cpus>>
-----------------------------------------------------------------------------
(* A processor that is started. *)

ApStep(p, to) == ap' = [ap EXCEPT ![p] = to]

\* The template, up to the call of ap_after_boot with the parameter written in it.  The
\* code is no longer there when the buffer has been dropped: anything may be executed.
ApTemplate(p) ==
    /\ ap[p] = "template"
    /\ ApStep(p, IF buffer = p THEN "closure" ELSE "wild")
    /\ UNCHANGED <<timer_base, kind, tsc, closure, sipi_at, running, bsp>>

\* ap_after_boot takes the closure, which initialises the processor and signals.
ApAfterBoot(p) ==
    /\ ap[p] = "closure"
    /\ IF closure[p] = "boxed"
       THEN closure' = [closure EXCEPT ![p] = "taken"] /\ ApStep(p, "signalled")
       ELSE ApStep(p, "wild") /\ UNCHANGED closure
    /\ UNCHANGED <<timer_base, kind, tsc, sipi_at, running, bsp>>

\* boot_code: waits for the kernel, and unwraps; then Kernel::run, which one processor
\* really runs.
ApBootCode(p) ==
    /\ ap[p] = "signalled"
    /\ \/ p \in sent /\ ApStep(p, "kernel") /\ running' = IF running = None THEN p ELSE running
       \/ result[p] = "Timeout" /\ ApStep(p, "panicked") /\ UNCHANGED running
    /\ UNCHANGED <<timer_base, kind, tsc, closure, sipi_at, bsp>>

Bsp == Calibrate \/ BootProcessor \/ WaitAfterInit \/ Attempt \/ Select \/ KernelInit \/ SendKernel
Aps == \E p \in Ap : ApTemplate(p) \/ ApAfterBoot(p) \/ ApBootCode(p)
Next == Bsp \/ Aps \/ Tick

\* Time passes, and processors execute.
Spec ==
    /\ Init /\ [][Next]_vars /\ WF_vars(Tick) /\ WF_vars(Bsp)
    /\ \A p \in Ap : WF_vars(ApTemplate(p) \/ ApAfterBoot(p) \/ ApBootCode(p))
-----------------------------------------------------------------------------
(* Properties *)

Documented == timer_base = "registration"

\* Error::Timeout, "Associated processor is unresponsive": it is returned only for a
\* processor that has not started.
UnresponsiveOnly == \A p \in Ap : result[p] = "Timeout" => ap[p] = "init"

\* As long as timers do what they are documented to, no processor executes a buffer that
\* has been dropped or a closure that has been freed, and none is given up for being slow.
NoStaleCode == Documented => UnresponsiveOnly /\ \A p \in Ap : ap[p] # "wild"

\* Booting ends, whatever the processors do, and the loop that hands the kernel over does
\* not panic; and a processor that has signalled ends up running the kernel.
BootEnds ==
    /\ <>(pc = "run")
    /\ \A p \in Ap : Documented /\ ap[p] = "signalled" ~> ap[p] = "kernel"
=============================================================================
