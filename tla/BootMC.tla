------------------------------- MODULE BootMC --------------------------------
(***************************************************************************)
(* What the bare-metal kernel does on x86_64 before and while it runs, for *)
(* TLC: the memory it gives itself, the PIT that calibrates the clock, the *)
(* start of the other processors, and the APIC timers.  `part` chooses     *)
(* which of the four moves; the others stay in one initial state.          *)
(*                                                                         *)
(* Three timers, one of which may be dropped; two other processors, that   *)
(* may be disabled, unresponsive or miss a SIPI; one timer of the PIT of   *)
(* up to three one-shots and a remainder; and every memory map of one area *)
(* (and one of two areas) with every two sections to avoid, among eight    *)
(* addresses.                                                              *)
(***************************************************************************)
EXTENDS ApicTimers

CONSTANTS Processors, TimerBases, Second, BootMaxTsc, \* ApBoot
          MaxU16, MaxTicks,                           \* Pit
          MemoryMaps, ToAvoid, Megabyte               \* BootMemory

VARIABLES part,
          timer_base, kind, boot_tsc, pc, ticks, cur, attempts, boot_deadline, buffer,
          closure, ap, sipi_at, result, channels, sent, num_cpus, running,
          num_ticks, raised, num_major_ticks, minor_modulus, programming, registered, count,
          irq, pit_woken, done, elapsed, missed,
          areas, to_avoid, ap_boot_alloc, heap, mem_state

Boot == INSTANCE ApBoot WITH MaxTsc <- BootMaxTsc, tsc <- boot_tsc, deadline <- boot_deadline
Timer == INSTANCE Pit WITH woken <- pit_woken
Memory == INSTANCE BootMemory WITH state <- mem_state

bootvars == <<timer_base, kind, boot_tsc, pc, ticks, cur, attempts, boot_deadline, buffer,
              closure, ap, sipi_at, result, channels, sent, num_cpus, running>>
pitvars == <<num_ticks, raised, num_major_ticks, minor_modulus, programming, registered,
             count, irq, pit_woken, done, elapsed, missed>>
memvars == <<areas, to_avoid, ap_boot_alloc, heap, mem_state>>
allvars == <<part, vars, bootvars, pitvars, memvars>>

ProcessorsMC == <<"p1", "p2">>
TopAddress == 7
Spans == [start : 0 .. TopAddress, end : 0 .. TopAddress]
Proper == {r \in Spans : r.start < r.end}
MemoryMapsMC == {<<a>> : a \in Proper} \cup {<<[start |-> 0, end |-> 3], [start |-> 4, end |-> TopAddress]>>}
ToAvoidMC == {<<a, b>> : a \in {r \in Spans : r.start <= r.end}, b \in Proper}

\* The initial state of a part that does not move.
Pinned(p, fixed) == IF part = p THEN TRUE ELSE fixed
MCInit ==
    /\ part \in {"timers", "boot", "pit", "memory"}
    /\ Pinned("boot", timer_base = "zero" /\ kind = [p \in Boot!Ap |-> "ok"])
    /\ Pinned("pit", num_ticks = 0)
    /\ Pinned("memory", areas = <<>> /\ to_avoid = <<>>)
    /\ Init /\ Boot!Init /\ Timer!Init
    /\ IF part = "memory" THEN Memory!Init
       ELSE ap_boot_alloc = None /\ heap = None /\ mem_state = "boot"

OnTimers == part = "timers" /\ UNCHANGED <<part, bootvars, pitvars, memvars>>
OnBoot == part = "boot" /\ UNCHANGED <<part, vars, pitvars, memvars>>
OnPit == part = "pit" /\ UNCHANGED <<part, vars, bootvars, memvars>>
OnMemory == part = "memory" /\ UNCHANGED <<part, vars, bootvars, pitvars>>

MCNext ==
    \/ OnTimers /\ Next
    \/ OnBoot /\ Boot!Next
    \/ OnPit /\ Timer!Next
    \/ OnMemory /\ Memory!Next

\* The fairness of the part that moves.
MCFairness ==
    /\ WF_allvars(OnTimers /\ Tick) /\ WF_allvars(OnTimers /\ Interrupt)
    /\ \A f \in Future : WF_allvars(OnTimers /\ f \in woken /\ Poll(f))
    /\ WF_allvars(OnBoot /\ Boot!Tick) /\ WF_allvars(OnBoot /\ Boot!Bsp)
    /\ \A p \in Boot!Ap :
          WF_allvars(OnBoot /\ (Boot!ApTemplate(p) \/ Boot!ApAfterBoot(p) \/ Boot!ApBootCode(p)))
    /\ WF_allvars(OnPit /\ Timer!Program) /\ WF_allvars(OnPit /\ Timer!Count)
    /\ WF_allvars(OnPit /\ Timer!Interrupt) /\ WF_allvars(OnPit /\ pit_woken /\ Timer!Poll)

MCSpec == MCInit /\ [][MCNext]_allvars /\ MCFairness
-----------------------------------------------------------------------------

\* No processor executes a boot buffer that was dropped or a closure that was freed, if
\* timers do what they are documented to.
NoStaleCode == Boot!NoStaleCode

\* "Associated processor is unresponsive" is said only of one that has not started.
UnresponsiveOnly == Boot!UnresponsiveOnly

\* after_boot ends by running the kernel, whatever the other processors do, and those that
\* have signalled that they are up run it too.
BootEnds == part = "boot" => Boot!BootEnds

\* The PIT counts the ticks of a timer exactly, over several one-shots, and no interrupt
\* finds `raised` set.
PitExact == Timer!PitExact

\* The heap and the memory of the boot code are free memory, and apart.
MemoryIsFree == Memory!MemoryIsFree
=============================================================================
