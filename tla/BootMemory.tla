----------------------------- MODULE BootMemory ------------------------------
(***************************************************************************)
(* The memory that the bare-metal kernel gives itself on x86_64:           *)
(* find_free_memory_ranges (arch/x86_64.rs), filter_build_ap_boot_alloc    *)
(* (arch/x86_64/ap_boot.rs) and mem_alloc::initialize (mem_alloc.rs), as   *)
(* after_boot composes them.  Addresses are in units of the size of the    *)
(* allocator of the boot code of processors.                               *)
(***************************************************************************)
EXTENDS Integers, SequencesExt

CONSTANTS MemoryMaps, \* memory_areas of the multiboot header: sequences of ranges
          ToAvoid,    \* what must be avoided: sequences of ranges
          Megabyte,   \* 0x100000
          None

WANTED == 1

VARIABLES areas, to_avoid, \* the multiboot information
          ap_boot_alloc, heap,
          state            \* "boot", "ok" or "panic"

vars == <<areas, to_avoid, ap_boot_alloc, heap, state>>

Span(a, b) == [start |-> a, end |-> b]
Size(r) == r.end - r.start

Init ==
    /\ areas \in MemoryMaps
    /\ to_avoid \in ToAvoid
    /\ ap_boot_alloc = None /\ heap = None
    /\ state = "boot"
-----------------------------------------------------------------------------
\* Mutant: the end of the section is taken for its start.
LargerSideOverlap(area, s) ==
    IF s.start - area.start > area.end - s.end
    THEN [area EXCEPT !.end = s.end] ELSE [area EXCEPT !.start = s.end]
\* A section inside the area: the larger side is kept.
LargerSide(area, s) ==
    IF s.start - area.start > area.end - s.end
    THEN [area EXCEPT !.end = s.start] ELSE [area EXCEPT !.start = s.end]

\* The body of the loop over the sections; None when nothing is left.
Without(area, s) ==
    CASE area = None -> None
      [] s.start >= area.start /\ s.end <= area.end -> LargerSide(area, s)
      [] s.start < area.start /\ s.end > area.end -> None
      [] s.start <= area.start /\ s.end > area.start -> [area EXCEPT !.start = s.end]
      [] s.start < area.end /\ s.end >= area.end -> [area EXCEPT !.end = s.start]
      [] OTHER -> area

FindFreeMemoryRanges ==
    SelectSeq([i \in DOMAIN areas |-> FoldLeft(Without, areas[i], to_avoid)],
              LAMBDA r : r # None)

\* filter_build_ap_boot_alloc takes the first range that fits below one megabyte.
Fits(r) == r.start + WANTED <= Megabyte /\ Size(r) >= WANTED
FirstFit(ranges) == SelectInSeq(ranges, Fits)
AfterTaken(r) == [r EXCEPT !.start = r.start + WANTED]
FilterBuildApBootAlloc(ranges) ==
    LET i == FirstFit(ranges)
        rest == [k \in DOMAIN ranges |-> IF k = i THEN AfterTaken(ranges[k]) ELSE ranges[k]]
    IN  IF i = 0 THEN ranges
        ELSE IF Size(ranges[i]) > WANTED THEN rest ELSE RemoveAt(ranges, i)

\* mem_alloc::initialize: the largest range, the last one of those (max_by_key).
Largest(ranges) ==
    ranges[CHOOSE i \in DOMAIN ranges :
             \A k \in DOMAIN ranges : Size(ranges[k]) <= Size(ranges[i])
                                      /\ (Size(ranges[k]) = Size(ranges[i]) => k <= i)]

\* An inverted range panics: in the filter while it still looks for a range, and in
\* initialize, which goes through all of them.
Inverted(ranges) == \E i \in DOMAIN ranges : Size(ranges[i]) < 0

\* The initialisation of the allocators in after_boot.
InitAllocators ==
    /\ state = "boot"
    /\ LET found == FindFreeMemoryRanges
           remaining == FilterBuildApBootAlloc(found)
           i == FirstFit(found)
       IN  IF Inverted(found)
           THEN state' = "panic" /\ UNCHANGED <<ap_boot_alloc, heap>>
           ELSE /\ heap' = IF remaining = <<>> \/ Size(Largest(remaining)) = 0
                           THEN None ELSE Largest(remaining)
                /\ ap_boot_alloc' = IF i = 0 THEN None
                                    ELSE Span(found[i].start, found[i].start + WANTED)
                /\ state' = IF i = 0 THEN "panic" ELSE "ok"
    /\ UNCHANGED <<areas, to_avoid>>

Next == InitAllocators
Spec == Init /\ [][Next]_vars
-----------------------------------------------------------------------------
(* Properties *)

Addresses(r) == r.start .. r.end - 1
Avoided == UNION {Addresses(to_avoid[i]) : i \in DOMAIN to_avoid}
Ram == UNION {Addresses(areas[i]) : i \in DOMAIN areas}

\* "We don't want to write over the kernel that has been loaded in memory": the heap and
\* the memory of the boot code are RAM that nothing else uses, apart from each other, and
\* the latter is below the megabyte that a processor in 16-bit mode can reach.
MemoryIsFree ==
    state = "ok" =>
        /\ Addresses(ap_boot_alloc) \subseteq (Ram \cap 0 .. Megabyte - 1) \ Avoided
        /\ heap # None => Addresses(heap) \subseteq (Ram \ Avoided) \ Addresses(ap_boot_alloc)
=============================================================================
