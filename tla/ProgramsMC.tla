------------------------------ MODULE ProgramsMC -----------------------------
(***************************************************************************)
(* What a program is made of, for TLC: the processes and virtual machines  *)
(* that execute it, the bytes of its system calls, the block_on that it is *)
(* linked with and the WASI functions that it calls.  `part` chooses what  *)
(* moves; the rest stays in its initial state.                             *)
(*                                                                         *)
(* "processes": modules of every kind, two processes, three threads.       *)
(* "syscalls": two threads that share a queue of up to two notifications,  *)
(* emit and answer.                                                        *)
(* "block_on": a program of three futures, in turns with the kernel.       *)
(* "wasi": two threads that call WASI functions.                           *)
(***************************************************************************)
EXTENDS BlockOn

CONSTANTS t1, t2, None
VARIABLES part,
          processes, pid_pool, tid_pool, started, reported, finished, process_panic,
          queue, pushed, visiting, caller, delivered, decoded, emitted, call_panic,
          file_descriptors, context, action, waiting_for_log, calling, wrote, logs, wasi_panic

Caller == {t1, t2}
-----------------------------------------------------------------------------
Sig(params, ret) == [params |-> params, ret |-> ret]
Extrinsics == [emit_message |-> Sig(<<"I32">>, "I32"), cancel_message |-> Sig(<<"I32">>, "void")]
Func(params, result) == [kind |-> "func", params |-> params, result |-> result]
Other == [kind |-> "other", params |-> <<>>, result |-> "void"]
Good == [imports |-> {[name |-> n, sig |-> Extrinsics[n]] : n \in DOMAIN Extrinsics},
         start_section |-> FALSE, memory |-> "ok", table |-> "ok",
         start |-> Func(<<>>, "void"), main |-> None]
Modules ==
    {Good, [Good EXCEPT !.start_section = TRUE], [Good EXCEPT !.memory = "other"],
     [Good EXCEPT !.memory = "none"], [Good EXCEPT !.table = "other"], [Good EXCEPT !.table = "none"],
     [Good EXCEPT !.start = Other], [Good EXCEPT !.start = None],
     [Good EXCEPT !.start = None, !.main = Func(<<"I32", "I32">>, "I32")],
     [Good EXCEPT !.start = None, !.main = Func(<<>>, "I32")],
     [Good EXCEPT !.start = Func(<<"I32">>, "void")], [Good EXCEPT !.start = Func(<<>>, "F32")],
     [Good EXCEPT !.imports = {[name |-> "emit_message", sig |-> Sig(<<"I32">>, "void")]}],
     [Good EXCEPT !.imports = {[name |-> "unknown", sig |-> Sig(<<>>, "void")]}]}
Functions == [kind : {"func", "params", "missing"}, result : {"void"}]

MaxPid == 2
MaxTid == 3
P == INSTANCE Processes WITH panic <- process_panic
processvars == <<processes, pid_pool, tid_pool, started, reported, finished, process_panic>>
-----------------------------------------------------------------------------
(* System calls: two threads that share a queue of up to two notifications, *)
(* emit and answer.  Bytes of three values, integers of 2 bytes, hashes of  *)
(* 1, and a buffer of 5 that grows.                                         *)

Notifications ==
    {[kind |-> "interface", interface |-> <<2>>, message_id |-> id, emitter_pid |-> 5, data |-> <<1>>]
        : id \in {None, 7}}
    \cup {[kind |-> "response", message_id |-> 4, ok |-> TRUE, data |-> <<2, 1>>],
          [kind |-> "response", message_id |-> 4, ok |-> FALSE, data |-> <<>>],
          [kind |-> "destroyed", pid |-> 5]}
PollLists == {<<>>, <<4, 1>>, <<1, 4, 0>>}
Emissions == {<<>>, <<<<1, 2>>>>, <<<<1, 2>>, <<>>, <<0>>>>, <<<<1, 2>>, <<1, 1>>, <<2, 2>>>>}
Answers == {[id |-> 5, data |-> <<1, 2>>], [id |-> 7, data |-> <<>>]}

MaxPush == 2
C == INSTANCE Syscalls
       WITH Thread <- Caller, B <- 3, U64 <- 2, U32 <- 2, Hash <- 1, Capacity <- 5,
            MaxIds <- 3, MaxMessage <- 6,
            resuming <- visiting, thread <- caller, panic <- call_panic
callvars == <<queue, pushed, visiting, caller, delivered, decoded, emitted, call_panic>>
-----------------------------------------------------------------------------
(* WASI: a file of two bytes; 3 and 16 stand for 2^16 - 1 and 2^64. *)

Files == [f \in {"wad"} |-> 2]
Buffers == {<<1>>, <<2, 1>>, <<0, 1>>}
Descriptors == {-1, 0, 2, 3, 4}
Offsets == {-1, 0, 1, 3}
ArgLists == {<<>>, <<2>>, <<0, 1>>}
\* The first thread calls every function; the second one opens and closes files
\* meanwhile.  Descriptors 0 and 1 stay open.
MayCall(t, c) ==
    /\ c.f = "fd_close" => c.fd \notin {0, 1}
    /\ t = t2 => c.f \in {"fd_close", "path_open"}

W == INSTANCE Wasi
       WITH Thread <- Caller, U16 <- 3, U64 <- 16, Lengths <- {0, 7}, MaxFds <- 4, Logged <- TRUE,
            panic <- wasi_panic
wasivars == <<file_descriptors, context, action, waiting_for_log, calling, wrote, logs, wasi_panic>>
-----------------------------------------------------------------------------
MCInit ==
    /\ part \in {"processes", "syscalls", "block_on", "wasi"}
    /\ Init /\ P!Init /\ C!Init /\ W!Init

OnProcesses == part = "processes" /\ UNCHANGED <<part, vars, callvars, wasivars>>
OnCalls == part = "syscalls" /\ UNCHANGED <<part, vars, processvars, wasivars>>
OnBlockOn == part = "block_on" /\ UNCHANGED <<part, processvars, callvars, wasivars>>
OnWasi == part = "wasi" /\ UNCHANGED <<part, vars, processvars, callvars>>

\* The kernel has panicked, there are no more ids, or the program sleeps until it is
\* notified, perhaps for ever.
ProcessesStopped ==
    (process_panic # None \/ pid_pool = MaxPid \/ tid_pool = MaxTid) /\ UNCHANGED processvars
CallsStopped == (call_panic # None \/ pushed = MaxPush) /\ UNCHANGED callvars
ProgramSleeps == Blocked /\ UNCHANGED vars
WasiStopped == wasi_panic # None /\ UNCHANGED wasivars

MCNext ==
    \/ OnProcesses /\ (P!Next \/ ProcessesStopped)
    \/ OnCalls /\ (C!Next \/ CallsStopped)
    \/ OnBlockOn /\ (Next \/ ProgramSleeps)
    \/ OnWasi /\ (W!Next \/ WasiStopped)

allvars == <<part, vars, processvars, callvars, wasivars>>

\* The fairness of BlockOn; the other parts have none.
MCFairness ==
    /\ SF_allvars(OnBlockOn /\ BlockOnStep)
    /\ \A f \in Future : SF_allvars(OnBlockOn /\ f \in to_poll /\ PollFuture(f))

MCSpec == MCInit /\ [][MCNext]_allvars /\ MCFairness
-----------------------------------------------------------------------------

\* The end of a thread is reported exactly once, and that of the main thread first.
EndsReported == P!EndsReported

\* A value of the declared type is always accepted back.
ResumesAccepted == P!ResumesAccepted

\* What one side of a system call has written is what the other side reads.
BytesAsMeant == C!BytesAsMeant

\* A notification is delivered once, although the buffer may first be too small.
DeliveredOnce == C!DeliveredOnce

\* A WASI call that returns has been logged once and has filled its buffer.
CallsDone == W!CallsDone

\* A descriptor names the same object, at a position inside it, until it is closed itself.
FdStable == [][\A i \in DOMAIN file_descriptors : W!FdKept(i)]_wasivars
=============================================================================
