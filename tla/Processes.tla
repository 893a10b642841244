------------------------------ MODULE Processes ------------------------------
(***************************************************************************)
(* The collection of processes (core/src/scheduler/processes.rs) and the   *)
(* virtual machine of each of them (core/src/scheduler/vm.rs): creation    *)
(* from a module whose imports are resolved by name and signature, threads *)
(* that run until they finish, trap or call an imported function, and the  *)
(* values that they are resumed with.                                      *)
(*                                                                         *)
(* The interpreter is external: a run ends in any outcome that the module  *)
(* allows.  A value is reduced to its type; Void stands for None.          *)
(***************************************************************************)
EXTENDS Integers, SequencesExt

CONSTANTS Extrinsics,  \* extrinsics_id_assign: the signature of each function, by name
          Modules,     \* modules that may be executed
          Functions,   \* kinds of entries of an indirect table that start_thread may name
          MaxPid, MaxTid, \* bounds: ids handed out
          None

VARIABLES processes,  \* processes[pid]: module and threads of a living process
          pid_pool,   \* the last pid handed out
          tid_pool,   \* the last thread id handed out
          started,    \* thread ids of the threads that have been started
          reported,   \* reported[tid]: how many times the end of a thread was reported
          finished,   \* the last ProcessFinished: main thread and dead_threads
          panic       \* why the kernel has panicked, or None

vars == <<processes, pid_pool, tid_pool, started, reported, finished, panic>>

Void == "void"
NotReady == "none"          \* value_back is None: not the same as Some(None)
\* WasmValue::from and back are not implemented for floats.
Converts(type) == type # "F32"

Init ==
    /\ processes = << >>
    /\ pid_pool = 0 /\ tid_pool = 0
    /\ started = {}
    /\ reported = [t \in 1 .. MaxTid |-> 0]
    /\ finished = None
    /\ panic = None

\* IdPool::assign: 64 bits drawn at random, taken to be distinct from all earlier ones.
Drawn(pool) == pool + 1

\* A thread: execution says whether `execution` is Some, ret the type that the
\* interpreter expects back (resumable_value_type), called the function it waits for.
NewThread(tid, result) ==
    [tid |-> tid, execution |-> TRUE, interrupted |-> FALSE, ret |-> Void,
     called |-> None, result |-> result, value_back |-> Void]
-----------------------------------------------------------------------------
(* Creation. *)

\* Signature::matches_wasmi, and the closure that resolves an import.
MatchesParams(expected, obtained) == expected.params = obtained.params
Matches(expected, obtained) == expected = obtained
Resolves(import) == import.name \in DOMAIN Extrinsics /\ Matches(Extrinsics[import.name], import.sig)

\* What is executed first: `_start`, or else `main` with two parameters.
Entry(m) ==
    IF m.start = None
    THEN IF m.main # None /\ m.main.kind = "func"
         THEN [m.main EXCEPT !.kind = IF m.main.params = <<"I32", "I32">> THEN "func" ELSE "params"]
         ELSE m.main
    ELSE IF m.start.kind = "func" /\ m.start.params # <<>> THEN [m.start EXCEPT !.kind = "params"]
    ELSE m.start

\* ProcessStateMachine::new: "ok", an error, or a panic.  `memory` and the indirect table
\* may be missing.
NewProcess(m) ==
    CASE \E i \in m.imports : ~Resolves(i) -> "Interpreter"
      [] m.start_section -> "panic"
      [] m.memory = "other" -> "MemoryIsntMemory"
      [] m.table = "other" -> "IndirectTableIsntTable"
      [] Entry(m) = None -> "StartNotFound"
      [] Entry(m).kind = "other" -> "StartIsntAFunction"
      [] Entry(m).kind = "params" -> "panic"
      [] OTHER -> "ok"

\* The thread id is drawn before anything can fail; the pid only at the end.
Execute(m) ==
    /\ pid_pool < MaxPid /\ tid_pool < MaxTid
    /\ tid_pool' = Drawn(tid_pool)
    /\ IF NewProcess(m) = "ok"
       THEN /\ pid_pool' = Drawn(pid_pool)
            /\ processes' = [p \in DOMAIN processes \cup {pid_pool'} |->
                 IF p # pid_pool' THEN processes[p]
                 ELSE [module |-> m, main |-> tid_pool',
                       threads |-> <<NewThread(tid_pool', Entry(m).result)>>]]
            /\ started' = started \cup {tid_pool'}
       ELSE UNCHANGED <<pid_pool, processes, started>>
    /\ panic' = IF NewProcess(m) = "panic" THEN "start" ELSE None
    /\ UNCHANGED <<reported, finished>>

\* start_thread, which takes the function from the indirect table.
AddThread(threads, t) == Append(threads, t)
StartThread(p, f) ==
    /\ tid_pool < MaxTid
    /\ tid_pool' = Drawn(tid_pool)
    /\ IF processes[p].module.table # "ok" \/ f.kind = "missing"
       THEN UNCHANGED <<processes, started, panic>>       \* FunctionNotFound
       ELSE IF f.kind = "params"
       THEN panic' = "start" /\ UNCHANGED <<processes, started>>
       ELSE /\ processes' = [processes EXCEPT ![p].threads =
                               AddThread(@, NewThread(tid_pool', f.result))]
            /\ started' = started \cup {tid_pool'}
            /\ UNCHANGED panic
    /\ UNCHANGED <<pid_pool, reported, finished>>
-----------------------------------------------------------------------------
(* Execution. *)

\* ready_to_run_thread_index.
Ready(p) == {i \in DOMAIN processes[p].threads : processes[p].threads[i].value_back # NotReady}

RemoveProcess(p) == [q \in DOMAIN processes \ {p} |-> processes[q]]
Report(tids) == reported' = [t \in DOMAIN reported |-> reported[t] + IF t \in tids THEN 1 ELSE 0]
Tids(threads) == {threads[i].tid : i \in DOMAIN threads}

\* The process is removed: dead_threads, the main thread first.  into_user_datas no
\* longer has the main thread when that one has finished.
OnlyOthers(main, others) == others
WithMain(main, others) == <<main>> \o others
Ended(p, dead) ==
    /\ processes' = RemoveProcess(p)
    /\ finished' = [main |-> processes[p].main, dead |-> [i \in DOMAIN dead |-> dead[i].tid]]
    /\ Report(Tids(dead))

\* The checks of Thread::run before it resumes the interpreter with value v.
Accepts(t, v) == v = IF t.interrupted THEN t.ret ELSE Void

\* run: the first ready thread of any process that has one ("implementation-defined").
Run(p) ==
    /\ Ready(p) # {}
    /\ LET i == Min(Ready(p))
           threads == processes[p].threads
           t == threads[i]
           Taken == [t EXCEPT !.value_back = NotReady, !.execution = FALSE]
           Called(f) == [Taken EXCEPT !.interrupted = TRUE, !.execution = TRUE,
                                      !.ret = f.sig.ret, !.called = f.name]
           Left == RemoveAt(threads, i)
       IN  IF ~Accepts(t, t.value_back) \/ ~t.execution   \* BadValueTy, or unreachable
           THEN /\ panic' = "run"
                /\ processes' = [processes EXCEPT ![p].threads[i] = Taken]
                /\ UNCHANGED <<reported, finished>>
           ELSE
                 \/ \* the function returns
                    IF ~Converts(t.result) THEN panic' = "float" /\ UNCHANGED <<processes, reported, finished>>
                    ELSE /\ IF i = 1
                            THEN Ended(p, WithMain(t, Left))
                            ELSE /\ processes' = [processes EXCEPT ![p].threads = Left]
                                 /\ Report({t.tid})
                                 /\ UNCHANGED finished
                         /\ UNCHANGED panic
                 \/ \* it calls an imported function
                    \E f \in processes[p].module.imports :
                       /\ processes' = [processes EXCEPT ![p].threads[i] = Called(f)]
                       /\ panic' = IF \E k \in DOMAIN f.sig.params : ~Converts(f.sig.params[k])
                                   THEN "float" ELSE None
                       /\ UNCHANGED <<reported, finished>>
                 \/ \* it traps: the whole process is killed
                    Ended(p, threads) /\ UNCHANGED panic
    /\ UNCHANGED <<pid_pool, tid_pool, started>>

\* The user answers the call of a thread with a value of the type it has declared for
\* that function, having perhaps accessed the memory of the process before.
Resume(p, i) ==
    /\ LET t == processes[p].threads[i]
       IN  /\ t.called # None
           /\ processes' = [processes EXCEPT ![p].threads[i].value_back = Extrinsics[t.called].ret,
                                             ![p].threads[i].called = None]
    /\ UNCHANGED <<pid_pool, tid_pool, started, reported, finished, panic>>

\* read_memory and write_memory have no answer for a process without memory.
AccessMemory(p, i) ==
    /\ processes[p].threads[i].called # None
    /\ processes[p].module.memory = "none"
    /\ panic' = "memory"
    /\ UNCHANGED <<processes, pid_pool, tid_pool, started, reported, finished>>

Abort(p) ==
    /\ Ended(p, processes[p].threads)
    /\ UNCHANGED <<pid_pool, tid_pool, started, panic>>

Next ==
    /\ panic = None
    /\ \/ \E m \in Modules : Execute(m)
       \/ \E p \in DOMAIN processes :
            \/ Run(p) \/ Abort(p)
            \/ \E f \in Functions : StartThread(p, f)
            \/ \E i \in DOMAIN processes[p].threads : Resume(p, i) \/ AccessMemory(p, i)

Spec == Init /\ [][Next]_vars
-----------------------------------------------------------------------------
(* Properties *)

\* The end of every thread is reported exactly once, by itself or with its process.  "If it
\* stops, the entire process stops": the main thread stays the one of index 0 while threads
\* are started and end around it, and "the first element is the main thread's" among those
\* reported as dead.
EndsReported ==
    /\ \A tid \in started :
         reported[tid] = IF \E p \in DOMAIN processes : tid \in Tids(processes[p].threads) THEN 0 ELSE 1
    /\ \A p \in DOMAIN processes : processes[p].threads[1].tid = processes[p].main
    /\ finished # None => finished.dead[1] = finished.main

\* Imports are checked against the declared signatures, so that a value of the declared
\* type is always accepted back: Thread::run never meets a value of the wrong type, nor
\* one for a thread that has not started, nor a thread without execution.
ResumesAccepted == panic # "run"
=============================================================================
