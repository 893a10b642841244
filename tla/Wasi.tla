-------------------------------- MODULE Wasi ---------------------------------
(***************************************************************************)
(* The WASI functions of one process (core/src/extrinsics/wasi.rs), called *)
(* by several threads that share its table of file descriptors, optionally *)
(* wrapped in the logging layer of core/src/extrinsics/log_calls.rs, with  *)
(* the steps by which the extrinsics layer applies the actions that they   *)
(* return.                                                                 *)
(*                                                                         *)
(* Pointers given by the program are reduced to whether they are within    *)
(* its memory; contents of files are reduced to their length.  The code    *)
(* builds an empty root directory: Files adds to it what its author did    *)
(* by hand ("hack to toy with DOOM").                                      *)
(***************************************************************************)
EXTENDS Integers, SequencesExt

CONSTANTS Thread,
          Files,      \* Files[f]: length of file f of the root directory
          U16,        \* u16::max_value(), scaled down
          U64,        \* number of values of an u64, scaled down
          Descriptors, \* descriptors that the program passes, valid or not
          Lengths,    \* lengths that the program passes to random_get
          Buffers,    \* lists of lengths that it passes to fd_read and fd_write
          Offsets,    \* offsets that it passes to fd_seek
          ArgLists,   \* lists of lengths of arguments
          MaxFds,     \* bound: the table grows no longer
          MayCall(_, _), \* MayCall(t, c): whether thread t makes call c
          Logged,     \* whether LogExtrinsics wraps the functions
          None

VARIABLES file_descriptors, \* file_descriptors[n + 1] is descriptor n
          context,          \* context[t]: ContextInner of the call in progress
          action,           \* action[t]: what the call in progress does next
          waiting_for_log,  \* waiting_for_log[t]: waiting_for_log_message
          calling,          \* calling[t]: the call in progress, or None
          wrote,            \* wrote[t]: offsets of the output buffer written by it
          logs,             \* logs[t]: messages of the logging layer about it
          panic             \* the call during which the kernel has panicked, or None

vars == <<file_descriptors, context, action, waiting_for_log, calling, wrote, logs, panic>>

\* FileDescriptor.
Closed == [kind |-> "closed", inode |-> None, pos |-> 0]
Empty == [Closed EXCEPT !.kind = "Empty"]
LogOut == [Closed EXCEPT !.kind = "LogOut"]
Directory == [Closed EXCEPT !.kind = "Directory"]
File(f, pos) == [kind |-> "File", inode |-> f, pos |-> pos]

\* ContextInner and ExtrinsicsAction.
Finished == [k |-> "Finished", n |-> 0, v |-> 0]
WaitClockVal == [Finished EXCEPT !.k = "WaitClockVal"]
WaitRandom(out, remaining) == [k |-> "WaitRandom", n |-> remaining, v |-> out]
ResumeLater(v) == [Finished EXCEPT !.k = "Resume", !.v = v]

NoAction == [k |-> "none", v |-> 0, response |-> FALSE]
Resume(v) == [NoAction EXCEPT !.k = "Resume", !.v = v]
ProgramCrash == [NoAction EXCEPT !.k = "ProgramCrash"]
EmitMessage(iface, n, response) == [k |-> iface, v |-> n, response |-> response]
Panic == [NoAction EXCEPT !.k = "panic"]
IsEmit(a) == a.k \in {"log", "random", "time"}

Init ==
    /\ file_descriptors = <<Empty, LogOut, LogOut, Directory>>
    /\ context = [t \in Thread |-> Finished]
    /\ action = [t \in Thread |-> NoAction]
    /\ waiting_for_log = [t \in Thread |-> NoAction]
    /\ calling = [t \in Thread |-> None]
    /\ wrote = [t \in Thread |-> {}]
    /\ logs = [t \in Thread |-> 0]
    /\ panic = None
-----------------------------------------------------------------------------
(* The functions.  Each gives the new table, the context and the action. *)

BADF == 8
NOENT == 44
NOSYS == 52
NOTSUP == 58

Out(fds, ctx, act) == [fds |-> fds, ctx |-> ctx, act |-> act]
Return(v) == Out(file_descriptors, Finished, Resume(v))
Crash == Out(file_descriptors, Finished, ProgramCrash)
Panics == Out(file_descriptors, Finished, Panic)
\* An access to memory that may be out of range.
Access(ok, out) == IF ok THEN out ELSE Crash
Least(a, b) == IF a <= b THEN a ELSE b
Most(a, b) == IF a <= b THEN b ELSE a

\* The look-up that begins the functions on descriptors; out is what follows it.
Descriptor(fd) == file_descriptors[fd + 1]
WithFd(fd, out) ==
    IF fd < 0 THEN Crash
    ELSE IF fd + 1 \notin DOMAIN file_descriptors \/ Descriptor(fd) = Closed
    THEN Return(BADF)
    ELSE out

\* "Clean up the tail".
CleanUp(fds) ==
    LET open == {i \in DOMAIN fds : fds[i] # Closed}
    IN  SubSeq(fds, 1, IF open = {} THEN 0 ELSE Max(open))

FdClose(c) ==
    WithFd(c.fd, Out(CleanUp([file_descriptors EXCEPT ![c.fd + 1] = Closed]), Finished, Resume(0)))

FdFdstatGet(c) == WithFd(c.fd, Access(c.ok, Return(0)))

FdFilestatGet(c) == WithFd(c.fd, Access(c.ok, Panics))

FdPrestatDirName(c) ==
    WithFd(c.fd, IF Descriptor(c.fd) \in {Empty, LogOut} THEN Return(BADF)
                 ELSE Access(c.ok, Return(0)))

FdPrestatGet(c) ==
    WithFd(c.fd, IF Descriptor(c.fd) = Directory THEN Access(c.ok, Return(0)) ELSE Return(NOTSUP))

\* The loop over the buffers stops at the first one that gets nothing.
Copied(left, lens) ==
    LET Copy(a, len) == IF a.stop \/ Least(left - a.total, len) = 0
                        THEN [a EXCEPT !.stop = TRUE]
                        ELSE [a EXCEPT !.total = @ + Least(left - a.total, len)]
    IN  FoldLeft(Copy, [total |-> 0, stop |-> FALSE], lens).total

FdRead(c) ==
    LET d == Descriptor(c.fd)
        n == Copied(Files[d.inode] - d.pos, c.lens)
    IN  WithFd(c.fd,
          CASE d \in {Empty, LogOut} -> Access(c.ok, Return(0))
            [] d = Directory -> Access(c.ok, Return(BADF))
            [] OTHER -> Access(c.ok, Out([file_descriptors EXCEPT ![c.fd + 1].pos = @ + n],
                                         Finished, Resume(0))))

\* A negative offset from the current position becomes an u64.
NewOffset(whence, pos, offset, max) ==
    CASE whence = "SET" -> Least(Most(offset, 0), max)
      [] whence = "CUR" -> Least(Least(pos + (offset % U64), U64 - 1), max)
      [] whence = "END" -> Least(Most(0, max + offset), max)

FdSeek(c) ==
    LET d == Descriptor(c.fd)
        new == NewOffset(c.whence, d.pos, c.offset, Files[d.inode])
    IN  WithFd(c.fd,
          IF d.kind # "File" THEN Return(BADF)
          ELSE IF c.whence = "other" THEN Panics
          ELSE Access(c.ok, Out([file_descriptors EXCEPT ![c.fd + 1].pos = new], Finished, Resume(0))))

FdWrite(c) ==
    LET d == Descriptor(c.fd)
    IN  WithFd(c.fd, Access(c.ok,
          CASE d = Empty -> Return(NOSYS)
            [] d = LogOut -> Out(file_descriptors, ResumeLater(0), EmitMessage("log", 0, FALSE))
            [] OTHER -> Panics))

\* resolve_path: "." is the directory itself, ".." is not implemented.
ResolvePath(d, path) ==
    CASE path = "." -> d
      [] d = Directory /\ path \in DOMAIN Files -> File(path, 0)
      [] OTHER -> Closed

Resolved(c) == ResolvePath(Descriptor(c.fd), c.path)
OnPath(c, out) ==
    WithFd(c.fd, IF Descriptor(c.fd) \in {Empty, LogOut} THEN Return(BADF)
                 ELSE IF ~c.ok THEN Crash
                 ELSE IF c.path = ".." THEN Panics
                 ELSE IF Resolved(c) = Closed THEN Return(NOENT)
                 ELSE out)

PathFilestatGet(c) == OnPath(c, Return(0))

\* The lowest index without descriptor, or a new one at the end.
LastFd(fds) == Len(fds)
FreeFd(fds) == Min({i \in DOMAIN fds : fds[i] = Closed} \cup {Len(fds) + 1})

PathOpen(c) ==
    LET i == FreeFd(file_descriptors)
        entry == [Resolved(c) EXCEPT !.pos = 0]
    IN  OnPath(c, Out([k \in DOMAIN file_descriptors \cup {i} |->
                         IF k = i THEN entry ELSE file_descriptors[k]], Finished, Resume(0)))

RandomRequest(len) == EmitMessage("random", Least(len, U16), TRUE)

RandomGet(c) == Out(file_descriptors, WaitRandom(0, c.len), RandomRequest(c.len))

ClockTimeGet(c) ==
    CASE c.clock \in {"REALTIME", "MONOTONIC"} ->
           Out(file_descriptors, WaitClockVal, EmitMessage("time", 0, TRUE))
      [] c.clock = "CPUTIME" -> Panics
      [] OTHER -> Crash

\* Layout of arguments: where each pointer and each string goes, and the reported sizes.
ArgsOrEnvGet(list) ==
    FoldLeft(LAMBDA a, len : [argv |-> Append(a.argv, a.pos), pos |-> a.pos + len + 1],
             [argv |-> <<>>, pos |-> 0], list)
ArgBytes(list) ==
    UNION {ArgsOrEnvGet(list).argv[i] .. ArgsOrEnvGet(list).argv[i] + list[i] : i \in DOMAIN list}
ArgsOrEnvSizesGet(list) ==
    [argc |-> Len(list), size |-> FoldLeft(LAMBDA s, len : s + len + 1, 0, list)]

NewContext(c) ==
    CASE c.f = "fd_close" -> FdClose(c)
      [] c.f = "fd_fdstat_get" -> FdFdstatGet(c)
      [] c.f = "fd_filestat_get" -> FdFilestatGet(c)
      [] c.f = "fd_prestat_dir_name" -> FdPrestatDirName(c)
      [] c.f = "fd_prestat_get" -> FdPrestatGet(c)
      [] c.f = "fd_read" -> FdRead(c)
      [] c.f = "fd_seek" -> FdSeek(c)
      [] c.f = "fd_write" -> FdWrite(c)
      [] c.f = "path_filestat_get" -> PathFilestatGet(c)
      [] c.f = "path_open" -> PathOpen(c)
      [] c.f = "random_get" -> RandomGet(c)
      [] c.f = "clock_time_get" -> ClockTimeGet(c)
      [] c.f \in {"args_get", "args_sizes_get"} ->  \* also for the environment
            Access(c.ok, Return(0))
      [] c.f = "sched_yield" -> Return(0)
      [] OTHER -> Panics  \* proc_exit, and what is not implemented

\* The calls that the program may make, by function.
SupportedExtrinsics ==
    [f : {"fd_fdstat_get", "fd_filestat_get", "fd_prestat_dir_name", "fd_prestat_get"},
     fd : Descriptors, ok : BOOLEAN]
    \cup [f : {"fd_close"}, fd : Descriptors]
    \cup [f : {"fd_read", "fd_write"}, fd : Descriptors, lens : Buffers, ok : BOOLEAN]
    \cup [f : {"fd_seek"}, fd : Descriptors, offset : Offsets,
          whence : {"SET", "CUR", "END", "other"}, ok : BOOLEAN]
    \cup [f : {"path_open", "path_filestat_get"}, fd : Descriptors,
          path : DOMAIN Files \cup {".", "..", "?"}, ok : BOOLEAN]
    \cup [f : {"random_get"}, len : Lengths, ok : BOOLEAN]
    \cup [f : {"clock_time_get"}, clock : {"REALTIME", "MONOTONIC", "CPUTIME", "?"}, ok : BOOLEAN]
    \cup [f : {"args_get", "args_sizes_get"}, list : ArgLists, ok : BOOLEAN]
    \cup [f : {"sched_yield", "proc_exit", "fd_tell", "fd_fdstat_set_flags",
               "path_create_directory", "poll_oneoff"}]
-----------------------------------------------------------------------------
(* The calls, and what the extrinsics layer does with the actions. *)

\* What is kept of a call in progress.
Brief(c) ==
    CASE c.f = "random_get" -> [f |-> c.f, n |-> c.len, ok |-> c.ok]
      [] c.f = "clock_time_get" -> [f |-> c.f, n |-> 0, ok |-> c.ok]
      [] c.f = "args_get" -> [f |-> c.f, n |-> ArgsOrEnvSizesGet(c.list).size, ok |-> c.ok]
      [] c.f = "fd_close" -> [f |-> c.f, n |-> c.fd, ok |-> TRUE]
      [] OTHER -> [f |-> "other", n |-> 0, ok |-> TRUE]

\* LogExtrinsics: the end of a call is held back until its log message is sent.
WrapSilently(t, act) == action' = [action EXCEPT ![t] = act] /\ UNCHANGED <<waiting_for_log, logs>>
Wrap(t, act) ==
    IF Logged /\ act.k \in {"Resume", "ProgramCrash"}
    THEN /\ waiting_for_log' = [waiting_for_log EXCEPT ![t] = act]
         /\ action' = [action EXCEPT ![t] = EmitMessage("log", 0, FALSE)]
         /\ logs' = [logs EXCEPT ![t] = @ + 1]
    ELSE action' = [action EXCEPT ![t] = act] /\ UNCHANGED <<waiting_for_log, logs>>

Call(t, c) ==
    /\ calling[t] = None /\ MayCall(t, c)
    /\ c.f = "path_open" => FreeFd(file_descriptors) <= MaxFds
    /\ LET r == NewContext(c)
       IN  /\ calling' = [calling EXCEPT ![t] = Brief(c)]
           /\ context' = [context EXCEPT ![t] = r.ctx]
           /\ file_descriptors' = r.fds
           /\ panic' = IF r.act = Panic THEN Brief(c) ELSE None
           /\ Wrap(t, r.act)
    /\ wrote' = [wrote EXCEPT ![t] = IF c.f = "args_get" /\ c.ok THEN ArgBytes(c.list) ELSE {}]

Resumes(t) ==
    /\ action[t].k = "Resume"
    /\ action' = [action EXCEPT ![t] = NoAction]
    /\ calling' = [calling EXCEPT ![t] = None]
    /\ wrote' = [wrote EXCEPT ![t] = {}]
    /\ logs' = [logs EXCEPT ![t] = 0]
    /\ UNCHANGED <<file_descriptors, context, waiting_for_log, panic>>

\* ProgramCrash is not implemented by the extrinsics layer.
Crashes(t) ==
    /\ action[t].k = "ProgramCrash"
    /\ panic' = calling[t]
    /\ UNCHANGED <<file_descriptors, context, action, waiting_for_log, calling, wrote, logs>>

\* inject_message_response of WasiExtrinsics: new context, action, bytes written.
Stays(out, n) == out
Advanced(out, n) == out + n

InjectClock(t) == IF calling[t].ok THEN [Return(0) EXCEPT !.fds = {}] ELSE [Panics EXCEPT !.fds = {}]

InjectRandom(t, n) ==
    LET out == context[t].v
        left == context[t].n - n
    IN  CASE n > context[t].n \/ n = 0 \/ ~calling[t].ok -> Out({}, Finished, Panic)
          [] left = 0 -> Out(out .. out + n - 1, Finished, Resume(0))
          [] OTHER -> Out(out .. out + n - 1, WaitRandom(Advanced(out, n), left), RandomRequest(left))

\* The message of the call was accepted and no answer is expected, or it was answered;
\* the handler of `random` gives as many bytes as it was asked for.
InjectMessageResponse(t) ==
    /\ IsEmit(action[t])
    /\ IF waiting_for_log[t] # NoAction
       THEN /\ action' = [action EXCEPT ![t] = waiting_for_log[t]]
            /\ waiting_for_log' = [waiting_for_log EXCEPT ![t] = NoAction]
            /\ UNCHANGED <<context, wrote, logs, panic>>
       ELSE LET r == CASE context[t].k = "WaitClockVal" -> InjectClock(t)
                       [] context[t].k = "WaitRandom" -> InjectRandom(t, action[t].v)
                       [] context[t].k = "Resume" -> Out({}, Finished, Resume(context[t].v))
                       [] OTHER -> Out({}, Finished, Panic)
            IN  /\ context' = [context EXCEPT ![t] = r.ctx]
                /\ wrote' = [wrote EXCEPT ![t] = @ \cup r.fds]
                /\ panic' = IF r.act = Panic THEN calling[t] ELSE None
                /\ Wrap(t, r.act)
    /\ UNCHANGED <<file_descriptors, calling>>

Continue(t) == Resumes(t) \/ Crashes(t) \/ InjectMessageResponse(t)

Next ==
    /\ panic = None
    /\ \E t \in Thread : Continue(t) \/ \E c \in SupportedExtrinsics : Call(t, c)

Spec == Init /\ [][Next]_vars
-----------------------------------------------------------------------------
(* Properties *)

\* "Since file descriptors must not change value over time": a descriptor keeps naming the
\* same object until it is closed itself, even if others are closed, the table is
\* shortened and indices are used again; and "the cursor position cannot go past
\* `content.len()`", so that the subtraction of fd_read does not underflow.
FdKept(i) ==
    \/ /\ i \in DOMAIN file_descriptors'
       /\ LET old == file_descriptors[i]
              new == file_descriptors'[i]
          IN  /\ new.inode = old.inode /\ new.kind = old.kind
              /\ new.kind = "File" => new.pos \in 0 .. Files[new.inode]
    \/ file_descriptors[i] = Closed
    \/ \E t \in Thread : /\ calling'[t] = [f |-> "fd_close", n |-> i - 1, ok |-> TRUE]
                         /\ calling[t] # calling'[t]

\* What has been done when a call returns.  "Every time a call has finished, a message is
\* sent to the log interface": exactly one, whatever the call has emitted itself.
\* random_get has filled its whole buffer, and nothing else, by requests that fit in an
\* u16, and args_get exactly the buffer that args_sizes_get has told the program to
\* allocate.  The assertions of inject_message_response hold, for any length but 0.
CallsDone ==
    /\ \A t \in Thread :
         /\ Logged /\ action[t].k \in {"Resume", "ProgramCrash"} => logs[t] = 1
         /\ action[t].k = "Resume" /\ calling[t] # None /\ calling[t].f \in {"random_get", "args_get"}
              => wrote[t] = 0 .. calling[t].n - 1
    /\ panic # None /\ panic.f = "random_get" => panic.n = 0 \/ ~panic.ok
=============================================================================
