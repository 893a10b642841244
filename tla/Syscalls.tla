------------------------------ MODULE Syscalls -------------------------------
(***************************************************************************)
(* The boundary between a program and the kernel: the bytes of the         *)
(* notifications (interfaces/syscalls/src/ffi.rs), the arguments that the  *)
(* kernel parses from the memory of the program                            *)
(* (core/src/scheduler/extrinsics/calls.rs), and the loop with which       *)
(* next_notification of block_on.rs finds a buffer that is large enough,   *)
(* run by several threads of one process that share its queue.             *)
(*                                                                         *)
(* A byte is a digit in base B and integers have fewer bytes than in the   *)
(* code: U64 for u64, U32 for u32, Hash for the 32 bytes of a hash.        *)
(***************************************************************************)
EXTENDS Integers, SequencesExt

CONSTANTS Thread,
          B, U64, U32, Hash, \* the base, and numbers of bytes
          Capacity,          \* capacity of the first buffer (32 in the code)
          MaxIds,            \* next_notification accepts fewer ids (512 in the code)
          MaxMessage,        \* emit_message accepts fewer bytes (16 MiB in the code)
          Notifications,     \* what the kernel may queue for the process
          PollLists,         \* lists that the threads pass to next_notification
          Emissions,         \* messages that the program emits, as lists of slices
          Answers,           \* answers that it gives
          MaxPush,           \* bound: notifications queued
          None

VARIABLES queue,    \* notifications_queue: what was built from what
          pushed,   \* how many notifications were queued so far
          resuming, \* threads that the kernel has still to try to resume
          thread,   \* thread[t]: where it is in next_notification
          delivered, \* delivered[k]: how often the k-th notification was delivered
          decoded,  \* what next_notification has just returned, and the truth about it
          emitted,  \* what the kernel has just parsed, and the truth about it
          panic

vars == <<queue, pushed, resuming, thread, delivered, decoded, emitted, panic>>
-----------------------------------------------------------------------------
(* Encodings. *)

ToLe(n, w) == [i \in 1 .. w |-> (n \div B ^ (i - 1)) % B]
FromLe(bytes) == FoldRight(LAMBDA b, n : b + B * n, bytes, 0)
\* bytes[from .. from + len] with offsets from 0, as slices are written in the code.
Slice(bytes, from, len) == SubSeq(bytes, from + 1, from + len)
From(bytes, from) == SubSeq(bytes, from + 1, Len(bytes))
Patch(bytes, from, new) ==
    [i \in DOMAIN bytes |-> IF i - from \in DOMAIN new THEN new[i - from] ELSE bytes[i]]

\* A message id of 0 stands for no id.
BuildInterface(n, index) ==
    <<0>> \o n.interface \o ToLe(IF n.message_id = None THEN 0 ELSE n.message_id, U64)
    \o ToLe(n.emitter_pid, U64) \o ToLe(index, U32) \o n.data
BuildResponse(n, index) ==
    <<1>> \o ToLe(n.message_id, U64) \o ToLe(index, U32)
    \o (IF n.ok THEN <<0>> \o n.data ELSE <<1>>)
BuildProcessDestroyed(n, index) == <<2>> \o ToLe(n.pid, U64) \o ToLe(index, U32)

Build(n, index) ==
    CASE n.kind = "interface" -> BuildInterface(n, index)
      [] n.kind = "response" -> BuildResponse(n, index)
      [] n.kind = "destroyed" -> BuildProcessDestroyed(n, index)

\* The notification is built with index 0, which is overwritten when it is delivered.
IndexOffsetSame(bytes) == 1 + U64
IndexOffset(bytes) == IF bytes[1] = 0 THEN 1 + Hash + U64 + U64 ELSE 1 + U64
SetIndexInList(bytes, index) == Patch(bytes, IndexOffset(bytes), ToLe(index, U32))

DecodeInterface(bytes) ==
    LET id == FromLe(Slice(bytes, 1 + Hash, U64))
    IN  IF Len(bytes) < 1 + Hash + U64 + U64 + U32 THEN None
        ELSE [kind |-> "interface", interface |-> Slice(bytes, 1, Hash),
              message_id |-> IF id = 0 THEN None ELSE id,
              emitter_pid |-> FromLe(Slice(bytes, 1 + Hash + U64, U64)),
              index |-> FromLe(Slice(bytes, 1 + Hash + U64 + U64, U32)),
              data |-> From(bytes, 1 + Hash + U64 + U64 + U32)]
DecodeResponse(bytes) ==
    IF Len(bytes) < 1 + U64 + U32 + 1
       \/ (bytes[1 + U64 + U32 + 1] # 0 /\ Len(bytes) # 1 + U64 + U32 + 1) THEN None
    ELSE [kind |-> "response", message_id |-> FromLe(Slice(bytes, 1, U64)),
          index |-> FromLe(Slice(bytes, 1 + U64, U32)),
          ok |-> bytes[1 + U64 + U32 + 1] = 0,
          data |-> From(bytes, 1 + U64 + U32 + 1)]
DecodeProcessDestroyed(bytes) ==
    IF Len(bytes) # 1 + U64 + U32 THEN None
    ELSE [kind |-> "destroyed", pid |-> FromLe(Slice(bytes, 1, U64)),
          index |-> FromLe(Slice(bytes, 1 + U64, U32))]

Decode(bytes) ==
    CASE bytes = <<>> -> None
      [] bytes[1] = 0 -> DecodeInterface(bytes)
      [] bytes[1] = 1 -> DecodeResponse(bytes)
      [] bytes[1] = 2 -> DecodeProcessDestroyed(bytes)
      [] OTHER -> None
-----------------------------------------------------------------------------
(* Reception. *)

Idle == [pc |-> "idle", list |-> <<>>, asked |-> <<>>, block |-> FALSE, capacity |-> 0,
         ret |-> 0, out |-> <<>>, from |-> None]

Init ==
    /\ queue = <<>> /\ pushed = 0
    /\ resuming = {}
    /\ thread = [t \in Thread |-> Idle]
    /\ delivered = [k \in 1 .. MaxPush |-> 0]
    /\ decoded = None /\ emitted = None
    /\ panic = None

\* The id that a thread must wait for; 1 stands for interface messages.
WaitedId(n) == IF n.kind = "response" THEN n.message_id ELSE 1

Matching(list) == {q \in DOMAIN queue : \E i \in DOMAIN list : list[i] = WaitedId(queue[q].n)}
IndexIn(list, n) == Min({i \in DOMAIN list : list[i] = WaitedId(n)}) - 1

\* try_resume_notification_wait_thread for thread t, in state st.
PopWithoutRemoving(q) == queue
Pop(q) == RemoveAt(queue, q)
TryResume(t, st) ==
    IF Matching(st.list) = {}
    THEN /\ thread' = [thread EXCEPT ![t] = IF st.block THEN st ELSE [st EXCEPT !.pc = "returned", !.ret = 0]]
         /\ UNCHANGED <<queue, delivered>>
    ELSE LET q == Min(Matching(st.list))
             bytes == queue[q].bytes
             index == IndexIn(st.list, queue[q].n)
         IN  IF Len(bytes) <= st.capacity
             THEN /\ queue' = Pop(q)
                  /\ delivered' = [delivered EXCEPT ![queue[q].seq] = @ + 1]
                  /\ thread' = [thread EXCEPT ![t] =
                       [st EXCEPT !.pc = "returned", !.ret = Len(bytes), !.from = queue[q].n,
                                  !.out = SetIndexInList(bytes, index), !.list[index + 1] = 0]]
             ELSE /\ thread' = [thread EXCEPT ![t] = [st EXCEPT !.pc = "returned", !.ret = Len(bytes)]]
                  /\ UNCHANGED <<queue, delivered>>

\* A notification is queued; the kernel then tries all the threads that wait.
Push(n) ==
    /\ resuming = {} /\ pushed < MaxPush
    /\ pushed' = pushed + 1
    /\ queue' = Append(queue, [n |-> n, bytes |-> Build(n, 0), seq |-> pushed'])
    /\ resuming' = {t \in Thread : thread[t].pc = "waiting"}
    /\ decoded' = None /\ emitted' = None
    /\ UNCHANGED <<thread, delivered, panic>>

ResumeNext(t) ==
    /\ t \in resuming
    /\ resuming' = resuming \ {t}
    /\ TryResume(t, thread[t])
    /\ decoded' = None /\ emitted' = None
    /\ UNCHANGED <<pushed, panic>>

\* The program calls next_notification of the library, with a fresh buffer.
NextNotification(t, list, block) ==
    /\ thread[t].pc = "idle"
    /\ thread' = [thread EXCEPT ![t] = [Idle EXCEPT !.pc = "calling", !.list = list, !.asked = list,
                                                    !.block = block, !.capacity = Capacity]]
    /\ decoded' = None /\ emitted' = None
    /\ UNCHANGED <<queue, pushed, resuming, delivered, panic>>

\* The system call itself, which parse_extrinsic_next_notification may refuse.
Syscall(t) ==
    /\ thread[t].pc = "calling" /\ resuming = {}
    /\ IF Len(thread[t].list) >= MaxIds
       THEN panic' = "TooManyNotificationIds" /\ UNCHANGED <<queue, delivered, thread>>
       ELSE TryResume(t, [thread[t] EXCEPT !.pc = "waiting"]) /\ UNCHANGED panic
    /\ decoded' = None /\ emitted' = None
    /\ UNCHANGED <<pushed, resuming>>

\* Vec::reserve on an empty vector.
Reserve(capacity, n) == Max({2 * capacity, n})

\* Back from the system call: nothing, try again with a larger buffer, or decode.
Returned(t) ==
    LET st == thread[t]
    IN  /\ st.pc = "returned"
        /\ IF st.ret > st.capacity
           THEN /\ thread' = [thread EXCEPT ![t].pc = "calling",
                                            ![t].capacity = Reserve(st.capacity, st.ret)]
                /\ decoded' = None
                /\ UNCHANGED panic
           ELSE /\ thread' = [thread EXCEPT ![t] = Idle]
                /\ decoded' = IF st.ret = 0 THEN None
                              ELSE [got |-> Decode(st.out), built |-> st.from,
                                    asked |-> st.asked, list |-> st.list]
                /\ panic' = IF st.ret # 0 /\ Decode(st.out) = None THEN "decode" ELSE None
        /\ emitted' = None
        /\ UNCHANGED <<queue, pushed, resuming, delivered>>
-----------------------------------------------------------------------------
(* Emission. *)

\* MessageBuilder: pairs of an address and a length, one for each slice; the slices lie
\* one after the other in memory, before the array of pairs.
AddDataRaw(array, address, len) == array \o ToLe(address, U32) \o ToLe(len, U32)
Laid(slices) ==
    FoldLeft(LAMBDA a, s : [memory |-> a.memory \o s,
                            array |-> AddDataRaw(a.array, Len(a.memory), Len(s))],
             [memory |-> <<>>, array |-> <<>>], slices)

\* parse_extrinsic_emit_message: one pair after the other.
PairOverlap == U32
PairSize == U32 + U32
ReadPair(memory, addr, n) ==
    [ptr |-> FromLe(Slice(memory, addr + PairSize * n, U32)),
     size |-> FromLe(Slice(memory, addr + PairSize * n + U32, U32))]
ParseMessage(memory, addr, num) ==
    FoldLeft(LAMBDA msg, n :
               LET pair == ReadPair(memory, addr, n)
               IN  IF msg = None \/ Len(msg) + pair.size >= MaxMessage THEN None
                   ELSE msg \o Slice(memory, pair.ptr, pair.size),
             <<>>, [n \in 1 .. num |-> n - 1])

\* The number of pairs is the length of the array of words divided by two.
NumBufs(array) == (Len(array) \div U32) \div 2
EmitMessage(t, slices) ==
    LET laid == Laid(slices)
        parsed == ParseMessage(laid.memory \o laid.array, Len(laid.memory), NumBufs(laid.array))
    IN  /\ thread[t].pc = "idle" /\ resuming = {}
        /\ emitted' = IF parsed = None THEN None
                       ELSE [parsed |-> [id |-> 0, data |-> parsed],
                             meant |-> [id |-> 0, data |-> FlattenSeq(slices)]]
        /\ panic' = IF parsed = None THEN "Max message length reached" ELSE None
        /\ decoded' = None
        /\ UNCHANGED <<queue, pushed, resuming, thread, delivered>>

\* emit_answer, and emit_message_error and cancel_message when there are no data: the id is
\* read from memory.
ParseAnswer(memory, id_addr, addr, size) ==
    [id |-> FromLe(Slice(memory, id_addr, U64)), data |-> Slice(memory, addr, size)]
EmitAnswer(t, a) ==
    /\ thread[t].pc = "idle" /\ resuming = {}
    /\ emitted' = [parsed |-> ParseAnswer(a.data \o ToLe(a.id, U64), Len(a.data), 0, Len(a.data)),
                   meant |-> a]
    /\ decoded' = None
    /\ UNCHANGED <<queue, pushed, resuming, thread, delivered, panic>>

Library(t) == Syscall(t) \/ Returned(t)

Next ==
    /\ panic = None
    /\ \/ \E n \in Notifications : Push(n)
       \/ \E t \in Thread :
            \/ ResumeNext(t) \/ Library(t)
            \/ \E list \in PollLists, block \in BOOLEAN : NextNotification(t, list, block)
            \/ \E slices \in Emissions : EmitMessage(t, slices)
            \/ \E a \in Answers : EmitAnswer(t, a)

Spec == Init /\ [][Next]_vars
-----------------------------------------------------------------------------
(* Properties *)

\* Both sides agree on every byte.  What a program decodes is what the kernel has built,
\* field by field, with the index of the entry that it was waiting with, and that entry
\* alone is then zero; a message reaches the kernel as the concatenation of the slices it
\* was built from, and an answer with the id that the program named.
BytesAsMeant ==
    /\ decoded # None =>
         /\ decoded.got # None
         /\ decoded.asked[decoded.got.index + 1] = WaitedId(decoded.built)
         /\ decoded.list = [decoded.asked EXCEPT ![decoded.got.index + 1] = 0]
         /\ \A f \in DOMAIN decoded.built : decoded.got[f] = decoded.built[f]
    /\ emitted # None => emitted.parsed = emitted.meant

\* A notification is delivered once: it is in the queue until a thread has got it, also
\* if a thread was told that its buffer is too small and another thread came first.
DeliveredOnce ==
    \A k \in 1 .. pushed : delivered[k] = IF \E q \in DOMAIN queue : queue[q].seq = k THEN 0 ELSE 1
=============================================================================
