------------------------------- MODULE Natives -------------------------------
(***************************************************************************)
(* The native programs of the bare-metal kernel (kernel/standalone/src:    *)
(* time.rs, hardware.rs, klog/native.rs, random/native.rs) and of the      *)
(* hosted one (kernel/hosted-time, hosted-random, hosted-log), each with   *)
(* the loop that gives it the messages of programs and polls a new         *)
(* `next_event` future every time (core/src/system.rs).                    *)
(*                                                                         *)
(* One handler runs, any of the seven.  A message is [id, pid, what, arg], *)
(* with id 0 when no answer is expected.  Physical memory is made of bytes *)
(* 0 and 1; the allocator of the kernel is external and takes any free     *)
(* place.                                                                  *)
(***************************************************************************)
EXTENDS Integers, FiniteSets, SequencesExt

CONSTANTS Handlers,   \* handlers that may run
          Pid,        \* programs
          Accesses,   \* sequences of operations of a HardwareAccess
          Mallocs,    \* records [size, alignment]
          MaxAddress, \* usize::max_value(), of physical memory
          HeapTop,    \* the last address of the kernel's heap
          MaxNow, MaxId, MaxMessages, \* bounds: the clock, messages with an answer, messages
          None

VARIABLES handler,
          pc,               \* of the loop: "core", "poll" or "sleep"
          again,            \* the core has done something: do not sleep
          unregistered,     \* interfaces that the handler has yet to register
          pending_messages, \* answers to be, or messages_rx of hosted-time
          timers,           \* of the two time handlers: a set of [id, at]
          now,              \* the monotonic clock
          alive,            \* programs that have not ended
          delivered,        \* number of messages that the handler was given
          asked,            \* asked[id]: the message of that id
          answers,          \* answers[id]: [ok, value, at], once answered
          repeated,         \* an id has been answered twice
          allocations,      \* allocations[pid]: buffers [start, size] of the hardware handler
          granted,          \* pointers answered to Malloc: [pid, ptr, size, alignment]
          memory,
          panic

loop == <<pc, again>>
hardware == <<allocations, granted, memory>>
vars == <<handler, pc, again, unregistered, pending_messages, timers, now, alive, delivered, asked,
          answers, repeated, allocations, granted, memory, panic>>

\* In the order of their registration, and the one that a message belongs to.
Interfaces(h) == IF h = "hosted_time" THEN <<"time", "system_time">> ELSE <<h>>
InterfaceOf(what) ==
    CASE handler # "hosted_time" -> handler
      [] what = "system" -> "system_time"
      [] OTHER -> "time"

Init ==
    /\ handler \in Handlers
    /\ pc = "poll" /\ again = FALSE
    /\ unregistered = Interfaces(handler)
    /\ pending_messages = <<>> /\ timers = {}
    /\ now = 0
    /\ alive = Pid
    /\ delivered = 0 /\ asked = <<>> /\ answers = <<>> /\ repeated = FALSE
    /\ allocations = [p \in Pid |-> <<>>] /\ granted = {}
    /\ memory = [a \in 0 .. MaxAddress |-> 0]
    /\ panic = FALSE

With(f, x, v) == [y \in DOMAIN f \cup {x} |-> IF y = x THEN v ELSE f[y]]
-----------------------------------------------------------------------------
(* interface_message *)

\* A message of program p reaches the handler; answered tells whether one is expected.
Deliver(p, answered, what, arg, id) ==
    /\ pc = "core" /\ InterfaceOf(what) \notin Range(unregistered) /\ p \in alive
    /\ delivered < MaxMessages /\ delivered' = delivered + 1
    /\ pc' = "poll" /\ again' = TRUE
    /\ IF answered
       THEN id = Cardinality(DOMAIN asked) + 1 /\ id <= MaxId
            /\ asked' = With(asked, id, [pid |-> p, what |-> what, arg |-> arg])
       ELSE id = 0 /\ UNCHANGED asked
    /\ UNCHANGED <<handler, unregistered, now, alive, answers, repeated>>

\* Mutant: an error is not answered.
PushOnlyOk(id, ok, value) ==
    pending_messages' = IF id = 0 \/ ~ok THEN pending_messages
                        ELSE Append(pending_messages, [id |-> id, ok |-> ok, value |-> value])
Push(id, ok, value) ==
    pending_messages' = IF id = 0 THEN pending_messages
                        ELSE Append(pending_messages, [id |-> id, ok |-> ok, value |-> value])

\* A message to a handler without timers: it understands `known` and answers it, or not.
Simple(h, p, what, answered, known, reply) ==
    \E id \in 0 .. MaxId :
      /\ handler = h /\ what \in known
      /\ Deliver(p, answered, what, None, id)
      /\ IF what \in reply THEN Push(id, what # "bad", None) ELSE UNCHANGED pending_messages
      /\ panic' = (what = "method")
      /\ UNCHANGED <<timers, hardware>>

RandomMessage(p, what, answered) ==
    Simple("random", p, what, answered, {"generate", "bad"}, {"generate", "bad"})
HostedRandomMessage(p, what, answered) ==
    Simple("hosted_random", p, what, answered, {"generate", "bad"}, {"generate", "bad"})
\* A line to log has no answer, and the method of the kernel log is not implemented.
KlogMessage(p, what, answered) ==
    Simple("klog", p, what, answered, {"log", "method", "bad"}, {"bad"})
HostedLogMessage(p, what, answered) ==
    Simple("hosted_log", p, what, answered, {"log", "bad"}, {})

\* The time program of the bare-metal kernel answers or starts a timer, and unwraps the
\* id of every message.
TimeMessage(p, what, until, answered) ==
    \E id \in 0 .. MaxId :
      /\ handler = "time" /\ what # "system"
      /\ Deliver(p, answered, what, until, id)
      /\ panic' = (id = 0)
      /\ IF what = "wait" /\ id # 0
         THEN timers' = timers \cup {[id |-> id, at |-> until]} /\ UNCHANGED pending_messages
         ELSE Push(id, what = "get", [time |-> now]) /\ UNCHANGED timers
      /\ UNCHANGED hardware

\* The hosted one puts what it understands on its channel.
HostedTimeMessage(p, what, until, answered) ==
    \E id \in 0 .. MaxId :
      /\ handler = "hosted_time"
      /\ Deliver(p, answered, what, until, id)
      /\ panic' = (id = 0 /\ what # "bad")
      /\ IF what = "bad" THEN UNCHANGED pending_messages ELSE Push(id, TRUE, None)
      /\ UNCHANGED <<timers, hardware>>
-----------------------------------------------------------------------------
(* interface_message of the hardware program *)

NextAddress(a, width) == a + width

\* perform_operation of op = [write, width, address, data or len]: bytes are written and
\* read one word after the other; past the last address, nothing is written and zero is
\* read.
WordAt(op, k) == FoldLeft(LAMBDA a, w : NextAddress(a, w), op.address, [i \in 1 .. k - 1 |-> op.width])
Written(mem, op) ==
    [a \in DOMAIN mem |->
       LET ks == {k \in 1 .. op.len : a \in WordAt(op, k) .. WordAt(op, k) + op.width - 1}
       IN  IF ks = {} THEN mem[a] ELSE op.data[Max(ks)][a - WordAt(op, Max(ks)) + 1]]
ReadBack(mem, op) ==
    [k \in 1 .. op.len |->
       [i \in 1 .. op.width |-> IF WordAt(op, k) + i - 1 \in DOMAIN mem
                                THEN mem[WordAt(op, k) + i - 1] ELSE 0]]
Perform(acc, op) ==
    IF op.write THEN [acc EXCEPT !.mem = Written(acc.mem, op)]
    ELSE [acc EXCEPT !.out = Append(acc.out, ReadBack(acc.mem, op))]

\* HardwareAccess: all the operations, in order; an answer if there was a read.
AccessMessage(p, operations, answered) ==
    \E id \in 0 .. MaxId :
      /\ handler = "hardware"
      /\ Deliver(p, answered, "access", operations, id)
      /\ LET done == FoldLeft(Perform, [mem |-> memory, out |-> <<>>], operations)
         IN  /\ memory' = done.mem
             /\ IF done.out = <<>> THEN UNCHANGED pending_messages ELSE Push(id, TRUE, [reads |-> done.out])
      /\ panic' = FALSE
      /\ UNCHANGED <<timers, allocations, granted>>

Bytes(b) == b.start .. b.start + b.size - 1
Occupied == UNION {UNION {Bytes(b) : b \in Range(allocations[p])} : p \in Pid}

WithSlack(m) == m.size + m.alignment - 1
AlignUp(ptr, n) == ptr + ((n - (ptr % n)) % n)

\* Malloc: the pointer is the first aligned one of a buffer that the allocator returns.
MallocMessage(p, m, answered) ==
    \E id \in 0 .. MaxId, start \in 1 .. HeapTop :
      /\ handler = "hardware"
      /\ Deliver(p, answered, "malloc", m, id)
      /\ start + WithSlack(m) - 1 <= HeapTop
      /\ Occupied \cap (start .. start + WithSlack(m) - 1) = {}
      /\ allocations' = [allocations EXCEPT ![p] = Append(@, [start |-> start, size |-> WithSlack(m)])]
      /\ Push(id, TRUE, [ptr |-> AlignUp(start, m.alignment)])
      /\ granted' = IF id = 0 THEN granted
                    ELSE granted \cup {[pid |-> p, ptr |-> AlignUp(start, m.alignment),
                                         size |-> m.size, alignment |-> m.alignment]}
      /\ panic' = FALSE
      /\ UNCHANGED <<timers, memory>>

\* Free of a pointer that p was given.  The buffers are vectors of length zero, whatever
\* their capacity: `ptr >= start + e.len()` or `ptr < start` keeps every one of them.
Length(buffer) == 0
FreeMessage(p, ptr) ==
    /\ handler = "hardware"
    /\ Deliver(p, FALSE, "free", ptr, 0)
    /\ allocations' = [allocations EXCEPT ![p] =
                         SelectSeq(@, LAMBDA e : ptr < e.start \/ ptr >= e.start + Length(e))]
    /\ granted' = {g \in granted : g.pid # p \/ g.ptr # ptr}
    /\ panic' = FALSE
    /\ UNCHANGED <<pending_messages, timers, memory>>

\* What does not decode, and InterruptWait, which is not implemented.
OtherHardwareMessage(p, what, answered) ==
    \E id \in 0 .. MaxId :
      /\ handler = "hardware" /\ what \in {"bad", "interrupt"}
      /\ Deliver(p, answered, what, None, id)
      /\ IF what = "bad" THEN Push(id, FALSE, None) ELSE UNCHANGED pending_messages
      /\ panic' = (what = "interrupt")
      /\ UNCHANGED <<timers, hardware>>

\* Mutant: the allocations of the program are kept, and those of the others go.
ReleaseOthers(p) == [q \in Pid |-> IF q = p THEN allocations[q] ELSE <<>>]
Release(p) == [allocations EXCEPT ![p] = <<>>]

\* process_destroyed.
ProcessDestroyed(p) ==
    /\ pc = "core" /\ p \in alive
    /\ alive' = alive \ {p}
    /\ allocations' = IF handler = "hardware" THEN Release(p) ELSE allocations
    /\ granted' = {g \in granted : g.pid # p}
    /\ UNCHANGED <<handler, loop, unregistered, pending_messages, timers, now, delivered, asked, answers,
                   repeated, memory, panic>>
-----------------------------------------------------------------------------
(* next_event, and the loop *)

Answer(id, ok, value) ==
    /\ answers' = With(answers, id, [ok |-> ok, value |-> value, at |-> now])
    /\ repeated' = (repeated \/ id \in DOMAIN answers)
    /\ pc' = "core" /\ UNCHANGED again

Due == {t \in timers : t.at <= now}

\* Nothing is ready: the loop goes on, or sleeps.
Pending ==
    /\ pc' = IF again THEN "core" ELSE "sleep"
    /\ UNCHANGED <<again, answers, repeated>>

AnswerTimer ==
    /\ \E t \in Due : Answer(t.id, TRUE, None) /\ timers' = timers \ {t}
    /\ UNCHANGED pending_messages

\* Mutant: the answer is read and left in the queue.
PeekMessage == pending_messages
PopMessage == Tail(pending_messages)

\* One message of the channel of hosted-time.  A time too far ahead for 64 bits starts
\* no timer.
HostedTimeReceive ==
    LET id == Head(pending_messages).id
        m == asked[id]
    IN  /\ pending_messages' = PopMessage
        /\ IF m.what = "wait" /\ m.arg >= now
           THEN /\ timers' = IF m.arg > MaxNow THEN timers ELSE timers \cup {[id |-> id, at |-> m.arg]}
                /\ UNCHANGED <<loop, answers, repeated>>
           ELSE Answer(id, TRUE, [time |-> now]) /\ UNCHANGED timers

HostedTimeEvent ==
    IF Due # {} THEN AnswerTimer
    ELSE IF pending_messages # <<>> THEN HostedTimeReceive
    ELSE Pending /\ UNCHANGED <<pending_messages, timers>>

\* The answers of the queue, which all the other handlers give first.
QueuedEvent ==
    /\ Answer(Head(pending_messages).id, Head(pending_messages).ok, Head(pending_messages).value)
    /\ pending_messages' = PopMessage
    /\ UNCHANGED timers

TimeEvent ==
    IF pending_messages # <<>> THEN QueuedEvent
    ELSE IF Due # {} THEN AnswerTimer
    ELSE Pending /\ UNCHANGED <<pending_messages, timers>>

SimpleEvent ==
    IF pending_messages # <<>> THEN QueuedEvent
    ELSE Pending /\ UNCHANGED <<pending_messages, timers>>

\* The registration comes first.
Poll ==
    /\ pc = "poll"
    /\ IF unregistered # <<>>
       THEN /\ unregistered' = Tail(unregistered)
            /\ pc' = "core"
            /\ UNCHANGED <<again, pending_messages, timers, answers, repeated>>
       ELSE /\ CASE handler = "hosted_time" -> HostedTimeEvent
                 [] handler = "time" -> TimeEvent
                 [] OTHER -> SimpleEvent
            /\ UNCHANGED unregistered
    /\ UNCHANGED <<handler, now, alive, delivered, asked, hardware, panic>>

CoreIdle ==
    /\ pc = "core"
    /\ pc' = "poll" /\ again' = FALSE
    /\ UNCHANGED <<handler, unregistered, pending_messages, timers, now, alive, delivered, asked, answers,
                   repeated, hardware, panic>>

\* The waker that the last poll left with the timers, or the event of another program.
Wake ==
    /\ pc = "sleep"
    /\ pc' = "core"
    /\ UNCHANGED <<handler, again, unregistered, pending_messages, timers, now, alive, delivered, asked,
                   answers, repeated, hardware, panic>>

\* Only the time handlers look at the clock.
Tick ==
    /\ now < MaxNow /\ handler \in {"time", "hosted_time"}
    /\ now' = now + 1
    /\ UNCHANGED <<handler, loop, unregistered, pending_messages, timers, alive, delivered, asked, answers,
                   repeated, hardware, panic>>

InterfaceMessage ==
    \E p \in Pid, answered \in BOOLEAN :
      \/ \E what \in {"generate", "log", "method", "bad"} :
            \/ RandomMessage(p, what, answered) \/ HostedRandomMessage(p, what, answered)
            \/ KlogMessage(p, what, answered) \/ HostedLogMessage(p, what, answered)
      \/ \E until \in 0 .. MaxNow + 1, what \in {"get", "wait", "system", "bad"} :
            /\ what = "wait" \/ until = 0
            /\ TimeMessage(p, what, until, answered) \/ HostedTimeMessage(p, what, until, answered)
      \/ \E operations \in Accesses : AccessMessage(p, operations, answered)
      \/ \E m \in Mallocs : MallocMessage(p, m, answered)
      \/ ~answered /\ \E g \in granted : g.pid = p /\ FreeMessage(p, g.ptr)
      \/ \E what \in {"bad", "interrupt"} : OtherHardwareMessage(p, what, answered)

Next ==
    /\ ~panic
    /\ \/ InterfaceMessage \/ Poll \/ CoreIdle \/ Wake \/ Tick
       \/ \E p \in Pid : ProcessDestroyed(p)

Spec == Init /\ [][Next]_vars
-----------------------------------------------------------------------------
(* Properties *)

\* No message is answered twice, by the queue, the channel or a timer; what could not be
\* decoded is never answered as if it had been; and the answer to WaitMonotonic does not
\* come before the clock has reached the value, however timers and messages interleave.
AnsweredSoundly ==
    /\ ~repeated
    /\ \A id \in DOMAIN answers :
         /\ answers[id].ok <=> asked[id].what # "bad"
         /\ asked[id].what = "wait" /\ answers[id].ok => answers[id].at >= asked[id].arg

\* What handlers never answer, although an answer was asked for: lines to log, accesses
\* without a read, times out of reach, and a message that the hosted handlers of log and
\* time cannot decode.
Unanswered(m) ==
    \/ m.what \in {"log", "method", "interrupt"}
    \/ m.what = "access" /\ \A i \in DOMAIN m.arg : m.arg[i].write
    \/ m.what = "wait" /\ m.arg > MaxNow
    \/ m.what = "bad" /\ handler \in {"hosted_log", "hosted_time"}

\* The loop never goes to sleep over an answer that has been pushed, although nothing
\* would wake it up ("wrong; if a message gets pushed, we don't wake up the task"): while
\* it sleeps, every other question is answered or kept by a timer, which will wake it.
NothingForgotten ==
    pc = "sleep" /\ ~panic =>
        \A id \in DOMAIN asked \ DOMAIN answers :
            Unanswered(asked[id]) \/ \E t \in timers : t.id = id

\* A program that has been given physical memory and lives holds it: aligned, inside one
\* of its own buffers, and apart from all that was given otherwise.
GrantedIsHeld ==
    /\ \A g \in granted :
         /\ g.ptr % g.alignment = 0
         /\ \E i \in DOMAIN allocations[g.pid] :
              LET b == allocations[g.pid][i]
              IN  b.start <= g.ptr /\ g.ptr + g.size <= b.start + b.size
    /\ \A g, h \in granted :
         g = h \/ (g.ptr .. g.ptr + g.size - 1) \cap (h.ptr .. h.ptr + h.size - 1) = {}
=============================================================================
