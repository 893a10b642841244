------------------------------- MODULE Core -------------------------------
(***************************************************************************)
(* The scheduler and inter-process communication core of the kernel        *)
(* (core/src/scheduler/ipc.rs), together with the thread states of the     *)
(* extrinsics layer (extrinsics.rs) and the choice of the next thread to   *)
(* run (processes.rs), which it drives.                                    *)
(*                                                                         *)
(* The core is single-threaded.  Its owner (the embedder: System) either   *)
(* calls one of the API functions or calls run(), which loops over         *)
(* run_inner() until an outcome must be reported.  One action below is one *)
(* run_inner() iteration or one API call.  The three loops inside handlers *)
(* that visit threads or interfaces one at a time are steps of their own,  *)
(* forced by the control variables "resuming" and "doing": while either is *)
(* busy nothing else can happen.                                           *)
(*                                                                         *)
(* Process.registered_interfaces, .emitted_messages and .messages_to_answer*)
(* are created empty and nothing in the source ever adds to them, so the   *)
(* loops over them (ipc.rs 222-239) and the lists reported with a finished *)
(* program are empty; they are not state of this module.                   *)
(***************************************************************************)
EXTENDS Naturals, Sequences

CONSTANTS
  Pid,          \* pids that the pool hands out to processes
  ReservedPid,  \* pids taken by CoreBuilder::reserve_pid
  NoPid,        \* absence of a pid
  Interface,    \* interface hashes
  Action,       \* what the extrinsics other than redshirt's may ask for
  MaxThreads,   \* bound: threads of one process (1 is the main thread)
  MaxId,        \* bound: largest message id drawn from the pool
  MaxSize,      \* bound: sizes of notifications and of receive buffers
  MaxQueue      \* bound: room required in every queue before a new message

ASSUME PidAssumption ==
  /\ Pid \cap ReservedPid = {}
  /\ NoPid \notin Pid \cup ReservedPid

(* The variants of ExtrinsicsAction. *)
ASSUME ActionAssumption ==
  Action \subseteq      [do : {"Resume", "ProgramCrash"}]
                   \cup [do : {"EmitMessage"}, iface : Interface, ans : BOOLEAN]

ASSUME BoundAssumption ==
  /\ MaxThreads \in Nat \ {0}
  /\ MaxId \in Nat \ {0}
  /\ MaxSize \in Nat \ {0}
  /\ MaxQueue \in Nat

VARIABLES
  alive,               \* processes: the pids with a running process
  dead,                \* pids whose process has been removed
  thread,              \* thread[p][n]: LocalThreadState of the n-th thread of p
  notifications_queue, \* notifications_queue[p]
  used_interfaces,     \* used_interfaces[p]
  interfaces,          \* interfaces[i]: an InterfaceState
  messages_to_answer,  \* messages_to_answer[id]: the emitter, or NoPid
  message_id_pool,     \* next id that the pool draws
  pending_events,      \* queue of outcomes to return first
  local_run_queue,     \* threads whose extrinsic action must be applied
  event,               \* the outcome run() returned; "None" inside run()
  resuming,            \* threads still to visit by try_resume_notification_wait
  doing,               \* handler in progress, when it loops
  panic,               \* the assertion or missing case that stopped the kernel
  emitter              \* history: who drew each message id

vars == <<alive, dead, thread, notifications_queue, used_interfaces, interfaces,
          messages_to_answer, message_id_pool, pending_events, local_run_queue,
          event, resuming, doing, panic, emitter>>

-----------------------------------------------------------------------------
(* Data.                                                                   *)

Emitter == Pid \cup ReservedPid
ThreadIndex == 1..MaxThreads
Tid == Pid \X ThreadIndex
MessageId == 0..MaxId
NoMessage == 0       \* Option<MessageId>::None; the pool's 0 is never used
InterfaceMsg == 1    \* the id by which a thread waits for interface messages
Size == 1..MaxSize

NoThread == [st |-> "None"]
ReadyToRun == [st |-> "ReadyToRun"]
ApplyAction(a) == [st |-> "OtherExtrinsicApplyAction", action |-> a]
OtherWait(id) ==
  [st |-> "OtherExtrinsicWait", ids |-> {id}, size |-> MaxSize, block |-> TRUE]

WaitStates == {"NotificationWait", "OtherExtrinsicWait"}
EmitStates == {"EmitMessage", "OtherExtrinsicEmit"}

ThreadState ==
       {NoThread, ReadyToRun}
  \cup [st : WaitStates, ids : SUBSET MessageId, size : Size, block : BOOLEAN]
  \cup [st : EmitStates, iface : Interface, ans : BOOLEAN, delay : BOOLEAN]
  \cup [st : {"OtherExtrinsicApplyAction"}, action : Action]

InterfaceMessage(i, id, from, size) ==
  [kind |-> "Interface", iface |-> i, id |-> id, from |-> from, size |-> size]
ProcessDestroyed(p) == [kind |-> "ProcessDestroyed", from |-> p, size |-> 1]
Response(id, ok, size) ==
  [kind |-> "Response", id |-> id, ok |-> ok, size |-> size]

Notification ==
       [kind : {"Interface"}, iface : Interface, id : MessageId,
        from : Emitter, size : Size]
  \cup [kind : {"ProcessDestroyed"}, from : Pid, size : Size]
  \cup [kind : {"Response"}, id : MessageId, ok : BOOLEAN, size : Size]

(* The id that must be in a thread's list for the notification to match. *)
WaitedId(notif) == IF notif.kind = "Response" THEN notif.id ELSE InterfaceMsg

Vacant == [st |-> "Vacant"]
HandledBy(p) == [st |-> "Process", pid |-> p]
Requested(ts, others) == [st |-> "Requested", threads |-> ts, other |-> others]

Buffered == [from : ReservedPid, id : MessageId, size : Size]

InterfaceState ==
       {Vacant}
  \cup [st : {"Process"}, pid : Emitter]
  \cup [st : {"Requested"}, threads : Seq(Tid), other : Seq(Buffered)]

ReservedPidMessage(p, id, i) ==
  [ev |-> "ReservedPidInterfaceMessage", pid |-> p, id |-> id, iface |-> i]

NoEvent == [ev |-> "None"]
PendingEvent ==
  [ev : {"ReservedPidInterfaceMessage"}, pid : Emitter, id : MessageId,
   iface : Interface]
Event ==
       {NoEvent, [ev |-> "Idle"]}
  \cup PendingEvent
  \cup [ev : {"ProgramFinished"}, pid : Pid]
  \cup [ev : {"ThreadWaitUnavailableInterface"}, tid : Tid, iface : Interface]
  \cup [ev : {"MessageResponse"}, id : MessageId]

(* Why the kernel may stop: one value per reachable panic of the source. *)
Panic == {"none", "error response unwrapped", "crash unimplemented",
          "queued thread has no action", "collection already borrowed",
          "used interface is vacant", "buffered message for reserved pid",
          "sleeping thread is gone"}

Nothing == [op |-> "none"]
Handler ==
       {Nothing}
  \cup [op : {"finish"}, pid : Pid, todo : SUBSET Interface]
  \cup [op : {"register"}, iface : Interface, pid : Emitter, threads : Seq(Tid)]

-----------------------------------------------------------------------------
(* Waking threads: try_resume_notification_wait(_thread).                  *)

WaitingThreads(thr, p) ==
  {<<p, n>> : n \in {k \in ThreadIndex : thr[p][k].st \in WaitStates}}

(* Index of the first notification of the queue that the list accepts. *)
FirstMatch(queue, ids, k) ==
  /\ k \in 1..Len(queue)
  /\ WaitedId(queue[k]) \in ids
  /\ \A j \in 1..(k - 1) : WaitedId(queue[j]) \notin ids

(* VecDeque::remove. *)
RemoveAt(queue, k) ==
  [j \in 1..(Len(queue) - 1) |-> IF j < k THEN queue[j] ELSE queue[j + 1]]

(* resume_notification: a thread in next_notification becomes ready; one    *)
(* inside another extrinsic has the response injected, which yields an      *)
(* action to apply later.  An error response is unwrapped.                  *)
ResumeNotification(p, n, w, notif) ==
  \/ /\ w.st = "NotificationWait"
     /\ thread' = [thread EXCEPT ![p][n] = ReadyToRun]
     /\ UNCHANGED <<local_run_queue, panic>>
  \/ /\ w.st = "OtherExtrinsicWait"
     /\ IF notif.ok
        THEN \E a \in Action :
               /\ thread' = [thread EXCEPT ![p][n] = ApplyAction(a)]
               /\ local_run_queue' = Append(local_run_queue, <<p, n>>)
               /\ UNCHANGED panic
        ELSE /\ panic' = "error response unwrapped"
             /\ UNCHANGED <<thread, local_run_queue>>

(* Mutant: the thread goes on waiting. *)
KeepWaiting(p, n, w) == thread' = [thread EXCEPT ![p][n] = w]
(* resume_notification_too_big: the thread is told, the queue keeps it. *)
ResumeTooBig(p, n, w) == thread' = [thread EXCEPT ![p][n] = ReadyToRun]

(* The thread n of p, in the wait state w, looks at the queue once. *)
TryResumeThread(p, n, w) ==
  LET queue == notifications_queue[p] IN
  \/ /\ \A k \in 1..Len(queue) : WaitedId(queue[k]) \notin w.ids
     /\ thread' = [thread EXCEPT ![p][n] = IF w.block THEN w ELSE ReadyToRun]
     /\ UNCHANGED <<notifications_queue, local_run_queue, panic>>
  \/ \E k \in 1..Len(queue) :
       /\ FirstMatch(queue, w.ids, k)
       /\ IF queue[k].size <= w.size
          THEN /\ notifications_queue' =
                    [notifications_queue EXCEPT ![p] = RemoveAt(@, k)]
               /\ ResumeNotification(p, n, w, queue[k])
          ELSE /\ ResumeTooBig(p, n, w)
               /\ UNCHANGED <<notifications_queue, local_run_queue, panic>>

(* Mutant: the notification jumps the queue. *)
PushFront(p, notif) ==
  /\ notifications_queue' = [notifications_queue EXCEPT ![p] = <<notif>> \o @]
  /\ resuming' = WaitingThreads(thread', p)

(* Push a notification to p and start visiting its waiting threads. *)
Push(p, notif) ==
  /\ notifications_queue' = [notifications_queue EXCEPT ![p] = Append(@, notif)]
  /\ resuming' = WaitingThreads(thread', p)

(* The next thread of the list collected by interrupted_threads(). *)
ResumeNext ==
  /\ panic = "none"
  /\ \E t \in resuming :
       /\ \A u \in resuming : t[2] <= u[2]
       /\ TryResumeThread(t[1], t[2], thread[t[1]][t[2]])
       /\ resuming' = resuming \ {t}
  /\ UNCHANGED <<alive, dead, used_interfaces, interfaces, messages_to_answer,
                 message_id_pool, pending_events, event, doing, emitter>>

-----------------------------------------------------------------------------
(* Message ids.                                                            *)

(* Mutants: the reserved ids are not skipped; the pool draws an id again. *)
DrawableWithReserved == {k \in message_id_pool..MaxId : messages_to_answer[k] = NoPid}
DrawIdAgain(by, id) ==
  /\ id \in 2..MaxId
  /\ messages_to_answer[id] = NoPid
  /\ UNCHANGED message_id_pool
  /\ emitter' = [emitter EXCEPT ![id] = by]

(* IdPool::assign: distinct draws; which ones is immaterial, so 0, 1, 2... *)
Drawable == {k \in message_id_pool..MaxId :
               k \notin {0, 1} /\ messages_to_answer[k] = NoPid}

(* The loop that draws until the id is neither 0, nor 1, nor in use. *)
DrawId(by, id) ==
  /\ id \in Drawable
  /\ \A k \in Drawable : id <= k
  /\ message_id_pool' = id + 1
  /\ emitter' = [emitter EXCEPT ![id] = by]

(* A message of "by" gets an id, recorded as to be answered, or none. *)
AssignId(ans, by, id) ==
  IF ans
  THEN /\ DrawId(by, id)
       /\ messages_to_answer' = [messages_to_answer EXCEPT ![id] = by]
  ELSE /\ id = NoMessage
       /\ UNCHANGED <<message_id_pool, emitter, messages_to_answer>>

-----------------------------------------------------------------------------
(* run(): what the core does by itself.                                    *)

Quiet == panic = "none" /\ resuming = {} /\ doing = Nothing

(* Bound: the environment sends a new message only when queues have room. *)
Room ==
  /\ \A p \in Pid : Len(notifications_queue[p]) < MaxQueue
  /\ Len(pending_events) < MaxQueue
  /\ \A i \in Interface :
       interfaces[i].st = "Requested" => Len(interfaces[i].other) < MaxQueue

(* run_inner() first returns the pending events. *)
PopEvent ==
  /\ Quiet
  /\ pending_events # <<>>
  /\ event' = Head(pending_events)
  /\ pending_events' = Tail(pending_events)
  /\ UNCHANGED <<alive, dead, thread, notifications_queue, used_interfaces,
                 interfaces, messages_to_answer, message_id_pool,
                 local_run_queue, resuming, doing, panic, emitter>>

(* Thread n is the one that p runs next: its first ready one. *)
Scheduled(p, n) ==
  /\ Quiet
  /\ pending_events = <<>>
  /\ local_run_queue = <<>>
  /\ p \in alive
  /\ thread[p][n] = ReadyToRun
  /\ \A k \in 1..(n - 1) : thread[p][k] # ReadyToRun

RunIdle ==
  /\ Quiet
  /\ pending_events = <<>>
  /\ local_run_queue = <<>>
  /\ \A p \in alive, n \in ThreadIndex : thread[p][n] # ReadyToRun
  /\ event' = [ev |-> "Idle"]
  /\ UNCHANGED <<alive, dead, thread, notifications_queue, used_interfaces,
                 interfaces, messages_to_answer, message_id_pool,
                 pending_events, local_run_queue, resuming, doing, panic,
                 emitter>>

(* next_notification: the thread enters the wait and looks at the queue. *)
ThreadWaitNotification(p, n, ids, size, block) ==
  /\ Scheduled(p, n)
  /\ TryResumeThread(p, n, [st |-> "NotificationWait", ids |-> ids,
                            size |-> size, block |-> block])
  /\ event' = NoEvent
  /\ UNCHANGED <<alive, dead, used_interfaces, interfaces, messages_to_answer,
                 message_id_pool, pending_events, resuming, doing, emitter>>

(* Mutant: a thread that must wait for a response is queued to run as well. *)
AcceptEmitQueued(p, n, e, id, q) ==
  /\ thread' = [thread EXCEPT ![p][n] =
                  IF e.st = "EmitMessage" THEN ReadyToRun ELSE OtherWait(id)]
  /\ local_run_queue' = Append(q, <<p, n>>)

(* accept_emit, with q the rest of the local run queue. *)
AcceptEmit(p, n, e, id, q) ==
  \/ /\ e.st = "EmitMessage"
     /\ thread' = [thread EXCEPT ![p][n] = ReadyToRun]
     /\ local_run_queue' = q
  \/ /\ e.st = "OtherExtrinsicEmit"
     /\ e.ans
     /\ thread' = [thread EXCEPT ![p][n] = OtherWait(id)]
     /\ local_run_queue' = q
  \/ /\ e.st = "OtherExtrinsicEmit"
     /\ ~ e.ans
     /\ \E a \in Action : thread' = [thread EXCEPT ![p][n] = ApplyAction(a)]
     /\ local_run_queue' = Append(q, <<p, n>>)

(* The interface has a handler: a process, a reserved pid, or a process     *)
(* that is dead, in which case the message goes nowhere.                    *)
EmitToHandler(p, n, e, q) ==
  /\ interfaces[e.iface].st = "Process"
  /\ LET h == interfaces[e.iface].pid IN
     \E id \in MessageId, size \in Size :
       /\ AssignId(e.ans, p, id)
       /\ AcceptEmit(p, n, e, id, q)
       /\ \/ /\ h \in alive
             /\ Push(h, InterfaceMessage(e.iface, id, p, size))
             /\ event' = NoEvent
          \/ /\ h \notin alive
             /\ event' = IF h \in ReservedPid
                         THEN ReservedPidMessage(p, id, e.iface)
                         ELSE NoEvent
             /\ UNCHANGED <<notifications_queue, resuming>>
  /\ UNCHANGED interfaces

(* No handler and no patience: the thread is told so.  An extrinsic always  *)
(* allows the delay.                                                        *)
RefuseEmit(p, n, e, q) ==
  /\ interfaces[e.iface].st # "Process"
  /\ ~ e.delay
  /\ thread' = [thread EXCEPT ![p][n] = ReadyToRun]
  /\ local_run_queue' = q
  /\ event' = NoEvent
  /\ UNCHANGED <<interfaces, notifications_queue, resuming, messages_to_answer,
                 message_id_pool, emitter>>

(* Mutant: the list is replaced. *)
OnlySleeper(s, t) == Requested(<<t>>, <<>>)

(* The thread joins the list of its interface. *)
AddSleeper(s, t) ==
  IF s = Vacant THEN Requested(<<t>>, <<>>)
                ELSE Requested(Append(s.threads, t), s.other)

(* No handler yet: the thread is put to sleep in the interface's list. *)
DelayEmit(p, n, e, q) ==
  /\ interfaces[e.iface].st # "Process"
  /\ e.delay
  /\ thread' = [thread EXCEPT ![p][n] = e]
  /\ local_run_queue' = q
  /\ interfaces' = [interfaces EXCEPT ![e.iface] = AddSleeper(@, <<p, n>>)]
  /\ event' = [ev |-> "ThreadWaitUnavailableInterface", tid |-> <<p, n>>,
               iface |-> e.iface]
  /\ UNCHANGED <<notifications_queue, resuming, messages_to_answer,
                 message_id_pool, emitter>>

(* The arm of run_inner for a thread that emits e. *)
HandleEmit(p, n, e, q) ==
  /\ Room
  /\ used_interfaces' = [used_interfaces EXCEPT ![p] = @ \cup {e.iface}]
  /\ \/ EmitToHandler(p, n, e, q)
     \/ RefuseEmit(p, n, e, q)
     \/ DelayEmit(p, n, e, q)
  /\ UNCHANGED <<alive, dead, pending_events, doing, panic>>

(* emit_message *)
ThreadEmitMessage(p, n, i, ans, delay) ==
  /\ Scheduled(p, n)
  /\ HandleEmit(p, n, [st |-> "EmitMessage", iface |-> i, ans |-> ans,
                       delay |-> delay], local_run_queue)

(* Apply the action of an extrinsic call; q is the rest of the run queue. *)
ApplyExtrinsicAction(p, n, a, q) ==
  \/ /\ a.do = "ProgramCrash"
     /\ panic' = "crash unimplemented"
     /\ UNCHANGED <<alive, dead, thread, notifications_queue, used_interfaces,
                    interfaces, messages_to_answer, message_id_pool,
                    pending_events, local_run_queue, event, resuming, doing,
                    emitter>>
  \/ /\ a.do = "Resume"
     /\ thread' = [thread EXCEPT ![p][n] = ReadyToRun]
     /\ local_run_queue' = q
     /\ event' = NoEvent
     /\ UNCHANGED <<alive, dead, notifications_queue, used_interfaces,
                    interfaces, messages_to_answer, message_id_pool,
                    pending_events, resuming, doing, panic, emitter>>
  \/ /\ a.do = "EmitMessage"
     /\ HandleEmit(p, n, [st |-> "OtherExtrinsicEmit", iface |-> a.iface,
                          ans |-> a.ans, delay |-> TRUE], q)

(* A call to another extrinsic: the local run queue is empty here, so what  *)
(* new_context asks for is applied at once.                                 *)
ThreadOtherExtrinsic(p, n, a) ==
  /\ Scheduled(p, n)
  /\ ApplyExtrinsicAction(p, n, a, local_run_queue)

(* run_once() empties the local run queue before it runs a thread.  The     *)
(* thread may have died since it was queued.                                *)
PopLocalRunQueue ==
  /\ Quiet
  /\ pending_events = <<>>
  /\ local_run_queue # <<>>
  /\ LET p == Head(local_run_queue)[1]
         n == Head(local_run_queue)[2]
         q == Tail(local_run_queue)
     IN \/ /\ thread[p][n] = NoThread
           /\ local_run_queue' = q
           /\ event' = NoEvent
           /\ UNCHANGED <<alive, dead, thread, notifications_queue,
                          used_interfaces, interfaces, messages_to_answer,
                          message_id_pool, pending_events, resuming, doing,
                          panic, emitter>>
        \/ /\ thread[p][n].st = "OtherExtrinsicApplyAction"
           /\ ApplyExtrinsicAction(p, n, thread[p][n].action, q)
        \/ /\ thread[p][n].st \notin {"None", "OtherExtrinsicApplyAction"}
           /\ panic' = "queued thread has no action"
           /\ UNCHANGED <<alive, dead, thread, notifications_queue,
                          used_interfaces, interfaces, messages_to_answer,
                          message_id_pool, pending_events, local_run_queue,
                          event, resuming, doing, emitter>>

(* Mutant: the entry stays. *)
KeepEntry(id) == messages_to_answer
(* messages_to_answer without the message. *)
RemoveEntry(id) == [messages_to_answer EXCEPT ![id] = NoPid]

(* answer_message_inner: the entry is removed and the emitter, if it is a   *)
(* live process, gets the response.  Otherwise the outcome is handed to the *)
(* caller, as is an unknown id.                                             *)
AnswerMessageInner(id, ok) ==
  LET by == messages_to_answer[id] IN
  /\ messages_to_answer' = RemoveEntry(id)
  /\ \/ /\ by \in alive
        /\ \E size \in Size : Push(by, Response(id, ok, size))
     \/ /\ by \notin alive
        /\ UNCHANGED <<notifications_queue, resuming>>

(* emit_answer and emit_message_error: the calling thread goes on. *)
ThreadEmitAnswer(p, n, id, ok) ==
  /\ Scheduled(p, n)
  /\ UNCHANGED <<alive, dead, thread, used_interfaces, interfaces,
                 message_id_pool, pending_events, local_run_queue, doing,
                 panic, emitter>>
  /\ AnswerMessageInner(id, ok)
  /\ event' = IF messages_to_answer[id] \in alive \cup {NoPid}
              THEN NoEvent
              ELSE [ev |-> "MessageResponse", id |-> id]

(* cancel_message: the entry is forgotten, nobody is told. *)
ThreadCancelMessage(p, n, id) ==
  /\ Scheduled(p, n)
  /\ messages_to_answer' = RemoveEntry(id)
  /\ event' = NoEvent
  /\ UNCHANGED <<alive, dead, thread, notifications_queue, used_interfaces,
                 interfaces, message_id_pool, pending_events, local_run_queue,
                 resuming, doing, panic, emitter>>

(* A thread other than the main one returns: the outcome is built by a      *)
(* process_by_id() call made while the collection is still borrowed.        *)
ThreadFinished(p, n) ==
  /\ Scheduled(p, n)
  /\ n # 1
  /\ panic' = "collection already borrowed"
  /\ UNCHANGED <<alive, dead, thread, notifications_queue, used_interfaces,
                 interfaces, messages_to_answer, message_id_pool,
                 pending_events, local_run_queue, event, resuming, doing,
                 emitter>>

(* Mutant: the queue of the process outlives it. *)
ProcessFinishedKeepsQueue(p, n) ==
  /\ Scheduled(p, n)
  /\ alive' = alive \ {p}
  /\ dead' = dead \cup {p}
  /\ thread' = [thread EXCEPT ![p] = [k \in ThreadIndex |-> NoThread]]
  /\ used_interfaces' = [used_interfaces EXCEPT ![p] = {}]
  /\ doing' = [op |-> "finish", pid |-> p, todo |-> used_interfaces[p]]
  /\ event' = NoEvent
  /\ UNCHANGED <<notifications_queue, interfaces, messages_to_answer,
                 message_id_pool, pending_events, local_run_queue, resuming,
                 panic, emitter>>

(* The main thread returns, or any thread traps: the process is removed     *)
(* with all its threads, its queue and its list of used interfaces.         *)
ProcessFinished(p, n) ==
  /\ Scheduled(p, n)
  /\ alive' = alive \ {p}
  /\ dead' = dead \cup {p}
  /\ thread' = [thread EXCEPT ![p] = [k \in ThreadIndex |-> NoThread]]
  /\ notifications_queue' = [notifications_queue EXCEPT ![p] = <<>>]
  /\ used_interfaces' = [used_interfaces EXCEPT ![p] = {}]
  /\ doing' = [op |-> "finish", pid |-> p, todo |-> used_interfaces[p]]
  /\ event' = NoEvent
  /\ UNCHANGED <<interfaces, messages_to_answer, message_id_pool,
                 pending_events, local_run_queue, resuming, panic, emitter>>

(* Mutant: the loop does not advance. *)
SameInterface(i) == UNCHANGED doing
(* The loop over used interfaces leaves i behind. *)
NextInterface(i) == doing' = [doing EXCEPT !.todo = @ \ {i}]

(* The handler of the next used interface (a HashSet: any order) is told. *)
NotifyHandler ==
  /\ panic = "none"
  /\ resuming = {}
  /\ doing.op = "finish"
  /\ UNCHANGED thread
  /\ \E i \in doing.todo :
       \/ /\ interfaces[i] = Vacant
          /\ panic' = "used interface is vacant"
          /\ UNCHANGED <<doing, notifications_queue, resuming>>
       \/ /\ interfaces[i].st = "Process"
          /\ interfaces[i].pid \in alive
          /\ NextInterface(i)
          /\ Push(interfaces[i].pid, ProcessDestroyed(doing.pid))
          /\ UNCHANGED panic
       \/ /\ interfaces[i] # Vacant
          /\ interfaces[i].st = "Process" => interfaces[i].pid \notin alive
          /\ NextInterface(i)
          /\ UNCHANGED <<notifications_queue, resuming, panic>>
  /\ UNCHANGED <<alive, dead, used_interfaces, interfaces, messages_to_answer,
                 message_id_pool, pending_events, local_run_queue, event,
                 emitter>>

ProgramFinished ==
  /\ panic = "none"
  /\ resuming = {}
  /\ doing.op = "finish"
  /\ doing.todo = {}
  /\ event' = [ev |-> "ProgramFinished", pid |-> doing.pid]
  /\ doing' = Nothing
  /\ UNCHANGED <<alive, dead, thread, notifications_queue, used_interfaces,
                 interfaces, messages_to_answer, message_id_pool,
                 pending_events, local_run_queue, resuming, panic, emitter>>

-----------------------------------------------------------------------------
(* What the owner of the core calls, when run() has returned.              *)

Embedder == Quiet /\ event # NoEvent

(* execute *)
Execute(p) ==
  /\ Embedder
  /\ p \in Pid \ (alive \cup dead)
  /\ alive' = alive \cup {p}
  /\ thread' = [thread EXCEPT ![p][1] = ReadyToRun]
  /\ UNCHANGED <<dead, notifications_queue, used_interfaces, interfaces,
                 messages_to_answer, message_id_pool, pending_events,
                 local_run_queue, event, resuming, doing, panic, emitter>>

(* start_thread: the new thread comes last. *)
StartThread(p, n) ==
  /\ Embedder
  /\ p \in alive
  /\ \A k \in ThreadIndex : thread[p][k] = NoThread <=> k >= n
  /\ thread' = [thread EXCEPT ![p][n] = ReadyToRun]
  /\ UNCHANGED <<alive, dead, notifications_queue, used_interfaces, interfaces,
                 messages_to_answer, message_id_pool, pending_events,
                 local_run_queue, event, resuming, doing, panic, emitter>>

(* Mutant: the interface changes hands. *)
StealInterface(i, p) ==
  /\ Embedder
  /\ p \in alive \cup ReservedPid
  /\ interfaces' = [interfaces EXCEPT ![i] = HandledBy(p)]
  /\ UNCHANGED <<alive, dead, thread, notifications_queue, used_interfaces,
                 messages_to_answer, message_id_pool, pending_events,
                 local_run_queue, event, resuming, doing, panic, emitter>>

(* set_interface_handler.  An interface that has a handler keeps it, and a  *)
(* pid that is neither alive nor reserved is refused: no change.  Buffered  *)
(* messages go to the handler first, then the sleeping threads one by one.  *)
SetInterfaceHandler(i, p) ==
  /\ Embedder
  /\ p \in alive \cup ReservedPid
  /\ interfaces[i].st # "Process"
  /\ interfaces' = [interfaces EXCEPT ![i] = HandledBy(p)]
  /\ \/ /\ interfaces[i] = Vacant
        /\ UNCHANGED <<notifications_queue, doing, panic>>
     \/ /\ interfaces[i].st = "Requested"
        /\ LET other == interfaces[i].other IN
           \/ /\ p \in alive
              /\ notifications_queue' =
                   [notifications_queue EXCEPT ![p] = @ \o
                      [k \in 1..Len(other) |->
                         InterfaceMessage(i, other[k].id, other[k].from,
                                          other[k].size)]]
              /\ UNCHANGED panic
           \/ /\ p \notin alive
              /\ panic' = IF other = <<>> THEN panic
                          ELSE "buffered message for reserved pid"
              /\ UNCHANGED notifications_queue
        /\ doing' = [op |-> "register", iface |-> i, pid |-> p,
                     threads |-> interfaces[i].threads]
  /\ UNCHANGED <<alive, dead, thread, used_interfaces, messages_to_answer,
                 message_id_pool, pending_events, local_run_queue, event,
                 resuming, emitter>>

(* One thread of the list: its message gets an id and goes to the handler. *)
WakeSleepingThread ==
  /\ panic = "none"
  /\ doing.op = "register"
  /\ doing.threads # <<>>
  /\ LET p == Head(doing.threads)[1]
         n == Head(doing.threads)[2]
         e == thread[p][n]
     IN \/ /\ e.st \in EmitStates
           /\ \E id \in MessageId, size \in Size :
                /\ AssignId(e.ans, p, id)
                /\ AcceptEmit(p, n, e, id, local_run_queue)
                /\ \/ /\ doing.pid \in alive
                      /\ notifications_queue' =
                           [notifications_queue EXCEPT ![doing.pid] =
                              Append(@, InterfaceMessage(doing.iface, id, p, size))]
                      /\ UNCHANGED pending_events
                   \/ /\ doing.pid \notin alive
                      /\ pending_events' =
                           Append(pending_events,
                                  ReservedPidMessage(p, id, doing.iface))
                      /\ UNCHANGED notifications_queue
           /\ doing' = [doing EXCEPT !.threads = Tail(@)]
           /\ UNCHANGED panic
        \/ /\ e.st \notin EmitStates
           /\ panic' = "sleeping thread is gone"
           /\ UNCHANGED <<thread, notifications_queue, messages_to_answer,
                          message_id_pool, pending_events, local_run_queue,
                          doing, emitter>>
  /\ UNCHANGED <<alive, dead, used_interfaces, interfaces, event, resuming>>

(* The end of set_interface_handler: the handler looks at its queue. *)
HandlerRegistered ==
  /\ panic = "none"
  /\ doing.op = "register"
  /\ doing.threads = <<>>
  /\ doing' = Nothing
  /\ resuming' = IF doing.pid \in alive THEN WaitingThreads(thread, doing.pid)
                                        ELSE {}
  /\ UNCHANGED <<alive, dead, thread, notifications_queue, used_interfaces,
                 interfaces, messages_to_answer, message_id_pool,
                 pending_events, local_run_queue, event, panic, emitter>>

(* emit_interface_message_answer and _no_answer. *)
EmitInterfaceMessage(r, i, ans) ==
  /\ Embedder
  /\ Room
  /\ \E id \in MessageId, size \in Size :
       \/ /\ interfaces[i].st # "Process"
          /\ IF ans THEN DrawId(r, id)
                    ELSE id = NoMessage /\ UNCHANGED <<message_id_pool, emitter>>
          /\ LET m == [from |-> r, id |-> id, size |-> size] IN
             interfaces' = [interfaces EXCEPT ![i] =
                              IF @ = Vacant
                              THEN Requested(<<>>, <<m>>)
                              ELSE Requested(@.threads, Append(@.other, m))]
          /\ UNCHANGED <<thread, notifications_queue, messages_to_answer,
                         pending_events, resuming>>
       \/ /\ interfaces[i].st = "Process"
          /\ AssignId(ans, r, id)
          /\ UNCHANGED <<interfaces, thread>>
          /\ \/ /\ interfaces[i].pid \in alive
                /\ Push(interfaces[i].pid, InterfaceMessage(i, id, r, size))
                /\ UNCHANGED pending_events
             \/ /\ interfaces[i].pid \notin alive
                /\ pending_events' = Append(pending_events,
                                            ReservedPidMessage(r, NoMessage, i))
                /\ UNCHANGED <<notifications_queue, resuming>>
  /\ UNCHANGED <<alive, dead, used_interfaces, local_run_queue, event, doing,
                 panic>>

(* answer_message: only for messages of processes, as its doc requires; an  *)
(* outcome of answer_message_inner is ignored.                              *)
AnswerMessage(id, ok) ==
  /\ Embedder
  /\ emitter[id] \in Pid
  /\ UNCHANGED <<alive, dead, thread, used_interfaces, interfaces,
                 message_id_pool, pending_events, local_run_queue, event,
                 doing, panic, emitter>>
  /\ AnswerMessageInner(id, ok)

-----------------------------------------------------------------------------

Init ==
  /\ alive = {}
  /\ dead = {}
  /\ thread = [p \in Pid |-> [n \in ThreadIndex |-> NoThread]]
  /\ notifications_queue = [p \in Pid |-> <<>>]
  /\ used_interfaces = [p \in Pid |-> {}]
  /\ interfaces = [i \in Interface |-> Vacant]
  /\ messages_to_answer = [id \in MessageId |-> NoPid]
  /\ message_id_pool = 0
  /\ pending_events = <<>>
  /\ local_run_queue = <<>>
  /\ event = [ev |-> "Idle"]
  /\ resuming = {}
  /\ doing = Nothing
  /\ panic = "none"
  /\ emitter = [id \in MessageId |-> NoPid]

(* The bounds on message ids and on queues stop the model, not the kernel. *)
AtBound == Drawable = {} \/ ~ Room

(* The kernel has panicked, or the model is at a bound: it may stop here. *)
Stopped == (panic # "none" \/ AtBound) /\ UNCHANGED vars

(* Ids a thread of p can reasonably wait for: its own and that of interfaces. *)
WaitableIds(p) == {InterfaceMsg} \cup {id \in MessageId : emitter[id] = p}
DrawnIds == {id \in MessageId : emitter[id] # NoPid}

ThreadStep(p, n) ==
  \/ \E ids \in SUBSET WaitableIds(p), size \in Size, block \in BOOLEAN :
       ThreadWaitNotification(p, n, ids, size, block)
  \/ \E i \in Interface, ans, delay \in BOOLEAN :
       ThreadEmitMessage(p, n, i, ans, delay)
  \/ \E a \in Action : ThreadOtherExtrinsic(p, n, a)
  \/ \E id \in DrawnIds, ok \in BOOLEAN : ThreadEmitAnswer(p, n, id, ok)
  \/ \E id \in DrawnIds : ThreadCancelMessage(p, n, id)
  \/ ThreadFinished(p, n)
  \/ ProcessFinished(p, n)

Run ==
  \/ PopEvent
  \/ PopLocalRunQueue
  \/ RunIdle
  \/ \E p \in Pid, n \in ThreadIndex : ThreadStep(p, n)
  \/ ResumeNext
  \/ NotifyHandler
  \/ ProgramFinished
  \/ WakeSleepingThread
  \/ HandlerRegistered

Api ==
  \/ \E p \in Pid : Execute(p)
  \/ \E p \in Pid, n \in ThreadIndex : StartThread(p, n)
  \/ \E i \in Interface, p \in Emitter : SetInterfaceHandler(i, p)
  \/ \E r \in ReservedPid, i \in Interface, ans \in BOOLEAN :
       EmitInterfaceMessage(r, i, ans)
  \/ \E id \in DrawnIds, ok \in BOOLEAN : AnswerMessage(id, ok)

Next == Run \/ Api \/ Stopped

Spec == Init /\ [][Next]_vars

(* The processor keeps executing a handler that it has entered. *)
FairSpec == Spec /\ WF_vars(Run)

-----------------------------------------------------------------------------
(* Properties.                                                             *)

(* The types of the state, and what a process leaves behind when it is      *)
(* removed from the collection: nothing (ProcessFinished drops its threads, *)
(* its queue and its list of used interfaces).                              *)
TypeOK ==
  /\ alive \in SUBSET Pid /\ dead \in SUBSET Pid /\ alive \cap dead = {}
  /\ thread \in [Pid -> [ThreadIndex -> ThreadState]]
  /\ notifications_queue \in [Pid -> Seq(Notification)]
  /\ used_interfaces \in [Pid -> SUBSET Interface]
  /\ interfaces \in [Interface -> InterfaceState]
  /\ messages_to_answer \in [MessageId -> Emitter \cup {NoPid}]
  /\ message_id_pool \in 0..(MaxId + 1)
  /\ pending_events \in Seq(PendingEvent)
  /\ local_run_queue \in Seq(Tid)
  /\ event \in Event
  /\ resuming \in SUBSET Tid
  /\ doing \in Handler
  /\ panic \in Panic
  /\ emitter \in [MessageId -> Emitter \cup {NoPid}]
  /\ \A p \in Pid \ alive :
       /\ \A n \in ThreadIndex : thread[p][n] = NoThread
       /\ notifications_queue[p] = <<>>
       /\ used_interfaces[p] = {}
  /\ \A t \in resuming : thread[t[1]][t[2]].st \in WaitStates
  /\ doing.op = "register" => resuming = {}

(* A thread that waits although a notification it accepts is queued. *)
Overlooks(p, n) ==
  /\ thread[p][n].st \in WaitStates
  /\ \/ ~ thread[p][n].block
     \/ \E k \in 1..Len(notifications_queue[p]) :
          WaitedId(notifications_queue[p][k]) \in thread[p][n].ids

(* Between two handlers no thread sleeps in next_notification, or inside an *)
(* extrinsic, while its process has a notification it waits for: every push *)
(* to a queue is followed by try_resume_notification_wait, and every wait   *)
(* begins by a look at the queue.                                           *)
NoMissedNotification ==
  Quiet => \A p \in Pid, n \in ThreadIndex : ~ Overlooks(p, n)

(* A response is queued only for the process that emitted the message, the  *)
(* message no longer awaits an answer then, and no message has two          *)
(* responses: answer_message_inner removes the entry first.                 *)
ResponseOnce ==
  \A p \in Pid : \A k \in 1..Len(notifications_queue[p]) :
    LET notif == notifications_queue[p][k] IN
    notif.kind = "Response" =>
      /\ emitter[notif.id] = p
      /\ messages_to_answer[notif.id] = NoPid
      /\ \A j \in 1..Len(notifications_queue[p]) :
           (j # k /\ notifications_queue[p][j].kind = "Response")
             => notifications_queue[p][j].id # notif.id

(* A message that has been answered or cancelled is never to be answered    *)
(* again: its id is not drawn a second time.                                *)
AnsweredForGood ==
  [][\A id \in MessageId :
       (emitter[id] # NoPid /\ messages_to_answer[id] = NoPid)
         => messages_to_answer'[id] = NoPid]_vars

(* A thread inside an extrinsic waits for a message that its own process    *)
(* drew, never for the ids 0 and 1 that next_notification gives another     *)
(* meaning to, and no two such threads wait for the same message.           *)
ExtrinsicWaits ==
  \A p \in Pid, n \in ThreadIndex :
    thread[p][n].st = "OtherExtrinsicWait" =>
      \E id \in MessageId \ {NoMessage, InterfaceMsg} :
        /\ thread[p][n] = OtherWait(id)
        /\ emitter[id] = p
        /\ \A m \in ThreadIndex : m # n => thread[p][m] # OtherWait(id)

(* Occurrences of a thread in a list. *)
Places(t, list) == {k \in 1..Len(list) : list[k] = t}

(* The list in which the threads asleep on interface i are: the one of the  *)
(* Requested entry or, while set_interface_handler runs, what is left of it.*)
Sleepers(i) ==
  IF interfaces[i].st = "Requested" THEN interfaces[i].threads
  ELSE IF doing.op = "register" THEN IF doing.iface = i THEN doing.threads ELSE <<>>
  ELSE <<>>

(* A thread put to sleep because its interface has no handler is in the     *)
(* list of that interface exactly once, so that set_interface_handler sends *)
(* its message exactly once; and the list holds no other live thread.       *)
SleepersListed ==
  \A i \in Interface :
    /\ \A p \in Pid, n \in ThreadIndex :
         (thread[p][n].st \in EmitStates /\ thread[p][n].iface = i)
           => \E k \in 1..Len(Sleepers(i)) : Places(<<p, n>>, Sleepers(i)) = {k}
    /\ \A k \in 1..Len(Sleepers(i)) :
         LET p == Sleepers(i)[k][1]
             n == Sleepers(i)[k][2]
         IN p \in alive => /\ thread[p][n].st \in EmitStates
                           /\ thread[p][n].iface = i

(* Every thread with an action to apply is in the local run queue, once;    *)
(* every live thread of the queue has an action to apply.  The unreachable  *)
(* arm of run_once is therefore never taken.                                *)
RunQueueSound ==
  /\ panic # "queued thread has no action"
  /\ \A p \in Pid, n \in ThreadIndex :
       thread[p][n].st = "OtherExtrinsicApplyAction"
         => \E k \in 1..Len(local_run_queue) : Places(<<p, n>>, local_run_queue) = {k}
  /\ panic = "none" =>
       \A k \in 1..Len(local_run_queue) :
         thread[local_run_queue[k][1]][local_run_queue[k][2]].st
           \in {"None", "OtherExtrinsicApplyAction"}

(* A handler never reads a message of a process after the notification that *)
(* the process is destroyed, and that notification is true.                 *)
DestroyedLast ==
  \A p \in Pid : \A j \in 1..Len(notifications_queue[p]) :
    LET d == notifications_queue[p][j] IN
    d.kind = "ProcessDestroyed" =>
      /\ d.from \in dead
      /\ \A k \in j..Len(notifications_queue[p]) :
           notifications_queue[p][k].kind = "Interface"
             => notifications_queue[p][k].from # d.from

(* Messages of an interface are only ever queued for its one handler.       *)
OnlyToHandler ==
  \A p \in Pid : \A k \in 1..Len(notifications_queue[p]) :
    LET notif == notifications_queue[p][k] IN
    notif.kind = "Interface" => interfaces[notif.iface] = HandledBy(p)

(* A handler that loops ends: the termination of a process is reported and  *)
(* a registration completes, unless the kernel panics or the model is at    *)
(* the bound on message ids.                                                *)
HandlerEnds ==
  (doing # Nothing) ~> (doing = Nothing \/ panic # "none" \/ Drawable = {})

-----------------------------------------------------------------------------
(* What an assertion of the code says, and the code does not keep.         *)

(* The "None => unreachable!()" of the loop that tells the handlers that a  *)
(* process is destroyed: an interface in used_interfaces has an entry.      *)
UsedHaveEntry == panic # "used interface is vacant"
=============================================================================
