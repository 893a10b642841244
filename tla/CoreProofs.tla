---------------------------- MODULE CoreProofs ----------------------------
(***************************************************************************)
(* Proofs about Core, for every set of processes, reserved pids,           *)
(* interfaces and extrinsic actions, and for every bound.                  *)
(***************************************************************************)
EXTENDS Core, SequenceTheorems, TLAPS

-----------------------------------------------------------------------------
(* Data.                                                                   *)

WaitRecord ==
  [st : WaitStates, ids : SUBSET MessageId, size : Size, block : BOOLEAN]
EmitRecord ==
  [st : EmitStates, iface : Interface, ans : BOOLEAN, delay : BOOLEAN]
ApplyRecord == [st : {"OtherExtrinsicApplyAction"}, action : Action]

(* The state of a thread tells which of its fields exist. *)
LEMMA ThreadStates ==
  ASSUME NEW s \in ThreadState
  PROVE  /\ s.st \in WaitStates => s \in WaitRecord
         /\ s.st \in EmitStates => s \in EmitRecord
         /\ s.st = "OtherExtrinsicApplyAction" => s \in ApplyRecord
         /\ s.st = "None" => s = NoThread
  BY DEF ThreadState, NoThread, ReadyToRun, WaitStates, EmitStates, WaitRecord,
         EmitRecord, ApplyRecord

LEMMA MakeThreadStates ==
  /\ NoThread \in ThreadState
  /\ ReadyToRun \in ThreadState
  /\ WaitRecord \subseteq ThreadState
  /\ EmitRecord \subseteq ThreadState
  /\ \A a \in Action : ApplyAction(a) \in ThreadState
  /\ \A id \in MessageId : OtherWait(id) \in WaitRecord
  BY BoundAssumption
     DEF ThreadState, NoThread, ReadyToRun, WaitStates, EmitStates, WaitRecord,
         EmitRecord, ApplyAction, OtherWait, Size

LEMMA MakeNotifications ==
  /\ \A i \in Interface, id \in MessageId, from \in Emitter, size \in Size :
       InterfaceMessage(i, id, from, size) \in Notification
  /\ \A p \in Pid : ProcessDestroyed(p) \in Notification
  /\ \A id \in MessageId, ok \in BOOLEAN, size \in Size :
       Response(id, ok, size) \in Notification
  BY BoundAssumption
     DEF Notification, InterfaceMessage, ProcessDestroyed, Response, Size

(* Removing an element keeps the elements of a sequence in its set. *)
LEMMA RemoveAtType ==
  ASSUME NEW S, NEW s \in Seq(S), NEW k \in 1..Len(s)
  PROVE  /\ RemoveAt(s, k) \in Seq(S)
         /\ Len(RemoveAt(s, k)) = Len(s) - 1
<1>1. Len(s) - 1 \in Nat
  OBVIOUS
<1>2. \A j \in 1..(Len(s) - 1) : (IF j < k THEN s[j] ELSE s[j + 1]) \in S
  OBVIOUS
<1> QED
  BY <1>1, <1>2, IsASeq, LenProperties DEF RemoveAt

RequestedRecord ==
  [st : {"Requested"}, threads : Seq(Tid), other : Seq(Buffered)]

(* The three states of an interface. *)
LEMMA InterfaceStates ==
  ASSUME NEW s \in InterfaceState
  PROVE  /\ s.st \in {"Vacant", "Process", "Requested"}
         /\ s.st = "Vacant" <=> s = Vacant
         /\ s.st = "Process" => s.pid \in Emitter /\ s = HandledBy(s.pid)
         /\ s.st = "Requested" => s \in RequestedRecord
  BY DEF InterfaceState, Vacant, HandledBy, RequestedRecord

LEMMA MakeInterfaceStates ==
  /\ Vacant \in InterfaceState
  /\ \A p \in Emitter : HandledBy(p) \in InterfaceState
  /\ \A ts \in Seq(Tid), others \in Seq(Buffered) :
       Requested(ts, others) \in InterfaceState
  BY DEF InterfaceState, Vacant, HandledBy, Requested

LEMMA AddSleeperType ==
  ASSUME NEW s \in InterfaceState, s.st # "Process", NEW t \in Tid
  PROVE  AddSleeper(s, t) \in InterfaceState
<1>1. CASE s = Vacant
  <2>1. <<t>> \in Seq(Tid) /\ <<>> \in Seq(Buffered)
    OBVIOUS
  <2> QED
    BY <1>1, <2>1, MakeInterfaceStates, Zenon DEF AddSleeper
<1>2. CASE s # Vacant
  <2>1. s.threads \in Seq(Tid) /\ s.other \in Seq(Buffered)
    BY <1>2, InterfaceStates DEF RequestedRecord
  <2>2. Append(s.threads, t) \in Seq(Tid)
    BY <2>1
  <2> QED
    BY <1>2, <2>1, <2>2, MakeInterfaceStates, Zenon DEF AddSleeper
<1> QED
  BY <1>1, <1>2

FinishRecord == [op : {"finish"}, pid : Pid, todo : SUBSET Interface]
RegisterRecord ==
  [op : {"register"}, iface : Interface, pid : Emitter, threads : Seq(Tid)]

(* The handler in progress, and what one turn of its loop makes of it. *)
LEMMA Handlers ==
  ASSUME NEW d \in Handler
  PROVE  /\ d.op = "none" => d = Nothing
         /\ d.op = "finish" => d \in FinishRecord
         /\ d.op = "register" => d \in RegisterRecord
  BY DEF Handler, Nothing, FinishRecord, RegisterRecord

LEMMA MakeHandlers ==
  /\ Nothing \in Handler /\ Nothing.op = "none"
  /\ \A d \in FinishRecord : d \in Handler /\ d.op = "finish"
  /\ \A d \in RegisterRecord : d \in Handler /\ d.op = "register"
  /\ \A d \in FinishRecord, i \in Interface :
       [d EXCEPT !.todo = @ \ {i}] \in FinishRecord
  BY DEF Handler, Nothing, FinishRecord, RegisterRecord

LEMMA MakeRegister ==
  ASSUME NEW d \in RegisterRecord, d.threads # <<>>
  PROVE  [d EXCEPT !.threads = Tail(@)] \in RegisterRecord
<1>1. Tail(d.threads) \in Seq(Tid)
  BY HeadTailProperties DEF RegisterRecord
<1> QED
  BY <1>1 DEF RegisterRecord

(* The first of a list of threads, and the others. *)
LEMMA FirstThread ==
  ASSUME NEW list \in Seq(Tid), list # <<>>
  PROVE  /\ Head(list)[1] \in Pid /\ Head(list)[2] \in ThreadIndex
         /\ Head(list) = <<Head(list)[1], Head(list)[2]>>
         /\ Tail(list) \in Seq(Tid)
<1>1. Head(list) \in Tid /\ Tail(list) \in Seq(Tid)
  BY HeadTailProperties
<1> QED
  BY <1>1 DEF Tid

-----------------------------------------------------------------------------
(* Type correctness.                                                       *)

(* Only thread n of p, or only the queue of p, differs after the step. *)
OnlyThread(p, n) ==
  /\ thread' \in [Pid -> [ThreadIndex -> ThreadState]]
  /\ \A q \in Pid, m \in ThreadIndex :
       <<q, m>> # <<p, n>> => thread'[q][m] = thread[q][m]
OnlyQueue(p) ==
  /\ notifications_queue' \in [Pid -> Seq(Notification)]
  /\ \A q \in Pid : q # p => notifications_queue'[q] = notifications_queue[q]

LEMMA SetThread ==
  ASSUME TypeOK, NEW p \in Pid, NEW n \in ThreadIndex, NEW s \in ThreadState,
         thread' = [thread EXCEPT ![p][n] = s]
  PROVE  OnlyThread(p, n) /\ thread'[p][n] = s
  BY DEF TypeOK, OnlyThread

(* A step of a live process' thread leaves the others without threads. *)
LEMMA ThreadResidue ==
  ASSUME TypeOK, NEW p \in alive, NEW n \in ThreadIndex, OnlyThread(p, n)
  PROVE  \A q \in Pid \ alive, m \in ThreadIndex : thread'[q][m] = NoThread
<1>1. ASSUME NEW q \in Pid \ alive, NEW m \in ThreadIndex
      PROVE  thread'[q][m] = NoThread
  <2>1. <<q, m>> # <<p, n>>
    OBVIOUS
  <2>2. thread'[q][m] = thread[q][m]
    BY <2>1 DEF OnlyThread
  <2> QED
    BY <2>2 DEF TypeOK
<1> QED
  BY <1>1

(* Nor does a step on a live process' queue touch those of the others. *)
LEMMA QueueResidue ==
  ASSUME TypeOK, NEW p \in alive, OnlyQueue(p)
  PROVE  \A q \in Pid \ alive : notifications_queue'[q] = <<>>
<1>1. ASSUME NEW q \in Pid \ alive PROVE notifications_queue'[q] = <<>>
  <2>1. notifications_queue'[q] = notifications_queue[q]
    BY DEF OnlyQueue
  <2> QED
    BY <2>1, Zenon DEF TypeOK
<1> QED
  BY <1>1

(* The lists of an interface that is waited for. *)
LEMMA RequestedLists ==
  ASSUME TypeOK, NEW i \in Interface, interfaces[i].st = "Requested"
  PROVE  /\ interfaces[i].threads \in Seq(Tid) /\ interfaces[i].other \in Seq(Buffered)
         /\ interfaces[i] # Vacant
<1>1. interfaces[i] \in InterfaceState
  BY DEF TypeOK
<1>2. interfaces[i] \in RequestedRecord
  BY <1>1, InterfaceStates
<1>3. interfaces[i].threads \in Seq(Tid) /\ interfaces[i].other \in Seq(Buffered)
  BY <1>2 DEF RequestedRecord
<1> QED
  BY <1>3 DEF Vacant

(* The thread that set_interface_handler is about to wake. *)
LEMMA FirstSleeper ==
  ASSUME TypeOK, doing.op = "register", doing.threads # <<>>,
         NEW p, NEW n, p = Head(doing.threads)[1], n = Head(doing.threads)[2]
  PROVE  /\ p \in Pid /\ p \in Emitter /\ n \in ThreadIndex
         /\ thread[p][n] \in ThreadState
         /\ doing \in RegisterRecord /\ doing.iface \in Interface /\ resuming = {}
<1>1. doing \in RegisterRecord /\ resuming = {}
  BY Handlers DEF TypeOK
<1>2. doing.threads \in Seq(Tid) /\ doing.iface \in Interface
  BY <1>1 DEF RegisterRecord
<1>3. p \in Pid /\ n \in ThreadIndex
  BY <1>2, FirstThread
<1>4. p \in Emitter /\ thread[p][n] \in ThreadState
  BY <1>3 DEF TypeOK, Emitter
<1> QED
  BY <1>1, <1>2, <1>3, <1>4

(* What one look at the queue may change. *)
LEMMA TryResumeType ==
  ASSUME TypeOK, NEW p \in Pid, NEW n \in ThreadIndex, NEW w \in WaitRecord,
         TryResumeThread(p, n, w)
  PROVE  /\ OnlyThread(p, n)
         /\ OnlyQueue(p)
         /\ local_run_queue' \in Seq(Tid)
         /\ panic' \in Panic
<1> DEFINE queue == notifications_queue[p]
<1>0. /\ queue \in Seq(Notification)
      /\ w \in ThreadState /\ ReadyToRun \in ThreadState
      /\ \A a \in Action : ApplyAction(a) \in ThreadState
  BY MakeThreadStates DEF TypeOK
<1>1. CASE /\ thread' = [thread EXCEPT ![p][n] = IF w.block THEN w ELSE ReadyToRun]
           /\ UNCHANGED <<notifications_queue, local_run_queue, panic>>
  BY <1>0, <1>1, SetThread, Zenon DEF TypeOK, OnlyQueue
<1>2. CASE /\ thread' = [thread EXCEPT ![p][n] = ReadyToRun]
           /\ UNCHANGED <<notifications_queue, local_run_queue, panic>>
  BY <1>0, <1>2, SetThread, Zenon DEF TypeOK, OnlyQueue
<1>3. ASSUME NEW k \in 1..Len(queue),
             notifications_queue' = [notifications_queue EXCEPT ![p] = RemoveAt(@, k)],
             ResumeNotification(p, n, w, queue[k])
      PROVE  /\ OnlyThread(p, n)
             /\ OnlyQueue(p)
             /\ local_run_queue' \in Seq(Tid)
             /\ panic' \in Panic
  <2>1. OnlyQueue(p)
    <3>1. RemoveAt(queue, k) \in Seq(Notification)
      BY <1>0, RemoveAtType
    <3> QED
      BY <1>3, <3>1 DEF TypeOK, OnlyQueue
  <2>2. CASE /\ thread' = [thread EXCEPT ![p][n] = ReadyToRun]
             /\ UNCHANGED <<local_run_queue, panic>>
    BY <1>0, <2>1, <2>2, SetThread, Zenon DEF TypeOK
  <2>3. ASSUME NEW a \in Action,
               thread' = [thread EXCEPT ![p][n] = ApplyAction(a)],
               local_run_queue' = Append(local_run_queue, <<p, n>>),
               UNCHANGED panic
        PROVE  OnlyThread(p, n) /\ local_run_queue' \in Seq(Tid) /\ panic' \in Panic
    <3>1. OnlyThread(p, n)
      BY <1>0, <2>3, SetThread, Zenon
    <3> QED
      BY <2>3, <3>1 DEF TypeOK, Tid
  <2>4. CASE /\ panic' = "error response unwrapped"
             /\ UNCHANGED <<thread, local_run_queue>>
    BY <2>1, <2>4, Zenon DEF TypeOK, OnlyThread, Panic
  <2> QED
    BY <1>3, <2>1, <2>2, <2>3, <2>4, Zenon DEF ResumeNotification
<1> QED
  BY <1>1, <1>2, <1>3 DEF TryResumeThread, ResumeTooBig

(* A push to a live process. *)
LEMMA PushType ==
  ASSUME TypeOK, NEW p \in Pid, NEW notif \in Notification, Push(p, notif),
         thread' \in [Pid -> [ThreadIndex -> ThreadState]]
  PROVE  /\ OnlyQueue(p)
         /\ resuming' \in SUBSET Tid
         /\ \A t \in resuming' : thread'[t[1]][t[2]].st \in WaitStates
  BY DEF TypeOK, Push, OnlyQueue, WaitingThreads, Tid

LEMMA AssignIdType ==
  ASSUME TypeOK, NEW ans \in BOOLEAN, NEW by \in Emitter, NEW id \in MessageId,
         AssignId(ans, by, id)
  PROVE  /\ messages_to_answer' \in [MessageId -> Emitter \cup {NoPid}]
         /\ message_id_pool' \in 0..(MaxId + 1)
         /\ emitter' \in [MessageId -> Emitter \cup {NoPid}]
<1>1. CASE ans
  <2>1. id \in 0..MaxId /\ message_id_pool' = id + 1
    BY <1>1 DEF AssignId, DrawId, MessageId
  <2>2. message_id_pool' \in 0..(MaxId + 1)
    BY <2>1, BoundAssumption
  <2> QED
    BY <1>1, <2>2, Zenon DEF TypeOK, AssignId, DrawId
<1>2. CASE ~ ans
  BY <1>2 DEF TypeOK, AssignId
<1> QED
  BY <1>1, <1>2

LEMMA AcceptEmitType ==
  ASSUME TypeOK, NEW p \in Pid, NEW n \in ThreadIndex, NEW e \in EmitRecord,
         NEW id \in MessageId, NEW q \in Seq(Tid), AcceptEmit(p, n, e, id, q)
  PROVE  OnlyThread(p, n) /\ local_run_queue' \in Seq(Tid)
<1>1. CASE thread' = [thread EXCEPT ![p][n] = ReadyToRun] /\ local_run_queue' = q
  BY <1>1, MakeThreadStates, SetThread, Zenon
<1>2. CASE thread' = [thread EXCEPT ![p][n] = OtherWait(id)] /\ local_run_queue' = q
  BY <1>2, MakeThreadStates, SetThread, Zenon
<1>3. ASSUME NEW a \in Action, thread' = [thread EXCEPT ![p][n] = ApplyAction(a)],
             local_run_queue' = Append(q, <<p, n>>)
      PROVE  OnlyThread(p, n) /\ local_run_queue' \in Seq(Tid)
  <2>1. OnlyThread(p, n)
    BY <1>3, MakeThreadStates, SetThread, Zenon
  <2> QED
    BY <1>3, <2>1 DEF Tid
<1> QED
  BY <1>1, <1>2, <1>3 DEF AcceptEmit

LEMMA ResumeNextType == TypeOK /\ ResumeNext => TypeOK'
<1> SUFFICES ASSUME TypeOK, ResumeNext PROVE TypeOK'
  OBVIOUS
<1>1. PICK t \in resuming : /\ TryResumeThread(t[1], t[2], thread[t[1]][t[2]])
                            /\ resuming' = resuming \ {t}
  BY DEF ResumeNext
<1> DEFINE p == t[1]
           n == t[2]
<1>2. p \in Pid /\ n \in ThreadIndex /\ t = <<p, n>> /\ thread[p][n] \in WaitRecord
  <2>1. t \in Tid /\ thread[p][n].st \in WaitStates
    BY <1>1, Zenon DEF TypeOK
  <2>2. p \in Pid /\ n \in ThreadIndex /\ t = <<p, n>>
    BY <2>1 DEF Tid
  <2>3. thread[p][n] \in ThreadState
    BY <2>2 DEF TypeOK
  <2> QED
    BY <2>1, <2>2, <2>3, ThreadStates
<1>3. p \in alive
  BY <1>2 DEF TypeOK, WaitRecord, WaitStates, NoThread
<1>4. /\ OnlyThread(p, n)
      /\ OnlyQueue(p)
      /\ local_run_queue' \in Seq(Tid)
      /\ panic' \in Panic
  BY <1>1, <1>2, TryResumeType
<1>5. resuming' \in SUBSET Tid
  BY <1>1 DEF TypeOK
<1>6. ASSUME NEW u \in resuming' PROVE thread'[u[1]][u[2]].st \in WaitStates
  <2>1. u \in resuming /\ u # t /\ u \in Tid /\ t \in Tid
    BY <1>1, <1>6 DEF TypeOK
  <2>2. u[1] \in Pid /\ u[2] \in ThreadIndex /\ <<u[1], u[2]>> # <<p, n>>
    BY <1>2, <2>1 DEF Tid
  <2>3. thread'[u[1]][u[2]] = thread[u[1]][u[2]]
    BY <1>4, <2>2 DEF OnlyThread
  <2> QED
    BY <2>1, <2>3 DEF TypeOK
<1> QED
  BY <1>3, <1>4, <1>5, <1>6, SMTT(30) DEF TypeOK, OnlyThread, OnlyQueue, ResumeNext

(* The arm of run_inner for an emission. *)
LEMMA HandleEmitType ==
  ASSUME TypeOK, Quiet, NEW p \in alive, NEW n \in ThreadIndex,
         NEW e \in EmitRecord, NEW q \in Seq(Tid), HandleEmit(p, n, e, q)
  PROVE  TypeOK'
<1>0. p \in Pid /\ p \in Emitter /\ e.iface \in Interface /\ e.ans \in BOOLEAN
      /\ interfaces[e.iface] \in InterfaceState
      /\ resuming = {} /\ doing.op = "none"
  BY MakeHandlers DEF TypeOK, Emitter, EmitRecord, Quiet
<1>1. used_interfaces' \in [Pid -> SUBSET Interface]
      /\ \A o \in Pid : o # p => used_interfaces'[o] = used_interfaces[o]
  BY <1>0 DEF HandleEmit, TypeOK
<1>2. CASE EmitToHandler(p, n, e, q)
  <2> DEFINE h == interfaces[e.iface].pid
  <2>1. PICK id \in MessageId, size \in Size :
          /\ AssignId(e.ans, p, id)
          /\ AcceptEmit(p, n, e, id, q)
          /\ \/ /\ h \in alive
                /\ Push(h, InterfaceMessage(e.iface, id, p, size))
                /\ event' = NoEvent
             \/ /\ h \notin alive
                /\ event' = IF h \in ReservedPid
                            THEN ReservedPidMessage(p, id, e.iface)
                            ELSE NoEvent
                /\ UNCHANGED <<notifications_queue, resuming>>
    BY <1>2 DEF EmitToHandler
  <2>2. /\ messages_to_answer' \in [MessageId -> Emitter \cup {NoPid}]
        /\ message_id_pool' \in 0..(MaxId + 1)
        /\ emitter' \in [MessageId -> Emitter \cup {NoPid}]
    BY <1>0, <2>1, AssignIdType
  <2>3. OnlyThread(p, n) /\ local_run_queue' \in Seq(Tid)
    BY <1>0, <2>1, AcceptEmitType
  <2>4. InterfaceMessage(e.iface, id, p, size) \in Notification
    BY <1>0, MakeNotifications
  <2>5. /\ event' \in Event
        /\ h \in alive => OnlyQueue(h)
        /\ h \notin alive => UNCHANGED notifications_queue
        /\ resuming' \in SUBSET Tid
        /\ \A t \in resuming' : thread'[t[1]][t[2]].st \in WaitStates
    <3>1. CASE h \in alive
      <4>1. h \in Pid
        BY <3>1 DEF TypeOK
      <4>2. Push(h, InterfaceMessage(e.iface, id, p, size)) /\ event' = NoEvent
        BY <2>1, <3>1
      <4>3. /\ OnlyQueue(h)
            /\ resuming' \in SUBSET Tid
            /\ \A t \in resuming' : thread'[t[1]][t[2]].st \in WaitStates
        BY <2>3, <2>4, <4>1, <4>2, PushType DEF OnlyThread
      <4> QED
        BY <3>1, <4>2, <4>3 DEF Event
    <3>2. CASE h \notin alive
      BY <1>0, <2>1, <3>2 DEF Event, PendingEvent, ReservedPidMessage, NoEvent
    <3> QED
      BY <3>1, <3>2
  <2>6. UNCHANGED <<alive, dead, pending_events, doing, panic, interfaces>>
    BY <1>2, Zenon DEF HandleEmit, EmitToHandler
  <2>7. /\ thread' \in [Pid -> [ThreadIndex -> ThreadState]]
        /\ \A o \in Pid \ alive, m \in ThreadIndex : thread'[o][m] = NoThread
    BY <2>3, ThreadResidue DEF OnlyThread
  <2>8. /\ notifications_queue' \in [Pid -> Seq(Notification)]
        /\ \A o \in Pid \ alive : notifications_queue'[o] = <<>>
    <3>1. CASE h \in alive
      BY <2>5, <3>1, QueueResidue, Zenon DEF OnlyQueue
    <3>2. CASE h \notin alive
      BY <2>5, <3>2, Zenon DEF TypeOK
    <3> QED
      BY <3>1, <3>2, Zenon
  <2> QED
    BY <1>0, <1>1, <2>2, <2>3, <2>5, <2>6, <2>7, <2>8, Zenon DEF TypeOK
<1>3. CASE RefuseEmit(p, n, e, q)
  <2>1. OnlyThread(p, n)
    BY <1>0, <1>3, SetThread, MakeThreadStates, Zenon DEF RefuseEmit
  <2>2. resuming' = {} /\ \A t \in resuming' : thread'[t[1]][t[2]].st \in WaitStates
    BY <1>0, <1>3 DEF RefuseEmit
  <2>3. UNCHANGED <<alive, dead, pending_events, doing, panic, interfaces,
                    notifications_queue, messages_to_answer, message_id_pool, emitter>>
    BY <1>3, Zenon DEF HandleEmit, RefuseEmit
  <2>4. local_run_queue' \in Seq(Tid) /\ event' \in Event
    BY <1>3, Zenon DEF RefuseEmit, Event
  <2>5. /\ thread' \in [Pid -> [ThreadIndex -> ThreadState]]
        /\ \A o \in Pid \ alive, m \in ThreadIndex : thread'[o][m] = NoThread
    BY <2>1, ThreadResidue DEF OnlyThread
  <2> QED
    BY <1>0, <1>1, <2>2, <2>3, <2>4, <2>5, Zenon DEF TypeOK
<1>4. CASE DelayEmit(p, n, e, q)
  <2>1. OnlyThread(p, n)
    BY <1>0, <1>4, SetThread, MakeThreadStates, Zenon DEF DelayEmit
  <2>2. AddSleeper(interfaces[e.iface], <<p, n>>) \in InterfaceState
    BY <1>0, <1>4, AddSleeperType DEF DelayEmit, Tid
  <2>3. interfaces' \in [Interface -> InterfaceState]
    BY <1>0, <1>4, <2>2 DEF DelayEmit, TypeOK
  <2>4. event' \in Event
    BY <1>0, <1>4 DEF DelayEmit, Event, Tid
  <2>5. resuming' = {} /\ \A t \in resuming' : thread'[t[1]][t[2]].st \in WaitStates
    BY <1>0, <1>4 DEF DelayEmit
  <2>6. /\ UNCHANGED <<alive, dead, pending_events, doing, panic, notifications_queue,
                       messages_to_answer, message_id_pool, emitter>>
        /\ local_run_queue' \in Seq(Tid)
    BY <1>4, Zenon DEF HandleEmit, DelayEmit
  <2>7. /\ thread' \in [Pid -> [ThreadIndex -> ThreadState]]
        /\ \A o \in Pid \ alive, m \in ThreadIndex : thread'[o][m] = NoThread
    BY <2>1, ThreadResidue DEF OnlyThread
  <2> QED
    BY <1>0, <1>1, <2>3, <2>4, <2>5, <2>6, <2>7, Zenon DEF TypeOK
<1> QED
  BY <1>2, <1>3, <1>4 DEF HandleEmit

LEMMA ApplyExtrinsicActionType ==
  ASSUME TypeOK, Quiet, NEW p \in alive, NEW n \in ThreadIndex,
         NEW a \in Action, NEW q \in Seq(Tid), ApplyExtrinsicAction(p, n, a, q)
  PROVE  TypeOK'
<1>0. p \in Pid /\ resuming = {}
  BY DEF TypeOK, Quiet
<1>1. CASE a.do = "ProgramCrash"
  BY <1>1, ZenonT(30) DEF ApplyExtrinsicAction, TypeOK, Panic
<1>2. CASE a.do = "Resume"
  <2>1. /\ thread' = [thread EXCEPT ![p][n] = ReadyToRun]
        /\ local_run_queue' = q
        /\ event' = NoEvent
        /\ UNCHANGED <<alive, dead, notifications_queue, used_interfaces,
                       interfaces, messages_to_answer, message_id_pool,
                       pending_events, resuming, doing, panic, emitter>>
    BY <1>2 DEF ApplyExtrinsicAction
  <2>2. OnlyThread(p, n)
    BY <1>0, <2>1, SetThread, MakeThreadStates, Zenon
  <2>3. event' \in Event
    BY <2>1 DEF Event
  <2> QED
    BY <1>0, <2>1, <2>2, <2>3 DEF TypeOK, OnlyThread
<1>3. CASE a.do = "EmitMessage"
  <2> DEFINE e == [st |-> "OtherExtrinsicEmit", iface |-> a.iface, ans |-> a.ans,
                   delay |-> TRUE]
  <2>1. e \in EmitRecord
    BY <1>3, ActionAssumption, Zenon DEF EmitRecord, EmitStates
  <2>2. HandleEmit(p, n, e, q)
    BY <1>3 DEF ApplyExtrinsicAction
  <2> HIDE DEF e
  <2> QED
    BY <2>1, <2>2, HandleEmitType
<1> QED
  BY <1>1, <1>2, <1>3, Zenon DEF ApplyExtrinsicAction

(* What an answer changes. *)
AnswerEffect ==
  /\ messages_to_answer' \in [MessageId -> Emitter \cup {NoPid}]
  /\ notifications_queue' \in [Pid -> Seq(Notification)]
  /\ \A q \in Pid \ alive : notifications_queue'[q] = notifications_queue[q]
  /\ resuming' \in SUBSET Tid
  /\ \A t \in resuming' : thread'[t[1]][t[2]].st \in WaitStates

LEMMA AnswerType ==
  ASSUME TypeOK, resuming = {}, UNCHANGED thread, NEW id \in MessageId,
         NEW ok \in BOOLEAN, AnswerMessageInner(id, ok)
  PROVE  AnswerEffect
<1> DEFINE by == messages_to_answer[id]
<1>1. messages_to_answer' \in [MessageId -> Emitter \cup {NoPid}]
  BY DEF TypeOK, AnswerMessageInner, RemoveEntry
<1>2. CASE by \in alive
  <2>1. PICK size \in Size : Push(by, Response(id, ok, size))
    BY <1>2 DEF AnswerMessageInner
  <2>2. Response(id, ok, size) \in Notification /\ by \in Pid
    BY <1>2, MakeNotifications DEF TypeOK
  <2>3. /\ OnlyQueue(by)
        /\ resuming' \in SUBSET Tid
        /\ \A t \in resuming' : thread'[t[1]][t[2]].st \in WaitStates
    BY <2>1, <2>2, PushType DEF TypeOK
  <2> QED
    BY <1>1, <1>2, <2>3 DEF AnswerEffect, OnlyQueue
<1>3. CASE by \notin alive
  BY <1>1, <1>3 DEF AnswerMessageInner, AnswerEffect, TypeOK
<1> QED
  BY <1>2, <1>3

LEMMA ThreadStepType ==
  ASSUME TypeOK, NEW p \in Pid, NEW n \in ThreadIndex, ThreadStep(p, n)
  PROVE  TypeOK'
<1>0. Scheduled(p, n)
  BY Zenon DEF ThreadStep, ThreadWaitNotification, ThreadEmitMessage, ThreadOtherExtrinsic,
         ThreadEmitAnswer, ThreadCancelMessage, ThreadFinished, ProcessFinished
<1>1. /\ p \in alive /\ Quiet /\ resuming = {} /\ doing.op = "none"
      /\ local_run_queue \in Seq(Tid)
  BY <1>0, MakeHandlers DEF Scheduled, Quiet, TypeOK
<1>2. ASSUME NEW ids \in SUBSET WaitableIds(p), NEW size \in Size,
             NEW block \in BOOLEAN, ThreadWaitNotification(p, n, ids, size, block)
      PROVE  TypeOK'
  <2> DEFINE w == [st |-> "NotificationWait", ids |-> ids, size |-> size,
                   block |-> block]
  <2>1. WaitableIds(p) \subseteq MessageId
    BY BoundAssumption DEF WaitableIds, InterfaceMsg, MessageId
  <2>2. w \in WaitRecord
    BY <2>1 DEF WaitRecord, WaitStates
  <2>3. TryResumeThread(p, n, w)
    BY <1>2 DEF ThreadWaitNotification
  <2>4. /\ OnlyThread(p, n)
        /\ OnlyQueue(p)
        /\ local_run_queue' \in Seq(Tid)
        /\ panic' \in Panic
    BY <2>2, <2>3, TryResumeType
  <2>5. event' \in Event
    BY <1>2 DEF ThreadWaitNotification, Event
  <2>6. resuming' = {} /\ \A t \in resuming' : thread'[t[1]][t[2]].st \in WaitStates
    BY <1>1, <1>2 DEF ThreadWaitNotification
  <2>7. UNCHANGED <<alive, dead, used_interfaces, interfaces, messages_to_answer,
                    message_id_pool, pending_events, doing, emitter>>
    BY <1>2, Zenon DEF ThreadWaitNotification
  <2>8. /\ thread' \in [Pid -> [ThreadIndex -> ThreadState]]
        /\ \A o \in Pid \ alive, m \in ThreadIndex : thread'[o][m] = NoThread
        /\ notifications_queue' \in [Pid -> Seq(Notification)]
        /\ \A o \in Pid \ alive : notifications_queue'[o] = <<>>
    BY <1>1, <2>4, ThreadResidue, QueueResidue DEF OnlyThread, OnlyQueue
  <2> QED
    BY <1>1, <2>4, <2>5, <2>6, <2>7, <2>8, Zenon DEF TypeOK
<1>3. ASSUME NEW i \in Interface, NEW ans \in BOOLEAN, NEW delay \in BOOLEAN,
             ThreadEmitMessage(p, n, i, ans, delay)
      PROVE  TypeOK'
  <2> DEFINE e == [st |-> "EmitMessage", iface |-> i, ans |-> ans, delay |-> delay]
  <2>1. e \in EmitRecord
    BY DEF EmitRecord, EmitStates
  <2>2. HandleEmit(p, n, e, local_run_queue)
    BY <1>3 DEF ThreadEmitMessage
  <2> HIDE DEF e
  <2> QED
    BY <1>1, <2>1, <2>2, HandleEmitType
<1>4. ASSUME NEW a \in Action, ThreadOtherExtrinsic(p, n, a)
      PROVE  TypeOK'
  BY <1>1, <1>4, ApplyExtrinsicActionType DEF ThreadOtherExtrinsic
<1>5. ASSUME NEW id \in DrawnIds, NEW ok \in BOOLEAN, ThreadEmitAnswer(p, n, id, ok)
      PROVE  TypeOK'
  <2>1. id \in MessageId /\ AnswerMessageInner(id, ok) /\ UNCHANGED thread
    BY <1>5 DEF ThreadEmitAnswer, DrawnIds
  <2>2. AnswerEffect
    BY <1>1, <2>1, AnswerType
  <2>3. event' \in Event
    BY <1>5, <2>1, Zenon DEF ThreadEmitAnswer, Event
  <2> QED
    BY <1>1, <1>5, <2>2, <2>3 DEF TypeOK, ThreadEmitAnswer, AnswerEffect
<1>6. ASSUME NEW id \in DrawnIds, ThreadCancelMessage(p, n, id)
      PROVE  TypeOK'
  BY <1>6, Zenon DEF TypeOK, ThreadCancelMessage, DrawnIds, RemoveEntry, Event
<1>7. CASE ThreadFinished(p, n)
  BY <1>7, Zenon DEF TypeOK, ThreadFinished, Panic
<1>8. CASE ProcessFinished(p, n)
  <2>1. thread' \in [Pid -> [ThreadIndex -> ThreadState]]
        /\ \A m \in ThreadIndex : thread'[p][m] = NoThread
        /\ \A q \in Pid : q # p => thread'[q] = thread[q]
    BY <1>8, MakeThreadStates DEF TypeOK, ProcessFinished
  <2>2. doing' \in Handler /\ event' \in Event
    BY <1>8, Zenon DEF TypeOK, ProcessFinished, Handler, Event
  <2>3. /\ notifications_queue' \in [Pid -> Seq(Notification)]
        /\ notifications_queue'[p] = <<>>
        /\ \A q \in Pid : q # p => notifications_queue'[q] = notifications_queue[q]
    BY <1>8 DEF TypeOK, ProcessFinished
  <2>4. /\ used_interfaces' \in [Pid -> SUBSET Interface]
        /\ used_interfaces'[p] = {}
        /\ \A q \in Pid : q # p => used_interfaces'[q] = used_interfaces[q]
    BY <1>8 DEF TypeOK, ProcessFinished
  <2>5. /\ alive' \in SUBSET Pid /\ dead' \in SUBSET Pid /\ alive' \cap dead' = {}
        /\ \A q \in Pid \ alive' : q = p \/ q \in Pid \ alive
    BY <1>8 DEF TypeOK, ProcessFinished
  <2>6. ASSUME NEW q \in Pid \ alive'
        PROVE  /\ \A m \in ThreadIndex : thread'[q][m] = NoThread
               /\ notifications_queue'[q] = <<>>
               /\ used_interfaces'[q] = {}
    <3>1. CASE q = p
      BY <2>1, <2>3, <2>4, <3>1
    <3>2. CASE q # p
      <4>1. q \in Pid \ alive
        BY <2>5, <2>6, <3>2
      <4>2. thread'[q] = thread[q] /\ notifications_queue'[q] = notifications_queue[q]
            /\ used_interfaces'[q] = used_interfaces[q]
        BY <2>1, <2>3, <2>4, <3>2
      <4> QED
        BY <4>1, <4>2, Zenon DEF TypeOK
    <3> QED
      BY <3>1, <3>2
  <2>7. resuming' = {} /\ \A t \in resuming' : thread'[t[1]][t[2]].st \in WaitStates
    BY <1>1, <1>8 DEF ProcessFinished
  <2>8. UNCHANGED <<interfaces, messages_to_answer, message_id_pool, pending_events,
                    local_run_queue, panic, emitter>>
    BY <1>8, Zenon DEF ProcessFinished
  <2> QED
    BY <2>1, <2>2, <2>3, <2>4, <2>5, <2>6, <2>7, <2>8, Zenon DEF TypeOK
<1> QED
  BY <1>2, <1>3, <1>4, <1>5, <1>6, <1>7, <1>8 DEF ThreadStep

LEMMA PopLocalRunQueueType == TypeOK /\ PopLocalRunQueue => TypeOK'
<1> SUFFICES ASSUME TypeOK, PopLocalRunQueue PROVE TypeOK'
  OBVIOUS
<1> DEFINE p == Head(local_run_queue)[1]
           n == Head(local_run_queue)[2]
           q == Tail(local_run_queue)
<1>0. local_run_queue \in Seq(Tid) /\ local_run_queue # <<>> /\ Quiet
  BY Zenon DEF PopLocalRunQueue, TypeOK
<1>5. p \in Pid /\ n \in ThreadIndex /\ q \in Seq(Tid)
  BY <1>0, FirstThread
<1>1. /\ p \in Pid /\ n \in ThreadIndex /\ q \in Seq(Tid)
      /\ thread[p][n] \in ThreadState
  BY <1>5 DEF TypeOK
<1> HIDE DEF p, n, q
<1>2. CASE /\ local_run_queue' = q
           /\ event' = NoEvent
           /\ UNCHANGED <<alive, dead, thread, notifications_queue,
                          used_interfaces, interfaces, messages_to_answer,
                          message_id_pool, pending_events, resuming, doing,
                          panic, emitter>>
  BY <1>1, <1>2, Zenon DEF TypeOK, Event
<1>3. CASE /\ thread[p][n].st = "OtherExtrinsicApplyAction"
           /\ ApplyExtrinsicAction(p, n, thread[p][n].action, q)
  <2>1. thread[p][n].action \in Action
    BY <1>1, <1>3, ThreadStates DEF ApplyRecord
  <2>2. p \in alive
    <3>1. p \notin alive => thread[p][n] = NoThread
      BY <1>1, Zenon DEF TypeOK
    <3> QED
      BY <1>3, <3>1 DEF NoThread
  <2> QED
    BY <1>0, <1>1, <1>3, <2>1, <2>2, ApplyExtrinsicActionType
<1>4. CASE /\ panic' = "queued thread has no action"
           /\ UNCHANGED <<alive, dead, thread, notifications_queue,
                          used_interfaces, interfaces, messages_to_answer,
                          message_id_pool, pending_events, local_run_queue,
                          event, resuming, doing, emitter>>
  BY <1>4, Zenon DEF TypeOK, Panic
<1> QED
  BY <1>2, <1>3, <1>4, Zenon DEF PopLocalRunQueue, p, n, q

LEMMA NotifyHandlerType == TypeOK /\ NotifyHandler => TypeOK'
<1> SUFFICES ASSUME TypeOK, NotifyHandler PROVE TypeOK'
  OBVIOUS
<1>1. resuming = {} /\ UNCHANGED thread /\ doing \in FinishRecord
  BY Handlers, Zenon DEF NotifyHandler, TypeOK
<1>2. PICK i \in doing.todo :
       \/ /\ panic' = "used interface is vacant"
          /\ UNCHANGED <<doing, notifications_queue, resuming>>
       \/ /\ interfaces[i].pid \in alive
          /\ NextInterface(i)
          /\ Push(interfaces[i].pid, ProcessDestroyed(doing.pid))
          /\ UNCHANGED panic
       \/ /\ NextInterface(i)
          /\ UNCHANGED <<notifications_queue, resuming, panic>>
  BY Zenon DEF NotifyHandler
<1>6. /\ doing.pid \in Pid /\ doing.op = "finish" /\ i \in Interface
      /\ NextInterface(i) => doing' \in FinishRecord
  BY <1>1, MakeHandlers DEF FinishRecord, NextInterface
<1>7. /\ NextInterface(i) => doing' \in Handler /\ doing'.op = "finish"
      /\ UNCHANGED <<alive, dead, used_interfaces, interfaces, messages_to_answer,
                     message_id_pool, pending_events, local_run_queue, event,
                     emitter>>
  BY <1>6, MakeHandlers, Zenon DEF NotifyHandler
<1>3. CASE /\ panic' = "used interface is vacant"
           /\ UNCHANGED <<doing, notifications_queue, resuming>>
  BY <1>1, <1>3, <1>7, Zenon DEF TypeOK, Panic
<1>4. CASE /\ interfaces[i].pid \in alive
           /\ NextInterface(i)
           /\ Push(interfaces[i].pid, ProcessDestroyed(doing.pid))
           /\ UNCHANGED panic
  <2> DEFINE h == interfaces[i].pid
  <2>1. h \in Pid /\ ProcessDestroyed(doing.pid) \in Notification
    BY <1>4, <1>6, MakeNotifications DEF TypeOK
  <2>2. /\ OnlyQueue(h)
        /\ resuming' \in SUBSET Tid
        /\ \A t \in resuming' : thread'[t[1]][t[2]].st \in WaitStates
    BY <1>1, <1>4, <2>1, PushType, Zenon DEF TypeOK
  <2> QED
    BY <1>1, <1>4, <1>7, <2>2, Zenon DEF TypeOK, OnlyQueue
<1>5. CASE /\ NextInterface(i)
           /\ UNCHANGED <<notifications_queue, resuming, panic>>
  BY <1>1, <1>5, <1>7 DEF TypeOK
<1> QED
  BY <1>2, <1>3, <1>4, <1>5, Zenon

LEMMA WakeSleepingThreadType == TypeOK /\ WakeSleepingThread => TypeOK'
<1> SUFFICES ASSUME TypeOK, WakeSleepingThread PROVE TypeOK'
  OBVIOUS
<1> DEFINE p == Head(doing.threads)[1]
           n == Head(doing.threads)[2]
           e == thread[p][n]
<1>0. doing.op = "register" /\ doing.threads # <<>>
  BY Zenon DEF WakeSleepingThread
<1>1. /\ resuming = {} /\ doing \in RegisterRecord /\ doing.iface \in Interface
      /\ p \in Pid /\ p \in Emitter /\ n \in ThreadIndex /\ e \in ThreadState
  BY <1>0, FirstSleeper
<1>5. [doing EXCEPT !.threads = Tail(@)] \in Handler
  BY <1>0, <1>1, MakeRegister, MakeHandlers
<1>6. UNCHANGED <<alive, dead, used_interfaces, interfaces, event, resuming>>
  BY Zenon DEF WakeSleepingThread
<1> HIDE DEF p, n, e
<1>3. CASE e.st \in EmitStates
  <2>1. PICK id \in MessageId, size \in Size :
          /\ AssignId(e.ans, p, id)
          /\ AcceptEmit(p, n, e, id, local_run_queue)
          /\ \/ /\ doing.pid \in alive
                /\ notifications_queue' =
                     [notifications_queue EXCEPT ![doing.pid] =
                        Append(@, InterfaceMessage(doing.iface, id, p, size))]
                /\ UNCHANGED pending_events
             \/ /\ doing.pid \notin alive
                /\ pending_events' =
                     Append(pending_events, ReservedPidMessage(p, id, doing.iface))
                /\ UNCHANGED notifications_queue
    BY <1>3, Zenon DEF WakeSleepingThread, p, n, e
  <2>2. e \in EmitRecord /\ e.ans \in BOOLEAN /\ p \in alive
    BY <1>1, <1>3, ThreadStates DEF EmitRecord, TypeOK, NoThread, EmitStates, e
  <2>3. /\ messages_to_answer' \in [MessageId -> Emitter \cup {NoPid}]
        /\ message_id_pool' \in 0..(MaxId + 1)
        /\ emitter' \in [MessageId -> Emitter \cup {NoPid}]
    BY <1>1, <2>1, <2>2, AssignIdType
  <2>4. local_run_queue \in Seq(Tid)
    BY DEF TypeOK
  <2>5. OnlyThread(p, n) /\ local_run_queue' \in Seq(Tid)
    BY <1>1, <2>1, <2>2, <2>4, AcceptEmitType
  <2>6. /\ InterfaceMessage(doing.iface, id, p, size) \in Notification
        /\ ReservedPidMessage(p, id, doing.iface) \in PendingEvent
    BY <1>1, MakeNotifications DEF PendingEvent, ReservedPidMessage
  <2>10. /\ thread' \in [Pid -> [ThreadIndex -> ThreadState]]
         /\ \A q \in Pid \ alive, m \in ThreadIndex : thread'[q][m] = NoThread
         /\ local_run_queue' \in Seq(Tid)
    BY <1>1, <2>2, <2>5, ThreadResidue DEF OnlyThread
  <2>9. doing' \in Handler /\ UNCHANGED panic
    <3>1. doing' = [doing EXCEPT !.threads = Tail(@)] /\ UNCHANGED panic
      BY <1>3, Zenon DEF WakeSleepingThread, p, n, e
    <3> QED
      BY <1>5, <3>1
  <2>7. CASE doing.pid \in alive
    <3>0. notifications_queue[doing.pid] \in Seq(Notification)
      BY <2>7 DEF TypeOK
    <3>1. Append(notifications_queue[doing.pid],
                 InterfaceMessage(doing.iface, id, p, size)) \in Seq(Notification)
      BY <2>6, <3>0, AppendProperties
    <3>2. /\ notifications_queue' \in [Pid -> Seq(Notification)]
          /\ \A q \in Pid \ alive : notifications_queue'[q] = notifications_queue[q]
          /\ UNCHANGED pending_events
      BY <2>1, <2>7, <3>1, ZenonT(30) DEF TypeOK
    <3> QED
      BY <1>1, <1>6, <2>3, <2>10, <2>9, <3>2 DEF TypeOK
  <2>8. CASE doing.pid \notin alive
    <3>1. pending_events' \in Seq(PendingEvent) /\ UNCHANGED notifications_queue
      <4>1. pending_events \in Seq(PendingEvent)
        BY DEF TypeOK
      <4>2. /\ pending_events' =
                 Append(pending_events, ReservedPidMessage(p, id, doing.iface))
            /\ UNCHANGED notifications_queue
        BY <2>1, <2>8
      <4> QED
        BY <2>6, <4>1, <4>2, AppendProperties
    <3> QED
      BY <1>1, <1>6, <2>3, <2>10, <2>9, <3>1, SMTT(30) DEF TypeOK
  <2> QED
    BY <2>7, <2>8
<1>4. CASE e.st \notin EmitStates
  <2>1. /\ panic' = "sleeping thread is gone"
        /\ UNCHANGED <<thread, notifications_queue, messages_to_answer,
                       message_id_pool, pending_events, local_run_queue,
                       doing, emitter>>
    BY <1>4, Zenon DEF WakeSleepingThread, p, n, e
  <2> QED
    BY <1>6, <2>1, Zenon DEF TypeOK, Panic
<1> QED
  BY <1>3, <1>4

LEMMA HandlerRegisteredType == TypeOK /\ HandlerRegistered => TypeOK'
<1> SUFFICES ASSUME TypeOK, HandlerRegistered PROVE TypeOK'
  OBVIOUS
<1>1. /\ resuming' \in SUBSET Tid
      /\ \A t \in resuming' : thread[t[1]][t[2]].st \in WaitStates
  BY DEF TypeOK, HandlerRegistered, WaitingThreads, Tid
<1>2. /\ doing' \in Handler /\ doing'.op = "none"
      /\ UNCHANGED <<alive, dead, thread, notifications_queue, used_interfaces,
                     interfaces, messages_to_answer, message_id_pool,
                     pending_events, local_run_queue, event, panic, emitter>>
  BY MakeHandlers DEF HandlerRegistered
<1> QED
  BY <1>1, <1>2 DEF TypeOK

LEMMA ProgramFinishedType == TypeOK /\ ProgramFinished => TypeOK'
<1> SUFFICES ASSUME TypeOK, ProgramFinished PROVE TypeOK'
  OBVIOUS
<1>1. doing \in FinishRecord
  BY Handlers, Zenon DEF TypeOK, ProgramFinished
<1>2. /\ doing' \in Handler /\ doing'.op = "none"
      /\ event' \in Event
  BY <1>1, MakeHandlers DEF ProgramFinished, Event, FinishRecord
<1> QED
  BY <1>2 DEF TypeOK, ProgramFinished

LEMMA PopEventType == TypeOK /\ PopEvent => TypeOK'
<1> SUFFICES ASSUME TypeOK, PopEvent PROVE TypeOK'
  OBVIOUS
<1>1. pending_events \in Seq(PendingEvent) /\ pending_events # <<>>
  BY DEF TypeOK, PopEvent
<1>2. event' \in PendingEvent /\ pending_events' \in Seq(PendingEvent)
  BY <1>1, HeadTailProperties DEF PopEvent
<1>3. event' \in Event
  BY <1>2 DEF Event
<1> QED
  BY <1>2, <1>3 DEF TypeOK, PopEvent

LEMMA RunIdleType == TypeOK /\ RunIdle => TypeOK'
  BY Zenon DEF TypeOK, RunIdle, Event

LEMMA StartType ==
  ASSUME TypeOK, NEW p \in Pid, NEW n \in ThreadIndex,
         \/ n = 1 /\ Execute(p)
         \/ StartThread(p, n)
  PROVE  TypeOK'
<1>1. OnlyThread(p, n)
  BY SetThread, MakeThreadStates DEF Execute, StartThread
<1>2. /\ UNCHANGED <<dead, notifications_queue, used_interfaces, interfaces,
                     messages_to_answer, message_id_pool, pending_events,
                     local_run_queue, event, resuming, doing, panic, emitter>>
      /\ resuming = {}
      /\ alive' = alive \cup {p} /\ alive' \cap dead = {}
  <2>1. CASE Execute(p)
    BY <2>1 DEF Execute, Embedder, Quiet, TypeOK
  <2>2. CASE StartThread(p, n)
    <3>1. p \in alive /\ alive' = alive /\ alive \cap dead = {} /\ resuming = {}
      BY <2>2, Zenon DEF StartThread, Embedder, Quiet, TypeOK
    <3> QED
      BY <2>2, <3>1 DEF StartThread
  <2> QED
    BY <2>1, <2>2
<1>3. ASSUME NEW q \in Pid \ alive'
      PROVE  /\ \A m \in ThreadIndex : thread'[q][m] = NoThread
             /\ notifications_queue'[q] = <<>>
             /\ used_interfaces'[q] = {}
  <2>1. q \in Pid \ alive /\ q # p
    BY <1>2, <1>3
  <2>2. \A m \in ThreadIndex : thread'[q][m] = thread[q][m]
    BY <1>1, <2>1 DEF OnlyThread
  <2> QED
    BY <1>2, <2>1, <2>2, Zenon DEF TypeOK
<1>4. alive' \in SUBSET Pid
  BY <1>2 DEF TypeOK
<1> QED
  BY <1>1, <1>2, <1>3, <1>4, Zenon DEF TypeOK, OnlyThread

LEMMA SetInterfaceHandlerType ==
  ASSUME TypeOK, NEW i \in Interface, NEW p \in Emitter, SetInterfaceHandler(i, p)
  PROVE  TypeOK'
<1>1. /\ interfaces' \in [Interface -> InterfaceState]
      /\ resuming = {} /\ panic = "none" /\ doing.op = "none"
  BY MakeInterfaceStates, MakeHandlers, Zenon
     DEF TypeOK, SetInterfaceHandler, Embedder, Quiet
<1>2. UNCHANGED <<alive, dead, thread, used_interfaces, messages_to_answer,
                  message_id_pool, pending_events, local_run_queue, event,
                  resuming, emitter>>
  BY Zenon DEF SetInterfaceHandler
<1>3. CASE interfaces[i] = Vacant
  <2>1. UNCHANGED <<notifications_queue, doing, panic>>
    BY <1>3 DEF SetInterfaceHandler, Vacant
  <2> QED
    BY <1>1, <1>2, <2>1, Zenon DEF TypeOK
<1>4. CASE interfaces[i].st = "Requested"
  <2> DEFINE other == interfaces[i].other
             sent == [k \in 1..Len(other) |->
                        InterfaceMessage(i, other[k].id, other[k].from, other[k].size)]
  <2>1. /\ interfaces[i].threads \in Seq(Tid) /\ other \in Seq(Buffered)
        /\ interfaces[i] # Vacant
    BY <1>4, RequestedLists
  <2>2. doing' \in Handler
    <3>1. doing' = [op |-> "register", iface |-> i, pid |-> p,
                    threads |-> interfaces[i].threads]
      BY <2>1, Zenon DEF SetInterfaceHandler
    <3>2. doing' \in RegisterRecord
      BY <2>1, <3>1 DEF RegisterRecord
    <3> QED
      BY <3>2, MakeHandlers
  <2>3. panic' \in Panic
    BY <1>1, <2>1, Zenon DEF SetInterfaceHandler, Panic
  <2>4. sent \in Seq(Notification)
    <3>1. \A k \in 1..Len(other) :
            InterfaceMessage(i, other[k].id, other[k].from, other[k].size)
              \in Notification
      <4>1. ASSUME NEW m \in Buffered
            PROVE  m.id \in MessageId /\ m.from \in Emitter /\ m.size \in Size
        BY DEF Buffered, Emitter
      <4>2. \A k \in 1..Len(other) : other[k] \in Buffered
        BY <2>1
      <4> HIDE DEF other
      <4> QED
        BY <4>1, <4>2, MakeNotifications
    <3>2. Len(other) \in Nat
      BY <2>1
    <3> HIDE DEF other
    <3> QED
      BY <3>1, <3>2, IsASeq
  <2>5. CASE p \in alive
    <3>1. /\ p \in Pid
          /\ notifications_queue' = [notifications_queue EXCEPT ![p] = @ \o sent]
      BY <2>1, <2>5, Zenon DEF TypeOK, SetInterfaceHandler
    <3> HIDE DEF sent
    <3>2. notifications_queue[p] \o sent \in Seq(Notification)
      BY <2>4, <3>1, ConcatProperties DEF TypeOK
    <3>3. OnlyQueue(p)
      BY <3>1, <3>2 DEF TypeOK, OnlyQueue
    <3> QED
      BY <1>1, <1>2, <2>2, <2>3, <2>5, <3>3 DEF TypeOK, OnlyQueue
  <2>6. CASE p \notin alive
    <3>1. UNCHANGED notifications_queue
      BY <2>1, <2>6, Zenon DEF SetInterfaceHandler
    <3> QED
      BY <1>1, <1>2, <2>2, <2>3, <3>1 DEF TypeOK
  <2> QED
    BY <2>5, <2>6
<1> QED
  BY <1>3, <1>4, Zenon DEF SetInterfaceHandler

LEMMA EmitInterfaceMessageType ==
  ASSUME TypeOK, NEW r \in ReservedPid, NEW i \in Interface, NEW ans \in BOOLEAN,
         EmitInterfaceMessage(r, i, ans)
  PROVE  TypeOK'
<1>1. /\ resuming = {} /\ doing.op = "none"
      /\ r \in Emitter
      /\ interfaces[i] \in InterfaceState
      /\ UNCHANGED <<alive, dead, thread, used_interfaces, local_run_queue, event,
                     doing, panic>>
  BY MakeHandlers DEF EmitInterfaceMessage, Embedder, Quiet, TypeOK, Emitter
<1>2. CASE interfaces[i].st # "Process"
  <2>1. PICK id \in MessageId, size \in Size :
          /\ IF ans THEN DrawId(r, id)
                    ELSE id = NoMessage /\ UNCHANGED <<message_id_pool, emitter>>
          /\ interfaces' = [interfaces EXCEPT ![i] =
               IF @ = Vacant
               THEN Requested(<<>>, <<[from |-> r, id |-> id, size |-> size]>>)
               ELSE Requested(@.threads,
                              Append(@.other, [from |-> r, id |-> id, size |-> size]))]
          /\ UNCHANGED <<notifications_queue, messages_to_answer, pending_events,
                         resuming>>
    BY <1>2, Zenon DEF EmitInterfaceMessage
  <2> DEFINE m == [from |-> r, id |-> id, size |-> size]
  <2>2. m \in Buffered
    BY DEF Buffered
  <2>3. /\ message_id_pool' \in 0..(MaxId + 1)
        /\ emitter' \in [MessageId -> Emitter \cup {NoPid}]
    <3>1. CASE ans
      <4>1. id \in 0..MaxId /\ message_id_pool' = id + 1
        BY <2>1, <3>1 DEF DrawId, MessageId
      <4>2. message_id_pool' \in 0..(MaxId + 1)
        BY <4>1, BoundAssumption
      <4> QED
        BY <1>1, <2>1, <3>1, <4>2, Zenon DEF TypeOK, DrawId
    <3>2. CASE ~ ans
      BY <2>1, <3>2, Zenon DEF TypeOK
    <3> QED
      BY <3>1, <3>2
  <2> HIDE DEF m
  <2>4. interfaces[i] = Vacant => Requested(<<>>, <<m>>) \in InterfaceState
    <3>1. <<m>> \in Seq(Buffered) /\ <<>> \in Seq(Tid)
      BY <2>2
    <3> QED
      BY <3>1, MakeInterfaceStates, Zenon
  <2>5. interfaces[i] # Vacant
          => Requested(interfaces[i].threads, Append(interfaces[i].other, m))
               \in InterfaceState
    <3>1. SUFFICES ASSUME interfaces[i] # Vacant
                   PROVE  Requested(interfaces[i].threads,
                                    Append(interfaces[i].other, m)) \in InterfaceState
      OBVIOUS
    <3>2. interfaces[i].threads \in Seq(Tid) /\ interfaces[i].other \in Seq(Buffered)
      BY <1>1, <1>2, <3>1, InterfaceStates, Zenon DEF RequestedRecord
    <3>3. Append(interfaces[i].other, m) \in Seq(Buffered)
      BY <2>2, <3>2
    <3> QED
      BY <3>2, <3>3, MakeInterfaceStates, Zenon
  <2>6. interfaces' \in [Interface -> InterfaceState]
    BY <2>1, <2>4, <2>5, Zenon DEF TypeOK, m
  <2> QED
    BY <1>1, <2>1, <2>3, <2>6, Zenon DEF TypeOK
<1>3. CASE interfaces[i].st = "Process"
  <2>1. PICK id \in MessageId, size \in Size :
          /\ AssignId(ans, r, id)
          /\ UNCHANGED interfaces
          /\ \/ /\ interfaces[i].pid \in alive
                /\ Push(interfaces[i].pid, InterfaceMessage(i, id, r, size))
                /\ UNCHANGED pending_events
             \/ /\ interfaces[i].pid \notin alive
                /\ pending_events' =
                     Append(pending_events, ReservedPidMessage(r, NoMessage, i))
                /\ UNCHANGED <<notifications_queue, resuming>>
    BY <1>3, Zenon DEF EmitInterfaceMessage
  <2>2. /\ messages_to_answer' \in [MessageId -> Emitter \cup {NoPid}]
        /\ message_id_pool' \in 0..(MaxId + 1)
        /\ emitter' \in [MessageId -> Emitter \cup {NoPid}]
    BY <1>1, <2>1, AssignIdType
  <2>3. /\ InterfaceMessage(i, id, r, size) \in Notification
        /\ ReservedPidMessage(r, NoMessage, i) \in PendingEvent
    BY <1>1, MakeNotifications, BoundAssumption
       DEF PendingEvent, ReservedPidMessage, MessageId, NoMessage
  <2>4. CASE interfaces[i].pid \in alive
    <3>1. interfaces[i].pid \in Pid
      BY <2>4, Zenon DEF TypeOK
    <3>2. /\ OnlyQueue(interfaces[i].pid)
          /\ resuming' \in SUBSET Tid
          /\ \A t \in resuming' : thread'[t[1]][t[2]].st \in WaitStates
          /\ UNCHANGED pending_events
      BY <1>1, <2>1, <2>3, <2>4, <3>1, PushType, Zenon DEF TypeOK
    <3> QED
      BY <1>1, <2>1, <2>2, <2>4, <3>2, Zenon DEF TypeOK, OnlyQueue
  <2>5. CASE interfaces[i].pid \notin alive
    <3>1. pending_events' \in Seq(PendingEvent)
      <4>1. pending_events \in Seq(PendingEvent)
        BY DEF TypeOK
      <4>2. pending_events' = Append(pending_events, ReservedPidMessage(r, NoMessage, i))
        BY <2>1, <2>5
      <4> QED
        BY <2>3, <4>1, <4>2, AppendProperties
    <3> QED
      BY <1>1, <2>1, <2>2, <2>5, <3>1, Zenon DEF TypeOK
  <2> QED
    BY <2>4, <2>5
<1> QED
  BY <1>2, <1>3

LEMMA AnswerMessageType ==
  ASSUME TypeOK, NEW id \in DrawnIds, NEW ok \in BOOLEAN, AnswerMessage(id, ok)
  PROVE  TypeOK'
<1>1. /\ id \in MessageId /\ resuming = {} /\ doing.op = "none"
      /\ AnswerMessageInner(id, ok) /\ UNCHANGED thread
  BY MakeHandlers DEF AnswerMessage, DrawnIds, Embedder, Quiet
<1>2. AnswerEffect
  BY <1>1, AnswerType
<1>3. UNCHANGED <<alive, dead, used_interfaces, interfaces, message_id_pool,
                  pending_events, local_run_queue, event, doing, panic, emitter>>
  BY DEF AnswerMessage
<1> QED
  BY <1>1, <1>2, <1>3 DEF TypeOK, AnswerEffect

(* The state of the core is well typed and a process that is removed leaves *)
(* no thread, queue or list behind, whatever its threads, the handlers and  *)
(* the owner of the core do (run_inner, the API functions).                 *)
THEOREM TypeCorrect == Spec => []TypeOK
<1>1. Init => TypeOK
  BY MakeThreadStates, MakeInterfaceStates, MakeHandlers, BoundAssumption
     DEF Init, TypeOK, Event, Panic
<1>2. TypeOK /\ [Next]_vars => TypeOK'
  <2> SUFFICES ASSUME TypeOK, [Next]_vars PROVE TypeOK'
    OBVIOUS
  <2>1. CASE UNCHANGED vars
    BY <2>1 DEF TypeOK, vars
  <2>2. CASE Run
    BY <2>2, PopEventType, PopLocalRunQueueType, RunIdleType, ThreadStepType,
       ResumeNextType, NotifyHandlerType, ProgramFinishedType,
       WakeSleepingThreadType, HandlerRegisteredType DEF Run
  <2>3. CASE Api
    <3>1. 1 \in ThreadIndex
      BY BoundAssumption DEF ThreadIndex
    <3> QED
      BY <2>3, <3>1, StartType, SetInterfaceHandlerType, EmitInterfaceMessageType,
         AnswerMessageType DEF Api
  <2> QED
    BY <2>1, <2>2, <2>3 DEF Next, Stopped
<1> QED
  BY <1>1, <1>2, PTL DEF Spec
=============================================================================
