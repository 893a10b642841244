------------------------- MODULE CoreNotifyProofs -------------------------
(***************************************************************************)
(* Core delivers: a response reaches the process that emitted the message, *)
(* once, and no thread goes on waiting for a notification that is there.   *)
(*                                                                         *)
(* Neither ResponseOnce nor NoMissedNotification is inductive.  The first  *)
(* needs to know that the pool never draws an id that is still in use, and *)
(* that the entry of a message names its emitter (IdsDrawn).  The second   *)
(* speaks of the states between two handlers; inside a handler the threads *)
(* that overlook a notification are those still to be visited (NoOverlook).*)
(***************************************************************************)
EXTENDS CoreProofs

(* Ids with an emitter were drawn, so they are below the pool's next id and *)
(* not reserved; a message to answer is recorded under its emitter.         *)
IdsDrawn ==
  \A id \in MessageId :
    /\ emitter[id] # NoPid => id \in 2..(message_id_pool - 1)
    /\ messages_to_answer[id] # NoPid => emitter[id] = messages_to_answer[id]

(* A thread that overlooks a notification is about to be visited. *)
NoOverlook ==
  panic = "none" =>
    \A p \in Pid, n \in ThreadIndex :
      Overlooks(p, n) => \/ <<p, n>> \in resuming
                         \/ doing.op = "register" /\ doing.pid = p

-----------------------------------------------------------------------------
(* Message ids.                                                            *)

(* A step keeps the emitter of every message drawn before, and makes none   *)
(* of them await an answer again.                                           *)
IdsKept ==
  \A id \in MessageId :
    emitter[id] # NoPid => /\ emitter'[id] = emitter[id]
                           /\ messages_to_answer'[id] \in {messages_to_answer[id], NoPid}

LEMMA DrawIdKeeps ==
  ASSUME TypeOK, IdsDrawn, NEW by \in Emitter, NEW id \in MessageId, DrawId(by, id),
         \/ messages_to_answer' = [messages_to_answer EXCEPT ![id] = by]
         \/ UNCHANGED messages_to_answer
  PROVE  IdsDrawn' /\ IdsKept /\ id \in 2..MaxId /\ emitter[id] = NoPid
<1>1. id \in message_id_pool..MaxId /\ id \notin {0, 1} /\ message_id_pool' = id + 1
  BY DEF DrawId, Drawable
<1>2. message_id_pool \in Nat /\ id \in 2..MaxId /\ id \in Nat
  BY <1>1, BoundAssumption DEF TypeOK
<1>3. emitter[id] = NoPid
  BY <1>1, <1>2 DEF IdsDrawn
<1>4. emitter' = [emitter EXCEPT ![id] = by]
  BY DEF DrawId
<1>5. IdsKept
  BY <1>3, <1>4 DEF IdsKept, TypeOK
<1>6. ASSUME NEW j \in MessageId
      PROVE  /\ emitter'[j] # NoPid => j \in 2..(message_id_pool' - 1)
             /\ messages_to_answer'[j] # NoPid => emitter'[j] = messages_to_answer'[j]
  <2>1. CASE j = id
    BY <1>1, <1>2, <1>3, <1>4, <2>1 DEF IdsDrawn, TypeOK
  <2>2. CASE j # id
    BY <1>1, <1>2, <1>4, <2>2 DEF IdsDrawn, TypeOK
  <2> QED
    BY <2>1, <2>2
<1> QED
  BY <1>2, <1>3, <1>5, <1>6 DEF IdsDrawn

LEMMA AssignIdKeeps ==
  ASSUME TypeOK, IdsDrawn, NEW ans \in BOOLEAN, NEW by \in Emitter,
         NEW id \in MessageId, AssignId(ans, by, id)
  PROVE  /\ IdsDrawn' /\ IdsKept
         /\ ans => id \in 2..MaxId /\ emitter[id] = NoPid
<1>1. CASE ans
  BY <1>1, DrawIdKeeps DEF AssignId
<1>2. CASE ~ ans
  BY <1>2 DEF AssignId, IdsDrawn, IdsKept
<1> QED
  BY <1>1, <1>2

LEMMA RemoveEntryKeeps ==
  ASSUME TypeOK, IdsDrawn, NEW id \in MessageId,
         messages_to_answer' = RemoveEntry(id), UNCHANGED <<emitter, message_id_pool>>
  PROVE  IdsDrawn' /\ IdsKept /\ messages_to_answer'[id] = NoPid
  BY DEF RemoveEntry, IdsDrawn, IdsKept, TypeOK

LEMMA SameIdsKeep ==
  ASSUME IdsDrawn, UNCHANGED <<messages_to_answer, emitter, message_id_pool>>
  PROVE  IdsDrawn' /\ IdsKept
  BY DEF IdsDrawn, IdsKept

-----------------------------------------------------------------------------
(* Responses in a queue.                                                   *)

(* ResponseOnce for the queue q of p, with em the emitters and mta the     *)
(* messages to answer.                                                     *)
OwnResponses(em, mta, p, q) ==
  \A k \in 1..Len(q) :
    q[k].kind = "Response" =>
      /\ em[q[k].id] = p
      /\ mta[q[k].id] = NoPid
      /\ \A j \in 1..Len(q) : (j # k /\ q[j].kind = "Response") => q[j].id # q[k].id

LEMMA ResponseOncePerQueue ==
  ResponseOnce <=>
    \A p \in Pid : OwnResponses(emitter, messages_to_answer, p, notifications_queue[p])
  BY DEF ResponseOnce, OwnResponses

LEMMA ResponseOnceAfter ==
  ASSUME \A p \in Pid :
           OwnResponses(emitter', messages_to_answer', p, notifications_queue'[p])
  PROVE  ResponseOnce'
  BY DEF ResponseOnce, OwnResponses

LEMMA ResponseIds ==
  ASSUME NEW notif \in Notification, notif.kind = "Response"
  PROVE  notif.id \in MessageId
  BY DEF Notification

LEMMA IdsKeptResponses ==
  ASSUME NEW p \in Pid, NEW q \in Seq(Notification), IdsKept,
         OwnResponses(emitter, messages_to_answer, p, q)
  PROVE  OwnResponses(emitter', messages_to_answer', p, q)
<1>1. p # NoPid
  BY PidAssumption
<1>2. \A k \in 1..Len(q) : q[k].kind = "Response" => q[k].id \in MessageId
  BY ResponseIds
<1> QED
  BY <1>1, <1>2 DEF OwnResponses, IdsKept

LEMMA RemoveAtResponses ==
  ASSUME NEW em, NEW mta, NEW p, NEW q \in Seq(Notification), NEW k \in 1..Len(q),
         OwnResponses(em, mta, p, q)
  PROVE  OwnResponses(em, mta, p, RemoveAt(q, k))
<1> DEFINE r == RemoveAt(q, k)
           at(j) == IF j < k THEN j ELSE j + 1
<1>1. Len(q) \in Nat /\ Len(r) = Len(q) - 1
  BY RemoveAtType
<1>2. \A j \in 1..Len(r) : at(j) \in 1..Len(q) /\ r[j] = q[at(j)]
  BY <1>1 DEF RemoveAt
<1>3. \A i, j \in 1..Len(r) : i # j => at(i) # at(j)
  BY <1>1
<1> HIDE DEF r, at
<1>4. OwnResponses(em, mta, p, r)
  <2>1. ASSUME NEW i \in 1..Len(r), r[i].kind = "Response"
        PROVE  /\ em[r[i].id] = p
               /\ mta[r[i].id] = NoPid
               /\ \A j \in 1..Len(r) : (j # i /\ r[j].kind = "Response") => r[j].id # r[i].id
    <3>1. at(i) \in 1..Len(q) /\ r[i] = q[at(i)]
      BY <1>2
    <3>2. /\ em[r[i].id] = p
          /\ mta[r[i].id] = NoPid
          /\ \A j \in 1..Len(q) :
               (j # at(i) /\ q[j].kind = "Response") => q[j].id # r[i].id
      BY <2>1, <3>1, Zenon DEF OwnResponses
    <3> QED
      BY <1>2, <1>3, <3>2, Zenon
  <2> QED
    BY <2>1, Zenon DEF OwnResponses
<1> QED
  BY <1>4 DEF r

(* Nothing but messages of interfaces and destructions is added. *)
LEMMA ConcatResponses ==
  ASSUME NEW em, NEW mta, NEW p, NEW q \in Seq(Notification), NEW s \in Seq(Notification),
         OwnResponses(em, mta, p, q), \A k \in 1..Len(s) : s[k].kind # "Response"
  PROVE  OwnResponses(em, mta, p, q \o s)
<1> DEFINE r == q \o s
<1>1. /\ Len(q) \in Nat /\ Len(s) \in Nat /\ Len(r) = Len(q) + Len(s)
      /\ \A k \in 1..Len(r) : r[k] = IF k <= Len(q) THEN q[k] ELSE s[k - Len(q)]
  BY ConcatProperties
<1>2. ASSUME NEW k \in 1..Len(r), r[k].kind = "Response"
      PROVE  k \in 1..Len(q) /\ r[k] = q[k]
  BY <1>1, <1>2
<1> HIDE DEF r
<1>3. OwnResponses(em, mta, p, r)
  BY <1>2, SMTT(30) DEF OwnResponses
<1> QED
  BY <1>3 DEF r

LEMMA AppendResponses ==
  ASSUME NEW em, NEW mta, NEW p, NEW q \in Seq(Notification), NEW notif \in Notification,
         OwnResponses(em, mta, p, q),
         notif.kind = "Response" =>
           /\ em[notif.id] = p
           /\ mta[notif.id] = NoPid
           /\ \A k \in 1..Len(q) : q[k].kind = "Response" => q[k].id # notif.id
  PROVE  OwnResponses(em, mta, p, Append(q, notif))
<1> DEFINE r == Append(q, notif)
<1>1. /\ Len(q) \in Nat /\ Len(r) = Len(q) + 1
      /\ \A k \in 1..Len(q) : r[k] = q[k]
      /\ r[Len(q) + 1] = notif
  BY AppendProperties
<1> HIDE DEF r
<1>2. \A k \in 1..Len(r) : k \in 1..Len(q) \/ k = Len(q) + 1
  BY <1>1
<1>3. OwnResponses(em, mta, p, r)
  BY <1>1, <1>2 DEF OwnResponses
<1> QED
  BY <1>3 DEF r

-----------------------------------------------------------------------------
(* Waiting threads.                                                        *)

(* A thread in the state w overlooks a notification of the queue q. *)
Misses(w, q) ==
  /\ w.st \in WaitStates
  /\ \/ ~ w.block
     \/ \E k \in 1..Len(q) : WaitedId(q[k]) \in w.ids

LEMMA OverlooksMisses ==
  \A p, n : Overlooks(p, n) <=> Misses(thread[p][n], notifications_queue[p])
  BY DEF Overlooks, Misses

LEMMA AwakeMissesNothing ==
  ASSUME NEW q
  PROVE  /\ ~ Misses(ReadyToRun, q)
         /\ ~ Misses(NoThread, q)
         /\ \A a : ~ Misses(ApplyAction(a), q)
         /\ \A e \in EmitRecord : ~ Misses(e, q)
  BY DEF Misses, ReadyToRun, NoThread, ApplyAction, EmitRecord, WaitStates, EmitStates

LEMMA RemoveAtMisses ==
  ASSUME NEW w, NEW q \in Seq(Notification), NEW k \in 1..Len(q),
         Misses(w, RemoveAt(q, k))
  PROVE  Misses(w, q)
<1>1. Len(q) \in Nat /\ Len(RemoveAt(q, k)) = Len(q) - 1
  BY RemoveAtType
<1>2. \A j \in 1..(Len(q) - 1) :
        \E i \in 1..Len(q) : RemoveAt(q, k)[j] = q[i]
  <2>1. SUFFICES ASSUME NEW j \in 1..(Len(q) - 1)
                 PROVE  \E i \in 1..Len(q) : RemoveAt(q, k)[j] = q[i]
    OBVIOUS
  <2>2. CASE j < k
    BY <1>1, <2>2 DEF RemoveAt
  <2>3. CASE ~ (j < k)
    BY <1>1, <2>3 DEF RemoveAt
  <2> QED
    BY <2>2, <2>3
<1> QED
  BY <1>1, <1>2 DEF Misses

(* A thread that begins to wait for a message drawn just now misses nothing. *)
LEMMA FreshWaitMissesNothing ==
  ASSUME NEW p \in Pid, NEW q \in Seq(Notification), NEW id \in 2..MaxId,
         OwnResponses(emitter, messages_to_answer, p, q), emitter[id] = NoPid
  PROVE  ~ Misses(OtherWait(id), q)
<1>1. p # NoPid
  BY PidAssumption
<1>2. \A k \in 1..Len(q) : WaitedId(q[k]) # id
  BY <1>1 DEF OwnResponses, WaitedId, InterfaceMsg
<1> QED
  BY <1>2 DEF Misses, OtherWait

(* One look at the queue: the thread that looked misses nothing afterwards, *)
(* no other thread misses more, and the queue of responses stays sound.     *)
LEMMA TryResumeSees ==
  ASSUME TypeOK, NEW p \in Pid, NEW n \in ThreadIndex, NEW w \in WaitRecord,
         TryResumeThread(p, n, w), panic' = "none"
  PROVE  /\ ~ Misses(thread'[p][n], notifications_queue'[p])
         /\ \A v : Misses(v, notifications_queue'[p]) => Misses(v, notifications_queue[p])
<1> DEFINE queue == notifications_queue[p]
<1>0. /\ queue \in Seq(Notification)
      /\ w \in ThreadState /\ ReadyToRun \in ThreadState
      /\ \A a \in Action : ApplyAction(a) \in ThreadState
  BY MakeThreadStates DEF TypeOK
<1>1. CASE /\ \A k \in 1..Len(queue) : WaitedId(queue[k]) \notin w.ids
           /\ thread' = [thread EXCEPT ![p][n] = IF w.block THEN w ELSE ReadyToRun]
           /\ UNCHANGED notifications_queue
  <2>1. thread'[p][n] = IF w.block THEN w ELSE ReadyToRun
    BY <1>0, <1>1, SetThread, Zenon
  <2>2. w.block => ~ Misses(w, queue)
    BY <1>1 DEF Misses
  <2> QED
    BY <1>1, <2>1, <2>2, AwakeMissesNothing
<1>2. CASE /\ thread' = [thread EXCEPT ![p][n] = ReadyToRun]
           /\ UNCHANGED notifications_queue
  <2>1. thread'[p][n] = ReadyToRun
    BY <1>0, <1>2, SetThread, Zenon
  <2>2. ~ Misses(thread'[p][n], notifications_queue'[p])
    BY <2>1, AwakeMissesNothing
  <2>3. notifications_queue'[p] = notifications_queue[p]
    BY <1>2
  <2> QED
    BY <2>2, <2>3
<1>3. ASSUME NEW k \in 1..Len(queue),
             notifications_queue' = [notifications_queue EXCEPT ![p] = RemoveAt(@, k)],
             ResumeNotification(p, n, w, queue[k])
      PROVE  /\ ~ Misses(thread'[p][n], notifications_queue'[p])
             /\ \A v : Misses(v, notifications_queue'[p]) => Misses(v, queue)
  <2>1. notifications_queue'[p] = RemoveAt(queue, k)
    BY <1>3 DEF TypeOK
  <2>2. \A v : Misses(v, notifications_queue'[p]) => Misses(v, queue)
    BY <1>0, <2>1, RemoveAtMisses
  <2>3. ASSUME thread' = [thread EXCEPT ![p][n] = ReadyToRun]
        PROVE  ~ Misses(thread'[p][n], notifications_queue'[p])
    <3>1. thread'[p][n] = ReadyToRun
      BY <1>0, <2>3, SetThread, Zenon
    <3> QED
      BY <3>1, AwakeMissesNothing
  <2>4. ASSUME NEW a \in Action, thread' = [thread EXCEPT ![p][n] = ApplyAction(a)]
        PROVE  ~ Misses(thread'[p][n], notifications_queue'[p])
    <3>1. thread'[p][n] = ApplyAction(a)
      BY <1>0, <2>4, SetThread, Zenon
    <3> QED
      BY <3>1, AwakeMissesNothing, Zenon
  <2>5. \/ thread' = [thread EXCEPT ![p][n] = ReadyToRun]
        \/ \E a \in Action : thread' = [thread EXCEPT ![p][n] = ApplyAction(a)]
    BY <1>3 DEF ResumeNotification
  <2> QED
    BY <2>2, <2>3, <2>4, <2>5
<1> QED
  BY <1>1, <1>2, <1>3 DEF TryResumeThread, ResumeTooBig

LEMMA TryResumeResponses ==
  ASSUME TypeOK, ResponseOnce, NEW p \in Pid, NEW n \in ThreadIndex,
         NEW w \in WaitRecord, TryResumeThread(p, n, w),
         UNCHANGED <<emitter, messages_to_answer>>
  PROVE  ResponseOnce'
<1>1. notifications_queue[p] \in Seq(Notification)
  BY DEF TypeOK
<1>2. \/ UNCHANGED notifications_queue
      \/ \E k \in 1..Len(notifications_queue[p]) :
           notifications_queue' = [notifications_queue EXCEPT ![p] = RemoveAt(@, k)]
  BY DEF TryResumeThread
<1>3. CASE UNCHANGED notifications_queue
  BY <1>3, ResponseOncePerQueue, ResponseOnceAfter, Zenon
<1>4. ASSUME NEW k \in 1..Len(notifications_queue[p]),
             notifications_queue' = [notifications_queue EXCEPT ![p] = RemoveAt(@, k)]
      PROVE  ResponseOnce'
  <2>1. OwnResponses(emitter, messages_to_answer, p, RemoveAt(notifications_queue[p], k))
    BY <1>1, RemoveAtResponses, ResponseOncePerQueue
  <2>2. /\ notifications_queue'[p] = RemoveAt(notifications_queue[p], k)
        /\ \A q \in Pid : q # p => notifications_queue'[q] = notifications_queue[q]
    BY <1>4 DEF TypeOK
  <2>3. \A q \in Pid : OwnResponses(emitter', messages_to_answer', q, notifications_queue'[q])
    BY <2>1, <2>2, ResponseOncePerQueue
  <2> QED
    BY <2>3 DEF ResponseOnce, OwnResponses
<1> QED
  BY <1>2, <1>3, <1>4

-----------------------------------------------------------------------------
(* The effects that several actions share.                                 *)

(* Whoever misses something after the step missed it before, or is about to *)
(* be visited.                                                              *)
MissesNoMore(p, n) ==
  Misses(thread'[p][n], notifications_queue'[p]) =>
    \/ Misses(thread[p][n], notifications_queue[p])
    \/ <<p, n>> \in resuming'
    \/ doing'.op = "register" /\ doing'.pid = p

LEMMA PushSeen ==
  ASSUME TypeOK, NEW p \in Pid, NEW notif \in Notification, Push(p, notif),
         NEW n \in ThreadIndex
  PROVE  MissesNoMore(p, n)
  BY DEF MissesNoMore, Push, WaitingThreads, Misses

(* Between handlers nobody misses anything, so a step from there keeps      *)
(* NoOverlook when it makes nobody miss more.                               *)
LEMMA QuietOverlook ==
  ASSUME Quiet, NoOverlook,
         \A p \in Pid, n \in ThreadIndex : MissesNoMore(p, n)
  PROVE  NoOverlook'
<1>1. \A p \in Pid, n \in ThreadIndex : ~ Misses(thread[p][n], notifications_queue[p])
  BY OverlooksMisses, MakeHandlers DEF Quiet, NoOverlook
<1> QED
  BY <1>1 DEF NoOverlook, Overlooks, Misses, MissesNoMore

(* What accept_emit leaves the thread in misses nothing of the old queue. *)
LEMMA AcceptEmitSees ==
  ASSUME TypeOK, IdsDrawn, ResponseOnce, NEW p \in Pid, NEW n \in ThreadIndex,
         NEW e \in EmitRecord, NEW id \in MessageId, NEW q \in Seq(Tid),
         AssignId(e.ans, p, id), AcceptEmit(p, n, e, id, q)
  PROVE  ~ Misses(thread'[p][n], notifications_queue[p])
<1>0. /\ notifications_queue[p] \in Seq(Notification)
      /\ OwnResponses(emitter, messages_to_answer, p, notifications_queue[p])
      /\ e.ans \in BOOLEAN /\ p \in Emitter
  BY ResponseOncePerQueue DEF TypeOK, EmitRecord, Emitter
<1>1. ASSUME thread' = [thread EXCEPT ![p][n] = ReadyToRun]
      PROVE  ~ Misses(thread'[p][n], notifications_queue[p])
  <2>1. thread'[p][n] = ReadyToRun
    BY <1>1, SetThread, MakeThreadStates, Zenon
  <2> QED
    BY <2>1, AwakeMissesNothing
<1>2. ASSUME e.ans, thread' = [thread EXCEPT ![p][n] = OtherWait(id)]
      PROVE  ~ Misses(thread'[p][n], notifications_queue[p])
  <2>1. thread'[p][n] = OtherWait(id)
    BY <1>2, SetThread, MakeThreadStates, Zenon
  <2>2. id \in 2..MaxId /\ emitter[id] = NoPid
    BY <1>0, <1>2, AssignIdKeeps, Zenon
  <2> QED
    BY <1>0, <2>1, <2>2, FreshWaitMissesNothing
<1>3. ASSUME NEW a \in Action, thread' = [thread EXCEPT ![p][n] = ApplyAction(a)]
      PROVE  ~ Misses(thread'[p][n], notifications_queue[p])
  <2>1. thread'[p][n] = ApplyAction(a)
    BY <1>3, SetThread, MakeThreadStates, Zenon
  <2> QED
    BY <2>1, AwakeMissesNothing, Zenon
<1> QED
  BY <1>1, <1>2, <1>3 DEF AcceptEmit

(* The messages drawn before a step keep their responses in every queue. *)
LEMMA SameQueuesResponses ==
  ASSUME TypeOK, ResponseOnce, IdsKept, UNCHANGED notifications_queue
  PROVE  ResponseOnce'
<1>1. \A p \in Pid : OwnResponses(emitter', messages_to_answer', p, notifications_queue[p])
  BY IdsKeptResponses, ResponseOncePerQueue DEF TypeOK
<1> QED
  BY <1>1, ResponseOnceAfter, Zenon

(* A message of an interface, or a destruction, is added to one queue. *)
LEMMA AppendedResponses ==
  ASSUME TypeOK, ResponseOnce, IdsKept, NEW p \in Pid, NEW notif \in Notification,
         notif.kind # "Response",
         notifications_queue' = [notifications_queue EXCEPT ![p] = Append(@, notif)]
  PROVE  ResponseOnce'
<1>1. \A q \in Pid : OwnResponses(emitter', messages_to_answer', q, notifications_queue[q])
  BY IdsKeptResponses, ResponseOncePerQueue DEF TypeOK
<1>2. /\ notifications_queue[p] \in Seq(Notification)
      /\ notifications_queue'[p] = Append(notifications_queue[p], notif)
      /\ \A q \in Pid : q # p => notifications_queue'[q] = notifications_queue[q]
  BY DEF TypeOK
<1>3. OwnResponses(emitter', messages_to_answer', p, notifications_queue'[p])
  BY <1>1, <1>2, AppendResponses
<1>4. \A q \in Pid : OwnResponses(emitter', messages_to_answer', q, notifications_queue'[q])
  BY <1>1, <1>2, <1>3
<1> QED
  BY <1>4, ResponseOnceAfter, Zenon

LEMMA NotResponses ==
  /\ \A i, id, from, size : InterfaceMessage(i, id, from, size).kind # "Response"
  /\ \A p : ProcessDestroyed(p).kind # "Response"
  BY DEF InterfaceMessage, ProcessDestroyed

-----------------------------------------------------------------------------
(* The steps.                                                              *)

Delivery == IdsDrawn /\ ResponseOnce /\ NoOverlook

LEMMA ResumeNextDelivers == TypeOK /\ Delivery /\ ResumeNext => Delivery'
<1> SUFFICES ASSUME TypeOK, Delivery, ResumeNext PROVE Delivery'
  OBVIOUS
<1>0. IdsDrawn /\ ResponseOnce /\ NoOverlook
  BY DEF Delivery
<1>1. PICK t \in resuming : /\ TryResumeThread(t[1], t[2], thread[t[1]][t[2]])
                            /\ resuming' = resuming \ {t}
  BY DEF ResumeNext
<1> DEFINE p == t[1]
           n == t[2]
<1>2. p \in Pid /\ n \in ThreadIndex /\ t = <<p, n>> /\ thread[p][n] \in WaitRecord
  <2>1. t \in Tid /\ thread[p][n].st \in WaitStates
    BY <1>1, Zenon DEF TypeOK
  <2>2. p \in Pid /\ n \in ThreadIndex /\ t = <<p, n>>
    BY <2>1 DEF Tid
  <2>3. thread[p][n] \in ThreadState
    BY <2>2 DEF TypeOK
  <2> QED
    BY <2>1, <2>2, <2>3, ThreadStates
<1>3. UNCHANGED <<emitter, messages_to_answer, message_id_pool, doing>> /\ panic = "none"
  BY DEF ResumeNext
<1>4. OnlyThread(p, n) /\ OnlyQueue(p)
  BY <1>1, <1>2, TryResumeType
<1>5. IdsDrawn' /\ ResponseOnce'
  BY <1>0, <1>1, <1>2, <1>3, SameIdsKeep, TryResumeResponses
<1>6. ASSUME panic' = "none", NEW q \in Pid, NEW m \in ThreadIndex,
             Misses(thread'[q][m], notifications_queue'[q])
      PROVE  <<q, m>> \in resuming' \/ (doing'.op = "register" /\ doing'.pid = q)
  <2>1. /\ ~ Misses(thread'[p][n], notifications_queue'[p])
        /\ \A v : Misses(v, notifications_queue'[p]) => Misses(v, notifications_queue[p])
    BY <1>1, <1>2, <1>6, TryResumeSees
  <2>2. <<q, m>> # <<p, n>>
    BY <1>6, <2>1
  <2>3. thread'[q][m] = thread[q][m]
    BY <1>4, <2>2 DEF OnlyThread
  <2>4. Misses(thread[q][m], notifications_queue[q])
    BY <1>4, <1>6, <2>1, <2>3 DEF OnlyQueue
  <2>5. <<q, m>> \in resuming \/ (doing.op = "register" /\ doing.pid = q)
    BY <1>0, <1>3, <2>4, OverlooksMisses DEF NoOverlook
  <2> QED
    BY <1>1, <1>2, <1>3, <2>2, <2>5
<1>7. NoOverlook'
  BY <1>6 DEF NoOverlook, Overlooks, Misses
<1> QED
  BY <1>5, <1>7 DEF Delivery

LEMMA WaitDelivers ==
  ASSUME TypeOK, Delivery, NEW p \in Pid, NEW n \in ThreadIndex, NEW w \in WaitRecord,
         Quiet, TryResumeThread(p, n, w),
         UNCHANGED <<emitter, messages_to_answer, message_id_pool>>
  PROVE  Delivery'
<1>0. IdsDrawn /\ ResponseOnce /\ NoOverlook
  BY DEF Delivery
<1>1. OnlyThread(p, n) /\ OnlyQueue(p)
  BY TryResumeType
<1>2. IdsDrawn' /\ ResponseOnce'
  BY <1>0, SameIdsKeep, TryResumeResponses
<1>3. CASE panic' = "none"
  <2>1. /\ ~ Misses(thread'[p][n], notifications_queue'[p])
        /\ \A v : Misses(v, notifications_queue'[p]) => Misses(v, notifications_queue[p])
    BY <1>3, TryResumeSees
  <2>2. ASSUME NEW q \in Pid, NEW m \in ThreadIndex PROVE MissesNoMore(q, m)
    <3>1. CASE <<q, m>> = <<p, n>>
      BY <2>1, <3>1 DEF MissesNoMore
    <3>2. CASE <<q, m>> # <<p, n>>
      <4>1. thread'[q][m] = thread[q][m]
        BY <1>1, <3>2 DEF OnlyThread
      <4> QED
        BY <1>1, <2>1, <4>1 DEF MissesNoMore, OnlyQueue
    <3> QED
      BY <3>1, <3>2
  <2> QED
    BY <1>0, <1>2, <2>2, QuietOverlook DEF Delivery
<1>4. CASE panic' # "none"
  BY <1>2, <1>4 DEF Delivery, NoOverlook
<1> QED
  BY <1>3, <1>4

(* A step between handlers that changes one thread, to a state that misses  *)
(* nothing, and no queue.                                                   *)
LEMMA AwakeStep ==
  ASSUME TypeOK, Quiet, NoOverlook, NEW p \in Pid, NEW n \in ThreadIndex,
         OnlyThread(p, n), UNCHANGED notifications_queue,
         ~ Misses(thread'[p][n], notifications_queue[p])
  PROVE  NoOverlook'
<1>1. ASSUME NEW q \in Pid, NEW m \in ThreadIndex PROVE MissesNoMore(q, m)
  <2>1. CASE <<q, m>> = <<p, n>>
    BY <2>1 DEF MissesNoMore
  <2>2. CASE <<q, m>> # <<p, n>>
    BY <2>2 DEF MissesNoMore, OnlyThread
  <2> QED
    BY <2>1, <2>2
<1> QED
  BY <1>1, QuietOverlook

LEMMA HandleEmitDelivers ==
  ASSUME TypeOK, Delivery, Quiet, NEW p \in alive, NEW n \in ThreadIndex,
         NEW e \in EmitRecord, NEW q \in Seq(Tid), HandleEmit(p, n, e, q)
  PROVE  Delivery'
<1>0. /\ IdsDrawn /\ ResponseOnce /\ NoOverlook
      /\ p \in Pid /\ p \in Emitter /\ e.iface \in Interface /\ e.ans \in BOOLEAN
  BY DEF Delivery, TypeOK, Emitter, EmitRecord
<1>1. CASE EmitToHandler(p, n, e, q)
  <2> DEFINE h == interfaces[e.iface].pid
  <2>1. PICK id \in MessageId, size \in Size :
          /\ AssignId(e.ans, p, id)
          /\ AcceptEmit(p, n, e, id, q)
          /\ \/ h \in alive /\ Push(h, InterfaceMessage(e.iface, id, p, size))
             \/ UNCHANGED notifications_queue
    BY <1>1 DEF EmitToHandler
  <2> DEFINE notif == InterfaceMessage(e.iface, id, p, size)
  <2>2. IdsDrawn' /\ IdsKept
    BY <1>0, <2>1, AssignIdKeeps
  <2>3. OnlyThread(p, n) /\ ~ Misses(thread'[p][n], notifications_queue[p])
    BY <1>0, <2>1, AcceptEmitType, AcceptEmitSees
  <2>4. notif \in Notification /\ notif.kind # "Response"
    BY <1>0, MakeNotifications, NotResponses
  <2> HIDE DEF notif
  <2>5. CASE h \in alive /\ Push(h, notif)
    <3>1. h \in Pid /\ notifications_queue' = [notifications_queue EXCEPT ![h] = Append(@, notif)]
      BY <2>5 DEF TypeOK, Push
    <3>2. ResponseOnce'
      BY <1>0, <2>2, <2>4, <3>1, AppendedResponses, Zenon
    <3>3. ASSUME NEW o \in Pid, NEW m \in ThreadIndex PROVE MissesNoMore(o, m)
      <4>1. CASE o = h
        BY <2>4, <2>5, <3>1, <4>1, PushSeen
      <4>2. CASE o # h
        <5>1. notifications_queue'[o] = notifications_queue[o]
          BY <3>1, <4>2 DEF TypeOK
        <5>2. CASE <<o, m>> = <<p, n>>
          BY <2>3, <5>1, <5>2 DEF MissesNoMore
        <5>3. CASE <<o, m>> # <<p, n>>
          BY <2>3, <5>1, <5>3 DEF MissesNoMore, OnlyThread
        <5> QED
          BY <5>2, <5>3
      <4> QED
        BY <4>1, <4>2
    <3> QED
      BY <1>0, <2>2, <3>2, <3>3, QuietOverlook DEF Delivery
  <2>6. CASE UNCHANGED notifications_queue
    <3>1. ResponseOnce'
      BY <1>0, <2>2, <2>6, SameQueuesResponses
    <3> QED
      BY <1>0, <2>2, <2>3, <2>6, <3>1, AwakeStep DEF Delivery
  <2> QED
    BY <2>1, <2>5, <2>6 DEF notif
<1>2. CASE RefuseEmit(p, n, e, q) \/ DelayEmit(p, n, e, q)
  <2>1. UNCHANGED <<notifications_queue, messages_to_answer, message_id_pool, emitter>>
    BY <1>2 DEF RefuseEmit, DelayEmit
  <2>2. PICK s \in {ReadyToRun, e} : thread' = [thread EXCEPT ![p][n] = s]
    BY <1>2 DEF RefuseEmit, DelayEmit
  <2>3. s \in ThreadState /\ ~ Misses(s, notifications_queue[p])
    BY MakeThreadStates, AwakeMissesNothing, Zenon
  <2>4. OnlyThread(p, n) /\ thread'[p][n] = s
    BY <1>0, <2>2, <2>3, SetThread, Zenon
  <2>5. IdsDrawn' /\ ResponseOnce'
    BY <1>0, <2>1, SameIdsKeep, SameQueuesResponses
  <2> QED
    BY <1>0, <2>1, <2>3, <2>4, <2>5, AwakeStep DEF Delivery
<1> QED
  BY <1>1, <1>2 DEF HandleEmit

(* Steps that touch neither queues, nor ids, nor threads, and leave nobody  *)
(* unvisited: from a state between handlers, or into a panic.               *)
LEMMA IdleStep ==
  ASSUME Delivery, Quiet \/ panic' # "none",
         UNCHANGED <<thread, notifications_queue, messages_to_answer,
                     message_id_pool, emitter>>
  PROVE  Delivery'
<1>0. IdsDrawn' /\ ResponseOnce' /\ NoOverlook
  BY SameIdsKeep DEF Delivery, ResponseOnce
<1>1. CASE Quiet
  <2>1. \A p \in Pid, n \in ThreadIndex : MissesNoMore(p, n)
    BY DEF MissesNoMore
  <2> QED
    BY <1>0, <1>1, <2>1, QuietOverlook DEF Delivery
<1>2. CASE panic' # "none"
  BY <1>0, <1>2 DEF Delivery, NoOverlook
<1> QED
  BY <1>1, <1>2

LEMMA ReadyStep ==
  ASSUME TypeOK, Delivery, Quiet, NEW p \in Pid, NEW n \in ThreadIndex,
         thread' = [thread EXCEPT ![p][n] = ReadyToRun],
         UNCHANGED <<notifications_queue, messages_to_answer, message_id_pool, emitter>>
  PROVE  Delivery'
<1>1. OnlyThread(p, n) /\ thread'[p][n] = ReadyToRun
  BY SetThread, MakeThreadStates, Zenon
<1>2. ~ Misses(thread'[p][n], notifications_queue[p])
  BY <1>1, AwakeMissesNothing
<1>3. IdsDrawn' /\ ResponseOnce' /\ NoOverlook
  BY SameIdsKeep, SameQueuesResponses DEF Delivery
<1> QED
  BY <1>1, <1>2, <1>3, AwakeStep DEF Delivery

LEMMA ApplyExtrinsicActionDelivers ==
  ASSUME TypeOK, Delivery, Quiet, NEW p \in alive, NEW n \in ThreadIndex,
         NEW a \in Action, NEW q \in Seq(Tid), ApplyExtrinsicAction(p, n, a, q)
  PROVE  Delivery'
<1>0. p \in Pid
  BY DEF TypeOK
<1>1. CASE a.do = "ProgramCrash"
  <2>1. UNCHANGED <<thread, notifications_queue, messages_to_answer, message_id_pool,
                    emitter>>
    BY <1>1, Zenon DEF ApplyExtrinsicAction
  <2> QED
    BY <2>1, IdleStep
<1>2. CASE a.do = "Resume"
  <2>1. /\ thread' = [thread EXCEPT ![p][n] = ReadyToRun]
        /\ UNCHANGED <<notifications_queue, messages_to_answer, message_id_pool, emitter>>
    BY <1>2 DEF ApplyExtrinsicAction
  <2> QED
    BY <1>0, <2>1, ReadyStep, Zenon
<1>3. CASE a.do = "EmitMessage"
  <2> DEFINE e == [st |-> "OtherExtrinsicEmit", iface |-> a.iface, ans |-> a.ans,
                   delay |-> TRUE]
  <2>1. e \in EmitRecord
    BY <1>3, ActionAssumption DEF EmitRecord, EmitStates
  <2>2. HandleEmit(p, n, e, q)
    BY <1>3 DEF ApplyExtrinsicAction
  <2> HIDE DEF e
  <2> QED
    BY <2>1, <2>2, HandleEmitDelivers
<1> QED
  BY <1>1, <1>2, <1>3, Zenon DEF ApplyExtrinsicAction

(* An answer: the entry is removed before the response is queued, so no     *)
(* queue holds a response to this message yet.                              *)
LEMMA AnswerDelivers ==
  ASSUME TypeOK, Delivery, Quiet, NEW id \in MessageId, NEW ok \in BOOLEAN,
         AnswerMessageInner(id, ok), UNCHANGED <<thread, emitter, message_id_pool>>
  PROVE  Delivery'
<1> DEFINE by == messages_to_answer[id]
<1>0. IdsDrawn /\ ResponseOnce /\ NoOverlook
  BY DEF Delivery
<1>1. IdsDrawn' /\ IdsKept /\ messages_to_answer'[id] = NoPid
  BY <1>0, RemoveEntryKeeps DEF AnswerMessageInner
<1>2. CASE by \in alive
  <2>1. PICK size \in Size : Push(by, Response(id, ok, size))
    BY <1>2 DEF AnswerMessageInner
  <2> DEFINE notif == Response(id, ok, size)
  <2>2. /\ notif \in Notification /\ notif.kind = "Response" /\ notif.id = id
        /\ by \in Pid /\ by # NoPid
    BY <1>2, MakeNotifications, PidAssumption DEF TypeOK, Response
  <2> HIDE DEF notif
  <2>3. /\ notifications_queue[by] \in Seq(Notification)
        /\ notifications_queue'[by] = Append(notifications_queue[by], notif)
        /\ \A q \in Pid : q # by => notifications_queue'[q] = notifications_queue[q]
    BY <2>1, <2>2 DEF TypeOK, Push, notif
  <2>4. \A q \in Pid : OwnResponses(emitter', messages_to_answer', q, notifications_queue[q])
    BY <1>0, <1>1, IdsKeptResponses, ResponseOncePerQueue DEF TypeOK
  <2>5. /\ emitter'[id] = by
        /\ \A k \in 1..Len(notifications_queue[by]) :
             notifications_queue[by][k].kind = "Response"
               => notifications_queue[by][k].id # id
    BY <1>0, <2>2 DEF IdsDrawn, ResponseOnce
  <2>6. OwnResponses(emitter', messages_to_answer', by, notifications_queue'[by])
    BY <1>1, <2>2, <2>3, <2>4, <2>5, AppendResponses
  <2>7. \A q \in Pid : OwnResponses(emitter', messages_to_answer', q, notifications_queue'[q])
    BY <2>3, <2>4, <2>6, Zenon
  <2>8. ResponseOnce'
    BY <2>7 DEF ResponseOnce, OwnResponses
  <2>9. ASSUME NEW q \in Pid, NEW m \in ThreadIndex PROVE MissesNoMore(q, m)
    <3>1. CASE q = by
      BY <2>1, <2>2, <3>1, PushSeen DEF notif
    <3>2. CASE q # by
      BY <2>3, <3>2 DEF MissesNoMore
    <3> QED
      BY <3>1, <3>2
  <2> QED
    BY <1>0, <1>1, <2>8, <2>9, QuietOverlook DEF Delivery
<1>3. CASE by \notin alive
  <2>1. UNCHANGED notifications_queue
    BY <1>3 DEF AnswerMessageInner
  <2>2. ResponseOnce'
    BY <1>0, <1>1, <2>1, SameQueuesResponses
  <2>3. \A q \in Pid, m \in ThreadIndex : MissesNoMore(q, m)
    BY <2>1 DEF MissesNoMore
  <2> QED
    BY <1>0, <1>1, <2>2, <2>3, QuietOverlook DEF Delivery
<1> QED
  BY <1>2, <1>3

LEMMA ProcessFinishedDelivers ==
  ASSUME TypeOK, Delivery, NEW p \in Pid, NEW n \in ThreadIndex, ProcessFinished(p, n)
  PROVE  Delivery'
<1>0. IdsDrawn /\ ResponseOnce /\ NoOverlook /\ Quiet
  BY DEF Delivery, ProcessFinished, Scheduled
<1>1. /\ \A m \in ThreadIndex : thread'[p][m] = NoThread
      /\ \A q \in Pid : q # p => thread'[q] = thread[q]
      /\ notifications_queue'[p] = <<>>
      /\ \A q \in Pid : q # p => notifications_queue'[q] = notifications_queue[q]
      /\ UNCHANGED <<messages_to_answer, message_id_pool, emitter>>
  BY DEF TypeOK, ProcessFinished
<1>2. IdsDrawn'
  BY <1>0, <1>1, SameIdsKeep
<1>3. ResponseOnce'
  <2>1. ASSUME NEW q \in Pid
        PROVE  OwnResponses(emitter, messages_to_answer, q, notifications_queue'[q])
    <3>1. CASE q = p
      BY <1>1, <3>1 DEF OwnResponses
    <3>2. CASE q # p
      BY <1>0, <1>1, <3>2, ResponseOncePerQueue, Zenon
    <3> QED
      BY <3>1, <3>2
  <2> QED
    BY <1>1, <2>1, ResponseOnceAfter, Zenon
<1>4. ASSUME NEW q \in Pid, NEW m \in ThreadIndex PROVE MissesNoMore(q, m)
  <2>1. CASE q = p
    BY <1>1, <2>1, AwakeMissesNothing DEF MissesNoMore
  <2>2. CASE q # p
    BY <1>1, <2>2 DEF MissesNoMore
  <2> QED
    BY <2>1, <2>2
<1> QED
  BY <1>0, <1>2, <1>3, <1>4, QuietOverlook DEF Delivery

LEMMA ThreadStepDelivers ==
  ASSUME TypeOK, Delivery, NEW p \in Pid, NEW n \in ThreadIndex, ThreadStep(p, n)
  PROVE  Delivery'
<1>0. Scheduled(p, n)
  BY Zenon DEF ThreadStep, ThreadWaitNotification, ThreadEmitMessage, ThreadOtherExtrinsic,
         ThreadEmitAnswer, ThreadCancelMessage, ThreadFinished, ProcessFinished
<1>1. p \in alive /\ Quiet /\ local_run_queue \in Seq(Tid)
  BY <1>0 DEF Scheduled, TypeOK
<1>2. ASSUME NEW ids \in SUBSET WaitableIds(p), NEW size \in Size,
             NEW block \in BOOLEAN, ThreadWaitNotification(p, n, ids, size, block)
      PROVE  Delivery'
  <2> DEFINE w == [st |-> "NotificationWait", ids |-> ids, size |-> size,
                   block |-> block]
  <2>1. WaitableIds(p) \subseteq MessageId
    BY BoundAssumption DEF WaitableIds, InterfaceMsg, MessageId
  <2>2. w \in WaitRecord
    BY <2>1 DEF WaitRecord, WaitStates
  <2>3. TryResumeThread(p, n, w)
        /\ UNCHANGED <<emitter, messages_to_answer, message_id_pool>>
    BY <1>2 DEF ThreadWaitNotification
  <2> HIDE DEF w
  <2> QED
    BY <1>1, <2>2, <2>3, WaitDelivers
<1>3. ASSUME NEW i \in Interface, NEW ans \in BOOLEAN, NEW delay \in BOOLEAN,
             ThreadEmitMessage(p, n, i, ans, delay)
      PROVE  Delivery'
  <2> DEFINE e == [st |-> "EmitMessage", iface |-> i, ans |-> ans, delay |-> delay]
  <2>1. e \in EmitRecord
    BY DEF EmitRecord, EmitStates
  <2>2. HandleEmit(p, n, e, local_run_queue)
    BY <1>3 DEF ThreadEmitMessage
  <2> HIDE DEF e
  <2> QED
    BY <1>1, <2>1, <2>2, HandleEmitDelivers
<1>4. ASSUME NEW a \in Action, ThreadOtherExtrinsic(p, n, a)
      PROVE  Delivery'
  BY <1>1, <1>4, ApplyExtrinsicActionDelivers DEF ThreadOtherExtrinsic
<1>5. ASSUME NEW id \in DrawnIds, NEW ok \in BOOLEAN, ThreadEmitAnswer(p, n, id, ok)
      PROVE  Delivery'
  <2>1. /\ id \in MessageId /\ AnswerMessageInner(id, ok)
        /\ UNCHANGED <<thread, emitter, message_id_pool>>
    BY <1>5, Zenon DEF ThreadEmitAnswer, DrawnIds
  <2> QED
    BY <1>1, <2>1, AnswerDelivers
<1>6. ASSUME NEW id \in DrawnIds, ThreadCancelMessage(p, n, id)
      PROVE  Delivery'
  <2>1. /\ id \in MessageId /\ messages_to_answer' = RemoveEntry(id)
        /\ UNCHANGED <<thread, notifications_queue, emitter, message_id_pool>>
    BY <1>6 DEF ThreadCancelMessage, DrawnIds
  <2>2. IdsDrawn' /\ ResponseOnce' /\ NoOverlook
    BY <2>1, RemoveEntryKeeps, SameQueuesResponses DEF Delivery
  <2>3. \A q \in Pid, m \in ThreadIndex : MissesNoMore(q, m)
    BY <2>1 DEF MissesNoMore
  <2> QED
    BY <1>1, <2>2, <2>3, QuietOverlook DEF Delivery
<1>7. CASE ThreadFinished(p, n)
  <2>1. UNCHANGED <<thread, notifications_queue, messages_to_answer, message_id_pool,
                    emitter>>
    BY <1>7, Zenon DEF ThreadFinished
  <2> QED
    BY <1>1, <2>1, IdleStep
<1>8. CASE ProcessFinished(p, n)
  BY <1>8, ProcessFinishedDelivers
<1> QED
  BY <1>2, <1>3, <1>4, <1>5, <1>6, <1>7, <1>8 DEF ThreadStep

LEMMA PopLocalRunQueueDelivers == TypeOK /\ Delivery /\ PopLocalRunQueue => Delivery'
<1> SUFFICES ASSUME TypeOK, Delivery, PopLocalRunQueue PROVE Delivery'
  OBVIOUS
<1> DEFINE p == Head(local_run_queue)[1]
           n == Head(local_run_queue)[2]
           q == Tail(local_run_queue)
<1>0. local_run_queue \in Seq(Tid) /\ local_run_queue # <<>> /\ Quiet
  BY Zenon DEF PopLocalRunQueue, TypeOK
<1>4. p \in Pid /\ n \in ThreadIndex /\ q \in Seq(Tid)
  BY <1>0, FirstThread
<1>1. /\ p \in Pid /\ n \in ThreadIndex /\ q \in Seq(Tid)
      /\ thread[p][n] \in ThreadState
  BY <1>4 DEF TypeOK
<1> HIDE DEF p, n, q
<1>2. CASE UNCHANGED <<thread, notifications_queue, messages_to_answer,
                       message_id_pool, emitter>>
  BY <1>0, <1>2, IdleStep
<1>3. CASE /\ thread[p][n].st = "OtherExtrinsicApplyAction"
           /\ ApplyExtrinsicAction(p, n, thread[p][n].action, q)
  <2>1. thread[p][n].action \in Action
    BY <1>1, <1>3, ThreadStates DEF ApplyRecord
  <2>2. p \in alive
    <3>1. p \notin alive => thread[p][n] = NoThread
      BY <1>1, Zenon DEF TypeOK
    <3> QED
      BY <1>3, <3>1 DEF NoThread
  <2> QED
    BY <1>0, <1>1, <1>3, <2>1, <2>2, ApplyExtrinsicActionDelivers
<1> QED
  BY <1>2, <1>3, Zenon DEF PopLocalRunQueue, p, n, q

(* The loop that tells handlers of a destruction. *)
LEMMA FinishOverlook ==
  ASSUME NoOverlook, panic = "none", resuming = {}, doing.op = "finish",
         \A p \in Pid, n \in ThreadIndex : MissesNoMore(p, n)
  PROVE  NoOverlook'
<1>1. \A p \in Pid, n \in ThreadIndex : ~ Misses(thread[p][n], notifications_queue[p])
  BY OverlooksMisses DEF NoOverlook
<1> QED
  BY <1>1 DEF NoOverlook, Overlooks, Misses, MissesNoMore

LEMMA NotifyHandlerDelivers == TypeOK /\ Delivery /\ NotifyHandler => Delivery'
<1> SUFFICES ASSUME TypeOK, Delivery, NotifyHandler PROVE Delivery'
  OBVIOUS
<1>0. IdsDrawn /\ ResponseOnce /\ NoOverlook
  BY DEF Delivery
<1>1. /\ panic = "none" /\ resuming = {} /\ doing.op = "finish"
      /\ UNCHANGED <<thread, messages_to_answer, message_id_pool, emitter>>
      /\ doing \in FinishRecord
  BY Handlers, Zenon DEF NotifyHandler, TypeOK
<1>2. doing.pid \in Pid
  BY <1>1 DEF FinishRecord
<1>3. IdsDrawn' /\ IdsKept
  BY <1>0, <1>1, SameIdsKeep
<1>4. \/ UNCHANGED notifications_queue
      \/ \E h \in alive : Push(h, ProcessDestroyed(doing.pid))
  BY Zenon DEF NotifyHandler
<1>5. CASE UNCHANGED notifications_queue
  <2>1. ResponseOnce'
    BY <1>0, <1>3, <1>5, SameQueuesResponses
  <2>2. \A q \in Pid, m \in ThreadIndex : MissesNoMore(q, m)
    BY <1>1, <1>5 DEF MissesNoMore
  <2> QED
    BY <1>0, <1>1, <1>3, <2>1, <2>2, FinishOverlook DEF Delivery
<1>6. ASSUME NEW h \in alive, Push(h, ProcessDestroyed(doing.pid))
      PROVE  Delivery'
  <2> DEFINE notif == ProcessDestroyed(doing.pid)
  <2>1. notif \in Notification /\ notif.kind # "Response" /\ h \in Pid
    BY <1>2, MakeNotifications, NotResponses DEF TypeOK
  <2> HIDE DEF notif
  <2>2. notifications_queue' = [notifications_queue EXCEPT ![h] = Append(@, notif)]
    BY <1>6 DEF Push, notif
  <2>3. ResponseOnce'
    BY <1>0, <1>3, <2>1, <2>2, AppendedResponses, Zenon
  <2>4. ASSUME NEW q \in Pid, NEW m \in ThreadIndex PROVE MissesNoMore(q, m)
    <3>1. CASE q = h
      BY <1>6, <2>1, <3>1, PushSeen DEF notif
    <3>2. CASE q # h
      <4>1. notifications_queue'[q] = notifications_queue[q]
        BY <2>2, <3>2 DEF TypeOK
      <4> QED
        BY <1>1, <4>1 DEF MissesNoMore
    <3> QED
      BY <3>1, <3>2
  <2> QED
    BY <1>0, <1>1, <1>3, <2>3, <2>4, FinishOverlook DEF Delivery
<1> QED
  BY <1>4, <1>5, <1>6

LEMMA ProgramFinishedDelivers == TypeOK /\ Delivery /\ ProgramFinished => Delivery'
<1> SUFFICES ASSUME TypeOK, Delivery, ProgramFinished PROVE Delivery'
  OBVIOUS
<1>1. /\ panic = "none" /\ resuming = {} /\ doing.op = "finish"
      /\ UNCHANGED <<thread, notifications_queue, messages_to_answer, message_id_pool,
                     emitter>>
  BY DEF ProgramFinished
<1>2. IdsDrawn' /\ ResponseOnce' /\ NoOverlook
  BY <1>1, SameIdsKeep, SameQueuesResponses DEF Delivery
<1>3. \A q \in Pid, m \in ThreadIndex : MissesNoMore(q, m)
  BY <1>1 DEF MissesNoMore
<1> QED
  BY <1>1, <1>2, <1>3, FinishOverlook DEF Delivery

LEMMA HandlerRegisteredDelivers == TypeOK /\ Delivery /\ HandlerRegistered => Delivery'
<1> SUFFICES ASSUME TypeOK, Delivery, HandlerRegistered PROVE Delivery'
  OBVIOUS
<1>1. /\ panic = "none" /\ doing.op = "register" /\ resuming = {}
      /\ UNCHANGED <<thread, notifications_queue, messages_to_answer, message_id_pool,
                     emitter>>
      /\ doing.pid \in alive => resuming' = WaitingThreads(thread, doing.pid)
  BY DEF HandlerRegistered, TypeOK
<1>2. IdsDrawn' /\ ResponseOnce' /\ NoOverlook
  BY <1>1, SameIdsKeep, SameQueuesResponses DEF Delivery
<1>3. ASSUME NEW q \in Pid, NEW m \in ThreadIndex, Misses(thread[q][m], notifications_queue[q])
      PROVE  <<q, m>> \in resuming'
  <2>1. doing.pid = q
    BY <1>1, <1>2, <1>3, OverlooksMisses DEF NoOverlook
  <2>2. q \in alive
    <3>1. q \notin alive => thread[q][m] = NoThread
      BY Zenon DEF TypeOK
    <3> QED
      BY <1>3, <3>1, AwakeMissesNothing, Zenon
  <2> QED
    BY <1>1, <1>3, <2>1, <2>2 DEF WaitingThreads, Misses
<1>4. NoOverlook'
  BY <1>1, <1>3 DEF NoOverlook, Overlooks, Misses
<1> QED
  BY <1>2, <1>4 DEF Delivery

LEMMA WakeSleepingThreadDelivers == TypeOK /\ Delivery /\ WakeSleepingThread => Delivery'
<1> SUFFICES ASSUME TypeOK, Delivery, WakeSleepingThread PROVE Delivery'
  OBVIOUS
<1> DEFINE p == Head(doing.threads)[1]
           n == Head(doing.threads)[2]
           e == thread[p][n]
<1>0. IdsDrawn /\ ResponseOnce /\ NoOverlook
  BY DEF Delivery
<1>1. panic = "none" /\ doing.op = "register" /\ doing.threads # <<>>
  BY Zenon DEF WakeSleepingThread
<1>2. /\ p \in Pid /\ p \in Emitter /\ n \in ThreadIndex /\ e \in ThreadState
      /\ resuming = {} /\ doing \in RegisterRecord /\ doing.iface \in Interface
  BY <1>1, FirstSleeper
<1> HIDE DEF p, n, e
<1>3. CASE e.st \in EmitStates
  <2>1. PICK id \in MessageId, size \in Size :
          /\ AssignId(e.ans, p, id)
          /\ AcceptEmit(p, n, e, id, local_run_queue)
          /\ \/ /\ doing.pid \in alive
                /\ notifications_queue' =
                     [notifications_queue EXCEPT ![doing.pid] =
                        Append(@, InterfaceMessage(doing.iface, id, p, size))]
             \/ UNCHANGED notifications_queue
    BY <1>3, Zenon DEF WakeSleepingThread, p, n, e
  <2>2. e \in EmitRecord /\ e.ans \in BOOLEAN /\ local_run_queue \in Seq(Tid)
    BY <1>2, <1>3, ThreadStates DEF EmitRecord, TypeOK
  <2>3. IdsDrawn' /\ IdsKept
    BY <1>0, <1>2, <2>1, <2>2, AssignIdKeeps
  <2>4. OnlyThread(p, n)
    BY <1>2, <2>1, <2>2, AcceptEmitType
  <2>5. ~ Misses(thread'[p][n], notifications_queue[p])
    BY <1>0, <1>2, <2>1, <2>2, AcceptEmitSees
  <2>6. doing' = [doing EXCEPT !.threads = Tail(@)]
    BY <1>3, Zenon DEF WakeSleepingThread, p, n, e
  <2>7. doing'.op = "register" /\ doing'.pid = doing.pid
    BY <1>2, <2>6 DEF RegisterRecord
  <2>8. \A q \in Pid : q # doing.pid => notifications_queue'[q] = notifications_queue[q]
    BY <2>1, Zenon DEF TypeOK
  <2>9. ResponseOnce'
    <3> DEFINE notif == InterfaceMessage(doing.iface, id, p, size)
    <3>1. notif \in Notification /\ notif.kind # "Response"
      BY <1>2, MakeNotifications, NotResponses
    <3> HIDE DEF notif
    <3>2. CASE UNCHANGED notifications_queue
      BY <1>0, <2>3, <3>2, SameQueuesResponses
    <3>3. CASE /\ doing.pid \in alive
               /\ notifications_queue' =
                    [notifications_queue EXCEPT ![doing.pid] = Append(@, notif)]
      <4>1. doing.pid \in Pid
        BY <3>3 DEF TypeOK
      <4> QED
        BY <1>0, <2>3, <3>1, <3>3, <4>1, AppendedResponses, Zenon
    <3> QED
      BY <2>1, <3>2, <3>3 DEF notif
  <2>10. ASSUME NEW q \in Pid, NEW m \in ThreadIndex,
                Misses(thread'[q][m], notifications_queue'[q])
         PROVE  doing'.pid = q
    <3>1. SUFFICES ASSUME q # doing.pid PROVE FALSE
      BY <2>7, Zenon
    <3>2. Misses(thread'[q][m], notifications_queue[q])
      BY <2>8, <2>10, <3>1
    <3>3. <<q, m>> # <<p, n>>
      BY <2>5, <3>2
    <3>4. Misses(thread[q][m], notifications_queue[q])
      BY <2>4, <3>2, <3>3 DEF OnlyThread
    <3> QED
      BY <1>0, <1>1, <1>2, <3>1, <3>4, OverlooksMisses DEF NoOverlook
  <2>11. NoOverlook'
    BY <2>7, <2>10 DEF NoOverlook, Overlooks, Misses
  <2> QED
    BY <2>3, <2>9, <2>11 DEF Delivery
<1>4. CASE e.st \notin EmitStates
  <2>1. /\ panic' = "sleeping thread is gone"
        /\ UNCHANGED <<thread, notifications_queue, messages_to_answer,
                       message_id_pool, emitter>>
    BY <1>4, Zenon DEF WakeSleepingThread, p, n, e
  <2> QED
    BY <2>1, IdleStep, Zenon
<1> QED
  BY <1>3, <1>4

LEMMA SetInterfaceHandlerDelivers ==
  ASSUME TypeOK, Delivery, NEW i \in Interface, NEW p \in Emitter,
         SetInterfaceHandler(i, p)
  PROVE  Delivery'
<1>1. /\ Quiet
      /\ UNCHANGED <<thread, messages_to_answer, message_id_pool, emitter>>
      /\ IdsDrawn /\ ResponseOnce /\ NoOverlook
  BY Zenon DEF SetInterfaceHandler, Embedder, Delivery
<1>2. CASE UNCHANGED notifications_queue
  BY <1>1, <1>2, IdleStep
<1>3. CASE interfaces[i].st = "Requested" /\ p \in alive
  <2> DEFINE other == interfaces[i].other
             sent == [k \in 1..Len(other) |->
                        InterfaceMessage(i, other[k].id, other[k].from, other[k].size)]
  <2>1. other \in Seq(Buffered) /\ p \in Pid /\ interfaces[i] # Vacant
    BY <1>3, RequestedLists DEF TypeOK
  <2>2. sent \in Seq(Notification) /\ \A k \in 1..Len(sent) : sent[k].kind # "Response"
    <3>1. ASSUME NEW m \in Buffered
          PROVE  m.id \in MessageId /\ m.from \in Emitter /\ m.size \in Size
      BY DEF Buffered, Emitter
    <3>2. Len(other) \in Nat /\ \A k \in 1..Len(other) : other[k] \in Buffered
      BY <2>1
    <3> HIDE DEF other
    <3>3. \A k \in 1..Len(other) :
            InterfaceMessage(i, other[k].id, other[k].from, other[k].size)
              \in Notification
      BY <3>1, <3>2, MakeNotifications
    <3>4. sent \in Seq(Notification) /\ Len(sent) = Len(other)
      BY <3>2, <3>3, IsASeq, LenProperties
    <3> QED
      BY <3>4, NotResponses
  <2>3. notifications_queue' = [notifications_queue EXCEPT ![p] = @ \o sent]
    BY <1>3, <2>1, Zenon DEF SetInterfaceHandler
  <2> HIDE DEF sent
  <2>4. /\ notifications_queue[p] \in Seq(Notification)
        /\ notifications_queue'[p] = notifications_queue[p] \o sent
        /\ \A q \in Pid : q # p => notifications_queue'[q] = notifications_queue[q]
    BY <2>1, <2>3 DEF TypeOK
  <2>5. OwnResponses(emitter, messages_to_answer, p, notifications_queue'[p])
    BY <1>1, <2>1, <2>2, <2>4, ConcatResponses, ResponseOncePerQueue
  <2>6. \A q \in Pid :
          OwnResponses(emitter', messages_to_answer', q, notifications_queue'[q])
    BY <1>1, <2>4, <2>5, ResponseOncePerQueue, Zenon
  <2>7. ResponseOnce' /\ IdsDrawn'
    BY <1>1, <2>6, SameIdsKeep, Zenon DEF ResponseOnce, OwnResponses
  <2>8. doing' = [op |-> "register", iface |-> i, pid |-> p,
                  threads |-> interfaces[i].threads]
    BY <2>1, Zenon DEF SetInterfaceHandler
  <2>9. doing'.op = "register" /\ doing'.pid = p
    BY <2>8
  <2>10. \A q \in Pid, m \in ThreadIndex : MissesNoMore(q, m)
    BY <1>1, <2>4, <2>9 DEF MissesNoMore
  <2> QED
    BY <1>1, <2>7, <2>10, QuietOverlook DEF Delivery
<1> QED
  BY <1>2, <1>3, Zenon DEF SetInterfaceHandler

LEMMA EmitInterfaceMessageDelivers ==
  ASSUME TypeOK, Delivery, NEW r \in ReservedPid, NEW i \in Interface,
         NEW ans \in BOOLEAN, EmitInterfaceMessage(r, i, ans)
  PROVE  Delivery'
<1>1. /\ Quiet /\ UNCHANGED thread
      /\ IdsDrawn /\ ResponseOnce /\ NoOverlook
      /\ r \in Emitter
  BY Zenon DEF EmitInterfaceMessage, Embedder, Delivery, Emitter
<1>2. PICK id \in MessageId, size \in Size :
        \/ /\ IF ans THEN DrawId(r, id)
                     ELSE id = NoMessage /\ UNCHANGED <<message_id_pool, emitter>>
           /\ UNCHANGED <<notifications_queue, messages_to_answer>>
        \/ /\ AssignId(ans, r, id)
           /\ \/ /\ interfaces[i].pid \in alive
                 /\ Push(interfaces[i].pid, InterfaceMessage(i, id, r, size))
              \/ UNCHANGED notifications_queue
  BY Zenon DEF EmitInterfaceMessage
<1>3. IdsDrawn' /\ IdsKept
  BY <1>1, <1>2, DrawIdKeeps, AssignIdKeeps, SameIdsKeep
<1>4. CASE UNCHANGED notifications_queue
  <2>1. ResponseOnce'
    BY <1>1, <1>3, <1>4, SameQueuesResponses
  <2>2. \A q \in Pid, m \in ThreadIndex : MissesNoMore(q, m)
    BY <1>1, <1>4 DEF MissesNoMore
  <2> QED
    BY <1>1, <1>3, <2>1, <2>2, QuietOverlook DEF Delivery
<1>5. ASSUME NEW h \in alive, Push(h, InterfaceMessage(i, id, r, size))
      PROVE  Delivery'
  <2> DEFINE notif == InterfaceMessage(i, id, r, size)
  <2>1. notif \in Notification /\ notif.kind # "Response" /\ h \in Pid
    BY <1>1, MakeNotifications, NotResponses DEF TypeOK
  <2> HIDE DEF notif
  <2>2. notifications_queue' = [notifications_queue EXCEPT ![h] = Append(@, notif)]
    BY <1>5 DEF Push, notif
  <2>3. ResponseOnce'
    BY <1>1, <1>3, <2>1, <2>2, AppendedResponses, Zenon
  <2>4. ASSUME NEW q \in Pid, NEW m \in ThreadIndex PROVE MissesNoMore(q, m)
    <3>1. CASE q = h
      BY <1>5, <2>1, <3>1, PushSeen DEF notif
    <3>2. CASE q # h
      <4>1. notifications_queue'[q] = notifications_queue[q]
        BY <2>2, <3>2 DEF TypeOK
      <4> QED
        BY <1>1, <4>1 DEF MissesNoMore
    <3> QED
      BY <3>1, <3>2
  <2> QED
    BY <1>1, <1>3, <2>3, <2>4, QuietOverlook DEF Delivery
<1> QED
  BY <1>2, <1>4, <1>5

LEMMA ApiDelivers == TypeOK /\ Delivery /\ Api => Delivery'
<1> SUFFICES ASSUME TypeOK, Delivery, Api PROVE Delivery'
  OBVIOUS
<1>1. ASSUME NEW p \in Pid, NEW n \in ThreadIndex, (n = 1 /\ Execute(p)) \/ StartThread(p, n)
      PROVE  Delivery'
  <2>1. /\ Quiet /\ thread' = [thread EXCEPT ![p][n] = ReadyToRun]
        /\ UNCHANGED <<notifications_queue, messages_to_answer, message_id_pool, emitter>>
    BY <1>1 DEF Execute, StartThread, Embedder
  <2> QED
    BY <2>1, ReadyStep, Zenon
<1>2. ASSUME NEW id \in DrawnIds, NEW ok \in BOOLEAN, AnswerMessage(id, ok)
      PROVE  Delivery'
  <2>1. /\ Quiet /\ id \in MessageId /\ AnswerMessageInner(id, ok)
        /\ UNCHANGED <<thread, emitter, message_id_pool>>
    BY <1>2 DEF AnswerMessage, DrawnIds, Embedder
  <2> QED
    BY <2>1, AnswerDelivers
<1>3. 1 \in ThreadIndex
  BY BoundAssumption DEF ThreadIndex
<1> QED
  BY <1>1, <1>2, <1>3, SetInterfaceHandlerDelivers, EmitInterfaceMessageDelivers DEF Api

LEMMA RunDelivers == TypeOK /\ Delivery /\ Run => Delivery'
<1> SUFFICES ASSUME TypeOK, Delivery, Run PROVE Delivery'
  OBVIOUS
<1>1. CASE PopEvent \/ RunIdle
  <2>1. /\ Quiet
        /\ UNCHANGED <<thread, notifications_queue, messages_to_answer,
                       message_id_pool, emitter>>
    BY <1>1 DEF PopEvent, RunIdle
  <2> QED
    BY <2>1, IdleStep
<1> QED
  BY <1>1, PopLocalRunQueueDelivers, ThreadStepDelivers, ResumeNextDelivers,
     NotifyHandlerDelivers, ProgramFinishedDelivers, WakeSleepingThreadDelivers,
     HandlerRegisteredDelivers DEF Run

LEMMA DeliveryInvariant == Spec => []Delivery
<1>1. Init => Delivery
  <2> SUFFICES ASSUME Init PROVE Delivery
    OBVIOUS
  <2>1. IdsDrawn /\ ResponseOnce
    BY DEF Init, IdsDrawn, ResponseOnce
  <2>2. NoOverlook
    BY DEF Init, NoOverlook, Overlooks, NoThread, WaitStates
  <2> QED
    BY <2>1, <2>2 DEF Delivery
<1>2. TypeOK /\ Delivery /\ [Next]_vars => Delivery'
  <2> SUFFICES ASSUME TypeOK, Delivery, [Next]_vars PROVE Delivery'
    OBVIOUS
  <2>1. CASE UNCHANGED vars
    <3>1. IdsDrawn' /\ ResponseOnce'
      BY <2>1 DEF vars, Delivery, IdsDrawn, ResponseOnce
    <3>2. NoOverlook'
      BY <2>1, Zenon DEF vars, Delivery, NoOverlook, Overlooks
    <3> QED
      BY <3>1, <3>2 DEF Delivery
  <2> QED
    BY <2>1, RunDelivers, ApiDelivers DEF Next, Stopped
<1> QED
  BY <1>1, <1>2, TypeCorrect, PTL DEF Spec

(* A queued response is for the process that emitted the message, the       *)
(* message no longer awaits an answer, and it has no second response        *)
(* (answer_message_inner), for any number of processes, threads, messages.  *)
THEOREM ResponsesOnce == Spec => []ResponseOnce
  BY DeliveryInvariant, PTL DEF Delivery

(* Between two handlers no thread waits in next_notification, or inside an  *)
(* extrinsic, while a notification that it accepts is queued                *)
(* (try_resume_notification_wait).                                          *)
THEOREM NothingMissed == Spec => []NoMissedNotification
<1>1. NoOverlook => NoMissedNotification
  BY MakeHandlers DEF NoOverlook, NoMissedNotification, Quiet
<1>2. Delivery => NoMissedNotification
  BY <1>1 DEF Delivery
<1> QED
  BY <1>2, DeliveryInvariant, PTL

(* What a step may do to the ids: nothing, draw one, or forget an entry. *)
IdsStep ==
  \/ UNCHANGED <<messages_to_answer, emitter, message_id_pool>>
  \/ \E ans \in BOOLEAN, by \in Emitter, id \in MessageId : AssignId(ans, by, id)
  \/ \E by \in Emitter, id \in MessageId : DrawId(by, id) /\ UNCHANGED messages_to_answer
  \/ \E id \in MessageId : /\ messages_to_answer' = RemoveEntry(id)
                           /\ UNCHANGED <<emitter, message_id_pool>>

LEMMA HandleEmitIds ==
  ASSUME NEW p \in Emitter, NEW n, NEW e, e.ans \in BOOLEAN, NEW q,
         HandleEmit(p, n, e, q)
  PROVE  IdsStep
<1>1. CASE EmitToHandler(p, n, e, q)
  <2>1. PICK id \in MessageId : AssignId(e.ans, p, id)
    BY <1>1, Zenon DEF EmitToHandler
  <2> QED
    BY <2>1 DEF IdsStep
<1>2. CASE RefuseEmit(p, n, e, q) \/ DelayEmit(p, n, e, q)
  BY <1>2 DEF RefuseEmit, DelayEmit, IdsStep
<1> QED
  BY <1>1, <1>2 DEF HandleEmit

LEMMA ApplyExtrinsicActionIds ==
  ASSUME NEW p \in Emitter, NEW n, NEW a \in Action, NEW q,
         ApplyExtrinsicAction(p, n, a, q)
  PROVE  IdsStep
<1>1. CASE a.do = "EmitMessage"
  <2> DEFINE e == [st |-> "OtherExtrinsicEmit", iface |-> a.iface, ans |-> a.ans,
                   delay |-> TRUE]
  <2>1. e.ans \in BOOLEAN
    BY <1>1, ActionAssumption
  <2>2. HandleEmit(p, n, e, q)
    BY <1>1 DEF ApplyExtrinsicAction
  <2> HIDE DEF e
  <2> QED
    BY <2>1, <2>2, HandleEmitIds
<1>2. CASE a.do # "EmitMessage"
  BY <1>2, Zenon DEF ApplyExtrinsicAction, IdsStep
<1> QED
  BY <1>1, <1>2

LEMMA ThreadStepIds ==
  ASSUME NEW p \in Pid, NEW n \in ThreadIndex, ThreadStep(p, n)
  PROVE  IdsStep
<1>0. p \in Emitter
  BY DEF Emitter
<1>1. ASSUME NEW i \in Interface, NEW ans \in BOOLEAN, NEW delay \in BOOLEAN,
             ThreadEmitMessage(p, n, i, ans, delay)
      PROVE  IdsStep
  <2> DEFINE e == [st |-> "EmitMessage", iface |-> i, ans |-> ans, delay |-> delay]
  <2>1. e.ans \in BOOLEAN /\ HandleEmit(p, n, e, local_run_queue)
    BY <1>1 DEF ThreadEmitMessage
  <2> HIDE DEF e
  <2> QED
    BY <1>0, <2>1, HandleEmitIds
<1>2. ASSUME NEW a \in Action, ThreadOtherExtrinsic(p, n, a) PROVE IdsStep
  BY <1>0, <1>2, ApplyExtrinsicActionIds DEF ThreadOtherExtrinsic
<1>3. ASSUME NEW id \in DrawnIds, NEW ok, ThreadEmitAnswer(p, n, id, ok) PROVE IdsStep
  BY <1>3, Zenon DEF ThreadEmitAnswer, AnswerMessageInner, DrawnIds, IdsStep
<1>4. ASSUME NEW id \in DrawnIds, ThreadCancelMessage(p, n, id) PROVE IdsStep
  BY <1>4 DEF ThreadCancelMessage, DrawnIds, IdsStep
<1>5. ASSUME NEW ids, NEW size, NEW block, ThreadWaitNotification(p, n, ids, size, block)
      PROVE  IdsStep
  BY <1>5 DEF ThreadWaitNotification, IdsStep
<1>6. CASE ThreadFinished(p, n) \/ ProcessFinished(p, n)
  BY <1>6, Zenon DEF ThreadFinished, ProcessFinished, IdsStep
<1> QED
  BY <1>1, <1>2, <1>3, <1>4, <1>5, <1>6 DEF ThreadStep

LEMMA PopLocalRunQueueIds == TypeOK /\ PopLocalRunQueue => IdsStep
<1> SUFFICES ASSUME TypeOK, PopLocalRunQueue PROVE IdsStep
  OBVIOUS
<1> DEFINE p == Head(local_run_queue)[1]
           n == Head(local_run_queue)[2]
           q == Tail(local_run_queue)
<1>0. local_run_queue \in Seq(Tid) /\ local_run_queue # <<>>
  BY Zenon DEF PopLocalRunQueue, TypeOK
<1>1. p \in Pid /\ p \in Emitter /\ n \in ThreadIndex /\ thread[p][n] \in ThreadState
  BY <1>0, FirstThread DEF TypeOK, Emitter
<1> HIDE DEF p, n, q
<1>2. CASE UNCHANGED <<messages_to_answer, emitter, message_id_pool>>
  BY <1>2 DEF IdsStep
<1>3. CASE /\ thread[p][n].st = "OtherExtrinsicApplyAction"
           /\ ApplyExtrinsicAction(p, n, thread[p][n].action, q)
  <2>1. thread[p][n].action \in Action
    BY <1>1, <1>3, ThreadStates, Zenon DEF ApplyRecord
  <2> QED
    BY <1>1, <1>3, <2>1, ApplyExtrinsicActionIds, Zenon
<1> QED
  BY <1>2, <1>3, Zenon DEF PopLocalRunQueue, p, n, q

LEMMA WakeSleepingThreadIds == TypeOK /\ WakeSleepingThread => IdsStep
<1> SUFFICES ASSUME TypeOK, WakeSleepingThread PROVE IdsStep
  OBVIOUS
<1> DEFINE p == Head(doing.threads)[1]
           n == Head(doing.threads)[2]
           e == thread[p][n]
<1>1. doing.op = "register" /\ doing.threads # <<>>
  BY Zenon DEF WakeSleepingThread
<1>2. p \in Pid /\ p \in Emitter /\ n \in ThreadIndex /\ e \in ThreadState
  BY <1>1, FirstSleeper, Zenon
<1> HIDE DEF p, n, e
<1>3. CASE e.st \in EmitStates
  <2>1. e.ans \in BOOLEAN
    BY <1>2, <1>3, ThreadStates DEF EmitRecord
  <2>2. \E id \in MessageId : AssignId(e.ans, p, id)
    BY <1>3, Zenon DEF WakeSleepingThread, p, n, e
  <2> QED
    BY <1>2, <2>1, <2>2 DEF IdsStep
<1>4. CASE e.st \notin EmitStates
  BY <1>4, Zenon DEF WakeSleepingThread, IdsStep, p, n, e
<1> QED
  BY <1>3, <1>4

LEMMA ApiIds == Api => IdsStep
<1> SUFFICES ASSUME Api PROVE IdsStep
  OBVIOUS
<1>1. ASSUME NEW r \in ReservedPid, NEW i \in Interface, NEW ans \in BOOLEAN,
             EmitInterfaceMessage(r, i, ans)
      PROVE  IdsStep
  <2>1. r \in Emitter
    BY DEF Emitter
  <2> QED
    BY <1>1, <2>1, Zenon DEF EmitInterfaceMessage, IdsStep
<1>2. ASSUME NEW id \in DrawnIds, NEW ok, AnswerMessage(id, ok) PROVE IdsStep
  BY <1>2 DEF AnswerMessage, AnswerMessageInner, DrawnIds, IdsStep
<1> QED
  BY <1>1, <1>2, Zenon DEF Api, Execute, StartThread, SetInterfaceHandler, IdsStep

LEMMA NextIds == TypeOK /\ IdsDrawn /\ [Next]_vars => IdsKept
<1> SUFFICES ASSUME TypeOK, IdsDrawn, [Next]_vars PROVE IdsKept
  OBVIOUS
<1>1. CASE PopEvent \/ RunIdle \/ ResumeNext \/ NotifyHandler \/ ProgramFinished
           \/ HandlerRegistered \/ UNCHANGED vars
  <2>1. UNCHANGED <<messages_to_answer, emitter, message_id_pool>>
    BY <1>1, Zenon DEF PopEvent, RunIdle, ResumeNext, NotifyHandler, ProgramFinished,
                HandlerRegistered, vars
  <2> QED
    BY <2>1, SameIdsKeep
<1>2. CASE IdsStep
  BY <1>2, SameIdsKeep, AssignIdKeeps, DrawIdKeeps, RemoveEntryKeeps DEF IdsStep
<1> QED
  BY <1>1, <1>2, ThreadStepIds, PopLocalRunQueueIds, WakeSleepingThreadIds, ApiIds
     DEF Next, Run, Stopped

(* A message that was answered or cancelled never awaits an answer again:   *)
(* the loops around message_id_pool.assign() draw its id no second time.    *)
THEOREM AnsweredStays == Spec => AnsweredForGood
<1>1. TypeOK /\ Delivery /\ [Next]_vars =>
        \A id \in MessageId :
          (emitter[id] # NoPid /\ messages_to_answer[id] = NoPid)
            => messages_to_answer'[id] = NoPid
  BY NextIds DEF Delivery, IdsKept
<1> QED
  BY <1>1, DeliveryInvariant, TypeCorrect, PTL DEF Spec, AnsweredForGood
=============================================================================
