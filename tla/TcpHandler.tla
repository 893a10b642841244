----------------------------- MODULE TcpHandler ------------------------------
(***************************************************************************)
(* The TCP handler of the hosted kernel (kernel/hosted-tcp/src/lib.rs): a  *)
(* front, polled by the system loop, and one background task per socket    *)
(* and per listening port.  The front sends commands to the tasks over     *)
(* unbounded channels; the tasks send events back over one bounded channel *)
(* (`receiver`).                                                           *)
(*                                                                         *)
(* A task is named after the client stream whose `Open` message spawned    *)
(* it.  The bytes of a stream are numbered from 1 in the order in which    *)
(* they were sent.  The network is what the tasks see of it.  A panic in a *)
(* task aborts the whole process, as async-std does.                       *)
(***************************************************************************)
EXTENDS Integers, SequencesExt

CONSTANTS Stream,    \* the client streams, each opened at most once
          SocketId,  \* what rand::random may return
          Port,      \* the local ports
          MaxIn,     \* MaxIn[s]: bound on the bytes that the remote of s sends
          MaxOut,    \* MaxOut[s]: bound on the bytes that s writes
          Buffer,    \* capacity of `receiver` (32 in the code)
          None

ASSUME TcpAssumption ==
    /\ MaxIn \in [Stream -> Nat] /\ MaxOut \in [Stream -> Nat] /\ Buffer \in Nat \ {0}
    /\ None \notin Stream \cup Port \cup SocketId

VARIABLES registered,      \* TcpHandler::registered
          sockets,         \* TcpHandler::sockets, [st, task] of each id
          receiver,        \* the channel from the tasks to the front
          listener,        \* listener[p]: "none", "binding", "listening" or "failed"
          front_to_back,   \* front_to_back[p]: commands for the listener task
          pending_sockets, \* pending_sockets[p], of the listener task
          conn,            \* conn[t]: "none", "connecting", "open" or "ended"
          socket_id,       \* socket_id[t], a parameter of socket_task
          commands_rx,     \* commands_rx[t]
          read_message,    \* read_message[t]
          write_message,   \* write_message[t]
          write_buffer,    \* write_buffer[t] from write_buffer_offset on
          outbox,          \* outbox[x]: what task x waits to send to the front
          arrived,         \* arrived[t]: number of bytes that came from the remote
          taken,           \* taken[t]: number of them that were read
          eof,             \* the remote of t has closed its side
          remote_got,      \* remote_got[t]: bytes the remote has received
          answers,         \* answers given to the kernel and not consumed yet
          faults,          \* errors of the operating system that have occurred
          panic

front == <<registered, sockets, receiver>>
listening == <<listener, front_to_back, pending_sockets>>
tasks == <<conn, socket_id, commands_rx, read_message, write_message, write_buffer>>
network == <<arrived, taken, eof, remote_got>>
handler == <<front, listening, tasks, outbox, network, answers, faults, panic>>

Absent == [st |-> "Absent", task |-> None]
Orphan == [st |-> "Orphan", task |-> None]
Connected(t) == [st |-> "Connected", task |-> t]
Listener(p) == [st |-> "Listener", task |-> p]

\* A message of stream t; n tells two consecutive ones of a kind apart.
MsgId(t, op, n) == [task |-> t, op |-> op, n |-> n]
Bytes(from, to) == [i \in 1..(to - from + 1) |-> from + i - 1]

TcpInit ==
    /\ registered = FALSE
    /\ sockets = [s \in SocketId |-> Absent]
    /\ receiver = <<>>
    /\ listener = [p \in Port |-> "none"]
    /\ front_to_back = [p \in Port |-> <<>>]
    /\ pending_sockets = [p \in Port |-> <<>>]
    /\ conn = [t \in Stream |-> "none"]
    /\ socket_id = [t \in Stream |-> None]
    /\ commands_rx = [t \in Stream |-> <<>>]
    /\ read_message = [t \in Stream |-> None]
    /\ write_message = [t \in Stream |-> None]
    /\ write_buffer = [t \in Stream |-> <<>>]
    /\ outbox = [x \in Stream \cup Port |-> <<>>]
    /\ arrived = [t \in Stream |-> 0] /\ taken = [t \in Stream |-> 0]
    /\ eof = [t \in Stream |-> FALSE]
    /\ remote_got = [t \in Stream |-> <<>>]
    /\ answers = {}
    /\ faults = {}
    /\ panic = FALSE
-----------------------------------------------------------------------------
(* The front. *)

Panic == panic' = TRUE /\ UNCHANGED <<sockets, answers>>

Answer(id, sid, data) ==
    answers' = answers \cup {[id |-> id, sid |-> sid, data |-> data]} /\ UNCHANGED panic

\* The first call of next_event registers the interface.
Register ==
    /\ ~registered
    /\ registered' = TRUE
    /\ UNCHANGED <<sockets, receiver, listening, tasks, outbox, network, answers, faults, panic>>

\* BackToFront::OpenOk: the entry must still exist.
OpenOk(m) ==
    IF sockets[m.sid].st = "Absent"
    THEN Panic
    ELSE /\ sockets' = [sockets EXCEPT ![m.sid] = Connected(m.id.task)]
         /\ Answer(m.id, m.sid, <<>>)

\* BackToFront::OpenErr: the entry must be the orphan of this task.
OpenErr(m) ==
    IF sockets[m.sid] # Orphan
    THEN Panic
    ELSE /\ sockets' = [sockets EXCEPT ![m.sid] = Absent]
         /\ Answer(m.id, None, <<>>)

NextEvent ==
    /\ registered
    /\ receiver # <<>>
    /\ receiver' = Tail(receiver)
    /\ LET m == Head(receiver)
       IN  CASE m.kind = "OpenOk" -> OpenOk(m)
             [] m.kind = "OpenErr" -> OpenErr(m)
             [] OTHER -> Answer(m.id, None, m.data) /\ UNCHANGED sockets
    /\ UNCHANGED <<registered, listening, tasks, outbox, network, faults>>

\* The search for a vacant entry starts at a random id and wraps: any may be found.
VacantAny(sid) == TRUE
Vacant(sid) == sockets[sid] = Absent

\* Open for a destination: spawns socket_task under a vacant id.
OpenSocket(m) ==
    /\ \E sid \in SocketId :
          /\ Vacant(sid)
          /\ sockets' = [sockets EXCEPT ![sid] = Orphan]
          /\ socket_id' = [socket_id EXCEPT ![m.id.task] = sid]
    /\ conn' = [conn EXCEPT ![m.id.task] = "connecting"]
    /\ UNCHANGED <<listening, commands_rx, read_message, write_message, write_buffer, answers, panic>>

\* Open for a local port: the first one spawns listener_task; the command is sent
\* with an unwrap, which fails once the task has returned.
OpenListener(m) ==
    /\ \E sid \in SocketId :
          /\ Vacant(sid)
          /\ IF listener[m.port] = "failed"
             THEN Panic /\ UNCHANGED <<listener, front_to_back>>
             ELSE /\ listener' = [listener EXCEPT ![m.port] = IF @ = "none" THEN "binding" ELSE @]
                  /\ front_to_back' = [front_to_back EXCEPT ![m.port] = Append(@, [sid |-> sid, id |-> m.id])]
                  /\ sockets' = [sockets EXCEPT ![sid] = Listener(m.port)]
                  /\ UNCHANGED <<answers, panic>>
    /\ UNCHANGED <<pending_sockets, tasks>>

Close(m) ==
    /\ sockets' = [sockets EXCEPT ![m.sid] = Absent]
    /\ UNCHANGED <<listening, tasks, answers, panic>>

\* Read and Write: forwarded to the task of the socket, three unwraps on the way.
Command(m) ==
    LET s == sockets[m.sid]
    IN  /\ IF s.st = "Connected" /\ conn[s.task] = "open"
           THEN /\ commands_rx' = [commands_rx EXCEPT ![s.task] = Append(@, m)]
                /\ UNCHANGED <<sockets, answers, panic>>
           ELSE Panic /\ UNCHANGED commands_rx
        /\ UNCHANGED <<listening, conn, socket_id, read_message, write_message, write_buffer>>

InterfaceMessage(m) ==
    /\ registered
    /\ CASE m.op = "dial" -> OpenSocket(m)
         [] m.op = "listen" -> OpenListener(m)
         [] m.op = "close" -> Close(m)
         [] OTHER -> Command(m)
    /\ UNCHANGED <<registered, receiver, outbox, network, faults>>
-----------------------------------------------------------------------------
(* socket_task and open_socket_task. *)

Event(kind, id, sid, data) == [kind |-> kind, id |-> id, sid |-> sid, data |-> data]
Idle(x) == outbox[x] = <<>>
EmitEvent(x, e) == outbox' = [outbox EXCEPT ![x] = <<e>>]

Room == Len(receiver) < Buffer

\* back_to_front.send(..).await
Send(x) ==
    /\ outbox[x] # <<>>
    /\ Room
    /\ receiver' = Append(receiver, outbox[x][1])
    /\ outbox' = [outbox EXCEPT ![x] = <<>>]
    /\ UNCHANGED <<registered, sockets, listening, tasks, network, answers, faults, panic>>

ConnectOk(t) ==
    /\ conn' = [conn EXCEPT ![t] = "open"]
    /\ EmitEvent(t, Event("OpenOk", MsgId(t, "open", 0), socket_id[t], None))

ConnectErr(t) ==
    /\ conn' = [conn EXCEPT ![t] = "ended"]
    /\ EmitEvent(t, Event("OpenErr", MsgId(t, "open", 0), socket_id[t], None))

\* TcpStream::connect has ended.
Connect(t) ==
    /\ conn[t] = "connecting"
    /\ ConnectOk(t) \/ ConnectErr(t)
    /\ UNCHANGED <<front, listening, socket_id, commands_rx, read_message, write_message, write_buffer, network,
                   answers, faults, panic>>

\* The sender of commands_rx is in the front state or on its way to it.
SenderAlive(t) ==
    \/ \E s \in SocketId : sockets[s] = Connected(t)
    \/ \E e \in Range(receiver) \cup UNION {Range(outbox[x]) : x \in Stream \cup Port} :
          e.kind = "OpenOk" /\ e.id.task = t

\* commands_rx has yielded a command: a second read or write panics.
TakeCommand(t) ==
    /\ conn[t] = "open" /\ Idle(t)
    /\ commands_rx[t] # <<>>
    /\ commands_rx' = [commands_rx EXCEPT ![t] = Tail(@)]
    /\ LET m == Head(commands_rx[t])
           busy == IF m.op = "read" THEN read_message[t] ELSE write_message[t]
       IN  /\ panic' = (busy # None)
           /\ IF m.op = "read"
              THEN /\ read_message' = [read_message EXCEPT ![t] = m.id]
                   /\ UNCHANGED <<write_message, write_buffer>>
              ELSE /\ write_message' = [write_message EXCEPT ![t] = m.id]
                   /\ write_buffer' = [write_buffer EXCEPT ![t] = m.data]
                   /\ UNCHANGED read_message
    /\ UNCHANGED <<front, listening, conn, socket_id, outbox, network, answers, faults>>

\* commands_rx is closed: the task returns, whatever is in progress.
TaskEnds(t) ==
    /\ conn[t] = "open" /\ Idle(t)
    /\ commands_rx[t] = <<>> /\ ~SenderAlive(t)
    /\ conn' = [conn EXCEPT ![t] = "ended"]
    /\ UNCHANGED <<front, listening, socket_id, commands_rx, read_message, write_message,
                   write_buffer, outbox, network, answers, faults, panic>>

\* Option::take leaves None.
TakeKeeps(option) == option
Take(option) == None

WholeBufferWritten(rest) == rest = <<>>

\* WriteFinished: a partial write; the answer goes with the last byte.
WriteFinished(t) ==
    /\ conn[t] = "open" /\ Idle(t)
    /\ write_message[t] # None
    /\ \E n \in 1..Len(write_buffer[t]) :
          /\ remote_got' = [remote_got EXCEPT ![t] = @ \o SubSeq(write_buffer[t], 1, n)]
          /\ write_buffer' = [write_buffer EXCEPT ![t] = SubSeq(@, n + 1, Len(@))]
    /\ IF WholeBufferWritten(write_buffer'[t])
       THEN /\ EmitEvent(t, Event("Write", write_message[t], None, None))
            /\ write_message' = [write_message EXCEPT ![t] = Take(@)]
       ELSE UNCHANGED <<outbox, write_message>>
    /\ UNCHANGED <<front, listening, conn, socket_id, commands_rx, read_message, arrived, taken, eof,
                   answers, faults, panic>>

\* What a read into the buffer of 512 bytes may return.
ReadSizesEmptyBuffer(t) == {0}
ReadSizes(t) == {n \in 0..(arrived[t] - taken[t]) : n = 0 => (eof[t] /\ arrived[t] = taken[t])}

\* ReadFinished: some of the bytes that have arrived, or nothing at the end.
ReadFinished(t) ==
    /\ conn[t] = "open" /\ Idle(t)
    /\ read_message[t] # None
    /\ \E n \in ReadSizes(t) :
          /\ EmitEvent(t, Event("Read", read_message[t], None, Bytes(taken[t] + 1, taken[t] + n)))
          /\ taken' = [taken EXCEPT ![t] = @ + n]
    /\ read_message' = [read_message EXCEPT ![t] = Take(@)]
    /\ UNCHANGED <<front, listening, conn, socket_id, commands_rx, write_message, write_buffer,
                   arrived, eof, remote_got, answers, faults, panic>>

\* The read or the write in progress fails, and its unwrap with it.
SocketError(t) ==
    /\ conn[t] = "open" /\ Idle(t)
    /\ read_message[t] # None \/ write_message[t] # None
    /\ faults' = faults \cup {"socket"}
    /\ panic' = TRUE
    /\ UNCHANGED <<front, listening, tasks, outbox, network, answers>>
-----------------------------------------------------------------------------
(* listener_task. *)

\* TcpListener::bind has ended; on an error the task returns.
Bind(p) ==
    /\ listener[p] = "binding"
    /\ \/ listener' = [listener EXCEPT ![p] = "listening"] /\ UNCHANGED faults
       \/ listener' = [listener EXCEPT ![p] = "failed"] /\ faults' = faults \cup {"bind"}
    /\ UNCHANGED <<front, front_to_back, pending_sockets, tasks, outbox, network, answers, panic>>

ListenerCommand(p) ==
    /\ listener[p] = "listening" /\ Idle(p)
    /\ front_to_back[p] # <<>>
    /\ pending_sockets' = [pending_sockets EXCEPT ![p] = Append(@, Head(front_to_back[p]))]
    /\ front_to_back' = [front_to_back EXCEPT ![p] = Tail(@)]
    /\ UNCHANGED <<front, listener, tasks, outbox, network, answers, faults, panic>>

\* A remote connects: it gets the task of the oldest pending Open, or is dropped.
AcceptRemote(p) ==
    /\ listener[p] = "listening" /\ Idle(p)
    /\ pending_sockets[p] # <<>>
    /\ LET s == Head(pending_sockets[p])
       IN  /\ conn' = [conn EXCEPT ![s.id.task] = "open"]
           /\ EmitEvent(p, Event("OpenOk", s.id, s.sid, None))
    /\ pending_sockets' = [pending_sockets EXCEPT ![p] = Tail(@)]
    /\ UNCHANGED <<front, listener, front_to_back, socket_id, commands_rx, read_message,
                   write_message, write_buffer, network, answers, faults, panic>>

\* accept has failed: panic!().
AcceptError(p) ==
    /\ listener[p] = "listening" /\ Idle(p)
    /\ faults' = faults \cup {"accept"}
    /\ panic' = TRUE
    /\ UNCHANGED <<front, listening, tasks, outbox, network, answers>>

ListenerTask(p) == Bind(p) \/ ListenerCommand(p) \/ AcceptRemote(p) \/ Send(p)
-----------------------------------------------------------------------------
(* The remotes. *)

RemoteSends(t) ==
    /\ conn[t] = "open" /\ ~eof[t] /\ arrived[t] < MaxIn[t]
    /\ arrived' = [arrived EXCEPT ![t] = @ + 1]
    /\ UNCHANGED <<front, listening, tasks, outbox, taken, eof, remote_got, answers, faults, panic>>

RemoteCloses(t) ==
    /\ conn[t] = "open" /\ ~eof[t]
    /\ eof' = [eof EXCEPT ![t] = TRUE]
    /\ UNCHANGED <<front, listening, tasks, outbox, arrived, taken, remote_got, answers, faults, panic>>

SocketTask(t) ==
    \/ Connect(t) \/ TakeCommand(t) \/ TaskEnds(t) \/ WriteFinished(t) \/ ReadFinished(t)
    \/ Send(t)

HandlerNext ==
    \/ Register \/ NextEvent
    \/ \E t \in Stream : SocketTask(t) \/ SocketError(t) \/ RemoteSends(t) \/ RemoteCloses(t)
    \/ \E p \in Port : ListenerTask(p) \/ AcceptError(p)
=============================================================================
