------------------------------ MODULE TcpStream ------------------------------
(***************************************************************************)
(* The client side of the TCP interface (interfaces/tcp/src/lib.rs)        *)
(* composed with the handler of the hosted kernel: `TcpStream::new`,       *)
(* `poll_read`, `poll_write` and `drop` send messages that the kernel      *)
(* delivers in order; their answers come back in any order.                *)
(*                                                                         *)
(* A stream of `Listening` is one of the futures of `TcpListener`          *)
(* (TcpStream::new with listen = true).  A user polls a read again when    *)
(* its answer has come, and may drop a stream at any moment.               *)
(***************************************************************************)
EXTENDS TcpHandler

CONSTANTS Listening, \* the streams opened by a TcpListener
          Sizes      \* the lengths of the buffers that users give

ASSUME StreamAssumption == Listening \subseteq Stream /\ Sizes \subseteq Nat \ {0}

VARIABLES st,            \* st[s]: "new", "opening", "open", "failed" or "dropped"
          handle,        \* TcpStream::handle
          read_buffer,   \* TcpStream::read_buffer
          pending_read,  \* TcpStream::pending_read
          pending_write, \* TcpStream::pending_write
          next_n,        \* next_n[s][op] distinguishes the next message
          reading,       \* streams whose user waits in poll_read
          got,           \* got[s]: the bytes that poll_read has returned
          written,       \* written[s]: number of bytes accepted by poll_write
          requests       \* messages on their way to the handler

client == <<st, handle, read_buffer, pending_read, pending_write, next_n, reading, got,
            written, requests>>
vars == <<handler, client>>

Init ==
    /\ TcpInit
    /\ st = [s \in Stream |-> "new"]
    /\ handle = [s \in Stream |-> None]
    /\ read_buffer = [s \in Stream |-> <<>>]
    /\ pending_read = [s \in Stream |-> None]
    /\ pending_write = [s \in Stream |-> None]
    /\ next_n = [s \in Stream |-> [op \in {"read", "write"} |-> 0]]
    /\ reading = {}
    /\ got = [s \in Stream |-> <<>>]
    /\ written = [s \in Stream |-> 0]
    /\ requests = <<>>
-----------------------------------------------------------------------------
AnswerOf(id) == CHOOSE a \in answers : a.id = id
Answered(id) == \E a \in answers : a.id = id
EmitMessage(m) == requests' = Append(requests, m)
NextId(s, op) == MsgId(s, op, next_n[s][op])
DrawId(s, op) == next_n' = [next_n EXCEPT ![s][op] = 1 - @]

\* TcpStream::new sends Open.
New(s) ==
    /\ st[s] = "new"
    /\ st' = [st EXCEPT ![s] = "opening"]
    /\ \E p \in Port :
          EmitMessage([op |-> IF s \in Listening THEN "listen" ELSE "dial",
                       id |-> MsgId(s, "open", 0), port |-> p])
    /\ UNCHANGED <<handler, handle, read_buffer, pending_read, pending_write, next_n, reading,
                   got, written>>

\* The answer of Open gives the handle.
Opened(s) ==
    LET id == MsgId(s, "open", 0)
    IN  /\ st[s] = "opening" /\ Answered(id)
        /\ handle' = [handle EXCEPT ![s] = AnswerOf(id).sid]
        /\ st' = [st EXCEPT ![s] = IF handle'[s] = None THEN "failed" ELSE "open"]
        /\ answers' = answers \ {AnswerOf(id)}
        /\ UNCHANGED <<front, listening, tasks, outbox, network, faults, panic, read_buffer,
                       pending_read, pending_write, next_n, reading, got, written, requests>>

\* tmp.split_off(to_copy)
SplitOffLost(buffer, n) == <<>>
SplitOff(buffer, n) == SubSeq(buffer, n + 1, Len(buffer))

\* poll_read with a buffer of n bytes: takes the answer of the read in progress, if
\* any; returns bytes if it has some, and asks for more otherwise.
PollRead(s, n) ==
    /\ st[s] = "open"
    /\ IF pending_read[s] = None THEN s \notin reading ELSE Answered(pending_read[s])
    /\ LET done == pending_read[s] # None
           buffer == IF done THEN AnswerOf(pending_read[s]).data ELSE read_buffer[s]
           to_copy == IF n < Len(buffer) THEN n ELSE Len(buffer)
       IN  /\ answers' = IF done THEN answers \ {AnswerOf(pending_read[s])} ELSE answers
           /\ read_buffer' = [read_buffer EXCEPT ![s] = SplitOff(buffer, to_copy)]
           /\ IF buffer # <<>>
              THEN /\ got' = [got EXCEPT ![s] = @ \o SubSeq(buffer, 1, to_copy)]
                   /\ pending_read' = [pending_read EXCEPT ![s] = None]
                   /\ reading' = reading \ {s}
                   /\ UNCHANGED <<next_n, requests>>
              ELSE /\ pending_read' = [pending_read EXCEPT ![s] = NextId(s, "read")]
                   /\ EmitMessage([op |-> "read", sid |-> handle[s], id |-> NextId(s, "read")])
                   /\ DrawId(s, "read")
                   /\ reading' = reading \cup {s}
                   /\ UNCHANGED got
    /\ UNCHANGED <<front, listening, tasks, outbox, network, faults, panic, st, handle,
                   pending_write, written>>

PreviousWriteDone(s) == pending_write[s] # None => Answered(pending_write[s])

\* poll_write of n bytes: waits for the previous write, then returns at once.
PollWrite(s, n) ==
    /\ st[s] = "open"
    /\ written[s] + n <= MaxOut[s]
    /\ PreviousWriteDone(s)
    /\ answers' = {a \in answers : a.id # pending_write[s]}
    /\ pending_write' = [pending_write EXCEPT ![s] = NextId(s, "write")]
    /\ DrawId(s, "write")
    /\ EmitMessage([op |-> "write", sid |-> handle[s], id |-> NextId(s, "write"),
                    data |-> Bytes(written[s] + 1, written[s] + n)])
    /\ written' = [written EXCEPT ![s] = @ + n]
    /\ UNCHANGED <<front, listening, tasks, outbox, network, faults, panic, st, handle,
                   read_buffer, pending_read, reading, got>>

SendCloseNever(s) == UNCHANGED requests
SendClose(s) ==
    IF st[s] = "open" THEN EmitMessage([op |-> "close", sid |-> handle[s]]) ELSE UNCHANGED requests

\* Drop of a stream sends Close; the drop of the future of `new` sends nothing.
Drop(s) ==
    /\ st[s] \in {"opening", "open"}
    /\ st' = [st EXCEPT ![s] = "dropped"]
    /\ SendClose(s)
    /\ reading' = reading \ {s}
    /\ UNCHANGED <<handler, handle, read_buffer, pending_read, pending_write, next_n, got, written>>

\* The kernel delivers the messages of the client's process in order.
Deliver ==
    /\ requests # <<>>
    /\ InterfaceMessage(Head(requests))
    /\ requests' = Tail(requests)
    /\ UNCHANGED <<st, handle, read_buffer, pending_read, pending_write, next_n, reading, got, written>>

ClientStep(s) ==
    \/ New(s) \/ Opened(s) \/ Drop(s)
    \/ \E n \in Sizes : PollRead(s, n) \/ PollWrite(s, n)

Next ==
    /\ ~panic
    /\ \/ HandlerNext /\ UNCHANGED client
       \/ Deliver
       \/ \E s \in Stream : ClientStep(s)

Spec == Init /\ [][Next]_vars

\* The kernel polls the handler and delivers messages; the channel serves its blocked
\* senders in turn; tasks run when they can, with the write polled before the read and
\* the read before the commands; the operating system ends each connection attempt; a
\* user polls when its answer has come.
Fairness ==
    /\ WF_vars(~panic /\ (Register \/ NextEvent) /\ UNCHANGED client)
    /\ WF_vars(~panic /\ Deliver)
    /\ \A x \in Stream \cup Port : SF_vars(~panic /\ Send(x) /\ UNCHANGED client)
    /\ \A t \in Stream :
          /\ WF_vars(~panic /\ (Connect(t) \/ TakeCommand(t) \/ TaskEnds(t)) /\ UNCHANGED client)
          /\ SF_vars(~panic /\ WriteFinished(t) /\ UNCHANGED client)
          /\ SF_vars(~panic /\ ReadFinished(t) /\ UNCHANGED client)
          /\ WF_vars(~panic /\ Opened(t))
          /\ WF_vars(~panic /\ pending_read[t] # None /\ \E n \in Sizes : PollRead(t, n))

FairSpec == Spec /\ Fairness
-----------------------------------------------------------------------------
\* The unwraps, asserts and panics of the handler (hosted-tcp/src/lib.rs:151, 176, 273,
\* 299-303, 489, 500) are not reached by the streams of the client library, whatever
\* they close, drop or reopen: only an error of the operating system leads to one.
PanicOnlyAfterFault == panic => faults # {}

InFlight(s, op) ==
    Len(SelectSeq(requests, LAMBDA m : m.op = op /\ m.sid = handle[s]))
    + Len(SelectSeq(commands_rx[s], LAMBDA m : m.op = op))
    + (IF (IF op = "read" THEN read_message[s] ELSE write_message[s]) # None THEN 1 ELSE 0)
    + Len(SelectSeq(outbox[s] \o receiver, LAMBDA e : e.id.op = op /\ e.id.task = s))
    + Cardinality({a \in answers : a.id.op = op /\ a.id.task = s})

\* "For each socket, only one read can exist at any given point in time", "only one
\* write" (interfaces/tcp/src/ffi.rs:29-33): counting it everywhere on its way, and it
\* exists as long as the stream waits for its answer.
OneOperation == ~panic => \A s \in Stream : st[s] = "open" =>
    /\ InFlight(s, "read") = IF pending_read[s] = None THEN 0 ELSE 1
    /\ InFlight(s, "write") = IF pending_write[s] = None THEN 0 ELSE 1

ReadInFlight(s) ==
    LET events == SelectSeq(outbox[s] \o receiver, LAMBDA e : e.kind = "Read" /\ e.id.task = s)
        ready == {a \in answers : a.id.op = "read" /\ a.id.task = s}
    IN  IF ready # {} THEN (CHOOSE a \in ready : TRUE).data
        ELSE IF events # <<>> THEN events[1].data ELSE <<>>

\* No byte is lost, duplicated or reordered: what users have read, the buffer of the
\* stream and the answer on its way are the bytes taken from the socket, and the remote
\* has received the beginning of what was written.
BytesInOrder == \A s \in Stream :
    /\ st[s] = "open" => got[s] \o read_buffer[s] \o ReadInFlight(s) = Bytes(1, taken[s])
    /\ IsPrefix(remote_got[s], Bytes(1, written[s]))

\* Bytes arrive, either way: a user that waits for bytes that have arrived gets some, and
\* what poll_write has accepted reaches the remote, unless the stream is dropped.
BytesArrive == \A s \in Stream :
    /\ s \in reading /\ arrived[s] > Len(got[s]) ~> (s \notin reading \/ panic)
    /\ \A n \in 1..MaxOut[s] :
          written[s] >= n ~> (Len(remote_got[s]) >= n \/ st[s] = "dropped" \/ panic)

\* The task of a dropped stream ends: the Close that drop sends drops the sender of its
\* commands (hosted-tcp/src/lib.rs:288, 472-475).
DroppedTaskEnds == \A s \in Stream :
    st[s] = "dropped" /\ handle[s] # None ~> (conn[s] = "ended" \/ panic)
=============================================================================
