----------------------------- MODULE HandlersMC ------------------------------
(***************************************************************************)
(* The native programs for TLC, safety only: the TCP handler with its      *)
(* clients, and the seven others.  `part` chooses which moves; the other   *)
(* one stays in one initial state.                                         *)
(***************************************************************************)
EXTENDS TcpStream

CONSTANTS d, l

VARIABLES part,
          native, pc, again, unregistered, pending_messages, timers, now, alive,
          given, asked, replies, repeated, allocations, granted, memory, native_panic

\* TCP: stream d dials and exchanges a byte each way, stream l comes from a listener.
OneByte == [s \in Stream |-> IF s = d THEN 1 ELSE 0]
-----------------------------------------------------------------------------
(* Native programs: two programs send up to three messages, two of them    *)
(* with an answer, to any of the seven handlers.  Physical memory has four *)
(* bytes: accesses write and read back words of one and two bytes, some    *)
(* past the end.                                                           *)

Op(write, width, address, len, data) ==
    [write |-> write, width |-> width, address |-> address, len |-> len, data |-> data]
Accesses == {
    <<Op(TRUE, 2, 0, 2, <<<<1, 1>>, <<0, 1>>>>), Op(FALSE, 2, 0, 2, <<>>)>>,
    <<Op(FALSE, 1, 3, 2, <<>>), Op(TRUE, 1, 3, 1, <<<<0>>>>)>>,
    <<Op(TRUE, 2, 2, 2, <<<<1, 1>>, <<1, 1>>>>)>> }

N == INSTANCE Natives
       WITH Handlers <- {"time", "hardware", "klog", "random", "hosted_time", "hosted_random",
                         "hosted_log"},
            Pid <- {"a", "b"},
            Mallocs <- {[size |-> 1, alignment |-> 1], [size |-> 2, alignment |-> 2]},
            MaxAddress <- 3, HeapTop <- 4, MaxNow <- 2, MaxId <- 2, MaxMessages <- 3,
            handler <- native, delivered <- given, answers <- replies, panic <- native_panic
nativevars == <<native, pc, again, unregistered, pending_messages, timers, now, alive, given, asked,
                replies, repeated, allocations, granted, memory, native_panic>>
-----------------------------------------------------------------------------
MCInit ==
    /\ part \in {"tcp", "natives"}
    /\ part = "natives" \/ native = "time"
    /\ Init /\ N!Init

OnTcp == part = "tcp" /\ UNCHANGED <<part, nativevars>>
OnNatives == part = "natives" /\ UNCHANGED <<part, vars>>

MCNext ==
    \/ OnTcp /\ Next
    \/ OnNatives /\ N!Next

MCSpec == MCInit /\ [][MCNext]_<<part, vars, nativevars>>
-----------------------------------------------------------------------------

\* A handler answers a message at most once, as what it is, and not before its time.
AnsweredSoundly == N!AnsweredSoundly

\* The loop does not sleep over a question that it could answer.
NothingForgotten == N!NothingForgotten

\* A program holds the physical memory that it was given, and nobody else does.
GrantedIsHeld == N!GrantedIsHeld
=============================================================================
