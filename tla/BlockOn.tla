------------------------------ MODULE BlockOn --------------------------------
(***************************************************************************)
(* The futures of the syscalls library that WASM programs are linked with, *)
(* and the `block_on` that drives them (interfaces/syscalls/src:           *)
(* block_on.rs, response.rs, interface_message.rs, emit.rs).  A program is *)
(* one thread: `block_on` polls, then asks the kernel, in turns.           *)
(*                                                                         *)
(* A response future is identified with the message it waits the answer    *)
(* of, and each future has its own waker.  The kernel's side is external:  *)
(* an ordered list of notifications, of which next_notification takes the  *)
(* first that the list of ids asks for.                                    *)
(***************************************************************************)
EXTENDS Integers, FiniteSets, SequencesExt

CONSTANTS Response,      \* EmitMessageWithResponse futures, one message each
          Interface,     \* InterfaceMessageFuture futures, created again and again
          MaxMessages,   \* bound on the interface messages the program is sent
          InterfaceId,   \* the id 1, which stands for interface messages
          Zero           \* the id 0: nothing is asked for at this index

ASSUME BlockOnAssumption ==
    /\ Response \cap Interface = {}
    /\ InterfaceId # Zero /\ {InterfaceId, Zero} \cap Response = {}
    /\ MaxMessages \in Nat

Future == Response \cup Interface
NoWaker == Zero          \* an entry of the slab whose waker has been taken

VARIABLES
    pc,                \* "poll": the future is polled, "ask": the kernel is asked
    block,             \* the next call of next_notification blocks
    woken_up,          \* the waker has been invoked since the last check
    state,             \* state[f]: "none", "live", "done" or "dropped"
    to_poll,           \* futures that have been created or woken and not polled
    registration,      \* registration[f]: an index, 0 when there is none
    message_ids,       \* BlockOnState::message_ids
    wakers,            \* BlockOnState::wakers: the occupied entries of the slab
    vacant,            \* the slab's free list, last freed first
    pending_messages,  \* BlockOnState::pending_messages
    interface_queue,   \* length of BlockOnState::interface_messages_queue
    inbox,             \* the kernel's notifications for this program, in order
    unanswered,        \* messages whose answer has not been sent
    arrived            \* number of interface messages sent to the program

client == <<pc, block, woken_up, state, to_poll, registration, message_ids, wakers,
            vacant, pending_messages, interface_queue>>
kernel == <<inbox, unanswered, arrived>>
vars == <<client, kernel>>

Init ==
    /\ pc = "poll" /\ block = TRUE /\ woken_up = FALSE
    /\ state = [f \in Future |-> "none"]
    /\ to_poll = {}
    /\ registration = [f \in Future |-> 0]
    /\ message_ids = <<>> /\ wakers = <<>> /\ vacant = <<>>
    /\ pending_messages = {} /\ interface_queue = 0
    /\ inbox = <<>> /\ unanswered = {} /\ arrived = 0

Live == {f \in Future : state[f] = "live"}
Id(f) == IF f \in Response THEN f ELSE InterfaceId
-----------------------------------------------------------------------------
(* Registrations *)

\* register_message_waker.  Slab::insert reuses the entry freed last.
RegisterMessageWaker(f) ==
    LET index == IF vacant = <<>> THEN Cardinality(DOMAIN wakers) + 1 ELSE Head(vacant)
        len   == IF index > Len(message_ids) THEN index ELSE Len(message_ids)
    IN  /\ registration' = [registration EXCEPT ![f] = index]
        /\ wakers' = [i \in DOMAIN wakers \cup {index} |-> IF i = index THEN f ELSE wakers[i]]
        /\ vacant' = IF vacant = <<>> THEN <<>> ELSE Tail(vacant)
        /\ message_ids' = [i \in 1..len |->
              IF i = index THEN Id(f)
              ELSE IF i <= Len(message_ids) THEN message_ids[i] ELSE Zero]

\* WakerRegistration::update
Update(f) ==
    /\ wakers' = [wakers EXCEPT ![registration[f]] = f]
    /\ UNCHANGED <<registration, message_ids, vacant>>

\* Mutant: the list is reclaimed whatever is left in it.
UnregisterReclaims(f) ==
    IF registration[f] = 0
      THEN UNCHANGED <<registration, message_ids, wakers, vacant>>
      ELSE /\ registration' = [registration EXCEPT ![f] = 0]
           /\ wakers' = [i \in DOMAIN wakers \ {registration[f]} |-> wakers[i]]
           /\ vacant' = <<registration[f]>> \o vacant
           /\ message_ids' = <<>>

\* WakerRegistration::drop
Unregister(f) ==
    IF registration[f] = 0
      THEN UNCHANGED <<registration, message_ids, wakers, vacant>>
      ELSE LET index == registration[f] IN
           /\ registration' = [registration EXCEPT ![f] = 0]
           /\ wakers' = [i \in DOMAIN wakers \ {index} |-> wakers[i]]
           /\ vacant' = <<index>> \o vacant
           /\ message_ids' = IF Cardinality(DOMAIN wakers) = 1
                               THEN <<>> ELSE [message_ids EXCEPT ![index] = Zero]
-----------------------------------------------------------------------------
(* While block_on polls: what the program's future may do with those of the library *)

\* emit_message_with_response, next_interface_message
Create(f) ==
    /\ pc = "poll"
    /\ state[f] = "none" \/ (f \in Interface /\ state[f] # "live" /\ arrived < MaxMessages)
    /\ state' = [state EXCEPT ![f] = "live"]
    /\ to_poll' = to_poll \cup {f}
    /\ unanswered' = IF f \in Response THEN unanswered \cup {f} ELSE unanswered
    /\ UNCHANGED <<pc, block, woken_up, registration, message_ids, wakers, vacant,
                   pending_messages, interface_queue, inbox, arrived>>

\* What a poll does when there is nothing for the future yet.
Wait(f) ==
    /\ IF registration[f] = 0 THEN RegisterMessageWaker(f) ELSE Update(f)
    /\ UNCHANGED <<state, pending_messages, interface_queue>>

\* A future that is ready is dropped at once, with its registration.
Finish(f) ==
    /\ state' = [state EXCEPT ![f] = "done"]
    /\ Unregister(f)

\* poll of a response future: peek_response
PollResponse(f) ==
    /\ f \in Response
    /\ IF f \in pending_messages
         THEN /\ Finish(f)
              /\ pending_messages' = pending_messages \ {f}
              /\ UNCHANGED interface_queue
         ELSE Wait(f)

\* poll of an interface message future: peek_interface_message
PollInterface(f) ==
    /\ f \in Interface
    /\ IF interface_queue > 0
         THEN /\ Finish(f)
              /\ interface_queue' = interface_queue - 1
              /\ UNCHANGED pending_messages
         ELSE Wait(f)

PollFuture(f) ==
    /\ pc = "poll" /\ f \in Live
    /\ to_poll' = to_poll \ {f}
    /\ PollResponse(f) \/ PollInterface(f)
    /\ UNCHANGED <<pc, block, woken_up, inbox, unanswered, arrived>>

\* Dropping a future early; EmitMessageWithResponse cancels its message.
DropFuture(f) ==
    /\ pc = "poll" /\ f \in Live
    /\ state' = [state EXCEPT ![f] = "dropped"]
    /\ to_poll' = to_poll \ {f}
    /\ Unregister(f)
    /\ unanswered' = unanswered \ {f}
    /\ UNCHANGED <<pc, block, woken_up, pending_messages, interface_queue, inbox, arrived>>

\* The future has polled all that was to be polled and is pending: it is polled again
\* if it has been woken up, otherwise the kernel is asked.
EndPoll ==
    /\ pc = "poll" /\ to_poll = {}
    /\ woken_up' = FALSE
    /\ pc' = IF woken_up THEN "poll" ELSE "ask"
    /\ block' = TRUE
    /\ UNCHANGED <<state, to_poll, registration, message_ids, wakers, vacant,
                   pending_messages, interface_queue, kernel>>
-----------------------------------------------------------------------------
(* While block_on asks the kernel *)

\* The first notification that is asked for, 0 if there is none.
FirstAsked ==
    SelectInSeq(inbox, LAMBDA id : \E i \in DOMAIN message_ids : message_ids[i] = id)

\* Mutant: the waker is taken and not invoked.
NotifiedSilently ==
    /\ pc = "ask" /\ FirstAsked # 0
    /\ LET id    == inbox[FirstAsked]
           index == CHOOSE i \in DOMAIN message_ids : message_ids[i] = id
       IN  /\ message_ids' = [message_ids EXCEPT ![index] = Zero]
           /\ wakers' = [wakers EXCEPT ![index] = NoWaker]
           /\ IF id = InterfaceId
                THEN interface_queue' = interface_queue + 1 /\ UNCHANGED pending_messages
                ELSE pending_messages' = pending_messages \cup {id} /\ UNCHANGED interface_queue
    /\ inbox' = RemoveAt(inbox, FirstAsked)
    /\ block' = FALSE
    /\ UNCHANGED <<pc, woken_up, state, to_poll, registration, vacant, unanswered, arrived>>

\* next_notification returns one: its entry of the list is zeroed by the kernel, the
\* waker of the entry is taken and invoked, and the message is kept.
Notified ==
    /\ pc = "ask" /\ FirstAsked # 0
    /\ LET id    == inbox[FirstAsked]
           index == SelectInSeq(message_ids, LAMBDA asked : asked = id)
       IN  /\ message_ids' = [message_ids EXCEPT ![index] = Zero]
           /\ wakers' = [wakers EXCEPT ![index] = NoWaker]
           /\ to_poll' = to_poll \cup ({wakers[index]} \ {NoWaker})
           /\ woken_up' = (woken_up \/ wakers[index] # NoWaker)
           /\ IF id = InterfaceId
                THEN interface_queue' = interface_queue + 1 /\ UNCHANGED pending_messages
                ELSE pending_messages' = pending_messages \cup {id} /\ UNCHANGED interface_queue
    /\ inbox' = RemoveAt(inbox, FirstAsked)
    /\ block' = FALSE
    /\ UNCHANGED <<pc, state, registration, vacant, unanswered, arrived>>

\* Nothing more is available: the future is polled again.
NoneLeft ==
    /\ pc = "ask" /\ FirstAsked = 0 /\ ~block
    /\ pc' = "poll"
    /\ UNCHANGED <<block, woken_up, state, to_poll, registration, message_ids, wakers,
                   vacant, pending_messages, interface_queue, kernel>>
-----------------------------------------------------------------------------
(* The kernel and the other programs *)

Answered(f) ==
    /\ f \in unanswered
    /\ unanswered' = unanswered \ {f}
    /\ inbox' = Append(inbox, f)
    /\ UNCHANGED <<arrived, client>>

Arrives ==
    /\ arrived < MaxMessages
    /\ arrived' = arrived + 1
    /\ inbox' = Append(inbox, InterfaceId)
    /\ UNCHANGED <<unanswered, client>>

BlockOnStep == EndPoll \/ Notified \/ NoneLeft

Next ==
    \/ BlockOnStep \/ Arrives
    \/ \E f \in Future : Create(f) \/ PollFuture(f) \/ DropFuture(f) \/ Answered(f)

\* block_on goes on, and the program's future polls what has to be polled and returns
\* from its poll, however often it polls other things in between; the program need not
\* create or drop anything, and other programs need not answer.
Fairness ==
    /\ SF_vars(BlockOnStep)
    /\ \A f \in Future : SF_vars(f \in to_poll /\ PollFuture(f))

Spec == Init /\ [][Next]_vars /\ Fairness
-----------------------------------------------------------------------------
Blocked == pc = "ask" /\ block

\* The program asks the kernel for what its futures wait for, and for nothing else.
\* Whenever it goes to sleep, every response future it holds is asked for and will be
\* woken: no answer received is left unseen, no id has been zeroed behind the back of its
\* future.  And an id in the list is one that a live future has registered, so that the
\* debug_assert of register_message_waker holds: an entry that is vacant has id 0.
AskedAsWanted ==
    /\ Blocked => \A f \in Live \cap Response :
         /\ f \notin pending_messages
         /\ registration[f] \in DOMAIN wakers \cap DOMAIN message_ids
         /\ message_ids[registration[f]] = f
         /\ wakers[registration[f]] = f
    /\ \A i \in DOMAIN message_ids : message_ids[i] # Zero =>
         \E f \in Live : registration[f] = i /\ message_ids[i] = Id(f)

\* An answer that has been sent reaches the future that waits for it, unless the
\* program drops the future.
AnswerReachesFuture ==
    \A f \in Response :
        (\E n \in DOMAIN inbox : inbox[n] = f) /\ state[f] = "live" ~> state[f] # "live"

\* "asks the kernel for responses to the message IDs that have been registered"
\* (block_on.rs): while a future waits for an interface message, the program that
\* goes to sleep asks for interface messages.
InterfaceAsked ==
    Blocked /\ Live \cap Interface # {} => \E i \in DOMAIN message_ids : message_ids[i] = InterfaceId
=============================================================================
