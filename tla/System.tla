------------------------------- MODULE System --------------------------------
(***************************************************************************)
(* The system loop (core/src/system.rs): it runs the core once, handles    *)
(* what the core reports, polls the native programs, and loads the main    *)
(* programs through the handler of the `loader` interface.                 *)
(*                                                                         *)
(* The native programs sit behind the adapters of                          *)
(* core/src/native/collection.rs.  The core is reduced to its embedder's   *)
(* view: handlers of interfaces, messages awaiting an answer, inboxes of   *)
(* processes, pending events; module Core has its details.  The messages   *)
(* of processes all expect an answer and may be delayed; ids are drawn in  *)
(* order.  A program to load becomes a process named after its hash.       *)
(***************************************************************************)
EXTENDS Integers, SequencesExt

CONSTANTS Startup,     \* processes started by `build`
          Program,     \* hashes given to with_main_program
          Main,        \* the order in which they were given
          Native,      \* native programs, in the order of the collection
          Provides,    \* Provides[n]: interface that native program n registers
          Emits,       \* Emits[n]: interface on which n sends one message, or None
          MayRegister, \* MayRegister[p]: interfaces that process p may register
          MayUse,      \* MayUse[p]: interfaces that process p sends messages on
          MaxId,       \* bound on the ids of the messages of processes
          None

Process == Startup \cup Program
NativeSet == Range(Native)
\* the virtual pids of SystemBuilder::new and of with_native_program
Interface_ == "interface"
LoadSource == "load_source"
Reserved == NativeSet \cup {Interface_, LoadSource}
Interface == {Interface_, "loader"} \cup Range(Provides) \cup UNION Range(MayRegister)
               \cup UNION Range(MayUse) \cup (Range(Emits) \ {None})

ASSUME SystemAssumption ==
    /\ Main \in Seq(Program) /\ IsInjective(Main)
    /\ Process \cap Reserved = {} /\ None \notin Process \cup Reserved \cup Interface
    /\ MaxId \in Nat

VARIABLES pc,                 \* where `run` is: "load", "core", "handle", "poll", "sleep"
          again,              \* run_once has returned LoopAgain, rather than Idle
          event,              \* the outcome of the core that run_once handles
          loader_pid, programs_to_load, loading_programs,
          registered_interfaces, expected_responses, \* of each adapter
          to_register,        \* native programs that have not sent their registration
          to_emit,            \* native programs that have not sent their message
          received,           \* received[n]: messages that n has not answered yet
          alive, died,        \* processes that run, that have ended
          interfaces,         \* handler of each interface, or None
          other, threads,     \* messages that wait for a handler: of reserved pids, of threads
          messages_to_answer, \* ids that await an answer, with their emitter
          next_id,
          pending_events,     \* of the core
          inbox,              \* inbox[p]: messages that p has not handled yet
          asked,              \* history: programs requested, by id, in order
          started,            \* history: programs started, in order
          panic               \* "" or what stopped the kernel

loop == <<pc, again, event>>
loader == <<loader_pid, programs_to_load, loading_programs, asked, started>>
natives == <<registered_interfaces, expected_responses, to_register, to_emit, received>>
processes == <<alive, died>>
mail == <<interfaces, other, threads, messages_to_answer, next_id, pending_events, inbox>>
vars == <<loop, loader, natives, processes, mail, panic>>

Message(id, from, iface, kind, what) ==
    [id |-> id, from |-> from, iface |-> iface, kind |-> kind, what |-> what]
NoEvent == Message(0, None, None, "none", None)

\* SystemBuilder::build, after the calls that fill the builder.
Init ==
    /\ pc = "load" /\ again = FALSE /\ event = NoEvent
    /\ loader_pid = None /\ programs_to_load = Main /\ loading_programs = {}
    /\ asked = <<>> /\ started = <<>>
    /\ registered_interfaces = [n \in NativeSet |-> {}]
    /\ expected_responses = [n \in NativeSet |-> {}]
    /\ to_register = NativeSet
    /\ to_emit = {n \in NativeSet : Emits[n] # None}
    /\ received = [n \in NativeSet |-> {}]
    /\ alive = Startup /\ died = {}
    /\ interfaces = [i \in Interface |-> IF i = Interface_ THEN Interface_ ELSE None]
    /\ other = [i \in Interface |-> <<>>] /\ threads = [i \in Interface |-> <<>>]
    /\ messages_to_answer = [id \in {} |-> None]
    /\ next_id = 2
    /\ pending_events = <<>>
    /\ inbox = [p \in Process |-> <<>>]
    /\ panic = ""
-----------------------------------------------------------------------------
(* What the loop asks of the core. *)

With(f, x, v) == [y \in DOMAIN f \cup {x} |-> IF y = x THEN v ELSE f[y]]
Without(f, x) == [y \in DOMAIN f \ {x} |-> f[y]]

\* The id pool moves on when a message takes an id.
IdDrawn(id) == IF id = 0 THEN next_id ELSE next_id + 1

\* emit_interface_message_inner.  A message that waits for a handler is not recorded
\* as awaiting an answer, and one for a handler that is no process loses its id.
Emit(m) ==
    LET h == interfaces[m.iface]
    IN  /\ next_id' = IdDrawn(m.id)
        /\ other' = IF h = None THEN [other EXCEPT ![m.iface] = Append(@, m)] ELSE other
        /\ inbox' = IF h \in alive THEN [inbox EXCEPT ![h] = Append(@, m)] ELSE inbox
        /\ pending_events' = IF h \in alive \cup {None} THEN pending_events
                             ELSE Append(pending_events, [m EXCEPT !.id = 0])
        /\ messages_to_answer' = IF h = None \/ m.id = 0 THEN messages_to_answer
                                 ELSE With(messages_to_answer, m.id, m.from)
        /\ UNCHANGED <<interfaces, threads>>

\* set_interface_handler(i, p): the messages that wait for a handler of i go to p.
MayHandle(i, p) == p \in alive \cup Reserved /\ interfaces[i] = None

\* The `unreachable!()`s of set_interface_handler: a message of a reserved pid for a
\* handler that is no process, a sleeping thread that no longer exists.
HandlerUnreachable(i, p) ==
    \/ other[i] # <<>> /\ p \notin alive
    \/ \E m \in Range(threads[i]) : m.from \notin alive

SetInterfaceHandler(i, p) ==
    LET late == [k \in DOMAIN threads[i] |-> [threads[i][k] EXCEPT !.id = next_id + k - 1]]
    IN  /\ interfaces' = [interfaces EXCEPT ![i] = p]
        /\ other' = [other EXCEPT ![i] = <<>>]
        /\ threads' = [threads EXCEPT ![i] = <<>>]
        /\ next_id' = next_id + Len(late)
        /\ inbox' = IF p \in alive THEN [inbox EXCEPT ![p] = @ \o other[i] \o late] ELSE inbox
        /\ pending_events' = IF p \in alive THEN pending_events ELSE pending_events \o late
        \* the ids drawn, less the one of the registration itself, which is answered
        /\ messages_to_answer' =
              [id \in (DOMAIN messages_to_answer \cup {m.id : m \in Range(late)}) \ {event.id} |->
                 IF id < next_id THEN messages_to_answer[id] ELSE late[id - next_id + 1].from]
-----------------------------------------------------------------------------
(* `run`: the beginning of an iteration. *)

Loading == loader_pid # None /\ programs_to_load # <<>>

LoadProgram ==
    /\ pc = "load" /\ Loading
    /\ LET hash == Head(programs_to_load)
       IN  /\ Emit(Message(next_id, LoadSource, "loader", "load", hash))
           /\ asked' = Append(asked, [id |-> next_id, hash |-> hash])
           /\ loading_programs' = loading_programs \cup {next_id}
    /\ programs_to_load' = Tail(programs_to_load)
    /\ UNCHANGED <<loop, loader_pid, started, natives, processes, panic>>

StartRunOnce ==
    /\ pc = "load" /\ ~Loading
    /\ pc' = "core"
    /\ UNCHANGED <<again, event, loader, natives, processes, mail, panic>>

\* The core has an outcome for run_once.
Outcome(e) == event' = e /\ pc' = "handle" /\ UNCHANGED again
NoOutcome == UNCHANGED loop
-----------------------------------------------------------------------------
(* Core::run: pending events first, then a step of some thread, again and again *)
(* until there is an outcome.                                                   *)

PopEvent ==
    /\ pc = "core" /\ pending_events # <<>>
    /\ Outcome(Head(pending_events))
    /\ pending_events' = Tail(pending_events)
    /\ UNCHANGED <<loader, natives, processes, interfaces, other, threads, messages_to_answer,
                   next_id, inbox, panic>>

Asleep(p) == \E i \in Interface : \E m \in Range(threads[i]) : m.from = p
Running(p) == pc = "core" /\ pending_events = <<>> /\ p \in alive

ProcessEmits(p, i, kind, what) ==
    LET h == interfaces[i]
        m == Message(next_id, p, i, kind, what)
    IN  /\ Running(p) /\ ~Asleep(p) /\ next_id <= MaxId
        /\ IF h = None
           THEN /\ threads' = [threads EXCEPT ![i] = Append(@, [m EXCEPT !.id = 0])]
                /\ Outcome(NoEvent)
                /\ UNCHANGED <<messages_to_answer, next_id, inbox>>
           ELSE /\ next_id' = next_id + 1
                /\ messages_to_answer' = With(messages_to_answer, next_id, p)
                /\ inbox' = IF h \in alive THEN [inbox EXCEPT ![h] = Append(@, m)] ELSE inbox
                /\ IF h \in Reserved THEN Outcome(m) ELSE NoOutcome
                /\ UNCHANGED threads
        /\ UNCHANGED <<loader, natives, processes, interfaces, other, pending_events, panic>>

\* answer_message_inner, called for a thread: an answer whose emitter is no process is
\* an outcome.
ProcessAnswers(p, k, kind) ==
    LET id == inbox[p][k].id
    IN  /\ Running(p) /\ ~Asleep(p) /\ k \in DOMAIN inbox[p]
        /\ inbox' = [inbox EXCEPT ![p] = RemoveAt(@, k)]
        /\ messages_to_answer' = Without(messages_to_answer, id)
        /\ IF id \in DOMAIN messages_to_answer /\ messages_to_answer[id] \notin alive
           THEN Outcome(Message(id, messages_to_answer[id], None, kind, None)) ELSE NoOutcome
        /\ UNCHANGED <<loader, natives, processes, interfaces, other, threads, next_id,
                       pending_events, panic>>

ProcessCancels(p, id) ==
    /\ Running(p) /\ ~Asleep(p)
    /\ id \in DOMAIN messages_to_answer /\ messages_to_answer[id] = p
    /\ messages_to_answer' = Without(messages_to_answer, id)
    /\ UNCHANGED <<loop, loader, natives, processes, interfaces, other, threads, next_id,
                   pending_events, inbox, panic>>

ProcessEnds(p) ==
    /\ Running(p)
    /\ alive' = alive \ {p} /\ died' = died \cup {p}
    /\ Outcome(Message(0, p, None, "finished", None))
    /\ UNCHANGED <<loader, natives, mail, panic>>

Idle ==
    /\ pc = "core" /\ pending_events = <<>>
    /\ \A p \in alive : Asleep(p) \/ inbox[p] = <<>>
    /\ again' = FALSE /\ pc' = "poll"
    /\ UNCHANGED <<event, loader, natives, processes, mail, panic>>
-----------------------------------------------------------------------------
(* run_once: what it does with an outcome. *)

Handled == pc = "handle" /\ event' = NoEvent /\ again' = TRUE

\* ProgramFinished: reported to the caller of `run`, which calls it again.
ResetNever(pid) == loader_pid
ResetLoader(pid) == IF loader_pid = pid THEN None ELSE loader_pid

Finished ==
    /\ Handled /\ event.kind = "finished"
    /\ loader_pid' = ResetLoader(event.from)
    /\ pc' = "load"
    /\ UNCHANGED <<programs_to_load, loading_programs, asked, started, natives, processes, mail,
                   panic>>

WaitUnavailable ==
    /\ Handled /\ event = NoEvent
    /\ pc' = "poll"
    /\ UNCHANGED <<loader, natives, processes, mail, panic>>

\* MessageResponse: of a load request, or else of a message of a native program.
RequestedBy(id) == (CHOOSE r \in Range(asked) : r.id = id).hash

LoadedKept(id) == loading_programs
Loaded(id) == loading_programs \ {id}

LoadResponse ==
    /\ Handled /\ event.kind \in {"ok", "error"} /\ event.id \in loading_programs
    /\ loading_programs' = Loaded(event.id)
    /\ IF event.kind = "ok"
       THEN /\ alive' = alive \cup {RequestedBy(event.id)}
            /\ started' = Append(started, RequestedBy(event.id))
            /\ UNCHANGED panic
       ELSE panic' = "loader returned error" /\ UNCHANGED <<alive, started>>
    /\ pc' = "poll"
    /\ UNCHANGED <<loader_pid, programs_to_load, asked, natives, died, mail>>

NativeResponse ==
    /\ Handled /\ event.kind \in {"ok", "error"} /\ event.id \notin loading_programs
    /\ IF \E n \in NativeSet : event.id \in expected_responses[n]
       THEN UNCHANGED panic ELSE panic' = "no native program"
    /\ expected_responses' = [n \in NativeSet |-> expected_responses[n] \ {event.id}]
    /\ pc' = "poll"
    /\ UNCHANGED <<loader, registered_interfaces, to_register, to_emit, received, processes, mail>>

\* A message on `interface`: Register, or one that does not decode.
Register ==
    /\ Handled /\ event.iface = Interface_
    /\ IF event.kind = "register" /\ MayHandle(event.what, event.from)
       THEN /\ SetInterfaceHandler(event.what, event.from)
            /\ panic' = IF HandlerUnreachable(event.what, event.from)
                        THEN "set_interface_handler" ELSE panic
            /\ IF event.what = "loader"
               THEN loader_pid' = event.from /\ pc' = "load"
               ELSE pc' = "poll" /\ UNCHANGED loader_pid
       ELSE /\ messages_to_answer' = Without(messages_to_answer, event.id)
            /\ pc' = "poll"
            /\ UNCHANGED <<interfaces, other, threads, next_id, pending_events, inbox, loader_pid,
                           panic>>
    /\ UNCHANGED <<programs_to_load, loading_programs, asked, started, natives, processes>>

\* Any other message for a reserved pid: NativeProgramsCollection::interface_message
\* gives it to the first adapter that has registered the interface.
AnyRegistrant(i) == DOMAIN Native
Registrants(i) == {k \in DOMAIN Native : i \in registered_interfaces[Native[k]]}

NativeMessage ==
    /\ Handled /\ event.iface \notin {Interface_, None}
    /\ IF Registrants(event.iface) = {}
       THEN panic' = "no native program" /\ UNCHANGED received
       ELSE /\ received' = [received EXCEPT ![Native[Min(Registrants(event.iface))]] =
                              @ \cup {m \in {event} : m.id # 0}]
            /\ UNCHANGED panic
    /\ pc' = "poll"
    /\ UNCHANGED <<loader, registered_interfaces, expected_responses, to_register, to_emit,
                   processes, mail>>
-----------------------------------------------------------------------------
(* NativeProgramsCollection::next_event, and what the loop does with the event. *)

\* The adapter notes the registration that it forwards, whatever the answer will be.
NotedNever(n) == registered_interfaces
Noted(n) == [registered_interfaces EXCEPT ![n] = @ \cup {Provides[n]}]

NativeRegisters(n) ==
    /\ pc = "poll" /\ n \in to_register
    /\ Emit(Message(0, n, Interface_, "register", Provides[n]))
    /\ registered_interfaces' = Noted(n)
    /\ to_register' = to_register \ {n}
    /\ pc' = "load"
    /\ UNCHANGED <<again, event, loader, expected_responses, to_emit, received, processes, panic>>

\* A native program sends a message; `acknowledge` tells its adapter the id.
NativeEmits(n) ==
    /\ pc = "poll" /\ n \in to_emit
    /\ Emit(Message(next_id, n, Emits[n], "data", None))
    /\ expected_responses' = [expected_responses EXCEPT ![n] = @ \cup {next_id}]
    /\ to_emit' = to_emit \ {n}
    /\ pc' = "load"
    /\ UNCHANGED <<again, event, loader, registered_interfaces, to_register, received, processes,
                   panic>>

\* answer_message, called by the loop: nobody is told of an answer whose emitter is
\* no process.
NativeAnswers(n, m) ==
    /\ pc = "poll" /\ m \in received[n]
    /\ received' = [received EXCEPT ![n] = @ \ {m}]
    /\ messages_to_answer' = Without(messages_to_answer, m.id)
    /\ pc' = "load"
    /\ UNCHANGED <<again, event, loader, registered_interfaces, expected_responses, to_register,
                   to_emit, processes, interfaces, other, threads, next_id, pending_events, inbox,
                   panic>>

\* Every native program is pending.  Nothing delays the registrations.
SleepAnyway == "sleep"
WhenPending == IF again THEN "load" ELSE "sleep"

NativesPending ==
    /\ pc = "poll" /\ to_register = {}
    /\ pc' = WhenPending
    /\ UNCHANGED <<again, event, loader, natives, processes, mail, panic>>

\* A native program that has an event wakes up the task that runs the system.
Wake ==
    /\ pc = "sleep"
    /\ to_emit # {} \/ \E n \in NativeSet : received[n] # {}
    /\ pc' = "load"
    /\ UNCHANGED <<again, event, loader, natives, processes, mail, panic>>
-----------------------------------------------------------------------------
RunOnce ==
    Finished \/ WaitUnavailable \/ LoadResponse \/ NativeResponse \/ Register \/ NativeMessage

NativeEvent(n) ==
    \/ NativeRegisters(n)
    \/ NativeEmits(n)
    \/ \E m \in received[n] : NativeAnswers(n, m)

ProcessStep(p) ==
    \/ \E i \in MayRegister[p] : ProcessEmits(p, Interface_, "register", i)
    \/ \E i \in MayUse[p] : ProcessEmits(p, i, "data", None)
    \/ \E k \in DOMAIN inbox[p], kind \in {"ok", "error"} : ProcessAnswers(p, k, kind)
    \/ \E id \in DOMAIN messages_to_answer : ProcessCancels(p, id)
    \/ ProcessEnds(p)

Next ==
    /\ panic = ""
    /\ \/ LoadProgram \/ StartRunOnce \/ PopEvent \/ Idle \/ RunOnce \/ NativesPending \/ Wake
       \/ \E p \in Process : ProcessStep(p)
       \/ \E n \in NativeSet : NativeEvent(n)

Spec == Init /\ [][Next]_vars

\* The loop goes on, native programs answer the kernel's polls, and a process that has
\* messages handles the oldest one: the core leaves no ready thread out for ever.
Fairness ==
    /\ WF_vars(LoadProgram) /\ WF_vars(StartRunOnce) /\ WF_vars(PopEvent) /\ WF_vars(Idle)
    /\ WF_vars(RunOnce) /\ WF_vars(NativesPending) /\ WF_vars(Wake)
    /\ \A n \in NativeSet : SF_vars(NativeEvent(n))
    /\ \A p \in Process : SF_vars(\E kind \in {"ok", "error"} : ProcessAnswers(p, 1, kind))

FairSpec == Spec /\ Fairness
-----------------------------------------------------------------------------
(* Properties *)

\* When the loop sends a load request, the process in loader_pid runs and handles the
\* loader interface, although loader_pid is set by a registration and reset by the end
\* of the process (the "can this not fail if the handler crashed" of `run`).
LoaderPidSound ==
    (pc = "load" /\ loader_pid # None) => loader_pid \in alive /\ interfaces["loader"] = loader_pid

\* The load requests go out in the order of with_main_program, every main program is
\* requested once, and one that was requested is either started once or still among
\* loading_programs: neither a registration, a refused second loader nor the death of
\* the loader loses or repeats one.
LoadedOnce ==
    /\ [k \in DOMAIN asked |-> asked[k].hash] \o programs_to_load = Main
    /\ IsInjective(started)
    /\ panic = "" => Range(started) \cup {RequestedBy(id) : id \in loading_programs}
                       = {r.hash : r \in Range(asked)}
    /\ \A id \in loading_programs : RequestedBy(id) \notin Range(started)

\* interface_message picks an adapter by the interfaces that the adapters believe they
\* handle; still a native program only gets the messages to answer of an interface
\* that the core gave to it.
DeliveredToHandler ==
    \A n \in NativeSet : \A m \in received[n] : interfaces[m.iface] = n

\* As long as no process has ended, the only panic is the one for a loader that answers
\* an error: none of the panics of the collection of native programs or of
\* set_interface_handler can happen, whatever the order of registrations and messages.
PanicNeedsDeath == panic # "" => died # {} \/ panic = "loader returned error"

\* If a loader stays, all the main programs are started, whatever else the programs and
\* the native programs do.
AllLoaded == <>[](panic = "" /\ loader_pid # None) => <>(Len(started) = Len(Main))

\* "Response to a message emitted using Core::emit_interface_message_answer": the core
\* reports the responses to messages of the embedder only.
ResponseToEmbedder == event.kind \in {"ok", "error"} => event.from \in Reserved
=============================================================================
