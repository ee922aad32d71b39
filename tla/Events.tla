------------------------------- MODULE Events -------------------------------
(***************************************************************************)
(* The event services: EventInfo of src/efi/event.rs and create_event,     *)
(* create_event_ex and close_event of src/efi/mod.rs.  An event is the     *)
(* address of an element of a fixed array.  Nothing signals an event,      *)
(* waits for one or takes one back.                                        *)
(***************************************************************************)
EXTENDS Integers, Sequences

CONSTANTS
  MaxEvents,      \* MAX_EVENT_STRUCT, 16
  Notifies,       \* what callers register: type, level, function and context
  NoEvent,        \* the null event
  MaxCalls        \* bound on the events callers remember

ASSUME EventsAssumption == MaxEvents \in Nat /\ MaxCalls \in Nat /\ NoEvent \notin 1 .. MaxEvents

VARIABLE events    \* [event_count, event_struct, held, status]

\* Mutant of create_event: with the array full the last element is used again.
CreateEventReuses(notify) ==
  LET e == IF events.event_count >= MaxEvents THEN MaxEvents ELSE events.event_count + 1
  IN  /\ Len(events.held) < MaxCalls
      /\ events' = [event_count |-> e, event_struct |-> [events.event_struct EXCEPT ![e] = notify],
                    held |-> Append(events.held, [event |-> e, notify |-> notify]), status |-> "SUCCESS"]

\* get_new_event takes the next element, and create_event fills it in.
create_event(notify) ==
  LET e == events.event_count + 1
  IN  /\ Len(events.held) < MaxCalls
      /\ events' = IF events.event_count >= MaxEvents
                   THEN [events EXCEPT !.status = "OUT_OF_RESOURCES"]
                   ELSE [event_count |-> e, event_struct |-> [events.event_struct EXCEPT ![e] = notify],
                         held |-> Append(events.held, [event |-> e, notify |-> notify]), status |-> "SUCCESS"]

\* create_event_ex reports success and hands out the null event.
create_event_ex(notify) ==
  /\ Len(events.held) < MaxCalls
  /\ events' = [events EXCEPT !.held = Append(@, [event |-> NoEvent, notify |-> notify]), !.status = "SUCCESS"]

\* close_event, and with it set_timer, signal_event, check_event and wait_for_event.
close_event == events' = [events EXCEPT !.status = "UNSUPPORTED"]

EventsStart ==
  [event_count |-> 0, event_struct |-> [e \in 1 .. MaxEvents |-> NoEvent], held |-> << >>, status |-> "SUCCESS"]

EventsNext ==
  \/ \E notify \in Notifies : create_event(notify) \/ create_event_ex(notify)
  \/ close_event

EventsSpec == events = EventsStart /\ [][EventsNext]_events

-----------------------------------------------------------------------------
(* Properties *)

Created == {i \in DOMAIN events.held : events.held[i].event # NoEvent}

\* Each event create_event handed out stays the caller's own, with what they registered,
\* also for callers who think they closed it; it runs out of events only when all
\* of the array is handed out.
EventsKept ==
  /\ \A i \in Created : events.event_struct[events.held[i].event] = events.held[i].notify
  /\ \A i, j \in Created : events.held[i].event = events.held[j].event => i = j
  /\ events.status = "OUT_OF_RESOURCES" =>
       \A e \in 1 .. MaxEvents : \E i \in Created : events.held[i].event = e
=============================================================================
