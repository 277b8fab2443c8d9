------------------------------- MODULE Events -------------------------------
(***************************************************************************)
(* Event handlers: janus_events_notify_handlers queues an event, the       *)
(* events thread of the core hands it to every handler that subscribed to  *)
(* its type (events.c), and each handler queues it again for a thread of   *)
(* its own, which groups events and posts them to a backend, with          *)
(* retransmissions (events/janus_sampleevh.c).  At exit the core stops its *)
(* thread first and then destroys the handlers (janus.c).                  *)
(*                                                                         *)
(* An event is its notifier, its number and its type.                      *)
(***************************************************************************)
EXTENDS Naturals, Sequences, FiniteSets

CONSTANTS Notifiers, MaxEvents,   \* threads that notify, and a bound on their events
          Types, Handlers,
          events_mask,            \* the types each handler subscribed to
          group_events, MaxGroup, \* whether events are grouped, and up to how many (100)
          max_retransmissions

VARIABLES eventsenabled, events,  \* the core's queue
          npc, notified,          \* a notifier: "idle" or "built", and the events it queued
          epc, event, iter,       \* janus_events_thread, its event, handlers still to notify
          dpc,                    \* the shutdown sequence
          stopping, queue,        \* of each handler
          hpc, output, retransmit,
          queued,                 \* history: every event queued while the core thread ran
          handed,                 \* history: what a handler was given
          settled,                \* history: events whose delivery a handler is done with
          received                \* history: every group the backend got, in order

coreVars == <<eventsenabled, events, npc, notified, epc, event, iter>>
handlerVars == <<queue, hpc, output, retransmit>>
history == <<queued, handed, settled, received>>
vars == <<coreVars, dpc, stopping, handlerVars, history>>

exit_event == [notifier |-> "none", n |-> 0, type |-> "exit"]

Init ==
    /\ eventsenabled = TRUE /\ events = <<>>
    /\ npc = [n \in Notifiers |-> "idle"] /\ notified = [n \in Notifiers |-> 0]
    /\ epc = "check" /\ event = exit_event /\ iter = {}
    /\ dpc = "running"
    /\ stopping = [h \in Handlers |-> FALSE] /\ queue = [h \in Handlers |-> <<>>]
    /\ hpc = [h \in Handlers |-> "check"] /\ output = [h \in Handlers |-> <<>>]
    /\ retransmit = [h \in Handlers |-> 0]
    /\ queued = <<>>
    /\ handed = [h \in Handlers |-> <<>>] /\ settled = [h \in Handlers |-> <<>>]
    /\ received = [h \in Handlers |-> <<>>]

-----------------------------------------------------------------------------
(* janus_events_notify_handlers: the flag is tested before the event is    *)
(* built and again before it is queued.                                    *)

NotifyBuild(n) ==
    /\ npc[n] = "idle" /\ notified[n] < MaxEvents
    /\ eventsenabled
    /\ npc' = [npc EXCEPT ![n] = "built"]
    /\ UNCHANGED <<eventsenabled, events, notified, epc, event, iter, dpc, stopping,
                   handlerVars, history>>

NotifyQueue(n) ==
    /\ npc[n] = "built"
    /\ npc' = [npc EXCEPT ![n] = "idle"]
    /\ notified' = [notified EXCEPT ![n] = @ + 1]
    /\ \/ /\ eventsenabled
          /\ \E t \in Types :
               LET e == [notifier |-> n, n |-> notified[n] + 1, type |-> t]
               IN  events' = Append(events, e) /\ queued' = Append(queued, e)
       \/ ~eventsenabled /\ UNCHANGED <<events, queued>>
    /\ UNCHANGED <<eventsenabled, epc, event, iter, dpc, stopping, handlerVars,
                   handed, settled, received>>

-----------------------------------------------------------------------------
(* janus_events_thread.                                                    *)

EventsCheck ==
    /\ epc = "check"
    /\ epc' = IF eventsenabled THEN "pop" ELSE "cleanup"
    /\ UNCHANGED <<eventsenabled, events, npc, notified, event, iter, dpc, stopping,
                   handlerVars, history>>

EventsPop ==
    /\ epc = "pop" /\ events # <<>>
    /\ events' = Tail(events)
    /\ IF Head(events) = exit_event
         THEN epc' = "cleanup" /\ UNCHANGED <<event, iter>>
         ELSE /\ epc' = "notify"
              /\ event' = Head(events) /\ iter' = Handlers
    /\ UNCHANGED <<eventsenabled, npc, notified, dpc, stopping, handlerVars, history>>

\* janus_sampleevh_incoming_event drops what comes once the handler is stopping.
IncomingEvent(h, e) ==
    IF stopping[h]
      THEN UNCHANGED <<queue, handed>>
      ELSE /\ queue' = [queue EXCEPT ![h] = Append(@, e)]
           /\ handed' = [handed EXCEPT ![h] = Append(@, e)]

\* One handler of the table; a handler that did not subscribe is skipped.
EventsNotify(h) ==
    /\ epc = "notify" /\ h \in iter
    /\ iter' = iter \ {h}
    /\ IF event.type \in events_mask[h]
         THEN IncomingEvent(h, event)
         ELSE UNCHANGED <<queue, handed>>
    /\ UNCHANGED <<eventsenabled, events, npc, notified, epc, event, dpc, stopping,
                   hpc, output, retransmit, queued, settled, received>>

EventsNext ==
    /\ epc = "notify" /\ iter = {}
    /\ epc' = "check"
    /\ UNCHANGED <<eventsenabled, events, npc, notified, event, iter, dpc, stopping,
                   handlerVars, history>>

EventsCleanup ==
    /\ epc = "cleanup"
    /\ IF events = <<>>
         THEN epc' = "done" /\ UNCHANGED events
         ELSE events' = Tail(events) /\ UNCHANGED epc
    /\ UNCHANGED <<eventsenabled, npc, notified, event, iter, dpc, stopping,
                   handlerVars, history>>

-----------------------------------------------------------------------------
(* The shutdown: janus_events_deinit, then destroy of every handler.       *)

DeinitDisable ==
    /\ dpc = "running"
    /\ eventsenabled' = FALSE
    /\ dpc' = "disabled"
    /\ UNCHANGED <<events, npc, notified, epc, event, iter, stopping, handlerVars, history>>

\* Mutant: nothing wakes up the thread.
DeinitExitSilent ==
    /\ dpc = "disabled"
    /\ dpc' = "join"
    /\ UNCHANGED <<eventsenabled, events, npc, notified, epc, event, iter, stopping, handlerVars, history>>

DeinitExit ==
    /\ dpc = "disabled"
    /\ events' = Append(events, exit_event)
    /\ dpc' = "join"
    /\ UNCHANGED <<eventsenabled, npc, notified, epc, event, iter, stopping, handlerVars, history>>

DeinitJoin ==
    /\ dpc = "join" /\ epc = "done"
    /\ dpc' = "destroy"
    /\ UNCHANGED <<coreVars, stopping, handlerVars, history>>

\* janus_sampleevh_destroy: the flag, the event that wakes the thread up, the join.
\* The handlers are destroyed one after the other.
DestroyFlag(h) ==
    /\ dpc = "destroy" /\ ~stopping[h]
    /\ \A g \in Handlers : stopping[g] => hpc[g] = "done"
    /\ stopping' = [stopping EXCEPT ![h] = TRUE]
    /\ dpc' = h
    /\ UNCHANGED <<coreVars, handlerVars, history>>

DestroyExit(h) ==
    /\ dpc = h
    /\ queue' = [queue EXCEPT ![h] = Append(@, exit_event)]
    /\ dpc' = "destroy"
    /\ UNCHANGED <<coreVars, stopping, hpc, output, retransmit, history>>

Destroyed ==
    /\ dpc = "destroy"
    /\ \A h \in Handlers : stopping[h] /\ hpc[h] = "done"
    /\ dpc' = "done"
    /\ UNCHANGED <<coreVars, stopping, handlerVars, history>>

-----------------------------------------------------------------------------
(* janus_sampleevh_handler.                                                *)

HandlerStep(h, pc) ==
    /\ hpc' = [hpc EXCEPT ![h] = pc]
    /\ UNCHANGED <<coreVars, dpc, stopping, queued, handed>>

\* A retransmission goes straight to the POST of the text it kept.
HandlerCheck(h) ==
    /\ hpc[h] = "check"
    /\ HandlerStep(h, IF stopping[h] THEN "done" ELSE IF retransmit[h] > 0 THEN "post" ELSE "pop")
    /\ UNCHANGED <<queue, output, retransmit, settled, received>>

HandlerPop(h) ==
    /\ hpc[h] = "pop" /\ queue[h] # <<>>
    /\ queue' = [queue EXCEPT ![h] = Tail(@)]
    /\ LET e == Head(queue[h])
       IN  /\ HandlerStep(h, IF e = exit_event THEN "done"
                             ELSE IF group_events /\ MaxGroup > 1 THEN "group" ELSE "post")
           /\ output' = [output EXCEPT ![h] = IF e = exit_event THEN @ ELSE <<e>>]
    /\ UNCHANGED <<retransmit, settled, received>>

\* Mutant: the next event is popped before the size of the group is tested.
HandlerGroupEager(h) ==
    /\ hpc[h] = "group"
    /\ IF queue[h] = <<>>
         THEN HandlerStep(h, "post") /\ UNCHANGED <<queue, output>>
         ELSE /\ queue' = [queue EXCEPT ![h] = Tail(@)]
              /\ IF Head(queue[h]) = exit_event \/ Len(output[h]) = MaxGroup
                   THEN HandlerStep(h, "post") /\ UNCHANGED output
                   ELSE /\ output' = [output EXCEPT ![h] = Append(@, Head(queue[h]))]
                        /\ HandlerStep(h, "group")
    /\ UNCHANGED <<retransmit, settled, received>>

\* More events of the queue join the group, until it is empty, full or closed.
HandlerGroup(h) ==
    /\ hpc[h] = "group"
    /\ IF queue[h] = <<>> \/ Len(output[h]) = MaxGroup
         THEN HandlerStep(h, "post") /\ UNCHANGED <<queue, output>>
         ELSE /\ queue' = [queue EXCEPT ![h] = Tail(@)]
              /\ IF Head(queue[h]) = exit_event
                   THEN HandlerStep(h, "post") /\ UNCHANGED output
                   ELSE /\ output' = [output EXCEPT ![h] = Append(@, Head(queue[h]))]
                        /\ HandlerStep(h, "group")
    /\ UNCHANGED <<retransmit, settled, received>>

\* The thread is done with the group, delivered or given up.
Settle(h) ==
    /\ retransmit' = [retransmit EXCEPT ![h] = 0]
    /\ settled' = [settled EXCEPT ![h] = @ \o output[h]]
    /\ output' = [output EXCEPT ![h] = <<>>]

\* curl_easy_init failed: the group is dropped, unless it is being retransmitted.
PostNoCurl(h) ==
    /\ hpc[h] = "post"
    /\ HandlerStep(h, "check")
    /\ IF retransmit[h] = 0
         THEN Settle(h)
         ELSE UNCHANGED <<output, retransmit, settled>>
    /\ UNCHANGED <<queue, received>>

\* Mutant: one retransmission too many.
PostOnceMore(h) ==
    /\ hpc[h] = "post"
    /\ HandlerStep(h, "check")
    /\ \E ok \in BOOLEAN :
         /\ received' = IF ok THEN [received EXCEPT ![h] = Append(@, output[h])] ELSE received
         /\ IF ok \/ retransmit[h] > max_retransmissions
              THEN Settle(h)
              ELSE /\ retransmit' = [retransmit EXCEPT ![h] = @ + 1]
                   /\ UNCHANGED <<output, settled>>
    /\ UNCHANGED queue

\* curl_easy_perform; when it fails the backend may have got the group nevertheless.
Post(h) ==
    /\ hpc[h] = "post"
    /\ HandlerStep(h, "check")
    /\ \E ok, got \in BOOLEAN :
         /\ ok => got
         /\ received' = IF got THEN [received EXCEPT ![h] = Append(@, output[h])] ELSE received
         /\ IF ok \/ retransmit[h] = max_retransmissions
              THEN Settle(h)
              ELSE /\ retransmit' = [retransmit EXCEPT ![h] = @ + 1]
                   /\ UNCHANGED <<output, settled>>
    /\ UNCHANGED queue

-----------------------------------------------------------------------------
janus_events_thread ==
    EventsCheck \/ EventsPop \/ (\E h \in Handlers : EventsNotify(h)) \/ EventsNext \/ EventsCleanup

janus_sampleevh_handler(h) ==
    HandlerCheck(h) \/ HandlerPop(h) \/ HandlerGroup(h) \/ PostNoCurl(h) \/ Post(h)

Shutdown ==
    \/ DeinitExit \/ DeinitJoin
    \/ \E h \in Handlers : DestroyFlag(h) \/ DestroyExit(h)
    \/ Destroyed

Next ==
    \/ \E n \in Notifiers : NotifyBuild(n) \/ NotifyQueue(n)
    \/ janus_events_thread
    \/ \E h \in Handlers : janus_sampleevh_handler(h)
    \/ DeinitDisable \/ Shutdown

(* The threads run; curl_easy_init does not fail for ever.  Nothing makes  *)
(* an event happen, or the server exit.                                    *)
Fairness ==
    /\ WF_vars(janus_events_thread) /\ WF_vars(Shutdown)
    /\ \A h \in Handlers : WF_vars(janus_sampleevh_handler(h)) /\ SF_vars(Post(h))

Spec == Init /\ [][Next]_vars /\ Fairness

-----------------------------------------------------------------------------
Event == [notifier : Notifiers, n : 1 .. MaxEvents, type : Types]

TypeOK ==
    /\ eventsenabled \in BOOLEAN /\ events \in Seq(Event \union {exit_event})
    /\ npc \in [Notifiers -> {"idle", "built"}] /\ notified \in [Notifiers -> 0 .. MaxEvents]
    /\ epc \in {"check", "pop", "notify", "cleanup", "done"}
    /\ event \in Event \union {exit_event} /\ iter \subseteq Handlers
    /\ dpc \in {"running", "disabled", "join", "destroy", "done"} \union Handlers
    /\ stopping \in [Handlers -> BOOLEAN]
    /\ queue \in [Handlers -> Seq(Event \union {exit_event})]
    /\ hpc \in [Handlers -> {"check", "pop", "group", "post", "done"}]
    /\ output \in [Handlers -> Seq(Event)]
    /\ retransmit \in [Handlers -> 0 .. max_retransmissions]
    /\ queued \in Seq(Event)
    /\ handed \in [Handlers -> Seq(Event)] /\ settled \in [Handlers -> Seq(Event)]
    /\ received \in [Handlers -> Seq(Seq(Event))]

\* What a handler will still be given, from the core's thread and queue.
Upcoming(h) ==
    SelectSeq((IF epc = "notify" /\ h \in iter THEN <<event>> ELSE <<>>) \o events,
              LAMBDA e : e.type \in events_mask[h])

\* No event vanishes or changes place between janus_events_notify_handlers and
\* the end of its delivery: until the shutdown reaches them, what a handler was given
\* and is still to be given is what was queued of the types it subscribed to, and
\* what it was given is settled, in its hands or in its queue, in that order.
EventsKept ==
    \A h \in Handlers :
        /\ eventsenabled =>
             SelectSeq(queued, LAMBDA e : e.type \in events_mask[h]) = handed[h] \o Upcoming(h)
        /\ ~stopping[h] => handed[h] = settled[h] \o output[h] \o queue[h]

\* The position of an event among those handed to h.
Position(h, e) == CHOOSE i \in 1 .. Len(handed[h]) : handed[h][i] = e

\* What the backend receives: groups that are never empty, in the order of the events;
\* a group it gets more than once it gets at most 1 + max_retransmissions times, with
\* no other group in between.
GroupsInOrder ==
    \A h \in Handlers : \A i, j \in 1 .. Len(received[h]) :
        /\ received[h][i] # <<>>
        /\ i < j => \/ received[h][i] = received[h][j] /\ j - i <= max_retransmissions
                    \/ \A k \in 1 .. Len(received[h][i]), l \in 1 .. Len(received[h][j]) :
                         Position(h, received[h][i][k]) < Position(h, received[h][j][l])

\* While the server runs, every queued event is delivered to, or given up by, every
\* handler that subscribed to its type; and an exit ends with every thread joined,
\* whatever was left in the queues.  There are finitely many events: again and again
\* nothing is left to do.
EventsSettle ==
    []<>(/\ dpc = "running" =>
              \A i \in 1 .. Len(queued) : \A h \in Handlers :
                  queued[i].type \in events_mask[h] => \E j \in 1 .. Len(settled[h]) : settled[h][j] = queued[i]
         /\ dpc # "running" => dpc = "done")
=============================================================================
