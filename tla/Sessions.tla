------------------------------ MODULE Sessions ------------------------------
(***************************************************************************)
(* The lifecycle of sessions and of the handles attached to them: the core *)
(* of janus.c, with the part of ice.c that creates, attaches, detaches and *)
(* frees handles.                                                          *)
(*                                                                         *)
(* Threads: the requests thread Req, which serves every request but        *)
(* "message"; the pool Tasks, which serves those; the watchdog Wd; and one *)
(* thread per transport instance, which runs janus_transport_gone.         *)
(* Every step below is what one thread does between two points where       *)
(* another can see or change what it uses: a critical section of           *)
(* session->mutex is one step, the longer ones of sessions_mutex are       *)
(* several steps under the variable sessions_mutex.                        *)
(*                                                                         *)
(* Session and handle objects are allocated once; an object whose counter  *)
(* is back to 0 has been freed.                                            *)
(***************************************************************************)
EXTENDS Integers, FiniteSets

CONSTANTS
    Ids,            \* session identifiers
    Sess,           \* session objects
    Hnds,           \* handle objects
    Transports,     \* transport instances
    Tasks,          \* threads of the tasks pool
    Req, Wd,        \* the requests thread and the sessions watchdog
    NoSess, NoHnd, NoTransport, NoId,
    SessionTimeout, \* session_timeout, in units of time
    ReclaimTimeout, \* reclaim_session_timeout, in the same units
    AttachFailures, \* ways in which an attach may fail in this model
    SlowRequests,   \* TRUE: time may pass while a request is being served
    LateRequests    \* TRUE: a request may be served after its transport is gone

Workers == Tasks \cup {Req}
Threads == Workers \cup Transports \cup {Wd}

ASSUME ThreadsAssumption ==
    /\ Req \notin Tasks \cup Transports \cup {Wd}
    /\ Wd \notin Tasks \cup Transports
    /\ Tasks \cap Transports = {}
ASSUME NullsAssumption ==
    /\ NoSess \notin Sess
    /\ NoHnd \notin Hnds
    /\ NoTransport \notin Transports \cup Threads
    /\ NoId \notin Ids
ASSUME SizesAssumption ==
    /\ IsFiniteSet(Hnds) /\ IsFiniteSet(Tasks)
    /\ SessionTimeout \in Nat
    /\ ReclaimTimeout \in Nat
    /\ AttachFailures \subseteq {"plugin", "thread"}
    /\ SlowRequests \in BOOLEAN /\ LateRequests \in BOOLEAN

VARIABLES
    table,          \* sessions: the hash table, from identifiers to objects
    sid,            \* session->session_id
    sref,           \* session->ref
    sdestroyed,     \* sessions whose destroyed flag is set
    timeout,        \* sessions whose timeout flag is set
    transport_gone, \* sessions whose transport_gone flag is set
    idle,           \* now - session->last_activity, up to MaxIdle
    source,         \* session->source->instance
    gone,           \* transport instances that went away
    hsess,          \* handle->session
    href,           \* handle->ref
    hdestroyed,     \* handles whose destroyed flag is set
    listed,         \* handles in the ice_handles table of their session
    app,            \* the state of the handle's plugin session
    pref,           \* plugin_session->ref
    plugged,        \* handles whose plugin still refers to the plugin session
    ending,         \* handles with a pending end_session callback
    loop,           \* the handle's event loop
    sessions_mutex, \* the owner of sessions_mutex, or NoTransport
    pc, lsess, lhnd, \* per thread: its next step, its session and its handle
    from,           \* request->instance of the request a thread serves
    todo            \* the entries a table iterator still has to visit

tableVars == <<table, sid, sdestroyed, timeout, transport_gone, idle, source>>
handleVars == <<hsess, hdestroyed, listed, app, pref, plugged, ending, loop>>
refVars == <<sref, href>>
threadVars == <<sessions_mutex, pc, lsess, lhnd, from, todo>>
vars == <<tableVars, handleVars, refVars, threadVars, gone>>

MaxIdle == IF SessionTimeout > ReclaimTimeout THEN SessionTimeout ELSE ReclaimTimeout

InTable == {s \in Sess : \E i \in Ids : table[i] = s}
One(b) == IF b THEN 1 ELSE 0

-----------------------------------------------------------------------------
(* Counters *)

\* Decrease the counters of handles by hdec and those of sessions by sdec. A
\* handle whose counter gets to 0 is freed (janus_ice_handle_free), and that
\* drops its reference to its session.
Unref(hdec, sdec) ==
    LET dead == {h \in Hnds : href[h] > 0 /\ href[h] - hdec[h] = 0}
    IN  /\ href' = [h \in Hnds |-> href[h] - hdec[h]]
        /\ sref' = [s \in Sess |-> sref[s] - sdec[s]
                                 - Cardinality({h \in dead : hsess[h] = s})]

\* janus_ice_handle_destroy for the handles of H, and their removal from the
\* ice_handles table, which drops a reference. Only a handle whose plugin
\* session is in plugin_sessions gives up its initial reference and has the
\* detach message queued: for the others the function returns before that.
Detaching(H) == {h \in H \ hdestroyed : app[h] = "alive"}
HandlesDestroy(H, hdec, sdec) ==
    /\ hdestroyed' = hdestroyed \cup H
    /\ listed' = listed \ H
    /\ app' = [h \in Hnds |-> IF h \in Detaching(H) THEN "stopped" ELSE app[h]]
    /\ pref' = [h \in Hnds |-> pref[h] - One(h \in Detaching(H))]
    /\ Unref([h \in Hnds |-> hdec[h] + One(h \in H \cap listed) + One(h \in Detaching(H))],
             sdec)
    /\ UNCHANGED <<hsess, plugged, ending, loop>>

HandlesOf(s) == {h \in listed : hsess[h] = s}
NoneH == [h \in Hnds |-> 0]
NoneS == [s \in Sess |-> 0]
OneH(x) == [h \in Hnds |-> One(h = x)]
OneS(x) == [s \in Sess |-> One(s = x)]

Goto(p, l) == pc' = [pc EXCEPT ![p] = l]

\* A thread takes a request of t. Requests wait in a queue: with LateRequests,
\* t may be gone by now, or go while the request is served.
Receive(p, t) ==
    /\ LateRequests \/ t \notin gone
    /\ from' = [from EXCEPT ![p] = t]
-----------------------------------------------------------------------------
(* The requests thread and the tasks: janus_process_incoming_request *)

CreateConflict_KeepsRef(i, t) ==
    /\ pc[Req] = "idle" /\ sessions_mutex = NoTransport
    /\ table[i] # NoSess
    /\ sref' = [sref EXCEPT ![table[i]] = @ + 1]
    /\ UNCHANGED <<tableVars, handleVars, href, threadVars, gone>>
\* "create" with an identifier in use: the session is found, and a reference
\* to it taken, only to answer with an error.
CreateConflict(i, t) ==
    /\ pc[Req] = "idle" /\ sessions_mutex = NoTransport /\ Receive(Req, t)
    /\ table[i] # NoSess
    /\ sref' = [sref EXCEPT ![table[i]] = @ + 1]
    /\ lsess' = [lsess EXCEPT ![Req] = table[i]]
    /\ Goto(Req, "done")
    /\ UNCHANGED <<tableVars, handleVars, href, sessions_mutex, lhnd, todo, gone>>

\* "create": janus_session_create makes the session reachable in the table,
\* with no source yet and without a reference of the request's own.
CreateSession(i, s, t) ==
    /\ pc[Req] = "idle" /\ sessions_mutex = NoTransport /\ Receive(Req, t)
    /\ table[i] = NoSess
    /\ sid[s] = NoId
    /\ table' = [table EXCEPT ![i] = s]
    /\ sid' = [sid EXCEPT ![s] = i]
    /\ sref' = [sref EXCEPT ![s] = 1]
    /\ idle' = [idle EXCEPT ![s] = 0]
    /\ lsess' = [lsess EXCEPT ![Req] = s]
    /\ Goto(Req, "created")
    /\ UNCHANGED <<sdestroyed, timeout, transport_gone, source, handleVars, href,
                   sessions_mutex, lhnd, todo, gone>>

\* ... and only then the request takes its reference and sets the source.
CreateSource ==
    /\ pc[Req] = "created"
    /\ sref' = [sref EXCEPT ![lsess[Req]] = @ + 1]
    /\ source' = [source EXCEPT ![lsess[Req]] = from[Req]]
    /\ Goto(Req, "done")
    /\ UNCHANGED <<table, sid, sdestroyed, timeout, transport_gone, idle, handleVars,
                   href, sessions_mutex, lsess, lhnd, from, todo, gone>>

FindSession_Unchecked(p, i, t) ==
    /\ pc[p] = "idle" /\ sessions_mutex = NoTransport /\ Receive(p, t)
    /\ sref' = [s \in Sess |-> sref[s] + One(s = table[i])]
    /\ lsess' = [lsess EXCEPT ![p] = table[i]]
    /\ Goto(p, "found")
    /\ UNCHANGED <<tableVars, handleVars, href, sessions_mutex, lhnd, todo, gone>>
\* Every other request: janus_session_find takes a reference to the session.
FindSession(p, i, t) ==
    /\ pc[p] = "idle" /\ sessions_mutex = NoTransport /\ Receive(p, t)
    /\ table[i] # NoSess
    /\ sref' = [sref EXCEPT ![table[i]] = @ + 1]
    /\ lsess' = [lsess EXCEPT ![p] = table[i]]
    /\ Goto(p, "found")
    /\ UNCHANGED <<tableVars, handleVars, href, sessions_mutex, lhnd, todo, gone>>

\* A request of the Janus API updates the last activity, one of the Admin API
\* (admin) does not. Next comes the request itself: one about the session, or
\* one of nothing to do with its state ("keepalive", an error) ...
SessionRequest(op, admin) ==
    /\ pc[Req] = "found"
    /\ op \in IF admin THEN {"destroy", "done"} ELSE {"attach", "destroy", "claim", "done"}
    /\ idle' = IF admin THEN idle ELSE [idle EXCEPT ![lsess[Req]] = 0]
    /\ Goto(Req, op)
    /\ UNCHANGED <<table, sid, sdestroyed, timeout, transport_gone, source, handleVars,
                   refVars, sessions_mutex, lsess, lhnd, from, todo, gone>>

\* ... or one about a handle that janus_session_handles_find finds in the
\* session, which takes a reference to it. Only "message" is served by a task.
HandleRequest(p, op, h, admin) ==
    /\ pc[p] = "found"
    /\ op \in IF p = Req THEN {"detach", "done"} ELSE {"message"}
    /\ admin => p = Req
    /\ h \in HandlesOf(lsess[p])
    /\ idle' = IF admin THEN idle ELSE [idle EXCEPT ![lsess[p]] = 0]
    /\ href' = [href EXCEPT ![h] = @ + 1]
    /\ lhnd' = [lhnd EXCEPT ![p] = h]
    /\ Goto(p, op)
    /\ UNCHANGED <<table, sid, sdestroyed, timeout, transport_gone, source, handleVars,
                   sref, sessions_mutex, lsess, from, todo, gone>>

\* A task whose handle is not found answers with an error.
MissingHandle(p) ==
    /\ pc[p] = "found" /\ p \in Tasks
    /\ idle' = [idle EXCEPT ![lsess[p]] = 0]
    /\ Goto(p, "done")
    /\ UNCHANGED <<table, sid, sdestroyed, timeout, transport_gone, source, handleVars,
                   refVars, sessions_mutex, lsess, lhnd, from, todo, gone>>

AttachCreate_NoSessionRef(h) ==
    /\ pc[Req] = "attach"
    /\ hsess[h] = NoSess
    /\ hsess' = [hsess EXCEPT ![h] = lsess[Req]]
    /\ href' = [href EXCEPT ![h] = 3]
    /\ listed' = listed \cup {h}
    /\ lhnd' = [lhnd EXCEPT ![Req] = h]
    /\ Goto(Req, "attach_plugin")
    /\ UNCHANGED <<tableVars, hdestroyed, app, pref, plugged, ending, loop, sref,
                   sessions_mutex, lsess, from, todo, gone>>
\* "attach": janus_ice_handle_create puts a handle in the session's table, with
\* its initial reference, the table's and the request's (a handle without a
\* plugin session cannot lose its initial reference, so that the request's
\* comes after the insertion makes no difference).
AttachCreate(h) ==
    /\ pc[Req] = "attach"
    /\ hsess[h] = NoSess
    /\ hsess' = [hsess EXCEPT ![h] = lsess[Req]]
    /\ href' = [href EXCEPT ![h] = 3]
    /\ sref' = [sref EXCEPT ![lsess[Req]] = @ + 1]
    /\ listed' = listed \cup {h}
    /\ lhnd' = [lhnd EXCEPT ![Req] = h]
    /\ Goto(Req, "attach_plugin")
    /\ UNCHANGED <<tableVars, hdestroyed, app, pref, plugged, ending, loop,
                   sessions_mutex, lsess, from, todo, gone>>

\* No memory for another handle in this model: the request ends there.
AttachNone ==
    /\ pc[Req] = "attach"
    /\ \A h \in Hnds : hsess[h] # NoSess
    /\ Goto(Req, "done")
    /\ UNCHANGED <<tableVars, handleVars, refVars, sessions_mutex, lsess, lhnd, from, todo, gone>>

\* janus_ice_handle_attach_plugin up to the insertion in plugin_sessions: the
\* plugin session has the map's and the plugin's references, and refers to the
\* handle.
AttachPlugin ==
    LET h == lhnd[Req] IN
    /\ pc[Req] = "attach_plugin"
    /\ app' = [app EXCEPT ![h] = "alive"]
    /\ pref' = [pref EXCEPT ![h] = 2]
    /\ plugged' = plugged \cup {h}
    /\ href' = [href EXCEPT ![h] = @ + 1]
    /\ Goto(Req, "attach_loop")
    /\ UNCHANGED <<tableVars, hsess, hdestroyed, listed, ending, loop, sref,
                   sessions_mutex, lsess, lhnd, from, todo, gone>>

\* The plugin's create_session fails: the handle is removed.
AttachPluginError ==
    /\ pc[Req] = "attach_plugin" /\ "plugin" \in AttachFailures
    /\ HandlesDestroy({lhnd[Req]}, NoneH, NoneS)
    /\ Goto(Req, "done")
    /\ UNCHANGED <<tableVars, sessions_mutex, lsess, lhnd, from, todo, gone>>

\* The rest of it: the event loop's source and its thread, each with a
\* reference to the handle (with static event loops, the source and the loop).
AttachLoop ==
    LET h == lhnd[Req] IN
    /\ pc[Req] = "attach_loop"
    /\ loop' = [loop EXCEPT ![h] = "running"]
    /\ href' = [href EXCEPT ![h] = @ + 2]
    /\ Goto(Req, "done")
    /\ UNCHANGED <<tableVars, hsess, hdestroyed, listed, app, pref, plugged, ending,
                   sref, sessions_mutex, lsess, lhnd, from, todo, gone>>

\* The thread cannot be created: the handle is destroyed and then removed, and
\* the source keeps its reference in a loop nobody runs.
AttachLoopError ==
    LET h == lhnd[Req]
        H == {h}
    IN
    /\ pc[Req] = "attach_loop" /\ "thread" \in AttachFailures
    /\ loop' = [loop EXCEPT ![h] = "dead"]
    /\ hdestroyed' = hdestroyed \cup H
    /\ listed' = listed \ H
    /\ app' = [app EXCEPT ![h] = IF h \in Detaching(H) THEN "stopped" ELSE @]
    /\ pref' = [pref EXCEPT ![h] = @ - One(h \in Detaching(H))]
    /\ href' = [href EXCEPT ![h] = @ + 1 - One(h \in listed) - One(h \in Detaching(H))]
    /\ Goto(Req, "done")
    /\ UNCHANGED <<tableVars, hsess, plugged, ending, sref,
                   sessions_mutex, lsess, lhnd, from, todo, gone>>

DestroyRemove_Returns ==
    /\ pc[Req] = "destroy" /\ sessions_mutex = NoTransport
    /\ table' = [table EXCEPT ![sid[lsess[Req]]] = NoSess]
    /\ Goto(Req, "done")
    /\ UNCHANGED <<sid, sdestroyed, timeout, transport_gone, idle, source, handleVars,
                   refVars, sessions_mutex, lsess, lhnd, from, todo, gone>>
\* "destroy": the entry with the session's identifier leaves the table ...
DestroyRemove ==
    /\ pc[Req] = "destroy" /\ sessions_mutex = NoTransport
    /\ table' = [table EXCEPT ![sid[lsess[Req]]] = NoSess]
    /\ Goto(Req, "destroy_mark")
    /\ UNCHANGED <<sid, sdestroyed, timeout, transport_gone, idle, source, handleVars,
                   refVars, sessions_mutex, lsess, lhnd, from, todo, gone>>

\* ... its source is told, and janus_session_destroy marks it, once ...
MarkDestroyed(p, next, over) ==
    /\ sdestroyed' = sdestroyed \cup {lsess[p]}
    /\ Goto(p, IF lsess[p] \in sdestroyed THEN over ELSE next)
DestroyMark ==
    /\ pc[Req] = "destroy_mark"
    /\ MarkDestroyed(Req, "destroy_clear", "done")
    /\ UNCHANGED <<table, sid, timeout, transport_gone, idle, source, handleVars,
                   refVars, sessions_mutex, lsess, lhnd, from, todo, gone>>

\* ... and whoever marked it removes its handles and drops the initial
\* reference.
DestroyClear(p, to) ==
    /\ pc[p] = "destroy_clear"
    /\ HandlesDestroy(HandlesOf(lsess[p]), NoneH, OneS(lsess[p]))
    /\ Goto(p, to)
    /\ UNCHANGED <<tableVars, sessions_mutex, lsess, lhnd, from, gone>>
DestroyHandles ==
    /\ DestroyClear(Req, "done")
    /\ UNCHANGED todo

\* "detach": an error if there is no plugin session, else the handle is
\* removed from its session.
Detach ==
    LET h == lhnd[Req] IN
    /\ pc[Req] = "detach"
    /\ IF app[h] \in {"alive", "stopped"}
       THEN HandlesDestroy({h}, NoneH, NoneS)
       ELSE UNCHANGED <<handleVars, refVars>>
    /\ Goto(Req, "done")
    /\ UNCHANGED <<tableVars, sessions_mutex, lsess, lhnd, from, todo, gone>>

\* "claim": a request from another transport instance makes it the source of
\* the session, which is not waiting for its transport any more.
Claim ==
    LET s == lsess[Req]
        t == from[Req]
    IN
    /\ pc[Req] = "claim"
    /\ source' = [source EXCEPT ![s] = t]
    /\ transport_gone' = IF source[s] = t THEN transport_gone ELSE transport_gone \ {s}
    /\ Goto(Req, "done")
    /\ UNCHANGED <<table, sid, sdestroyed, timeout, idle, handleVars, refVars,
                   sessions_mutex, lsess, lhnd, from, todo, gone>>

\* "message": the plugin session is checked to be alive ...
Message(p) ==
    /\ pc[p] = "message"
    /\ Goto(p, IF app[lhnd[p]] = "alive" THEN "deliver" ELSE "done")
    /\ UNCHANGED <<tableVars, handleVars, refVars, sessions_mutex, lsess, lhnd, from, todo, gone>>

\* ... and then passed to the plugin's handle_message.
Deliver(p) ==
    /\ pc[p] = "deliver"
    /\ Goto(p, "done")
    /\ UNCHANGED <<tableVars, handleVars, refVars, sessions_mutex, lsess, lhnd, from, todo, gone>>

\* jsondone: the references of the request are dropped.
Done(p) ==
    /\ pc[p] = "done"
    /\ Unref(OneH(lhnd[p]), OneS(lsess[p]))
    /\ lsess' = [lsess EXCEPT ![p] = NoSess]
    /\ lhnd' = [lhnd EXCEPT ![p] = NoHnd]
    /\ from' = [from EXCEPT ![p] = NoTransport]
    /\ Goto(p, "idle")
    /\ UNCHANGED <<tableVars, handleVars, sessions_mutex, todo, gone>>
-----------------------------------------------------------------------------
(* The watchdog: janus_check_sessions, and the end_session callbacks *)

\* A pass over the table, under sessions_mutex, unless both timeouts are 0.
WdStart ==
    /\ pc[Wd] = "idle" /\ sessions_mutex = NoTransport
    /\ SessionTimeout > 0 \/ ReclaimTimeout > 0
    /\ sessions_mutex' = Wd
    /\ todo' = InTable
    /\ Goto(Wd, "check")
    /\ UNCHANGED <<tableVars, handleVars, refVars, lsess, lhnd, from, gone>>

\* One entry: compare-and-exchange succeeds, and so its negation is false, the
\* first time; a session is only over when its timeout flag was set before.
IdleExpired(s) == SessionTimeout > 0 /\ idle[s] >= SessionTimeout
ReclaimExpired(s) == s \in transport_gone /\ idle[s] >= ReclaimTimeout
WdOver_OnlyReclaim(s) == s \in timeout /\ ReclaimExpired(s)
WdOver(s) ==
    \/ s \in timeout /\ (IdleExpired(s) \/ ReclaimExpired(s))
    \/ IdleExpired(s) /\ ReclaimExpired(s)
WdCheck(s) ==
    LET marked == IdleExpired(s) \/ ReclaimExpired(s)
        live == s \notin sdestroyed
    IN
    /\ pc[Wd] = "check" /\ s \in todo
    /\ todo' = todo \ {s}
    /\ timeout' = IF live /\ marked THEN timeout \cup {s} ELSE timeout
    /\ IF live /\ WdOver(s)
       THEN lsess' = [lsess EXCEPT ![Wd] = s] /\ Goto(Wd, "clear")
       ELSE UNCHANGED <<lsess, pc>>
    /\ UNCHANGED <<table, sid, sdestroyed, transport_gone, idle, source, handleVars,
                   refVars, sessions_mutex, lhnd, from, gone>>

\* A session that is over: its handles are removed ...
WdClear ==
    /\ pc[Wd] = "clear"
    /\ HandlesDestroy(HandlesOf(lsess[Wd]), NoneH, NoneS)
    /\ Goto(Wd, "remove")
    /\ UNCHANGED <<tableVars, sessions_mutex, lsess, lhnd, from, todo, gone>>

\* ... its transport is told, the entry the iterator is at leaves the table, and
\* janus_session_destroy marks it ...
WdRemove ==
    LET s == lsess[Wd] IN
    /\ pc[Wd] = "remove"
    /\ table' = [i \in Ids |-> IF table[i] = s THEN NoSess ELSE table[i]]
    /\ MarkDestroyed(Wd, "destroy_clear", "check")
    /\ UNCHANGED <<sid, timeout, transport_gone, idle, source, handleVars, refVars,
                   sessions_mutex, lsess, lhnd, from, todo, gone>>

\* ... and removes what handles there are by then.
WdDestroy ==
    /\ DestroyClear(Wd, "check")
    /\ UNCHANGED todo

WdEnd ==
    /\ pc[Wd] = "check" /\ todo = {}
    /\ sessions_mutex' = NoTransport
    /\ lsess' = [lsess EXCEPT ![Wd] = NoSess]
    /\ Goto(Wd, "idle")
    /\ UNCHANGED <<tableVars, handleVars, refVars, lhnd, from, todo, gone>>

\* janus_plugin_end_session, called by a plugin: a callback is left for the
\* watchdog, with a reference to the plugin session.
EndSession(h) ==
    /\ app[h] = "alive" /\ h \notin ending
    /\ ending' = ending \cup {h}
    /\ pref' = [pref EXCEPT ![h] = @ + 1]
    /\ UNCHANGED <<tableVars, hsess, hdestroyed, listed, app, plugged, loop, refVars,
                   threadVars, gone>>

\* The callback removes the handle, if it is not stopped yet. The reference it
\* drops may be the plugin session's last, which gives up the handle's.
LastPluginRef(h) == pref[h] = 1
WdEndSession(h) ==
    /\ pc[Wd] = "idle" /\ h \in ending
    /\ ending' = ending \ {h}
    /\ LET H == {h} \ hdestroyed IN
       /\ hdestroyed' = hdestroyed \cup H
       /\ listed' = listed \ H
       /\ app' = [app EXCEPT ![h] = IF h \in Detaching(H) THEN "stopped" ELSE @]
       /\ pref' = [pref EXCEPT ![h] = @ - 1 - One(h \in Detaching(H))]
       /\ Unref([x \in Hnds |-> One(x = h /\ h \in H \cap listed)
                                + One(x = h /\ h \in Detaching(H))
                                + One(x = h /\ LastPluginRef(h))], NoneS)
    /\ UNCHANGED <<tableVars, hsess, plugged, loop, threadVars, gone>>

-----------------------------------------------------------------------------
(* Transport threads: janus_transport_gone *)

TgStart(t) ==
    /\ pc[t] = "idle" /\ t \notin gone /\ sessions_mutex = NoTransport
    /\ LateRequests \/ \A p \in Workers : from[p] # t
    /\ sessions_mutex' = t
    /\ gone' = gone \cup {t}
    /\ todo' = InTable
    /\ Goto(t, "gone")
    /\ UNCHANGED <<tableVars, handleVars, refVars, lsess, lhnd, from>>

\* One entry: skipped if it is destroyed, timed out or not of this instance.
TgCheck(t, s) ==
    /\ pc[t] = "gone" /\ s \in todo
    /\ todo' = todo \ {s}
    /\ IF s \notin sdestroyed /\ s \notin timeout /\ source[s] = t
       THEN lsess' = [lsess EXCEPT ![t] = s] /\ Goto(t, "over")
       ELSE UNCHANGED <<lsess, pc>>
    /\ UNCHANGED <<tableVars, handleVars, refVars, sessions_mutex, lhnd, from, gone>>

\* With reclaiming enabled the session is only flagged ...
TgFlag(t) ==
    /\ pc[t] = "over" /\ ReclaimTimeout > 0
    /\ transport_gone' = transport_gone \cup {lsess[t]}
    /\ Goto(t, "gone")
    /\ UNCHANGED <<table, sid, sdestroyed, timeout, idle, source, handleVars, refVars,
                   sessions_mutex, lsess, lhnd, from, todo, gone>>

\* ... else it is destroyed, and then leaves the table.
TgMark(t) ==
    /\ pc[t] = "over" /\ ReclaimTimeout = 0
    /\ MarkDestroyed(t, "destroy_clear", "remove")
    /\ UNCHANGED <<table, sid, timeout, transport_gone, idle, source, handleVars, refVars,
                   sessions_mutex, lsess, lhnd, from, todo, gone>>
TgClear(t) ==
    /\ DestroyClear(t, "remove")
    /\ UNCHANGED todo
TgRemove_KeepsEntry(t) ==
    /\ pc[t] = "remove"
    /\ Goto(t, "gone")
    /\ UNCHANGED <<tableVars, handleVars, refVars, sessions_mutex, lsess, lhnd, from, todo, gone>>
TgRemove(t) ==
    /\ pc[t] = "remove"
    /\ table' = [i \in Ids |-> IF table[i] = lsess[t] THEN NoSess ELSE table[i]]
    /\ Goto(t, "gone")
    /\ UNCHANGED <<sid, sdestroyed, timeout, transport_gone, idle, source, handleVars,
                   refVars, sessions_mutex, lsess, lhnd, from, todo, gone>>

TgEnd(t) ==
    /\ pc[t] = "gone" /\ todo = {}
    /\ sessions_mutex' = NoTransport
    /\ lsess' = [lsess EXCEPT ![t] = NoSess]
    /\ Goto(t, "idle")
    /\ UNCHANGED <<tableVars, handleVars, refVars, lhnd, from, todo, gone>>

-----------------------------------------------------------------------------
(* The handle's event loop, and its plugin *)

\* The loop handles the detach message: the plugin's destroy_session is called,
\* the handle forgets the plugin session, and the source, which is removed,
\* drops its reference when it is finalized.
LoopDetach(h) ==
    /\ loop[h] = "running" /\ app[h] = "stopped"
    /\ app' = [app EXCEPT ![h] = "detached"]
    /\ loop' = [loop EXCEPT ![h] = "quit"]
    /\ Unref(OneH(h), NoneS)
    /\ UNCHANGED <<tableVars, hsess, hdestroyed, listed, pref, plugged, ending,
                   threadVars, gone>>

LoopEnd_KeepsRef(h) ==
    /\ loop[h] = "quit"
    /\ loop' = [loop EXCEPT ![h] = "ended"]
    /\ UNCHANGED <<tableVars, hsess, hdestroyed, listed, app, pref, plugged, ending,
                   refVars, threadVars, gone>>
\* The loop's thread ends, and drops its own.
LoopEnd(h) ==
    /\ loop[h] = "quit"
    /\ loop' = [loop EXCEPT ![h] = "ended"]
    /\ Unref(OneH(h), NoneS)
    /\ UNCHANGED <<tableVars, hsess, hdestroyed, listed, app, pref, plugged, ending,
                   threadVars, gone>>

\* The plugin, told that the plugin session is over, drops its reference to it.
PluginUnref(h) ==
    /\ app[h] = "detached" /\ h \in plugged
    /\ plugged' = plugged \ {h}
    /\ pref' = [pref EXCEPT ![h] = @ - 1]
    /\ Unref([x \in Hnds |-> One(x = h /\ LastPluginRef(h))], NoneS)
    /\ UNCHANGED <<tableVars, hsess, hdestroyed, listed, app, ending, loop,
                   threadVars, gone>>

\* Time passes. The requests thread is taken not to stall for that long between
\* the two steps of "create", nor, unless SlowRequests, within any request.
Tick ==
    /\ pc[Req] # "created"
    /\ SlowRequests \/ \A p \in Workers : pc[p] = "idle"
    /\ idle' = [s \in Sess |-> IF sid[s] # NoId /\ idle[s] < MaxIdle
                               THEN idle[s] + 1 ELSE idle[s]]
    /\ UNCHANGED <<table, sid, sdestroyed, timeout, transport_gone, source, handleVars,
                   refVars, threadVars, gone>>

-----------------------------------------------------------------------------
Init ==
    /\ table = [i \in Ids |-> NoSess]
    /\ sid = [s \in Sess |-> NoId]
    /\ sref = NoneS
    /\ sdestroyed = {} /\ timeout = {} /\ transport_gone = {}
    /\ idle = NoneS
    /\ source = [s \in Sess |-> NoTransport]
    /\ gone = {}
    /\ hsess = [h \in Hnds |-> NoSess]
    /\ href = NoneH
    /\ hdestroyed = {} /\ listed = {}
    /\ app = [h \in Hnds |-> "none"]
    /\ pref = NoneH
    /\ plugged = {} /\ ending = {}
    /\ loop = [h \in Hnds |-> "none"]
    /\ sessions_mutex = NoTransport
    /\ pc = [p \in Threads |-> "idle"]
    /\ lsess = [p \in Threads |-> NoSess]
    /\ lhnd = [p \in Threads |-> NoHnd]
    /\ from = [p \in Threads |-> NoTransport]
    /\ todo = {}

RequestsThread ==
    \/ \E i \in Ids, t \in Transports :
           CreateConflict(i, t) \/ \E s \in Sess : CreateSession(i, s, t)
    \/ CreateSource \/ Claim
    \/ \E op \in {"attach", "destroy", "claim", "done"}, admin \in BOOLEAN :
           SessionRequest(op, admin)
    \/ \E h \in Hnds : AttachCreate(h)
    \/ AttachNone \/ AttachPlugin \/ AttachPluginError \/ AttachLoop \/ AttachLoopError
    \/ DestroyRemove \/ DestroyMark \/ DestroyHandles \/ Detach
Worker(p) ==
    \/ \E i \in Ids, t \in Transports : FindSession(p, i, t)
    \/ \E op \in {"detach", "message", "done"}, h \in Hnds, admin \in BOOLEAN :
           HandleRequest(p, op, h, admin)
    \/ MissingHandle(p) \/ Message(p) \/ Deliver(p) \/ Done(p)
Watchdog ==
    \/ WdStart \/ WdClear \/ WdRemove \/ WdDestroy \/ WdEnd
    \/ \E s \in Sess : WdCheck(s)
    \/ \E h \in Hnds : WdEndSession(h)
TransportThread(t) ==
    \/ TgStart(t) \/ TgFlag(t) \/ TgMark(t) \/ TgClear(t) \/ TgRemove(t) \/ TgEnd(t)
    \/ \E s \in Sess : TgCheck(t, s)
Loop(h) == LoopDetach(h) \/ LoopEnd(h)

Next ==
    \/ RequestsThread
    \/ \E p \in Workers : Worker(p)
    \/ Watchdog
    \/ \E t \in Transports : TransportThread(t)
    \/ \E h \in Hnds : EndSession(h) \/ Loop(h) \/ PluginUnref(h)
    \/ Tick

Spec == Init /\ [][Next]_vars

(* Fairness: a thread that has started on a request, on a pass or on a callback  *)
(* goes on, and gets a mutex that is free again and again; the plugin releases   *)
(* what it was told is over; time passes. Nobody has to send a request. The      *)
(* watchdog's loop dispatches every source that is ready, so its pass goes on    *)
(* however many ends of sessions are queued on it.                               *)
Busy(p) == pc[p] # "idle" /\ (Worker(p) \/ (p = Req /\ RequestsThread))
Pass == WdStart \/ (\E s \in Sess : WdCheck(s)) \/ WdClear \/ WdRemove \/ WdDestroy \/ WdEnd
Fairness ==
    /\ \A p \in Workers : SF_vars(Busy(p))
    /\ WF_vars(Pass)
    /\ \A h \in Hnds : SF_vars(WdEndSession(h)) /\ WF_vars(Loop(h)) /\ WF_vars(PluginUnref(h))
    /\ \A t \in Transports : WF_vars(pc[t] # "idle" /\ TransportThread(t))
    /\ SF_vars(Tick)
FairSpec == Spec /\ Fairness

-----------------------------------------------------------------------------
(* Properties *)

WorkerLabels == {"idle", "created", "found", "attach", "attach_plugin", "attach_loop",
                 "destroy", "destroy_mark", "destroy_clear", "detach", "claim",
                 "message", "deliver", "done"}
WdLabels == {"idle", "check", "clear", "remove", "destroy_clear"}
TransportLabels == {"idle", "gone", "over", "destroy_clear", "remove"}
TableTypes ==
    /\ table \in [Ids -> Sess \cup {NoSess}]
    /\ sid \in [Sess -> Ids \cup {NoId}]
    /\ sdestroyed \subseteq Sess /\ timeout \subseteq Sess /\ transport_gone \subseteq Sess
    /\ idle \in [Sess -> 0 .. MaxIdle]
    /\ source \in [Sess -> Transports \cup {NoTransport}]
    /\ gone \subseteq Transports
HandleTypes ==
    /\ hsess \in [Hnds -> Sess \cup {NoSess}]
    /\ hdestroyed \subseteq Hnds /\ listed \subseteq Hnds
    /\ app \in [Hnds -> {"none", "alive", "stopped", "detached"}]
    /\ pref \in [Hnds -> Int]
    /\ plugged \subseteq Hnds /\ ending \subseteq Hnds
    /\ loop \in [Hnds -> {"none", "running", "quit", "ended", "dead"}]
RefTypes == sref \in [Sess -> Int] /\ href \in [Hnds -> Int]
Labels == WorkerLabels \cup WdLabels \cup TransportLabels
LocalTypes(p, l, s, h, t) ==
    /\ p \in Workers => /\ l \in WorkerLabels
                        /\ l # "idle" => s \in Sess /\ t \in Transports
                        /\ l \in {"attach_plugin", "attach_loop", "detach", "message", "deliver"}
                             => h \in Hnds
    /\ p = Wd => /\ l \in WdLabels
                 /\ l \in {"clear", "remove", "destroy_clear"} => s \in Sess
    /\ p \in Transports => /\ l \in TransportLabels
                           /\ l \in {"over", "destroy_clear", "remove"} => s \in Sess
ThreadTypes ==
    /\ sessions_mutex \in Transports \cup {Wd, NoTransport}
    /\ todo \subseteq Sess
    /\ pc \in [Threads -> Labels]
    /\ lsess \in [Threads -> Sess \cup {NoSess}]
    /\ lhnd \in [Threads -> Hnds \cup {NoHnd}]
    /\ from \in [Threads -> Transports \cup {NoTransport}]
    /\ \A p \in Threads : LocalTypes(p, pc[p], lsess[p], lhnd[p], from[p])
\* Every variable has its type, and a thread at a step that uses a session, a
\* handle or a transport has one.
TypeOK == TableTypes /\ HandleTypes /\ RefTypes /\ ThreadTypes

Created(s) == sid[s] # NoId
\* Who holds a reference: the session itself until janus_session_destroy is
\* through, the requests that use it, and the handles that are not freed.
HasInitialRef(s) ==
    Created(s) /\ (s \in sdestroyed => \E p \in Threads : pc[p] = "destroy_clear" /\ lsess[p] = s)
UsersOf(s) == {p \in Workers : lsess[p] = s /\ pc[p] # "created"}
LiveHandlesOf(s) == {h \in Hnds : hsess[h] = s /\ href[h] > 0}
LoopRefs(h) == IF loop[h] = "running" THEN 2
               ELSE IF loop[h] \in {"quit", "dead"} THEN 1 ELSE 0
HandleUsers(h) == {p \in Workers : lhnd[p] = h}

\* Every counter is the number of its holders: each reference janus.c and ice.c
\* take to a session, a handle or a plugin session is dropped exactly once, on
\* every path, and never while it is in use.
RefsExact ==
    /\ \A s \in Sess : sref[s] = One(HasInitialRef(s)) + Cardinality(UsersOf(s))
                               + Cardinality(LiveHandlesOf(s))
    /\ \A h \in Hnds : href[h] =
           One(hsess[h] # NoSess /\ app[h] \in {"none", "alive"}) + One(h \in listed)
           + Cardinality(HandleUsers(h)) + One(pref[h] > 0) + LoopRefs(h)
    /\ \A h \in Hnds : pref[h] = One(app[h] = "alive") + One(h \in plugged) + One(h \in ending)

\* Nothing that was freed is used: not by the sessions table, an iteration over
\* it, a request, the watchdog, a transport thread, a handle of the session, a
\* loop or a plugin.
NoUseAfterFree ==
    /\ \A s \in todo : sref[s] > 0
    /\ \A s \in InTable : sref[s] > 0 \/ \E t \in Transports : lsess[t] = s /\ pc[t] = "remove"
    /\ \A p \in Workers : /\ lsess[p] # NoSess => sref[lsess[p]] > 0
                          /\ lhnd[p] # NoHnd => href[lhnd[p]] > 0
    /\ pc[Wd] \in {"clear", "remove", "destroy_clear"} => sref[lsess[Wd]] > 0
    /\ \A t \in Transports : pc[t] \in {"over", "destroy_clear"} => sref[lsess[t]] > 0
    /\ \A h \in Hnds : /\ href[h] > 0 => sref[hsess[h]] > 0
                       /\ h \in listed \/ loop[h] \in {"running", "quit"} => href[h] > 0
                       /\ app[h] \in {"alive", "stopped"} => pref[h] > 0
                       /\ pref[h] > 0 => href[h] > 0

\* The table holds each session under its own identifier, and a destroyed one
\* only while janus_transport_gone, which destroys before it removes, is at it.
TableSound ==
    \A i \in Ids : table[i] # NoSess =>
        /\ sid[table[i]] = i
        /\ table[i] \in sdestroyed => /\ sessions_mutex \in Transports
                                       /\ lsess[sessions_mutex] = table[i]
                                       /\ pc[sessions_mutex] \in {"destroy_clear", "remove"}

\* A session that is not destroyed can be found, by requests and by the
\* watchdog, unless a "destroy" request is about to mark it.
NoLostSession ==
    \A s \in Sess : Created(s) /\ s \notin sdestroyed =>
        s \in InTable \/ (pc[Req] = "destroy_mark" /\ lsess[Req] = s)

\* Only one thread at a time iterates over or changes the table.
MutexSound ==
    /\ (pc[Wd] # "idle") <=> (sessions_mutex = Wd)
    /\ \A t \in Transports : (pc[t] # "idle") <=> (sessions_mutex = t)

\* A session that stays in the table is one that requests keep using: an idle
\* one is removed by the watchdog (with a session timeout).
AbandonedReaped ==
    \A s \in Sess : <>[](s \in InTable) => []<>(idle[s] = 0)

\* A handle that misses its detach: it was destroyed before it had a plugin
\* session or a loop, or it was attached to a session already destroyed.
Missed(h) ==
    \/ h \in hdestroyed /\ app[h] \in {"none", "alive"}
    \/ h \in listed /\ hsess[h] \in sdestroyed
    \/ loop[h] = "dead"

\* A destroyed session is freed in the end, once its requests, its handles'
\* loops and plugins are done with it, unless one of its handles missed its
\* detach.
DestroyedFreed ==
    \A s \in Sess : s \in sdestroyed ~>
        (sref[s] = 0 \/ \E h \in Hnds : hsess[h] = s /\ Missed(h))

\* janus_ice_handle_destroy: "We only actually destroy the handle later" - which
\* happens, for every handle it is called on.
EveryHandleFreed == \A h \in Hnds : h \in hdestroyed ~> href[h] = 0
=============================================================================
