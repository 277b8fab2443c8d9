-------------------------------- MODULE Http --------------------------------
(***************************************************************************)
(* The HTTP transport (transports/janus_http.c) for one session of the     *)
(* core.  A POST is suspended until the core answers it; a GET is a long   *)
(* poll, answered with events of the session's queue or suspended until    *)
(* one comes.  The web servers' threads run handlers, read responses and   *)
(* complete requests, the timer thread resumes what waits for too long,    *)
(* and threads of the core answer, send events and end or claim the        *)
(* session.                                                                *)
(*                                                                         *)
(* A session of the transport is an instance, numbered: the table has one  *)
(* or none, older ones are destroyed but may still be referred to.  A      *)
(* response is a sequence of events (numbers from 1), <<Keepalive>>,       *)
(* <<Answer>>, <<NotFound>>, or <<>> when there is none (NULL, which ends  *)
(* the request with an error).                                             *)
(*                                                                         *)
(* libmicrohttpd is external: it calls a handler, suspends a connection,   *)
(* reads the response of one that was resumed, then completes the request. *)
(* Resuming a connection that is not suspended does nothing.               *)
(***************************************************************************)
EXTENDS Integers, Sequences, FiniteSets, SequencesExt

CONSTANTS Polls, Posts, Senders,
          max_events,     \* of a long poll: its maxev parameter
          MaxEvents,      \* bound: events of the core
          MaxInstances,   \* bound: times the session is created or claimed
          Shutdown,       \* may the transport be destroyed?
          None

Requests == Polls \union Posts
Keepalive == 0
Answer == -1
NotFound == -2

VARIABLES session, made,            \* the instance in the table (0: none), instances so far
          claiming,                 \* a claim is between session_over and session_claimed
          events, longpolls, mutex, \* of an instance: queue, waiting polls, owner of its mutex
          phase,                    \* of a request: "idle", "found", "suspended", "resumed", "read", "unlist", "done"
          longpoll, timeout_flag, response, lsession, \* of a request; lsession: local variable of its handler
          got,                      \* what the client of a request got
          core,                     \* of a POST in the core: "idle", "asked", "ready", "sent"
          tpc, tmsg,                \* the timer thread: "idle", "fired", "unlist"
          spc, ssession, smsg,      \* a sender: "idle", "pushed", "locked", "notify"
          home, sent,               \* history: the instance of an event, how many there were
          lost,                     \* history: events put in a response nobody would read
          stopping

sessVars == <<session, made, claiming>>
reqVars == <<phase, longpoll, timeout_flag, response, lsession, got>>
timerVars == <<tpc, tmsg>>
sendVars == <<spc, ssession, smsg, home, sent>>
vars == <<sessVars, events, longpolls, mutex, reqVars, core, timerVars, sendVars, lost, stopping>>

Instances == 1 .. MaxInstances

Init ==
    /\ session = 0 /\ made = 0 /\ claiming = FALSE
    /\ events = [i \in Instances |-> <<>>] /\ longpolls = [i \in Instances |-> <<>>]
    /\ mutex = [i \in Instances |-> None]
    /\ phase = [m \in Requests |-> "idle"] /\ longpoll = [m \in Requests |-> 0]
    /\ timeout_flag = [m \in Requests |-> FALSE] /\ response = [m \in Requests |-> <<>>]
    /\ lsession = [m \in Requests |-> 0] /\ got = [m \in Requests |-> <<>>]
    /\ core = [m \in Posts |-> "idle"] /\ tpc = "idle" /\ tmsg = None
    /\ spc = [s \in Senders |-> "idle"] /\ ssession = [s \in Senders |-> 0] /\ smsg = [s \in Senders |-> None]
    /\ home = <<>> /\ sent = 0 /\ lost = {} /\ stopping = FALSE

-----------------------------------------------------------------------------
(* Sessions, as the core has them.                                         *)

NewInstance ==
    /\ made < MaxInstances
    /\ made' = made + 1 /\ session' = made + 1
    /\ UNCHANGED <<events, longpolls, mutex, reqVars, core, timerVars, sendVars, lost, stopping>>

session_created == session = 0 /\ made = 0 /\ NewInstance /\ UNCHANGED claiming

\* The session is over: for good, or because another connection claims it.  Long polls
\* that wait for it are left alone.
session_over(claimed) ==
    /\ session # 0 /\ (claimed => made < MaxInstances)
    /\ session' = 0 /\ claiming' = claimed
    /\ UNCHANGED <<made, events, longpolls, mutex, reqVars, core, timerVars, sendVars, lost, stopping>>

\* The core has called session_over before, for the connection that had the session: the
\* table has no old session whose long polls there would be to answer.
session_claimed == claiming /\ claiming' = FALSE /\ NewInstance

-----------------------------------------------------------------------------
(* The web servers' threads.                                               *)

\* MHD_resume_connection.
Resume(m) == [phase EXCEPT ![m] = IF @ = "suspended" THEN "resumed" ELSE @]

Unlisted(i, m) == [longpolls EXCEPT ![i] = SelectSeq(@, LAMBDA x : x # m)]

Finish(m, what) ==
    phase' = [phase EXCEPT ![m] = "read"] /\ got' = [got EXCEPT ![m] = what]

\* janus_http_handler for a GET, until it has the session.
Get(m) ==
    /\ ~stopping /\ phase[m] = "idle"
    /\ IF session = 0
         THEN Finish(m, <<NotFound>>) /\ UNCHANGED lsession
         ELSE phase' = [phase EXCEPT ![m] = "found"] /\ lsession' = [lsession EXCEPT ![m] = session] /\ UNCHANGED got
    /\ UNCHANGED <<sessVars, events, longpolls, mutex, longpoll, timeout_flag, response, core, timerVars, sendVars, lost, stopping>>

\* Mutant: the long poll waits although there is an event.
PollBlind(m) ==
    LET i == lsession[m] IN
    /\ phase[m] = "found" /\ mutex[i] = None
    /\ phase' = [phase EXCEPT ![m] = "suspended"]
    /\ timeout_flag' = [timeout_flag EXCEPT ![m] = TRUE]
    /\ longpolls' = [longpolls EXCEPT ![i] = Append(@, m)]
    /\ longpoll' = [longpoll EXCEPT ![m] = i]
    /\ UNCHANGED <<sessVars, events, got, mutex, response, lsession, core, timerVars, sendVars, lost, stopping>>

\* The rest of it, under the session's mutex: events there are, at most max_events of
\* them, or the wait with a timer of 30 seconds.
Poll(m) ==
    LET i == lsession[m]
        n == IF Len(events[i]) < max_events[m] THEN Len(events[i]) ELSE max_events[m]
    IN
    /\ phase[m] = "found" /\ mutex[i] = None
    /\ IF n > 0
         THEN /\ events' = [events EXCEPT ![i] = SubSeq(@, n + 1, Len(@))]
              /\ Finish(m, SubSeq(events[i], 1, n))
              /\ UNCHANGED <<timeout_flag, longpolls, longpoll>>
         ELSE /\ phase' = [phase EXCEPT ![m] = "suspended"]
              /\ timeout_flag' = [timeout_flag EXCEPT ![m] = TRUE]
              /\ longpolls' = [longpolls EXCEPT ![i] = Append(@, m)]
              /\ longpoll' = [longpoll EXCEPT ![m] = i]
              /\ UNCHANGED <<events, got>>
    /\ UNCHANGED <<sessVars, mutex, response, lsession, core, timerVars, sendVars, lost, stopping>>

\* janus_http_handler for a POST: suspended, with a timer of 10 seconds, and to the core.
Post(m) ==
    /\ ~stopping /\ phase[m] = "idle"
    /\ phase' = [phase EXCEPT ![m] = "suspended"] /\ timeout_flag' = [timeout_flag EXCEPT ![m] = TRUE]
    /\ core' = [core EXCEPT ![m] = "asked"]
    /\ UNCHANGED <<sessVars, events, longpolls, mutex, longpoll, response, lsession, got, timerVars, sendVars, lost, stopping>>

\* janus_http_response_callback.
response_callback(m) ==
    /\ phase[m] = "resumed" /\ Finish(m, response[m])
    /\ UNCHANGED <<sessVars, events, longpolls, mutex, longpoll, timeout_flag, response, lsession, core, timerVars, sendVars, lost, stopping>>

\* janus_http_request_completed: the timer is stopped, the poll leaves the list of its
\* session, under its mutex, and the request leaves the table of messages.
request_completed(m) ==
    /\ phase[m] = "read"
    /\ timeout_flag' = [timeout_flag EXCEPT ![m] = FALSE]
    /\ phase' = [phase EXCEPT ![m] = IF longpoll[m] # 0 THEN "unlist" ELSE "done"]
    /\ UNCHANGED <<sessVars, events, longpolls, mutex, longpoll, response, lsession, got, core, timerVars, sendVars, lost, stopping>>

CompletedUnlist(m) ==
    /\ phase[m] = "unlist" /\ mutex[lsession[m]] = None
    /\ longpolls' = Unlisted(lsession[m], m) /\ phase' = [phase EXCEPT ![m] = "done"]
    /\ UNCHANGED <<sessVars, events, mutex, longpoll, timeout_flag, response, lsession, got, core, timerVars, sendVars, lost, stopping>>

-----------------------------------------------------------------------------
(* The timer thread.                                                       *)

\* A timer fires: whoever clears timeout_flag first has it.
TimeoutFires(m) ==
    /\ tpc = "idle" /\ timeout_flag[m] /\ phase[m] # "done" /\ ~stopping
    /\ timeout_flag' = [timeout_flag EXCEPT ![m] = FALSE]
    /\ tpc' = "fired" /\ tmsg' = m
    /\ UNCHANGED <<sessVars, events, longpolls, mutex, phase, longpoll, response, lsession, got, core, sendVars, lost, stopping>>

\* What an overwritten response had of events, if it was not read before.
Overwritten(m) == IF phase[m] \in {"suspended", "resumed"} THEN {e \in ToSet(response[m]) : e > 0} ELSE {}

\* janus_http_timeout: a long poll gets a keepalive, a request that took too long nothing.
TimeoutAnswers ==
    /\ tpc = "fired"
    /\ response' = [response EXCEPT ![tmsg] = IF tmsg \in Polls THEN <<Keepalive>> ELSE <<>>]
    /\ lost' = lost \union Overwritten(tmsg)
    /\ longpoll' = [longpoll EXCEPT ![tmsg] = 0]
    /\ phase' = Resume(tmsg)
    /\ tpc' = IF tmsg \in Polls THEN "unlist" ELSE "idle"
    /\ UNCHANGED <<sessVars, events, longpolls, mutex, timeout_flag, lsession, got, core, tmsg, sendVars, stopping>>

TimeoutUnlist ==
    /\ tpc = "unlist" /\ mutex[lsession[tmsg]] = None
    /\ longpolls' = Unlisted(lsession[tmsg], tmsg) /\ tpc' = "idle"
    /\ UNCHANGED <<sessVars, events, mutex, reqVars, core, tmsg, sendVars, lost, stopping>>

-----------------------------------------------------------------------------
(* Threads of the core: janus_http_send_message.                           *)

\* An answer: a request that was completed meanwhile is unknown.
Respond(m) ==
    /\ core[m] = "asked"
    /\ IF phase[m] = "done"
         THEN core' = [core EXCEPT ![m] = "sent"] /\ UNCHANGED timeout_flag
         ELSE core' = [core EXCEPT ![m] = "ready"] /\ timeout_flag' = [timeout_flag EXCEPT ![m] = FALSE]
    /\ UNCHANGED <<sessVars, events, longpolls, mutex, phase, longpoll, response, lsession, got, timerVars, sendVars, lost, stopping>>

RespondResume(m) ==
    /\ core[m] = "ready"
    /\ response' = [response EXCEPT ![m] = <<Answer>>] /\ phase' = Resume(m)
    /\ core' = [core EXCEPT ![m] = "sent"]
    /\ UNCHANGED <<sessVars, events, longpolls, mutex, longpoll, timeout_flag, lsession, got, timerVars, sendVars, lost, stopping>>

\* An event is queued; without a session it is an error.
SendPush(s) ==
    /\ spc[s] = "idle" /\ sent < MaxEvents /\ session # 0
    /\ sent' = sent + 1 /\ home' = Append(home, session)
    /\ events' = [events EXCEPT ![session] = Append(@, sent + 1)]
    /\ ssession' = [ssession EXCEPT ![s] = session] /\ spc' = [spc EXCEPT ![s] = "pushed"]
    /\ UNCHANGED <<sessVars, longpolls, mutex, reqVars, core, timerVars, smsg, lost, stopping>>

SendLock(s) ==
    /\ spc[s] = "pushed" /\ mutex[ssession[s]] = None
    /\ mutex' = [mutex EXCEPT ![ssession[s]] = s] /\ spc' = [spc EXCEPT ![s] = "locked"]
    /\ UNCHANGED <<sessVars, events, longpolls, reqVars, core, timerVars, ssession, smsg, home, sent, lost, stopping>>

\* The first long poll that waits, if nobody else has taken it: the timer stops.
SendTake(s) ==
    LET i == ssession[s]
        m == Head(longpolls[i])
    IN
    /\ spc[s] = "locked" /\ longpolls[i] # <<>>
    /\ longpolls' = Unlisted(i, m)
    /\ IF longpoll[m] = i
         THEN /\ longpoll' = [longpoll EXCEPT ![m] = 0]
              /\ timeout_flag' = [timeout_flag EXCEPT ![m] = FALSE]
              /\ smsg' = [smsg EXCEPT ![s] = m] /\ spc' = [spc EXCEPT ![s] = "notify"]
         ELSE UNCHANGED <<longpoll, timeout_flag, smsg, spc>>
    /\ UNCHANGED <<sessVars, events, mutex, phase, response, lsession, got, core, timerVars, ssession, home, sent, lost, stopping>>

\* janus_http_notifier: the events of the session that has the identifier now, or none if
\* there is no such session or the transport stops.
Notify(s) ==
    LET m == smsg[s]
        q == IF session = 0 THEN <<>> ELSE events[session]
        n == IF Len(q) < max_events[m] THEN Len(q) ELSE max_events[m]
        unread == phase[m] \in {"suspended", "resumed"}
    IN
    /\ spc[s] = "notify" /\ spc' = [spc EXCEPT ![s] = "locked"] /\ smsg' = [smsg EXCEPT ![s] = None]
    /\ phase' = Resume(m)
    /\ IF session = 0
         THEN UNCHANGED <<events, response, lost>>
         ELSE IF stopping /\ q # <<>>
         THEN /\ events' = [events EXCEPT ![session] = Tail(@)]
              /\ lost' = lost \union {Head(q)} /\ UNCHANGED response
         ELSE /\ events' = [events EXCEPT ![session] = SubSeq(@, n + 1, Len(@))]
              /\ response' = [response EXCEPT ![m] = IF n = 0 THEN <<Keepalive>> ELSE SubSeq(q, 1, n)]
              /\ lost' = IF unread THEN lost ELSE lost \union ToSet(SubSeq(q, 1, n))
    /\ UNCHANGED <<sessVars, longpolls, mutex, longpoll, timeout_flag, lsession, got, core, timerVars, ssession, home, sent, stopping>>

\* Mutant: the sender returns with the session's mutex.
SendUnlockForgetful(s) ==
    /\ spc[s] = "locked" /\ longpolls[ssession[s]] = <<>>
    /\ mutex' = mutex /\ spc' = [spc EXCEPT ![s] = "idle"]
    /\ UNCHANGED <<sessVars, events, longpolls, reqVars, core, timerVars, ssession, smsg, home, sent, lost, stopping>>

SendUnlock(s) ==
    /\ spc[s] = "locked" /\ longpolls[ssession[s]] = <<>>
    /\ mutex' = [mutex EXCEPT ![ssession[s]] = None] /\ spc' = [spc EXCEPT ![s] = "idle"]
    /\ UNCHANGED <<sessVars, events, longpolls, reqVars, core, timerVars, ssession, smsg, home, sent, lost, stopping>>

\* janus_http_destroy, until the web servers are stopped: the timer thread is joined and
\* every connection resumed.
janus_http_destroy ==
    /\ Shutdown /\ ~stopping /\ tpc = "idle"
    /\ stopping' = TRUE
    /\ phase' = [m \in Requests |-> IF phase[m] = "suspended" THEN "resumed" ELSE phase[m]]
    /\ UNCHANGED <<sessVars, events, longpolls, mutex, longpoll, timeout_flag, response, lsession, got, core, timerVars, sendVars, lost>>

-----------------------------------------------------------------------------
WebServer(m) ==
    \/ m \in Polls /\ Poll(m)
    \/ response_callback(m) \/ request_completed(m) \/ CompletedUnlist(m)

TimerThread == TimeoutAnswers \/ TimeoutUnlist \/ \E m \in Requests : TimeoutFires(m)

Sender(s) == SendLock(s) \/ SendTake(s) \/ Notify(s) \/ SendUnlock(s)

Next ==
    \/ session_created \/ session_claimed \/ \E claimed \in BOOLEAN : session_over(claimed)
    \/ \E m \in Polls : Get(m)
    \/ \E m \in Posts : Post(m) \/ Respond(m) \/ RespondResume(m)
    \/ \E m \in Requests : WebServer(m)
    \/ TimerThread
    \/ \E s \in Senders : SendPush(s) \/ Sender(s)
    \/ janus_http_destroy

\* The web servers and the timer thread run, timers fire, and a thread of the core that
\* has begun to send goes on.  Neither clients nor the core have to do anything.
Fairness ==
    /\ \A m \in Requests : WF_vars(WebServer(m))
    /\ WF_vars(TimerThread)
    /\ \A s \in Senders : WF_vars(Sender(s))
    /\ \A m \in Posts : WF_vars(RespondResume(m))

Spec == Init /\ [][Next]_vars /\ Fairness

-----------------------------------------------------------------------------
Events == 1 .. MaxEvents

TypeOK ==
    /\ session \in {0, made} /\ made \in 0 .. MaxInstances /\ claiming \in BOOLEAN
    /\ events \in [Instances -> Seq(Events)] /\ longpolls \in [Instances -> Seq(Polls)]
    /\ mutex \in [Instances -> Senders \union {None}]
    /\ phase \in [Requests -> {"idle", "found", "suspended", "resumed", "read", "unlist", "done"}]
    /\ longpoll \in [Requests -> 0 .. MaxInstances] /\ timeout_flag \in [Requests -> BOOLEAN]
    /\ response \in [Requests -> Seq(Keepalive .. MaxEvents \union {Answer})]
    /\ lsession \in [Requests -> 0 .. MaxInstances]
    /\ got \in [Requests -> Seq(Keepalive .. MaxEvents \union {Answer, NotFound})]
    /\ core \in [Posts -> {"idle", "asked", "ready", "sent"}]
    /\ tpc \in {"idle", "fired", "unlist"} /\ tmsg \in Requests \union {None}
    /\ spc \in [Senders -> {"idle", "pushed", "locked", "notify"}] /\ lost \subseteq Events
    /\ stopping \in BOOLEAN

\* Somebody is about to resume the request.
BeingAnswered(m) ==
    \/ tpc = "fired" /\ tmsg = m
    \/ \E s \in Senders : spc[s] = "notify" /\ smsg[s] = m
    \/ m \in Posts /\ core[m] = "ready"

\* A handler that had passed its check of stopping suspends the connection after
\* janus_http_destroy has resumed all there were.
TooLate(m) == stopping /\ phase[m] = "suspended"

\* A suspended request has a timer or is being answered, whoever won it: the compare and
\* exchange of timeout_flag and of longpoll by the timer thread, the senders and the end
\* of the request never leave it to nobody.  A long poll that can be taken is in the list
\* of its session, and no event waits in the queue of a session beside a long poll unless
\* a sender is on its way to it.  A connection suspended too late for the exit is the
\* exception.
PollsSound ==
    /\ \A m \in Requests : phase[m] = "suspended" => timeout_flag[m] \/ BeingAnswered(m) \/ TooLate(m)
    /\ \A m \in Polls :
         /\ longpoll[m] # 0 /\ phase[m] # "done" => m \in ToSet(longpolls[longpoll[m]])
         /\ phase[m] = "suspended" /\ longpoll[m] # 0 /\ longpoll[m] = session /\ events[session] # <<>> =>
              \E s \in Senders : ssession[s] = session /\ spc[s] # "idle"

\* Where an event of the queue went: responses that will be read, and what clients got.
InResponses(e) == {m \in Polls : phase[m] \in {"suspended", "resumed"} /\ e \in ToSet(response[m])}
InGot(e) == {m \in Polls : e \in ToSet(got[m])}

\* An event a session was sent is in its queue or in one response, never in two: it is
\* lost only with its session, or when its long poll times out in the moment it is taken
\* for the event (lost).  Events in a response and in a queue keep their order, and a long
\* poll gets no more than it asked for.
EventsSound ==
    /\ \A e \in 1 .. sent :
         LET queued == {i \in Instances : e \in ToSet(events[i])}
             places == Cardinality(queued) + Cardinality(InResponses(e)) + Cardinality(InGot(e))
         IN  places <= 1 /\ (home[e] = session /\ e \notin lost => places = 1)
    /\ \A i \in Instances : \A j, k \in DOMAIN events[i] : j < k => events[i][j] < events[i][k]
    /\ \A m \in Polls : Len(got[m]) <= max_events[m] /\ \A j, k \in DOMAIN got[m] : j < k => got[m][j] < got[m][k]
=============================================================================
