------------------------------- MODULE PfUnix -------------------------------
(***************************************************************************)
(* The Unix sockets transport (janus_pfunix.c) and the part of the core it *)
(* works with: the requests thread, the watchdog and the events of plugins *)
(* call into the transport, and the transport's thread calls into the core *)
(* when a client goes away.                                                *)
(*                                                                         *)
(* Two locks matter: clients_mutex of the transport and sessions_mutex of  *)
(* the core. A step is what a thread does between two lock operations, or  *)
(* between two accesses to what no lock protects (client->messages, the    *)
(* wake-up socket pair, the reference counters).                           *)
(*                                                                         *)
(* A client of a SOCK_SEQPACKET socket has a file descriptor of its own and*)
(* a queue of messages; one of a SOCK_DGRAM socket (Dgrams) has neither.   *)
(***************************************************************************)
EXTENDS Integers, FiniteSets

CONSTANTS
    Clients,        \* client objects, in both kinds of sockets
    Dgrams,         \* those of a SOCK_DGRAM socket
    Sess,           \* sessions of the core
    Pf,             \* janus_pfunix_thread
    Req, Wd, Ev,    \* the requests thread, the watchdog, a thread of a plugin
    NoClient, NoSess, NoThread,
    SessionTimeout, \* session_timeout > 0
    Reclaim,        \* reclaim_session_timeout > 0
    Pipelining,     \* TRUE: a client may send while its last message is being served
    Closings,       \* how the other end may close in this model
    Shutdown        \* TRUE: the transport may be shut down

Callers == {Req, Wd, Ev}
Threads == Callers \cup {Pf}

ASSUME DgramsAssumption == Dgrams \subseteq Clients
ASSUME NamesAssumption ==
    /\ Pf \notin Callers /\ Req \notin {Wd, Ev} /\ Wd # Ev /\ NoThread \notin Threads
    /\ NoClient \notin Clients /\ NoSess \notin Sess
ASSUME OptionsAssumption ==
    /\ IsFiniteSet(Sess)
    /\ SessionTimeout \in BOOLEAN /\ Reclaim \in BOOLEAN /\ Shutdown \in BOOLEAN
    /\ Pipelining \in BOOLEAN
    /\ Closings \subseteq {"hungup", "half"}

VARIABLES
    initialized, stopping,
    peer,           \* what the other end of a client's socket did
    inbox,          \* clients with data to be read from their socket
    fd,             \* client->fd
    clients,        \* the clients table (clients_by_fd holds those with a descriptor)
    freed,          \* client objects that were freed
    messages,       \* clients whose queue of messages is not empty
    session_timeout, \* clients whose session_timeout flag is set
    tsref,          \* client->ts->ref
    wake,           \* there are bytes in the wake-up socket pair
    pollout,        \* clients in the poll list with POLLOUT
    pollin,         \* clients in the poll list
    revents,        \* what poll returned and is not handled yet
    clients_mutex, sessions_mutex,
    requests,       \* clients with a request in the queue of the core
    sess,           \* the state of a session
    source,         \* session->source->instance
    transport_gone, \* sessions with that flag
    pc, lc, ls      \* per thread: its next step, its client, its session

netVars == <<peer, inbox>>
clientVars == <<fd, clients, freed, session_timeout>>
pollVars == <<pollout, pollin, revents>>
sessVars == <<sess, source, transport_gone>>
lockVars == <<clients_mutex, sessions_mutex>>
vars == <<initialized, stopping, netVars, clientVars, messages, tsref, wake, pollVars,
          lockVars, requests, sessVars, pc, lc, ls>>

One(b) == IF b THEN 1 ELSE 0
Goto(p, l) == pc' = [pc EXCEPT ![p] = l]
Stream(c) == c \notin Dgrams

-----------------------------------------------------------------------------
(* References to a transport instance: janus_transport_session *)

\* The last reference to go frees the client as well (p_free).
Drop(c) ==
    /\ tsref' = [tsref EXCEPT ![c] = @ - 1]
    /\ freed' = IF tsref[c] = 1 THEN freed \cup {c} ELSE freed

\* The last reference to a session that is over goes away: its source, a
\* request, is destroyed, and that drops the one to the instance.
SessionFree(s) ==
    /\ sess[s] = "over" /\ source[s] # NoClient
    /\ Drop(source[s])
    /\ source' = [source EXCEPT ![s] = NoClient]
    /\ UNCHANGED <<initialized, stopping, netVars, fd, clients, session_timeout, messages, wake,
                   pollVars, lockVars, requests, sess, transport_gone, pc, lc, ls>>

-----------------------------------------------------------------------------
(* The other end *)

PeerConnects(c) ==
    /\ Stream(c) /\ peer[c] = "absent"
    /\ peer' = [peer EXCEPT ![c] = "connecting"]
    /\ UNCHANGED <<initialized, stopping, inbox, clientVars, messages, tsref, wake, pollVars,
                   lockVars, requests, sessVars, pc, lc, ls>>

\* At most one message per client is on its way to the requests thread.
PeerSends(c) ==
    /\ (peer[c] = "connected" /\ fd[c] = "open") \/ c \in Dgrams
    /\ c \notin inbox \cup requests /\ (Pipelining \/ lc[Req] # c)
    /\ inbox' = inbox \cup {c}
    /\ UNCHANGED <<initialized, stopping, peer, clientVars, messages, tsref, wake, pollVars,
                   lockVars, requests, sessVars, pc, lc, ls>>

\* It closes the socket, which poll reports as POLLHUP, or only its side of it,
\* which is an end of file after the data.
PeerCloses(c, how) ==
    /\ peer[c] = "connected"
    /\ peer' = [peer EXCEPT ![c] = how]
    /\ UNCHANGED <<initialized, stopping, inbox, clientVars, messages, tsref, wake, pollVars,
                   lockVars, requests, sessVars, pc, lc, ls>>

-----------------------------------------------------------------------------
(* janus_pfunix_init, janus_pfunix_destroy and the thread *)

\* The thread is there before initialized is set.
InitDone ==
    /\ ~initialized
    /\ initialized' = TRUE
    /\ UNCHANGED <<stopping, netVars, clientVars, messages, tsref, wake, pollVars, lockVars,
                   requests, sessVars, pc, lc, ls>>

Destroy_NoWake ==
    /\ Shutdown /\ initialized /\ ~stopping
    /\ stopping' = TRUE
    /\ UNCHANGED <<initialized, netVars, clientVars, messages, tsref, wake, pollVars, lockVars,
                   requests, sessVars, pc, lc, ls>>
Destroy ==
    /\ Shutdown /\ initialized /\ ~stopping
    /\ stopping' = TRUE
    /\ wake' = TRUE
    /\ UNCHANGED <<initialized, netVars, clientVars, messages, tsref, pollVars, lockVars,
                   requests, sessVars, pc, lc, ls>>

PfEnd ==
    /\ pc[Pf] = "loop" /\ (~initialized \/ stopping)
    /\ Goto(Pf, "ended")
    /\ UNCHANGED <<initialized, stopping, netVars, clientVars, messages, tsref, wake, pollVars,
                   lockVars, requests, sessVars, lc, ls>>

\* The poll list: a client is polled for writing if it has messages by now.
PfPrepare ==
    /\ pc[Pf] = "loop" /\ initialized /\ ~stopping
    /\ clients_mutex = NoThread
    /\ pollin' = {c \in clients : fd[c] = "open"}
    /\ pollout' = {c \in clients : fd[c] = "open" /\ c \in messages}
    /\ Goto(Pf, "poll")
    /\ UNCHANGED <<initialized, stopping, netVars, clientVars, messages, tsref, wake, revents,
                   lockVars, requests, sessVars, lc, ls>>

\* poll: blocks until there is something. A client's socket can be written to.
Ready ==
    {<<"wake", NoClient>> : x \in {w \in {wake} : w}}
    \cup {<<"accept", NoClient>> : c \in {x \in Clients : peer[x] = "connecting"}}
    \cup {<<"dgram", NoClient>> : c \in inbox \cap Dgrams}
    \cup {<<"hup", c>> : c \in {x \in pollin : peer[x] = "hungup"}}
    \cup {<<"out", c>> : c \in pollout}
    \cup {<<"in", c>> : c \in {x \in pollin : x \in inbox \/ peer[x] = "half"}}
PfPoll ==
    /\ pc[Pf] = "poll" /\ Ready # {}
    /\ revents' = Ready
    /\ Goto(Pf, "serve")
    /\ UNCHANGED <<initialized, stopping, netVars, clientVars, messages, tsref, wake, pollout,
                   pollin, lockVars, requests, sessVars, lc, ls>>

\* The descriptors are served in the order of the list: the wake-up pair, the
\* listening sockets, the clients. For a client an error comes first and skips
\* the rest, and writing comes before reading.
Listening == {"wake", "accept", "dgram"}
Serving(kind, c) ==
    /\ pc[Pf] = "serve" /\ <<kind, c>> \in revents
    /\ kind = "dgram" => \A e \in revents : e[1] \notin {"wake", "accept"}
    /\ kind = "accept" => \A e \in revents : e[1] # "wake"
    /\ kind \notin Listening => \A e \in revents : e[1] \notin Listening
    /\ kind = "in" => <<"out", c>> \notin revents
    /\ kind \in {"in", "out"} => <<"hup", c>> \notin revents

PfWake ==
    /\ Serving("wake", NoClient)
    /\ wake' = FALSE
    /\ revents' = revents \ {<<"wake", NoClient>>}
    /\ UNCHANGED <<initialized, stopping, netVars, clientVars, messages, tsref, pollout, pollin,
                   lockVars, requests, sessVars, pc, lc, ls>>

PfAccept(c) ==
    /\ Serving("accept", NoClient) /\ peer[c] = "connecting"
    /\ clients_mutex = NoThread
    /\ peer' = [peer EXCEPT ![c] = "connected"]
    /\ fd' = [fd EXCEPT ![c] = "open"]
    /\ tsref' = [tsref EXCEPT ![c] = 1]
    /\ clients' = clients \cup {c}
    /\ revents' = revents \ {<<"accept", NoClient>>}
    /\ UNCHANGED <<initialized, stopping, inbox, freed, session_timeout, messages, wake, pollout,
                   pollin, lockVars, requests, sessVars, pc, lc, ls>>

\* A datagram: a client that is new is added, and the request goes to the core
\* with a reference to the instance.
PfDgram(c) ==
    /\ Serving("dgram", NoClient) /\ c \in inbox \cap Dgrams
    /\ clients_mutex = NoThread
    /\ inbox' = inbox \ {c}
    /\ clients' = clients \cup {c}
    /\ requests' = requests \cup {c}
    /\ tsref' = [tsref EXCEPT ![c] = IF c \in clients THEN @ + 1 ELSE 2]
    /\ revents' = revents \ {<<"dgram", NoClient>>}
    /\ UNCHANGED <<initialized, stopping, peer, fd, freed, session_timeout, messages, wake,
                   pollout, pollin, lockVars, sessVars, pc, lc, ls>>

PfIn_NoRef(c) ==
    /\ Serving("in", c) /\ fd[c] = "open" /\ c \in inbox
    /\ clients_mutex = NoThread
    /\ inbox' = inbox \ {c}
    /\ requests' = requests \cup {c}
    /\ revents' = revents \ {<<"in", c>>}
    /\ UNCHANGED <<initialized, stopping, peer, clientVars, messages, tsref, wake, pollout,
                   pollin, lockVars, sessVars, pc, lc, ls>>
\* Data from a client, or the end of it. Nothing can be read from a descriptor
\* that was closed after writing to it.
PfIn(c) ==
    /\ Serving("in", c) /\ fd[c] = "open" /\ c \in inbox
    /\ clients_mutex = NoThread
    /\ inbox' = inbox \ {c}
    /\ requests' = requests \cup {c}
    /\ tsref' = [tsref EXCEPT ![c] = @ + 1]
    /\ revents' = revents \ {<<"in", c>>}
    /\ UNCHANGED <<initialized, stopping, peer, clientVars, messages, wake, pollout, pollin,
                   lockVars, sessVars, pc, lc, ls>>
PfInClosed(c) ==
    /\ Serving("in", c) /\ fd[c] = "closed"
    /\ revents' = revents \ {<<"in", c>>}
    /\ UNCHANGED <<initialized, stopping, netVars, clientVars, messages, tsref, wake, pollout,
                   pollin, lockVars, requests, sessVars, pc, lc, ls>>

\* A client that is gone: with clients_mutex locked ...
PfHup(c) ==
    /\ \/ Serving("hup", c)
       \/ Serving("in", c) /\ fd[c] = "open" /\ c \notin inbox
    /\ clients_mutex = NoThread
    /\ clients_mutex' = Pf
    /\ lc' = [lc EXCEPT ![Pf] = c]
    /\ revents' = {e \in revents : e[2] # c}
    /\ Goto(Pf, "gone")
    /\ UNCHANGED <<initialized, stopping, netVars, clientVars, messages, tsref, wake, pollout,
                   pollin, sessions_mutex, requests, sessVars, ls>>

\* ... the core is told (janus_transport_gone), which locks sessions_mutex ...
SessionsOf(c) == {s \in Sess : sess[s] = "live" /\ source[s] = c}
PfGone ==
    /\ pc[Pf] = "gone" /\ sessions_mutex = NoThread
    /\ IF Reclaim
       THEN /\ transport_gone' = transport_gone \cup SessionsOf(lc[Pf])
            /\ UNCHANGED sess
       ELSE /\ sess' = [s \in Sess |-> IF s \in SessionsOf(lc[Pf]) THEN "over" ELSE sess[s]]
            /\ UNCHANGED transport_gone
    /\ Goto(Pf, "close")
    /\ UNCHANGED <<initialized, stopping, netVars, clientVars, messages, tsref, wake, pollVars,
                   lockVars, requests, source, lc, ls>>

PfClose_NoRemove ==
    /\ pc[Pf] = "close"
    /\ fd' = [fd EXCEPT ![lc[Pf]] = "closed"]
    /\ Drop(lc[Pf])
    /\ clients_mutex' = NoThread
    /\ lc' = [lc EXCEPT ![Pf] = NoClient]
    /\ Goto(Pf, "serve")
    /\ UNCHANGED <<initialized, stopping, netVars, clients, session_timeout, messages, wake,
                   pollVars, sessions_mutex, requests, sessVars, ls>>
\* ... and the descriptor is closed, the client leaves the tables, and its
\* initial reference is dropped.
PfClose ==
    /\ pc[Pf] = "close"
    /\ fd' = [fd EXCEPT ![lc[Pf]] = "closed"]
    /\ clients' = clients \ {lc[Pf]}
    /\ Drop(lc[Pf])
    /\ clients_mutex' = NoThread
    /\ lc' = [lc EXCEPT ![Pf] = NoClient]
    /\ Goto(Pf, "serve")
    /\ UNCHANGED <<initialized, stopping, netVars, session_timeout, messages, wake, pollVars,
                   sessions_mutex, requests, sessVars, ls>>

\* The messages of a client are written. A client with a session that timed out
\* is closed and freed here, whatever references there are to its instance.
PfOut(c) ==
    /\ Serving("out", c)
    /\ clients_mutex = NoThread
    /\ messages' = messages \ {c}
    /\ IF c \in session_timeout
       THEN /\ fd' = [fd EXCEPT ![c] = "closed"]
            /\ clients' = clients \ {c}
            /\ freed' = freed \cup {c}
       ELSE UNCHANGED <<fd, clients, freed>>
    /\ revents' = revents \ {<<"out", c>>}
    /\ UNCHANGED <<initialized, stopping, netVars, session_timeout, tsref, wake, pollout, pollin,
                   lockVars, requests, sessVars, pc, lc, ls>>

PfRound ==
    /\ pc[Pf] = "serve" /\ revents = {}
    /\ Goto(Pf, "loop")
    /\ UNCHANGED <<initialized, stopping, netVars, clientVars, messages, tsref, wake, pollVars,
                   lockVars, requests, sessVars, lc, ls>>

-----------------------------------------------------------------------------
(* janus_pfunix_send_message, called by p for the client lc[p] *)

\* The client is looked up with the lock (in a table that is destroyed when the
\* thread has ended: anything can be found there) ...
Found(c) == IF pc[Pf] = "ended" THEN BOOLEAN ELSE {c \in clients}
SendCheck(p) ==
    /\ pc[p] = "send" /\ clients_mutex = NoThread
    /\ \E found \in Found(lc[p]) : Goto(p, IF found THEN "push" ELSE "sent")
    /\ UNCHANGED <<initialized, stopping, netVars, clientVars, messages, tsref, wake, pollVars,
                   lockVars, requests, sessVars, lc, ls>>

SendPush_NoWake(p) ==
    LET c == lc[p] IN
    /\ pc[p] = "push"
    /\ messages' = IF fd[c] = "open" THEN messages \cup {c} ELSE messages
    /\ Goto(p, "sent")
    /\ UNCHANGED <<initialized, stopping, netVars, clientVars, tsref, wake, pollVars,
                   lockVars, requests, sessVars, lc, ls>>
\* ... and used without it: its message is queued, or sent if it has no
\* descriptor (to the null address, if the descriptor was closed).
SendPush(p) ==
    LET c == lc[p] IN
    /\ pc[p] = "push"
    /\ messages' = IF fd[c] = "open" THEN messages \cup {c} ELSE messages
    /\ Goto(p, IF fd[c] = "open" THEN "wake" ELSE "sent")
    /\ UNCHANGED <<initialized, stopping, netVars, clientVars, tsref, wake, pollVars,
                   lockVars, requests, sessVars, lc, ls>>

SendWake(p) ==
    /\ pc[p] = "wake"
    /\ wake' = TRUE
    /\ Goto(p, "sent")
    /\ UNCHANGED <<initialized, stopping, netVars, clientVars, messages, tsref, pollVars,
                   lockVars, requests, sessVars, lc, ls>>

-----------------------------------------------------------------------------
(* The requests thread *)

ReqPop(c) ==
    /\ pc[Req] = "idle" /\ c \in requests
    /\ requests' = requests \ {c}
    /\ lc' = [lc EXCEPT ![Req] = c]
    /\ Goto(Req, "serve")
    /\ UNCHANGED <<initialized, stopping, netVars, clientVars, messages, tsref, wake, pollVars,
                   lockVars, sessVars, ls>>

\* "create": the session is in the table ...
ReqCreate(s) ==
    /\ pc[Req] = "serve" /\ sess[s] = "none" /\ sessions_mutex = NoThread
    /\ sess' = [sess EXCEPT ![s] = "live"]
    /\ ls' = [ls EXCEPT ![Req] = s]
    /\ Goto(Req, "created")
    /\ UNCHANGED <<initialized, stopping, netVars, clientVars, messages, tsref, wake, pollVars,
                   lockVars, requests, source, transport_gone, lc>>

\* ... before it has a source, a request of its own with a reference to the
\* instance.
ReqSource ==
    /\ pc[Req] = "created"
    /\ source' = [source EXCEPT ![ls[Req]] = lc[Req]]
    /\ tsref' = [tsref EXCEPT ![lc[Req]] = @ + 1]
    /\ ls' = [ls EXCEPT ![Req] = NoSess]
    /\ Goto(Req, "send")
    /\ UNCHANGED <<initialized, stopping, netVars, clientVars, messages, wake, pollVars,
                   lockVars, requests, sess, transport_gone, lc>>

\* "destroy": session_over does nothing, as it is not a timeout.
ReqDestroy(s) ==
    /\ pc[Req] = "serve" /\ sess[s] = "live" /\ sessions_mutex = NoThread
    /\ sess' = [sess EXCEPT ![s] = "over"]
    /\ Goto(Req, "send")
    /\ UNCHANGED <<initialized, stopping, netVars, clientVars, messages, tsref, wake, pollVars,
                   lockVars, requests, source, transport_gone, lc, ls>>

\* "claim" from another instance: the old source goes, with its reference.
ReqClaim_NoRef(s) ==
    LET c == lc[Req] IN
    /\ pc[Req] = "serve" /\ sess[s] = "live" /\ sessions_mutex = NoThread /\ source[s] # c
    /\ source' = [source EXCEPT ![s] = c]
    /\ Drop(source[s])
    /\ transport_gone' = transport_gone \ {s}
    /\ Goto(Req, "send")
    /\ UNCHANGED <<initialized, stopping, netVars, fd, clients, session_timeout, messages, wake,
                   pollVars, lockVars, requests, sess, lc, ls>>
ReqClaim(s) ==
    LET c == lc[Req]
        d == source[s]
    IN
    /\ pc[Req] = "serve" /\ sess[s] = "live" /\ sessions_mutex = NoThread /\ d # c
    /\ source' = [source EXCEPT ![s] = c]
    /\ tsref' = [tsref EXCEPT ![c] = @ + 1, ![d] = @ - 1]
    /\ freed' = IF tsref[d] = 1 THEN freed \cup {d} ELSE freed
    /\ transport_gone' = transport_gone \ {s}
    /\ Goto(Req, "send")
    /\ UNCHANGED <<initialized, stopping, netVars, fd, clients, session_timeout, messages, wake,
                   pollVars, lockVars, requests, sess, lc, ls>>

\* Any other request is answered.
ReqOther ==
    /\ pc[Req] = "serve"
    /\ Goto(Req, "send")
    /\ UNCHANGED <<initialized, stopping, netVars, clientVars, messages, tsref, wake, pollVars,
                   lockVars, requests, sessVars, lc, ls>>

\* The request, or the reference an event took to the source, is dropped.
SendDone(p) ==
    /\ p \in {Req, Ev} /\ pc[p] = "sent"
    /\ Drop(lc[p])
    /\ lc' = [lc EXCEPT ![p] = NoClient]
    /\ Goto(p, "idle")
    /\ UNCHANGED <<initialized, stopping, netVars, fd, clients, session_timeout, messages, wake,
                   pollVars, lockVars, requests, sessVars, ls>>

-----------------------------------------------------------------------------
(* janus_session_notify_event, for an event of a plugin *)

EvNotify_NoRef(s) ==
    /\ pc[Ev] = "idle" /\ sess[s] = "live" /\ source[s] # NoClient
    /\ lc' = [lc EXCEPT ![Ev] = source[s]]
    /\ Goto(Ev, "send")
    /\ UNCHANGED <<initialized, stopping, netVars, clientVars, messages, tsref, wake, pollVars,
                   lockVars, requests, sessVars, ls>>
EvNotify(s) ==
    /\ pc[Ev] = "idle" /\ sess[s] = "live" /\ source[s] # NoClient
    /\ lc' = [lc EXCEPT ![Ev] = source[s]]
    /\ tsref' = [tsref EXCEPT ![source[s]] = @ + 1]
    /\ Goto(Ev, "send")
    /\ UNCHANGED <<initialized, stopping, netVars, clientVars, messages, wake, pollVars,
                   lockVars, requests, sessVars, ls>>

-----------------------------------------------------------------------------
(* The watchdog: janus_check_sessions *)

\* A pass over an empty table changes nothing.
WdStart ==
    /\ pc[Wd] = "idle" /\ sessions_mutex = NoThread
    /\ SessionTimeout \/ Reclaim
    /\ \E s \in Sess : sess[s] = "live"
    /\ sessions_mutex' = Wd
    /\ Goto(Wd, "check")
    /\ UNCHANGED <<initialized, stopping, netVars, clientVars, messages, tsref, wake, pollVars,
                   clients_mutex, requests, sessVars, lc, ls>>

\* A session whose time is over ...
WdExpired(s) ==
    /\ pc[Wd] = "check" /\ sess[s] = "live"
    /\ SessionTimeout \/ s \in transport_gone
    /\ ls' = [ls EXCEPT ![Wd] = s]
    /\ Goto(Wd, "expired")
    /\ UNCHANGED <<initialized, stopping, netVars, clientVars, messages, tsref, wake, pollVars,
                   lockVars, requests, sessVars, lc>>

WdNotify_Unchecked ==
    /\ pc[Wd] = "expired"
    /\ lc' = [lc EXCEPT ![Wd] = source[ls[Wd]]]
    /\ tsref' = [c \in Clients |-> tsref[c] + One(c = source[ls[Wd]])]
    /\ Goto(Wd, "send")
    /\ UNCHANGED <<initialized, stopping, netVars, clientVars, messages, wake, pollVars,
                   lockVars, requests, sessVars, ls>>
\* ... has its source, if it has one still, sent a "timeout" ...
WdNotify ==
    LET c == source[ls[Wd]] IN
    /\ pc[Wd] = "expired"
    /\ IF c = NoClient
       THEN Goto(Wd, "remove") /\ UNCHANGED <<lc, tsref>>
       ELSE /\ lc' = [lc EXCEPT ![Wd] = c]
            /\ tsref' = [tsref EXCEPT ![c] = @ + 1]
            /\ Goto(Wd, "send")
    /\ UNCHANGED <<initialized, stopping, netVars, clientVars, messages, wake, pollVars,
                   lockVars, requests, sessVars, ls>>

\* ... and told that it is over: janus_pfunix_session_over ...
WdOver ==
    LET c == lc[Wd] IN
    /\ pc[Wd] = "sent" /\ clients_mutex = NoThread
    /\ \E found \in Found(c) :
           /\ session_timeout' = IF found THEN session_timeout \cup {c} ELSE session_timeout
           /\ wake' = (wake \/ found)
    /\ Drop(c)
    /\ lc' = [lc EXCEPT ![Wd] = NoClient]
    /\ Goto(Wd, "remove")
    /\ UNCHANGED <<initialized, stopping, netVars, fd, clients, messages, pollVars,
                   lockVars, requests, sessVars, ls>>

\* ... and is removed and destroyed.
WdRemove ==
    /\ pc[Wd] = "remove"
    /\ sess' = [sess EXCEPT ![ls[Wd]] = "over"]
    /\ ls' = [ls EXCEPT ![Wd] = NoSess]
    /\ Goto(Wd, "check")
    /\ UNCHANGED <<initialized, stopping, netVars, clientVars, messages, tsref, wake, pollVars,
                   lockVars, requests, source, transport_gone, lc>>

WdEnd ==
    /\ pc[Wd] = "check"
    /\ sessions_mutex' = NoThread
    /\ Goto(Wd, "idle")
    /\ UNCHANGED <<initialized, stopping, netVars, clientVars, messages, tsref, wake, pollVars,
                   clients_mutex, requests, sessVars, lc, ls>>

-----------------------------------------------------------------------------
Init ==
    /\ initialized = FALSE /\ stopping = FALSE
    /\ peer = [c \in Clients |-> "absent"]
    /\ inbox = {}
    /\ fd = [c \in Clients |-> "none"]
    /\ clients = {} /\ freed = {} /\ messages = {} /\ session_timeout = {}
    /\ tsref = [c \in Clients |-> 0]
    /\ wake = FALSE
    /\ pollout = {} /\ pollin = {} /\ revents = {}
    /\ clients_mutex = NoThread /\ sessions_mutex = NoThread
    /\ requests = {}
    /\ sess = [s \in Sess |-> "none"]
    /\ source = [s \in Sess |-> NoClient]
    /\ transport_gone = {}
    /\ pc = [p \in Threads |-> IF p = Pf THEN "loop" ELSE "idle"]
    /\ lc = [p \in Threads |-> NoClient]
    /\ ls = [p \in Threads |-> NoSess]

Peer(c) == PeerConnects(c) \/ PeerSends(c) \/ \E how \in Closings : PeerCloses(c, how)
PfThread ==
    \/ PfEnd \/ PfPrepare \/ PfPoll \/ PfWake \/ PfGone \/ PfClose \/ PfRound
    \/ \E c \in Clients : PfAccept(c) \/ PfDgram(c) \/ PfIn(c) \/ PfInClosed(c) \/ PfHup(c)
                          \/ PfOut(c)
Send(p) == SendCheck(p) \/ SendPush(p) \/ SendWake(p)
ReqThread ==
    \/ \E c \in Clients : ReqPop(c)
    \/ \E s \in Sess : ReqCreate(s) \/ ReqDestroy(s) \/ ReqClaim(s)
    \/ ReqSource \/ ReqOther \/ SendDone(Req) \/ Send(Req)
EvThread == (\E s \in Sess : EvNotify(s)) \/ SendDone(Ev) \/ Send(Ev)
WdThread ==
    \/ WdStart \/ WdNotify \/ WdOver \/ WdRemove \/ WdEnd \/ Send(Wd)
    \/ \E s \in Sess : WdExpired(s)

Next ==
    \/ InitDone \/ Destroy
    \/ \E c \in Clients : Peer(c)
    \/ PfThread \/ ReqThread \/ EvThread \/ WdThread
    \/ \E s \in Sess : SessionFree(s)

Spec == Init /\ [][Next]_vars

(* Fairness: a thread that has something to do does it, and gets a lock that is  *)
(* free again and again. Clients need not do anything, nor plugins.              *)
Fairness ==
    /\ WF_vars(InitDone)
    /\ SF_vars(PfThread)
    /\ SF_vars(ReqThread)
    /\ SF_vars(pc[Ev] # "idle" /\ EvThread)
    /\ SF_vars(pc[Wd] # "idle" /\ WdThread)
FairSpec == Spec /\ Fairness

-----------------------------------------------------------------------------
(* Properties *)

CallerLabels == {"idle", "serve", "created", "send", "push", "wake", "sent", "check", "expired", "remove"}
Kinds == Listening \cup {"hup", "out", "in"}
\* Every variable has its type, and a thread that sends has a client.
TypeOK ==
    /\ initialized \in BOOLEAN /\ stopping \in BOOLEAN /\ wake \in BOOLEAN
    /\ peer \in [Clients -> {"absent", "connecting", "connected", "hungup", "half"}]
    /\ fd \in [Clients -> {"none", "open", "closed"}]
    /\ \A S \in {inbox, clients, freed, messages, session_timeout, pollout, pollin, requests} :
           S \subseteq Clients
    /\ tsref \in [Clients -> Int]
    /\ revents \subseteq Kinds \X (Clients \cup {NoClient})
    /\ clients_mutex \in {Pf, NoThread} /\ sessions_mutex \in {Wd, NoThread}
    /\ sess \in [Sess -> {"none", "live", "over"}]
    /\ source \in [Sess -> Clients \cup {NoClient}]
    /\ transport_gone \subseteq Sess
    /\ pc \in [Threads -> CallerLabels \cup {"loop", "poll", "gone", "close", "ended"}]
    /\ lc \in [Threads -> Clients \cup {NoClient}]
    /\ ls \in [Threads -> Sess \cup {NoSess}]
    /\ \A p \in Callers : pc[p] \in {"serve", "created", "send", "push", "wake", "sent"} => lc[p] \in Clients

\* Who holds a reference to a client's instance: the requests in the queue, the
\* sources of sessions, and the threads that are sending.
Holders(c) ==
    One(c \in requests)
    + Cardinality({s \in Sess : source[s] = c})
    + Cardinality({p \in Callers : lc[p] = c})

\* Every reference to an instance is counted, and dropped once: without session
\* timeouts the counter of a client is exactly what refers to it.
InstanceRefsExact ==
    \A c \in Clients : tsref[c] = Holders(c) + One(c \in clients)

\* With them, a reference is never missing.
InstanceRefsEnough ==
    \A c \in Clients : tsref[c] >= Holders(c) + One(c \in clients)

\* A client in the tables has not been freed, and one with a closed descriptor
\* is not there: no message can be queued for it and no descriptor polled twice.
TablesSound ==
    \A c \in clients : c \notin freed /\ (IF Stream(c) THEN fd[c] = "open" ELSE fd[c] = "none")

\* No wake-up is lost: the thread does not wait in poll for a client that has
\* messages without polling it for writing, unless the wake-up byte is there or
\* is about to be written.
NoLostWakeup ==
    \A c \in messages : pc[Pf] = "poll" /\ fd[c] = "open" /\ c \notin pollout =>
        wake \/ \E p \in Callers : pc[p] = "wake"

\* A message that is queued is written, unless the client goes away or the
\* transport is shut down.
MessagesWritten ==
    \A c \in Clients : c \in messages ~> (c \notin messages \/ fd[c] = "closed" \/ pc[Pf] = "ended")

\* janus_pfunix_thread: "Error in a client socket, find and remove it": a client
\* that hung up is removed, unless the transport is shut down.
HungUpRemoved ==
    \A c \in Clients : (peer[c] = "hungup" /\ c \in clients) ~> (c \notin clients \/ stopping)

\* janus_pfunix_destroy: "Stop the service thread": the thread it joins ends.
Stops == stopping ~> pc[Pf] = "ended"

\* janus_pfunix_send_message: "Make sure this is related to a still valid Unix
\* Sockets session": the client it queues a message for has not been freed.
SendsToValid ==
    \A p \in Callers : pc[p] = "push" => lc[p] \notin freed
=============================================================================
