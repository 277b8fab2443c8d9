----------------------------- MODULE VideoCall ------------------------------
(***************************************************************************)
(* The VideoCall plugin (plugins/janus_videocall.c): users register a name *)
(* and call each other through the handler thread, while the core hangs up *)
(* PeerConnections and destroys sessions, holding sessions_mutex.          *)
(*                                                                         *)
(* The handler reads and writes peer and incall outside that mutex, so its *)
(* steps and the two of a hangup (the pointer, then the flag) interleave.  *)
(* The media is relayed as it comes and left out; so are the references    *)
(* (see the hazards): a session is only open or destroyed here.            *)
(***************************************************************************)
EXTENDS Naturals, Sequences, FiniteSets

CONSTANTS Handles, Users, MaxRequests,  \* bound: requests per handle
          MaxQueue,                     \* bound: requests waiting
          Starts,                       \* bound: [names, gone, requests, incidents]: the sessions that are
                                        \* registered or gone to begin with; the requests of each handle;
                                        \* the hangups of browsers and the sessions destroyed
          None

VARIABLES sessions, life,       \* handles in the table; "new", "open", "destroyed"
          asked, messages, hpc, msg,
          answers,              \* history: requests answered, per handle
          username, usernames,  \* of a session; the table of who has a name
          peer, incall, hangingup,
          hp,                   \* the peer the handler has read
          cpc, core, destroying,     \* the holder of sessions_mutex and its handle
          pcon, closepc, hanging,    \* of the core: the PeerConnection ("down": ALERT is set), where
                                     \* close_pc was called, where hangup_media is to be called
          requests, incidents,  \* how many requests may come; hangups and ends still to come
          calls,                \* history: the two sessions of every call
          call, told,           \* history: the call of a session's peer; hangups it was told of
          ghosts                \* history: sessions that got a name once destroyed

nameVars == <<username, usernames, ghosts>>
callVars == <<peer, incall, hangingup, calls, call>>
coreVars == <<cpc, core, destroying>>
pcVars == <<pcon, closepc, hanging>>
queueVars == <<asked, messages, hpc, msg, answers, requests>>
vars == <<sessions, life, queueVars, nameVars, callVars, hp, coreVars, pcVars, incidents, told>>

\* "other" stands for list, set and the requests that do not exist.
Requests == {"register", "call", "accept", "hangup", "other"}

Init ==
    \E x \in Starts :
        /\ sessions = {h \in Handles : x.names[h] # None}
        /\ life = [h \in Handles |-> IF h \in sessions THEN "open" ELSE IF h \in x.gone THEN "destroyed" ELSE "new"]
        /\ asked = [h \in Handles |-> 0] /\ messages = <<>> /\ hpc = "pop" /\ msg = None
        /\ answers = [h \in Handles |-> <<>>]
        /\ username = x.names
        /\ usernames = [u \in Users |-> IF \E h \in Handles : x.names[h] = u
                                        THEN CHOOSE h \in Handles : x.names[h] = u ELSE None]
        /\ peer = [h \in Handles |-> None] /\ incall = [h \in Handles |-> FALSE]
        /\ hangingup = [h \in Handles |-> FALSE] /\ hp = None
        /\ cpc = "free" /\ core = None /\ destroying = FALSE
        /\ pcon = [h \in Handles |-> "fresh"] /\ closepc = {} /\ hanging = {}
        /\ requests = x.requests /\ incidents = x.incidents
        /\ calls = <<>> /\ call = [h \in Handles |-> 0] /\ told = [h \in Handles |-> {}] /\ ghosts = {}

\* The session whose request is handled.
me == msg.handle

-----------------------------------------------------------------------------
(* The core: janus_plugin_close_pc leaves it to a timer to hang up a       *)
(* handle, unless ALERT is set by then; an offer renews the PeerConnection *)
(* and takes back what close_pc asked for.                                 *)

Incident == incidents > 0 /\ incidents' = incidents - 1

ClosePc(hs) ==
    /\ closepc' = closepc \union {h \in hs : life[h] = "open"}
    /\ UNCHANGED <<pcon, hanging>>

janus_ice_webrtc_hangup(h) ==
    /\ closepc' = closepc \ {h}
    /\ IF pcon[h] = "down" \/ life[h] # "open" THEN UNCHANGED <<pcon, hanging>>
       ELSE pcon' = [pcon EXCEPT ![h] = "down"] /\ hanging' = hanging \union {h}

\* CLEANING, during which a description waits for three seconds at most.
Cleaning(h) == h \in hanging \/ (core = h /\ ~destroying)

\* An offer, from or to the browser, where no PeerConnection is up.
SetupLocal(h) ==
    /\ pcon' = [pcon EXCEPT ![h] = "up"]
    /\ closepc' = IF pcon[h] = "up" THEN closepc ELSE closepc \ {h}
    /\ UNCHANGED hanging

\* The timer of close_pc.
close_pc_internal(h) ==
    /\ h \in closepc
    /\ janus_ice_webrtc_hangup(h)
    /\ UNCHANGED <<sessions, life, queueVars, nameVars, callVars, hp, coreVars, told, incidents>>

\* The browser closes the PeerConnection, or asks the core to hang up.
RemoteHangup(h) ==
    /\ life[h] = "open" /\ pcon[h] # "down" /\ Incident
    /\ janus_ice_webrtc_hangup(h)
    /\ UNCHANGED <<sessions, life, queueVars, nameVars, callVars, hp, coreVars, told>>

create_session(h) ==
    /\ life[h] = "new" /\ cpc = "free"
    /\ life' = [life EXCEPT ![h] = "open"] /\ sessions' = sessions \union {h}
    /\ UNCHANGED <<queueVars, nameVars, callVars, hp, coreVars, pcVars, told, incidents>>

\* A description that comes with the request is handled by the core before; an answer
\* needs an offer.  What the request says is chosen when the handler reads it.
handle_message(h) ==
    /\ h \in sessions /\ cpc = "free" /\ asked[h] < requests[h] /\ Len(messages) < MaxQueue
    /\ asked' = [asked EXCEPT ![h] = @ + 1]
    /\ \E jsep \in {"none", "offer", "answer"} :
         /\ messages' = Append(messages, [handle |-> h, n |-> asked[h] + 1, jsep |-> jsep, done |-> FALSE])
         /\ jsep # "none" => ~Cleaning(h)
         /\ jsep = "answer" => pcon[h] = "up"
         /\ IF jsep = "offer" THEN SetupLocal(h) ELSE UNCHANGED pcVars
    /\ UNCHANGED <<sessions, life, hpc, msg, answers, requests, nameVars, callVars, hp, coreVars, told, incidents>>

setup_media(h) ==
    /\ h \in sessions /\ cpc = "free" /\ pcon[h] = "up"
    /\ hangingup' = [hangingup EXCEPT ![h] = FALSE]
    /\ UNCHANGED <<sessions, life, queueVars, nameVars, peer, incall, calls, call, hp, coreVars, pcVars, told, incidents>>

-----------------------------------------------------------------------------
(* janus_videocall_hangup_media_internal, called by hangup_media and by    *)
(* destroy_session with sessions_mutex held.                               *)

hangup_media(h, destroy) ==
    /\ cpc = "free"
    /\ IF destroy THEN Incident /\ UNCHANGED hanging
       ELSE h \in hanging /\ hanging' = hanging \ {h} /\ UNCHANGED incidents
    /\ IF h \in sessions
         THEN /\ core' = h /\ destroying' = destroy
              /\ IF hangingup[h] THEN cpc' = "leave" /\ UNCHANGED hangingup
                                 ELSE cpc' = "peer" /\ hangingup' = [hangingup EXCEPT ![h] = TRUE]
         ELSE ~destroy /\ UNCHANGED <<cpc, core, destroying, hangingup>>
    /\ UNCHANGED <<sessions, life, queueVars, nameVars, peer, incall, calls, call, hp, pcon, closepc, told>>

\* Mutant: the peer is hung up and not told.
HangupPeerSilent ==
    /\ cpc = "peer" /\ cpc' = "flag"
    /\ peer' = [peer EXCEPT ![core] = None] /\ call' = [call EXCEPT ![core] = 0]
    /\ IF peer[core] # None THEN ClosePc({peer[core]}) ELSE UNCHANGED pcVars
    /\ UNCHANGED <<sessions, life, queueVars, nameVars, incall, hangingup, calls, hp, core, destroying, told, incidents>>

\* The pointer is cleared, the peer hung up and told.
HangupPeer ==
    /\ cpc = "peer" /\ cpc' = "flag"
    /\ peer' = [peer EXCEPT ![core] = None] /\ call' = [call EXCEPT ![core] = 0]
    /\ IF peer[core] # None
         THEN /\ ClosePc({peer[core]})
              /\ told' = [told EXCEPT ![peer[core]] = @ \union {call[core]}]
         ELSE UNCHANGED <<pcVars, told>>
    /\ UNCHANGED <<sessions, life, queueVars, nameVars, incall, hangingup, calls, hp, core, destroying, incidents>>

HangupFlag ==
    /\ cpc = "flag" /\ cpc' = "leave"
    /\ incall' = [incall EXCEPT ![core] = FALSE] /\ hangingup' = [hangingup EXCEPT ![core] = FALSE]
    /\ UNCHANGED <<sessions, life, queueVars, nameVars, peer, calls, call, hp, core, destroying, pcVars, told, incidents>>

\* destroy_session goes on to free the name and remove the session.
HangupLeave ==
    /\ cpc = "leave"
    /\ cpc' = "free" /\ core' = None /\ destroying' = FALSE
    /\ IF destroying
         THEN /\ usernames' = [u \in Users |-> IF u = username[core] THEN None ELSE usernames[u]]
              /\ sessions' = sessions \ {core} /\ life' = [life EXCEPT ![core] = "destroyed"]
         ELSE UNCHANGED <<sessions, life, usernames>>
    /\ UNCHANGED <<queueVars, username, ghosts, callVars, hp, pcVars, told, incidents>>

-----------------------------------------------------------------------------
(* janus_videocall_handler.                                                *)

\* A message is popped and its session looked up under sessions_mutex; the request of
\* a session that is gone is dropped.
HandlerPop ==
    /\ hpc = "pop" /\ messages # <<>> /\ cpc = "free"
    /\ LET m == Head(messages)
       IN  IF m.handle \in sessions
             THEN /\ \E request \in Requests, user \in Users \union {None} :
                       /\ request \in {"register", "call"} <=> user # None
                       /\ m.jsep = "offer" => request \in {"call", "other"}
                       /\ m.jsep = "answer" => request \in {"accept", "other"}
                       /\ msg' = [handle |-> m.handle, n |-> m.n, jsep |-> m.jsep, request |-> request, user |-> user, call |-> 0]
                  /\ hpc' = "handle" /\ UNCHANGED messages
             ELSE messages' = Tail(messages) /\ UNCHANGED <<hpc, msg>>
    /\ UNCHANGED <<sessions, life, asked, requests, answers, nameVars, callVars, hp, coreVars, pcVars, told, incidents>>

\* Mutant: the error is logged and not pushed.
PushLost == hpc' = "free" /\ UNCHANGED <<asked, requests, messages, msg, answers>>

\* The result or the error is pushed; only then is the message freed.
Push ==
    /\ answers' = [answers EXCEPT ![me] = Append(@, msg.n)]
    /\ messages' = [messages EXCEPT ![1].done = TRUE]
    /\ hpc' = "free" /\ UNCHANGED <<asked, requests, msg>>

HandlerFree ==
    /\ hpc = "free"
    /\ hpc' = "pop" /\ msg' = None /\ messages' = Tail(messages)
    /\ UNCHANGED <<sessions, life, asked, requests, answers, nameVars, callVars, hp, coreVars, pcVars, told, incidents>>

Goto(pc) == hpc' = pc /\ UNCHANGED <<asked, requests, messages, msg, answers>>

\* Requests that leave names and calls alone, and requests that are refused.
HandleOther ==
    /\ hpc = "handle"
    /\ \/ msg.request = "other" /\ cpc = "free" /\ (msg.jsep = "none" \/ peer[me] = None)
       \/ msg.request = "register" /\ username[me] # None
       \/ /\ msg.request = "accept"
          /\ \/ peer[me] = None \/ ~incall[me] \/ msg.jsep = "none"
             \/ peer[me] # None /\ ~incall[peer[me]]
    /\ Push
    /\ UNCHANGED <<sessions, life, nameVars, callVars, hp, coreVars, pcVars, told, incidents>>

HandleRegister ==
    /\ hpc = "handle" /\ msg.request = "register" /\ username[me] = None
    /\ Goto("register")
    /\ UNCHANGED <<sessions, life, nameVars, callVars, hp, coreVars, pcVars, told, incidents>>

\* The session is not looked up again: it may be destroyed by now.
Register ==
    /\ hpc = "register" /\ cpc = "free"
    /\ IF usernames[msg.user] = None
         THEN /\ username' = [username EXCEPT ![me] = msg.user]
              /\ usernames' = [usernames EXCEPT ![msg.user] = me]
              /\ ghosts' = IF life[me] = "destroyed" THEN ghosts \union {me} ELSE ghosts
         ELSE UNCHANGED nameVars
    /\ Push
    /\ UNCHANGED <<sessions, life, callVars, hp, coreVars, pcVars, told, incidents>>

\* A call that cannot start hangs up the caller's own attempt.
HandleCall ==
    /\ hpc = "handle" /\ msg.request = "call"
    /\ IF username[me] = None \/ peer[me] # None \/ incall[me] \/ msg.user = username[me]
         THEN Push /\ ClosePc({me}) /\ UNCHANGED incall
         ELSE Goto("call") /\ incall' = [incall EXCEPT ![me] = TRUE] /\ UNCHANGED pcVars
    /\ UNCHANGED <<sessions, life, nameVars, peer, hangingup, calls, call, hp, coreVars, told, incidents>>

\* Under sessions_mutex: nobody of that name, or busy, or no valid offer.
CallRefused ==
    /\ hpc = "call" /\ cpc = "free"
    /\ LET p == usernames[msg.user]
           gone == p = None \/ (p # None /\ life[p] = "destroyed")
           busy == ~gone /\ (incall[p] \/ peer[p] # None)
       IN  /\ gone \/ busy \/ msg.jsep = "none"
           /\ IF gone \/ busy THEN ClosePc({me}) ELSE UNCHANGED pcVars
    /\ incall' = [incall EXCEPT ![me] = FALSE]
    /\ Push
    /\ UNCHANGED <<sessions, life, nameVars, peer, hangingup, calls, call, hp, coreVars, told, incidents>>

CallProceeds ==
    /\ hpc = "call" /\ cpc = "free" /\ msg.jsep # "none"
    /\ LET p == usernames[msg.user]
           id == Len(calls) + 1
       IN  /\ p # None /\ life[p] # "destroyed" /\ ~incall[p] /\ peer[p] = None
           /\ incall' = [incall EXCEPT ![p] = TRUE]
           /\ peer' = [peer EXCEPT ![me] = p, ![p] = me]
           /\ calls' = Append(calls, {me, p}) /\ call' = [call EXCEPT ![me] = id, ![p] = id]
           /\ hp' = p
    /\ Goto("offer")
    /\ UNCHANGED <<sessions, life, nameVars, hangingup, coreVars, pcVars, told, incidents>>

\* The core is given an offer for the peer that was read; it gives up if it is gone or still
\* hangs up.
Offer(p) == IF life[p] = "open" /\ ~Cleaning(p) THEN SetupLocal(p) ELSE UNCHANGED pcVars

\* The offer goes to the callee, outside the mutex.
CallOffer ==
    /\ hpc = "offer"
    /\ hangingup' = [hangingup EXCEPT ![me] = FALSE]
    /\ Offer(hp) /\ hp' = None
    /\ Push
    /\ UNCHANGED <<sessions, life, nameVars, peer, incall, calls, call, coreVars, told, incidents>>

\* The peer of a call that is accepted, or updated by "set", is read ...
HandleAccept ==
    /\ hpc = "handle" /\ msg.jsep # "none" /\ peer[me] # None
    /\ \/ msg.request = "accept" /\ incall[me] /\ incall[peer[me]]
       \/ msg.request = "other"
    /\ hp' = peer[me] /\ Goto("accept")
    /\ UNCHANGED <<sessions, life, nameVars, callVars, coreVars, pcVars, told, incidents>>

\* ... and gets the description, whatever has become of the call.
Accept ==
    /\ hpc = "accept"
    /\ hangingup' = [hangingup EXCEPT ![me] = @ /\ msg.request # "accept"]
    /\ IF msg.jsep = "offer" THEN Offer(hp) ELSE UNCHANGED pcVars
    /\ hp' = None
    /\ Push
    /\ UNCHANGED <<sessions, life, nameVars, peer, incall, calls, call, coreVars, told, incidents>>

HandleHangup ==
    /\ hpc = "handle" /\ msg.request = "hangup"
    /\ hp' = peer[me] /\ msg' = [msg EXCEPT !.call = call[me]]
    /\ hpc' = "hangup"
    /\ UNCHANGED <<sessions, life, asked, requests, messages, answers, nameVars, callVars, coreVars, pcVars, told, incidents>>

\* The pointer read before is used, whatever has become of the call.
Hangup ==
    /\ hpc = "hangup"
    /\ incall' = [h \in Handles |-> incall[h] /\ h \notin {me, hp}]
    /\ ClosePc({me, hp} \ {None})
    /\ told' = [h \in Handles |-> IF h \in {me, hp} /\ hp # None THEN told[h] \union {msg.call} ELSE told[h]]
    /\ hp' = None
    /\ Push
    /\ UNCHANGED <<sessions, life, nameVars, peer, hangingup, calls, call, coreVars, incidents>>

-----------------------------------------------------------------------------
janus_videocall_handler ==
    \/ HandlerPop \/ HandlerFree \/ HandleOther \/ HandleRegister \/ Register
    \/ HandleCall \/ CallRefused \/ CallProceeds \/ CallOffer \/ HandleAccept \/ Accept \/ HandleHangup \/ Hangup

CoreSteps ==
    \/ \E h \in Handles : hangup_media(h, FALSE) \/ close_pc_internal(h)
    \/ HangupPeer \/ HangupFlag \/ HangupLeave

Next ==
    \/ \E h \in Handles :
         \/ RemoteHangup(h) \/ create_session(h) \/ handle_message(h) \/ setup_media(h)
         \/ hangup_media(h, TRUE)
    \/ janus_videocall_handler \/ CoreSteps

(* The handler thread goes on; the loops and the timers run the hangups    *)
(* they are asked for.  All wait for sessions_mutex only.                  *)
Fairness == SF_vars(janus_videocall_handler) /\ SF_vars(CoreSteps)

Spec == Init /\ [][Next]_vars /\ Fairness

-----------------------------------------------------------------------------
Jseps == {"none", "offer", "answer"}
Message == [handle : Handles, n : 1 .. MaxRequests, jsep : Jseps, done : BOOLEAN]
Content == [handle : Handles, n : 1 .. MaxRequests, jsep : Jseps, request : Requests, user : Users \union {None}, call : Nat]

TypeOK ==
    /\ sessions \subseteq Handles /\ life \in [Handles -> {"new", "open", "destroyed"}]
    /\ asked \in [Handles -> 0 .. MaxRequests] /\ messages \in Seq(Message)
    /\ hpc \in {"pop", "handle", "register", "call", "offer", "accept", "hangup", "free"}
    /\ msg \in Content \union {None} /\ answers \in [Handles -> Seq(1 .. MaxRequests)]
    /\ username \in [Handles -> Users \union {None}] /\ usernames \in [Users -> Handles \union {None}]
    /\ peer \in [Handles -> Handles \union {None}] /\ hp \in Handles \union {None}
    /\ incall \in [Handles -> BOOLEAN] /\ hangingup \in [Handles -> BOOLEAN]
    /\ cpc \in {"free", "peer", "flag", "leave"} /\ core \in Handles \union {None}
    /\ destroying \in BOOLEAN
    /\ pcon \in [Handles -> {"fresh", "up", "down"}] /\ closepc \subseteq Handles
    /\ hanging \subseteq {h \in Handles : pcon[h] = "down"}
    /\ call \in [Handles -> 0 .. Len(calls)] /\ told \in [Handles -> SUBSET (0 .. Len(calls))]

\* "First come, first served": a registered user can be called by that name until the
\* handle is closed, whoever else asks for the name or leaves meanwhile; "you have to close
\* the handle to free the username", and a name in the table is free then, unless its
\* session registered while it was destroyed.  A session in a call has its peer in the same
\* call, or was told that the peer hung up: nobody is left talking to a session that calls
\* someone else.
CallsSound ==
    /\ \A h \in sessions : username[h] # None => usernames[username[h]] = h
    /\ \A u \in Users : usernames[u] \in sessions \union ghosts \union {None}
    /\ \A h \in Handles : peer[h] # None =>
         \/ peer[peer[h]] = h /\ call[peer[h]] = call[h]
         \/ call[h] \in told[h]

\* "Whatever the reason of a call being closed ... both parties in the communication
\* will receive a hangup event": once one of the two sessions lost its peer, both are
\* told, unless they are gone.
BothTold ==
    \A h \in Handles : \A c \in 1 .. MaxRequests * Cardinality(Handles) :
        (c <= Len(calls) /\ h \in calls[c] /\ \E p \in calls[c] : call[p] # c)
            ~> (c \in told[h] \/ life[h] = "destroyed")

\* The plugin does what every plugin promises the core.  Here a destroyed session
\* counts as freed once no request refers to it.
PS == INSTANCE PluginSession WITH
        life <- [h \in Handles |->
                   IF life[h] # "destroyed" THEN life[h]
                   ELSE IF \E i \in 1 .. Len(messages) : messages[i].handle = h THEN "removed" ELSE "freed"],
        pending <- [i \in 1 .. Len(messages) |->
                      [handle |-> messages[i].handle, n |-> messages[i].n, done |-> messages[i].done]]

Implements == PS!Spec
=============================================================================
