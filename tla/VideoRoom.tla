----------------------------- MODULE VideoRoom ------------------------------
(***************************************************************************)
(* The VideoRoom plugin (plugins/janus_videoroom.c): participants join a   *)
(* room and publish, subscribers attach to the feed of a publisher and may *)
(* switch to another, rooms are created, edited and destroyed and          *)
(* participants kicked meanwhile.                                          *)
(*                                                                         *)
(* The handler thread runs the queued requests; the loop of a handle runs  *)
(* its setup_media, hangups and destroy_session; a thread of the Janus API *)
(* runs the synchronous requests.  No section under a mutex waits for a    *)
(* mutex that another one holds while it waits, so a section is one step.  *)
(*                                                                         *)
(* A handle is a publisher or a subscriber for good, so publishers and     *)
(* subscribers have the names of their handles; the rooms 1, 2, ... had    *)
(* the same id one after the other.  Private ids, recordings, forwarders,  *)
(* codecs and media (RtpLayers) are left out, and the outcome of a check   *)
(* of parameters is a choice.                                              *)
(***************************************************************************)
EXTENDS Integers, Sequences, FiniteSets

CONSTANTS Handles,
          Scripts,                \* bound: [asks, incidents, max]: what clients ask ([handle, op, feed, flag]);
                                  \* synchronous requests, lost PeerConnections and sessions destroyed;
                                  \* max_publishers at first
          Limits,                 \* values of max_publishers
          MaxQueue,               \* bound: requests of clients in the queue
          MaxRooms,
          None

VARIABLES sessions, vref,         \* the table of sessions; references to each
          ptype, participant,     \* participant: whether session->participant is set
          started, hangingup,
          pub, sub,               \* the publisher or the subscriber of a handle
          current, made,          \* the room in the table, or 0; rooms created
          rdestroyed, participants, rref, max_publishers,
          messages, cur,          \* the queue; the request of the handler thread
          th,                     \* where a thread is
          pcon, closing,          \* the core's PeerConnection of a handle ("down": ALERT is set);
                                  \* handles for which close_pc was called
          known,                  \* the feeds a participant was told of
          asks, incidents,        \* the requests and the incidents to come
          leaked,                 \* history: references to a publisher never dropped,
          dropped,                \* and to a session or a room dropped once too often
          late,                   \* history: participants that joined a destroyed room or without a session
          belated,                \* history: subscribers of a feed that was being unpublished
          crossed,                \* history: subscribers whose hangup met a switch or their end
          overtaken,              \* history: publishers whose feed was stored after their hangup
          lowered                 \* history: rooms whose limit was lowered

sessVars == <<sessions, vref, ptype, participant, started, hangingup>>
roomVars == <<current, made, rdestroyed, participants, rref, max_publishers>>
histVars == <<leaked, dropped, late, belated, crossed, overtaken, lowered>>
vars == <<sessVars, pub, sub, roomVars, messages, cur, th, pcon, closing, known, asks, incidents, histVars>>

Rooms == 1 .. MaxRooms
Threads == Handles \union {"handler", "api"}
Idle == [pc |-> "idle", s |-> None, p |-> None, r |-> 0, leaving |-> FALSE, next |-> "idle"]
NoRequest == [handle |-> None, op |-> "none", feed |-> None, flag |-> FALSE]
NoPublisher == [room |-> 0, sdp |-> FALSE, kicked |-> FALSE, destroyed |-> FALSE, subscribers |-> {}, ref |-> 0]
NoSubscriber == [room |-> 0, feed |-> None, close_pc |-> FALSE, destroyed |-> FALSE, ref |-> 0]

\* The sessions were created, and the configuration has a room.
Init ==
    /\ sessions = Handles /\ vref = [h \in Handles |-> 1]
    /\ ptype = [h \in Handles |-> "none"] /\ participant = [h \in Handles |-> FALSE]
    /\ started = [h \in Handles |-> FALSE] /\ hangingup = [h \in Handles |-> FALSE]
    /\ pub = [h \in Handles |-> NoPublisher] /\ sub = [h \in Handles |-> NoSubscriber]
    /\ current = 1 /\ made = 1
    /\ rdestroyed = [r \in Rooms |-> FALSE] /\ participants = [r \in Rooms |-> {}]
    /\ rref = [r \in Rooms |-> IF r = 1 THEN 1 ELSE 0]
    /\ messages = <<>> /\ cur = NoRequest /\ th = [t \in Threads |-> Idle]
    /\ pcon = [h \in Handles |-> "fresh"] /\ closing = {}
    /\ known = [h \in Handles |-> {}]
    /\ \E x \in Scripts : asks = x.asks /\ incidents = x.incidents /\ max_publishers = [r \in Rooms |-> x.max]
    /\ leaked = [h \in Handles |-> 0] /\ dropped = [x \in Handles \union Rooms |-> 0]
    /\ late = {} /\ belated = {} /\ crossed = {} /\ overtaken = {} /\ lowered = {}

-----------------------------------------------------------------------------
(* References, and what several operations do.                             *)

Incident == incidents > 0 /\ incidents' = incidents - 1
At(t, pc) == th[t].pc = pc
Go(t, pc) == th' = [th EXCEPT ![t].pc = pc]

\* The handler thread holds sessions_mutex while it appends a subscriber.
SessionsFree == ~At("handler", "append")

\* References to rooms, their participants and the publishers, after a change: a room
\* without references is freed, and its table drops the participants.
Refs(R, P, Q) ==
    /\ rref' = R
    /\ participants' = [r \in Rooms |-> IF R[r] = 0 THEN {} ELSE P[r]]
    /\ pub' = [h \in Handles |->
                 [Q[h] EXCEPT !.ref = @ - Cardinality({r \in Rooms : R[r] = 0 /\ h \in P[r]})]]

\* Mutant: ALERT is not tested, and a handle that was hung up is hung up again.
ClosingUnchecked(H) == H

\* janus_plugin_close_pc: the loop of the handle will hang up, unless it did since the
\* last negotiation; a handle that never had a PeerConnection is hung up as well.
Closing(H) == {h \in H : pcon[h] # "down"}

\* janus_ice_setup_local: a PeerConnection is prepared, and what close_pc asked for is off.
SetupLocal(h, state) == pcon' = [pcon EXCEPT ![h] = state] /\ closing' = closing \ {h}

\* CLEANING: the loop is hanging up, and the core makes negotiations wait.
Cleaning(h) == pcon[h] = "down" /\ ~At(h, "idle")

\* The room's other participants are told that q is there, or no longer.
Told(r, q, there) ==
    [h \in Handles |-> IF h \notin participants[r] \ {q} \/ rdestroyed[r] THEN known[h]
                       ELSE IF there THEN known[h] \union {q} ELSE known[h] \ {q}]

\* janus_videoroom_hangup_subscriber, for all of X, whose feeds are set.
FeedOf(X, q) == Cardinality({x \in X : sub[x].feed = q})
InRoom(X, r) == Cardinality({x \in X : sub[x].close_pc /\ sub[x].room = r})
HungUp(X) ==
    [x \in Handles |->
       IF x \notin X THEN sub[x]
       ELSE IF sub[x].close_pc THEN [sub[x] EXCEPT !.feed = None, !.room = 0, !.ref = @ - 1]
       ELSE [sub[x] EXCEPT !.feed = None]]

\* The room of a subscriber that was destroyed in the meantime is let go for a second time.
HungUpTwice(X) ==
    [x \in Handles \union Rooms |-> dropped[x] + Cardinality({y \in X : sub[y].close_pc /\ sub[y].destroyed /\ sub[y].room = x})]

\* The end of a request: it was answered, or its session is gone; then message_free.
Finish(v) ==
    /\ vref' = [v EXCEPT ![cur.handle] = @ - 1]
    /\ th' = [th EXCEPT !["handler"] = Idle] /\ cur' = NoRequest

-----------------------------------------------------------------------------
(* Hanging up (janus_videoroom_hangup_media_internal), in any thread: what  *)
(* th[t].s names is hung up, and the thread goes on at th[t].next.          *)

\* The end of the hangup; all callers but destroy_session drop a reference.
HangupEnds(t, v) ==
    /\ th' = IF t # "handler" /\ th[t].next = "idle" THEN [th EXCEPT ![t] = Idle]
             ELSE [th EXCEPT ![t].pc = th[t].next]
    /\ vref' = IF th[t].next = "destroy" THEN v ELSE [v EXCEPT ![th[t].s] = @ - 1]

\* janus_videoroom_hangup_media: for a session in the table.
HangupMedia(t, s, next) ==
    IF s \in sessions
    THEN /\ th' = [th EXCEPT ![t].pc = "hangup", ![t].s = s, ![t].next = next]
         /\ vref' = [vref EXCEPT ![s] = @ + 1]
    ELSE th' = [th EXCEPT ![t].pc = next] /\ UNCHANGED vref

HangupBegins(t) ==
    LET s == th[t].s
        feeding == ptype[s] = "subscriber" /\ participant[s] /\ sub[s].feed # None
    IN
    /\ At(t, "hangup")
    /\ started' = [started EXCEPT ![s] = FALSE]
    /\ \/ /\ hangingup[s] \/ ~(ptype[s] = "publisher" \/ feeding)
          /\ HangupEnds(t, vref) /\ UNCHANGED <<hangingup, pub>>
       \/ /\ ~hangingup[s] /\ ptype[s] = "publisher"
          /\ hangingup' = [hangingup EXCEPT ![s] = TRUE]
          /\ IF participant[s]
             THEN th' = [th EXCEPT ![t].pc = "unsubscribe", ![t].p = s] /\ pub' = [pub EXCEPT ![s].ref = @ + 1]
             ELSE Go(t, "crashed") /\ UNCHANGED pub       \* participant is NULL
          /\ UNCHANGED vref
       \/ /\ ~hangingup[s] /\ feeding
          /\ hangingup' = [hangingup EXCEPT ![s] = TRUE]
          /\ th' = [th EXCEPT ![t].pc = "unfeed", ![t].p = sub[s].feed]
          /\ UNCHANGED <<vref, pub>>
    /\ UNCHANGED <<sessions, ptype, participant, sub, roomVars, messages, cur, pcon, closing, known, asks, incidents, histVars>>

\* A publisher: the feed is gone and its subscribers are hung up, under subscribers_mutex.
HangupPublisher(t) ==
    LET s == th[t].s  X == {x \in pub[s].subscribers : sub[x].feed # None} IN
    /\ At(t, "unsubscribe")
    /\ sub' = HungUp(X)
    /\ vref' = [q \in Handles |-> vref[q] - FeedOf(X, q)]
    /\ Refs([r \in Rooms |-> rref[r] - InRoom(X, r)], participants,
            [q \in Handles |-> [pub[q] EXCEPT !.ref = @ - FeedOf(X, q),
                                              !.sdp = @ /\ q # s,
                                              !.subscribers = IF q = s THEN {} ELSE @]])
    /\ closing' = closing \union Closing({x \in X : sub[x].close_pc})
    /\ th' = [th EXCEPT ![t].pc = "leave", ![t].leaving = FALSE]
    /\ dropped' = HungUpTwice(X)
    /\ UNCHANGED <<sessions, ptype, participant, started, hangingup, current, made, rdestroyed, max_publishers,
                   messages, cur, pcon, known, asks, incidents, leaked, late, belated, crossed, overtaken, lowered>>

\* A subscriber: it leaves the feed that was read, without a reference, before
\* subscribers_mutex was taken.
HangupSubscriber(t) ==
    LET s == th[t].s  p == th[t].p  X == {x \in {s} : sub[x].feed # None} IN
    /\ At(t, "unfeed")
    /\ sub' = HungUp(X)
    /\ HangupEnds(t, [q \in Handles |-> vref[q] - FeedOf(X, q)])
    /\ Refs([r \in Rooms |-> rref[r] - InRoom(X, r)], participants,
            [q \in Handles |-> [pub[q] EXCEPT !.ref = @ - FeedOf(X, q),
                                              !.subscribers = IF q = p THEN @ \ {s} ELSE @]])
    /\ closing' = closing \union Closing({x \in X : sub[x].close_pc})
    /\ hangingup' = [hangingup EXCEPT ![s] = FALSE]
    /\ crossed' = IF sub[s].feed \in {p, None} THEN crossed ELSE crossed \union {s}
    /\ dropped' = HungUpTwice(X)
    /\ UNCHANGED <<sessions, ptype, participant, started, current, made, rdestroyed, max_publishers,
                   messages, cur, pcon, known, asks, incidents, leaked, late, belated, overtaken, lowered>>

\* janus_videoroom_leave_or_unpublish returned: the hangup is over, or the caller goes on.
LeaveReturns(t, R, P, Q) ==
    LET q == th[t].p IN
    IF th[t].leaving
    THEN Go(t, th[t].next) /\ Refs(R, P, Q) /\ UNCHANGED <<vref, hangingup>>
    ELSE /\ Refs(R, P, [Q EXCEPT ![q].ref = @ - 1])
         /\ hangingup' = [hangingup EXCEPT ![th[t].s] = FALSE]
         /\ HangupEnds(t, vref)

\* It first looks whether the room exists, under rooms_mutex ...
LeaveFinds(t) ==
    LET r == pub[th[t].p].room IN
    /\ At(t, "leave")
    /\ IF r = 0 \/ current = 0 \/ rdestroyed[r]
       THEN LeaveReturns(t, rref, participants, pub)
       ELSE /\ th' = [th EXCEPT ![t].pc = "room", ![t].r = r]
            /\ rref' = [rref EXCEPT ![r] = @ + 1]
            /\ UNCHANGED <<vref, hangingup, participants, pub>>
    /\ UNCHANGED <<sessions, ptype, participant, started, sub, current, made, rdestroyed, max_publishers,
                   messages, cur, pcon, closing, known, asks, incidents, histVars>>

\* ... then tells the others, under the room's mutex.
LeaveRoom(t) ==
    LET q == th[t].p  r == th[t].r
        here == pub[q].room # 0
        out == here /\ th[t].leaving
    IN
    /\ At(t, "room")
    /\ known' = IF ~here THEN known
                ELSE IF out THEN [Told(r, q, FALSE) EXCEPT ![q] = {}] ELSE Told(r, q, FALSE)
    /\ LeaveReturns(t, [rref EXCEPT ![r] = @ - (IF out THEN 2 ELSE 1)],
                    IF out THEN [participants EXCEPT ![r] = @ \ {q}] ELSE participants,
                    IF out THEN [pub EXCEPT ![q].room = 0, ![q].ref = @ - 1] ELSE pub)
    /\ UNCHANGED <<sessions, ptype, participant, started, sub, current, made, rdestroyed, max_publishers,
                   messages, cur, pcon, closing, asks, incidents, histVars>>

-----------------------------------------------------------------------------
(* The loop of a handle.                                                    *)

\* janus_videoroom_setup_media: the PeerConnection is up.
SetupMedia(h) ==
    /\ At(h, "idle") /\ pcon[h] = "negotiated" /\ h \in sessions /\ SessionsFree
    /\ pcon' = [pcon EXCEPT ![h] = "up"]
    /\ hangingup' = [hangingup EXCEPT ![h] = FALSE]
    /\ vref' = [vref EXCEPT ![h] = @ + 1]
    /\ Go(h, "setup")
    /\ UNCHANGED <<sessions, ptype, participant, started, pub, sub, roomVars, messages, cur, closing, known, asks, incidents, histVars>>

SetupStarts(h) ==
    /\ At(h, "setup")
    /\ started' = [started EXCEPT ![h] = TRUE]
    /\ IF ptype[h] = "publisher" /\ participant[h]
       THEN pub' = [pub EXCEPT ![h].ref = @ + 1] /\ Go(h, "notify") /\ UNCHANGED vref
       ELSE vref' = [vref EXCEPT ![h] = @ - 1] /\ Go(h, "idle") /\ UNCHANGED pub
    /\ UNCHANGED <<sessions, ptype, participant, hangingup, sub, roomVars, messages, cur, pcon, closing, known, asks, incidents, histVars>>

\* The other participants learn of the feed, under the room's mutex.
SetupNotifies(h) ==
    /\ At(h, "notify")
    /\ known' = IF pub[h].room = 0 THEN known ELSE Told(pub[h].room, h, TRUE)
    /\ pub' = [pub EXCEPT ![h].ref = @ - 1]
    /\ vref' = [vref EXCEPT ![h] = @ - 1]
    /\ Go(h, "idle")
    /\ UNCHANGED <<sessions, ptype, participant, started, hangingup, sub, roomVars, messages, cur, pcon, closing, asks, incidents, histVars>>

\* The PeerConnection is over, because of its peer or of close_pc.
CoreHangup(h) ==
    /\ At(h, "idle") /\ pcon[h] # "down" /\ SessionsFree
    /\ IF h \in closing THEN UNCHANGED incidents ELSE Incident
    /\ pcon' = [pcon EXCEPT ![h] = "down"] /\ closing' = closing \ {h}
    /\ HangupMedia(h, h, "idle")
    /\ UNCHANGED <<sessions, ptype, participant, started, hangingup, pub, sub, roomVars, messages, cur, known, asks, histVars>>

\* janus_videoroom_destroy_session: out of the table, hung up, ...
DestroySession(h) ==
    /\ At(h, "idle") /\ h \in sessions /\ SessionsFree /\ Incident
    /\ sessions' = sessions \ {h}
    /\ pcon' = [pcon EXCEPT ![h] = "down"] /\ closing' = closing \ {h}
    /\ th' = [th EXCEPT ![h].pc = "hangup", ![h].s = h, ![h].next = "destroy"]
    /\ UNCHANGED <<vref, ptype, participant, started, hangingup, pub, sub, roomVars, messages, cur, known, asks, histVars>>

\* ... parted from its participant: a subscriber is destroyed, a publisher leaves first.
DestroyParticipant(h) ==
    LET held == IF sub[h].room # 0 THEN 2 ELSE 1 IN
    /\ At(h, "destroy")
    /\ participant' = [participant EXCEPT ![h] = FALSE]
    /\ IF ptype[h] = "publisher" /\ participant[h]
       THEN /\ pub' = [pub EXCEPT ![h].ref = @ + 1]
            /\ th' = [th EXCEPT ![h].pc = "leave", ![h].p = h, ![h].leaving = TRUE, ![h].next = "destroyed"]
            /\ UNCHANGED <<vref, sub, participants, rref, crossed>>
       ELSE /\ th' = [th EXCEPT ![h] = Idle]
            /\ vref' = [vref EXCEPT ![h] = @ - 1]
            /\ IF ptype[h] = "subscriber"
               THEN /\ sub' = [sub EXCEPT ![h].destroyed = TRUE, ![h].ref = @ - held]
                    /\ Refs([r \in Rooms |-> IF r = sub[h].room THEN rref[r] - 1 ELSE rref[r]], participants, pub)
                    /\ crossed' = IF sub[h].feed # None THEN crossed \union {h} ELSE crossed
               ELSE UNCHANGED <<pub, sub, participants, rref, crossed>>
    /\ UNCHANGED <<sessions, ptype, started, hangingup, current, made, rdestroyed, max_publishers,
                   messages, cur, pcon, closing, known, asks, incidents, leaked, dropped, late, belated, overtaken, lowered>>

DestroyPublisher(h) ==
    /\ At(h, "destroyed")
    /\ pub' = [pub EXCEPT ![h].destroyed = TRUE, ![h].ref = @ - (IF pub[h].destroyed THEN 1 ELSE 2)]
    /\ vref' = [vref EXCEPT ![h] = @ - 1]
    /\ th' = [th EXCEPT ![h] = Idle]
    /\ UNCHANGED <<sessions, ptype, participant, started, hangingup, sub, roomVars, messages, cur, pcon, closing, known, asks, incidents, histVars>>

-----------------------------------------------------------------------------
(* The synchronous requests, in a thread of the Janus API.                  *)

Op == At("api", "idle") /\ Incident

create ==
    /\ Op /\ current = 0 /\ made < MaxRooms
    /\ made' = made + 1 /\ current' = made + 1
    /\ rref' = [rref EXCEPT ![made + 1] = 1]
    /\ UNCHANGED <<sessVars, pub, sub, rdestroyed, participants, max_publishers, messages, cur, th, pcon, closing, known, asks, histVars>>

edit ==
    /\ Op /\ current # 0
    /\ \E n \in Limits :
         /\ max_publishers' = [max_publishers EXCEPT ![current] = n]
         /\ lowered' = IF n < max_publishers[current] THEN lowered \union {current} ELSE lowered
    /\ UNCHANGED <<sessVars, pub, sub, current, made, rdestroyed, participants, rref, messages, cur, th, pcon, closing, known, asks,
                   leaked, dropped, late, belated, crossed, overtaken>>

\* The room leaves the table; its participants are told and lose it.
destroy ==
    LET out == participants[current] IN
    /\ Op /\ current # 0
    /\ current' = 0
    /\ rdestroyed' = [rdestroyed EXCEPT ![current] = TRUE]
    /\ Refs([rref EXCEPT ![current] = @ - 1 - Cardinality({h \in out : pub[h].room # 0})], participants,
            [h \in Handles |-> IF h \in out THEN [pub[h] EXCEPT !.room = 0] ELSE pub[h]])
    /\ closing' = closing \union Closing(out)
    /\ known' = [h \in Handles |-> IF h \in out THEN {} ELSE known[h]]
    /\ UNCHANGED <<sessVars, sub, made, max_publishers, messages, cur, th, pcon, asks, histVars>>

\* The room is looked up under rooms_mutex, the participant under the room's mutex.
kick ==
    /\ Op /\ current # 0
    /\ rref' = [rref EXCEPT ![current] = @ + 1]
    /\ th' = [th EXCEPT !["api"].pc = "kick", !["api"].r = current]
    /\ UNCHANGED <<sessVars, pub, sub, current, made, rdestroyed, participants, max_publishers, messages, cur, pcon, closing, known, asks, histVars>>

KickParticipant ==
    LET r == th["api"].r IN
    /\ At("api", "kick")
    /\ \/ \E q \in participants[r] :
            /\ ~pub[q].kicked
            /\ pub' = [pub EXCEPT ![q].kicked = TRUE]
            /\ started' = [started EXCEPT ![q] = FALSE]
            /\ th' = [th EXCEPT !["api"] = [@ EXCEPT !.pc = "leave", !.p = q, !.leaving = TRUE, !.next = "kicked"]]
            /\ UNCHANGED <<rref, participants>>
       \/ /\ \A q \in participants[r] : pub[q].kicked
          /\ Refs([rref EXCEPT ![r] = @ - 1], participants, pub)
          /\ th' = [th EXCEPT !["api"] = Idle] /\ UNCHANGED started
    /\ UNCHANGED <<sessions, vref, ptype, participant, hangingup, sub, current, made, rdestroyed, max_publishers,
                   messages, cur, pcon, closing, known, asks, incidents, histVars>>

Kicked ==
    /\ At("api", "kicked")
    /\ closing' = closing \union Closing({th["api"].p})
    /\ Refs([rref EXCEPT ![th["api"].r] = @ - 1], participants, pub)
    /\ th' = [th EXCEPT !["api"] = Idle]
    /\ UNCHANGED <<sessVars, sub, current, made, rdestroyed, max_publishers, messages, cur, pcon, known, asks, incidents, histVars>>

-----------------------------------------------------------------------------
(* The handler thread.                                                      *)

\* An offer is taken by the core first, which waits for the end of a hangup and starts a
\* negotiation if there is no PeerConnection; then janus_videoroom_handle_message queues
\* what it does not answer itself.
handle_message(h) ==
    LET m == Head(asks)
        offer == m.op \in {"publish", "configure"} \/ (m.op = "publisher" /\ m.flag)
    IN
    /\ asks # <<>> /\ h = m.handle /\ SessionsFree /\ Len(messages) < MaxQueue
    /\ asks' = Tail(asks)
    /\ IF h \in sessions
       THEN /\ offer => ~Cleaning(h)
            /\ IF offer /\ pcon[h] \in {"fresh", "down"} THEN SetupLocal(h, "offered") ELSE UNCHANGED <<pcon, closing>>
            /\ messages' = Append(messages, m) /\ vref' = [vref EXCEPT ![h] = @ + 1]
       ELSE UNCHANGED <<messages, vref, pcon, closing>>
    /\ UNCHANGED <<sessions, ptype, participant, started, hangingup, pub, sub, roomVars, cur, th, known, incidents, histVars>>

\* A request is taken: dropped without a session, refused if the subscriber has left.
Take ==
    LET m == Head(messages)  s == m.handle IN
    /\ At("handler", "idle") /\ messages # <<>>
    /\ messages' = Tail(messages)
    /\ IF s \notin sessions \/ (ptype[s] = "subscriber" /\ (~participant[s] \/ sub[s].destroyed \/ sub[s].room = 0))
       THEN vref' = [vref EXCEPT ![s] = @ - 1] /\ UNCHANGED <<cur, th, sub>>
       ELSE /\ cur' = m /\ th' = [th EXCEPT !["handler"].pc = "request", !["handler"].s = s]
            /\ sub' = IF ptype[s] = "subscriber" THEN [sub EXCEPT ![s].ref = @ + 1] ELSE sub
            /\ UNCHANGED vref
    /\ UNCHANGED <<sessions, ptype, participant, started, hangingup, pub, roomVars, pcon, closing, known, asks, incidents, histVars>>

\* A session without a participant may only join a room that exists.
JoinAccess ==
    LET s == cur.handle IN
    /\ At("handler", "request") /\ ptype[s] = "none"
    /\ IF cur.op \in {"publisher", "subscriber"} /\ current # 0
       THEN /\ rref' = [rref EXCEPT ![current] = @ + 1]
            /\ th' = [th EXCEPT !["handler"].pc = cur.op, !["handler"].r = current]
            /\ UNCHANGED <<vref, cur>>
       ELSE Finish(vref) /\ UNCHANGED rref
    /\ UNCHANGED <<sessions, ptype, participant, started, hangingup, pub, sub, current, made, rdestroyed, participants, max_publishers,
                   messages, pcon, closing, known, asks, incidents, histVars>>

\* Joining as a publisher, under the room's mutex; with an offer it goes on to publish.
JoinPublisher ==
    LET s == cur.handle  r == th["handler"].r IN
    /\ At("handler", "publisher")
    /\ \/ /\ pub' = [pub EXCEPT ![s] = [NoPublisher EXCEPT !.room = r, !.ref = 2]]
          /\ ptype' = [ptype EXCEPT ![s] = "publisher"] /\ participant' = [participant EXCEPT ![s] = TRUE]
          /\ participants' = [participants EXCEPT ![r] = @ \union {s}]
          /\ known' = [known EXCEPT ![s] = {p \in participants[r] : ~rdestroyed[r] /\ pub[p].sdp /\ started[p]}]
          /\ late' = IF rdestroyed[r] \/ s \notin sessions THEN late \union {s} ELSE late
          /\ IF cur.flag THEN Go("handler", "offer") /\ UNCHANGED <<vref, cur>> ELSE Finish(vref)
          /\ UNCHANGED rref
       \/ /\ Finish(vref) /\ Refs([rref EXCEPT ![r] = @ - 1], participants, pub)   \* bad or taken id
          /\ UNCHANGED <<ptype, participant, known, late>>
    /\ UNCHANGED <<sessions, started, hangingup, sub, current, made, rdestroyed, max_publishers, messages, pcon, closing, asks, incidents,
                   leaked, dropped, belated, crossed, overtaken, lowered>>

\* Joining as a subscriber: the feed is looked up under the room's mutex and sessions_mutex ...
SubscribeFinds ==
    LET s == cur.handle  f == cur.feed  r == th["handler"].r IN
    /\ At("handler", "subscriber")
    /\ IF s \in sessions /\ f \in participants[r] /\ ~pub[f].destroyed /\ pub[f].sdp
       THEN /\ pub' = [pub EXCEPT ![f].ref = @ + 1] /\ vref' = [vref EXCEPT ![f] = @ + 1]
            /\ Go("handler", "append") /\ UNCHANGED <<cur, rref, participants>>
       ELSE Finish(vref) /\ Refs([rref EXCEPT ![r] = @ - 1], participants, pub)
    /\ UNCHANGED <<sessions, ptype, participant, started, hangingup, sub, current, made, rdestroyed, max_publishers,
                   messages, pcon, closing, known, asks, incidents, histVars>>

\* ... and the subscriber appended under subscribers_mutex and sessions_mutex, unless there
\* are no media in common.
SubscribeAppends ==
    LET s == cur.handle  f == cur.feed  r == th["handler"].r IN
    /\ At("handler", "append")
    /\ \/ /\ sub' = [sub EXCEPT ![s] = [room |-> r, feed |-> f, close_pc |-> cur.flag, destroyed |-> FALSE, ref |-> 3]]
          /\ pub' = [pub EXCEPT ![f].subscribers = @ \union {s}]
          /\ ptype' = [ptype EXCEPT ![s] = "subscriber"] /\ participant' = [participant EXCEPT ![s] = TRUE]
          /\ belated' = IF pub[f].sdp THEN belated ELSE belated \union {s}
          /\ Go("handler", "attach") /\ UNCHANGED <<vref, cur, rref, participants>>
       \/ /\ Finish([vref EXCEPT ![f] = @ - 1])
          /\ Refs([rref EXCEPT ![r] = @ - 1], participants, [pub EXCEPT ![f].ref = @ - 1])
          /\ UNCHANGED <<sub, ptype, participant, belated>>
    /\ UNCHANGED <<sessions, started, hangingup, current, made, rdestroyed, max_publishers, messages, pcon, closing, known, asks, incidents,
                   leaked, dropped, late, crossed, overtaken, lowered>>

\* The feed, if there still is one, is read under subscribers_mutex ...
SubscribeReads ==
    LET s == cur.handle IN
    /\ At("handler", "attach")
    /\ IF pub[cur.feed].sdp THEN Go("handler", "attached") /\ UNCHANGED <<vref, cur, sub>>
       ELSE Finish(vref) /\ sub' = [sub EXCEPT ![s].ref = @ - 1]
    /\ UNCHANGED <<sessions, ptype, participant, started, hangingup, pub, roomVars, messages, pcon, closing, known, asks, incidents, histVars>>

\* ... and offered to the subscriber; the core waits for the end of a hangup, or gives up.
SubscribeOffers ==
    LET s == cur.handle IN
    /\ At("handler", "attached")
    /\ hangingup' = [hangingup EXCEPT ![s] = FALSE]
    /\ IF s \in sessions /\ ~Cleaning(s) THEN SetupLocal(s, "negotiated") ELSE UNCHANGED <<pcon, closing>>
    /\ sub' = [sub EXCEPT ![s].ref = @ - 1]
    /\ Finish(vref)
    /\ UNCHANGED <<sessions, ptype, participant, started, pub, roomVars, messages, known, asks, incidents, histVars>>

\* Requests of a publisher.
PublisherRequest ==
    LET s == cur.handle  p == pub[s] IN
    /\ At("handler", "request") /\ ptype[s] = "publisher"
    /\ \/ /\ participant[s] /\ p.room # 0 /\ ~p.kicked
          /\ cur.op = "configure" \/ (cur.op = "publish" /\ ~p.sdp)
          /\ pub' = [pub EXCEPT ![s].ref = @ + 1]
          /\ Go("handler", "configure") /\ UNCHANGED <<vref, cur>>
       \/ /\ participant[s] /\ p.room # 0 /\ cur.op = "unpublish" /\ p.sdp
          /\ pub' = [pub EXCEPT ![s].ref = @ + 1]
          /\ HangupMedia("handler", s, "unpublished") /\ UNCHANGED cur
       \/ /\ participant[s] /\ p.room # 0 /\ cur.op = "leave"
          /\ pub' = [pub EXCEPT ![s].ref = @ + 1]
          /\ th' = [th EXCEPT !["handler"] = [@ EXCEPT !.pc = "leave", !.p = s, !.leaving = TRUE, !.next = "left"]]
          /\ UNCHANGED <<vref, cur>>
       \/ /\ \/ ~participant[s] \/ p.room = 0
             \/ cur.op \in {"publish", "configure"} /\ (p.kicked \/ (cur.op = "publish" /\ p.sdp))
             \/ cur.op = "unpublish" /\ ~p.sdp
             \/ cur.op \notin {"publish", "configure", "unpublish", "leave"}
          /\ Finish(vref) /\ UNCHANGED pub
    /\ UNCHANGED <<sessions, ptype, participant, started, hangingup, sub, roomVars, messages, pcon, closing, known, asks, incidents, histVars>>

\* The parameters of a "configure" or "publish": some of them need the room, which was
\* looked at before.  A request with a bad one is refused.
Configure ==
    LET s == cur.handle  released == [pub EXCEPT ![s].ref = @ - 1] IN
    /\ At("handler", "configure")
    /\ \/ pub[s].room = 0 /\ Go("handler", "crashed") /\ UNCHANGED <<vref, cur, pub>>     \* participant->room is NULL
       \/ Go("handler", "offer") /\ pub' = released /\ UNCHANGED <<vref, cur>>
       \/ Finish(vref) /\ pub' = released
    /\ UNCHANGED <<sessions, ptype, participant, started, hangingup, sub, roomVars, messages, pcon, closing, known, asks, incidents, histVars>>

\* Unpublished or left: the publisher is released, and the request answered.
PublisherDone ==
    LET s == cur.handle IN
    /\ th["handler"].pc \in {"unpublished", "left"} /\ ptype[s] = "publisher"
    /\ pub' = [pub EXCEPT ![s].ref = @ - 1]
    /\ closing' = IF At("handler", "unpublished") THEN closing \union Closing({s}) ELSE closing
    /\ started' = IF At("handler", "left") THEN [started EXCEPT ![s] = FALSE] ELSE started
    /\ Finish(vref)
    /\ UNCHANGED <<sessions, ptype, participant, hangingup, sub, roomVars, messages, pcon, known, asks, incidents, histVars>>

\* Mutant: one publisher too many.
FullLate(s) ==
    LET r == pub[s].room IN Cardinality({p \in participants[r] \ {s} : pub[p].sdp}) > max_publishers[r]

\* The room has as many publishers as it may have.
Full(s) ==
    LET r == pub[s].room IN Cardinality({p \in participants[r] \ {s} : pub[p].sdp}) = max_publishers[r]

\* An offer: is there room?  The error paths keep the reference just taken.
OfferCheck ==
    LET s == cur.handle  r == pub[s].room IN
    /\ At("handler", "offer")
    /\ IF ~participant[s] THEN Go("handler", "crashed") /\ UNCHANGED <<vref, cur, pub, leaked>>    \* participant is NULL
       ELSE /\ pub' = [pub EXCEPT ![s].ref = @ + 1]
            /\ \/ /\ r # 0 /\ ~rdestroyed[r] /\ ~Full(s)
                  /\ Go("handler", "push") /\ UNCHANGED <<vref, cur, leaked>>
               \/ Finish(vref) /\ leaked' = [leaked EXCEPT ![s] = @ + 1]                 \* full, gone, or a bad SDP
    /\ UNCHANGED <<sessions, ptype, participant, started, hangingup, sub, roomVars, messages, pcon, closing, known, asks, incidents,
                   dropped, late, belated, crossed, overtaken, lowered>>

\* The answer is pushed, and the core may set up the PeerConnection at once ...  It fails
\* without a session or after a hangup; while the loop hangs up it may still succeed.
OfferPush ==
    LET s == cur.handle IN
    /\ At("handler", "push")
    /\ hangingup' = [hangingup EXCEPT ![s] = FALSE]
    /\ \/ /\ s \in sessions /\ (pcon[s] # "down" \/ Cleaning(s))
          /\ pcon' = [pcon EXCEPT ![s] = IF @ = "offered" THEN "negotiated" ELSE @]
          /\ Go("handler", "store")
       \/ (s \notin sessions \/ pcon[s] = "down") /\ Go("handler", "failed") /\ UNCHANGED pcon
    /\ UNCHANGED <<sessions, vref, ptype, participant, started, pub, sub, roomVars, messages, cur, closing, known, asks, incidents, histVars>>

\* ... before the feed is stored, whatever has become of the PeerConnection.
OfferStore ==
    LET s == cur.handle
        stored == [pub EXCEPT ![s].sdp = @ \/ At("handler", "store")]
    IN
    /\ th["handler"].pc \in {"store", "failed"}
    /\ overtaken' = IF At("handler", "store") /\ pcon[s] = "down" /\ th[s].pc \notin {"hangup", "unsubscribe"}
                    THEN overtaken \union {s} ELSE overtaken
    /\ IF cur.op = "configure" THEN Go("handler", "update") /\ pub' = stored /\ UNCHANGED <<vref, cur>>
       ELSE Finish(vref) /\ pub' = [stored EXCEPT ![s].ref = @ - 1]
    /\ UNCHANGED <<sessions, ptype, participant, started, hangingup, sub, roomVars, messages, pcon, closing, known, asks, incidents,
                   leaked, dropped, late, belated, crossed, lowered>>

\* After a renegotiation an update is queued for every subscriber, under subscribers_mutex.
OfferUpdate ==
    LET s == cur.handle  X == pub[s].subscribers IN
    /\ At("handler", "update")
    /\ pub' = [pub EXCEPT ![s].ref = @ - 1]
    /\ \E q \in [1 .. Cardinality(X) -> X] :
         /\ \A x \in X : \E i \in DOMAIN q : q[i] = x
         /\ messages' = messages \o [i \in DOMAIN q |-> [handle |-> q[i], op |-> "configure", feed |-> None, flag |-> TRUE]]
    /\ Finish([x \in Handles |-> IF x \in X THEN vref[x] + 1 ELSE vref[x]])
    /\ UNCHANGED <<sessions, ptype, participant, started, hangingup, sub, roomVars, pcon, closing, known, asks, incidents, histVars>>

\* Requests of a subscriber; a feed to switch to is looked up under the room's mutex.
SubscriberRequest ==
    LET s == cur.handle  f == cur.feed
        found == sub[s].room # 0 /\ ~sub[s].destroyed /\ f \in participants[sub[s].room] /\ ~pub[f].destroyed /\ pub[f].sdp
    IN
    /\ At("handler", "request") /\ ptype[s] = "subscriber"
    /\ \/ /\ cur.op = "switch" /\ found
          /\ pub' = [pub EXCEPT ![f].ref = @ + 1] /\ vref' = [vref EXCEPT ![f] = @ + 1]
          /\ th' = [th EXCEPT !["handler"].pc = "switch", !["handler"].p = sub[s].feed]
          /\ UNCHANGED <<cur, sub>>
       \/ /\ cur.op = "leave"
          /\ HangupMedia("handler", s, "unsubscribed") /\ UNCHANGED <<cur, pub, sub>>
       \/ /\ cur.op # "leave"                   \* start, configure, pause; no such feed, other codecs
          /\ sub' = [sub EXCEPT ![s].ref = @ - 1]
          /\ Finish(vref) /\ UNCHANGED pub
    /\ UNCHANGED <<sessions, ptype, participant, started, hangingup, roomVars, messages, pcon, closing, known, asks, incidents, histVars>>

\* A switch: away from the feed that was read before its subscribers_mutex was taken; if
\* it was taken from the subscriber meanwhile, its session loses a second reference ...
SwitchLeaves ==
    LET s == cur.handle  prev == th["handler"].p  feed == sub[s].feed IN
    /\ At("handler", "switch")
    /\ IF prev = None THEN UNCHANGED <<vref, pub, sub, dropped>>
       ELSE /\ vref' = [vref EXCEPT ![prev] = @ - 1]
            /\ pub' = [q \in Handles |-> [pub[q] EXCEPT !.subscribers = IF q = prev THEN @ \ {s} ELSE @,
                                                        !.ref = IF q = feed THEN @ - 1 ELSE @]]
            /\ sub' = [sub EXCEPT ![s].feed = None]
            /\ dropped' = IF feed = prev THEN dropped ELSE [dropped EXCEPT ![prev] = @ + 1]
    /\ Go("handler", "join")
    /\ UNCHANGED <<sessions, ptype, participant, started, hangingup, roomVars, messages, cur, pcon, closing, known, asks, incidents,
                   leaked, late, belated, crossed, overtaken, lowered>>

\* ... into the list of the new one, under its subscribers_mutex ...
SwitchJoins ==
    /\ At("handler", "join")
    /\ pub' = [pub EXCEPT ![cur.feed].subscribers = @ \union {cur.handle}]
    /\ Go("handler", "joined")
    /\ UNCHANGED <<sessVars, sub, roomVars, messages, cur, pcon, closing, known, asks, incidents, histVars>>

\* ... and only then is the new one the subscriber's feed.
SwitchFeeds ==
    LET s == cur.handle  f == cur.feed IN
    /\ At("handler", "joined")
    /\ sub' = [sub EXCEPT ![s].feed = f, ![s].ref = @ - 1]
    /\ belated' = IF s \in pub[f].subscribers /\ pub[f].sdp THEN belated ELSE belated \union {s}
    /\ crossed' = IF sub[s].room = 0 \/ sub[s].destroyed THEN crossed \union {s} ELSE crossed
    /\ Finish(vref)
    /\ UNCHANGED <<sessions, ptype, participant, started, hangingup, pub, roomVars, messages, pcon, closing, known, asks, incidents,
                   leaked, dropped, late, overtaken, lowered>>

SubscriberLeft ==
    LET s == cur.handle IN
    /\ At("handler", "unsubscribed")
    /\ sub' = [sub EXCEPT ![s].ref = @ - 1]
    /\ closing' = closing \union Closing({s})
    /\ started' = [started EXCEPT ![s] = FALSE]
    /\ Finish(vref)
    /\ UNCHANGED <<sessions, ptype, participant, hangingup, pub, roomVars, messages, pcon, known, asks, incidents, histVars>>

-----------------------------------------------------------------------------
HandlerStep ==
    \/ Take \/ JoinAccess \/ JoinPublisher \/ SubscribeFinds \/ SubscribeAppends
    \/ SubscribeReads \/ SubscribeOffers \/ PublisherRequest \/ Configure \/ PublisherDone
    \/ OfferCheck \/ OfferPush \/ OfferStore \/ OfferUpdate
    \/ SubscriberRequest \/ SwitchLeaves \/ SwitchJoins \/ SwitchFeeds \/ SubscriberLeft

HangupStep(t) ==
    HangupBegins(t) \/ HangupPublisher(t) \/ HangupSubscriber(t) \/ LeaveFinds(t) \/ LeaveRoom(t)

CoreStep(h) ==
    SetupStarts(h) \/ SetupNotifies(h) \/ DestroyParticipant(h) \/ DestroyPublisher(h)

\* A thread that dereferences a NULL participant ends the process.
Alive == \A t \in Threads : ~At(t, "crashed")

Next ==
    /\ Alive
    /\ \/ \E h \in Handles : handle_message(h) \/ SetupMedia(h) \/ CoreHangup(h) \/ DestroySession(h) \/ CoreStep(h)
       \/ \E t \in Threads : HangupStep(t)
       \/ HandlerStep
       \/ create \/ edit \/ destroy \/ kick \/ KickParticipant \/ Kicked

Spec == Init /\ [][Next]_vars

-----------------------------------------------------------------------------
(* Properties.                                                              *)

Quiet ==
    /\ Alive /\ messages = <<>> /\ closing = {}
    /\ \A t \in Threads : At(t, "idle")

TypeOK ==
    /\ sessions \subseteq Handles /\ vref \in [Handles -> Int]
    /\ ptype \in [Handles -> {"none", "publisher", "subscriber"}]
    /\ \A h \in Handles : pub[h].room \in 0 .. MaxRooms /\ sub[h].room \in 0 .. MaxRooms
    /\ \A h \in Handles : pub[h].subscribers \subseteq Handles /\ sub[h].feed \in Handles \union {None}
    /\ current \in 0 .. MaxRooms /\ participants \in [Rooms -> SUBSET Handles]
    /\ pcon \in [Handles -> {"fresh", "offered", "negotiated", "up", "down"}]
    /\ closing \subseteq {h \in Handles : pcon[h] # "down"}
    /\ known \in [Handles -> SUBSET Handles]

\* The references a publisher, a subscriber, a room or a session should have: one for each
\* pointer to it that lasts, and those of the threads.
Hanging(t) == th[t].pc \in {"hangup", "unsubscribe", "unfeed"} \/ (th[t].pc \in {"leave", "room"} /\ ~th[t].leaving)
One(b) == IF b THEN 1 ELSE 0
Feeds(h) == Cardinality({s \in Handles : sub[s].feed = h}) + One(cur.feed = h /\ th["handler"].pc \in {"append", "switch", "join", "joined"})
PublisherRefs(h) ==
    One(ptype[h] = "publisher" /\ ~pub[h].destroyed) + Cardinality({r \in Rooms : h \in participants[r]})
    + Feeds(h) + leaked[h] + One(At(h, "notify"))
    + Cardinality({t \in Threads \ {"api"} : th[t].p = h /\ th[t].pc \in {"unsubscribe", "leave", "room", "destroyed", "left"}})
    + One(cur.handle = h /\ th["handler"].pc \in {"configure", "push", "store", "failed", "update"})
    + One(cur.handle = h /\ cur.op = "unpublish" /\ (Hanging("handler") \/ At("handler", "unpublished")))
SubscriberRefs(h) ==
    One(ptype[h] = "subscriber" /\ ~sub[h].destroyed) + One(sub[h].room # 0 /\ ~sub[h].destroyed)
    + One(cur.handle = h /\ ptype[h] = "subscriber")
RoomRefs(r) ==
    One(r = current)
    + Cardinality({h \in Handles : pub[h].room = r}) + Cardinality({h \in Handles : sub[h].room = r /\ ~sub[h].destroyed})
    + Cardinality({t \in Threads : At(t, "room") /\ th[t].r = r})
    + One(~At("api", "idle") /\ th["api"].r = r)
    + One(th["handler"].pc \in {"publisher", "subscriber", "append"} /\ th["handler"].r = r)
SessionRefs(h) ==
    One(h \in sessions) + Cardinality({i \in DOMAIN messages : messages[i].handle = h}) + One(cur.handle = h) + Feeds(h)
    + One(th[h].pc \in {"setup", "notify"}) + One(th[h].next \in {"destroy", "destroyed"})
    + Cardinality({t \in Threads : th[t].s = h /\ Hanging(t) /\ th[t].next # "destroy"})

\* The counts are the references there are, so nothing is freed while it is used and what
\* nobody uses is freed.  Counted apart: the references that a refused offer never drops, and
\* those to a session or a room that a switch or a hangup drops twice; the count of a
\* subscriber is off only if its own hangup met its switch or its end.
RefsExact ==
    Alive =>
        /\ \A h \in Handles : /\ pub[h].ref = PublisherRefs(h)
                               /\ h \notin crossed => sub[h].ref = SubscriberRefs(h)
                               /\ vref[h] = SessionRefs(h) - dropped[h]
        /\ \A r \in Rooms : rref[r] = RoomRefs(r) - dropped[r]

\* A thread about to lock a feed it holds no reference to ("It is safe to use feed", says
\* the hangup) finds it allocated, unless the feed's session was destroyed and its hangup took
\* the feed from the subscriber meanwhile.
FeedsHeld ==
    \A t \in Threads, p \in Handles :
        \/ At(t, "unfeed") /\ th[t].p = p
        \/ At(t, "switch") /\ th[t].p = p
        \/ At(t, "attach") /\ cur.feed = p
        => pub[p].ref > 0 \/ (p \notin sessions /\ sub[th[t].s].feed # p)

\* A participant or its room is dereferenced while NULL only if the session or the room was
\* destroyed, or the participant kicked, during the request.
CrashesKnown ==
    \A t \in Threads : At(t, "crashed") =>
        LET s == th[t].s IN s \notin sessions \/ (pub[s].room = 0 /\ (pub[s].kicked \/ \E r \in Rooms : rdestroyed[r]))

\* Between requests a subscriber is allocated and in the list of its feed while it is in any,
\* and in no other; its feed lists it, unless the feed was being unpublished when it joined.
FeedsPaired ==
    \A s, p \in Handles : s \notin crossed /\ ~(cur.handle = s /\ At("handler", "joined")) =>
        /\ s \in pub[p].subscribers => sub[s].feed = p /\ sub[s].ref > 0
        /\ sub[s].feed = p => s \in pub[p].subscribers \union belated

\* A subscriber keeps a feed only while it is published, and a publisher a feed only while
\* its PeerConnection is not hung up, unless a hangup ran between the look and the store.
FeedsLive ==
    Quiet =>
        /\ \A s \in Handles : sub[s].feed # None => pub[sub[s].feed].sdp \/ s \in belated \union crossed
        /\ \A p \in Handles : pub[p].sdp => pcon[p] # "down" \/ p \in overtaken

\* Once all is quiet, a participant knows the feeds of the others that are up, and no others.
ViewsAgree ==
    Quiet /\ current # 0 =>
        \A p, q \in participants[current] \ late : p # q => (p \in known[q] <=> (pub[p].sdp /\ started[p]))

\* There are at most max_publishers feeds in a room whose limit was not lowered.
PublishersBounded ==
    \A r \in Rooms \ lowered : Cardinality({p \in participants[r] : pub[p].sdp}) <= max_publishers[r]

\* A session that is gone leaves no participant, unless it ended while it joined.
NoGhosts ==
    Quiet /\ current # 0 => participants[current] \subseteq sessions \union late

\* All of them: what the plugin keeps about feeds, subscribers and participants holds together.
FeedsSound ==
    RefsExact /\ FeedsHeld /\ CrashesKnown /\ FeedsPaired /\ FeedsLive /\ ViewsAgree /\ PublishersBounded /\ NoGhosts

=============================================================================
