------------------------------ MODULE TextRoom ------------------------------
(***************************************************************************)
(* The TextRoom plugin (plugins/janus_textroom.c): participants join rooms *)
(* and write to each other over data channels, rooms are created, edited   *)
(* and destroyed through data channels or the Janus API.                   *)
(*                                                                         *)
(* The loop of a handle runs its data channel requests, its hangups and    *)
(* its destroy_session one after the other; other threads run requests of  *)
(* the Janus API meanwhile.  A room's mutex and rooms_mutex are never held *)
(* while waiting for anything but another room's or session's mutex, so    *)
(* only three places wait with a lock held and take more than one step: a  *)
(* request that has found its room, a "destroy", and a hangup.             *)
(*                                                                         *)
(* What rooms are called, whether they are kept in the configuration file, *)
(* who may do what (the outcome of a check of a pin or secret is a choice) *)
(* and the texts themselves are left out.                                  *)
(***************************************************************************)
EXTENDS Naturals, Sequences, FiniteSets, FiniteSetsExt

CONSTANTS Handles, Apis,      \* loops of the handles; threads of the Janus API
          RoomIds, Users,
          Configured,         \* id of the room that the configuration has, if any
          MaxRequests,        \* bound: asynchronous requests per handle
          MaxOps, MaxRooms,   \* bounds: requests and hangups in all; rooms ever created
          None

VARIABLES sessions, life,               \* handles in the table; "new", "open", "destroyed"
          sessions_mutex,               \* the loop that holds it while it hangs up
          asked, messages, hpc, answers, setup,
          rooms,                        \* the table: the room of an id
          made, ref,                    \* rooms created so far; references to each
          participants,                 \* of a room: the handle of each username
          srooms,                       \* session->rooms: the room and username for each id
          pc, req, todo,                \* of a thread: where it is, its request, what is left to do
          rooms_mutex, session_mutex,
          destroying,                   \* loops whose hangup is part of destroy_session
          ops,                          \* requests and hangups so far
          late, stray                   \* history: ids of rooms joined once destroyed; requests that
                                        \* were relayed to a participant without a session

queueVars == <<asked, messages, hpc, answers, setup>>
roomVars == <<rooms, made, ref, participants, srooms, late, stray>>
lockVars == <<sessions_mutex, rooms_mutex, session_mutex>>
threadVars == <<pc, req, todo, destroying>>
vars == <<sessions, life, queueVars, roomVars, lockVars, threadVars, ops>>

Threads == Handles \union Apis
Rooms == 1 .. MaxRooms
Entry == [room : Rooms, user : Users]
NoRequest == [op |-> "none", id |-> None, user |-> None, room |-> None]

\* Requests that look their room up, drop rooms_mutex and wait for the room's mutex.
Lookups == {"message", "announcement", "join", "leave"}

Init ==
    /\ sessions = {} /\ life = [h \in Handles |-> "new"] /\ sessions_mutex = None
    /\ asked = [h \in Handles |-> 0] /\ messages = <<>> /\ hpc = "pop"
    /\ answers = [h \in Handles |-> <<>>] /\ setup = {}
    /\ made = IF Configured \in RoomIds THEN 1 ELSE 0
    /\ rooms = [id \in RoomIds |-> IF id = Configured THEN 1 ELSE None]
    /\ ref = [r \in Rooms |-> IF r <= made THEN 1 ELSE 0]
    /\ participants = [r \in Rooms |-> [u \in Users |-> None]]
    /\ srooms = [h \in Handles |-> [id \in RoomIds |-> None]]
    /\ pc = [t \in Threads |-> "idle"] /\ req = [t \in Threads |-> NoRequest]
    /\ todo = [t \in Threads |-> {}] /\ destroying = {}
    /\ rooms_mutex = None /\ session_mutex = [h \in Handles |-> None]
    /\ ops = 0 /\ late = {} /\ stray = {}

-----------------------------------------------------------------------------
(* Sessions.                                                               *)

create_session(h) ==
    /\ life[h] = "new" /\ sessions_mutex = None
    /\ life' = [life EXCEPT ![h] = "open"] /\ sessions' = sessions \union {h}
    /\ UNCHANGED <<queueVars, roomVars, lockVars, threadVars, ops>>

\* "setup", "restart" and "ack" are queued for the handler thread.
handle_message(h) ==
    /\ h \in sessions /\ sessions_mutex = None /\ asked[h] < MaxRequests /\ ops < MaxOps
    /\ ops' = ops + 1
    /\ asked' = [asked EXCEPT ![h] = @ + 1]
    /\ messages' = Append(messages, [handle |-> h, n |-> asked[h] + 1, done |-> FALSE])
    /\ UNCHANGED <<sessions, life, hpc, answers, setup, roomVars, lockVars, threadVars>>

HandlerPop ==
    /\ hpc = "pop" /\ messages # <<>> /\ sessions_mutex = None
    /\ IF Head(messages).handle \in sessions
         THEN hpc' = "handle" /\ UNCHANGED messages
         ELSE messages' = Tail(messages) /\ UNCHANGED hpc
    /\ UNCHANGED <<sessions, life, asked, answers, setup, roomVars, lockVars, threadVars, ops>>

\* A "setup" comes first and only once, and a "restart" after it, or they are errors.
HandlerAnswer ==
    /\ hpc = "handle" /\ hpc' = "free"
    /\ LET m == Head(messages)
       IN  /\ answers' = [answers EXCEPT ![m.handle] = Append(@, m.n)]
           /\ setup' \in {setup, setup \union {m.handle}}
    /\ messages' = [messages EXCEPT ![1].done = TRUE]
    /\ UNCHANGED <<sessions, life, asked, roomVars, lockVars, threadVars, ops>>

HandlerFree ==
    /\ hpc = "free" /\ hpc' = "pop" /\ messages' = Tail(messages)
    /\ UNCHANGED <<sessions, life, asked, answers, setup, roomVars, lockVars, threadVars, ops>>

-----------------------------------------------------------------------------
(* janus_textroom_handle_incoming_request, for a message of a data channel *)
(* or, without the requests of a participant, for one of the Janus API.    *)

MayAsk(t, op) ==
    /\ pc[t] = "idle" /\ rooms_mutex = None /\ ops < MaxOps
    /\ \/ t \in sessions
       \/ t \in Apis /\ op \notin {"message", "join", "leave", "allowed"}

Asked == ops' = ops + 1

\* A reference of a room goes; the last one frees it, with its table of participants.
Unref(r, refs) == [refs EXCEPT ![r] = @ - 1]

\* What `stray` becomes when the participants H are sent something by an `op`.
Sent(op, H) == IF H \subseteq sessions \union {None} THEN stray ELSE stray \union {op}
Everyone(r) == {participants[r][u] : u \in Users}

\* "list", "listparticipants", "exists", "allowed" and "edit" change nothing modelled here,
\* and neither does a request that is refused or does not find its room.
RequestOther(t, op) ==
    /\ MayAsk(t, op) /\ Asked
    /\ UNCHANGED <<sessions, life, queueVars, roomVars, lockVars, threadVars>>

RequestCreate(t, id) ==
    /\ MayAsk(t, "create") /\ Asked /\ rooms[id] = None /\ made < MaxRooms
    /\ made' = made + 1
    /\ rooms' = [rooms EXCEPT ![id] = made + 1] /\ ref' = [ref EXCEPT ![made + 1] = 1]
    /\ UNCHANGED <<sessions, life, queueVars, participants, srooms, late, stray, lockVars, threadVars>>

\* Everyone in the room is told, and the participant leaves both tables.
RequestKick(t, id, user) ==
    /\ MayAsk(t, "kick") /\ Asked /\ rooms[id] # None
    /\ LET r == rooms[id]
           h == participants[r][user]
       IN  /\ h # None
           /\ stray' = Sent("kick", Everyone(r))
           /\ srooms' = [srooms EXCEPT ![h][id] = None]
           /\ participants' = [participants EXCEPT ![r][user] = None]
    /\ UNCHANGED <<sessions, life, queueVars, rooms, made, ref, late, lockVars, threadVars>>

\* The room is found and referred to; its mutex is taken later.
FindRoom(t, op, id, user) ==
    /\ pc' = [pc EXCEPT ![t] = "room"]
    /\ req' = [req EXCEPT ![t] = [op |-> op, id |-> id, user |-> user, room |-> rooms[id]]]
    /\ ref' = [ref EXCEPT ![rooms[id]] = @ + 1]

RequestLookup(t, op, id, user) ==
    /\ MayAsk(t, op) /\ Asked /\ op \in Lookups /\ rooms[id] # None
    /\ op = "join" <=> user # None
    /\ FindRoom(t, op, id, user)
    /\ UNCHANGED <<sessions, life, queueVars, rooms, made, participants, srooms, late, stray,
                   lockVars, todo, destroying>>

\* A room's mutex is held across steps only by a "destroy".
RoomLocked(r) == \E t \in Threads : pc[t] = "destroy" /\ req[t].room = r

\* The request is over; a hangup goes on to the next room it leaves.
Finish(t) ==
    /\ pc' = [pc EXCEPT ![t] = IF t \in Handles /\ sessions_mutex = t THEN "leave" ELSE "idle"]
    /\ req' = [req EXCEPT ![t] = NoRequest]
    /\ UNCHANGED <<todo, destroying>>

AtRoom(t, op) == pc[t] = "room" /\ req[t].op = op /\ ~RoomLocked(req[t].room)

\* The message goes to the participants of the room there are now, all of them or those it
\* names, or to nobody if the sender has no participant for that id or the secret is wrong.
Relay(t) ==
    /\ AtRoom(t, "message") \/ AtRoom(t, "announcement")
    /\ \E H \in SUBSET Everyone(req[t].room) :
         /\ req[t].op = "message" /\ srooms[t][req[t].id] = None => H = {}
         /\ stray' = Sent(req[t].op, H)
    /\ ref' = Unref(req[t].room, ref)
    /\ Finish(t)
    /\ UNCHANGED <<sessions, life, queueVars, rooms, made, participants, srooms, late, lockVars, ops>>

JoinRefused(t) ==
    /\ AtRoom(t, "join")
    /\ ref' = Unref(req[t].room, ref)
    /\ Finish(t)
    /\ UNCHANGED <<sessions, life, queueVars, rooms, made, participants, srooms, late, stray, lockVars, ops>>

\* Whether the room was destroyed meanwhile is not looked at; everyone in it is told.
Join(t) ==
    /\ AtRoom(t, "join")
    /\ LET r == req[t].room
           id == req[t].id
           user == req[t].user
       IN  /\ srooms[t][id] = None /\ participants[r][user] = None
           /\ srooms' = [srooms EXCEPT ![t][id] = [room |-> r, user |-> user]]
           /\ participants' = [participants EXCEPT ![r][user] = t]
           /\ ref' = Unref(r, ref)
           /\ late' = IF rooms[id] = r THEN late ELSE late \union {id}
           /\ stray' = Sent("join", Everyone(r))
    /\ Finish(t)
    /\ UNCHANGED <<sessions, life, queueVars, rooms, made, lockVars, ops>>

\* Mutant: the participant stays in the table of the room.
LeaveHalf(t) ==
    /\ AtRoom(t, "leave")
    /\ srooms' = [srooms EXCEPT ![t][req[t].id] = None]
    /\ ref' = Unref(req[t].room, ref)
    /\ Finish(t)
    /\ UNCHANGED <<sessions, life, queueVars, rooms, made, participants, late, stray, lockVars, ops>>

\* The participant found in session->rooms leaves, the room forgets its username and the
\* others are told.
Leave(t) ==
    /\ AtRoom(t, "leave")
    /\ LET r == req[t].room
           p == srooms[t][req[t].id]
       IN  /\ IF p = None
                THEN UNCHANGED <<srooms, participants, stray>>
                ELSE /\ stray' = Sent("leave", Everyone(r) \ {participants[r][p.user]})
                     /\ srooms' = [srooms EXCEPT ![t][req[t].id] = None]
                     /\ participants' = [participants EXCEPT ![r][p.user] = None]
           /\ ref' = Unref(r, ref)
    /\ Finish(t)
    /\ UNCHANGED <<sessions, life, queueVars, rooms, made, late, lockVars, ops>>

-----------------------------------------------------------------------------
(* "destroy": the room leaves the table, then its participants lose it one *)
(* by one, each with its session's mutex taken while rooms_mutex and the   *)
(* room's mutex are held.                                                  *)

RequestDestroy(t, id) ==
    /\ MayAsk(t, "destroy") /\ Asked /\ rooms[id] # None
    /\ LET r == rooms[id]
       IN  /\ req' = [req EXCEPT ![t] = [op |-> "destroy", id |-> id, user |-> None, room |-> r]]
           /\ todo' = [todo EXCEPT ![t] = {participants[r][u] : u \in Users} \ {None}]
    /\ rooms_mutex' = t /\ pc' = [pc EXCEPT ![t] = "destroy"]
    /\ rooms' = [rooms EXCEPT ![id] = None]
    /\ UNCHANGED <<sessions, life, queueVars, made, ref, participants, srooms, late, stray,
                   sessions_mutex, session_mutex, destroying>>

DestroyParticipant(t, h) ==
    /\ pc[t] = "destroy" /\ h \in todo[t] /\ session_mutex[h] = None
    /\ stray' = Sent("destroy", {h})
    /\ srooms' = [srooms EXCEPT ![h][req[t].id] = None]
    /\ todo' = [todo EXCEPT ![t] = @ \ {h}]
    /\ UNCHANGED <<sessions, life, queueVars, rooms, made, ref, participants, late,
                   lockVars, pc, req, destroying, ops>>

\* The reference of the table, which went with the room, is let go with the request's own.
DestroyEnd(t) ==
    /\ pc[t] = "destroy" /\ todo[t] = {}
    /\ rooms_mutex' = None /\ ref' = Unref(req[t].room, ref)
    /\ Finish(t)
    /\ UNCHANGED <<sessions, life, queueVars, rooms, made, participants, srooms, late, stray,
                   sessions_mutex, session_mutex, ops>>

-----------------------------------------------------------------------------
(* janus_textroom_hangup_media_internal, called with sessions_mutex held   *)
(* by hangup_media and by destroy_session.                                 *)

hangup_media(h, destroy) ==
    /\ h \in sessions /\ pc[h] = "idle" /\ sessions_mutex = None /\ session_mutex[h] = None
    /\ destroy \/ ops < MaxOps
    /\ ops' = IF destroy THEN ops ELSE ops + 1
    /\ sessions_mutex' = h /\ session_mutex' = [session_mutex EXCEPT ![h] = h]
    /\ destroying' = IF destroy THEN destroying \union {h} ELSE destroying
    /\ pc' = [pc EXCEPT ![h] = "collect"]
    /\ UNCHANGED <<sessions, life, queueVars, roomVars, rooms_mutex, req, todo>>

\* The ids of the rooms are read from the rooms themselves, rooms_mutex taken while the
\* session's mutex is held.  A room that is freed already may say anything.
HangupCollect(h) ==
    /\ pc[h] = "collect" /\ rooms_mutex = None
    /\ LET in == {id \in RoomIds : srooms[h][id] # None}
           kept == {id \in in : ref[srooms[h][id].room] > 0}
       IN  \E ids \in SUBSET RoomIds : kept \subseteq ids /\ (in = kept => ids = kept) /\ todo' = [todo EXCEPT ![h] = ids]
    /\ session_mutex' = [session_mutex EXCEPT ![h] = None]
    /\ pc' = [pc EXCEPT ![h] = "leave"]
    /\ UNCHANGED <<sessions, life, queueVars, roomVars, sessions_mutex, rooms_mutex, req, destroying, ops>>

\* A "leave" is run for each of them.
HangupLeave(h, id) ==
    /\ pc[h] = "leave" /\ id \in todo[h] /\ rooms_mutex = None
    /\ todo' = [todo EXCEPT ![h] = @ \ {id}]
    /\ IF rooms[id] # None THEN FindRoom(h, "leave", id, None) ELSE UNCHANGED <<pc, req, ref>>
    /\ UNCHANGED <<sessions, life, queueVars, rooms, made, participants, srooms, late, stray,
                   lockVars, destroying, ops>>

HangupEnd(h) ==
    /\ pc[h] = "leave" /\ todo[h] = {}
    /\ sessions_mutex' = None /\ pc' = [pc EXCEPT ![h] = "idle"]
    /\ IF h \in destroying
         THEN /\ sessions' = sessions \ {h} /\ life' = [life EXCEPT ![h] = "destroyed"]
              /\ destroying' = destroying \ {h}
         ELSE UNCHANGED <<sessions, life, destroying>>
    /\ UNCHANGED <<queueVars, roomVars, rooms_mutex, session_mutex, req, todo, ops>>

-----------------------------------------------------------------------------
janus_textroom_handler == HandlerPop \/ HandlerAnswer \/ HandlerFree

handle_incoming_request(t) ==
    \/ \E op \in {"list", "listparticipants", "exists", "allowed", "edit"} : RequestOther(t, op)
    \/ \E id \in RoomIds :
         \/ RequestCreate(t, id) \/ RequestDestroy(t, id)
         \/ \E user \in Users : RequestKick(t, id, user)
         \/ \E op \in Lookups, user \in Users \union {None} : RequestLookup(t, op, id, user)

\* What a thread does once it has begun.
Step(t) ==
    \/ Relay(t) \/ JoinRefused(t) \/ Join(t) \/ Leave(t)
    \/ \E h \in Handles : DestroyParticipant(t, h)
    \/ DestroyEnd(t)
    \/ /\ t \in Handles
       /\ HangupCollect(t) \/ (\E id \in RoomIds : HangupLeave(t, id)) \/ HangupEnd(t)

Next ==
    \/ \E h \in Handles :
         \/ create_session(h) \/ handle_message(h)
         \/ \E destroy \in BOOLEAN : hangup_media(h, destroy)
    \/ janus_textroom_handler
    \/ \E t \in Threads : handle_incoming_request(t) \/ Step(t)

\* Threads that run go on, as far as the locks let them.
Fairness == WF_vars(janus_textroom_handler) /\ \A t \in Threads : WF_vars(Step(t))

Spec == Init /\ [][Next]_vars /\ Fairness

-----------------------------------------------------------------------------
TypeOK ==
    /\ sessions \subseteq Handles /\ life \in [Handles -> {"new", "open", "destroyed"}]
    /\ sessions_mutex \in Handles \union {None} /\ rooms_mutex \in Threads \union {None}
    /\ session_mutex \in [Handles -> Handles \union {None}]
    /\ asked \in [Handles -> 0 .. MaxRequests] /\ hpc \in {"pop", "handle", "free"}
    /\ messages \in Seq([handle : Handles, n : 1 .. MaxRequests, done : BOOLEAN])
    /\ answers \in [Handles -> Seq(1 .. MaxRequests)] /\ setup \subseteq Handles
    /\ rooms \in [RoomIds -> Rooms \union {None}] /\ made \in 0 .. MaxRooms
    /\ ref \in [Rooms -> 0 .. 1 + Cardinality(Threads)]
    /\ participants \in [Rooms -> [Users -> Handles \union {None}]]
    /\ srooms \in [Handles -> [RoomIds -> Entry \union {None}]]
    /\ late \subseteq RoomIds /\ stray \subseteq Lookups \union {"kick", "destroy"}
    /\ pc \in [Threads -> {"idle", "room", "destroy", "collect", "leave"}]
    /\ req \in [Threads -> [op : Lookups \union {"none", "destroy"}, id : RoomIds \union {None},
                            user : Users \union {None}, room : Rooms \union {None}]]
    /\ destroying \subseteq Handles /\ ops \in 0 .. MaxOps

\* A room is referred to by the table and by the requests that found it, and by nobody
\* else: it stays while either has it, and goes with the last.
RefsExact ==
    \A r \in Rooms :
        ref[r] = Cardinality({id \in RoomIds : rooms[id] = r}) + Cardinality({t \in Threads : req[t].room = r})

\* Whoever is in the table of a room that exists has a session, which knows the room and
\* the name; a "destroy" takes the room from sessions that are still there; and a session
\* is in no room but those that exist or that are being taken from it, unless it joined a
\* room that was destroyed between the two locks of the join.  Therefore kicks, leaves,
\* destroys and the messages of participants are relayed to sessions that are there,
\* whatever runs meanwhile.  An announcement or a join that found its room before a
\* "destroy" is not: the room keeps its participants, whose sessions may have gone.
RoomsSound ==
    /\ RefsExact
    /\ stray \subseteq {"announcement", "join"}
    /\ \A t \in Threads : pc[t] = "destroy" => todo[t] \subseteq sessions
    /\ \A id \in RoomIds, u \in Users :
         LET r == rooms[id]  h == participants[r][u]
         IN  (r # None /\ h # None) => h \in sessions /\ srooms[h][id] = [room |-> r, user |-> u]
    /\ \A id \in RoomIds \ late, h \in Handles :
         LET e == srooms[h][id]
         IN  e # None =>
               \/ e.room = rooms[id] /\ participants[e.room][e.user] = h
               \/ \E t \in Threads : pc[t] = "destroy" /\ h \in todo[t] /\ req[t].room = e.room

\* The two orders in which a session's mutex and rooms_mutex are taken, one inside the
\* other: a hangup has the first and waits for the second, a "destroy" the other way.
Inverted ==
    \E h \in Handles, t \in Threads :
        pc[h] = "collect" /\ pc[t] = "destroy" /\ rooms_mutex = t /\ h \in todo[t]

\* Every request for a room, hangup and destroy_session ends, and every asynchronous
\* request is settled, unless a hangup and a "destroy" wait for each other: again
\* and again nothing is left to do.
RequestsSettled ==
    []<>(Inverted \/ (messages = <<>> /\ \A t \in Threads : pc[t] = "idle"))

PS == INSTANCE PluginSession WITH
        life <- [h \in Handles |->
                   IF life[h] # "destroyed" THEN life[h]
                   ELSE IF \E i \in 1 .. Len(messages) : messages[i].handle = h THEN "removed" ELSE "freed"],
        pending <- messages

\* The plugin does what every plugin promises the core.
Implements == PS!Spec
=============================================================================
