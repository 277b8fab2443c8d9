------------------------------- MODULE MCCalls -------------------------------
(*****************************************************************************)
(* Instances of the VideoRoom and VideoCall plugins for TLC. The module      *)
(* extends the first and instantiates the second. They share no state: a     *)
(* behaviour picks one of them and runs it, the other stays in its initial   *)
(* state, so that their state spaces add up.                                 *)
(*****************************************************************************)
EXTENDS VideoRoom

CONSTANTS h1, h2, h3, u1, u2, u3

\* VideoCall: h1 is registered when h2 comes; or all are, and a callee may call another.
Names == {u1, u2, u3}
FirstNamed == [h \in Handles |-> IF h = h1 THEN u1 ELSE None]
AllNamed == [h \in Handles |-> CASE h = h1 -> u1 [] h = h2 -> u2 [] OTHER -> u3]
CallStarts ==
    { [names |-> FirstNamed, gone |-> {h3}, incidents |-> 1,
       requests |-> [h \in Handles |-> CASE h = h1 -> 1 [] h = h2 -> 2 [] OTHER -> 0]],
      [names |-> AllNamed, gone |-> {}, incidents |-> 1,
       requests |-> [h \in Handles |-> IF h = h1 THEN 2 ELSE 0]] }

\* What the clients of the VideoRoom ask, how many incidents happen, and max_publishers.
R(h, op, feed, flag) == [handle |-> h, op |-> op, feed |-> feed, flag |-> flag]
Join(h, offer) == R(h, "publisher", None, offer)
Script(requests, happenings, max) == [asks |-> requests, incidents |-> happenings, max |-> max]
VideoScripts ==
    { Script(<<Join(h1, TRUE), Join(h2, TRUE), R(h3, "subscriber", h1, TRUE), R(h3, "switch", h2, TRUE)>>, 1, 2),
      Script(<<Join(h1, TRUE), Join(h2, FALSE), R(h1, "unpublish", None, TRUE), R(h1, "publish", None, TRUE)>>, 1, 1),
      Script(<<Join(h1, TRUE), R(h3, "subscriber", h1, FALSE), R(h1, "configure", None, TRUE), R(h3, "leave", None, TRUE)>>, 1, 1),
      Script(<<Join(h1, TRUE), R(h3, "subscriber", h1, FALSE), R(h1, "unpublish", None, TRUE), R(h1, "publish", None, TRUE),
               R(h3, "switch", h1, TRUE)>>, 0, 1),
      Script(<<Join(h1, TRUE), R(h3, "subscriber", h1, TRUE), R(h3, "switch", h1, TRUE), R(h1, "unpublish", None, TRUE)>>, 1, 1),
      Script(<<Join(h1, TRUE), Join(h2, TRUE), R(h1, "leave", None, TRUE)>>, 1, 1),
      Script(<<Join(h1, TRUE), Join(h2, FALSE)>>, 2, 1) }

VARIABLES which,   \* the plugin that runs
          \* VideoCall
          vc_sessions, vc_life, vc_asked, vc_messages, vc_hpc, vc_msg, vc_answers, vc_username, vc_usernames,
          vc_peer, vc_incall, vc_hangingup, vc_hp, vc_cpc, vc_core, vc_destroying, vc_pcon, vc_closepc, vc_hanging,
          vc_requests, vc_incidents, vc_calls, vc_call, vc_told, vc_ghosts

Vc == INSTANCE VideoCall WITH
        Users <- Names, MaxRequests <- 2, MaxQueue <- 2, Starts <- CallStarts,
        sessions <- vc_sessions, life <- vc_life, asked <- vc_asked, messages <- vc_messages, hpc <- vc_hpc,
        msg <- vc_msg, answers <- vc_answers, username <- vc_username, usernames <- vc_usernames,
        peer <- vc_peer, incall <- vc_incall, hangingup <- vc_hangingup, hp <- vc_hp, cpc <- vc_cpc,
        core <- vc_core, destroying <- vc_destroying, pcon <- vc_pcon, closepc <- vc_closepc,
        hanging <- vc_hanging, requests <- vc_requests, incidents <- vc_incidents,
        calls <- vc_calls, call <- vc_call, told <- vc_told, ghosts <- vc_ghosts

vcVars == <<vc_sessions, vc_life, vc_asked, vc_messages, vc_hpc, vc_msg, vc_answers, vc_username, vc_usernames,
            vc_peer, vc_incall, vc_hangingup, vc_hp, vc_cpc, vc_core, vc_destroying, vc_pcon, vc_closepc, vc_hanging,
            vc_requests, vc_incidents, vc_calls, vc_call, vc_told, vc_ghosts>>
callsVars == <<which, vcVars, vars>>

CallsInit ==
    /\ which \in {"VideoCall", "VideoRoom"}
    /\ Vc!Init
    /\ Init
    /\ which # "VideoRoom" => incidents = 2
    /\ which # "VideoCall" => vc_life[h3] = "open"

VideoCallNext == which = "VideoCall" /\ Vc!Next /\ UNCHANGED <<which, vars>>
VideoRoomNext == which = "VideoRoom" /\ Next /\ UNCHANGED <<which, vcVars>>

CallsSpec == CallsInit /\ [][VideoCallNext \/ VideoRoomNext]_callsVars

-----------------------------------------------------------------------------
\* The variables of both plugins keep their types.
TypesOK ==
    /\ which = "VideoCall" => Vc!TypeOK
    /\ which = "VideoRoom" => TypeOK

\* janus_videocall.c: names are held, and a call's sessions stay paired until told.
CallsSound == which = "VideoCall" => Vc!CallsSound

\* janus_videoroom.c: references, subscriptions, what participants were told, and the limit
\* on publishers agree.
VideoRoomSound == which = "VideoRoom" => FeedsSound

\* janus_videocall.c: each request is answered once, in order, and dropped only when the
\* session was removed, as PluginSession says.
Implements == Vc!Implements
=============================================================================
