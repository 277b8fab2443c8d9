------------------------------ MODULE MCPlugins ------------------------------
(*****************************************************************************)
(* Instances of the EchoTest and TextRoom plugins for TLC. They share no     *)
(* state: a behaviour picks one of them and runs it, the other stays in its  *)
(* initial state, so that their state spaces add up.                         *)
(*****************************************************************************)
EXTENDS Naturals

CONSTANTS h1, h2, r1, r2, u1, u2, a1, id1, None

\* Named sets, which TLC evaluates once.
Single == {h1}
Pair == {h1, h2}
Recordings == {r1, r2}
Names == {u1, u2}
Apis == {a1}
Ids == {id1}

VARIABLES which,   \* the plugin that runs
          \* EchoTest
          et_sessions, et_life, et_ref, et_asked, et_messages, et_hpc, et_msg, et_answers, et_has_audio,
          et_hangingup, et_arc, et_cpc, et_core, et_destroying, et_rec_mutex, et_closing, et_rec, et_rpc, et_rp,
          et_frames,
          \* TextRoom
          tr_sessions, tr_life, tr_sessions_mutex, tr_asked, tr_messages, tr_hpc, tr_answers, tr_setup,
          tr_rooms, tr_made, tr_ref, tr_participants, tr_srooms, tr_pc, tr_req, tr_todo,
          tr_rooms_mutex, tr_session_mutex, tr_destroying, tr_ops, tr_late, tr_stray

Et == INSTANCE EchoTest WITH
        Handles <- Single, MaxRequests <- 2, Recorders <- Recordings, MaxFrames <- 3,
        sessions <- et_sessions, life <- et_life, ref <- et_ref, asked <- et_asked, messages <- et_messages,
        hpc <- et_hpc, msg <- et_msg, answers <- et_answers, has_audio <- et_has_audio,
        hangingup <- et_hangingup, arc <- et_arc, cpc <- et_cpc, core <- et_core, destroying <- et_destroying,
        rec_mutex <- et_rec_mutex, closing <- et_closing, rec <- et_rec, rpc <- et_rpc, rp <- et_rp,
        frames <- et_frames

\* One room of the configuration, which can be destroyed and created again.
Tr == INSTANCE TextRoom WITH
        Handles <- Pair, Apis <- Apis, RoomIds <- Ids, Users <- Names, Configured <- id1, MaxRequests <- 1,
        MaxOps <- 4, MaxRooms <- 2,
        sessions <- tr_sessions, life <- tr_life, sessions_mutex <- tr_sessions_mutex, asked <- tr_asked,
        messages <- tr_messages, hpc <- tr_hpc, answers <- tr_answers, setup <- tr_setup, rooms <- tr_rooms,
        made <- tr_made, ref <- tr_ref, participants <- tr_participants, srooms <- tr_srooms,
        pc <- tr_pc, req <- tr_req, todo <- tr_todo,
        rooms_mutex <- tr_rooms_mutex, session_mutex <- tr_session_mutex, destroying <- tr_destroying,
        ops <- tr_ops, late <- tr_late, stray <- tr_stray

etVars == <<et_sessions, et_life, et_ref, et_asked, et_messages, et_hpc, et_msg, et_answers, et_has_audio,
            et_hangingup, et_arc, et_cpc, et_core, et_destroying, et_rec_mutex, et_closing, et_rec, et_rpc,
            et_rp, et_frames>>
trVars == <<tr_sessions, tr_life, tr_sessions_mutex, tr_asked, tr_messages, tr_hpc, tr_answers, tr_setup,
            tr_rooms, tr_made, tr_ref, tr_participants, tr_srooms, tr_pc, tr_req, tr_todo,
            tr_rooms_mutex, tr_session_mutex, tr_destroying, tr_ops, tr_late, tr_stray>>
pluginsVars == <<which, etVars, trVars>>

PluginsInit ==
    /\ which \in {"EchoTest", "TextRoom"}
    /\ Et!Init
    /\ Tr!Init

EchoTestNext == which = "EchoTest" /\ Et!Next /\ UNCHANGED <<which, trVars>>
TextRoomNext == which = "TextRoom" /\ Tr!Next /\ UNCHANGED <<which, etVars>>

\* The fairness of each plugin, when it is the one that runs.
Fairness ==
    /\ SF_etVars(which = "EchoTest" /\ Et!janus_echotest_handler)
    /\ WF_etVars(which = "EchoTest" /\ Et!CoreSteps)
    /\ WF_etVars(which = "EchoTest" /\ Et!RtpSteps)
    /\ WF_trVars(which = "TextRoom" /\ Tr!janus_textroom_handler)
    /\ \A t \in {h1, h2, a1} : WF_trVars(which = "TextRoom" /\ Tr!Step(t))

PluginsSpec == PluginsInit /\ [][EchoTestNext \/ TextRoomNext]_pluginsVars /\ Fairness

-----------------------------------------------------------------------------
\* The variables of both plugins keep their types.
TypesOK ==
    /\ which = "EchoTest" => Et!TypeOK
    /\ which = "TextRoom" => Tr!TypeOK

\* janus_echotest.c and record.c: references are exact and recordings well formed;
\* janus_textroom.c: sessions and rooms agree on who is in which room.
PluginsSound ==
    /\ which = "EchoTest" => Et!RefsExact /\ Et!RecordingWellFormed
    /\ which = "TextRoom" => Tr!RoomsSound

\* Both plugins answer each request once, in order, and drop it only when the session
\* was removed: each implements PluginSession.
Implements == Et!Implements /\ Tr!Implements

\* record.c: a recording that was closed never changes.
RecordingFinal == Et!RecordingFinal

\* janus_echotest.c and janus_textroom.c: every request is settled.
RequestsSettled == Et!RequestsSettled /\ Tr!RequestsSettled
=============================================================================
