--------------------------- MODULE PeerConnection ---------------------------
(***************************************************************************)
(* The PeerConnection of one handle: offers and answers, trickled          *)
(* candidates, hangups and the detach, as janus.c and ice.c handle them.   *)
(*                                                                         *)
(* Who is at it: tasks that serve messages with a JSEP, the requests       *)
(* thread (trickles, hangups, detach), threads of the plugin (answers,     *)
(* offers, close_pc, end_session), the watchdog (the callbacks of the last *)
(* two) and the handle's event loop, which runs the callbacks of libnice   *)
(* and DTLS and takes messages from queued_packets. What they share is     *)
(* webrtc_flags, which is read and written without a lock, the queue, and  *)
(* what handle->mutex protects: the agent, its stream and the candidates.  *)
(*                                                                         *)
(* A step is what a thread does between two accesses to something another  *)
(* thread may change in between. The one handle is enough: nothing of this *)
(* is shared between handles.                                              *)
(***************************************************************************)
EXTENDS Integers, Sequences, FiniteSets

CONSTANTS
    Tasks,                  \* threads of the pool that serves messages
    Plug, Req, Wd, Loop,    \* a plugin's thread, the requests thread, the watchdog, the loop
    NoThread,
    FullTrickle,            \* janus_full_trickle_enabled
    SetupErrors,            \* how janus_ice_setup_local may fail after the agent exists
    Inputs,                 \* which requests and calls of the plugin there are in this model
    MaxInputs               \* and how many of them: a bound of the model

Threads == Tasks \cup {Plug, Req, Wd, Loop}
FlagNames == {"PROCESSING_OFFER", "READY", "STOP", "ALERT", "NEGOTIATED",
              "CLEANING", "GOT_OFFER", "GOT_ANSWER", "HAS_AGENT"}

ASSUME ThreadsAssumption ==
    /\ Plug \notin {Req, Wd, Loop} /\ Req \notin {Wd, Loop} /\ Wd # Loop
    /\ Tasks \cap {Plug, Req, Wd, Loop} = {}
    /\ NoThread \notin Threads
ASSUME OptionsAssumption ==
    /\ FullTrickle \in BOOLEAN
    /\ SetupErrors \subseteq {"gathering", "dtls"}
    /\ Inputs \subseteq {"offer", "trickle", "hangup", "detach", "plugin_offer", "close_pc", "end_session"}
    /\ MaxInputs \in Nat

VARIABLES
    flags,          \* the flags set in handle->webrtc_flags
    mutex,          \* the owner of handle->mutex
    closepc,        \* handle->closepc
    agent,          \* handle->agent and handle->stream: none, ok, or failed in its setup
    remote,         \* the stream has the peer's credentials
    cdone,          \* local candidates: none, being gathered, or done (handle->cdone > 0)
    candidates,     \* component->candidates has some that the loop was not given
    process_started, \* the loop was given the candidates there were
    queued_candidates, \* the queue is not empty
    connected,      \* component_connected
    dtls,           \* the state of the handshake
    pending_trickles, \* there are some
    queue,          \* the control messages in queued_packets
    destroyed,      \* handle->destroyed
    app,            \* the plugin session: alive, stopped, detached
    media,          \* calls of setup_media since the last hangup_media
    loop,           \* the loop: running, quit, ended
    removed,        \* a handler of this dispatch returned G_SOURCE_REMOVE
    closing, ending, \* close_pc and end_session sources of the watchdog
    toanswer,       \* the plugin was given an offer it has not answered
    offered,        \* the peer was sent an offer it has not answered
    lost,           \* history: the messages the first selected pair cleared from the queue;
                    \* but for a detach, of the current PeerConnection
    at,             \* what a thread is at: its next step, the type of its SDP, whether that is
                    \* an update, and the step that follows a call of janus_ice_webrtc_hangup
    inputs          \* how many inputs there were

shared == <<flags, mutex, closepc>>
ice == <<agent, remote, cdone, candidates, process_started, queued_candidates, connected, dtls>>
handle == <<destroyed, app, media, loop, removed>>
outside == <<closing, ending, toanswer, offered, lost>>
vars == <<shared, ice, pending_trickles, queue, handle, outside, at, inputs>>

\* The messages whose loss is recorded.
Losable == {"hangup", "candidates", "detach"}
Is(f) == f \in flags
Idle == [step |-> "idle", jsep |-> "offer", update |-> FALSE, ret |-> "idle"]
Step(p) == at[p].step
Begin(p, l, type, upd) == at' = [at EXCEPT ![p] = [step |-> l, jsep |-> type, update |-> upd, ret |-> "idle"]]
Goto(p, l) == at' = [at EXCEPT ![p] = IF l = "idle" THEN Idle ELSE [@ EXCEPT !.step = l]]
Return(p) == at' = [at EXCEPT ![p] = IF at[p].ret = "idle" THEN Idle
                                     ELSE [@ EXCEPT !.step = at[p].ret, !.ret = "idle"]]
Call(p, l, back) == at' = [at EXCEPT ![p] = [@ EXCEPT !.step = l, !.ret = back]]
Arrives(kind) == kind \in Inputs /\ inputs < MaxInputs /\ inputs' = inputs + 1
PushFront(m) == <<m>> \o queue
Unlocked == mutex = NoThread

-----------------------------------------------------------------------------
(* janus_ice_webrtc_hangup: a thread that calls it looks at ALERT, sets it, and   *)
(* then sets the other flags and messages the loop.                              *)

Hangup(p, back) ==
    /\ closepc' = FALSE
    /\ IF Is("ALERT") THEN Goto(p, back) ELSE Call(p, "hangup_alert", back)

HangupAlert(p) ==
    /\ Step(p) = "hangup_alert"
    /\ flags' = flags \cup {"ALERT"}
    /\ Goto(p, "hangup_push")
    /\ UNCHANGED <<mutex, closepc, ice, pending_trickles, queue, handle, outside, inputs>>

HangupPush_NoMessage(p) ==
    /\ Step(p) = "hangup_push"
    /\ flags' = (flags \cup {"CLEANING"}) \ {"GOT_OFFER", "GOT_ANSWER", "NEGOTIATED"}
    /\ Return(p)
    /\ UNCHANGED <<mutex, closepc, ice, pending_trickles, queue, handle, outside, inputs>>
HangupPush(p) ==
    /\ Step(p) = "hangup_push"
    /\ flags' = (flags \cup {"CLEANING"}) \ {"GOT_OFFER", "GOT_ANSWER", "NEGOTIATED"}
    /\ queue' = PushFront("hangup")
    /\ Return(p)
    /\ UNCHANGED <<mutex, closepc, ice, pending_trickles, handle, outside, inputs>>

-----------------------------------------------------------------------------
(* janus_ice_setup_local, by a task or a plugin's thread that holds the mutex.   *)

SetupFlags_NoCheck(p) ==
    /\ Step(p) = "setup_flags"
    /\ closepc' = FALSE
    /\ flags' = (flags \cup {"HAS_AGENT"}) \ {"NEGOTIATED", "READY", "STOP", "ALERT"}
    /\ Goto(p, "setup_agent")
    /\ UNCHANGED <<mutex, ice, pending_trickles, queue, handle, outside, inputs>>
SetupFlags(p) ==
    /\ Step(p) = "setup_flags"
    /\ IF Is("HAS_AGENT")
       THEN Goto(p, "setup_error") /\ UNCHANGED <<flags, closepc>>
       ELSE /\ closepc' = FALSE
            /\ flags' = (flags \cup {"HAS_AGENT"}) \ {"NEGOTIATED", "READY", "STOP", "ALERT"}
            /\ Goto(p, "setup_agent")
    /\ UNCHANGED <<mutex, ice, pending_trickles, queue, handle, outside, inputs>>

\* What comes after a setup that went well: a task goes on with the SDP, the
\* plugin's thread unlocks and waits for the local candidates.
SetupDone(p) ==
    IF p = Plug THEN Goto(p, "gather") /\ mutex' = NoThread
                ELSE Goto(p, "process") /\ UNCHANGED mutex

SetupAgent(p) ==
    /\ Step(p) = "setup_agent"
    /\ remote' = FALSE /\ candidates' = FALSE /\ process_started' = FALSE
    /\ connected' = FALSE /\ dtls' = "none"
    /\ \/ /\ agent' = "ok"
          /\ cdone' = IF FullTrickle THEN "none" ELSE "gathering"
          /\ queue' = IF FullTrickle THEN PushFront("gather") ELSE queue
          /\ flags' = flags \ {"CLEANING"}
          /\ SetupDone(p)
          /\ UNCHANGED closepc
       \/ /\ \E e \in SetupErrors : e = "gathering" => ~FullTrickle
          /\ agent' = "failed"
          /\ cdone' = "none"
          /\ flags' = flags \ {"CLEANING", "HAS_AGENT"}
          /\ Hangup(p, "setup_error")
          /\ UNCHANGED <<queue, mutex>>
    /\ UNCHANGED <<queued_candidates, pending_trickles, handle, outside, inputs>>

\* The caller gives up: a task also takes back that an offer is being processed.
SetupError(p) ==
    /\ Step(p) = "setup_error"
    /\ mutex' = NoThread
    /\ flags' = IF p = Plug THEN flags ELSE flags \ {"PROCESSING_OFFER"}
    /\ Goto(p, "idle")
    /\ UNCHANGED <<closepc, ice, pending_trickles, queue, handle, outside, inputs>>

-----------------------------------------------------------------------------
(* Remote candidates. janus_ice_setup_remote_candidates gives the loop all there *)
(* are, once; janus_ice_add_remote_candidate one more. Further add_candidates    *)
(* messages in a row do nothing, and are one here.                               *)

PushCandidates == IF queue # <<>> /\ Head(queue) = "candidates" THEN queue ELSE PushFront("candidates")

\* The loop is given the listed candidates, unless it was before, and one just trickled.
Forward_Once(listed) ==
    /\ candidates' = (listed /\ process_started)
    /\ process_started' = TRUE
    /\ queued_candidates' = TRUE
    /\ queue' = IF process_started THEN queue ELSE PushCandidates
Forward(listed) ==
    /\ candidates' = (listed /\ process_started)
    /\ process_started' = TRUE
    /\ queued_candidates' = TRUE
    /\ queue' = PushCandidates

\* janus_ice_setup_remote_candidates
SetupRemoteCandidates(listed) ==
    IF listed /\ ~process_started
    THEN Forward(listed)
    ELSE candidates' = listed /\ UNCHANGED <<process_started, queued_candidates, queue>>

\* janus_request_ice_handle_answer: pending trickles are parsed, now that no offer is
\* being processed (or dropped, when too old), and ICE starts with the candidates
\* there are.
HandleAnswer(listed) ==
    /\ flags' = flags \ {"PROCESSING_OFFER"}
    /\ pending_trickles' = FALSE
    /\ \/ pending_trickles /\ Forward(listed)
       \/ SetupRemoteCandidates(listed)

\* The trickle request, for a candidate. The two checks come before the lock.
Trickle ==
    /\ Step(Req) = "idle" /\ ~destroyed
    /\ app = "alive" /\ ~Is("CLEANING")
    /\ Arrives("trickle")
    /\ Goto(Req, "trickle")
    /\ UNCHANGED <<shared, ice, pending_trickles, queue, handle, outside>>

TrickleLocked ==
    /\ Step(Req) = "trickle" /\ Unlocked
    /\ IF agent = "none" \/ Is("PROCESSING_OFFER") \/ ~Is("GOT_OFFER") \/ ~Is("GOT_ANSWER")
       THEN /\ pending_trickles' = TRUE
            /\ UNCHANGED <<candidates, process_started, queued_candidates, queue>>
       ELSE /\ Forward(candidates)
            /\ UNCHANGED pending_trickles
    /\ Goto(Req, "idle")
    /\ UNCHANGED <<flags, mutex, closepc, agent, remote, cdone, connected, dtls, handle, outside,
                   inputs>>

-----------------------------------------------------------------------------
(* Messages with a JSEP: janus_process_incoming_request in a task.               *)

Message(p, type) ==
    /\ Step(p) = "idle" /\ ~destroyed /\ app # "detached"
    /\ IF type = "offer" THEN Arrives("offer") /\ UNCHANGED offered
                         ELSE offered /\ offered' = FALSE /\ UNCHANGED inputs
    /\ Begin(p, "cleaning", type, FALSE)
    /\ UNCHANGED <<shared, ice, pending_trickles, queue, handle, closing, ending, toanswer, lost>>

\* It waits for a hangup to be over, for 3 seconds at most.
MessageCleaning(p) ==
    /\ Step(p) = "cleaning"
    /\ Goto(p, IF Is("CLEANING") THEN "idle" ELSE "negotiated")
    /\ UNCHANGED <<shared, ice, pending_trickles, queue, handle, outside, inputs>>

MessageNegotiated(p) ==
    /\ Step(p) = "negotiated"
    /\ Begin(p, "lock", at[p].jsep, Is("NEGOTIATED"))
    /\ UNCHANGED <<shared, ice, pending_trickles, queue, handle, outside, inputs>>

\* The flags of an offer, whoever it comes from. Those of an answer take two
\* steps: NEGOTIATED is set when GOT_OFFER was seen.
OfferFlags == (flags \cup {"GOT_OFFER"}) \ {"GOT_ANSWER"}

\* The error paths of the section with the lock.
GiveUp(p) ==
    /\ flags' = flags \ {"PROCESSING_OFFER"}
    /\ mutex' = NoThread
    /\ Goto(p, "idle")

\* A type that is neither is an error.
MessageLock(p) ==
    /\ Step(p) = "lock" /\ Unlocked
    /\ \/ GiveUp(p)
       \/ /\ at[p].jsep = "offer"
          /\ mutex' = p
          /\ flags' = OfferFlags \cup {"PROCESSING_OFFER"}
          /\ Goto(p, "parse")
       \/ /\ at[p].jsep = "answer"
          /\ mutex' = p
          /\ flags' = flags \cup {"GOT_ANSWER"}
          /\ Goto(p, IF Is("GOT_OFFER") THEN "got_answer" ELSE "parse")
    /\ UNCHANGED <<closepc, ice, pending_trickles, queue, handle, outside, inputs>>

GotAnswer(p) ==
    /\ Step(p) = "got_answer"
    /\ flags' = flags \cup {"NEGOTIATED"}
    /\ Goto(p, IF p = Plug THEN "gather" ELSE "parse")
    /\ UNCHANGED <<mutex, closepc, ice, pending_trickles, queue, handle, outside, inputs>>

\* The SDP may be invalid, and an answer one that nobody asked for.
MessageParse(p) ==
    /\ Step(p) = "parse"
    /\ \/ GiveUp(p)
       \/ /\ at[p].update \/ at[p].jsep = "offer" \/ agent # "none"
          /\ Goto(p, IF ~at[p].update /\ at[p].jsep = "offer" THEN "setup_flags" ELSE "process")
          /\ UNCHANGED <<flags, mutex>>
    /\ UNCHANGED <<closepc, ice, pending_trickles, queue, handle, outside, inputs>>

\* janus_sdp_process, which may find candidates in the SDP, and the rest of the
\* section with the lock. It fails without a stream.
MessageProcess(p) ==
    /\ Step(p) = "process"
    /\ \/ /\ GiveUp(p)
          /\ remote' \in {remote, remote \/ agent # "none"}
          /\ candidates' \in {candidates, candidates \/ agent # "none"}
          /\ UNCHANGED <<process_started, queued_candidates, pending_trickles, queue>>
       \/ /\ agent # "none"
          /\ remote' = TRUE
          /\ mutex' = NoThread
          /\ Goto(p, "deliver")
          /\ \E listed \in {candidates, TRUE} :
                 IF at[p].jsep = "answer" /\ ~at[p].update
                 THEN HandleAnswer(listed)
                 ELSE /\ candidates' = listed
                      /\ UNCHANGED <<flags, process_started, queued_candidates, pending_trickles, queue>>
    /\ UNCHANGED <<closepc, agent, cdone, connected, dtls, handle, outside, inputs>>

\* The SDP is anonymized, which may fail, and the message handed to the plugin.
MessageDeliver(p) ==
    /\ Step(p) = "deliver"
    /\ flags' = flags \ {"PROCESSING_OFFER"}
    /\ toanswer' \in {toanswer, toanswer \/ (app = "alive" /\ at[p].jsep = "offer")}
    /\ Goto(p, "idle")
    /\ UNCHANGED <<mutex, closepc, ice, pending_trickles, queue, handle, closing, ending,
                   offered, inputs, lost>>

-----------------------------------------------------------------------------
(* The plugin: janus_plugin_push_event with a JSEP, close_pc and end_session.    *)

PluginAnswer ==
    /\ Step(Plug) = "idle" /\ toanswer /\ app = "alive" /\ ~Is("STOP")
    /\ toanswer' = FALSE
    /\ flags' = flags \cup {"GOT_ANSWER"}
    /\ Begin(Plug, IF Is("GOT_OFFER") THEN "got_answer" ELSE "gather", "answer", FALSE)
    /\ UNCHANGED <<mutex, closepc, ice, pending_trickles, queue, handle, closing, ending,
                   offered, inputs, lost>>

PluginOffer ==
    /\ Step(Plug) = "idle" /\ app = "alive" /\ ~Is("STOP")
    /\ Arrives("plugin_offer")
    /\ flags' = OfferFlags
    /\ Begin(Plug, "cleaning", "offer", FALSE)
    /\ UNCHANGED <<mutex, closepc, ice, pending_trickles, queue, handle, outside>>

\* The SDP may be invalid, and a hangup take longer than 3 seconds. The agent is
\* looked at without the lock.
PluginCleaning ==
    /\ Step(Plug) = "cleaning"
    /\ \/ Goto(Plug, "idle")
       \/ /\ ~Is("CLEANING")
          /\ IF agent = "none" THEN Goto(Plug, "setup_lock") ELSE Begin(Plug, "merge", "offer", TRUE)
    /\ UNCHANGED <<shared, ice, pending_trickles, queue, handle, outside, inputs>>

PluginSetup ==
    /\ Step(Plug) = "setup_lock" /\ Unlocked
    /\ mutex' = Plug
    /\ Goto(Plug, "setup_flags")
    /\ UNCHANGED <<flags, closepc, ice, pending_trickles, queue, handle, outside, inputs>>

\* Unless it trickles, Janus waits for its own candidates, for 5 seconds at most
\* and while nothing stops it.
PluginGathered ==
    /\ Step(Plug) = "gather"
    /\ \/ Goto(Plug, "idle")
       \/ /\ FullTrickle \/ cdone = "done" \/ (~Is("STOP") /\ ~Is("ALERT"))
          /\ Goto(Plug, "merge")
    /\ UNCHANGED <<shared, ice, pending_trickles, queue, handle, outside, inputs>>

\* The section with the lock, which fails without a stream; the peer is then sent the SDP.
PluginMerge ==
    /\ Step(Plug) = "merge" /\ Unlocked
    /\ Goto(Plug, "idle")
    /\ \/ UNCHANGED <<flags, candidates, process_started, queued_candidates, pending_trickles, queue,
                      offered>>
       \/ /\ agent # "none"
          /\ offered' = (offered \/ at[Plug].jsep = "offer")
          /\ IF at[Plug].jsep = "answer" /\ ~at[Plug].update
             THEN HandleAnswer(candidates)
             ELSE /\ flags' = IF at[Plug].update THEN flags ELSE flags \cup {"PROCESSING_OFFER"}
                  /\ UNCHANGED <<candidates, process_started, queued_candidates, pending_trickles, queue>>
    /\ UNCHANGED <<mutex, closepc, agent, remote, cdone, connected, dtls, handle, closing,
                   ending, toanswer, inputs, lost>>

PluginClosePc ==
    /\ app = "alive" /\ ~closepc
    /\ Arrives("close_pc")
    /\ closepc' = TRUE
    /\ closing' = closing + 1
    /\ UNCHANGED <<flags, mutex, ice, pending_trickles, queue, handle, ending, toanswer,
                   offered, at, lost>>

PluginEndSession ==
    /\ app = "alive"
    /\ Arrives("end_session")
    /\ ending' = ending + 1
    /\ UNCHANGED <<shared, ice, pending_trickles, queue, handle, closing, toanswer, offered, at, lost>>

-----------------------------------------------------------------------------
(* Hangups and the detach: the hangup request, janus_plugin_close_pc_internal    *)
(* and, from the detach request or janus_plugin_end_session_internal,            *)
(* janus_ice_handle_destroy.                                                     *)

HangupRequest ==
    /\ Step(Req) = "idle" /\ ~destroyed /\ app # "detached"
    /\ Arrives("hangup")
    /\ Hangup(Req, "idle")
    /\ UNCHANGED <<flags, mutex, ice, pending_trickles, queue, handle, outside>>

ClosePcInternal_NoSource ==
    /\ Step(Wd) = "idle"
    /\ closing' = closing - 1
    /\ IF closepc /\ ~Is("STOP") /\ ~Is("ALERT")
       THEN Hangup(Wd, "idle")
       ELSE closepc' = FALSE /\ UNCHANGED at
    /\ UNCHANGED <<flags, mutex, ice, pending_trickles, queue, handle, ending, toanswer,
                   offered, inputs, lost>>
ClosePcInternal ==
    /\ Step(Wd) = "idle" /\ closing > 0
    /\ closing' = closing - 1
    /\ IF closepc /\ ~Is("STOP") /\ ~Is("ALERT")
       THEN Hangup(Wd, "idle")
       ELSE closepc' = FALSE /\ UNCHANGED at
    /\ UNCHANGED <<flags, mutex, ice, pending_trickles, queue, handle, ending, toanswer,
                   offered, inputs, lost>>

DestroyHandle(p) ==
    /\ ~destroyed
    /\ destroyed' = TRUE
    /\ Hangup(p, "destroy_stop")

DetachRequest ==
    /\ Step(Req) = "idle"
    /\ Arrives("detach")
    /\ DestroyHandle(Req)
    /\ UNCHANGED <<flags, mutex, ice, pending_trickles, queue, app, media, loop, removed,
                   outside>>

EndSessionInternal ==
    /\ Step(Wd) = "idle" /\ ending > 0
    /\ ending' = ending - 1
    /\ \/ ~Is("STOP") /\ DestroyHandle(Wd)
       \/ (Is("STOP") \/ destroyed) /\ UNCHANGED <<destroyed, closepc, at>>
    /\ UNCHANGED <<flags, mutex, ice, pending_trickles, queue, app, media, loop, removed,
                   closing, toanswer, offered, inputs, lost>>

DestroyStop(p) ==
    /\ Step(p) = "destroy_stop"
    /\ flags' = flags \cup {"STOP"}
    /\ Goto(p, "destroy_detach")
    /\ UNCHANGED <<mutex, closepc, ice, pending_trickles, queue, handle, outside, inputs>>

DestroyDetach(p) ==
    /\ Step(p) = "destroy_detach"
    /\ app' = "stopped"
    /\ queue' = Append(queue, "detach")
    /\ Goto(p, "idle")
    /\ UNCHANGED <<shared, ice, pending_trickles, destroyed, media, loop, removed, outside, inputs>>

-----------------------------------------------------------------------------
(* The loop. janus_ice_outgoing_traffic_dispatch pops messages until there are   *)
(* none; callbacks of libnice and DTLS come between two dispatches.              *)

LoopIdle == loop = "running" /\ Step(Loop) = "idle"

LoopDispatch ==
    /\ LoopIdle /\ queue # <<>>
    /\ removed' = FALSE
    /\ Goto(Loop, "dispatch")
    /\ UNCHANGED <<shared, ice, pending_trickles, queue, destroyed, app, media, loop, outside, inputs>>

Pop(m) ==
    /\ Step(Loop) = "dispatch" /\ queue # <<>> /\ Head(queue) = m
    /\ queue' = Tail(queue)

LoopGather ==
    /\ Pop("gather")
    /\ \/ /\ cdone' = IF agent # "none" /\ cdone = "none" THEN "gathering" ELSE cdone
          /\ UNCHANGED <<closepc, at>>
       \/ /\ agent # "none"
          /\ Hangup(Loop, "dispatch")
          /\ UNCHANGED cdone
    /\ UNCHANGED <<flags, mutex, agent, remote, candidates, process_started,
                   queued_candidates, connected, dtls, pending_trickles, handle, outside, inputs>>

LoopCandidates ==
    /\ Pop("candidates")
    /\ queued_candidates' = FALSE
    /\ UNCHANGED <<shared, agent, remote, cdone, candidates, process_started, connected, dtls,
                   pending_trickles, handle, outside, at, inputs>>

LoopHandshake ==
    /\ Pop("dtls")
    /\ dtls' = IF agent = "ok" THEN "handshake" ELSE dtls
    /\ UNCHANGED <<shared, agent, remote, cdone, candidates, process_started, queued_candidates, connected,
                   pending_trickles, handle, outside, at, inputs>>

LoopHangup_Continue ==
    /\ Pop("hangup")
    /\ media' = IF app # "detached" THEN 0 ELSE media
    /\ removed' = FALSE
    /\ Goto(Loop, "free")
    /\ UNCHANGED <<shared, ice, pending_trickles, destroyed, app, loop, outside, inputs>>
LoopHangup ==
    /\ Pop("hangup")
    /\ media' = IF app # "detached" THEN 0 ELSE media
    /\ Goto(Loop, "free")
    /\ UNCHANGED <<shared, ice, pending_trickles, destroyed, app, loop, removed, outside, inputs>>

\* janus_ice_webrtc_free. It does not clear ALERT: the next setup does.
WebrtcFree_KeepsReady ==
    /\ Unlocked
    /\ flags' = flags \ {"CLEANING", "HAS_AGENT"}
    /\ IF agent = "none"
       THEN UNCHANGED <<ice, pending_trickles>>
       ELSE /\ agent' = "none" /\ pending_trickles' = FALSE /\ queued_candidates' = FALSE
            /\ remote' = FALSE /\ candidates' = FALSE /\ process_started' = FALSE
            /\ connected' = FALSE /\ dtls' = "none"
            /\ UNCHANGED cdone
WebrtcFree_NoAgent ==
    /\ Unlocked
    /\ IF agent = "none"
       THEN UNCHANGED <<flags, ice, pending_trickles>>
       ELSE /\ flags' = flags \ {"READY", "CLEANING", "HAS_AGENT"}
            /\ agent' = "none" /\ pending_trickles' = FALSE /\ queued_candidates' = FALSE
            /\ remote' = FALSE /\ candidates' = FALSE /\ process_started' = FALSE
            /\ connected' = FALSE /\ dtls' = "none"
            /\ UNCHANGED cdone
WebrtcFree ==
    /\ Unlocked
    /\ flags' = flags \ {"READY", "CLEANING", "HAS_AGENT"}
    /\ IF agent = "none"
       THEN UNCHANGED <<ice, pending_trickles>>
       ELSE /\ agent' = "none" /\ pending_trickles' = FALSE /\ queued_candidates' = FALSE
            /\ remote' = FALSE /\ candidates' = FALSE /\ process_started' = FALSE
            /\ connected' = FALSE /\ dtls' = "none"
            /\ UNCHANGED cdone

LoopFree ==
    /\ Step(Loop) = "free"
    /\ WebrtcFree
    /\ lost' = lost \cap {"detach"}
    /\ Goto(Loop, "dispatch")
    /\ UNCHANGED <<mutex, closepc, queue, handle, closing, ending, toanswer, offered, inputs>>

LoopDetach ==
    /\ Pop("detach")
    /\ app' = "detached"
    /\ removed' = TRUE
    /\ UNCHANGED <<shared, ice, pending_trickles, destroyed, media, loop, outside, at, inputs>>

\* The dispatch is over. Without its source, the loop is told to quit.
LoopEmpty ==
    /\ Step(Loop) = "dispatch" /\ queue = <<>>
    /\ Goto(Loop, "idle")
    /\ loop' = IF removed THEN "quit" ELSE "running"
    /\ UNCHANGED <<shared, ice, pending_trickles, queue, destroyed, app, media, removed, outside, inputs>>

\* janus_ice_handle_thread goes on after the loop.
LoopEnd ==
    /\ loop = "quit"
    /\ WebrtcFree
    /\ loop' = "ended"
    /\ UNCHANGED <<mutex, closepc, queue, destroyed, app, media, removed, outside, at, inputs>>

-----------------------------------------------------------------------------
(* Callbacks of libnice and of DTLS, in the loop.                                *)

GatheringDone ==
    /\ LoopIdle /\ agent = "ok" /\ cdone = "gathering"
    /\ cdone' = "done"
    /\ UNCHANGED <<shared, agent, remote, candidates, process_started, queued_candidates, connected, dtls,
                   pending_trickles, queue, handle, outside, at, inputs>>

\* A pair needs candidates of ours and the peer's credentials; those of the peer may
\* be found by its checks. The first pair clears the queue.
NewSelectedPair ==
    /\ LoopIdle /\ agent = "ok" /\ remote /\ cdone # "none" /\ ~connected
    /\ connected' = TRUE
    /\ queue' = <<"dtls">>
    /\ lost' = lost \cup ({queue[i] : i \in DOMAIN queue} \cap Losable)
    /\ UNCHANGED <<shared, agent, remote, cdone, candidates, process_started, queued_candidates, dtls,
                   pending_trickles, handle, closing, ending, toanswer, offered, at, inputs>>

\* janus_ice_check_failed, when it gives up.
CheckFailed ==
    /\ LoopIdle /\ agent = "ok" /\ remote /\ ~Is("STOP") /\ ~Is("ALERT")
    /\ Hangup(Loop, "idle")
    /\ UNCHANGED <<flags, mutex, ice, pending_trickles, queue, handle, outside, inputs>>

HandshakeDone ==
    /\ LoopIdle /\ connected /\ dtls = "handshake" /\ Unlocked
    /\ dtls' = "done"
    /\ flags' = flags \cup {"READY"}
    /\ media' = IF ~Is("READY") /\ app = "alive" THEN media + 1 ELSE media
    /\ UNCHANGED <<mutex, closepc, agent, remote, cdone, candidates, process_started,
                   queued_candidates, connected, pending_trickles, queue, destroyed, app, loop, removed,
                   outside, at, inputs>>

\* An alert of the peer, or janus_dtls_retry after 20 seconds.
DtlsFailed ==
    /\ LoopIdle /\ dtls # "none"
    /\ Hangup(Loop, "idle")
    /\ UNCHANGED <<flags, mutex, ice, pending_trickles, queue, handle, outside, inputs>>

-----------------------------------------------------------------------------
Init ==
    /\ flags = {} /\ mutex = NoThread /\ closepc = FALSE
    /\ agent = "none" /\ remote = FALSE /\ cdone = "none" /\ candidates = FALSE
    /\ process_started = FALSE /\ queued_candidates = FALSE /\ connected = FALSE /\ dtls = "none"
    /\ pending_trickles = FALSE /\ queue = <<>>
    /\ destroyed = FALSE /\ app = "alive" /\ media = 0 /\ loop = "running" /\ removed = FALSE
    /\ closing = 0 /\ ending = 0 /\ toanswer = FALSE /\ offered = FALSE /\ lost = {}
    /\ at = [p \in Threads |-> Idle] /\ inputs = 0

\* What threads do once they have begun.
HangupStep(p) == HangupAlert(p) \/ HangupPush(p)
SetupStep(p) == SetupFlags(p) \/ SetupAgent(p) \/ SetupError(p)
TaskStep(p) ==
    \/ MessageCleaning(p) \/ MessageNegotiated(p) \/ MessageLock(p) \/ GotAnswer(p)
    \/ MessageParse(p) \/ MessageProcess(p) \/ MessageDeliver(p) \/ SetupStep(p) \/ HangupStep(p)
PlugStep == PluginCleaning \/ PluginSetup \/ PluginGathered \/ PluginMerge \/ GotAnswer(Plug)
            \/ SetupStep(Plug) \/ HangupStep(Plug)
ReqStep == TrickleLocked \/ DestroyStop(Req) \/ DestroyDetach(Req) \/ HangupStep(Req)
WdStep == ClosePcInternal \/ EndSessionInternal \/ DestroyStop(Wd) \/ DestroyDetach(Wd) \/ HangupStep(Wd)
LoopStep ==
    \/ LoopDispatch \/ LoopGather \/ LoopCandidates \/ LoopHandshake \/ LoopHangup \/ LoopFree
    \/ LoopDetach \/ LoopEmpty \/ LoopEnd \/ HangupStep(Loop)

\* What the peer, the plugin and the network bring about.
Input ==
    \/ \E p \in Tasks, type \in {"offer", "answer"} : Message(p, type)
    \/ Trickle \/ HangupRequest \/ DetachRequest
    \/ PluginAnswer \/ PluginOffer \/ PluginClosePc \/ PluginEndSession
    \/ GatheringDone \/ NewSelectedPair \/ CheckFailed \/ HandshakeDone \/ DtlsFailed

Next == Input \/ (\E p \in Tasks : TaskStep(p)) \/ PlugStep \/ ReqStep \/ WdStep \/ LoopStep

Spec == Init /\ [][Next]_vars

\* Threads go on with what they have begun. Nothing makes the peer, the plugin or
\* the network do anything.
FairSpec ==
    /\ Spec
    /\ \A p \in Tasks : WF_vars(TaskStep(p))
    /\ WF_vars(PlugStep) /\ WF_vars(ReqStep) /\ WF_vars(WdStep) /\ WF_vars(LoopStep)

-----------------------------------------------------------------------------
(* Properties.                                                                   *)

Labels == {"idle", "hangup_alert", "hangup_push", "setup_flags", "setup_agent", "setup_error", "setup_lock",
           "cleaning", "negotiated", "lock", "got_answer", "parse", "process", "deliver", "gather", "merge",
           "trickle", "destroy_stop", "destroy_detach", "dispatch", "free"}

\* Every variable holds a value of its kind.
TypeOK ==
    /\ flags \subseteq FlagNames /\ mutex \in Tasks \cup {Plug, NoThread}
    /\ closepc \in BOOLEAN
    /\ agent \in {"none", "ok", "failed"} /\ remote \in BOOLEAN /\ cdone \in {"none", "gathering", "done"}
    /\ candidates \in BOOLEAN /\ process_started \in BOOLEAN /\ queued_candidates \in BOOLEAN
    /\ connected \in BOOLEAN /\ dtls \in {"none", "handshake", "done"}
    /\ pending_trickles \in BOOLEAN /\ queue \in Seq({"gather", "candidates", "dtls", "hangup", "detach"})
    /\ destroyed \in BOOLEAN /\ app \in {"alive", "stopped", "detached"} /\ media \in Nat
    /\ loop \in {"running", "quit", "ended"} /\ removed \in BOOLEAN
    /\ closing \in Nat /\ ending \in Nat /\ toanswer \in BOOLEAN /\ offered \in BOOLEAN
    /\ lost \subseteq Losable
    /\ at \in [Threads -> [step : Labels, jsep : {"offer", "answer"}, update : BOOLEAN, ret : Labels]]
    /\ inputs \in 0..MaxInputs

Queued(m) == \E i \in DOMAIN queue : queue[i] = m

\* A hangup that others wait for (CLEANING) is on its way: its message is in the queue or the
\* loop is at it, or about to end. The exception is a hangup that the first selected pair cleared from the queue.
HangupOnItsWay ==
    Is("CLEANING") => \/ Queued("hangup") \/ Step(Loop) = "free"
                      \/ loop # "running" \/ "hangup" \in lost

\* Remote candidates queued for the loop have a message in the queue that makes the loop take
\* them, unless the first selected pair cleared such a message.
CandidatesOnTheirWay == queued_candidates => Queued("candidates") \/ "candidates" \in lost

\* An agent that works is never overwritten: HAS_AGENT, which is changed in different places than
\* the agent, tells janus_ice_setup_local of every one. An agent whose setup failed has a hangup
\* coming that frees it.
AgentsSound ==
    /\ agent = "ok" => Is("HAS_AGENT") /\ \A p \in Threads : Step(p) # "setup_agent"
    /\ agent = "failed" => \/ Queued("hangup") \/ Step(Loop) = "free" \/ loop # "running"
                           \/ \E p \in Threads : Step(p) \in {"hangup_alert", "hangup_push"}

\* A plugin is told in turns of the media's setup and of its hangup, and what it was told last is
\* what READY says, except while the loop frees the PeerConnection.
MediaInStep ==
    /\ media <= 1
    /\ app = "alive" => (media = 1 <=> Is("READY") /\ Step(Loop) # "free")

\* What others wait for is over at some time: a hangup ends with CLEANING cleared, unless the
\* first selected pair cleared a hangup from the queue, or the handle's loop is gone.
CleaningEnds == Is("CLEANING") ~> (~Is("CLEANING") \/ "hangup" \in lost \/ loop = "ended")

\* The loop of a handle that is being destroyed, or whose detach is in the queue, ends,
\* unless the first selected pair cleared a detach.
DestroyedEnds == (destroyed /\ (app = "alive" \/ Queued("detach"))) ~> (loop = "ended" \/ "detach" \in lost)

\* janus_ice_webrtc_hangup: "Let's message the loop, we'll notify the plugin from there". The loop
\* handles the message as long as it runs, and clears CLEANING when it has.
HangupHandled == Is("CLEANING") ~> (~Is("CLEANING") \/ loop = "ended")

=============================================================================
