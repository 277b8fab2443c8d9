----------------------------- MODULE MCServices ------------------------------
(*****************************************************************************)
(* Instances of the server's services and transports for TLC. The module     *)
(* extends the simulcasting subscriber of RtpLayers and instantiates the     *)
(* others. They share no state: a behaviour picks one of them and runs it,   *)
(* the others stay in their initial states, so that their state spaces add   *)
(* up.                                                                       *)
(*****************************************************************************)
EXTENDS RtpLayers, Sequences

CONSTANTS w1, w2, n1, h1, c1, p1, p2, q1, s1, None

\* What a subscriber may ask for.
SomeTargets == {<<2, 1>>, <<1, 0>>}

VARIABLES which,   \* the component that runs
          \* Logger
          lg_printhead, lg_bufferpool, lg_poolsz, lg_stopping, lg_wpc, lg_lines, lg_lpc, lg_head, lg_b, lg_dpc,
          lg_appended, lg_printed, lg_due,
          \* Events
          ev_eventsenabled, ev_events, ev_npc, ev_notified, ev_epc, ev_event, ev_iter, ev_dpc, ev_stopping,
          ev_queue, ev_hpc, ev_output, ev_retransmit, ev_queued, ev_handed, ev_settled, ev_received,
          \* WebSockets
          ws_state, ws_messages, ws_sent, ws_pending, ws_offset, ws_buffer, ws_clients, ws_writable_clients,
          ws_wanted, ws_cancelled, ws_wire, ws_failed, ws_incoming, ws_requests, ws_gone, ws_chokes, ws_spc,
          \* Http
          ht_session, ht_made, ht_claiming, ht_events, ht_longpolls, ht_mutex, ht_phase, ht_longpoll,
          ht_timeout_flag, ht_response, ht_lsession, ht_got, ht_core, ht_tpc, ht_tmsg, ht_spc, ht_ssession,
          ht_smsg, ht_home, ht_sent, ht_lost, ht_stopping,
          \* RtpSource
          rs_context, rs_now, rs_ssrc, rs_seq, rs_ts, rs_packets, rs_troubles, rs_out, rs_dropped

Lg == INSTANCE Logger WITH
        Writers <- {w1, w2}, MaxLines <- 2, maxpoolsz <- 2,
        printhead <- lg_printhead, bufferpool <- lg_bufferpool, poolsz <- lg_poolsz, stopping <- lg_stopping,
        wpc <- lg_wpc, lines <- lg_lines, lpc <- lg_lpc, head <- lg_head, b <- lg_b, dpc <- lg_dpc,
        appended <- lg_appended, printed <- lg_printed, due <- lg_due

Ev == INSTANCE Events WITH
        Notifiers <- {n1}, MaxEvents <- 3, Types <- {"session", "media"}, Handlers <- {h1},
        events_mask <- [h \in {h1} |-> {"session"}], group_events <- TRUE, MaxGroup <- 2,
        max_retransmissions <- 1,
        eventsenabled <- ev_eventsenabled, events <- ev_events, npc <- ev_npc, notified <- ev_notified,
        epc <- ev_epc, event <- ev_event, iter <- ev_iter, dpc <- ev_dpc, stopping <- ev_stopping,
        queue <- ev_queue, hpc <- ev_hpc, output <- ev_output, retransmit <- ev_retransmit, queued <- ev_queued,
        handed <- ev_handed, settled <- ev_settled, received <- ev_received

Ws == INSTANCE WebSockets WITH
        Clients <- {c1}, MaxMessages <- 3, MaxRequests <- 1, Fragments <- <<2, 1, 3>>, MaxChokes <- 2,
        state <- ws_state, messages <- ws_messages, sent <- ws_sent, pending <- ws_pending, offset <- ws_offset,
        buffer <- ws_buffer, clients <- ws_clients, writable_clients <- ws_writable_clients,
        wanted <- ws_wanted, cancelled <- ws_cancelled, wire <- ws_wire, failed <- ws_failed,
        incoming <- ws_incoming, requests <- ws_requests, gone <- ws_gone, chokes <- ws_chokes, spc <- ws_spc

\* Two long polls, one of which takes two events at once.
Ht == INSTANCE Http WITH
        Polls <- {p1, p2}, Posts <- {}, Senders <- {s1},
        max_events <- [m \in {p1, p2} |-> IF m = p1 THEN 1 ELSE 2], MaxEvents <- 2, MaxInstances <- 1,
        Shutdown <- TRUE,
        session <- ht_session, made <- ht_made, claiming <- ht_claiming, events <- ht_events,
        longpolls <- ht_longpolls, mutex <- ht_mutex, phase <- ht_phase, longpoll <- ht_longpoll,
        timeout_flag <- ht_timeout_flag, response <- ht_response, lsession <- ht_lsession, got <- ht_got,
        core <- ht_core, tpc <- ht_tpc, tmsg <- ht_tmsg, spc <- ht_spc, ssession <- ht_ssession,
        smsg <- ht_smsg, home <- ht_home, sent <- ht_sent, lost <- ht_lost, stopping <- ht_stopping

\* A POST beside a long poll.
Hq == INSTANCE Http WITH
        Polls <- {p1}, Posts <- {q1}, Senders <- {s1}, max_events <- [m \in {p1} |-> 1], MaxEvents <- 1,
        MaxInstances <- 2, Shutdown <- TRUE,
        session <- ht_session, made <- ht_made, claiming <- ht_claiming, events <- ht_events,
        longpolls <- ht_longpolls, mutex <- ht_mutex, phase <- ht_phase, longpoll <- ht_longpoll,
        timeout_flag <- ht_timeout_flag, response <- ht_response, lsession <- ht_lsession, got <- ht_got,
        core <- ht_core, tpc <- ht_tpc, tmsg <- ht_tmsg, spc <- ht_spc, ssession <- ht_ssession,
        smsg <- ht_smsg, home <- ht_home, sent <- ht_sent, lost <- ht_lost, stopping <- ht_stopping

\* Packets 60 ms or 6 s apart, by either clock.
Rs == INSTANCE RtpSource WITH
        Arrivals <- {60, 6000} \X {60, 6000}, StartTs <- 16700000, MaxPackets <- 6, MaxTroubles <- 1,
        context <- rs_context, now <- rs_now, ssrc <- rs_ssrc, seq <- rs_seq, ts <- rs_ts,
        packets <- rs_packets, troubles <- rs_troubles, out <- rs_out, dropped <- rs_dropped

lgVars == <<lg_printhead, lg_bufferpool, lg_poolsz, lg_stopping, lg_wpc, lg_lines, lg_lpc, lg_head, lg_b,
            lg_dpc, lg_appended, lg_printed, lg_due>>
evVars == <<ev_eventsenabled, ev_events, ev_npc, ev_notified, ev_epc, ev_event, ev_iter, ev_dpc, ev_stopping,
            ev_queue, ev_hpc, ev_output, ev_retransmit, ev_queued, ev_handed, ev_settled, ev_received>>
wsVars == <<ws_state, ws_messages, ws_sent, ws_pending, ws_offset, ws_buffer, ws_clients, ws_writable_clients,
            ws_wanted, ws_cancelled, ws_wire, ws_failed, ws_incoming, ws_requests, ws_gone, ws_chokes, ws_spc>>
htVars == <<ht_session, ht_made, ht_claiming, ht_events, ht_longpolls, ht_mutex, ht_phase, ht_longpoll,
            ht_timeout_flag, ht_response, ht_lsession, ht_got, ht_core, ht_tpc, ht_tmsg, ht_spc, ht_ssession,
            ht_smsg, ht_home, ht_sent, ht_lost, ht_stopping>>
rsVars == <<rs_context, rs_now, rs_ssrc, rs_seq, rs_ts, rs_packets, rs_troubles, rs_out, rs_dropped>>
servicesVars == <<which, lgVars, evVars, wsVars, htVars, rsVars, vars>>

ServicesInit ==
    /\ which \in {"Logger", "Events", "WebSockets", "HttpPolls", "HttpPosts", "RtpSource", "RtpLayers"}
    /\ Lg!Init
    /\ Ev!Init
    /\ Ws!Init
    /\ IF which = "HttpPosts" THEN Hq!Init ELSE Ht!Init
    /\ Rs!Init
    /\ Init
    /\ which # "RtpLayers" => sim.substream_target = 2

LoggerNext == which = "Logger" /\ Lg!Next /\ UNCHANGED <<which, evVars, wsVars, htVars, rsVars, vars>>
EventsNext == which = "Events" /\ Ev!Next /\ UNCHANGED <<which, lgVars, wsVars, htVars, rsVars, vars>>
WebSocketsNext == which = "WebSockets" /\ Ws!Next /\ UNCHANGED <<which, lgVars, evVars, htVars, rsVars, vars>>
HttpPollsNext == which = "HttpPolls" /\ Ht!Next /\ UNCHANGED <<which, lgVars, evVars, wsVars, rsVars, vars>>
HttpPostsNext == which = "HttpPosts" /\ Hq!Next /\ UNCHANGED <<which, lgVars, evVars, wsVars, rsVars, vars>>
RtpSourceNext == which = "RtpSource" /\ Rs!Next /\ UNCHANGED <<which, lgVars, evVars, wsVars, htVars, vars>>
RtpLayersNext == which = "RtpLayers" /\ Next /\ UNCHANGED <<which, lgVars, evVars, wsVars, htVars, rsVars>>

ServicesNext == LoggerNext \/ EventsNext \/ WebSocketsNext \/ HttpPollsNext \/ HttpPostsNext \/ RtpSourceNext \/ RtpLayersNext

\* The fairness of each component, when it is the one that runs.
Fairness ==
    /\ WF_lgVars(which = "Logger" /\ Lg!janus_log_thread)
    /\ WF_lgVars(which = "Logger" /\ (Lg!DestroySignal \/ Lg!DestroyJoin))
    /\ WF_evVars(which = "Events" /\ Ev!janus_events_thread)
    /\ WF_evVars(which = "Events" /\ Ev!Shutdown)
    /\ WF_evVars(which = "Events" /\ Ev!janus_sampleevh_handler(h1))
    /\ SF_evVars(which = "Events" /\ Ev!Post(h1))
    /\ WF_wsVars(which = "WebSockets" /\ Ws!EventWaitCancelled)
    /\ WF_wsVars(which = "WebSockets" /\ Ws!ServiceEnds)
    /\ WF_wsVars(which = "WebSockets" /\ (Ws!WriteableIdle(c1) \/ Ws!Writeable(c1, TRUE)))
    /\ WF_wsVars(which = "WebSockets" /\ ws_spc = "ended" /\ Ws!destroy_client(c1))
    /\ WF_htVars((which = "HttpPolls" /\ Ht!WebServer(p1)) \/ (which = "HttpPosts" /\ Hq!WebServer(p1)))
    /\ WF_htVars((which = "HttpPolls" /\ Ht!WebServer(p2)) \/ (which = "HttpPosts" /\ Hq!WebServer(q1)))
    /\ WF_htVars((which = "HttpPolls" /\ Ht!TimerThread) \/ (which = "HttpPosts" /\ Hq!TimerThread))
    /\ WF_htVars((which = "HttpPolls" /\ Ht!Sender(s1)) \/ (which = "HttpPosts" /\ Hq!Sender(s1)))
    /\ WF_htVars(which = "HttpPosts" /\ Hq!RespondResume(q1))

ServicesSpec == ServicesInit /\ [][ServicesNext]_servicesVars /\ Fairness

-----------------------------------------------------------------------------
\* The variables of every component keep their types.
TypesOK ==
    /\ which = "Logger" => Lg!TypeOK
    /\ which = "Events" => Ev!TypeOK
    /\ which = "WebSockets" => Ws!TypeOK
    /\ which = "HttpPolls" => Ht!TypeOK
    /\ which = "HttpPosts" => Hq!TypeOK
    /\ which = "RtpSource" => Rs!TypeOK
    /\ which = "RtpLayers" => TypeOK

\* log.c: no line is lost, repeated or printed out of order, and the pool accounts for
\* every buffer.
LinesKept == which = "Logger" => Lg!LinesKept

\* events.c and janus_sampleevh.c: no event vanishes or changes place on its way to a
\* backend, which gets groups in order, repeated only by its retransmissions.
EventsKept == which = "Events" => Ev!EventsKept /\ Ev!GroupsInOrder

\* janus_websockets.c: what is on the wire, in the buffer and in the queue of a client are
\* the messages the core gave, whole and in order.
StreamsSound == which = "WebSockets" => Ws!StreamsSound

\* janus_http.c: a suspended request is never left to nobody, and an event of a session is
\* in its queue or in one response, in order.
PollsSound ==
    /\ which = "HttpPolls" => Ht!PollsSound /\ Ht!EventsSound
    /\ which = "HttpPosts" => Hq!PollsSound /\ Hq!EventsSound

\* rtp.c: the numbers of a relayed stream go on from one packet to the next when its source
\* changes or its clock is corrected, and a subscriber of a simulcasting publisher gets
\* one substream at a time, changed at key frames.
MediaCoherent ==
    /\ which = "RtpSource" => Rs!SourceCoherent
    /\ which = "RtpLayers" => LayersSound

\* Every component ends what was asked of it: every line written before the exit is
\* printed (log.c), every event is delivered or given up and the exit ends with all threads
\* joined (events.c and janus_sampleevh.c), every message is written unless its client or
\* the transport ends (janus_websockets.c), and every long poll and every POST is answered
\* or ended (janus_http.c).
ServicesSettle ==
    /\ Lg!LinesPrinted
    /\ Ev!EventsSettle
    /\ Ws!MessagesWritten
    /\ []<>(\A m \in DOMAIN ht_phase : ht_phase[m] \in {"idle", "done"} \/ Ht!TooLate(m))
=============================================================================
