----------------------------- MODULE RtpLayers ------------------------------
(***************************************************************************)
(* The video of a simulcasting publisher on its way to one subscriber:     *)
(* janus_rtp_simulcasting_context_process_rtp (rtp.c) picks the substream  *)
(* and the temporal layer, and janus_rtp_header_update makes one stream of *)
(* it, as in janus_videoroom_relay_rtp_packet.  Substreams have the SSRCs  *)
(* 1 to 3 and packets a VP8 descriptor; timestamps are RtpSource's.        *)
(***************************************************************************)
EXTENDS Rtp, FiniteSets

CONSTANTS MaxPackets,
          MaxIncidents  \* bounds: packets; requests, delayed packets and lapses of time

VARIABLES sim,          \* the simulcasting context; last_relayed: "never", "lately" or "long ago"
          context, paused,
          seq,          \* of a substream: the last sequence number its encoder used
          held,         \* packets the network delays, with the base of the stream at the time
          packets, incidents,
          last,         \* history: the last packet relayed
          outs,         \* history: sequence numbers of relayed packets
          delays        \* history: "none"; "gaps" are possible; or a late packet met numbers
                        \* that had moved ("crossed")

vars == <<sim, context, paused, seq, held, packets, incidents, last, outs, delays>>

\* janus_rtp_simulcasting_context_reset, and the targets of the join request.
SimReset(t) ==
    [substream |-> -1, substream_target |-> t[1], target_temp |-> -1,
     templayer |-> -1, templayer_target |-> t[2], last_relayed |-> "never"]

Init ==
    /\ \E t \in Targets : sim = SimReset(t)
    /\ context = ContextReset /\ paused = FALSE
    /\ seq = [s \in Substreams |-> StartSeq] /\ held = {}
    /\ packets = 0 /\ incidents = 0
    /\ last = [substream |-> -1, seq |-> 0, fresh |-> TRUE, cut |-> FALSE]
    /\ outs = {} /\ delays = "none"

-----------------------------------------------------------------------------
(* janus_rtp_simulcasting_context_process_rtp, in steps.                   *)

\* The substream that was missed flows again, or a lower one was asked for.
TempDone(c, s) ==
    IF c.target_temp # -1 /\ (s > c.target_temp \/ c.substream_target <= c.target_temp)
      THEN [c EXCEPT !.target_temp = -1]
      ELSE c

\* Mutant: the substream changes with any packet of the one that is wanted.
PickHasty(c, s, key) ==
    LET target == IF c.target_temp = -1 THEN c.substream_target ELSE c.target_temp
        nearer == \/ c.substream < target /\ s > c.substream
                  \/ c.substream > target /\ s < c.substream
    IN  IF c.substream = -1 \/ (c.substream # target /\ nearer)
          THEN [c EXCEPT !.substream = s, !.last_relayed = "lately"]
          ELSE c

\* A keyframe of a substream that is nearer to the target than the present one.
Pick(c, s, key) ==
    LET target == IF c.target_temp = -1 THEN c.substream_target ELSE c.target_temp
        nearer == \/ c.substream < target /\ s > c.substream
                  \/ c.substream > target /\ s < c.substream
    IN  IF key /\ (c.substream = -1 \/ (c.substream # target /\ nearer))
          THEN [c EXCEPT !.substream = s, !.last_relayed = "lately"]
          ELSE c

\* Nothing was relayed for a while: a lower substream will do.
FallBack(c, s) ==
    IF c.last_relayed = "never" THEN [c EXCEPT !.last_relayed = "lately"]
    ELSE IF c.substream > 0 /\ c.last_relayed = "long ago"
      THEN [c EXCEPT !.last_relayed = "lately",
                     !.target_temp = IF c.substream # s /\ @ # 0 /\ c.substream_target > s
                                       THEN IF @ = -1 THEN c.substream_target - 1 ELSE @ - 1
                                       ELSE @]
    ELSE c

\* The temporal layer changes with a packet of the one that is wanted.
Temporal(c, tid) ==
    [c EXCEPT !.last_relayed = "lately",
              !.templayer = IF tid = c.templayer_target THEN tid ELSE @]

\* The context after the packet, whether the packet is relayed, and whether its number is
\* skipped because its temporal layer is not wanted.
process_rtp(c, s, key, tid) ==
    LET p == Pick(TempDone(c, s), s, key)
        f == FallBack(p, s)
        t == Temporal(f, tid)
        above == t.templayer # -1 /\ tid > t.templayer
    IN  IF p.substream = -1 THEN [c |-> p, relay |-> FALSE, skip |-> FALSE]
        ELSE IF f.substream # s THEN [c |-> f, relay |-> FALSE, skip |-> FALSE]
        ELSE [c |-> t, relay |-> ~above, skip |-> above]

-----------------------------------------------------------------------------
Incident == incidents < MaxIncidents /\ incidents' = incidents + 1 /\ UNCHANGED packets

\* Mutant: the number of a packet that is not wanted is not skipped.
SkipForgotten(c) == c

\* sc->v_base_seq++
Skip(c) == [c EXCEPT !.base_seq = Seq16(@ + 1)]

\* The packet n of a substream reaches janus_videoroom_relay_rtp_packet.
relay_rtp_packet(s, n, key, tid) ==
    LET r == process_rtp(sim, s, key, tid)
        c == header_update(context, s + 1, n, 0, 1)
    IN
    IF paused THEN UNCHANGED <<sim, context, last, outs>>
    ELSE /\ sim' = r.c
         /\ IF r.relay
              THEN /\ context' = c /\ outs' = outs \union {c.last_seq}
                   /\ last' = [substream |-> s, seq |-> c.last_seq, fresh |-> c.last_seq \notin outs,
                               cut |-> s # last.substream /\ ~key]
              ELSE /\ context' = IF r.skip THEN Skip(context) ELSE context
                   /\ UNCHANGED <<last, outs>>

Kinds == {k \in BOOLEAN \X Layers : k[1] => k[2] = 0}

\* What a late packet may run into: the numbers of its substream moved since it was sent,
\* or they move with this packet, while the last one relayed is not the newest.
Base(c) == <<c.last_ssrc, c.base_seq, c.base_seq_prev>>
Newest == last.substream = -1 \/ \A o \in outs : Forward(o, last.seq, SeqMod)

\* The next packet of a substream.
Packet(s, key, tid) ==
    /\ packets < MaxPackets /\ packets' = packets + 1
    /\ seq' = [seq EXCEPT ![s] = Seq16(@ + 1)]
    /\ relay_rtp_packet(s, seq'[s], key, tid)
    /\ delays' = IF Base(context') # Base(context) /\ ~Newest THEN "crossed" ELSE delays
    /\ UNCHANGED <<paused, held, incidents>>

\* It is delayed.
Hold(s, tid) ==
    /\ Incident
    /\ seq' = [seq EXCEPT ![s] = Seq16(@ + 1)]
    /\ held' = held \union {[substream |-> s, seq |-> seq'[s], tid |-> tid, base |-> Base(context)]}
    /\ delays' = IF delays = "none" THEN "gaps" ELSE delays
    /\ UNCHANGED <<sim, context, paused, last, outs>>

Late(h) ==
    /\ h \in held /\ held' = held \ {h}
    /\ relay_rtp_packet(h.substream, h.seq, FALSE, h.tid)
    /\ delays' = IF Base(context') # h.base \/ context.seq_reset THEN "crossed" ELSE delays
    /\ UNCHANGED <<paused, seq, packets, incidents>>

\* Time passes.
Lapse ==
    /\ Incident /\ sim.last_relayed = "lately" /\ sim' = [sim EXCEPT !.last_relayed = "long ago"]
    /\ UNCHANGED <<context, paused, seq, held, last, outs, delays>>

\* The subscriber's requests: configure, pause and start.
Configure(t) ==
    /\ Incident /\ sim' = [sim EXCEPT !.substream_target = t[1], !.templayer_target = t[2]]
    /\ UNCHANGED <<context, paused, seq, held, last, outs, delays>>

Pause ==
    /\ Incident /\ ~paused /\ paused' = TRUE
    /\ UNCHANGED <<sim, context, seq, held, last, outs, delays>>

\* Without an answer of the subscriber the numbers go on where they were; with one, there is
\* a gap of what was paused.
Start(jsep) ==
    /\ paused /\ paused' = FALSE
    /\ context' = [context EXCEPT !.seq_reset = @ \/ ~jsep]
    /\ delays' = IF jsep /\ delays = "none" THEN "gaps" ELSE delays
    /\ UNCHANGED <<sim, seq, held, packets, incidents, last, outs>>

Next ==
    \/ \E s \in Substreams, k \in Kinds : Packet(s, k[1], k[2])
    \/ \E s \in Substreams, tid \in Layers : Hold(s, tid)
    \/ \E h \in held : Late(h)
    \/ Lapse \/ Pause \/ \E jsep \in BOOLEAN : Start(jsep)
    \/ \E t \in Targets : Configure(t)

Spec == Init /\ [][Next]_vars

-----------------------------------------------------------------------------
TypeOK ==
    /\ sim.substream \in Substreams \union {-1} /\ sim.substream_target \in 0 .. 2
    /\ sim.target_temp \in -1 .. 2 /\ sim.templayer \in Layers \union {-1}
    /\ sim.last_relayed \in {"never", "lately", "long ago"}
    /\ context.last_seq \in 0 .. SeqMod - 1 /\ context.base_seq \in 0 .. SeqMod - 1
    /\ paused \in BOOLEAN /\ delays \in {"none", "gaps", "crossed"} /\ outs \subseteq 0 .. SeqMod - 1

\* A subscriber gets one stream out of the substreams.  No two of its packets have the same
\* sequence number, whatever was dropped, switched and paused between them.  A late packet
\* that comes after the base of its stream has moved, or is the last one relayed when it
\* moves, is the exception: numbers are computed with the wrong base.  The first packet of
\* another substream is a keyframe, and a fallback is never to the highest substream.
LayersSound ==
    /\ delays # "crossed" => last.fresh
    /\ ~last.cut
    /\ sim.target_temp # -1 => sim.target_temp < 2

\* Nothing the server does looks like a loss: while no packet is late, the numbers of the
\* packets a subscriber gets follow each other without a gap, over changes of the
\* substream, packets dropped for their temporal layer, and pauses (unless the start that
\* ends one has an answer with it).
NumbersFollow ==
    [][delays' = "none" /\ last' # last => last'.seq = Seq16(last.seq + 1)]_vars
=============================================================================
