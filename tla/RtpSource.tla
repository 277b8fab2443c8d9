----------------------------- MODULE RtpSource ------------------------------
(***************************************************************************)
(* A source of a Streaming mountpoint whose clock is not ours              *)
(* (plugins/janus_streaming.c with askew or vskew): every packet goes      *)
(* through header_update and skew_compensate, and is dropped or relayed.   *)
(***************************************************************************)
EXTENDS Rtp

CONSTANTS Arrivals,      \* pairs: milliseconds since the last packet, by our clock and by the timestamp
          StartTs,
          MaxPackets,    \* bound: packets
          MaxTroubles    \* bound: packets lost on their way here and changes of the source's SSRC

VARIABLES context,
          now, ssrc, seq, ts,         \* the last packet of the source
          packets, troubles,
          out,                        \* the last two packets relayed
          dropped                     \* packets dropped since

vars == <<context, now, ssrc, seq, ts, packets, troubles, out, dropped>>

NoPacket == [ssrc |-> 0, seq |-> 0, ts |-> 0, inseq |-> 0, jump |-> 0, dropped |-> 0, ahead |-> FALSE]

Init ==
    /\ context = ContextReset
    /\ now = 1 /\ ssrc = 1 /\ seq = StartSeq /\ ts = StartTs
    /\ packets = 0 /\ troubles = 0
    /\ out = <<NoPacket, NoPacket>> /\ dropped = 0

\* A packet comes, dt after the last, with a timestamp of dts later.
Packet(dt, dts, lost) ==
    LET h == header_update(context, ssrc, Seq16(seq + 1 + lost), Ts32(ts + dts * khz), now + dt)
        r == skew_compensate(h, now + dt)
    IN
    /\ packets < MaxPackets /\ packets' = packets + 1
    /\ troubles + lost <= MaxTroubles /\ troubles' = troubles + lost
    /\ now' = now + dt /\ seq' = Seq16(seq + 1 + lost) /\ ts' = Ts32(ts + dts * khz)
    /\ context' = r.c
    /\ IF r.status < 0
         THEN dropped' = dropped + 1 /\ UNCHANGED out
         ELSE /\ dropped' = 0
              /\ out' = <<out[2], [ssrc |-> ssrc, seq |-> FixedSeq(r), ts |-> FixedTs(r), inseq |-> seq',
                                   jump |-> r.status, dropped |-> dropped,
                                   ahead |-> r.c.seq_offset > 0 \/ r.c.ts_offset > 0]>>
    /\ UNCHANGED ssrc

\* The source starts again, with another SSRC and other numbers.
NewSource ==
    /\ packets < MaxPackets /\ troubles < MaxTroubles /\ troubles' = troubles + 1
    /\ ssrc' = ssrc + 1 /\ seq' = Seq16(seq + 7) /\ ts' = Ts32(ts + 1000)
    /\ UNCHANGED <<context, now, packets, out, dropped>>

Next == NewSource \/ \E a \in Arrivals, lost \in 0 .. 1 : Packet(a[1], a[2], lost)

Spec == Init /\ [][Next]_vars

-----------------------------------------------------------------------------
TypeOK ==
    /\ context.last_seq \in 0 .. SeqMod - 1 /\ context.last_ts \in 0 .. TsMod - 1
    /\ context.seq_offset \in -MaxPackets .. SeqMod /\ dropped \in 0 .. MaxPackets
    /\ \A p \in {out[1], out[2]} : p.seq \in 0 .. SeqMod - 1 /\ p.ts \in 0 .. TsMod - 1

\* Two packets relayed one after the other.
Followed == out[1].ssrc # 0

\* What a viewer gets is a stream whose numbers make sense, whatever the clock of the
\* source does (rtp.h: "coherent seq/ts increases").  Packets of one source have increasing
\* sequence numbers, without a gap but for those of a jump and of packets lost before, and
\* timestamps that do not go back, also where the compensation begins, jumps or drops.  A
\* new source goes on after the old one, unless the old one's numbers had been moved ahead:
\* its offsets are forgotten with it.
SourceCoherent ==
    LET p == out[1]
        q == out[2]
    IN
    /\ Followed /\ (p.ssrc = q.ssrc \/ ~p.ahead) =>
         Forward(Seq16(p.seq + 1), q.seq, SeqMod) /\ Forward(p.ts, q.ts, TsMod)
    /\ Followed /\ p.ssrc = q.ssrc /\ q.jump = 0 /\ Seq16(q.inseq - p.inseq) = 1 + q.dropped =>
         q.seq = Seq16(p.seq + 1)
=============================================================================
