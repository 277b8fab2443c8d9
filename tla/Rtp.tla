-------------------------------- MODULE Rtp ---------------------------------
(***************************************************************************)
(* RTP switching contexts (rtp.c): how the sequence numbers and timestamps *)
(* of a relayed stream stay coherent when its source changes, pauses, or   *)
(* has a clock that runs too fast or too slow.                             *)
(*                                                                         *)
(* A context has the same fields, and the code the same lines, for audio   *)
(* and for video; khz is the rate of its timestamps.  Sequence numbers     *)
(* have their 16 bits.  TsMod is 2^32 in the code.  Times are milliseconds *)
(* from 1, and 0 is "not yet", as in the code, which has microseconds.     *)
(***************************************************************************)
EXTENDS RtpParameters

\* Unsigned and signed values of the width of a sequence number and of a timestamp.
Seq16(n) == n % SeqMod
Ts32(n) == n % TsMod
Signed32(n) == IF Ts32(n) >= TsMod \div 2 THEN Ts32(n) - TsMod ELSE Ts32(n)

\* Division of C, which rounds towards zero.
Quotient(n, d) == IF n >= 0 THEN n \div d ELSE -((-n) \div d)

Abs(n) == IF n >= 0 THEN n ELSE -n

\* Have the numbers a step of less than half of their range forward to go from m to n?
Forward(m, n, mod) == (n - m) % mod < mod \div 2

-----------------------------------------------------------------------------
\* janus_rtp_switching_context_reset.
ContextReset ==
    [last_ssrc |-> 0, last_ts |-> 0, base_ts |-> 0, base_ts_prev |-> 0, prev_ts |-> 0, target_ts |-> 0,
     start_ts |-> 0, last_seq |-> 0, prev_seq |-> 0, base_seq |-> 0, base_seq_prev |-> 0,
     seq_reset |-> FALSE, new_ssrc |-> FALSE, seq_offset |-> 0, prev_delay |-> 0, active_delay |-> 0,
     ts_offset |-> 0, last_time |-> 0, reference_time |-> 0, start_time |-> 0, evaluating_start_time |-> 0]

\* What is left of the old source when a packet of a new one comes: the time between them
\* is the distance of their timestamps.
Switch(c, ssrc, seq, ts, now) ==
    LET diff == (now - c.last_time) * khz
        step == IF c.last_time = 0 THEN 0 ELSE IF diff = 0 THEN 1 ELSE diff
    IN  [c EXCEPT !.last_ssrc = ssrc, !.new_ssrc = TRUE,
                  !.base_ts = ts, !.base_ts_prev = Ts32(c.last_ts + step), !.last_ts = Ts32(c.last_ts + step),
                  !.base_seq = seq, !.base_seq_prev = c.last_seq]

\* The sequence numbers were paused.
SeqReset(c, seq) ==
    IF c.seq_reset THEN [c EXCEPT !.seq_reset = FALSE, !.base_seq_prev = c.last_seq, !.base_seq = seq] ELSE c

\* janus_rtp_header_update: the packet leaves with last_seq and last_ts.
header_update(c, ssrc, seq, ts, now) ==
    LET s == IF ssrc # c.last_ssrc THEN Switch(c, ssrc, seq, ts, now) ELSE c
        r == SeqReset(s, seq)
    IN  [r EXCEPT !.prev_ts = r.last_ts, !.last_ts = Ts32(ts - r.base_ts + r.base_ts_prev),
                  !.prev_seq = r.last_seq, !.last_seq = Seq16(seq - r.base_seq + r.base_seq_prev + 1),
                  !.last_time = now]

-----------------------------------------------------------------------------
(* janus_rtp_skew_compensate_audio and _video: a context, the status (the  *)
(* packet is dropped if it is negative), and whether the header takes the  *)
(* offsets.                                                                *)

skew_th == 120 * khz          \* RTP_AUDIO_SKEW_TH_MS, RTP_VIDEO_SKEW_TH_MS
WaitTime == 5000              \* SKEW_DETECTION_WAIT_TIME_SECS/2

NewSsrc(c, now) ==
    IF c.new_ssrc
      THEN [c EXCEPT !.reference_time = now, !.start_time = 0, !.evaluating_start_time = 0, !.start_ts = 0,
                     !.active_delay = 0, !.prev_delay = 0, !.seq_offset = 0, !.ts_offset = 0, !.target_ts = 0,
                     !.new_ssrc = FALSE]
      ELSE c

StartEvaluation(c, now) ==
    [c EXCEPT !.start_time = now, !.evaluating_start_time = now, !.start_ts = c.last_ts]

Unadjusted(c) == [c |-> c, status |-> 0, fixed |-> FALSE]
Adjusted(c, status) == [c |-> c, status |-> status, fixed |-> TRUE]

\* The evaluation phase, which starts again while the delay is not stable.
Evaluate(c, offset, now) ==
    Unadjusted(IF now - c.evaluating_start_time > WaitTime THEN [c EXCEPT !.evaluating_start_time = 0]
               ELSE IF Abs(offset) <= skew_th \div 2 THEN c
               ELSE StartEvaluation(c, now))

\* Too slow a source: timestamps and sequence numbers jump.
Jump(c, delay) ==
    LET ts_incr == Ts32(c.last_ts - c.prev_ts)
        jump == Seq16(Ts32(skew_th + ts_incr - 1) \div ts_incr)
    IN  Adjusted([c EXCEPT !.active_delay = delay, !.ts_offset = @ + skew_th, !.seq_offset = @ + jump], jump)

\* Mutant: the number of a dropped packet is not used for the next one.
DropGap(c) == Adjusted(c, -1)

\* Too fast a source: packets are dropped until its timestamps are at the target.
Drop(c) == Adjusted([c EXCEPT !.seq_offset = @ - 1], -1)
StartDrop(c, delay) ==
    LET target == Ts32(c.last_ts + skew_th)
    IN  Drop([c EXCEPT !.active_delay = delay, !.ts_offset = @ - skew_th,
                       !.target_ts = IF target = 0 THEN 1 ELSE target])

\* The analysis of a packet that follows the one before it.
Analyse(c, now) ==
    LET expected_ts == Ts32((now - c.start_time) * khz + c.start_ts)
        delay == Quotient(63 * c.prev_delay + Signed32(c.last_ts - expected_ts), 64)
        offset == c.active_delay - delay
        d == [c EXCEPT !.prev_delay = delay]
    IN  IF c.evaluating_start_time > 0 THEN Evaluate(d, offset, now)
        ELSE IF offset >= skew_th THEN Jump(d, delay)
        ELSE IF offset <= -skew_th THEN StartDrop(d, delay)
        ELSE Adjusted(d, 0)

skew_compensate(context, now) ==
    LET n == NewSsrc(context, now)
        c == IF n.start_time = 0 THEN StartEvaluation(n, now) ELSE n
        t == [c EXCEPT !.target_ts = 0]
    IN  IF now - n.reference_time < WaitTime THEN Unadjusted(n)
        ELSE IF c.target_ts > 0 /\ Signed32(c.target_ts - c.last_ts) > 0 THEN Drop(c)
        ELSE IF c.last_seq = c.prev_seq + 1 /\ c.last_ts # c.prev_ts THEN Analyse(t, now)
        ELSE Adjusted(t, 0)

\* The numbers of the header after the compensation.
FixedSeq(r) == IF r.fixed THEN Seq16(r.c.last_seq + r.c.seq_offset) ELSE r.c.last_seq
FixedTs(r) == IF r.fixed THEN Ts32(r.c.last_ts + r.c.ts_offset) ELSE r.c.last_ts
=============================================================================
