----------------------------- MODULE RtpProofs ------------------------------
(***************************************************************************)
(* Proof that the numbers of a relayed stream follow each other.           *)
(***************************************************************************)
EXTENDS RtpLayers, TLAPS

ContextType ==
    [last_ssrc : Int, last_ts : Int, base_ts : Int, base_ts_prev : Int, prev_ts : Int, target_ts : Int,
     start_ts : Int, last_seq : Int, prev_seq : Int, base_seq : Int, base_seq_prev : Int,
     seq_reset : BOOLEAN, new_ssrc : BOOLEAN, seq_offset : Int, prev_delay : Int, active_delay : Int,
     ts_offset : Int, last_time : Int, reference_time : Int, start_time : Int, evaluating_start_time : Int]

\* Sequence numbers are modular: a step of the input is a step of the output, and no step
\* if the base makes it too.
LEMMA SeqNext ==
    ASSUME NEW n \in Int, NEW b \in Int, NEW p \in Int
    PROVE  /\ Seq16(n) \in Int
           /\ Seq16(Seq16(n + 1) - b + p + 1) = Seq16(Seq16(n - b + p + 1) + 1)
           /\ Seq16(Seq16(n + 1) - Seq16(b + 1) + p + 1) = Seq16(n - b + p + 1)
BY SMTT(40) DEF Seq16, SeqMod

\* A timestamp is an integer: reducing one modulo its width stays among the integers.
LEMMA TsType ==
    ASSUME NEW n \in Int
    PROVE  Ts32(n) \in Int
BY RtpAssumption DEF Ts32

\* A context stays one when a field is given a value of its type.
LEMMA Fields ==
    ASSUME NEW c \in ContextType, NEW v \in Int, NEW b \in BOOLEAN
    PROVE  /\ [c EXCEPT !.last_ssrc = v] \in ContextType
           /\ [c EXCEPT !.last_ts = v] \in ContextType
           /\ [c EXCEPT !.base_ts = v] \in ContextType
           /\ [c EXCEPT !.base_ts_prev = v] \in ContextType
           /\ [c EXCEPT !.prev_ts = v] \in ContextType
           /\ [c EXCEPT !.last_seq = v] \in ContextType
           /\ [c EXCEPT !.prev_seq = v] \in ContextType
           /\ [c EXCEPT !.base_seq = v] \in ContextType
           /\ [c EXCEPT !.base_seq_prev = v] \in ContextType
           /\ [c EXCEPT !.last_time = v] \in ContextType
           /\ [c EXCEPT !.seq_reset = b] \in ContextType
           /\ [c EXCEPT !.new_ssrc = b] \in ContextType
BY SMTT(40) DEF ContextType

\* The fields the numbers of a stream are computed from.
Numbers(c) == <<c.last_ssrc, c.last_seq, c.base_seq, c.base_seq_prev, c.seq_reset>>

\* Another SSRC (janus_rtp_header_update, first branch): the new stream starts at the packet
\* that came, and goes on after the last number that was sent.
LEMMA SwitchFacts ==
    ASSUME NEW c \in ContextType, NEW s \in Int, NEW n \in Int
    PROVE  /\ Switch(c, s, n, 0, 1) \in ContextType
           /\ Numbers(Switch(c, s, n, 0, 1)) = <<s, c.last_seq, n, c.last_seq, c.seq_reset>>
<1> DEFINE diff == (1 - c.last_time) * khz
           step == IF c.last_time = 0 THEN 0 ELSE IF diff = 0 THEN 1 ELSE diff
           t == Ts32(c.last_ts + step)
<1>1. c.last_time \in Int /\ c.last_ts \in Int /\ c.last_seq \in Int
  BY DEF ContextType
<1>2. step \in Int
  BY <1>1, RtpAssumption
<1>3. t \in Int
  BY <1>1, <1>2, TsType
<1>4. Switch(c, s, n, 0, 1) = [c EXCEPT !.last_ssrc = s, !.new_ssrc = TRUE, !.base_ts = 0, !.base_ts_prev = t,
                                        !.last_ts = t, !.base_seq = n, !.base_seq_prev = c.last_seq]
  BY DEF Switch
<1> HIDE DEF t
<1> DEFINE c1 == [c EXCEPT !.last_ssrc = s]
           c2 == [c1 EXCEPT !.new_ssrc = TRUE]
           c3 == [c2 EXCEPT !.base_ts = 0]
           c4 == [c3 EXCEPT !.base_ts_prev = t]
           c5 == [c4 EXCEPT !.last_ts = t]
           c6 == [c5 EXCEPT !.base_seq = n]
           c7 == [c6 EXCEPT !.base_seq_prev = c.last_seq]
<1>5. Switch(c, s, n, 0, 1) = c7
  BY <1>4
<1>6. c7 \in ContextType
  <2> HIDE DEF c1, c2, c3, c4, c5, c6
  <2>1. c1 \in ContextType
    BY Fields, Zenon DEF c1
  <2>2. c2 \in ContextType
    BY <2>1, Fields, Zenon DEF c2
  <2>3. c3 \in ContextType
    <3>1. \A v \in Int : [c2 EXCEPT !.base_ts = v] \in ContextType
      BY <2>2, Fields, Zenon
    <3>2. QED
      BY <3>1 DEF c3
  <2>4. c4 \in ContextType
    BY <2>3, <1>3, Fields, Zenon DEF c4
  <2>5. c5 \in ContextType
    BY <2>4, <1>3, Fields, Zenon DEF c5
  <2>6. c6 \in ContextType
    BY <2>5, Fields, Zenon DEF c6
  <2>7. QED
    BY <2>6, <1>1, Fields, Zenon
<1>7. Numbers(Switch(c, s, n, 0, 1)) = <<s, c.last_seq, n, c.last_seq, c.seq_reset>>
  BY <1>4, ZenonT(40) DEF ContextType, Numbers
<1>8. QED
  BY <1>5, <1>6, <1>7

\* seq_reset (janus_rtp_header_update): the base moves to the packet that came, once.
LEMMA SeqResetFacts ==
    ASSUME NEW c \in ContextType, NEW n \in Int
    PROVE  /\ SeqReset(c, n) \in ContextType
           /\ Numbers(SeqReset(c, n)) = IF c.seq_reset THEN <<c.last_ssrc, c.last_seq, n, c.last_seq, FALSE>>
                                                       ELSE Numbers(c)
<1>1. CASE c.seq_reset
  <2> DEFINE c1 == [c EXCEPT !.seq_reset = FALSE]
             c2 == [c1 EXCEPT !.base_seq_prev = c.last_seq]
             c3 == [c2 EXCEPT !.base_seq = n]
  <2>1. c.last_seq \in Int
    BY DEF ContextType
  <2>2. SeqReset(c, n) = c3
    BY <1>1 DEF SeqReset
  <2>3. c1 \in ContextType
    BY Fields, Zenon
  <2>4. c2 \in ContextType
    <3> HIDE DEF c1
    <3> QED BY <2>1, <2>3, Fields, Zenon
  <2>5. c3 \in ContextType
    <3> HIDE DEF c2
    <3> QED BY <2>4, Fields, Zenon
  <2>6. Numbers(c3) = <<c.last_ssrc, c.last_seq, n, c.last_seq, FALSE>>
    BY DEF ContextType, Numbers
  <2>7. QED
    BY <1>1, <2>2, <2>5, <2>6, Zenon
<1>2. CASE ~c.seq_reset
  BY <1>2 DEF SeqReset
<1>3. QED
  BY <1>1, <1>2, Zenon

\* janus_rtp_header_update: after a switch or a reset the packet gets the number that follows
\* the last one sent, otherwise its distance from the base decides.
LEMMA UpdateFacts ==
    ASSUME NEW c \in ContextType, NEW s \in Int, NEW n \in Int
    PROVE  /\ header_update(c, s, n, 0, 1) \in ContextType
           /\ Numbers(header_update(c, s, n, 0, 1)) =
                IF s # c.last_ssrc \/ c.seq_reset
                  THEN <<s, Seq16(c.last_seq + 1), n, c.last_seq, FALSE>>
                  ELSE <<s, Seq16(n - c.base_seq + c.base_seq_prev + 1), c.base_seq, c.base_seq_prev, FALSE>>
<1> DEFINE w == IF s # c.last_ssrc THEN Switch(c, s, n, 0, 1) ELSE c
           r == SeqReset(w, n)
           t == Ts32(0 - r.base_ts + r.base_ts_prev)
           q == Seq16(n - r.base_seq + r.base_seq_prev + 1)
<1>1. w \in ContextType /\ Numbers(w) = IF s # c.last_ssrc THEN <<s, c.last_seq, n, c.last_seq, c.seq_reset>>
                                                           ELSE Numbers(c)
  BY SwitchFacts
<1>2. header_update(c, s, n, 0, 1) =
        [r EXCEPT !.prev_ts = r.last_ts, !.last_ts = t, !.prev_seq = r.last_seq, !.last_seq = q, !.last_time = 1]
  BY DEF header_update
<1> HIDE DEF w
<1>3. r \in ContextType /\ Numbers(r) = IF w.seq_reset THEN <<w.last_ssrc, w.last_seq, n, w.last_seq, FALSE>>
                                                       ELSE Numbers(w)
  BY <1>1, SeqResetFacts, Zenon
<1>4. Numbers(r) = IF s # c.last_ssrc \/ c.seq_reset
                     THEN <<s, c.last_seq, n, c.last_seq, FALSE>>
                     ELSE <<s, c.last_seq, c.base_seq, c.base_seq_prev, FALSE>>
  <2>1. CASE s # c.last_ssrc
    <3>1. /\ w.last_ssrc = s /\ w.last_seq = c.last_seq /\ w.base_seq = n /\ w.base_seq_prev = c.last_seq
          /\ w.seq_reset = c.seq_reset
      BY <1>1, <2>1 DEF Numbers
    <3>2. w.seq_reset \in BOOLEAN
      BY <1>1 DEF ContextType
    <3>3. Numbers(w) = <<s, c.last_seq, n, c.last_seq, w.seq_reset>>
      BY <1>1, <2>1, <3>1
    <3>4. Numbers(r) = <<s, c.last_seq, n, c.last_seq, FALSE>>
      BY <1>3, <3>1, <3>2, <3>3, Zenon
    <3>5. QED
      BY <2>1, <3>4, Zenon
  <2>2. CASE s = c.last_ssrc /\ c.seq_reset
    BY <1>1, <1>3, <2>2, Zenon DEF Numbers
  <2>3. CASE s = c.last_ssrc /\ ~c.seq_reset
    <3>1. c.seq_reset = FALSE
      BY <2>3 DEF ContextType
    <3>2. Numbers(r) = Numbers(c)
      BY <1>1, <1>3, <2>3 DEF Numbers
    <3>3. QED
      BY <2>3, <3>1, <3>2, Zenon DEF Numbers
  <2>4. QED
    BY <2>1, <2>2, <2>3, Zenon
<1> HIDE DEF r
<1>5. /\ r.last_ts \in Int /\ r.base_ts \in Int /\ r.base_ts_prev \in Int
      /\ r.last_seq \in Int /\ r.base_seq \in Int /\ r.base_seq_prev \in Int
  BY <1>3 DEF ContextType
<1>6. t \in Int /\ q \in Int
  <2>1. 0 - r.base_ts + r.base_ts_prev \in Int /\ n - r.base_seq + r.base_seq_prev + 1 \in Int
    BY <1>5
  <2>2. \A m \in Int : Ts32(m) \in Int /\ Seq16(m) \in Int
    BY TsType, SeqNext
  <2>3. QED
    BY <2>1, <2>2
<1> HIDE DEF t, q
<1> DEFINE c1 == [r EXCEPT !.prev_ts = r.last_ts]
           c2 == [c1 EXCEPT !.last_ts = t]
           c3 == [c2 EXCEPT !.prev_seq = r.last_seq]
           c4 == [c3 EXCEPT !.last_seq = q]
           c5 == [c4 EXCEPT !.last_time = 1]
<1>7. header_update(c, s, n, 0, 1) = c5
  BY <1>2
<1>8. c5 \in ContextType
  <2> HIDE DEF c1, c2, c3, c4
  <2>1. c1 \in ContextType
    BY <1>3, <1>5, Fields, Zenon DEF c1
  <2>2. c2 \in ContextType
    BY <2>1, <1>6, Fields, Zenon DEF c2
  <2>3. c3 \in ContextType
    BY <2>2, <1>5, Fields, Zenon DEF c3
  <2>4. c4 \in ContextType
    BY <2>3, <1>6, Fields, Zenon DEF c4
  <2>5. \A v \in Int : [c4 EXCEPT !.last_time = v] \in ContextType
    BY <2>4, Fields, Zenon
  <2>6. QED
    BY <2>5
<1>9. Numbers(c5) = <<r.last_ssrc, q, r.base_seq, r.base_seq_prev, r.seq_reset>>
  BY <1>3 DEF ContextType, Numbers
<1>10. q = IF s # c.last_ssrc \/ c.seq_reset THEN Seq16(c.last_seq + 1)
                                              ELSE Seq16(n - c.base_seq + c.base_seq_prev + 1)
  <2>1. CASE s # c.last_ssrc \/ c.seq_reset
    <3>1. r.base_seq = n /\ r.base_seq_prev = c.last_seq
      BY <1>4, <2>1 DEF Numbers
    <3>2. n - n + c.last_seq + 1 = c.last_seq + 1
      BY DEF ContextType
    <3>3. QED
      BY <2>1, <3>1, <3>2 DEF q
  <2>2. CASE ~(s # c.last_ssrc \/ c.seq_reset)
    BY <1>4, <2>2 DEF Numbers, q
  <2>3. QED
    BY <2>1, <2>2
<1>11. QED
  <2>1. Numbers(c5) = IF s # c.last_ssrc \/ c.seq_reset
                        THEN <<s, q, n, c.last_seq, FALSE>>
                        ELSE <<s, q, c.base_seq, c.base_seq_prev, FALSE>>
    BY <1>4, <1>9, Zenon DEF Numbers
  <2>2. QED
    BY <1>7, <1>8, <1>10, <2>1, Zenon

-----------------------------------------------------------------------------
SimType ==
    [substream : Substreams \union {-1}, substream_target : Int, target_temp : Int,
     templayer : Layers \union {-1}, templayer_target : Layers, last_relayed : {"never", "lately", "long ago"}]

\* A packet that is relayed, or skipped for its temporal layer, is of the substream the
\* context has then; the substream changes with keyframes alone, and these are relayed.
LEMMA ProcessFacts ==
    ASSUME NEW c \in SimType, NEW s \in Substreams, NEW key \in BOOLEAN, NEW tid \in Layers,
           key => tid = 0
    PROVE  LET r == process_rtp(c, s, key, tid)
           IN  /\ r.c \in SimType
               /\ r.relay \/ r.skip => r.c.substream = s
               /\ r.skip => ~r.relay /\ r.c.substream = c.substream
               /\ ~r.relay /\ ~r.skip => r.c.substream = c.substream /\ (c.substream = -1 \/ c.substream # s)
               /\ ~key => r.c.substream = c.substream
<1> USE StreamsAssumption
<1> DEFINE d == TempDone(c, s)
           p == Pick(d, s, key)
           f == FallBack(p, s)
           t == Temporal(f, tid)
           above == t.templayer # -1 /\ tid > t.templayer
<1>1. d \in SimType /\ d.substream = c.substream
  <2>1. \A n \in Int : LET x == [c EXCEPT !.target_temp = n] IN x \in SimType /\ x.substream = c.substream
    BY Zenon DEF SimType
  <2>2. -1 \in Int
    OBVIOUS
  <2>3. QED
    BY <2>1, <2>2 DEF TempDone
<1> HIDE DEF d
<1>2. p \in SimType /\ (p.substream = c.substream \/ (key /\ p.substream = s))
  BY <1>1, Zenon DEF Pick, SimType
<1> HIDE DEF p
<1>3. f \in SimType /\ f.substream = p.substream
  <2>1. p.target_temp \in Int /\ p.substream_target \in Int
    BY <1>2, Zenon DEF SimType
  <2>2. \A n \in Int : LET x == [p EXCEPT !.last_relayed = "lately", !.target_temp = n]
                        IN  x \in SimType /\ x.substream = p.substream
    BY <1>2, Zenon DEF SimType
  <2>3. LET x == [p EXCEPT !.last_relayed = "lately"] IN x \in SimType /\ x.substream = p.substream
    BY <1>2, Zenon DEF SimType
  <2>4. (IF p.substream # s /\ p.target_temp # 0 /\ p.substream_target > s
           THEN IF p.target_temp = -1 THEN p.substream_target - 1 ELSE p.target_temp - 1
           ELSE p.target_temp) \in Int
    BY <2>1
  <2>5. QED
    BY <1>2, <2>2, <2>3, <2>4, Zenon DEF FallBack
<1> HIDE DEF f
<1>4. t \in SimType /\ t.substream = f.substream
  BY <1>3, Zenon DEF Temporal, SimType
<1> HIDE DEF t
<1>5. above \in BOOLEAN /\ (tid = 0 => ~above)
  <2>1. t.templayer \in Nat \union {-1}
    BY <1>4, Zenon DEF SimType
  <2>2. QED
    BY <2>1
<1>6. process_rtp(c, s, key, tid) =
        IF p.substream = -1 THEN [c |-> p, relay |-> FALSE, skip |-> FALSE]
        ELSE IF f.substream # s THEN [c |-> f, relay |-> FALSE, skip |-> FALSE]
        ELSE [c |-> t, relay |-> ~above, skip |-> above]
  BY SMTT(40) DEF process_rtp, d, p, f, t
<1> HIDE DEF above
<1>7. s # -1
  OBVIOUS
<1>8. CASE p.substream = -1
  BY <1>2, <1>6, <1>7, <1>8
<1>9. CASE p.substream # -1 /\ f.substream # s
  BY <1>2, <1>3, <1>6, <1>9
<1>10. CASE p.substream # -1 /\ f.substream = s
  <2>1. process_rtp(c, s, key, tid) = [c |-> t, relay |-> ~above, skip |-> above]
    BY <1>6, <1>10
  <2>2. t.substream = s /\ (above => t.substream = c.substream) /\ (~key => t.substream = c.substream)
    BY <1>2, <1>3, <1>4, <1>5, <1>10
  <2> DEFINE r == process_rtp(c, s, key, tid)
  <2>3. r.c = t /\ r.relay = ~above /\ r.skip = above
    BY <2>1
  <2> HIDE DEF r
  <2>4. QED
    BY <1>4, <1>5, <2>2, <2>3, Zenon DEF r
<1>11. QED
  BY <1>8, <1>9, <1>10, SMTT(40)

-----------------------------------------------------------------------------
\* The last number relayed is the one the context would give to the last packet of the
\* substream: nothing was relayed, skipped or left out without the base knowing of it.
InStep ==
    context.last_seq = Seq16(seq[sim.substream] - context.base_seq + context.base_seq_prev + 1)

\* Strengthens NumbersFollow to an inductive invariant: the context and the simulcasting
\* context are of the same source and, while nothing was late, in step with it unless the
\* next packet sets the base again.
StreamInv ==
    /\ sim \in SimType /\ context \in ContextType /\ seq \in [Substreams -> Int] /\ paused \in BOOLEAN
    /\ held \subseteq [substream : Substreams, seq : Int, tid : Layers, base : {Base(c) : c \in ContextType}]
    /\ held # {} => delays # "none"
    /\ last.seq = context.last_seq
    /\ context.last_ssrc = sim.substream + 1
    /\ delays = "none" /\ sim.substream # -1 /\ ~paused /\ ~context.seq_reset => InStep

\* A packet of the substream s with the number n, in order or late.
LEMMA RelayFacts ==
    ASSUME StreamInv, NEW s \in Substreams, NEW n \in Int, NEW key \in BOOLEAN, NEW tid \in Layers,
           key => tid = 0, relay_rtp_packet(s, n, key, tid), ~paused
    PROVE  /\ sim' \in SimType /\ context' \in ContextType
           /\ last'.seq = context'.last_seq
           /\ context'.last_ssrc = sim'.substream + 1
           /\ delays = "none" /\ n = Seq16(seq[s] + 1) =>
                /\ last' # last => last'.seq = Seq16(last.seq + 1)
                /\ sim'.substream # -1 /\ ~context'.seq_reset =>
                     context'.last_seq = Seq16((IF sim'.substream = s THEN n ELSE seq[sim'.substream])
                                                 - context'.base_seq + context'.base_seq_prev + 1)
<1> DEFINE r == process_rtp(sim, s, key, tid)
           c == header_update(context, s + 1, n, 0, 1)
<1>1. /\ sim \in SimType /\ context \in ContextType /\ seq \in [Substreams -> Int]
      /\ last.seq = context.last_seq /\ context.last_ssrc = sim.substream + 1
      /\ delays = "none" /\ sim.substream # -1 /\ ~context.seq_reset => InStep
  BY DEF StreamInv
<1>2. /\ context.last_seq \in Int /\ context.base_seq \in Int /\ context.base_seq_prev \in Int
      /\ context.seq_reset \in BOOLEAN /\ context.last_ssrc \in Int
  BY <1>1 DEF ContextType
<1>3. /\ r.c \in SimType
      /\ r.relay \/ r.skip => r.c.substream = s
      /\ r.skip => ~r.relay /\ r.c.substream = sim.substream
      /\ ~r.relay /\ ~r.skip => r.c.substream = sim.substream /\ (sim.substream = -1 \/ sim.substream # s)
  BY <1>1, ProcessFacts
<1>4. s + 1 \in Int /\ s # -1
  BY StreamsAssumption
<1>5. /\ c \in ContextType
      /\ Numbers(c) = IF s + 1 # context.last_ssrc \/ context.seq_reset
           THEN <<s + 1, Seq16(context.last_seq + 1), n, context.last_seq, FALSE>>
           ELSE <<s + 1, Seq16(n - context.base_seq + context.base_seq_prev + 1),
                  context.base_seq, context.base_seq_prev, FALSE>>
  BY <1>1, <1>4, UpdateFacts, ZenonT(40)
<1>6. /\ sim' = r.c
      /\ r.relay => context' = c /\ last'.seq = c.last_seq
      /\ ~r.relay => context' = (IF r.skip THEN Skip(context) ELSE context) /\ last' = last
  BY DEF relay_rtp_packet
<1> HIDE DEF r, c
<1>7. CASE r.relay
  <2>1. sim' \in SimType /\ sim'.substream = s /\ context' = c /\ last'.seq = c.last_seq
    BY <1>3, <1>6, <1>7
  <2>2. c.last_ssrc = s + 1
    BY <1>5 DEF Numbers
  <2>3. ASSUME delays = "none", n = Seq16(seq[s] + 1)
        PROVE  /\ c.last_seq = Seq16(last.seq + 1)
               /\ c.last_seq = Seq16(n - c.base_seq + c.base_seq_prev + 1)
    <3>1. CASE s + 1 # context.last_ssrc \/ context.seq_reset
      <4>1. c.last_seq = Seq16(context.last_seq + 1) /\ c.base_seq = n /\ c.base_seq_prev = context.last_seq
        BY <1>5, <3>1 DEF Numbers
      <4>2. n - n + context.last_seq + 1 = context.last_seq + 1
        BY <1>2
      <4>3. QED
        BY <1>1, <4>1, <4>2
    <3>2. CASE ~(s + 1 # context.last_ssrc \/ context.seq_reset)
      <4>1. /\ c.last_seq = Seq16(n - context.base_seq + context.base_seq_prev + 1)
            /\ c.base_seq = context.base_seq /\ c.base_seq_prev = context.base_seq_prev
        BY <1>5, <3>2 DEF Numbers
      <4>2. sim.substream = s
        <5>1. sim.substream \in Substreams \union {-1}
          BY <1>1, Zenon DEF SimType
        <5>2. sim.substream \in Int
          <6>1. Substreams \subseteq Int /\ -1 \in Int
            BY StreamsAssumption
          <6>2. QED
            BY <5>1, <6>1, Zenon
        <5>3. QED
          BY <1>1, <3>2, <5>2, StreamsAssumption
      <4>3. context.last_seq = Seq16(seq[s] - context.base_seq + context.base_seq_prev + 1)
        BY <1>1, <1>4, <2>3, <3>2, <4>2 DEF InStep
      <4>4. seq[s] \in Int
        BY <1>1
      <4>5. Seq16(n - context.base_seq + context.base_seq_prev + 1) = Seq16(context.last_seq + 1)
        <5>1. Seq16(Seq16(seq[s] + 1) - context.base_seq + context.base_seq_prev + 1)
                = Seq16(Seq16(seq[s] - context.base_seq + context.base_seq_prev + 1) + 1)
          <6>1. PICK x \in Int, b \in Int, p \in Int :
                  x = seq[s] /\ b = context.base_seq /\ p = context.base_seq_prev
            BY <1>2, <4>4
          <6>2. Seq16(Seq16(x + 1) - b + p + 1) = Seq16(Seq16(x - b + p + 1) + 1)
            <7>1. x \in Int /\ b \in Int /\ p \in Int
              BY <6>1
            <7>2. QED
              BY <7>1, SMT DEF Seq16, SeqMod
          <6>3. QED
            BY <6>1, <6>2
        <5>2. QED
          BY <2>3, <4>3, <5>1
      <4>6. QED
        BY <1>1, <4>1, <4>5
    <3>3. QED
      BY <3>1, <3>2
  <2>4. QED
    BY <1>5, <2>1, <2>2, <2>3
<1>8. CASE r.skip
  <2>1. sim' \in SimType /\ sim'.substream = s /\ sim.substream = s /\ last' = last /\ context' = Skip(context)
    BY <1>3, <1>6, <1>8
  <2>2. Seq16(context.base_seq + 1) \in Int
    <3>1. context.base_seq + 1 \in Int
      BY <1>2
    <3>2. QED
      BY <3>1, SeqNext, Zenon
  <2>3. Skip(context) \in ContextType
    BY <1>1, <2>2, Fields, Zenon DEF Skip
  <2>4. /\ context'.last_seq = context.last_seq /\ context'.last_ssrc = context.last_ssrc
        /\ context'.base_seq = Seq16(context.base_seq + 1) /\ context'.base_seq_prev = context.base_seq_prev
        /\ context'.seq_reset = context.seq_reset
    BY <1>1, <2>1 DEF Skip, ContextType
  <2>5. ASSUME delays = "none", n = Seq16(seq[s] + 1), ~context'.seq_reset
        PROVE  context'.last_seq = Seq16(n - context'.base_seq + context'.base_seq_prev + 1)
    <3>1. context.last_seq = Seq16(seq[s] - context.base_seq + context.base_seq_prev + 1)
      BY <1>1, <1>4, <2>1, <2>4, <2>5 DEF InStep
    <3>2. seq[s] \in Int
      BY <1>1
    <3>3. Seq16(Seq16(seq[s] + 1) - Seq16(context.base_seq + 1) + context.base_seq_prev + 1)
            = Seq16(seq[s] - context.base_seq + context.base_seq_prev + 1)
      <4>1. PICK x \in Int, b \in Int, p \in Int :
              x = seq[s] /\ b = context.base_seq /\ p = context.base_seq_prev
        BY <1>2, <3>2
      <4>2. Seq16(Seq16(x + 1) - Seq16(b + 1) + p + 1) = Seq16(x - b + p + 1)
        <5>1. x \in Int /\ b \in Int /\ p \in Int
          BY <4>1
        <5>2. QED
          BY <5>1, SMT DEF Seq16, SeqMod
      <4>3. QED
        BY <4>1, <4>2
    <3>4. QED
      BY <2>4, <2>5, <3>1, <3>3
  <2>6. QED
    BY <1>1, <2>1, <2>3, <2>4, <2>5
<1>9. CASE ~r.relay /\ ~r.skip
  <2>1. sim' \in SimType /\ sim'.substream = sim.substream /\ last' = last /\ context' = context
    BY <1>3, <1>6, <1>9
  <2>2. sim.substream = -1 \/ sim.substream # s
    BY <1>3, <1>9
  <2>3. QED
    BY <1>1, <2>1, <2>2 DEF InStep
<1>10. QED
  BY <1>7, <1>8, <1>9

\* A subscription that was just made, with a context that relayed nothing.
LEMMA InitStream ==
    Init => StreamInv
<1> SUFFICES ASSUME Init PROVE StreamInv
  OBVIOUS
<1>1. sim \in SimType /\ sim.substream = -1
  <2>1. PICK t \in Targets : sim = SimReset(t)
    BY DEF Init
  <2>2. t[1] \in Int /\ t[2] \in Layers
    BY StreamsAssumption
  <2>3. QED
    BY <2>1, <2>2 DEF SimReset, SimType
<1>2. context \in ContextType /\ context.last_seq = 0 /\ context.last_ssrc = 0
  BY SMTT(40) DEF Init, ContextReset, ContextType
<1>3. seq \in [Substreams -> Int] /\ paused \in BOOLEAN /\ held = {} /\ last.seq = 0
  <2>1. StartSeq \in Int
    BY StreamsAssumption
  <2>2. QED
    BY <2>1, Zenon DEF Init
<1>4. QED
  BY <1>1, <1>2, <1>3 DEF StreamInv

\* What NumbersFollow asks of a step.
Follows == delays' = "none" /\ last' # last => last'.seq = Seq16(last.seq + 1)

\* janus_videoroom_relay_rtp_packet with the next packet of a substream: relayed, skipped or
\* dropped, it keeps the invariant, and what is sent follows what was sent.
LEMMA PacketStep ==
    ASSUME StreamInv, NEW s \in Substreams, NEW k \in Kinds, Packet(s, k[1], k[2])
    PROVE  StreamInv' /\ Follows
<1> DEFINE key == k[1]
           tid == k[2]
           n == Seq16(seq[s] + 1)
<1>1. key \in BOOLEAN /\ tid \in Layers /\ (key => tid = 0)
  BY DEF Kinds
<1>2. /\ seq' = [seq EXCEPT ![s] = n] /\ relay_rtp_packet(s, seq'[s], key, tid)
      /\ delays' = (IF Base(context') # Base(context) /\ ~Newest THEN "crossed" ELSE delays)
      /\ paused' = paused /\ held' = held
  BY DEF Packet
<1>3. /\ seq \in [Substreams -> Int] /\ paused \in BOOLEAN /\ last.seq = context.last_seq
      /\ context.last_ssrc = sim.substream + 1 /\ sim \in SimType /\ context \in ContextType
      /\ held \subseteq [substream : Substreams, seq : Int, tid : Layers, base : {Base(c) : c \in ContextType}]
      /\ held # {} => delays # "none"
  BY DEF StreamInv
<1>4. seq[s] + 1 \in Int
  BY <1>3
<1>5. n \in Int
  BY <1>4, SeqNext, Zenon
<1>6. seq' \in [Substreams -> Int] /\ seq'[s] = n
  BY <1>2, <1>3, <1>5
<1>7. held' # {} => delays' # "none"
  BY <1>2, <1>3
<1>8. delays' = "none" => delays = "none"
  BY <1>2
<1> HIDE DEF key, tid
<1>9. CASE paused
  <2>1. sim' = sim /\ context' = context /\ last' = last
    BY <1>2, <1>9 DEF relay_rtp_packet
  <2>2. StreamInv'
    BY <1>2, <1>3, <1>6, <1>7, <1>9, <2>1, ZenonT(40) DEF StreamInv
  <2>3. QED
    BY <2>1, <2>2 DEF Follows
<1>10. CASE ~paused
  <2>1. /\ sim' \in SimType /\ context' \in ContextType
        /\ last'.seq = context'.last_seq
        /\ context'.last_ssrc = sim'.substream + 1
        /\ delays = "none" =>
             /\ last' # last => last'.seq = Seq16(last.seq + 1)
             /\ sim'.substream # -1 /\ ~context'.seq_reset =>
                  context'.last_seq = Seq16((IF sim'.substream = s THEN n ELSE seq[sim'.substream])
                                              - context'.base_seq + context'.base_seq_prev + 1)
    <3>1. relay_rtp_packet(s, n, key, tid)
      BY <1>2, <1>6
    <3> HIDE DEF n
    <3>2. QED
      BY <1>1, <1>5, <1>10, <3>1, RelayFacts DEF n
  <2>2. sim'.substream # -1 =>
          (IF sim'.substream = s THEN n ELSE seq[sim'.substream]) = seq'[sim'.substream]
    BY <1>2, <1>3, <1>6, <2>1, Zenon DEF SimType
  <2>3. delays' = "none" /\ sim'.substream # -1 /\ ~context'.seq_reset => InStep'
    BY <1>8, <2>1, <2>2 DEF InStep
  <2>4. StreamInv'
    BY <1>2, <1>3, <1>6, <1>7, <2>1, <2>3, SMTT(40) DEF StreamInv
  <2>5. QED
    BY <1>8, <2>1, <2>4 DEF Follows
<1>11. QED
  BY <1>3, <1>9, <1>10

\* A packet that comes late is outside of the claim: once one was held back, delays says so.
LEMMA LateStep ==
    ASSUME StreamInv, NEW h \in held, Late(h)
    PROVE  StreamInv' /\ Follows
<1>1. /\ held' = held \ {h} /\ relay_rtp_packet(h.substream, h.seq, FALSE, h.tid)
      /\ delays' = (IF Base(context') # h.base \/ context.seq_reset THEN "crossed" ELSE delays)
      /\ paused' = paused /\ seq' = seq
  BY Zenon DEF Late
<1>2. /\ seq \in [Substreams -> Int] /\ paused \in BOOLEAN /\ last.seq = context.last_seq
      /\ context.last_ssrc = sim.substream + 1 /\ sim \in SimType /\ context \in ContextType
      /\ held \subseteq [substream : Substreams, seq : Int, tid : Layers, base : {Base(c) : c \in ContextType}]
      /\ delays # "none"
  BY DEF StreamInv
<1>3. h.substream \in Substreams /\ h.seq \in Int /\ h.tid \in Layers
  BY <1>2
<1>4. delays' # "none" /\ held' \subseteq held
  BY <1>1, <1>2
<1>5. /\ sim' \in SimType /\ context' \in ContextType
      /\ last'.seq = context'.last_seq
      /\ context'.last_ssrc = sim'.substream + 1
  <2>1. CASE paused
    BY <1>1, <1>2, <2>1 DEF relay_rtp_packet
  <2>2. CASE ~paused
    BY <1>1, <1>3, <2>2, RelayFacts, Zenon
  <2>3. QED
    BY <1>2, <2>1, <2>2
<1>6. StreamInv'
  BY <1>1, <1>2, <1>4, <1>5 DEF StreamInv
<1>7. QED
  BY <1>4, <1>6 DEF Follows

\* Requests of the subscriber (pause, start, configure), time that passes and packets that are
\* held back send nothing and keep the invariant.
LEMMA OtherStep ==
    ASSUME StreamInv,
           \/ \E s \in Substreams, tid \in Layers : Hold(s, tid)
           \/ Lapse \/ Pause \/ \E jsep \in BOOLEAN : Start(jsep)
           \/ \E t \in Targets : Configure(t)
           \/ UNCHANGED vars
    PROVE  StreamInv' /\ Follows
<1>1. /\ seq \in [Substreams -> Int] /\ paused \in BOOLEAN /\ last.seq = context.last_seq
      /\ context.last_ssrc = sim.substream + 1 /\ sim \in SimType /\ context \in ContextType
      /\ held \subseteq [substream : Substreams, seq : Int, tid : Layers, base : {Base(c) : c \in ContextType}]
      /\ held # {} => delays # "none"
      /\ delays = "none" /\ sim.substream # -1 /\ ~paused /\ ~context.seq_reset => InStep
  BY DEF StreamInv
<1>2. ASSUME NEW s \in Substreams, NEW tid \in Layers, Hold(s, tid)
      PROVE  StreamInv' /\ Follows
  <2>1. /\ seq' = [seq EXCEPT ![s] = Seq16(seq[s] + 1)]
        /\ held' = held \union {[substream |-> s, seq |-> seq'[s], tid |-> tid, base |-> Base(context)]}
        /\ delays' = (IF delays = "none" THEN "gaps" ELSE delays)
        /\ sim' = sim /\ context' = context /\ paused' = paused /\ last' = last
    BY <1>2 DEF Hold
  <2>2. seq[s] + 1 \in Int
    <3>1. seq \in [Substreams -> Int]
      BY <1>1, Zenon
    <3> QED
      BY <3>1
  <2>3. Seq16(seq[s] + 1) \in Int
    BY <2>2, SeqNext, Zenon
  <2>4. seq' \in [Substreams -> Int] /\ seq'[s] \in Int
    BY <1>1, <2>1, <2>3, ZenonT(40)
  <2>5. held' \subseteq [substream : Substreams, seq : Int, tid : Layers, base : {Base(c) : c \in ContextType}]
    BY <1>1, <2>1, <2>4, SMTT(40)
  <2>6. delays' # "none"
    BY <2>1
  <2>7. StreamInv'
    BY <1>1, <2>1, <2>4, <2>5, <2>6, ZenonT(40) DEF StreamInv
  <2>8. QED
    BY <2>6, <2>7 DEF Follows
<1>3. CASE Lapse
  <2>1. /\ sim' = [sim EXCEPT !.last_relayed = "long ago"]
        /\ UNCHANGED <<context, paused, seq, held, last, delays>>
    BY <1>3, Zenon DEF Lapse
  <2>2. sim' \in SimType /\ sim'.substream = sim.substream
    BY <1>1, <2>1, Zenon DEF SimType
  <2>3. QED
    BY <1>1, <2>1, <2>2, Zenon DEF StreamInv, Follows, InStep
<1>4. CASE Pause
  <2>1. paused' = TRUE /\ UNCHANGED <<sim, context, seq, held, last, delays>>
    BY <1>4 DEF Pause
  <2>2. QED
    BY <1>1, <2>1, SMTT(40) DEF StreamInv, Follows
<1>5. ASSUME NEW jsep \in BOOLEAN, Start(jsep)
      PROVE  StreamInv' /\ Follows
  <2> DEFINE reset == context.seq_reset \/ ~jsep
  <2>1. /\ paused' = FALSE /\ context' = [context EXCEPT !.seq_reset = reset]
        /\ delays' = (IF jsep /\ delays = "none" THEN "gaps" ELSE delays)
        /\ sim' = sim /\ seq' = seq /\ held' = held /\ last' = last
    BY <1>5 DEF Start
  <2>2. reset \in BOOLEAN
    OBVIOUS
  <2>3. context' \in ContextType
    <3>1. 0 \in Int
      OBVIOUS
    <3> HIDE DEF reset
    <3>2. [context EXCEPT !.seq_reset = reset] \in ContextType
      BY <1>1, <2>2, <3>1, Fields, Zenon
    <3>3. QED
      BY <2>1, <3>2
  <2>4. context'.last_seq = context.last_seq /\ context'.last_ssrc = context.last_ssrc /\ context'.seq_reset = reset
    BY <1>1, <2>1 DEF ContextType
  <2>5. delays' = "none" => delays = "none" /\ ~jsep
    BY <2>1
  <2>6. (held' # {} => delays' # "none") /\ ~(delays' = "none" /\ ~context'.seq_reset)
    BY <1>1, <2>1, <2>4, <2>5, Zenon
  <2>7. StreamInv'
    BY <1>1, <2>1, <2>3, <2>4, <2>6, Zenon DEF StreamInv
  <2>8. QED
    BY <2>1, <2>7 DEF Follows
<1>6. ASSUME NEW t \in Targets, Configure(t)
      PROVE  StreamInv' /\ Follows
  <2>1. /\ sim' = [sim EXCEPT !.substream_target = t[1], !.templayer_target = t[2]]
        /\ UNCHANGED <<context, paused, seq, held, last, delays>>
    BY <1>6, Zenon DEF Configure
  <2>2. t[1] \in Int /\ t[2] \in Layers
    BY StreamsAssumption
  <2>3. sim' \in SimType /\ sim'.substream = sim.substream
    BY <1>1, <2>1, <2>2, Zenon DEF SimType
  <2>4. QED
    BY <1>1, <2>1, <2>3 DEF StreamInv, Follows, InStep
<1>7. CASE UNCHANGED vars
  BY <1>1, <1>7, ZenonT(40) DEF vars, StreamInv, Follows, InStep
<1>8. QED
  BY <1>2, <1>3, <1>4, <1>5, <1>6, <1>7, Zenon

\* The numbers of the packets a subscriber gets follow each other, for any number of
\* packets and of requests, any sequence number to begin with, and any substreams, layers
\* and targets: janus_rtp_header_update and the skipped numbers of
\* janus_rtp_simulcasting_context_process_rtp keep the stream whole.
THEOREM StreamFollows == Spec => NumbersFollow
<1>1. Init => StreamInv
  BY InitStream
<1>2. StreamInv /\ [Next]_vars => StreamInv' /\ [Follows]_vars
  <2> SUFFICES ASSUME StreamInv, [Next]_vars PROVE StreamInv' /\ Follows
    OBVIOUS
  <2>1. CASE \E s \in Substreams, k \in Kinds : Packet(s, k[1], k[2])
    BY <2>1, PacketStep
  <2>2. CASE \E h \in held : Late(h)
    BY <2>2, LateStep
  <2>3. CASE \/ \E s \in Substreams, tid \in Layers : Hold(s, tid)
             \/ Lapse \/ Pause \/ \E jsep \in BOOLEAN : Start(jsep)
             \/ \E t \in Targets : Configure(t)
             \/ UNCHANGED vars
    BY <2>3, OtherStep
  <2>4. QED
    BY <2>1, <2>2, <2>3 DEF Next
<1>3. QED
  BY <1>1, <1>2, PTL DEF Spec, NumbersFollow, Follows

=============================================================================
