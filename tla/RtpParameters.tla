---------------------------- MODULE RtpParameters ----------------------------
(***************************************************************************)
(* The parameters of the RTP modules, and what is assumed of them.         *)
(***************************************************************************)
EXTENDS Integers

CONSTANTS TsMod,        \* the values of a timestamp: 2^32 in the code
          khz,          \* the rate of the timestamps
          StartSeq,     \* the sequence number a source begins after
          Substreams,   \* what a simulcasting publisher sends: substreams of 0 .. 2,
          Layers,       \* and temporal layers
          Targets       \* pairs: the substream and the temporal layer a subscriber may ask for

\* The values of a sequence number.
SeqMod == 65536

ASSUME RtpAssumption == TsMod \in Nat \ {0} /\ khz \in Nat \ {0}

ASSUME StreamsAssumption ==
    /\ StartSeq \in Nat /\ StartSeq < SeqMod
    /\ Substreams \subseteq 0 .. 2 /\ Layers \subseteq Nat
    /\ Targets \subseteq (0 .. 2) \X Layers
=============================================================================
