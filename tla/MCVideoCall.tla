---------------------------- MODULE MCVideoCall -----------------------------
(***************************************************************************)
(* Two registered users of the VideoCall plugin, one of whom calls.        *)
(***************************************************************************)
EXTENDS VideoCall

CONSTANTS alice, bob

\* Both sessions have a name; one of them calls; one hangup.
BothRegistered ==
    { [names |-> [h \in Handles |-> IF h = alice THEN "alice" ELSE "bob"], gone |-> {}, incidents |-> 1,
        requests |-> [h \in Handles |-> IF h = alice THEN 1 ELSE 0]] }
=============================================================================
