---------------------------- MODULE PluginSession ---------------------------
(***************************************************************************)
(* What the core expects of every plugin that answers requests from a      *)
(* thread of its own, whatever the plugin does (plugins/plugin.h): a       *)
(* session is created once and removed once; requests are queued, answered *)
(* at most once each and in the order they came, and dropped only when     *)
(* their session was removed; a session's memory goes only when it was     *)
(* removed and no request of it is left.                                   *)
(*                                                                         *)
(* The plugin modules implement this specification.                        *)
(***************************************************************************)
EXTENDS Naturals, Sequences

CONSTANTS Handles, MaxRequests

VARIABLES life,      \* of a handle's session: "new", "open", "removed", "freed"
          asked,     \* requests queued for a handle
          pending,   \* the queue: [handle, n, done], done once it was answered
          answers    \* numbers of the requests answered, per handle

vars == <<life, asked, pending, answers>>

Request == [handle : Handles, n : 1 .. MaxRequests, done : BOOLEAN]

Init ==
    /\ life \in [Handles -> {"new", "open", "freed"}] /\ asked = [h \in Handles |-> 0]
    /\ pending = <<>> /\ answers = [h \in Handles |-> <<>>]

Create(h) ==
    /\ life[h] = "new"
    /\ life' = [life EXCEPT ![h] = "open"]
    /\ UNCHANGED <<asked, pending, answers>>

Ask(h) ==
    /\ life[h] = "open" /\ asked[h] < MaxRequests
    /\ asked' = [asked EXCEPT ![h] = @ + 1]
    /\ pending' = Append(pending, [handle |-> h, n |-> asked[h] + 1, done |-> FALSE])
    /\ UNCHANGED <<life, answers>>

\* The oldest request is answered; its session may have been removed meanwhile.
Answer ==
    /\ pending # <<>> /\ ~Head(pending).done
    /\ pending' = [pending EXCEPT ![1].done = TRUE]
    /\ answers' = [answers EXCEPT ![Head(pending).handle] = Append(@, Head(pending).n)]
    /\ UNCHANGED <<life, asked>>

Outstanding(q, h) == \E i \in 1 .. Len(q) : q[i].handle = h

\* A session that is removed goes with the last request that refers to it.
Collected(l, q) == [h \in Handles |-> IF l[h] = "removed" /\ ~Outstanding(q, h) THEN "freed" ELSE l[h]]

Release ==
    /\ pending # <<>>
    /\ Head(pending).done \/ life[Head(pending).handle] # "open"
    /\ pending' = Tail(pending)
    /\ life' = Collected(life, Tail(pending))
    /\ UNCHANGED <<asked, answers>>

Remove(h) ==
    /\ life[h] = "open"
    /\ life' = Collected([life EXCEPT ![h] = "removed"], pending)
    /\ UNCHANGED <<asked, pending, answers>>

Next ==
    \/ \E h \in Handles : Create(h) \/ Ask(h) \/ Remove(h)
    \/ Answer \/ Release

Spec == Init /\ [][Next]_vars
=============================================================================
