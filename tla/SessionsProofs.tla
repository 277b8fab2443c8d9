--------------------------- MODULE SessionsProofs ---------------------------
(* The theorems about Sessions, for every value of its constants: types, the   *)
(* table of sessions, the reference counters and what they keep from being     *)
(* freed. The parts of the invariant are kept by the steps of SessionsTable,   *)
(* SessionsCounters and SessionsRefs.                                          *)
EXTENDS SessionsTable, SessionsRefs, FiniteSetTheorems

\* The facts about finite sets that the invariant's proofs take as given.
LEMMA CountsHold == CountLaws
<1>1. \A S : IsFiniteSet(S) => Cardinality(S) \in Nat /\ (Cardinality(S) = 0 <=> S = {})
  BY FS_CardinalityType, FS_EmptySet, SMTT(40)
<1>2. \A S, T : IsFiniteSet(T) /\ S \subseteq T => IsFiniteSet(S)
  BY FS_Subset, SMTT(40)
<1>3. \A S, x : IsFiniteSet(S) =>
         /\ IsFiniteSet(S \cup {x})
         /\ Cardinality(S \cup {x}) = IF x \in S THEN Cardinality(S) ELSE Cardinality(S) + 1
  BY FS_AddElement, SMTT(40)
<1>4. \A S, x : IsFiniteSet(S) =>
         /\ IsFiniteSet(S \ {x})
         /\ Cardinality(S \ {x}) = IF x \in S THEN Cardinality(S) - 1 ELSE Cardinality(S)
  BY FS_RemoveElement, SMTT(40)
<1>5. \A S, T : IsFiniteSet(S) => Cardinality(S \ T) = Cardinality(S) - Cardinality(S \cap T)
  BY FS_Difference, Zenon
<1>6. IsFiniteSet({})
  BY FS_EmptySet, SMTT(40)
<1> QED
  BY <1>1, <1>2, <1>3, <1>4, <1>5, <1>6, ZenonT(40) DEF CountLaws

\* Spec keeps every variable within its type and gives every thread the locals
\* its next step uses: whatever janus.c's threads do, a step never acts on a
\* session, handle or transport it does not have.
THEOREM TypeCorrect == Spec => []TypeOK
<1>1. Init => TypeOK
  BY TypeInit, SMTT(40)
<1>2. TypeOK /\ [Next]_vars => TypeOK'
  BY TypeStep, CountsHold
<1> QED
  BY <1>1, <1>2, PTL DEF Spec

-----------------------------------------------------------------------------
(* The table *)

\* The invariant of the table always holds.
LEMMA TableAlways == Spec => []TableInv
<1>1. Init => TypeOK /\ TableInv
  BY TypeInit, TableInit, SMTT(40)
<1>2. TypeOK /\ TableInv /\ [Next]_vars => (TypeOK /\ TableInv)'
  BY TypeStep, TableStep, CountsHold, SMTT(40)
<1> QED
  BY <1>1, <1>2, PTL DEF Spec

\* Whatever the threads do, sessions_mutex protects the table: an entry leads to
\* the session of that identifier, and a destroyed session is only found there by
\* the thread that is removing it (janus_transport_gone).
THEOREM TableCorrect == Spec => []TableSound
<1>1. TableInv => TableSound
  BY SMTT(40) DEF TableInv
<1> QED
  BY <1>1, TableAlways, PTL

\* No session leaks out of the table: one that is not destroyed can be found, by
\* requests and by the watchdog, unless a destroy request has just removed it to
\* destroy it next.
THEOREM SessionsFound == Spec => []NoLostSession
<1>1. TableInv => NoLostSession
  BY SMTT(40) DEF TableInv
<1> QED
  BY <1>1, TableAlways, PTL

-----------------------------------------------------------------------------
(* References *)

\* The invariant holds in every state.
LEMMA RefsAlways == Spec => [](TypeOK /\ RefsInv)
<1>1. Init => TypeOK /\ RefsInv
  BY TypeInit, TableInit, CountsHold, RefsInit, SMTT(40)
<1>2. TypeOK /\ RefsInv /\ [Next]_vars => TypeOK' /\ RefsInv'
  <2> SUFFICES ASSUME TypeOK, RefsInv, [Next]_vars PROVE TypeOK' /\ RefsInv'
    OBVIOUS
  <2>1. TypeOK'
    BY TypeStep, CountsHold, SMTT(40)
  <2>2. TableInv'
    BY TableStep, SMTT(40) DEF RefsInv
  <2>3. TaskFacts'
    BY TaskStep, SMTT(40) DEF RefsInv
  <2> QED
    BY <2>1, <2>2, <2>3, CountsHold, ExactStep, HandlesStep, DestroyStep, CreationStep, SMTT(40) DEF RefsInv
<1> QED
  BY <1>1, <1>2, PTL DEF Spec

\* Every reference counter is the number of its holders, whatever requests,
\* watchdog passes, transport losses, loops and plugins do and in which order:
\* each janus_refcount_increase on a session, a handle or a plugin session is
\* undone exactly once, on every path, also those where an attach fails.
THEOREM RefsCorrect == Spec => []RefsExact
<1>1. RefsInv => RefsExact
  BY SMTT(40) DEF RefsInv
<1> QED
  BY <1>1, RefsAlways, PTL

\* Nothing is used after it was freed: neither the sessions table and whoever
\* iterates over it, nor a request, the watchdog, a transport thread, a handle,
\* its loop or its plugin ever refers to an object whose counter got to 0.
THEOREM MemorySafe == Spec => []NoUseAfterFree
BY RefsAlways, RefsEnough, CountsHold, PTL
=============================================================================
