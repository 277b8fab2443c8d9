-------------------------- MODULE SessionsCounters --------------------------
(* The inductive invariant behind the theorems of SessionsProofs, the facts about *)
(* threads, types and counts that the proofs of its parts share, and the reference *)
(* counters of sessions, handles and plugin sessions: the steps of the threads   *)
(* keep them exact.                                                              *)
EXTENDS Sessions, TLAPS

-----------------------------------------------------------------------------
(* The invariant *)

\* What the threads know of the sessions they are at. No identifier is used
\* again while the requests thread is at a session that had it, since only that
\* thread creates sessions.
Located ==
    /\ \A p \in Threads : lsess[p] \in Sess => Created(lsess[p])
    /\ \A s \in todo \cup sdestroyed : Created(s)
    /\ pc[Req] # "idle" => table[sid[lsess[Req]]] \in {lsess[Req], NoSess}
    /\ pc[Req] = "destroy_mark" => table[sid[lsess[Req]]] = NoSess
    /\ \A t \in Transports : pc[t] \in {"destroy_clear", "remove"} => lsess[t] \in sdestroyed

TableInv == MutexSound /\ TableSound /\ NoLostSession /\ Located

EarlyLabels == {"idle", "created", "found", "attach", "destroy", "destroy_mark",
                "destroy_clear", "claim"}
\* A handle is not in use before it has a session, has no loop before it has a
\* plugin session, and a plugin keeps its reference until it is told to let go.
\* A request has a handle only from the step on that takes a reference to it.
HandleFacts ==
    /\ \A h \in Hnds :
          /\ hsess[h] = NoSess => h \notin listed /\ app[h] = "none" /\ \A p \in Workers : lhnd[p] # h
          /\ hsess[h] # NoSess => Created(hsess[h])
          /\ app[h] = "none" => h \notin plugged \cup ending /\ loop[h] = "none"
          /\ app[h] \in {"alive", "stopped"} => h \in plugged
    /\ pc[Req] = "attach_plugin" => app[lhnd[Req]] = "none"
    /\ pc[Req] = "attach_loop" => loop[lhnd[Req]] = "none" /\ app[lhnd[Req]] # "none"
    /\ \A p \in Workers :
          /\ pc[p] = "idle" => lsess[p] = NoSess
          /\ pc[p] \in EarlyLabels => lhnd[p] = NoHnd

\* A session is destroyed by one thread only, the one that marked it. What an
\* iterator has yet to visit, and the session it is at until it marks it, is in
\* the table and not destroyed.
Held(s) == table[sid[s]] = s /\ s \notin sdestroyed
DestroyFacts ==
    /\ \A p \in Threads : pc[p] = "destroy_clear" =>
          /\ lsess[p] \in sdestroyed
          /\ \A q \in Threads : pc[q] = "destroy_clear" /\ lsess[q] = lsess[p] => q = p
    /\ \A s \in todo : Held(s)
    /\ sessions_mutex = NoTransport => todo = {}
    /\ pc[Wd] \in {"clear", "remove"} => Held(lsess[Wd]) /\ lsess[Wd] \notin todo
    /\ \A t \in Transports : pc[t] = "over" => Held(lsess[t]) /\ lsess[t] \notin todo

\* Nobody can have found a reason to remove a session that has no source yet: that
\* is what keeps it while the request that creates it has no reference.
CreationFacts ==
    /\ \A s \in Sess : ~Created(s) => s \notin transport_gone /\ source[s] = NoTransport
    /\ pc[Req] = "created" =>
          LET s == lsess[Req] IN
          /\ idle[s] = 0 /\ source[s] = NoTransport /\ s \notin transport_gone \cup sdestroyed
          /\ \A p \in Transports \cup {Wd} : lsess[p] # s

\* Only the requests thread creates sessions.
TaskFacts == \A p \in Tasks : pc[p] # "created"

RefsInv == TableInv /\ RefsExact /\ HandleFacts /\ DestroyFacts /\ CreationFacts /\ TaskFacts

-----------------------------------------------------------------------------
(* What the reference counters count *)

SessionCount(s) == One(HasInitialRef(s)) + Cardinality(UsersOf(s))
HandleCount(h) ==
    One(hsess[h] # NoSess /\ app[h] \in {"none", "alive"}) + One(h \in listed)
    + Cardinality(HandleUsers(h)) + One(pref[h] > 0) + LoopRefs(h)
PluginCount(h) == One(app[h] = "alive") + One(h \in plugged) + One(h \in ending)
SessionsExact == \A s \in Sess : sref[s] - Cardinality(LiveHandlesOf(s)) = SessionCount(s)
HandlesExact == \A h \in Hnds : href[h] = HandleCount(h) /\ pref[h] = PluginCount(h)


-----------------------------------------------------------------------------
(* Threads and types *)

\* The threads are different ones.
LEMMA ThreadFacts ==
    /\ Req \in Workers /\ Req \in Threads /\ Workers \subseteq Threads
    /\ Wd \in Threads /\ Transports \subseteq Threads
    /\ \A p \in Workers : p # Wd /\ p \notin Transports
    /\ Wd \notin Workers \cup Transports
    /\ \A t \in Transports : t # Wd /\ t \notin Workers
BY ThreadsAssumption, Zenon DEF Threads, Workers

\* What the types give to each step: dropping no or one reference, the handles of
\* a session ...
LEMMA CounterFacts ==
    ASSUME TypeOK
    PROVE  /\ MaxIdle \in Nat /\ 0 \in 0 .. MaxIdle
           /\ NoneH \in [Hnds -> Int] /\ NoneS \in [Sess -> Int]
           /\ \A h : OneH(h) \in [Hnds -> Int]
           /\ \A s : OneS(s) \in [Sess -> Int]
           /\ \A s : HandlesOf(s) \in SUBSET Hnds
<1>1. MaxIdle \in Nat /\ 0 \in 0 .. MaxIdle
  BY SizesAssumption DEF MaxIdle
<1>2. /\ NoneH \in [Hnds -> Int] /\ NoneS \in [Sess -> Int]
      /\ \A h : OneH(h) \in [Hnds -> Int]
      /\ \A s : OneS(s) \in [Sess -> Int]
  BY DEF NoneH, NoneS, OneH, OneS, One
<1>3. \A s : HandlesOf(s) \in SUBSET Hnds
  BY Zenon DEF HandlesOf, TypeOK, HandleTypes
<1> QED
  BY <1>1, <1>2, <1>3, Zenon

\* ... and the locals of a thread that is in the middle of something.
LEMMA LocalFacts ==
    ASSUME TypeOK
    PROVE  /\ sessions_mutex \in Transports \cup {Wd, NoTransport} /\ todo \subseteq Sess
           /\ pc \in [Threads -> Labels]
           /\ lsess \in [Threads -> Sess \cup {NoSess}]
           /\ lhnd \in [Threads -> Hnds \cup {NoHnd}]
           /\ from \in [Threads -> Transports \cup {NoTransport}]
           /\ \A p \in Workers :
                 /\ pc[p] # "idle" => lsess[p] \in Sess /\ from[p] \in Transports
                 /\ pc[p] \in {"attach_plugin", "attach_loop", "detach", "message", "deliver"}
                      => lhnd[p] \in Hnds
           /\ pc[Wd] \in {"clear", "remove", "destroy_clear"} => lsess[Wd] \in Sess
           /\ \A t \in Transports : pc[t] \in {"over", "destroy_clear", "remove"} => lsess[t] \in Sess
BY ThreadFacts, Zenon DEF TypeOK, ThreadTypes, LocalTypes

-----------------------------------------------------------------------------
(* Counting *)

\* What the proofs use of finite sets: they are facts of arithmetic, proved in
\* SessionsProofs from the library's theorems (CountsHold).
CountLaws ==
    /\ \A S : IsFiniteSet(S) => Cardinality(S) \in Nat /\ (Cardinality(S) = 0 <=> S = {})
    /\ \A S, T : IsFiniteSet(T) /\ S \subseteq T => IsFiniteSet(S)
    /\ \A S, x : IsFiniteSet(S) =>
          /\ IsFiniteSet(S \cup {x}) /\ IsFiniteSet(S \ {x})
          /\ Cardinality(S \cup {x}) = IF x \in S THEN Cardinality(S) ELSE Cardinality(S) + 1
          /\ Cardinality(S \ {x}) = IF x \in S THEN Cardinality(S) - 1 ELSE Cardinality(S)
    /\ \A S, T : IsFiniteSet(S) => Cardinality(S \ T) = Cardinality(S) - Cardinality(S \cap T)
    /\ IsFiniteSet({})

\* A set of handles is finite, and its cardinality a number.
LEMMA HandlesFinite ==
    ASSUME CountLaws, NEW H \in SUBSET Hnds
    PROVE  IsFiniteSet(H) /\ Cardinality(H) \in Nat
BY SizesAssumption, Zenon DEF CountLaws

\* So is a set of requests.
LEMMA WorkersFinite ==
    ASSUME CountLaws, NEW W \in SUBSET Workers
    PROVE  IsFiniteSet(W) /\ Cardinality(W) \in Nat
<1>1. IsFiniteSet(Workers)
  <2>1. Workers = Tasks \cup {Req}
    BY Zenon DEF Workers
  <2> QED
    BY <2>1, SizesAssumption, Zenon DEF CountLaws
<1> QED
  BY <1>1, Zenon DEF CountLaws

\* A set gains or loses at most the element x.
LEMMA CountStep ==
    ASSUME CountLaws, NEW S, NEW T, NEW x, IsFiniteSet(S), \A y : y # x => (y \in T <=> y \in S)
    PROVE  /\ IsFiniteSet(T)
           /\ Cardinality(T) = Cardinality(S) - One(x \in S) + One(x \in T)
<1>1. Cardinality(S) \in Nat
  BY Zenon DEF CountLaws
<1>2. CASE x \in T
  <2>1. T = S \cup {x}
    BY <1>2, Zenon
  <2>2. IsFiniteSet(T) /\ Cardinality(T) = IF x \in S THEN Cardinality(S) ELSE Cardinality(S) + 1
    BY <2>1, Zenon DEF CountLaws
  <2> QED
    BY <1>1, <1>2, <2>2 DEF One
<1>3. CASE x \notin T
  <2>1. T = S \ {x}
    BY <1>3, Zenon
  <2>2. IsFiniteSet(T) /\ Cardinality(T) = IF x \in S THEN Cardinality(S) - 1 ELSE Cardinality(S)
    BY <2>1, Zenon DEF CountLaws
  <2> QED
    BY <1>1, <1>3, <2>2 DEF One
<1> QED
  BY <1>2, <1>3, Zenon

\* A set gains the element x, or does not.
LEMMA CountGain ==
    ASSUME CountLaws, NEW S, NEW T, NEW x, IsFiniteSet(S), \A y : y # x => (y \in T <=> y \in S), x \notin S
    PROVE  /\ x \in T => Cardinality(T) = Cardinality(S) + 1
           /\ x \notin T => Cardinality(T) = Cardinality(S) + 0
<1>1. Cardinality(T) = Cardinality(S) - One(x \in S) + One(x \in T)
  BY CountStep, Zenon
<1>2. Cardinality(S) \in Nat
  BY Zenon DEF CountLaws
<1> QED
  BY <1>1, <1>2 DEF One

\* Only the empty set has no elements.
LEMMA NoneCounted ==
    ASSUME CountLaws
    PROVE  /\ Cardinality({}) = 0
           /\ \A S : IsFiniteSet(S) => (Cardinality(S) = 0 <=> S = {})
BY Zenon DEF CountLaws

\* A finite set loses what another has in common with it.
LEMMA CountDifference ==
    ASSUME CountLaws, NEW S, NEW T, IsFiniteSet(S)
    PROVE  Cardinality(S \ T) = Cardinality(S) - Cardinality(S \cap T)
BY ZenonT(40) DEF CountLaws

\* The counts are numbers.
LEMMA CountTypes ==
    ASSUME CountLaws
    PROVE  /\ \A s : Cardinality(UsersOf(s)) \in Nat /\ Cardinality(LiveHandlesOf(s)) \in Nat
           /\ \A h : Cardinality(HandleUsers(h)) \in Nat
BY WorkersFinite, HandlesFinite, Zenon DEF UsersOf, LiveHandlesOf, HandleUsers

\* The counters are exact, the sessions' and the handles'.
LEMMA ExactParts ==
    ASSUME CountLaws
    PROVE  /\ TypeOK => (RefsExact <=> SessionsExact /\ HandlesExact)
           /\ TypeOK' => (RefsExact' <=> SessionsExact' /\ HandlesExact')
<1>0. \A b : One(b) \in Nat
  BY Zenon DEF One
<1>1. ASSUME NEW r \in Int, NEW u \in Nat, NEW n \in Nat, NEW i \in Nat
      PROVE  r = i + u + n <=> r - n = i + u
  OBVIOUS
<1>2. ASSUME TypeOK PROVE RefsExact <=> SessionsExact /\ HandlesExact
  <2>1. \A s \in Sess : sref[s] \in Int
    BY <1>2, Zenon DEF TypeOK, RefTypes
  <2>2. SessionsExact <=> \A s \in Sess : sref[s] = One(HasInitialRef(s)) + Cardinality(UsersOf(s))
                                                      + Cardinality(LiveHandlesOf(s))
    BY <1>0, <1>1, <2>1, CountTypes DEF SessionsExact, SessionCount
  <2> QED
    BY <2>2, Zenon DEF RefsExact, HandlesExact, HandleCount, PluginCount
<1>3. ASSUME TypeOK' PROVE RefsExact' <=> SessionsExact' /\ HandlesExact'
  <2>1. \A s \in Sess : sref'[s] \in Int
    BY <1>3, Zenon DEF TypeOK, RefTypes
  <2>2. \A s \in Sess : Cardinality(UsersOf(s)') \in Nat /\ Cardinality(LiveHandlesOf(s)') \in Nat
    BY WorkersFinite, HandlesFinite, Zenon DEF UsersOf, LiveHandlesOf
  <2>3. SessionsExact' <=> \A s \in Sess : sref'[s] = One(HasInitialRef(s)') + Cardinality(UsersOf(s)')
                                                       + Cardinality(LiveHandlesOf(s)')
    BY <1>0, <1>1, <2>1, <2>2 DEF SessionsExact, SessionCount
  <2> QED
    BY <2>3, Zenon DEF RefsExact, HandlesExact, HandleCount, PluginCount
<1> QED
  BY <1>2, <1>3, Zenon

\* What is counted are numbers.
LEMMA CountNumbers ==
    ASSUME CountLaws
    PROVE  /\ \A b : One(b) \in {0, 1}
           /\ \A s : SessionCount(s) \in Nat
           /\ \A h : LoopRefs(h) \in Nat /\ HandleCount(h) \in Nat
           /\ \A h : HandleCount(h) >= Cardinality(HandleUsers(h)) /\ Cardinality(HandleUsers(h)) \in Nat
<1>1. \A b : One(b) \in {0, 1}
  BY Zenon DEF One
<1>2. \A h : LoopRefs(h) \in Nat
  BY Zenon DEF LoopRefs
<1> QED
  BY <1>1, <1>2, CountTypes, SMTT(40) DEF SessionCount, HandleCount

-----------------------------------------------------------------------------
(* Sums of references *)

\* A term that is zero.
LEMMA SumZero == \A n \in Int : n + 0 = n /\ n - 0 = n
OBVIOUS

\* Counts are not negative ...
LEMMA NatSign == 0 \in Nat /\ 1 \in Nat /\ 0 >= 0 /\ \A n \in Nat : n \in Int /\ n >= 0
OBVIOUS

\* ... and stay positive when they grow.
LEMMA SumNext == \A n \in Int : n > 0 => n + 1 > 0
OBVIOUS

\* A reference that is kept.
LEMMA SumOne == \A b : One(b) - 0 = One(b) /\ One(b) + 0 = One(b) /\ One(b) >= 0 /\ One(b) \in {0, 1}
BY DEF One

\* The references to a plugin session while its handle lives, and once it is stopped.
LEMMA SumPlugin == \A b : (1 + 1 + One(b)) - 1 = 0 + 1 + One(b) /\ 1 + 1 + One(b) > 0 /\ 0 + 1 + One(b) > 0
BY DEF One

\* A handle nobody refers to, and one that was just created.
LEMMA SumNone ==
    /\ 0 + 0 + 0 = 0 /\ 0 + 0 + 0 + 0 + 0 = 0 /\ 1 + 1 + 1 + 0 + 0 = 3 /\ ~(0 > 0) /\ 3 > 0 /\ 0 + 1 = 1
OBVIOUS

\* The references to a handle that is destroyed: the initial one and the table's go.
LEMMA SumDestroyed ==
    \A i \in {0, 1}, u, l \in Nat :
        /\ (1 + i + u + 1 + l) - (i + 1) = 0 + 0 + u + 1 + l
        /\ 0 + 0 + u + 1 + l >= 0 /\ i + 1 >= 0
OBVIOUS

\* What a handle's count is without the table's reference, that it is there for a
\* handle of the table, and what it is when a request takes or drops a reference.
LEMMA HandleSums ==
    ASSUME CountLaws, NEW h
    PROVE  /\ HandleCount(h) - One(h \in listed)
                  = One(hsess[h] # NoSess /\ app[h] \in {"none", "alive"}) + 0
                    + Cardinality(HandleUsers(h)) + One(pref[h] > 0) + LoopRefs(h)
           /\ h \in listed => HandleCount(h) > 0
           /\ One(hsess[h] # NoSess /\ app[h] \in {"none", "alive"}) + One(h \in listed)
                 + (Cardinality(HandleUsers(h)) + 1) + One(pref[h] > 0) + LoopRefs(h) = HandleCount(h) + 1
           /\ Cardinality(HandleUsers(h)) > 0 =>
                 One(hsess[h] # NoSess /\ app[h] \in {"none", "alive"}) + One(h \in listed)
                 + (Cardinality(HandleUsers(h)) - 1) + One(pref[h] > 0) + LoopRefs(h) = HandleCount(h) - 1
<1>1. /\ One(hsess[h] # NoSess /\ app[h] \in {"none", "alive"}) \in {0, 1}
      /\ One(h \in listed) \in {0, 1} /\ One(pref[h] > 0) \in {0, 1}
      /\ Cardinality(HandleUsers(h)) \in Nat /\ LoopRefs(h) \in Nat
  BY CountNumbers, Zenon DEF One
<1>2. HandleCount(h) - One(h \in listed)
          = One(hsess[h] # NoSess /\ app[h] \in {"none", "alive"}) + 0
            + Cardinality(HandleUsers(h)) + One(pref[h] > 0) + LoopRefs(h)
  BY <1>1 DEF HandleCount
<1>3. ASSUME h \in listed PROVE HandleCount(h) > 0
  <2>1. HandleCount(h) = One(hsess[h] # NoSess /\ app[h] \in {"none", "alive"}) + 1
                           + Cardinality(HandleUsers(h)) + One(pref[h] > 0) + LoopRefs(h)
    BY <1>3, Zenon DEF HandleCount, One
  <2> QED
    BY <1>1, <2>1
<1>4. One(hsess[h] # NoSess /\ app[h] \in {"none", "alive"}) + One(h \in listed)
          + (Cardinality(HandleUsers(h)) + 1) + One(pref[h] > 0) + LoopRefs(h) = HandleCount(h) + 1
  BY <1>1 DEF HandleCount
<1>5. ASSUME Cardinality(HandleUsers(h)) > 0
      PROVE  One(hsess[h] # NoSess /\ app[h] \in {"none", "alive"}) + One(h \in listed)
             + (Cardinality(HandleUsers(h)) - 1) + One(pref[h] > 0) + LoopRefs(h) = HandleCount(h) - 1
  BY <1>1 DEF HandleCount
<1> QED
  BY <1>2, <1>3, <1>4, <1>5, Zenon

\* What is counted in the next state are numbers too.
LEMMA NextCount ==
    ASSUME NEW h, Cardinality(HandleUsers(h)') \in Nat
    PROVE  HandleCount(h)' \in Nat
<1>1. /\ One(hsess[h] # NoSess /\ app[h] \in {"none", "alive"})' \in Nat
      /\ One(h \in listed)' \in Nat /\ One(pref[h] > 0)' \in Nat /\ LoopRefs(h)' \in Nat
  BY Zenon DEF One, LoopRefs
<1> QED
  BY <1>1 DEF HandleCount

-----------------------------------------------------------------------------
(* Steps of the counts *)

\* One thread takes a step: it may come to use a session or a handle, or cease to.
LEMMA UsersStep ==
    ASSUME CountLaws, NEW p \in Workers, NEW s,
           \A q \in Workers \ {p} : pc'[q] = pc[q] /\ lsess'[q] = lsess[q]
    PROVE  Cardinality(UsersOf(s)') = Cardinality(UsersOf(s))
               - One(lsess[p] = s /\ pc[p] # "created") + One(lsess'[p] = s /\ pc'[p] # "created")
<1>1. IsFiniteSet(UsersOf(s))
  BY WorkersFinite, Zenon DEF UsersOf
<1>2. \A y : y # p => (y \in UsersOf(s)' <=> y \in UsersOf(s))
  BY Zenon DEF UsersOf
<1>3. /\ p \in UsersOf(s) <=> lsess[p] = s /\ pc[p] # "created"
      /\ p \in UsersOf(s)' <=> lsess'[p] = s /\ pc'[p] # "created"
  BY Zenon DEF UsersOf
<1> QED
  BY <1>1, <1>2, <1>3, CountStep, SMTT(40) DEF One

\* Of the requests that use a handle, a step changes at most its own.
LEMMA HandleUsersStep ==
    ASSUME CountLaws, NEW p \in Workers, NEW h, \A q \in Workers \ {p} : lhnd'[q] = lhnd[q]
    PROVE  Cardinality(HandleUsers(h)') = Cardinality(HandleUsers(h))
               - One(lhnd[p] = h) + One(lhnd'[p] = h)
<1>1. IsFiniteSet(HandleUsers(h))
  BY WorkersFinite, Zenon DEF HandleUsers
<1>2. \A y : y # p => (y \in HandleUsers(h)' <=> y \in HandleUsers(h))
  BY Zenon DEF HandleUsers
<1>3. (p \in HandleUsers(h) <=> lhnd[p] = h) /\ (p \in HandleUsers(h)' <=> lhnd'[p] = h)
  BY Zenon DEF HandleUsers
<1> QED
  BY <1>1, <1>2, <1>3, CountStep, SMTT(40) DEF One

\* A request comes to use the handle h ...
LEMMA HandleTaken ==
    ASSUME CountLaws, NEW p \in Workers, NEW h, \A q \in Workers \ {p} : lhnd'[q] = lhnd[q],
           lhnd[p] \notin Hnds, lhnd'[p] = h
    PROVE  \A x \in Hnds :
              /\ x = h => Cardinality(HandleUsers(x)') = Cardinality(HandleUsers(x)) + 1
              /\ x # h => Cardinality(HandleUsers(x)') = Cardinality(HandleUsers(x))
<1>1. ASSUME NEW x \in Hnds
      PROVE  /\ x = h => Cardinality(HandleUsers(x)') = Cardinality(HandleUsers(x)) + 1
             /\ x # h => Cardinality(HandleUsers(x)') = Cardinality(HandleUsers(x))
  <2>1. Cardinality(HandleUsers(x)') = Cardinality(HandleUsers(x)) - One(lhnd[p] = x) + One(lhnd'[p] = x)
    BY HandleUsersStep, SMT
  <2>2. Cardinality(HandleUsers(x)) \in Nat
    BY CountTypes, Zenon
  <2> QED
    BY <2>1, <2>2 DEF One
<1> QED
  BY <1>1, Zenon

\* ... or ceases to use its handle.
LEMMA HandleDropped ==
    ASSUME CountLaws, NEW p \in Workers, NEW x, \A q \in Workers \ {p} : lhnd'[q] = lhnd[q], lhnd'[p] # x
    PROVE  /\ lhnd[p] # x => Cardinality(HandleUsers(x)') = Cardinality(HandleUsers(x))
           /\ lhnd[p] = x => /\ Cardinality(HandleUsers(x)') = Cardinality(HandleUsers(x)) - 1
                             /\ Cardinality(HandleUsers(x)) > 0 /\ Cardinality(HandleUsers(x)') \in Nat
<1>1. Cardinality(HandleUsers(x)') = Cardinality(HandleUsers(x)) - One(lhnd[p] = x) + One(lhnd'[p] = x)
  BY HandleUsersStep, SMT
<1>2. Cardinality(HandleUsers(x)) \in Nat
  BY CountTypes, Zenon
<1>3. Cardinality(HandleUsers(x)') \in Nat
  BY WorkersFinite, Zenon DEF HandleUsers
<1> QED
  BY <1>1, <1>2, <1>3 DEF One

\* A request comes to use the session s0 ...
LEMMA SessionTaken ==
    ASSUME CountLaws, NEW p \in Workers, NEW s0,
           \A q \in Workers \ {p} : pc'[q] = pc[q] /\ lsess'[q] = lsess[q],
           lsess[p] \notin Sess \/ pc[p] = "created", lsess'[p] = s0, pc'[p] # "created",
           \A s \in Sess : One(HasInitialRef(s)') = One(HasInitialRef(s))
    PROVE  \A s \in Sess : SessionCount(s)' = SessionCount(s) + One(s = s0)
<1> SUFFICES ASSUME NEW s \in Sess PROVE SessionCount(s)' = SessionCount(s) + One(s = s0)
  OBVIOUS
<1>1. Cardinality(UsersOf(s)') = Cardinality(UsersOf(s))
          - One(lsess[p] = s /\ pc[p] # "created") + One(lsess'[p] = s /\ pc'[p] # "created")
  BY UsersStep, Zenon
<1>2. One(lsess[p] = s /\ pc[p] # "created") = 0 /\ One(lsess'[p] = s /\ pc'[p] # "created") = One(s = s0)
  BY Zenon DEF One
<1>3. /\ Cardinality(UsersOf(s)) \in Nat /\ One(HasInitialRef(s)) \in Nat /\ One(s = s0) \in Nat
      /\ One(HasInitialRef(s)') = One(HasInitialRef(s))
  BY CountTypes, Zenon DEF One
<1> QED
  BY <1>1, <1>2, <1>3 DEF SessionCount

\* ... or ceases to use its session.
LEMMA SessionDropped ==
    ASSUME CountLaws, NEW p \in Workers, NEW s,
           \A q \in Workers \ {p} : pc'[q] = pc[q] /\ lsess'[q] = lsess[q],
           pc[p] # "created", lsess'[p] # s, One(HasInitialRef(s)') = One(HasInitialRef(s))
    PROVE  SessionCount(s)' = SessionCount(s) - One(s = lsess[p])
<1>1. Cardinality(UsersOf(s)') = Cardinality(UsersOf(s))
          - One(lsess[p] = s /\ pc[p] # "created") + One(lsess'[p] = s /\ pc'[p] # "created")
  BY UsersStep, Zenon
<1>2. One(lsess[p] = s /\ pc[p] # "created") = One(s = lsess[p]) /\ One(lsess'[p] = s /\ pc'[p] # "created") = 0
  BY Zenon DEF One
<1>3. Cardinality(UsersOf(s)) \in Nat /\ One(HasInitialRef(s)) \in Nat /\ One(s = lsess[p]) \in Nat
  BY CountTypes, Zenon DEF One
<1> QED
  BY <1>1, <1>2, <1>3 DEF SessionCount

\* A session loses its initial reference, or nothing changes.
LEMMA SessionCleared ==
    ASSUME CountLaws, NEW s, NEW d \in Nat, One(HasInitialRef(s)') = One(HasInitialRef(s)) - d,
           UsersOf(s)' = UsersOf(s)
    PROVE  SessionCount(s)' = SessionCount(s) - d
<1>1. Cardinality(UsersOf(s)) \in Nat /\ One(HasInitialRef(s)) \in Nat
  BY CountTypes, Zenon DEF One
<1>2. Cardinality(UsersOf(s)') = Cardinality(UsersOf(s))
  BY Zenon
<1> QED
  BY <1>1, <1>2 DEF SessionCount

\* The counter of the session s0 goes up with the number of its users ...
LEMMA SessionsUsed ==
    ASSUME CountLaws, SessionsExact, sref \in [Sess -> Int], NEW s0 \in Sess, sref' = [sref EXCEPT ![s0] = @ + 1],
           \A s \in Sess : /\ Cardinality(LiveHandlesOf(s)') = Cardinality(LiveHandlesOf(s))
                           /\ SessionCount(s)' = SessionCount(s) + One(s = s0)
    PROVE  SessionsExact'
<1>1. ASSUME NEW s \in Sess PROVE sref'[s] - Cardinality(LiveHandlesOf(s)') = SessionCount(s)'
  <2>1. /\ sref[s] - Cardinality(LiveHandlesOf(s)) = SessionCount(s) /\ sref[s] \in Int
        /\ SessionCount(s) \in Nat /\ Cardinality(LiveHandlesOf(s)) \in Nat
    BY CountTypes, CountNumbers, Zenon DEF SessionsExact
  <2> QED
    BY <2>1 DEF One
<1> QED
  BY <1>1, Zenon DEF SessionsExact

\* ... or of its handles.
LEMMA SessionsOwned ==
    ASSUME CountLaws, SessionsExact, sref \in [Sess -> Int], NEW s0 \in Sess, sref' = [sref EXCEPT ![s0] = @ + 1],
           \A s \in Sess : /\ Cardinality(LiveHandlesOf(s)') = Cardinality(LiveHandlesOf(s)) + One(s = s0)
                           /\ SessionCount(s)' = SessionCount(s)
    PROVE  SessionsExact'
<1>1. ASSUME NEW s \in Sess PROVE sref'[s] - Cardinality(LiveHandlesOf(s)') = SessionCount(s)'
  <2>1. /\ sref[s] - Cardinality(LiveHandlesOf(s)) = SessionCount(s) /\ sref[s] \in Int
        /\ SessionCount(s) \in Nat /\ Cardinality(LiveHandlesOf(s)) \in Nat
    BY CountTypes, CountNumbers, Zenon DEF SessionsExact
  <2> QED
    BY <2>1 DEF One
<1> QED
  BY <1>1, Zenon DEF SessionsExact

\* Unref drops the reference to its session of every handle that it frees.
LEMMA UnrefSessions ==
    ASSUME CountLaws, TypeOK, NEW hdec \in [Hnds -> Int], NEW sdec \in [Sess -> Int],
           Unref(hdec, sdec), hsess' = hsess,
           \A h \in Hnds : hdec[h] >= 0 /\ href[h] - hdec[h] >= 0,
           NEW s \in Sess
    PROVE  sref'[s] - Cardinality(LiveHandlesOf(s)') = sref[s] - sdec[s] - Cardinality(LiveHandlesOf(s))
<1> DEFINE dead == {h \in Hnds : href[h] > 0 /\ href[h] - hdec[h] = 0}
           gone_s == {h \in dead : hsess[h] = s}
<1>1. sref'[s] = sref[s] - sdec[s] - Cardinality(gone_s)
  BY Zenon DEF Unref
<1>2. \A h \in Hnds : href'[h] = href[h] - hdec[h]
  BY Zenon DEF Unref
<1>3. href \in [Hnds -> Int] /\ sref \in [Sess -> Int]
  BY Zenon DEF TypeOK, RefTypes
<1>4. LiveHandlesOf(s)' = LiveHandlesOf(s) \ gone_s
  BY <1>2, <1>3, SMTT(40) DEF LiveHandlesOf
<1>5. gone_s = LiveHandlesOf(s) \cap gone_s
  BY Zenon DEF LiveHandlesOf
<1>6. IsFiniteSet(LiveHandlesOf(s)) /\ Cardinality(LiveHandlesOf(s)) \in Nat
  BY HandlesFinite, Zenon DEF LiveHandlesOf
<1>7. Cardinality(gone_s) \in Nat
  BY HandlesFinite, Zenon
<1> HIDE DEF gone_s
<1>8. Cardinality(LiveHandlesOf(s)') = Cardinality(LiveHandlesOf(s)) - Cardinality(gone_s)
  BY <1>4, <1>5, <1>6, CountDifference, ZenonT(40)
<1> QED
  BY <1>1, <1>3, <1>6, <1>7, <1>8, SMTT(40)

-----------------------------------------------------------------------------
(* The three counters *)

\* Whether a session has its initial reference: not changed by a step that has
\* nothing to do with destroying it, nor by marking it ...
LEMMA InitialStep ==
    ASSUME NEW p \in Threads, \A q \in Threads \ {p} : pc'[q] = pc[q] /\ lsess'[q] = lsess[q],
           UNCHANGED <<sid, sdestroyed>>, pc[p] # "destroy_clear", pc'[p] # "destroy_clear",
           NEW s
    PROVE  HasInitialRef(s)' <=> HasInitialRef(s)
BY Zenon DEF HasInitialRef, Created

\* Marking a session destroyed does not drop its initial reference yet.
LEMMA InitialMark ==
    ASSUME TypeOK, TableInv, NEW p \in Threads, NEW over, over # "destroy_clear",
           MarkDestroyed(p, "destroy_clear", over), UNCHANGED <<sid, lsess>>,
           lsess[p] \in Sess, pc[p] # "destroy_clear", NEW s
    PROVE  HasInitialRef(s)' <=> HasInitialRef(s)
<1>1. pc \in [Threads -> Labels] /\ Created(lsess[p])
  BY LocalFacts, Zenon DEF TableInv, Located
<1>2. \A q \in Threads \ {p} : pc'[q] = pc[q]
  BY <1>1, Zenon DEF MarkDestroyed, Goto
<1>3. CASE lsess[p] \in sdestroyed
  <2>1. sdestroyed' = sdestroyed /\ pc'[p] = over
    BY <1>1, <1>3, Zenon DEF MarkDestroyed, Goto
  <2> QED
    BY <1>2, <2>1, InitialStep, Zenon
<1>4. CASE lsess[p] \notin sdestroyed
  <2>1. sdestroyed' = sdestroyed \cup {lsess[p]} /\ pc'[p] = "destroy_clear"
    BY <1>1, <1>4, Zenon DEF MarkDestroyed, Goto
  <2> QED
    BY <1>1, <1>2, <1>4, <2>1, Zenon DEF HasInitialRef, Created
<1> QED
  BY <1>3, <1>4, Zenon

\* ... and dropped by the one thread that marked it.
LEMMA InitialClear ==
    ASSUME TypeOK, TableInv, DestroyFacts, NEW p \in Threads, NEW l, l # "destroy_clear",
           pc[p] = "destroy_clear", Goto(p, l), UNCHANGED <<sid, sdestroyed, lsess>>,
           lsess[p] \in Sess, NEW s
    PROVE  One(HasInitialRef(s)') = One(HasInitialRef(s)) - One(s = lsess[p])
<1>1. pc \in [Threads -> Labels] /\ Created(lsess[p])
  BY LocalFacts, Zenon DEF TableInv, Located
<1>2. pc'[p] = l /\ \A q \in Threads \ {p} : pc'[q] = pc[q]
  BY <1>1, Zenon DEF Goto
<1>3. CASE s = lsess[p]
  <2>1. HasInitialRef(s)
    BY <1>1, <1>3, Zenon DEF HasInitialRef
  <2>2. ~HasInitialRef(s)'
    BY <1>2, <1>3, Zenon DEF HasInitialRef, DestroyFacts
  <2> QED
    BY <1>3, <2>1, <2>2, SMTT(40) DEF One
<1>4. CASE s # lsess[p]
  <2>1. HasInitialRef(s)' <=> HasInitialRef(s)
    BY <1>2, <1>4, Zenon DEF HasInitialRef, Created
  <2> QED
    BY <1>4, <2>1, SMTT(40) DEF One
<1> QED
  BY <1>3, <1>4, Zenon

\* A step that leaves alone what the references of the handles are for leaves them exact.
LEMMA HandlesKept ==
    ASSUME HandlesExact, UNCHANGED <<hsess, listed, app, pref, plugged, ending, loop>>,
           \A h \in Hnds : href'[h] = href[h],
           \A h \in Hnds : Cardinality(HandleUsers(h)') = Cardinality(HandleUsers(h))
    PROVE  HandlesExact'
<1>1. \A h \in Hnds : HandleCount(h)' = HandleCount(h)
  BY Zenon DEF HandleCount, LoopRefs
<1>2. \A h \in Hnds : PluginCount(h)' = PluginCount(h)
  BY Zenon DEF PluginCount
<1> QED
  BY <1>1, <1>2, Zenon DEF HandlesExact

\* A step that changes neither counters nor the number of holders keeps them exact.
LEMMA ExactSame ==
    ASSUME CountLaws, TypeOK, TypeOK', RefsExact, UNCHANGED <<handleVars, refVars>>,
           \A h \in Hnds : Cardinality(HandleUsers(h)') = Cardinality(HandleUsers(h)),
           \A s \in Sess : SessionCount(s)' = SessionCount(s)
    PROVE  RefsExact'
<1>1. SessionsExact /\ HandlesExact
  BY ExactParts, Zenon
<1>2. SessionsExact'
  <2>1. \A s \in Sess : Cardinality(LiveHandlesOf(s)') = Cardinality(LiveHandlesOf(s))
    BY Zenon DEF LiveHandlesOf, refVars, handleVars
  <2> QED
    BY <1>1, <2>1, Zenon DEF SessionsExact, refVars
<1>3. HandlesExact'
  BY <1>1, HandlesKept, Zenon DEF handleVars, refVars
<1> QED
  BY <1>2, <1>3, ExactParts, Zenon

\* A request goes on to its next step.
LEMMA ExactGoto ==
    ASSUME CountLaws, TypeOK, TypeOK', RefsExact, NEW p \in Workers, NEW l, Goto(p, l),
           UNCHANGED <<sid, sdestroyed, handleVars, refVars, lsess, lhnd>>,
           pc[p] \notin {"created", "destroy_clear"}, l \notin {"created", "destroy_clear"}
    PROVE  RefsExact'
<1>1. p \in Threads /\ pc \in [Threads -> Labels] /\ Workers \subseteq Threads
  BY ThreadFacts, LocalFacts, Zenon
<1>2. pc'[p] = l /\ \A q \in Threads \ {p} : pc'[q] = pc[q]
  BY <1>1, Zenon DEF Goto
<1>3. \A s : Cardinality(UsersOf(s)') = Cardinality(UsersOf(s))
  <2>1. \A s : UsersOf(s)' = UsersOf(s)
    BY <1>1, <1>2, Zenon DEF UsersOf
  <2> QED
    BY <2>1, Zenon
<1>4. \A s : One(HasInitialRef(s)') = One(HasInitialRef(s))
  BY <1>1, <1>2, InitialStep, Zenon DEF One
<1>5. \A h : Cardinality(HandleUsers(h)') = Cardinality(HandleUsers(h))
  BY Zenon DEF HandleUsers
<1> QED
  BY <1>3, <1>4, <1>5, ExactSame, Zenon DEF SessionCount

\* The watchdog or a transport thread does.
LEMMA ExactHolder ==
    ASSUME CountLaws, TypeOK, TypeOK', RefsExact, NEW p \in Transports \cup {Wd},
           \A q \in Threads \ {p} : pc'[q] = pc[q] /\ lsess'[q] = lsess[q],
           UNCHANGED <<sid, sdestroyed, handleVars, refVars, lhnd>>,
           pc[p] # "destroy_clear", pc'[p] # "destroy_clear"
    PROVE  RefsExact'
<1>1. p \in Threads /\ \A q \in Workers : q \in Threads \ {p}
  BY ThreadFacts, Zenon
<1>2. \A s : Cardinality(UsersOf(s)') = Cardinality(UsersOf(s))
  <2>1. \A s : UsersOf(s)' = UsersOf(s)
    BY <1>1, Zenon DEF UsersOf
  <2> QED
    BY <2>1, Zenon
<1>3. \A s : One(HasInitialRef(s)') = One(HasInitialRef(s))
  BY <1>1, InitialStep, Zenon DEF One
<1>4. \A h : Cardinality(HandleUsers(h)') = Cardinality(HandleUsers(h))
  BY Zenon DEF HandleUsers
<1> QED
  BY <1>2, <1>3, <1>4, ExactSame, Zenon DEF SessionCount

\* One handle is accounted for again, when the others have not changed.
LEMMA OneHandle ==
    ASSUME HandlesExact, NEW h \in Hnds,
           \A x \in Hnds \ {h} :
              /\ href'[x] = href[x] /\ pref'[x] = pref[x] /\ hsess'[x] = hsess[x]
              /\ app'[x] = app[x] /\ loop'[x] = loop[x]
              /\ (x \in listed' <=> x \in listed) /\ (x \in plugged' <=> x \in plugged)
              /\ (x \in ending' <=> x \in ending)
              /\ Cardinality(HandleUsers(x)') = Cardinality(HandleUsers(x)),
           href'[h] = HandleCount(h)', pref'[h] = PluginCount(h)'
    PROVE  HandlesExact'
<1>1. ASSUME NEW x \in Hnds \ {h} PROVE href'[x] = HandleCount(x)' /\ pref'[x] = PluginCount(x)'
  <2>1. One(x \in listed)' = One(x \in listed) /\ LoopRefs(x)' = LoopRefs(x)
    BY Zenon DEF One, LoopRefs
  <2>2. One(x \in plugged)' = One(x \in plugged) /\ One(x \in ending)' = One(x \in ending)
    BY Zenon DEF One
  <2>3. HandleCount(x)' = HandleCount(x)
    BY <2>1, Zenon DEF HandleCount
  <2>4. PluginCount(x)' = PluginCount(x)
    BY <2>2, Zenon DEF PluginCount
  <2> QED
    BY <2>3, <2>4, Zenon DEF HandlesExact
<1> QED
  BY <1>1, Zenon DEF HandlesExact

\* janus_ice_handle_destroy: the references it drops are the initial one, which
\* goes with "alive", and the table's, and there were as many.
LEMMA ExactDestroy ==
    ASSUME CountLaws, TypeOK, HandlesExact, HandleFacts, NEW H \in SUBSET Hnds, NEW sdec \in [Sess -> Int],
           HandlesDestroy(H, NoneH, sdec), lhnd' = lhnd
    PROVE  /\ HandlesExact'
           /\ \A s \in Sess : sref'[s] - Cardinality(LiveHandlesOf(s)')
                                 = sref[s] - sdec[s] - Cardinality(LiveHandlesOf(s))
<1> DEFINE dec == [h \in Hnds |-> NoneH[h] + One(h \in H \cap listed) + One(h \in Detaching(H))]
<1>1. Unref(dec, sdec) /\ UNCHANGED <<hsess, plugged, ending, loop>>
  BY Zenon DEF HandlesDestroy
<1>2. dec \in [Hnds -> Int] /\ \A h \in Hnds : dec[h] = One(h \in H \cap listed) + One(h \in Detaching(H))
  BY SMTT(40) DEF One, NoneH
<1>3. /\ \A h : Cardinality(HandleUsers(h)') = Cardinality(HandleUsers(h)) /\ Cardinality(HandleUsers(h)) \in Nat
      /\ \A b : One(b) \in {0, 1} /\ One(b) \in Nat
  BY CountTypes, Zenon DEF HandleUsers, One
<1>4. ASSUME NEW h \in Hnds
      PROVE  /\ dec[h] >= 0 /\ href[h] - dec[h] = HandleCount(h)' /\ pref'[h] = PluginCount(h)'
             /\ HandleCount(h)' >= 0
  <2>1. /\ href[h] = HandleCount(h) /\ pref[h] = PluginCount(h)
        /\ pref'[h] = pref[h] - One(h \in Detaching(H))
        /\ app'[h] = IF h \in Detaching(H) THEN "stopped" ELSE app[h]
        /\ h \in listed' <=> h \in listed /\ h \notin H
        /\ LoopRefs(h)' = LoopRefs(h) /\ LoopRefs(h) \in Nat
        /\ app[h] \in {"none", "alive", "stopped", "detached"}
    BY <1>1, Zenon DEF HandlesExact, HandlesDestroy, LoopRefs, TypeOK, HandleTypes
  <2>2. CASE h \in Detaching(H)
    <3>1. app[h] = "alive" /\ app'[h] = "stopped" /\ h \in plugged /\ h \in H /\ hsess[h] # NoSess
      BY <2>1, <2>2, Zenon DEF Detaching, HandleFacts
    <3>2. /\ pref[h] = 1 + 1 + One(h \in ending) /\ pref'[h] = (1 + 1 + One(h \in ending)) - 1
          /\ PluginCount(h)' = 0 + 1 + One(h \in ending)
      BY <1>1, <2>1, <2>2, <3>1, Zenon DEF PluginCount, One
    <3>3. pref'[h] = PluginCount(h)' /\ pref[h] > 0 /\ pref'[h] > 0
      BY <3>2, SumPlugin, Zenon
    <3>4. HandleCount(h) = 1 + One(h \in listed) + Cardinality(HandleUsers(h)) + 1 + LoopRefs(h)
      BY <3>1, <3>3, Zenon DEF HandleCount, One
    <3>5. HandleCount(h)' = 0 + 0 + Cardinality(HandleUsers(h)) + 1 + LoopRefs(h)
      BY <1>3, <2>1, <3>1, <3>3, Zenon DEF HandleCount, One
    <3>6. dec[h] = One(h \in listed) + 1
      BY <1>2, <2>2, <3>1, Zenon DEF One
    <3>7. /\ HandleCount(h) - dec[h] = HandleCount(h)' /\ HandleCount(h)' >= 0 /\ dec[h] >= 0
      <4>1. One(h \in listed) \in {0, 1} /\ Cardinality(HandleUsers(h)) \in Nat /\ LoopRefs(h) \in Nat
        BY <1>3, <2>1, Zenon
      <4>2. /\ (1 + One(h \in listed) + Cardinality(HandleUsers(h)) + 1 + LoopRefs(h)) - (One(h \in listed) + 1)
                  = 0 + 0 + Cardinality(HandleUsers(h)) + 1 + LoopRefs(h)
            /\ 0 + 0 + Cardinality(HandleUsers(h)) + 1 + LoopRefs(h) >= 0 /\ One(h \in listed) + 1 >= 0
        BY <4>1, SumDestroyed, Zenon
      <4> QED
        BY <3>4, <3>5, <3>6, <4>2, Zenon
    <3> QED
      BY <2>1, <3>3, <3>7, Zenon
  <2>3. CASE h \notin Detaching(H)
    <3>1. app'[h] = app[h] /\ pref'[h] = pref[h] /\ hsess'[h] = hsess[h]
      BY <1>1, <2>1, <2>3, SumZero, Zenon DEF One, TypeOK, HandleTypes
    <3>2. pref'[h] = PluginCount(h)'
      BY <1>1, <2>1, <3>1, Zenon DEF PluginCount
    <3>3. dec[h] = One(h \in H \cap listed)
      <4>1. One(h \in Detaching(H)) = 0
        BY <2>3, Zenon DEF One
      <4>2. dec[h] = One(h \in H \cap listed) + 0
        BY <1>2, <4>1, Zenon
      <4> QED
        BY <4>2, SumOne, Zenon
    <3>4. HandleCount(h)' = HandleCount(h) - One(h \in H \cap listed)
      <4>1. HandleCount(h) - One(h \in listed)
                = One(hsess[h] # NoSess /\ app[h] \in {"none", "alive"}) + 0
                  + Cardinality(HandleUsers(h)) + One(pref[h] > 0) + LoopRefs(h)
        BY HandleSums, Zenon
      <4>2. CASE h \in H
        BY <1>3, <2>1, <3>1, <4>1, <4>2, Zenon DEF HandleCount, One
      <4>3. CASE h \notin H
        <5>1. HandleCount(h)' = HandleCount(h)
          BY <1>3, <2>1, <3>1, <4>3, Zenon DEF HandleCount, One
        <5>2. One(h \in H \cap listed) = 0
          BY <4>3, Zenon DEF One
        <5>3. HandleCount(h) - 0 = HandleCount(h)
          BY CountNumbers, NatSign, SumZero, Zenon
        <5> QED
          BY <5>1, <5>2, <5>3, Zenon
      <4> QED
        BY <4>2, <4>3, Zenon
    <3>5. HandleCount(h)' \in Nat
      BY <1>3, <2>1, <3>1, NextCount, Zenon
    <3> QED
      BY <2>1, <3>2, <3>3, <3>4, <3>5, SumOne, NatSign, Zenon
  <2> QED
    BY <2>2, <2>3, Zenon
<1> HIDE DEF dec
<1>5. \A h \in Hnds : href'[h] = href[h] - dec[h]
  BY <1>1, Zenon DEF Unref
<1>6. HandlesExact'
  BY <1>4, <1>5, Zenon DEF HandlesExact
<1>7. \A h \in Hnds : dec[h] >= 0 /\ href[h] - dec[h] >= 0
  BY <1>4, Zenon
<1> QED
  BY <1>1, <1>2, <1>6, <1>7, UnrefSessions, Zenon

\* References to one handle are dropped, and no other handle changes.
LEMMA ExactUnref ==
    ASSUME CountLaws, TypeOK, HandlesExact, NEW h \in Hnds, NEW n \in Nat,
           NEW hdec \in [Hnds -> Int], NEW sdec \in [Sess -> Int], Unref(hdec, sdec),
           hdec[h] = n, \A x \in Hnds \ {h} : hdec[x] = 0,
           UNCHANGED <<hsess, listed>>,
           \A x \in Hnds \ {h} :
              /\ pref'[x] = pref[x] /\ app'[x] = app[x] /\ loop'[x] = loop[x]
              /\ (x \in plugged' <=> x \in plugged) /\ (x \in ending' <=> x \in ending)
              /\ Cardinality(HandleUsers(x)') = Cardinality(HandleUsers(x)),
           HandleCount(h)' = HandleCount(h) - n, HandleCount(h)' >= 0, pref'[h] = PluginCount(h)'
    PROVE  /\ HandlesExact'
           /\ \A s \in Sess : sref'[s] - Cardinality(LiveHandlesOf(s)')
                                 = sref[s] - sdec[s] - Cardinality(LiveHandlesOf(s))
<1>1. href \in [Hnds -> Int] /\ href' = [x \in Hnds |-> href[x] - hdec[x]]
  BY Zenon DEF TypeOK, RefTypes, Unref
<1>2. href'[h] = HandleCount(h)' /\ \A x \in Hnds \ {h} : href'[x] = href[x]
  BY <1>1, SumZero, Zenon DEF HandlesExact
<1>3. HandlesExact'
  BY <1>2, OneHandle, Zenon
<1>4. \A x \in Hnds : hdec[x] >= 0 /\ href[x] - hdec[x] >= 0
  <2>1. \A x \in Hnds : href[x] = HandleCount(x) /\ HandleCount(x) \in Nat
    BY CountNumbers, Zenon DEF HandlesExact
  <2> QED
    BY <1>1, <1>2, <2>1, SumZero, NatSign, ZenonT(40)
<1> QED
  BY <1>3, <1>4, UnrefSessions, Zenon

\* The counters of sessions, when those of the handles are known.
LEMMA SessionsSame ==
    ASSUME CountLaws, SessionsExact, NEW d \in [Sess -> Int], sref \in [Sess -> Int], sref' \in [Sess -> Int],
           \A s \in Sess : sref'[s] - Cardinality(LiveHandlesOf(s)')
                              = sref[s] - d[s] - Cardinality(LiveHandlesOf(s)),
           \A s \in Sess : SessionCount(s)' = SessionCount(s) - d[s]
    PROVE  SessionsExact'
<1>1. \A s \in Sess : Cardinality(LiveHandlesOf(s)) \in Nat /\ SessionCount(s) \in Nat
  BY CountTypes, CountNumbers, Zenon
<1> QED
  BY <1>1 DEF SessionsExact

\* A request takes a reference to its session ...
LEMMA ExactTakeSession ==
    ASSUME CountLaws, TypeOK, TypeOK', RefsExact, NEW p \in Workers, NEW s0 \in Sess, NEW l,
           lsess[p] \notin Sess \/ pc[p] = "created", pc[p] # "destroy_clear",
           l \notin {"created", "destroy_clear"}, Goto(p, l), lsess' = [lsess EXCEPT ![p] = s0],
           sref' = [sref EXCEPT ![s0] = @ + 1],
           UNCHANGED <<sid, sdestroyed, handleVars, href, lhnd>>
    PROVE  RefsExact'
<1>0. SessionsExact /\ HandlesExact
  BY ExactParts, Zenon
<1>1. /\ p \in Threads /\ pc \in [Threads -> Labels] /\ Workers \subseteq Threads
      /\ lsess \in [Threads -> Sess \cup {NoSess}] /\ sref \in [Sess -> Int]
  BY ThreadFacts, LocalFacts, Zenon DEF TypeOK, RefTypes
<1>2. /\ pc'[p] = l /\ lsess'[p] = s0
      /\ \A q \in Threads \ {p} : pc'[q] = pc[q] /\ lsess'[q] = lsess[q]
  BY <1>1, Zenon DEF Goto
<1>3. \A s \in Sess : SessionCount(s)' = SessionCount(s) + One(s = s0)
  <2>1. \A s \in Sess : One(HasInitialRef(s)') = One(HasInitialRef(s))
    BY <1>1, <1>2, InitialStep, Zenon DEF One
  <2>2. /\ \A q \in Workers \ {p} : pc'[q] = pc[q] /\ lsess'[q] = lsess[q]
        /\ lsess'[p] = s0 /\ pc'[p] # "created"
    BY <1>1, <1>2, Zenon
  <2> QED
    BY <2>1, <2>2, SessionTaken, Zenon
<1>4. SessionsExact'
  <2>1. \A s \in Sess : Cardinality(LiveHandlesOf(s)') = Cardinality(LiveHandlesOf(s))
    BY Zenon DEF LiveHandlesOf, handleVars
  <2> QED
    BY <1>0, <1>1, <1>3, <2>1, SessionsUsed, ZenonT(40)
<1>5. HandlesExact'
  BY <1>0, HandlesKept, Zenon DEF HandleUsers, handleVars
<1> QED
  BY <1>4, <1>5, ExactParts, Zenon

\* ... and to a handle, which is in the table and so not freed.
LEMMA ExactTakeHandle ==
    ASSUME CountLaws, TypeOK, TypeOK', RefsExact, HandleFacts, NEW p \in Workers, NEW h \in Hnds, NEW l,
           pc[p] = "found", l \notin {"created", "destroy_clear"}, Goto(p, l),
           lhnd' = [lhnd EXCEPT ![p] = h], h \in listed, href' = [href EXCEPT ![h] = @ + 1],
           UNCHANGED <<sid, sdestroyed, handleVars, sref, lsess>>
    PROVE  RefsExact'
<1>0. SessionsExact /\ HandlesExact
  BY ExactParts, Zenon
<1>1. /\ p \in Threads /\ pc \in [Threads -> Labels] /\ Workers \subseteq Threads
      /\ lhnd \in [Threads -> Hnds \cup {NoHnd}] /\ href \in [Hnds -> Int]
  BY ThreadFacts, LocalFacts, Zenon DEF TypeOK, RefTypes
<1>n. lhnd[p] = NoHnd
  BY Zenon DEF HandleFacts, EarlyLabels
<1>2. /\ pc'[p] = l /\ lhnd'[p] = h
      /\ \A q \in Threads \ {p} : pc'[q] = pc[q] /\ lhnd'[q] = lhnd[q]
      /\ href'[h] = href[h] + 1 /\ \A x \in Hnds \ {h} : href'[x] = href[x]
  BY <1>1, Zenon DEF Goto
<1>3. \A x \in Hnds :
         /\ x = h => Cardinality(HandleUsers(x)') = Cardinality(HandleUsers(x)) + 1
         /\ x # h => Cardinality(HandleUsers(x)') = Cardinality(HandleUsers(x))
  <2>1. lhnd[p] \notin Hnds /\ lhnd'[p] = h /\ \A q \in Workers \ {p} : lhnd'[q] = lhnd[q]
    BY <1>1, <1>n, <1>2, NullsAssumption, Zenon
  <2> QED
    BY <2>1, HandleTaken, Zenon
<1>4. HandlesExact'
  <2>1. \A x \in Hnds \ {h} : Cardinality(HandleUsers(x)') = Cardinality(HandleUsers(x))
    BY <1>3, Zenon
  <2>2. href'[h] = HandleCount(h)'
    <3>1. Cardinality(HandleUsers(h)') = Cardinality(HandleUsers(h)) + 1
      BY <1>3, Zenon
    <3>2. HandleCount(h)' = HandleCount(h) + 1
      <4>1. HandleCount(h)' = One(hsess[h] # NoSess /\ app[h] \in {"none", "alive"}) + One(h \in listed)
                + (Cardinality(HandleUsers(h)) + 1) + One(pref[h] > 0) + LoopRefs(h)
        BY <3>1, Zenon DEF HandleCount, LoopRefs, handleVars
      <4> QED
        BY <4>1, HandleSums, Zenon
    <3> QED
      BY <1>0, <1>2, <3>2, Zenon DEF HandlesExact
  <2>3. pref'[h] = PluginCount(h)'
    BY <1>0, Zenon DEF HandlesExact, PluginCount, handleVars
  <2> QED
    BY <1>0, <1>2, <2>1, <2>2, <2>3, OneHandle, Zenon DEF handleVars
<1>5. SessionsExact'
  <2>1. href[h] > 0
    BY <1>0, HandleSums, Zenon DEF HandlesExact
  <2>2. \A s \in Sess : Cardinality(LiveHandlesOf(s)') = Cardinality(LiveHandlesOf(s))
    <3>1. \A x \in Hnds : href'[x] > 0 <=> href[x] > 0
      BY <1>1, <1>2, <2>1, SumNext, Zenon
    <3>2. \A s \in Sess : LiveHandlesOf(s)' = LiveHandlesOf(s)
      BY <3>1, Zenon DEF LiveHandlesOf, handleVars
    <3> QED
      BY <3>2, Zenon
  <2>3. \A s \in Sess : UsersOf(s)' = UsersOf(s)
    BY <1>1, <1>2, ZenonT(40) DEF UsersOf
  <2>4. \A s \in Sess : One(HasInitialRef(s)') = One(HasInitialRef(s))
    BY <1>1, <1>2, InitialStep, Zenon DEF One
  <2> QED
    BY <1>0, <2>2, <2>3, <2>4, Zenon DEF SessionsExact, SessionCount
<1> QED
  BY <1>4, <1>5, ExactParts, Zenon

\* jsondone: the references of a request are dropped.
LEMMA ExactDone ==
    ASSUME CountLaws, TypeOK, TypeOK', RefsExact, NEW p \in Workers, Done(p)
    PROVE  RefsExact'
<1>0. SessionsExact /\ HandlesExact
  BY ExactParts, Zenon
<1>1. /\ p \in Threads /\ pc \in [Threads -> Labels] /\ Workers \subseteq Threads
      /\ lhnd \in [Threads -> Hnds \cup {NoHnd}] /\ lsess \in [Threads -> Sess \cup {NoSess}]
      /\ lsess[p] \in Sess /\ OneH(lhnd[p]) \in [Hnds -> Int] /\ OneS(lsess[p]) \in [Sess -> Int]
      /\ sref \in [Sess -> Int] /\ sref' \in [Sess -> Int]
  BY ThreadFacts, LocalFacts, CounterFacts, Zenon DEF Done, TypeOK, RefTypes
<1>2. /\ pc[p] = "done" /\ pc'[p] = "idle" /\ lsess'[p] = NoSess /\ lhnd'[p] = NoHnd
      /\ \A q \in Threads \ {p} : pc'[q] = pc[q] /\ lsess'[q] = lsess[q] /\ lhnd'[q] = lhnd[q]
      /\ Unref(OneH(lhnd[p]), OneS(lsess[p]))
      /\ UNCHANGED <<hsess, listed, app, pref, plugged, ending, loop, sid, sdestroyed>>
  BY <1>1, Zenon DEF Done, Goto, handleVars, tableVars
<1>3. ASSUME NEW x \in Hnds
      PROVE  /\ lhnd[p] # x => Cardinality(HandleUsers(x)') = Cardinality(HandleUsers(x))
             /\ lhnd[p] = x => /\ Cardinality(HandleUsers(x)') = Cardinality(HandleUsers(x)) - 1
                               /\ Cardinality(HandleUsers(x)) > 0 /\ Cardinality(HandleUsers(x)') \in Nat
  <2>1. lhnd'[p] # x /\ \A q \in Workers \ {p} : lhnd'[q] = lhnd[q]
    BY <1>1, <1>2, NullsAssumption, Zenon
  <2> QED
    BY <2>1, HandleDropped, Zenon
<1>4. ASSUME NEW s \in Sess PROVE SessionCount(s)' = SessionCount(s) - OneS(lsess[p])[s]
  <2>1. One(HasInitialRef(s)') = One(HasInitialRef(s))
    BY <1>1, <1>2, InitialStep, Zenon DEF One
  <2>2. /\ \A q \in Workers \ {p} : pc'[q] = pc[q] /\ lsess'[q] = lsess[q]
        /\ pc[p] # "created" /\ lsess'[p] # s
    BY <1>1, <1>2, NullsAssumption, Zenon
  <2>3. SessionCount(s)' = SessionCount(s) - One(s = lsess[p])
    BY <2>1, <2>2, SessionDropped, Zenon
  <2> QED
    BY <2>3, Zenon DEF OneS
<1>5. /\ HandlesExact'
      /\ \A s \in Sess : sref'[s] - Cardinality(LiveHandlesOf(s)')
                            = sref[s] - OneS(lsess[p])[s] - Cardinality(LiveHandlesOf(s))
  <2>1. CASE lhnd[p] = NoHnd
    <3>1. \A x \in Hnds : OneH(lhnd[p])[x] = 0
      BY <2>1, NullsAssumption, Zenon DEF OneH, One
    <3>2. \A x \in Hnds : href'[x] = href[x] /\ href[x] \in Int
      BY <1>2, <3>1, SumZero, Zenon DEF Unref, TypeOK, RefTypes
    <3>3. \A x \in Hnds : Cardinality(HandleUsers(x)') = Cardinality(HandleUsers(x))
      BY <1>3, <2>1, NullsAssumption, Zenon
    <3>4. HandlesExact'
      BY <1>0, <1>2, <3>2, <3>3, HandlesKept, Zenon
    <3>5. \A x \in Hnds : OneH(lhnd[p])[x] >= 0 /\ href[x] - OneH(lhnd[p])[x] >= 0
      <4>1. \A x \in Hnds : href[x] \in Nat
        BY <1>0, CountNumbers, Zenon DEF HandlesExact
      <4> QED
        BY <3>1, <4>1, SumZero, NatSign, Zenon
    <3> QED
      BY <1>1, <1>2, <3>4, <3>5, UnrefSessions, Zenon
  <2>2. CASE lhnd[p] \in Hnds
    <3>0. PICK h \in Hnds : h = lhnd[p]
      BY <2>2, Zenon
    <3>1. OneH(lhnd[p])[h] = 1 /\ \A x \in Hnds \ {h} : OneH(lhnd[p])[x] = 0
      BY <3>0, Zenon DEF OneH, One
    <3>2. \A x \in Hnds \ {h} : Cardinality(HandleUsers(x)') = Cardinality(HandleUsers(x))
      BY <1>3, <3>0, Zenon
    <3>3. /\ Cardinality(HandleUsers(h)') = Cardinality(HandleUsers(h)) - 1 /\ Cardinality(HandleUsers(h)') \in Nat
          /\ Cardinality(HandleUsers(h)) > 0
      BY <1>3, <3>0, Zenon
    <3>4. HandleCount(h)' = HandleCount(h) - 1 /\ HandleCount(h)' >= 0
      <4>1. HandleCount(h)' = One(hsess[h] # NoSess /\ app[h] \in {"none", "alive"}) + One(h \in listed)
                + (Cardinality(HandleUsers(h)) - 1) + One(pref[h] > 0) + LoopRefs(h)
        BY <1>2, <3>3, Zenon DEF HandleCount, LoopRefs
      <4>2. HandleCount(h)' = HandleCount(h) - 1
        BY <3>3, <4>1, HandleSums, Zenon
      <4>3. HandleCount(h)' \in Nat
        BY <3>3, NextCount, Zenon
      <4> QED
        BY <4>2, <4>3, NatSign, Zenon
    <3>5. pref'[h] = PluginCount(h)'
      BY <1>0, <1>2, Zenon DEF HandlesExact, PluginCount
    <3> QED
      <4>1. /\ Unref(OneH(lhnd[p]), OneS(lsess[p])) /\ 1 \in Nat
            /\ UNCHANGED <<hsess, listed>>
            /\ \A x \in Hnds \ {h} :
                  /\ pref'[x] = pref[x] /\ app'[x] = app[x] /\ loop'[x] = loop[x]
                  /\ (x \in plugged' <=> x \in plugged) /\ (x \in ending' <=> x \in ending)
                  /\ Cardinality(HandleUsers(x)') = Cardinality(HandleUsers(x))
        BY <1>2, <3>2, NatSign, Zenon
      <4> QED
        BY <1>0, <1>1, <3>1, <3>4, <3>5, <4>1, ExactUnref, ZenonT(40)
  <2> QED
    BY <1>1, <2>1, <2>2, Zenon
<1>6. SessionsExact'
  BY <1>0, <1>1, <1>4, <1>5, SessionsSame, Zenon
<1> QED
  BY <1>5, <1>6, ExactParts, Zenon

\* A thread that serves a request keeps the counters exact.
LEMMA WorkerExact ==
    ASSUME CountLaws, TypeOK, TypeOK', RefsInv, NEW p \in Workers, Worker(p)
    PROVE  RefsExact'
<1>0. RefsExact /\ HandleFacts
  BY Zenon DEF RefsInv
<1>1. ASSUME NEW i \in Ids, NEW t \in Transports, FindSession(p, i, t) PROVE RefsExact'
  <2>1. lsess[p] = NoSess /\ table[i] \in Sess
    BY <1>0, <1>1, ZenonT(40) DEF FindSession, HandleFacts, TypeOK, TableTypes
  <2> QED
    BY <1>0, <1>1, <2>1, ExactTakeSession, NullsAssumption, Zenon DEF FindSession, tableVars
<1>2. ASSUME NEW op \in {"detach", "message", "done"}, NEW h \in Hnds, NEW admin \in BOOLEAN,
             HandleRequest(p, op, h, admin)
      PROVE  RefsExact'
  BY <1>0, <1>2, ExactTakeHandle, Zenon DEF HandleRequest, HandlesOf
<1>3. ASSUME MissingHandle(p) PROVE RefsExact'
  BY <1>0, <1>3, ExactGoto, Zenon DEF MissingHandle
<1>4. ASSUME Message(p) PROVE RefsExact'
  BY <1>0, <1>4, ExactGoto, Zenon DEF Message, tableVars
<1>5. ASSUME Deliver(p) PROVE RefsExact'
  BY <1>0, <1>5, ExactGoto, Zenon DEF Deliver, tableVars
<1>6. ASSUME Done(p) PROVE RefsExact'
  BY <1>0, <1>6, ExactDone, Zenon
<1> QED
  BY <1>1, <1>2, <1>3, <1>4, <1>5, <1>6, Zenon DEF Worker

\* janus_session_destroy: a thread marks a session ...
LEMMA ExactMark ==
    ASSUME CountLaws, TypeOK, TypeOK', TableInv, RefsExact, NEW p \in Threads, NEW over,
           over \notin {"created", "destroy_clear"}, MarkDestroyed(p, "destroy_clear", over),
           lsess[p] \in Sess, pc[p] \notin {"created", "destroy_clear"},
           UNCHANGED <<sid, lsess, lhnd, handleVars, refVars>>
    PROVE  RefsExact'
<1>1. pc \in [Threads -> Labels] /\ Workers \subseteq Threads
  BY ThreadFacts, LocalFacts, Zenon
<1>2. pc'[p] # "created" /\ \A q \in Threads \ {p} : pc'[q] = pc[q]
  BY <1>1, Zenon DEF MarkDestroyed, Goto
<1>3. \A s : UsersOf(s)' = UsersOf(s)
  BY <1>1, <1>2, Zenon DEF UsersOf
<1>4. \A s : One(HasInitialRef(s)') = One(HasInitialRef(s))
  BY InitialMark, Zenon DEF One
<1>5. \A h : Cardinality(HandleUsers(h)') = Cardinality(HandleUsers(h))
  BY Zenon DEF HandleUsers
<1> QED
  BY <1>3, <1>4, <1>5, ExactSame, Zenon DEF SessionCount

\* ... removes its handles and drops its initial reference.
LEMMA ExactClear ==
    ASSUME CountLaws, TypeOK, TypeOK', RefsInv, NEW p \in Threads, NEW to,
           to \notin {"created", "destroy_clear"}, DestroyClear(p, to), lsess[p] \in Sess
    PROVE  RefsExact'
<1>0. SessionsExact /\ HandlesExact /\ HandleFacts /\ DestroyFacts /\ TableInv
  BY ExactParts, Zenon DEF RefsInv
<1>1. /\ pc \in [Threads -> Labels] /\ Workers \subseteq Threads
      /\ HandlesOf(lsess[p]) \in SUBSET Hnds /\ OneS(lsess[p]) \in [Sess -> Int]
      /\ sref \in [Sess -> Int] /\ sref' \in [Sess -> Int]
  BY ThreadFacts, LocalFacts, CounterFacts, Zenon DEF TypeOK, RefTypes
<1>2. /\ pc[p] = "destroy_clear" /\ Goto(p, to) /\ UNCHANGED <<sid, sdestroyed, lsess, lhnd>>
      /\ HandlesDestroy(HandlesOf(lsess[p]), NoneH, OneS(lsess[p]))
  BY Zenon DEF DestroyClear, tableVars
<1>3. pc'[p] = to /\ \A q \in Threads \ {p} : pc'[q] = pc[q]
  BY <1>1, <1>2, Zenon DEF Goto
<1>4. /\ HandlesExact'
      /\ \A s \in Sess : sref'[s] - Cardinality(LiveHandlesOf(s)')
                            = sref[s] - OneS(lsess[p])[s] - Cardinality(LiveHandlesOf(s))
  BY <1>0, <1>1, <1>2, ExactDestroy, Zenon
<1>5. ASSUME NEW s \in Sess PROVE SessionCount(s)' = SessionCount(s) - OneS(lsess[p])[s]
  <2>1. One(HasInitialRef(s)') = One(HasInitialRef(s)) - One(s = lsess[p])
    BY <1>0, <1>2, InitialClear, Zenon
  <2>2. UsersOf(s)' = UsersOf(s)
    BY <1>1, <1>2, <1>3, Zenon DEF UsersOf
  <2>3. OneS(lsess[p])[s] = One(s = lsess[p]) /\ One(s = lsess[p]) \in Nat
    BY Zenon DEF OneS, One
  <2> QED
    BY <2>1, <2>2, <2>3, SessionCleared, ZenonT(40)
<1>6. SessionsExact'
  BY <1>0, <1>1, <1>4, <1>5, SessionsSame, Zenon
<1> QED
  BY <1>4, <1>6, ExactParts, Zenon

\* A step of the requests thread that destroys handles and nothing else.
LEMMA ExactHandles ==
    ASSUME CountLaws, TypeOK, TypeOK', RefsInv, NEW p \in Threads, NEW l, NEW H \in SUBSET Hnds,
           HandlesDestroy(H, NoneH, NoneS), Goto(p, l),
           l \notin {"created", "destroy_clear"}, pc[p] \notin {"created", "destroy_clear"},
           UNCHANGED <<sid, sdestroyed, lsess, lhnd>>
    PROVE  RefsExact'
<1>0. SessionsExact /\ HandlesExact /\ HandleFacts
  BY ExactParts, Zenon DEF RefsInv
<1>1. /\ pc \in [Threads -> Labels] /\ Workers \subseteq Threads /\ NoneS \in [Sess -> Int]
      /\ sref \in [Sess -> Int] /\ sref' \in [Sess -> Int]
  BY ThreadFacts, LocalFacts, CounterFacts, Zenon DEF TypeOK, RefTypes
<1>2. pc'[p] = l /\ \A q \in Threads \ {p} : pc'[q] = pc[q]
  BY <1>1, Zenon DEF Goto
<1>3. /\ HandlesExact'
      /\ \A s \in Sess : sref'[s] - Cardinality(LiveHandlesOf(s)')
                            = sref[s] - NoneS[s] - Cardinality(LiveHandlesOf(s))
  BY <1>0, <1>1, ExactDestroy, Zenon
<1>4. ASSUME NEW s \in Sess PROVE SessionCount(s)' = SessionCount(s) - NoneS[s]
  <2>1. One(HasInitialRef(s)') = One(HasInitialRef(s))
    BY <1>2, InitialStep, Zenon DEF One
  <2>2. UsersOf(s)' = UsersOf(s)
    BY <1>1, <1>2, Zenon DEF UsersOf
  <2>3. NoneS[s] = 0
    BY Zenon DEF NoneS
  <2>4. One(HasInitialRef(s)') = One(HasInitialRef(s)) - 0 /\ 0 \in Nat
    BY <2>1, SumOne, NatSign, Zenon
  <2> QED
    BY <2>2, <2>3, <2>4, SessionCleared, Zenon
<1>5. SessionsExact'
  BY <1>0, <1>1, <1>3, <1>4, SessionsSame, Zenon
<1> QED
  BY <1>3, <1>5, ExactParts, Zenon

\* A handle that has no session yet has no references, nor any to it.
LEMMA FreshHandle ==
    ASSUME CountLaws, TypeOK, HandlesExact, HandleFacts, NEW h \in Hnds, hsess[h] = NoSess
    PROVE  /\ href[h] = 0 /\ pref[h] = 0 /\ HandleUsers(h) = {} /\ LoopRefs(h) = 0
           /\ h \notin listed \cup plugged \cup ending /\ app[h] = "none"
<1>1. /\ HandleUsers(h) = {} /\ LoopRefs(h) = 0 /\ app[h] = "none"
      /\ h \notin listed \cup plugged \cup ending
  BY Zenon DEF HandleUsers, HandleFacts, LoopRefs
<1>2. pref[h] = 0
  BY <1>1, SumNone, Zenon DEF HandlesExact, PluginCount, One
<1>3. Cardinality(HandleUsers(h)) = 0
  BY <1>1, NoneCounted, Zenon
<1>4. href[h] = 0
  BY <1>1, <1>2, <1>3, SumNone, Zenon DEF HandlesExact, HandleCount, One
<1> QED
  BY <1>1, <1>2, <1>4, Zenon

\* janus_ice_handle_create: the handle has its initial reference, the table's and
\* the request's, and one to its session.
LEMMA ExactAttach ==
    ASSUME CountLaws, TypeOK, TypeOK', RefsInv, NEW h \in Hnds, AttachCreate(h)
    PROVE  RefsExact'
<1>0. SessionsExact /\ HandlesExact /\ HandleFacts
  BY ExactParts, Zenon DEF RefsInv
<1>1. /\ Req \in Workers /\ Req \in Threads /\ Workers \subseteq Threads
      /\ pc \in [Threads -> Labels] /\ lhnd \in [Threads -> Hnds \cup {NoHnd}]
      /\ href \in [Hnds -> Int] /\ sref \in [Sess -> Int] /\ hsess \in [Hnds -> Sess \cup {NoSess}]
  BY ThreadFacts, LocalFacts, Zenon DEF TypeOK, RefTypes, HandleTypes
<1>2. PICK s0 \in Sess : s0 = lsess[Req]
  BY <1>1, LocalFacts, Zenon DEF AttachCreate
<1>n. pc[Req] = "attach" /\ lhnd[Req] = NoHnd /\ hsess[h] = NoSess
  <2>1. pc[Req] = "attach" /\ hsess[h] = NoSess
    BY Zenon DEF AttachCreate
  <2> QED
    BY <1>0, <1>1, <2>1, Zenon DEF HandleFacts, EarlyLabels
<1>3. /\ pc'[Req] = "attach_plugin" /\ lhnd'[Req] = h
      /\ \A q \in Threads \ {Req} : pc'[q] = pc[q] /\ lhnd'[q] = lhnd[q]
      /\ hsess' = [hsess EXCEPT ![h] = s0] /\ href' = [href EXCEPT ![h] = 3]
      /\ sref' = [sref EXCEPT ![s0] = @ + 1] /\ listed' = listed \cup {h}
      /\ UNCHANGED <<app, pref, plugged, ending, loop, lsess, sid, sdestroyed>>
  BY <1>1, <1>2, Zenon DEF AttachCreate, Goto, tableVars
<1>4. /\ href[h] = 0 /\ pref[h] = 0 /\ HandleUsers(h) = {} /\ LoopRefs(h) = 0
      /\ h \notin listed \cup plugged \cup ending /\ app[h] = "none"
  BY <1>0, <1>n, <1>3, FreshHandle, Zenon
<1>5. \A x \in Hnds :
         /\ x = h => Cardinality(HandleUsers(x)') = Cardinality(HandleUsers(x)) + 1
         /\ x # h => Cardinality(HandleUsers(x)') = Cardinality(HandleUsers(x))
  <2>1. lhnd[Req] \notin Hnds /\ lhnd'[Req] = h /\ \A q \in Workers \ {Req} : lhnd'[q] = lhnd[q]
    BY <1>1, <1>n, <1>3, NullsAssumption, Zenon
  <2> QED
    BY <1>1, <2>1, HandleTaken, Zenon
<1>6. HandlesExact'
  <2>1. Cardinality(HandleUsers(h)') = 1
    BY <1>4, <1>5, NoneCounted, SumNone, Zenon
  <2>2. hsess'[h] # NoSess /\ href'[h] = 3 /\ h \in listed'
    BY <1>1, <1>2, <1>n, <1>3, NullsAssumption, Zenon
  <2>3. LoopRefs(h)' = 0
    BY <1>n, <1>3, <1>4, Zenon DEF LoopRefs
  <2>4. href'[h] = HandleCount(h)'
    BY <1>3, <1>4, <2>1, <2>2, <2>3, SumNone, Zenon DEF HandleCount, One
  <2>5. pref'[h] = PluginCount(h)'
    BY <1>0, <1>n, <1>3, Zenon DEF HandlesExact, PluginCount
  <2>6. \A x \in Hnds \ {h} : Cardinality(HandleUsers(x)') = Cardinality(HandleUsers(x))
    BY <1>5, Zenon
  <2>7. \A x \in Hnds \ {h} : href'[x] = href[x] /\ hsess'[x] = hsess[x] /\ (x \in listed' <=> x \in listed)
    BY <1>1, <1>n, <1>3, Zenon
  <2> QED
    BY <1>0, <1>n, <1>3, <2>4, <2>5, <2>6, <2>7, OneHandle, Zenon
<1>7. SessionsExact'
  <2>1. ASSUME NEW s \in Sess
        PROVE  Cardinality(LiveHandlesOf(s)') = Cardinality(LiveHandlesOf(s)) + One(s = s0)
    <3>1. IsFiniteSet(LiveHandlesOf(s)) /\ Cardinality(LiveHandlesOf(s)) \in Nat
      BY HandlesFinite, Zenon DEF LiveHandlesOf
    <3>2. \A y : y # h => (y \in LiveHandlesOf(s)' <=> y \in LiveHandlesOf(s))
      BY <1>1, <1>n, <1>3, Zenon DEF LiveHandlesOf
    <3>3. h \notin LiveHandlesOf(s) /\ (h \in LiveHandlesOf(s)' <=> s = s0)
      <4>1. hsess'[h] = s0 /\ href'[h] > 0 /\ ~(href[h] > 0)
        BY <1>1, <1>3, <1>4, SumNone, Zenon
      <4> QED
        BY <4>1, Zenon DEF LiveHandlesOf
    <3>4. /\ h \in LiveHandlesOf(s)' => Cardinality(LiveHandlesOf(s)') = Cardinality(LiveHandlesOf(s)) + 1
          /\ h \notin LiveHandlesOf(s)' => Cardinality(LiveHandlesOf(s)') = Cardinality(LiveHandlesOf(s)) + 0
      BY <3>1, <3>2, <3>3, CountGain, Zenon
    <3> QED
      BY <3>3, <3>4, Zenon DEF One
  <2>2. \A s \in Sess : UsersOf(s)' = UsersOf(s)
    BY <1>1, <1>n, <1>3, ZenonT(40) DEF UsersOf
  <2>3. \A s \in Sess : One(HasInitialRef(s)') = One(HasInitialRef(s))
    BY <1>1, <1>n, <1>3, InitialStep, Zenon DEF One
  <2>4. \A s \in Sess : SessionCount(s)' = SessionCount(s)
    BY <2>2, <2>3, Zenon DEF SessionCount
  <2> QED
    BY <1>0, <1>1, <1>3, <2>1, <2>4, SessionsOwned, ZenonT(40)
<1> QED
  BY <1>6, <1>7, ExactParts, Zenon

\* A step of the requests thread on its handle: the handle's references change, and
\* it is not freed.
LEMMA ExactOwnHandle ==
    ASSUME CountLaws, TypeOK, TypeOK', RefsInv, NEW h \in Hnds, NEW l, Goto(Req, l),
           l \notin {"created", "destroy_clear"}, pc[Req] \notin {"created", "destroy_clear"},
           UNCHANGED <<sid, sdestroyed, lsess, lhnd, hsess, sref>>,
           \A x \in Hnds \ {h} :
              /\ href'[x] = href[x] /\ pref'[x] = pref[x] /\ app'[x] = app[x] /\ loop'[x] = loop[x]
              /\ (x \in listed' <=> x \in listed) /\ (x \in plugged' <=> x \in plugged)
              /\ (x \in ending' <=> x \in ending),
           href[h] > 0, href'[h] > 0, href'[h] = HandleCount(h)', pref'[h] = PluginCount(h)'
    PROVE  RefsExact'
<1>0. SessionsExact /\ HandlesExact
  BY ExactParts, Zenon DEF RefsInv
<1>1. /\ Req \in Threads /\ Workers \subseteq Threads /\ pc \in [Threads -> Labels]
  BY ThreadFacts, LocalFacts, Zenon
<1>2. pc'[Req] = l /\ \A q \in Threads \ {Req} : pc'[q] = pc[q]
  BY <1>1, Zenon DEF Goto
<1>3. \A x : Cardinality(HandleUsers(x)') = Cardinality(HandleUsers(x))
  BY Zenon DEF HandleUsers
<1>4. HandlesExact'
  BY <1>0, <1>3, OneHandle, Zenon
<1>5. SessionsExact'
  <2>1. \A s \in Sess : LiveHandlesOf(s)' = LiveHandlesOf(s)
    BY Zenon DEF LiveHandlesOf
  <2>2. \A s \in Sess : UsersOf(s)' = UsersOf(s)
    BY <1>1, <1>2, Zenon DEF UsersOf
  <2>3. \A s \in Sess : One(HasInitialRef(s)') = One(HasInitialRef(s))
    BY <1>1, <1>2, InitialStep, Zenon DEF One
  <2> QED
    BY <1>0, <2>1, <2>2, <2>3, Zenon DEF SessionsExact, SessionCount
<1> QED
  BY <1>4, <1>5, ExactParts, Zenon

\* What is counted for the handle of an attach.
LEMMA OwnHandle ==
    ASSUME CountLaws, TypeOK, RefsInv, NEW h \in Hnds, h = lhnd[Req]
    PROVE  /\ hsess[h] # NoSess /\ href[h] = HandleCount(h) /\ pref[h] = PluginCount(h)
           /\ Cardinality(HandleUsers(h)) \in Nat \ {0} /\ LoopRefs(h) \in Nat
<1>1. HandlesExact /\ HandleFacts
  BY ExactParts, Zenon DEF RefsInv
<1>2. Req \in HandleUsers(h) /\ HandleUsers(h) \in SUBSET Workers
  BY ThreadFacts, Zenon DEF HandleUsers
<1>3. Cardinality(HandleUsers(h)) \in Nat \ {0}
  BY <1>2, WorkersFinite, NoneCounted, Zenon
<1> QED
  BY <1>1, <1>3, ThreadFacts, Zenon DEF HandlesExact, HandleFacts, LoopRefs
=============================================================================
