----------------------------- MODULE PfUnixRefs -----------------------------
(***************************************************************************)
(* The Unix sockets transport: the inductive invariant, and the proofs     *)
(* that every step keeps its types and the counters of instances.          *)
(***************************************************************************)
EXTENDS PfUnix, FiniteSetTheorems, TLAPS

Sources(c) == {s \in Sess : source[s] = c}
Users(c) == {p \in Callers : lc[p] = c}
Count(c) == Holders(c) + One(c \in clients)

\* The threads are different ones.
LEMMA ThreadFacts ==
    /\ {Req, Wd, Ev} = Callers /\ Callers \subseteq Threads /\ Pf \in Threads /\ Pf \notin Callers
    /\ Req # Wd /\ Req # Ev /\ Wd # Ev /\ NoThread \notin Threads
BY NamesAssumption, SMTT(40) DEF Callers, Threads

\* The number of a condition.
LEMMA OneNumbers == \A b \in BOOLEAN : One(b) \in {0, 1} /\ (b => One(b) = 1) /\ (~b => One(b) = 0)
BY DEF One

\* Finitely many sessions and threads refer to a client.
LEMMA FiniteParts ==
    ASSUME NEW c
    PROVE  /\ IsFiniteSet(Sources(c)) /\ Cardinality(Sources(c)) \in Nat
           /\ IsFiniteSet(Users(c)) /\ Cardinality(Users(c)) \in Nat
           /\ Cardinality(Sources(c)') \in Nat /\ Cardinality(Users(c)') \in Nat
<1>1. IsFiniteSet(Sess) /\ IsFiniteSet(Callers)
  <2>1. IsFiniteSet({}) /\ Callers = {} \cup {Req} \cup {Wd} \cup {Ev}
    BY FS_EmptySet DEF Callers
  <2> QED
    BY <2>1, FS_AddElement, OptionsAssumption, Zenon
<1>2. /\ Sources(c) \subseteq Sess /\ Users(c) \subseteq Callers
      /\ Sources(c)' \subseteq Sess /\ Users(c)' \subseteq Callers
  BY DEF Sources, Users
<1> QED
  BY <1>1, <1>2, FS_Subset, FS_CardinalityType

\* The callers that use a client when one of them may change.
LEMMA UsersMove ==
    ASSUME NEW c, NEW p \in Callers, \A q \in Callers \ {p} : lc'[q] = lc[q]
    PROVE  /\ lc[p] = c /\ lc'[p] # c => Cardinality(Users(c)') = Cardinality(Users(c)) - 1
           /\ lc[p] # c /\ lc'[p] = c => Cardinality(Users(c)') = Cardinality(Users(c)) + 1
           /\ (lc[p] = c <=> lc'[p] = c) => Cardinality(Users(c)') = Cardinality(Users(c))
<1>1. CASE lc[p] = c <=> lc'[p] = c
  <2>1. Users(c)' = Users(c)
    BY <1>1 DEF Users
  <2> QED
    BY <1>1, <2>1
<1>2. CASE lc[p] # c /\ lc'[p] = c
  <2>1. Users(c)' = Users(c) \cup {p} /\ p \notin Users(c)
    BY <1>2 DEF Users
  <2> QED
    BY <1>2, <2>1, FiniteParts, FS_AddElement, ZenonT(40)
<1>3. CASE lc[p] = c /\ lc'[p] # c
  <2>1. Users(c)' = Users(c) \ {p} /\ p \in Users(c)
    BY <1>3 DEF Users
  <2> QED
    BY <1>3, <2>1, FiniteParts, FS_RemoveElement, ZenonT(40)
<1> QED
  BY <1>1, <1>2, <1>3

\* A session that changes its source changes two counts by one.
LEMMA SourcesMove ==
    ASSUME NEW c, NEW s \in Sess, \A x \in Sess \ {s} : source'[x] = source[x]
    PROVE  /\ source[s] = c /\ source'[s] # c => Cardinality(Sources(c)') = Cardinality(Sources(c)) - 1
           /\ source[s] # c /\ source'[s] = c => Cardinality(Sources(c)') = Cardinality(Sources(c)) + 1
           /\ (source[s] = c <=> source'[s] = c) => Cardinality(Sources(c)') = Cardinality(Sources(c))
<1>1. CASE source[s] = c <=> source'[s] = c
  <2>1. Sources(c)' = Sources(c)
    BY <1>1 DEF Sources
  <2> QED
    BY <1>1, <2>1
<1>2. CASE source[s] # c /\ source'[s] = c
  <2>1. Sources(c)' = Sources(c) \cup {s} /\ s \notin Sources(c)
    BY <1>2 DEF Sources
  <2> QED
    BY <1>2, <2>1, FiniteParts, FS_AddElement, ZenonT(40)
<1>3. CASE source[s] = c /\ source'[s] # c
  <2>1. Sources(c)' = Sources(c) \ {s} /\ s \in Sources(c)
    BY <1>3 DEF Sources
  <2> QED
    BY <1>3, <2>1, FiniteParts, FS_RemoveElement, ZenonT(40)
<1> QED
  BY <1>1, <1>2, <1>3

\* A counter adds up what refers to a client.
LEMMA CountParts ==
    ASSUME NEW c
    PROVE  /\ Count(c) = One(c \in requests) + Cardinality(Sources(c)) + Cardinality(Users(c)) + One(c \in clients)
           /\ Count(c)' = One(c \in requests') + Cardinality(Sources(c)') + Cardinality(Users(c)') + One(c \in clients')
           /\ One(c \in requests) \in {0, 1} /\ One(c \in clients) \in {0, 1}
           /\ One(c \in requests') \in {0, 1} /\ One(c \in clients') \in {0, 1}
           /\ Cardinality(Sources(c)) \in Nat /\ Cardinality(Users(c)) \in Nat
           /\ Cardinality(Sources(c)') \in Nat /\ Cardinality(Users(c)') \in Nat
           /\ Count(c) \in Nat /\ Count(c)' \in Nat
<1>1. /\ Count(c) = One(c \in requests) + Cardinality(Sources(c)) + Cardinality(Users(c)) + One(c \in clients)
      /\ Count(c)' = One(c \in requests') + Cardinality(Sources(c)') + Cardinality(Users(c)') + One(c \in clients')
  BY DEF Count, Holders, Sources, Users
<1>2. /\ One(c \in requests) \in {0, 1} /\ One(c \in clients) \in {0, 1}
      /\ One(c \in requests') \in {0, 1} /\ One(c \in clients') \in {0, 1}
  BY DEF One
<1>3. /\ Cardinality(Sources(c)) \in Nat /\ Cardinality(Users(c)) \in Nat
      /\ Cardinality(Sources(c)') \in Nat /\ Cardinality(Users(c)') \in Nat
  BY FiniteParts
<1> QED
  BY <1>1, <1>2, <1>3
-----------------------------------------------------------------------------
(* The inductive invariant. *)

\* The counter of a client is exact until a session of it times out; a client whose
\* counter is exact is freed with its last reference.
Refs(c) ==
    /\ tsref[c] >= Count(c)
    /\ c \notin session_timeout => tsref[c] = Count(c) /\ (c \in freed => tsref[c] = 0)
RefsFacts == \A c \in Clients : Refs(c)

\* Nothing refers to a client that is not there yet.
New(c) == IF c \in Dgrams THEN c \notin clients ELSE peer[c] \in {"absent", "connecting"}
NewFacts ==
    \A c \in Clients : New(c) =>
        /\ fd[c] = "none" /\ c \notin freed /\ c \notin requests
        /\ \A s \in Sess : source[s] # c
        /\ \A p \in Callers : lc[p] # c

\* Only clients of the table have an open descriptor, and those of datagrams never do.
FdFacts ==
    \A c \in Clients :
        /\ fd[c] = "open" => c \in clients
        /\ c \in Dgrams => fd[c] = "none" /\ peer[c] = "absent"

\* The thread serves descriptors that are open, or that it closed in this round.
PollFacts ==
    /\ pc[Pf] = "poll" => \A c \in pollin \cup pollout : fd[c] = "open"
    /\ \A c \in Clients :
          /\ <<"hup", c>> \in revents \/ <<"out", c>> \in revents => fd[c] = "open"
          /\ <<"in", c>> \in revents => fd[c] # "none"
    /\ pc[Pf] \in {"gone", "close"} =>
          /\ lc[Pf] \in Clients /\ fd[lc[Pf]] = "open"
          /\ <<"hup", lc[Pf]>> \notin revents /\ <<"out", lc[Pf]>> \notin revents

\* The watchdog's labels while it has a session, and while it has a client.
Expiring == {"expired", "send", "push", "wake", "sent", "remove"}
Sending == {"send", "push", "wake", "sent"}
CoreFacts ==
    /\ inbox \cap requests = {}
    /\ \A p \in Callers : pc[p] = "idle" => lc[p] = NoClient
    /\ pc[Wd] \notin Sending => lc[Wd] = NoClient
    /\ pc[Wd] \in Expiring => ls[Wd] \in Sess
    /\ \A s \in Sess : sess[s] = "none" => source[s] = NoClient
    /\ \A s \in Sess : sess[s] = "live" => source[s] # NoClient \/ (pc[Req] = "created" /\ ls[Req] = s)
    /\ pc[Req] = "created" => ls[Req] \in Sess /\ source[ls[Req]] = NoClient /\ sess[ls[Req]] # "none"

\* Without the two timeouts the watchdog never finds anything.
TimeoutFacts == ~SessionTimeout /\ ~Reclaim => pc[Wd] = "idle" /\ session_timeout = {}

PfInv ==
    /\ TypeOK /\ RefsFacts /\ NewFacts /\ FdFacts /\ PollFacts /\ CoreFacts /\ TimeoutFacts
    /\ TablesSound /\ NoLostWakeup

-----------------------------------------------------------------------------
(* Counters. *)

\* Nobody takes or drops a reference to c.
LEMMA RefsSame ==
    ASSUME NEW c \in Clients, Refs(c), tsref'[c] = tsref[c], Count(c)' = Count(c),
           session_timeout \subseteq session_timeout', c \in freed' => c \in freed
    PROVE  Refs(c)'
BY Zenon DEF Refs

\* A reference to c is taken by way of another, or c is not freed.
LEMMA RefsTake ==
    ASSUME NEW c \in Clients, Refs(c), tsref[c] \in Int, tsref'[c] = tsref[c] + 1,
           Count(c)' = Count(c) + 1, UNCHANGED session_timeout, c \in freed' => c \in freed,
           Count(c) > 0 \/ c \notin freed
    PROVE  Refs(c)'
<1>1. Count(c) \in Nat
  BY CountParts
<1> QED
  BY <1>1 DEF Refs

\* A reference to c is dropped.
LEMMA RefsDrop ==
    ASSUME NEW c \in Clients, Refs(c), tsref[c] \in Int, tsref'[c] = tsref[c] - 1,
           Count(c) > 0, Count(c)' = Count(c) - 1, session_timeout \subseteq session_timeout',
           c \in freed' => c \in freed \/ tsref[c] = 1
    PROVE  Refs(c)'
<1>1. Count(c) \in Nat
  BY CountParts, SMTT(40)
<1> QED
  BY <1>1 DEF Refs

\* What a step that changes the user p, the session s or the membership of a client
\* does to a counter.
LEMMA CountUser ==
    ASSUME NEW c \in Clients, NEW p \in Callers, \A q \in Callers \ {p} : lc'[q] = lc[q],
           UNCHANGED <<source, requests, clients>>
    PROVE  /\ lc[p] = c /\ lc'[p] # c => Count(c) > 0 /\ Count(c)' = Count(c) - 1
           /\ lc[p] # c /\ lc'[p] = c => Count(c)' = Count(c) + 1
           /\ (lc[p] = c <=> lc'[p] = c) => Count(c)' = Count(c)
<1>1. Sources(c)' = Sources(c)
  BY Zenon DEF Sources
<1>2. /\ lc[p] = c /\ lc'[p] # c => Cardinality(Users(c)') = Cardinality(Users(c)) - 1
      /\ lc[p] # c /\ lc'[p] = c => Cardinality(Users(c)') = Cardinality(Users(c)) + 1
      /\ (lc[p] = c <=> lc'[p] = c) => Cardinality(Users(c)') = Cardinality(Users(c))
  BY UsersMove, Zenon
<1>3. /\ Count(c) = One(c \in requests) + Cardinality(Sources(c)) + Cardinality(Users(c)) + One(c \in clients)
      /\ Count(c)' = One(c \in requests) + Cardinality(Sources(c)') + Cardinality(Users(c)') + One(c \in clients)
      /\ One(c \in requests) \in {0, 1} /\ One(c \in clients) \in {0, 1}
      /\ Cardinality(Sources(c)) \in Nat /\ Cardinality(Users(c)) \in Nat
      /\ Cardinality(Sources(c)') \in Nat /\ Cardinality(Users(c)') \in Nat
  BY CountParts, Zenon
<1> QED
  BY <1>1, <1>2, <1>3, SMTT(40)

\* The references to a client when one session changes its source.
LEMMA CountSource ==
    ASSUME NEW c \in Clients, NEW s \in Sess, \A x \in Sess \ {s} : source'[x] = source[x],
           UNCHANGED <<requests, clients>>, \A q \in Callers : lc'[q] = lc[q]
    PROVE  /\ source[s] = c /\ source'[s] # c => Count(c) > 0 /\ Count(c)' = Count(c) - 1
           /\ source[s] # c /\ source'[s] = c => Count(c)' = Count(c) + 1
           /\ (source[s] = c <=> source'[s] = c) => Count(c)' = Count(c)
<1>1. Users(c)' = Users(c)
  BY Zenon DEF Users
<1>2. /\ source[s] = c /\ source'[s] # c => Cardinality(Sources(c)') = Cardinality(Sources(c)) - 1
      /\ source[s] # c /\ source'[s] = c => Cardinality(Sources(c)') = Cardinality(Sources(c)) + 1
      /\ (source[s] = c <=> source'[s] = c) => Cardinality(Sources(c)') = Cardinality(Sources(c))
  BY SourcesMove, Zenon
<1>3. /\ Count(c) = One(c \in requests) + Cardinality(Sources(c)) + Cardinality(Users(c)) + One(c \in clients)
      /\ Count(c)' = One(c \in requests) + Cardinality(Sources(c)') + Cardinality(Users(c)') + One(c \in clients)
      /\ One(c \in requests) \in {0, 1} /\ One(c \in clients) \in {0, 1}
      /\ Cardinality(Sources(c)) \in Nat /\ Cardinality(Users(c)) \in Nat
      /\ Cardinality(Sources(c)') \in Nat /\ Cardinality(Users(c)') \in Nat
  BY CountParts, Zenon
<1> QED
  BY <1>1, <1>2, <1>3, SMTT(40)

\* The references to a client when a request is queued or taken, or the table changes.
LEMMA CountMember ==
    ASSUME NEW c \in Clients, UNCHANGED source, \A q \in Callers : lc'[q] = lc[q]
    PROVE  Count(c)' = Count(c) + One(c \in requests') - One(c \in requests)
                       + One(c \in clients') - One(c \in clients)
<1>1. Users(c)' = Users(c) /\ Sources(c)' = Sources(c)
  BY Zenon DEF Users, Sources
<1> QED
  BY <1>1, CountParts

\* A source, a user and an entry of the table count.
LEMMA SourceCounts ==
    ASSUME NEW c \in Clients, NEW s \in Sess, source[s] = c
    PROVE  Count(c) > 0
<1>1. s \in Sources(c)
  BY Zenon DEF Sources
<1>2. Cardinality(Sources(c)) # 0
  BY <1>1, FiniteParts, FS_EmptySet, Zenon
<1> QED
  BY <1>2, CountParts

\* A client that a thread uses is referred to.
LEMMA UserCounts ==
    ASSUME NEW c \in Clients, NEW p \in Callers, lc[p] = c
    PROVE  Count(c) > 0
<1>1. p \in Users(c)
  BY Zenon DEF Users
<1>2. Cardinality(Users(c)) # 0
  BY <1>1, FiniteParts, FS_EmptySet, Zenon
<1> QED
  BY <1>2, CountParts

\* So is one that is in the table or has a request in the queue.
LEMMA MemberCounts ==
    ASSUME NEW c \in Clients, c \in clients \/ c \in requests
    PROVE  Count(c) > 0
<1>1. One(c \in clients) = 1 \/ One(c \in requests) = 1
  BY DEF One
<1> QED
  BY <1>1, CountParts

-----------------------------------------------------------------------------
(* Types. *)

\* TypeOK with one conjunct per variable, those about clients and about threads apart.
TypeClients ==
    /\ initialized \in BOOLEAN /\ stopping \in BOOLEAN /\ wake \in BOOLEAN
    /\ peer \in [Clients -> {"absent", "connecting", "connected", "hungup", "half"}]
    /\ fd \in [Clients -> {"none", "open", "closed"}]
    /\ inbox \subseteq Clients /\ clients \subseteq Clients /\ freed \subseteq Clients
    /\ messages \subseteq Clients /\ session_timeout \subseteq Clients
    /\ pollout \subseteq Clients /\ pollin \subseteq Clients /\ requests \subseteq Clients
    /\ tsref \in [Clients -> Int]
    /\ revents \subseteq Kinds \X (Clients \cup {NoClient})
Labels == CallerLabels \cup {"loop", "poll", "gone", "close", "ended"}
Serves == {"serve", "created", "send", "push", "wake", "sent"}
TypeThreads ==
    /\ clients_mutex \in {Pf, NoThread} /\ sessions_mutex \in {Wd, NoThread}
    /\ sess \in [Sess -> {"none", "live", "over"}]
    /\ source \in [Sess -> Clients \cup {NoClient}]
    /\ transport_gone \subseteq Sess
    /\ pc \in [Threads -> Labels]
    /\ lc \in [Threads -> Clients \cup {NoClient}]
    /\ ls \in [Threads -> Sess \cup {NoSess}]
    /\ \A p \in Callers : pc[p] \in Serves => lc[p] \in Clients

\* TypeOK in two parts: clients and sessions, threads and their locals.
LEMMA TypeParts ==
    /\ TypeOK <=> TypeClients /\ TypeThreads
    /\ TypeOK' <=> TypeClients' /\ TypeThreads'
<1>1. TypeOK <=> TypeClients /\ TypeThreads
  BY ZenonT(40) DEF TypeOK, TypeClients, TypeThreads, Labels, Serves
<1>2. TypeOK' <=> TypeClients' /\ TypeThreads'
  BY ZenonT(40) DEF TypeOK, TypeClients, TypeThreads, Labels, Serves
<1> QED
  BY <1>1, <1>2, Zenon

\* The initial values have their types.
LEMMA TypeInit == ASSUME Init PROVE TypeOK
<1>1. TypeClients
  <2>1. tsref \in [Clients -> Int]
    BY DEF Init
  <2>2. /\ peer \in [Clients -> {"absent", "connecting", "connected", "hungup", "half"}]
        /\ fd \in [Clients -> {"none", "open", "closed"}]
    BY Zenon DEF Init
  <2> QED
    BY <2>1, <2>2, Zenon DEF Init, TypeClients
<1>2. TypeThreads
  BY ThreadFacts, Zenon DEF Init, TypeThreads, Labels, CallerLabels, Serves
<1> QED
  BY <1>1, <1>2, TypeParts, Zenon

\* Clients, start-up, shutdown and the freeing of a session keep the types.
LEMMA TypeOutside ==
    ASSUME PfInv,
           InitDone \/ Destroy \/ (\E c \in Clients : Peer(c)) \/ (\E s \in Sess : SessionFree(s)) \/ UNCHANGED vars
    PROVE  TypeOK'
<1>0. TypeClients /\ TypeThreads
  BY TypeParts, Zenon DEF PfInv
<1>1. CASE InitDone \/ Destroy \/ UNCHANGED vars
  <2>1. TypeClients'
    BY <1>0, <1>1, Zenon DEF TypeClients, InitDone, Destroy, vars, netVars, clientVars, pollVars
  <2>2. TypeThreads'
    BY <1>0, <1>1, Zenon DEF TypeThreads, InitDone, Destroy, vars, sessVars, lockVars
  <2> QED
    BY <2>1, <2>2, TypeParts, Zenon
<1>2. ASSUME NEW c \in Clients, Peer(c) PROVE TypeOK'
  <2>1. TypeClients'
    BY <1>0, <1>2, OptionsAssumption, ZenonT(40) DEF TypeClients, Peer, PeerConnects, PeerSends, PeerCloses, clientVars, pollVars
  <2>2. TypeThreads'
    BY <1>0, <1>2, ZenonT(40) DEF TypeThreads, Peer, PeerConnects, PeerSends, PeerCloses, sessVars, lockVars
  <2> QED
    BY <2>1, <2>2, TypeParts, Zenon
<1>3. ASSUME NEW s \in Sess, SessionFree(s) PROVE TypeOK'
  <2>0. source[s] \in Clients
    BY <1>0, <1>3, Zenon DEF TypeThreads, SessionFree
  <2>1. TypeClients'
    BY <1>0, <1>3, <2>0, SMTT(40) DEF TypeClients, SessionFree, Drop, netVars, pollVars
  <2>2. TypeThreads'
    BY <1>0, <1>3, Zenon DEF TypeThreads, SessionFree, lockVars
  <2> QED
    BY <2>1, <2>2, TypeParts, Zenon
<1> QED
  BY <1>1, <1>2, <1>3, Zenon

\* So does janus_pfunix_thread.
LEMMA TypePf == ASSUME PfInv, PfThread PROVE TypeOK'
<1>0. TypeClients /\ TypeThreads
  BY TypeParts, ThreadFacts, Zenon DEF PfInv
<1>1. CASE PfEnd \/ PfPrepare \/ PfRound
  <2>1. TypeClients'
    BY <1>0, <1>1, ZenonT(40) DEF TypeClients, PfEnd, PfPrepare, PfRound, netVars, clientVars, pollVars
  <2>2. TypeThreads'
    BY <1>0, <1>1, ThreadFacts, ZenonT(40) DEF TypeThreads, PfEnd, PfPrepare, PfRound, Goto, sessVars, lockVars, Labels, CallerLabels
  <2> QED
    BY <2>1, <2>2, TypeParts, Zenon
<1>2. CASE PfPoll
  <2>0. Ready \subseteq Kinds \X (Clients \cup {NoClient})
    BY <1>0 DEF Ready, Kinds, Listening, TypeClients
  <2>1. TypeClients'
    BY <1>0, <1>2, <2>0, Zenon DEF TypeClients, PfPoll, netVars, clientVars
  <2>2. TypeThreads'
    BY <1>0, <1>2, ThreadFacts, Zenon DEF TypeThreads, PfPoll, Goto, sessVars, lockVars, Labels, CallerLabels
  <2> QED
    BY <2>1, <2>2, TypeParts, Zenon
<1>3. CASE PfWake \/ (\E c \in Clients : PfIn(c) \/ PfInClosed(c))
  <2>1. TypeClients'
    <3>1. CASE PfWake
      BY <1>0, <3>1, Zenon DEF TypeClients, PfWake, netVars, clientVars
    <3>2. ASSUME NEW c \in Clients, PfIn(c) PROVE TypeClients'
      BY <1>0, <3>2, SMTT(40) DEF TypeClients, PfIn, clientVars
    <3>3. ASSUME NEW c \in Clients, PfInClosed(c) PROVE TypeClients'
      BY <1>0, <3>3, Zenon DEF TypeClients, PfInClosed, netVars, clientVars
    <3> QED
      BY <1>3, <3>1, <3>2, <3>3, Zenon
  <2>2. TypeThreads'
    BY <1>0, <1>3, ZenonT(40) DEF TypeThreads, PfWake, PfIn, PfInClosed, sessVars, lockVars
  <2> QED
    BY <2>1, <2>2, TypeParts, Zenon
<1>4. CASE \E c \in Clients : PfAccept(c) \/ PfDgram(c) \/ PfOut(c)
  <2>1. TypeClients'
    <3>1. CASE \E c \in Clients : PfAccept(c)
      BY <1>0, <3>1, SMTT(40) DEF TypeClients, PfAccept, netVars
    <3>2. CASE \E c \in Clients : PfDgram(c)
      BY <1>0, <3>2, SMTT(40) DEF TypeClients, PfDgram, netVars
    <3>3. CASE \E c \in Clients : PfOut(c)
      BY <1>0, <3>3, SMTT(40) DEF TypeClients, PfOut, netVars
    <3> QED
      BY <1>4, <3>1, <3>2, <3>3, Zenon
  <2>2. TypeThreads'
    BY <1>0, <1>4, ZenonT(40) DEF TypeThreads, PfAccept, PfDgram, PfOut, sessVars, lockVars
  <2> QED
    BY <2>1, <2>2, TypeParts, Zenon
<1>5. CASE \E c \in Clients : PfHup(c)
  <2>1. TypeClients'
    BY <1>0, <1>5, Zenon DEF TypeClients, PfHup, netVars, clientVars
  <2>2. TypeThreads'
    <3>1. /\ clients_mutex' = Pf /\ pc' = [pc EXCEPT ![Pf] = "gone"]
          /\ \E c \in Clients : lc' = [lc EXCEPT ![Pf] = c]
          /\ UNCHANGED <<sessions_mutex, sess, source, transport_gone, ls>>
      BY <1>5, Zenon DEF PfHup, Goto, sessVars
    <3>2. pc' \in [Threads -> Labels] /\ lc' \in [Threads -> Clients \cup {NoClient}]
      BY <1>0, <3>1, ZenonT(40) DEF TypeThreads, Labels
    <3>3. \A p \in Callers : pc'[p] = pc[p] /\ lc'[p] = lc[p]
      BY <1>0, <3>1, ThreadFacts, ZenonT(40) DEF TypeThreads
    <3> QED
      BY <1>0, <3>1, <3>2, <3>3, ZenonT(40) DEF TypeThreads
  <2> QED
    BY <2>1, <2>2, TypeParts, Zenon
<1>6. CASE PfGone
  <2>1. TypeClients'
    BY <1>0, <1>6, Zenon DEF TypeClients, PfGone, netVars, clientVars, pollVars
  <2>2. TypeThreads'
    BY <1>0, <1>6, ThreadFacts, ZenonT(40) DEF TypeThreads, PfGone, SessionsOf, Goto, lockVars, Labels
  <2> QED
    BY <2>1, <2>2, TypeParts, Zenon
<1>7. CASE PfClose
  <2>0. lc[Pf] \in Clients
    BY <1>7, Zenon DEF PfInv, PollFacts, PfClose
  <2>1. TypeClients'
    BY <1>0, <1>7, <2>0, SMTT(40) DEF TypeClients, PfClose, Drop, netVars, pollVars
  <2>2. TypeThreads'
    BY <1>0, <1>7, ThreadFacts, Zenon DEF TypeThreads, PfClose, Goto, sessVars, Labels, CallerLabels
  <2> QED
    BY <2>1, <2>2, TypeParts, Zenon
<1> QED
  BY <1>1, <1>2, <1>3, <1>4, <1>5, <1>6, <1>7, Zenon DEF PfThread

\* A step of a caller that leaves it with a client where it needs one.
LEMMA TypeCaller ==
    ASSUME TypeThreads, NEW p \in Callers, NEW l \in Labels, NEW c \in Clients \cup {NoClient},
           NEW s \in Sess \cup {NoSess}, l \in Serves => c \in Clients,
           pc' = [pc EXCEPT ![p] = l], lc' = [lc EXCEPT ![p] = c], ls' = [ls EXCEPT ![p] = s],
           clients_mutex' = clients_mutex, sessions_mutex' \in {Wd, NoThread},
           sess' \in [Sess -> {"none", "live", "over"}], source' \in [Sess -> Clients \cup {NoClient}],
           transport_gone' \subseteq Sess
    PROVE  TypeThreads'
<1>1. pc' \in [Threads -> Labels] /\ lc' \in [Threads -> Clients \cup {NoClient}] /\ ls' \in [Threads -> Sess \cup {NoSess}]
  BY Zenon DEF TypeThreads
<1>2. \A q \in Callers : pc'[q] \in Serves => lc'[q] \in Clients
  BY ThreadFacts, ZenonT(40) DEF TypeThreads
<1> QED
  BY <1>1, <1>2, Zenon DEF TypeThreads

\* So does janus_pfunix_send_message.
LEMMA TypeSend == ASSUME PfInv, NEW p \in Callers, Send(p) PROVE TypeOK'
<1>0. TypeClients /\ TypeThreads /\ p \in Threads
  BY TypeParts, ThreadFacts, Zenon DEF PfInv
<1>1. TypeClients'
  BY <1>0, ZenonT(40) DEF TypeClients, TypeThreads, Send, SendCheck, SendPush, SendWake, Serves, netVars, clientVars, pollVars
<1>2. PICK l \in {"push", "wake", "sent"} : pc' = [pc EXCEPT ![p] = l]
  <2>1. CASE SendCheck(p)
    BY <2>1, Zenon DEF SendCheck, Goto
  <2>2. CASE SendPush(p) \/ SendWake(p)
    BY <2>2, Zenon DEF SendPush, SendWake, Goto
  <2> QED
    BY <2>1, <2>2, Zenon DEF Send
<1>3. lc[p] \in Clients /\ UNCHANGED <<lc, ls, clients_mutex, sessions_mutex, sess, source, transport_gone>>
  BY <1>0, Zenon DEF TypeThreads, Serves, Send, SendCheck, SendPush, SendWake, sessVars, lockVars
<1>4. l \in Labels /\ ls[p] \in Sess \cup {NoSess} /\ lc' = [lc EXCEPT ![p] = lc[p]] /\ ls' = [ls EXCEPT ![p] = ls[p]]
  BY <1>0, <1>3, Zenon DEF TypeThreads, Labels, CallerLabels
<1>5. TypeThreads'
  BY <1>0, <1>2, <1>3, <1>4, TypeCaller, Zenon DEF TypeThreads
<1> QED
  BY <1>1, <1>5, TypeParts, Zenon

\* So does the end of a call of it.
LEMMA TypeSendDone == ASSUME PfInv, NEW p \in Callers, SendDone(p) PROVE TypeOK'
<1>0. TypeClients /\ TypeThreads /\ p \in Threads
  BY TypeParts, ThreadFacts, Zenon DEF PfInv
<1>1. lc[p] \in Clients
  BY <1>0, Zenon DEF TypeThreads, SendDone, Serves
<1>2. TypeClients'
  BY <1>0, <1>1, SMTT(40) DEF TypeClients, SendDone, Drop, netVars, pollVars
<1>3. TypeThreads'
  <2>1. /\ pc' = [pc EXCEPT ![p] = "idle"] /\ lc' = [lc EXCEPT ![p] = NoClient]
        /\ UNCHANGED <<ls, clients_mutex, sessions_mutex, sess, source, transport_gone>>
    BY Zenon DEF SendDone, Goto, sessVars, lockVars
  <2>2. ls[p] \in Sess \cup {NoSess} /\ ls' = [ls EXCEPT ![p] = ls[p]] /\ "idle" \in Labels /\ "idle" \notin Serves
    BY <1>0, <2>1, Zenon DEF TypeThreads, Labels, CallerLabels, Serves
  <2> QED
    BY <1>0, <2>1, <2>2, TypeCaller, Zenon DEF TypeThreads
<1> QED
  BY <1>2, <1>3, TypeParts, Zenon

\* So does the requests thread.
LEMMA TypeReq == ASSUME PfInv, ReqThread PROVE TypeOK'
<1>0. TypeClients /\ TypeThreads /\ Req \in Threads /\ Req \in Callers
  BY TypeParts, ThreadFacts, Zenon DEF PfInv
<1>1. ASSUME NEW c \in Clients, ReqPop(c) PROVE TypeOK'
  <2>1. TypeClients'
    BY <1>0, <1>1, Zenon DEF TypeClients, ReqPop, netVars, clientVars, pollVars
  <2>2. TypeThreads'
    BY <1>0, <1>1, SMTT(40) DEF TypeThreads, ReqPop, Goto, sessVars, lockVars, Labels, CallerLabels
  <2> QED
    BY <2>1, <2>2, TypeParts, Zenon
<1>2. ASSUME NEW s \in Sess, ReqCreate(s) \/ ReqDestroy(s) PROVE TypeOK'
  <2>1. TypeClients'
    BY <1>0, <1>2, Zenon DEF TypeClients, ReqCreate, ReqDestroy, netVars, clientVars, pollVars
  <2>2. TypeThreads'
    <3>1. lc[Req] \in Clients /\ ls[Req] \in Sess \cup {NoSess}
      BY <1>0, <1>2, Zenon DEF TypeThreads, ReqCreate, ReqDestroy, Serves
    <3>2. /\ sess' \in [Sess -> {"none", "live", "over"}]
          /\ UNCHANGED <<source, transport_gone, clients_mutex, sessions_mutex, lc>>
      BY <1>0, <1>2, Zenon DEF TypeThreads, ReqCreate, ReqDestroy, lockVars
    <3>3. PICK l \in {"created", "send"}, x \in Sess \cup {NoSess} :
              pc' = [pc EXCEPT ![Req] = l] /\ ls' = [ls EXCEPT ![Req] = x]
      <4>1. CASE ReqCreate(s)
        BY <4>1, Zenon DEF ReqCreate, Goto
      <4>2. CASE ReqDestroy(s)
        BY <1>0, <3>1, <4>2, Zenon DEF ReqDestroy, Goto, TypeThreads
      <4> QED
        BY <1>2, <4>1, <4>2, Zenon
    <3>4. l \in Labels /\ lc' = [lc EXCEPT ![Req] = lc[Req]]
      BY <1>0, <3>2, Zenon DEF TypeThreads, Labels, CallerLabels
    <3> QED
      BY <1>0, <3>1, <3>2, <3>3, <3>4, TypeCaller, Zenon DEF TypeThreads
  <2> QED
    BY <2>1, <2>2, TypeParts, Zenon
<1>3. ASSUME NEW s \in Sess, ReqClaim(s) PROVE TypeOK'
  <2>1. lc[Req] \in Clients /\ source[s] \in Clients
    BY <1>0, <1>3, Zenon DEF TypeThreads, ReqClaim, Serves, PfInv, CoreFacts
  <2>2. TypeClients'
    BY <1>0, <1>3, <2>1, SMTT(40) DEF TypeClients, ReqClaim, netVars, pollVars
  <2>3. TypeThreads'
    BY <1>0, <1>3, <2>1, SMTT(40) DEF TypeThreads, ReqClaim, Goto, lockVars, Labels, CallerLabels
  <2> QED
    BY <2>2, <2>3, TypeParts, Zenon
<1>4. CASE ReqSource
  <2>1. lc[Req] \in Clients
    BY <1>0, <1>4, Zenon DEF TypeThreads, ReqSource, Serves
  <2>2. TypeClients'
    BY <1>0, <1>4, <2>1, SMTT(40) DEF TypeClients, ReqSource, netVars, clientVars, pollVars
  <2>3. TypeThreads'
    <3>1. /\ source' \in [Sess -> Clients \cup {NoClient}]
          /\ UNCHANGED <<sess, transport_gone, clients_mutex, sessions_mutex, lc>>
      BY <1>0, <1>4, <2>1, Zenon DEF TypeThreads, ReqSource, lockVars
    <3>2. /\ pc' = [pc EXCEPT ![Req] = "send"] /\ ls' = [ls EXCEPT ![Req] = NoSess]
          /\ "send" \in Labels /\ lc' = [lc EXCEPT ![Req] = lc[Req]]
      BY <1>0, <1>4, <3>1, ZenonT(40) DEF TypeThreads, ReqSource, Goto, Labels, CallerLabels
    <3> QED
      BY <1>0, <2>1, <3>1, <3>2, TypeCaller, Zenon DEF TypeThreads
  <2> QED
    BY <2>2, <2>3, TypeParts, Zenon
<1>5. CASE ReqOther
  <2>1. TypeClients'
    BY <1>0, <1>5, Zenon DEF TypeClients, ReqOther, netVars, clientVars, pollVars
  <2>2. TypeThreads'
    BY <1>0, <1>5, SMTT(40) DEF TypeThreads, ReqOther, Goto, sessVars, lockVars, Labels, CallerLabels, Serves
  <2> QED
    BY <2>1, <2>2, TypeParts, Zenon
<1> QED
  BY <1>0, <1>1, <1>2, <1>3, <1>4, <1>5, TypeSend, TypeSendDone, Zenon DEF ReqThread

\* So does a plugin's thread.
LEMMA TypeEv == ASSUME PfInv, EvThread PROVE TypeOK'
<1>0. TypeClients /\ TypeThreads /\ Ev \in Threads /\ Ev \in Callers
  BY TypeParts, ThreadFacts, Zenon DEF PfInv
<1>1. ASSUME NEW s \in Sess, EvNotify(s) PROVE TypeOK'
  <2>1. source[s] \in Clients
    BY <1>0, <1>1, Zenon DEF TypeThreads, EvNotify
  <2>2. TypeClients'
    <3>1. tsref' \in [Clients -> Int]
      BY <1>0, <1>1, <2>1, SMTT(40) DEF TypeClients, EvNotify
    <3> QED
      BY <1>0, <1>1, <3>1, Zenon DEF TypeClients, EvNotify, netVars, clientVars, pollVars
  <2>3. TypeThreads'
    BY <1>0, <1>1, <2>1, SMTT(40) DEF TypeThreads, EvNotify, Goto, sessVars, lockVars, Labels, CallerLabels
  <2> QED
    BY <2>2, <2>3, TypeParts, Zenon
<1> QED
  BY <1>0, <1>1, TypeSend, TypeSendDone, Zenon DEF EvThread

\* So does the watchdog.
LEMMA TypeWd == ASSUME PfInv, WdThread PROVE TypeOK'
<1>0. TypeClients /\ TypeThreads /\ Wd \in Threads /\ Wd \in Callers
  BY TypeParts, ThreadFacts, Zenon DEF PfInv
<1>1. CASE WdStart \/ WdRemove \/ WdEnd \/ \E s \in Sess : WdExpired(s)
  <2>1. TypeClients'
    BY <1>0, <1>1, ZenonT(40) DEF TypeClients, WdStart, WdRemove, WdEnd, WdExpired, netVars, clientVars, pollVars
  <2>2. CASE WdStart \/ WdEnd
    <3>1. /\ UNCHANGED <<sess, source, transport_gone, clients_mutex, lc, ls>> /\ sessions_mutex' \in {Wd, NoThread}
      BY <2>2, Zenon DEF WdStart, WdEnd, sessVars
    <3>2. PICK l \in {"check", "idle"} : pc' = [pc EXCEPT ![Wd] = l]
      BY <2>2, Zenon DEF WdStart, WdEnd, Goto
    <3>3. /\ l \in Labels /\ l \notin Serves /\ lc[Wd] \in Clients \cup {NoClient} /\ ls[Wd] \in Sess \cup {NoSess}
          /\ lc' = [lc EXCEPT ![Wd] = lc[Wd]] /\ ls' = [ls EXCEPT ![Wd] = ls[Wd]]
      BY <1>0, <3>1, Zenon DEF TypeThreads, Labels, CallerLabels, Serves
    <3>4. TypeThreads'
      BY <1>0, <3>1, <3>2, <3>3, TypeCaller, Zenon DEF TypeThreads
    <3> QED
      BY <2>1, <3>4, TypeParts, Zenon
  <2>3. CASE WdRemove
    <3>1. /\ sess' \in [Sess -> {"none", "live", "over"}]
          /\ UNCHANGED <<source, transport_gone, clients_mutex, sessions_mutex, lc>>
      BY <1>0, <2>3, Zenon DEF TypeThreads, WdRemove, lockVars
    <3>2. /\ pc' = [pc EXCEPT ![Wd] = "check"] /\ ls' = [ls EXCEPT ![Wd] = NoSess]
      BY <2>3, Zenon DEF WdRemove, Goto
    <3>3. /\ "check" \in Labels /\ "check" \notin Serves /\ lc[Wd] \in Clients \cup {NoClient}
          /\ lc' = [lc EXCEPT ![Wd] = lc[Wd]]
      BY <1>0, <3>1, Zenon DEF TypeThreads, Labels, CallerLabels, Serves
    <3>4. TypeThreads'
      BY <1>0, <3>1, <3>2, <3>3, TypeCaller, Zenon DEF TypeThreads
    <3> QED
      BY <2>1, <3>4, TypeParts, Zenon
  <2>4. CASE \E s \in Sess : WdExpired(s)
    <3>1. PICK s \in Sess : ls' = [ls EXCEPT ![Wd] = s] /\ pc' = [pc EXCEPT ![Wd] = "expired"]
      BY <2>4, Zenon DEF WdExpired, Goto
    <3>2. UNCHANGED <<sess, source, transport_gone, clients_mutex, sessions_mutex, lc>>
      BY <2>4, Zenon DEF WdExpired, sessVars, lockVars
    <3>3. /\ "expired" \in Labels /\ "expired" \notin Serves /\ lc[Wd] \in Clients \cup {NoClient}
          /\ lc' = [lc EXCEPT ![Wd] = lc[Wd]]
      BY <1>0, <3>2, Zenon DEF TypeThreads, Labels, CallerLabels, Serves
    <3>4. TypeThreads'
      BY <1>0, <3>1, <3>2, <3>3, TypeCaller, Zenon DEF TypeThreads
    <3> QED
      BY <2>1, <3>4, TypeParts, Zenon
  <2> QED
    BY <1>1, <2>2, <2>3, <2>4, Zenon
<1>2. CASE WdNotify
  <2>1. source[ls[Wd]] \in Clients \cup {NoClient}
    BY <1>0, <1>2, Zenon DEF TypeThreads, WdNotify, PfInv, CoreFacts, Expiring
  <2>2. TypeClients'
    <3>1. tsref' \in [Clients -> Int]
      BY <1>0, <1>2, <2>1, SMTT(40) DEF TypeClients, WdNotify
    <3> QED
      BY <1>0, <1>2, <3>1, Zenon DEF TypeClients, WdNotify, netVars, clientVars, pollVars
  <2>3. TypeThreads'
    <3>1. PICK c \in Clients \cup {NoClient} : c = source[ls[Wd]]
      BY <2>1, Zenon
    <3>2. /\ UNCHANGED <<sess, source, transport_gone, clients_mutex, sessions_mutex, ls>>
          /\ lc[Wd] \in Clients \cup {NoClient} /\ ls[Wd] \in Sess \cup {NoSess} /\ ls' = [ls EXCEPT ![Wd] = ls[Wd]]
      BY <1>0, <1>2, Zenon DEF TypeThreads, WdNotify, sessVars, lockVars
    <3>3. CASE c = NoClient
      <4>1. /\ pc' = [pc EXCEPT ![Wd] = "remove"] /\ lc' = [lc EXCEPT ![Wd] = lc[Wd]]
            /\ "remove" \in Labels /\ "remove" \notin Serves
        BY <1>0, <1>2, <3>1, <3>3, Zenon DEF TypeThreads, WdNotify, Goto, Labels, CallerLabels, Serves
      <4> QED
        BY <1>0, <3>2, <4>1, TypeCaller, Zenon DEF TypeThreads
    <3>4. CASE c # NoClient
      <4>1. pc' = [pc EXCEPT ![Wd] = "send"] /\ lc' = [lc EXCEPT ![Wd] = c] /\ "send" \in Labels /\ c \in Clients
        BY <1>2, <3>1, <3>4, Zenon DEF WdNotify, Goto, Labels, CallerLabels
      <4> QED
        BY <1>0, <3>2, <4>1, TypeCaller, Zenon DEF TypeThreads
    <3> QED
      BY <3>3, <3>4, Zenon
  <2> QED
    BY <2>2, <2>3, TypeParts, Zenon
<1>3. CASE WdOver
  <2>1. lc[Wd] \in Clients
    BY <1>0, <1>3, Zenon DEF TypeThreads, WdOver, Serves
  <2>2. session_timeout' \subseteq Clients /\ wake' \in BOOLEAN
    BY <1>0, <1>3, <2>1, Zenon DEF TypeClients, WdOver
  <2>3. TypeClients'
    BY <1>0, <1>3, <2>1, <2>2, SMTT(40) DEF TypeClients, WdOver, Drop, netVars, pollVars
  <2>4. TypeThreads'
    BY <1>0, <1>3, SMTT(40) DEF TypeThreads, WdOver, Goto, sessVars, lockVars, Labels, CallerLabels, Serves
  <2> QED
    BY <2>3, <2>4, TypeParts, Zenon
<1> QED
  BY <1>0, <1>1, <1>2, <1>3, TypeSend, Zenon DEF WdThread

\* Every step keeps the types.
LEMMA TypeStep == ASSUME PfInv, [Next]_vars PROVE TypeOK'
BY TypeOutside, TypePf, TypeReq, TypeEv, TypeWd, Zenon DEF Next

-----------------------------------------------------------------------------
(* What the steps do to the counters. *)

\* A step that changes neither counters nor what they count keeps them exact.
LEMMA QuietRefs ==
    ASSUME RefsFacts, UNCHANGED <<tsref, requests, source, clients, freed, session_timeout>>,
           \A p \in Callers : lc'[p] = lc[p]
    PROVE  RefsFacts'
<1>1. ASSUME NEW c \in Clients PROVE Refs(c)'
  <2>1. Count(c)' = Count(c)
    <3>1. Users(c)' = Users(c) /\ Sources(c)' = Sources(c)
      BY Zenon DEF Users, Sources
    <3> QED
      BY <3>1, CountParts, Zenon
  <2> QED
    BY <2>1, RefsSame, Zenon DEF RefsFacts
<1> QED
  BY <1>1, Zenon DEF RefsFacts

\* A session that is freed drops its reference to its source.
LEMMA SessionFreeRefs ==
    ASSUME PfInv, NEW s \in Sess, SessionFree(s)
    PROVE  RefsFacts'
<1>1. PICK d \in Clients : d = source[s]
  BY ZenonT(40) DEF PfInv, TypeOK, SessionFree
<1>2. /\ source \in [Sess -> Clients \cup {NoClient}] /\ tsref \in [Clients -> Int]
      /\ NoClient \notin Clients
  BY NamesAssumption, Zenon DEF PfInv, TypeOK
<1>3. /\ tsref' = [tsref EXCEPT ![d] = @ - 1] /\ freed' = (IF tsref[d] = 1 THEN freed \cup {d} ELSE freed)
      /\ source' = [source EXCEPT ![s] = NoClient] /\ UNCHANGED <<requests, clients, session_timeout, lc>>
  BY <1>1, Zenon DEF SessionFree, Drop
<1>4. /\ source[s] = d /\ source'[s] = NoClient /\ \A x \in Sess \ {s} : source'[x] = source[x]
      /\ tsref[d] \in Int /\ tsref'[d] = tsref[d] - 1 /\ \A c \in Clients \ {d} : tsref'[c] = tsref[c]
      /\ \A c \in freed' : c \in freed \/ (c = d /\ tsref[d] = 1)
  BY <1>1, <1>2, <1>3, Zenon
<1>5. Refs(d)'
  <2>1. Count(d) > 0 /\ Count(d)' = Count(d) - 1
    BY <1>2, <1>3, <1>4, CountSource, ZenonT(40)
  <2> QED
    BY <1>3, <1>4, <2>1, RefsDrop, Zenon DEF PfInv, RefsFacts
<1>6. ASSUME NEW c \in Clients \ {d} PROVE Refs(c)'
  <2>1. Count(c)' = Count(c)
    BY <1>2, <1>3, <1>4, CountSource, ZenonT(40)
  <2> QED
    BY <1>3, <1>4, <2>1, RefsSame, Zenon DEF PfInv, RefsFacts
<1> QED
  BY <1>5, <1>6, Zenon DEF RefsFacts

\* A caller lets go of its client: the reference it has is dropped.
LEMMA LeaveRefs ==
    ASSUME PfInv, NEW p \in Callers, NEW d \in Clients, lc[p] = d, Drop(d),
           lc' = [lc EXCEPT ![p] = NoClient], session_timeout \subseteq session_timeout',
           UNCHANGED <<source, requests, clients>>
    PROVE  RefsFacts'
<1>2. /\ lc \in [Threads -> Clients \cup {NoClient}] /\ tsref \in [Clients -> Int]
      /\ NoClient \notin Clients /\ Callers \subseteq Threads
  BY NamesAssumption, ThreadFacts, Zenon DEF PfInv, TypeOK
<1>4. /\ lc'[p] = NoClient /\ \A q \in Callers \ {p} : lc'[q] = lc[q]
      /\ tsref[d] \in Int /\ tsref'[d] = tsref[d] - 1 /\ \A c \in Clients \ {d} : tsref'[c] = tsref[c]
      /\ \A c \in freed' : c \in freed \/ (c = d /\ tsref[d] = 1)
  BY <1>2, Zenon DEF Drop
<1>5. Refs(d)'
  <2>1. Count(d) > 0 /\ Count(d)' = Count(d) - 1
    BY <1>2, <1>4, CountUser, Zenon
  <2> QED
    BY <1>4, <2>1, RefsDrop, Zenon DEF PfInv, RefsFacts
<1>6. ASSUME NEW c \in Clients \ {d} PROVE Refs(c)'
  <2>1. Count(c)' = Count(c)
    BY <1>2, <1>4, CountUser, Zenon
  <2> QED
    BY <1>4, <2>1, RefsSame, Zenon DEF PfInv, RefsFacts
<1> QED
  BY <1>5, <1>6, Zenon DEF RefsFacts

\* A caller takes the source of a session, with a reference.
LEMMA NotifyRefs ==
    ASSUME PfInv, NEW p \in Callers, NEW s \in Sess, NEW d \in Clients, source[s] = d, lc[p] = NoClient,
           lc' = [lc EXCEPT ![p] = d], tsref' = [tsref EXCEPT ![d] = @ + 1],
           UNCHANGED <<source, requests, clients, freed, session_timeout>>
    PROVE  RefsFacts'
<1>2. /\ lc \in [Threads -> Clients \cup {NoClient}] /\ tsref \in [Clients -> Int]
      /\ NoClient \notin Clients /\ Callers \subseteq Threads
  BY NamesAssumption, ThreadFacts, Zenon DEF PfInv, TypeOK
<1>4. /\ lc'[p] = d /\ \A q \in Callers \ {p} : lc'[q] = lc[q]
      /\ tsref[d] \in Int /\ tsref'[d] = tsref[d] + 1 /\ \A c \in Clients \ {d} : tsref'[c] = tsref[c]
  BY <1>2, Zenon
<1>5. Refs(d)'
  <2>1. Count(d)' = Count(d) + 1
    BY <1>2, <1>4, CountUser, Zenon
  <2>2. Count(d) > 0
    BY SourceCounts, Zenon
  <2> QED
    BY <1>4, <2>1, <2>2, RefsTake, Zenon DEF PfInv, RefsFacts
<1>6. ASSUME NEW c \in Clients \ {d} PROVE Refs(c)'
  <2>1. Count(c)' = Count(c)
    BY <1>2, <1>4, CountUser, Zenon
  <2> QED
    BY <1>4, <2>1, RefsSame, Zenon DEF PfInv, RefsFacts
<1> QED
  BY <1>5, <1>6, Zenon DEF RefsFacts

\* Nothing refers to a client that is not there yet.
LEMMA NewCount ==
    ASSUME PfInv, NEW c \in Clients, New(c)
    PROVE  /\ Count(c) = 0 /\ c \notin clients /\ c \notin requests /\ c \notin freed
           /\ fd[c] = "none"
<1>1. /\ c \notin requests /\ c \notin freed /\ fd[c] = "none"
      /\ \A s \in Sess : source[s] # c
      /\ \A p \in Callers : lc[p] # c
  BY Zenon DEF PfInv, NewFacts
<1>2. c \notin clients
  BY <1>1, Zenon DEF PfInv, TablesSound, New, Stream
<1>3. Sources(c) = {} /\ Users(c) = {}
  BY <1>1, Zenon DEF Sources, Users
<1>4. Cardinality(Sources(c)) = 0 /\ Cardinality(Users(c)) = 0
  BY <1>3, FS_EmptySet, Zenon
<1>5. One(c \in requests) = 0 /\ One(c \in clients) = 0
  BY <1>1, <1>2, Zenon DEF One
<1> QED
  <2>1. Count(c) = 0 + 0 + 0 + 0
    BY <1>4, <1>5, CountParts, Zenon
  <2>2. 0 + 0 + 0 + 0 = 0
    OBVIOUS
  <2> QED
    BY <1>1, <1>2, <2>1, <2>2, Zenon

\* A request that is taken hands its reference over to the thread that serves it.
LEMMA ReqPopRefs ==
    ASSUME PfInv, NEW d \in Clients, ReqPop(d)
    PROVE  RefsFacts'
<1>1. /\ lc \in [Threads -> Clients \cup {NoClient}] /\ Req \in Callers /\ Callers \subseteq Threads
      /\ lc[Req] = NoClient /\ NoClient \notin Clients
  BY NamesAssumption, ThreadFacts, Zenon DEF PfInv, TypeOK, CoreFacts, ReqPop
<1>2. /\ d \in requests /\ requests' = requests \ {d} /\ lc' = [lc EXCEPT ![Req] = d]
      /\ UNCHANGED <<tsref, source, clients, freed, session_timeout>>
  BY Zenon DEF ReqPop, clientVars, sessVars
<1>3. lc'[Req] = d /\ \A q \in Callers \ {Req} : lc'[q] = lc[q]
  BY <1>1, <1>2, Zenon
<1>4. ASSUME NEW c \in Clients PROVE Count(c)' = Count(c)
  <2>1. Sources(c)' = Sources(c)
    BY <1>2, Zenon DEF Sources
  <2>2. CASE c = d
    <3>1. Cardinality(Users(c)') = Cardinality(Users(c)) + 1
      BY <1>1, <1>3, <2>2, UsersMove, Zenon
    <3>2. One(c \in requests) = 1 /\ One(c \in requests') = 0
      BY <1>2, <2>2, Zenon DEF One
    <3> QED
      BY <1>2, <2>1, <3>1, <3>2, CountParts, SMTT(40)
  <2>3. CASE c # d
    <3>1. Cardinality(Users(c)') = Cardinality(Users(c))
      BY <1>1, <1>3, <2>3, UsersMove, Zenon
    <3>2. One(c \in requests') = One(c \in requests)
      BY <1>2, <2>3, Zenon DEF One
    <3> QED
      BY <1>2, <2>1, <3>1, <3>2, CountParts, Zenon
  <2> QED
    BY <2>2, <2>3, Zenon
<1> QED
  BY <1>2, <1>4, RefsSame, Zenon DEF PfInv, RefsFacts

\* The source of a new session is one more reference.
LEMMA ReqSourceRefs ==
    ASSUME PfInv, ReqSource
    PROVE  RefsFacts'
<1>1. PICK s \in Sess, d \in Clients : s = ls[Req] /\ d = lc[Req]
  BY ThreadFacts, Zenon DEF PfInv, TypeOK, CoreFacts, ReqSource
<1>2. /\ source \in [Sess -> Clients \cup {NoClient}] /\ tsref \in [Clients -> Int]
      /\ source[s] = NoClient /\ NoClient \notin Clients /\ Req \in Callers
  BY <1>1, NamesAssumption, ThreadFacts, Zenon DEF PfInv, TypeOK, CoreFacts, ReqSource
<1>3. /\ tsref' = [tsref EXCEPT ![d] = @ + 1] /\ source' = [source EXCEPT ![s] = d]
      /\ UNCHANGED <<requests, clients, freed, session_timeout, lc>>
  BY <1>1, Zenon DEF ReqSource, clientVars
<1>4. /\ source'[s] = d /\ \A x \in Sess \ {s} : source'[x] = source[x]
      /\ tsref[d] \in Int /\ tsref'[d] = tsref[d] + 1 /\ \A c \in Clients \ {d} : tsref'[c] = tsref[c]
  BY <1>2, <1>3, Zenon
<1>5. Refs(d)'
  <2>1. Count(d)' = Count(d) + 1 /\ Count(d) > 0
    BY <1>1, <1>2, <1>3, <1>4, CountSource, UserCounts, Zenon
  <2> QED
    BY <1>3, <1>4, <2>1, RefsTake, Zenon DEF PfInv, RefsFacts
<1>6. ASSUME NEW c \in Clients \ {d} PROVE Refs(c)'
  <2>1. Count(c)' = Count(c)
    BY <1>2, <1>3, <1>4, CountSource, Zenon
  <2> QED
    BY <1>3, <1>4, <2>1, RefsSame, Zenon DEF PfInv, RefsFacts
<1> QED
  BY <1>5, <1>6, Zenon DEF RefsFacts

\* A claim drops the reference of the old source and takes one for the new.
LEMMA ReqClaimRefs ==
    ASSUME PfInv, NEW s \in Sess, ReqClaim(s)
    PROVE  RefsFacts'
<1>1. PICK d \in Clients, e \in Clients : d = lc[Req] /\ e = source[s] /\ d # e
  <2>1. pc[Req] = "serve" /\ sess[s] = "live" /\ source[s] # lc[Req]
    BY Zenon DEF ReqClaim
  <2>2. lc[Req] \in Clients /\ source[s] \in Clients
    BY <2>1, ThreadFacts, ZenonT(40) DEF PfInv, TypeOK, CoreFacts
  <2> QED
    BY <2>1, <2>2, Zenon
<1>2. /\ source \in [Sess -> Clients \cup {NoClient}] /\ tsref \in [Clients -> Int] /\ Req \in Callers
  BY ThreadFacts, Zenon DEF PfInv, TypeOK
<1>3. /\ tsref' = [tsref EXCEPT ![d] = @ + 1, ![e] = @ - 1] /\ source' = [source EXCEPT ![s] = d]
      /\ freed' = (IF tsref[e] = 1 THEN freed \cup {e} ELSE freed)
      /\ UNCHANGED <<requests, clients, session_timeout, lc>>
  BY <1>1, Zenon DEF ReqClaim
<1>4. /\ source'[s] = d /\ \A x \in Sess \ {s} : source'[x] = source[x]
      /\ tsref[d] \in Int /\ tsref[e] \in Int /\ tsref'[d] = tsref[d] + 1 /\ tsref'[e] = tsref[e] - 1
      /\ \A c \in Clients \ {d, e} : tsref'[c] = tsref[c]
      /\ \A c \in freed' : c \in freed \/ (c = e /\ tsref[e] = 1)
  BY <1>1, <1>2, <1>3, SMTT(40)
<1>5. Refs(d)'
  <2>1. Count(d)' = Count(d) + 1 /\ Count(d) > 0
    BY <1>1, <1>2, <1>3, <1>4, CountSource, UserCounts, ZenonT(40)
  <2> QED
    BY <1>1, <1>3, <1>4, <2>1, RefsTake, Zenon DEF PfInv, RefsFacts
<1>6. Refs(e)'
  <2>1. Count(e)' = Count(e) - 1 /\ Count(e) > 0
    BY <1>1, <1>2, <1>3, <1>4, CountSource, Zenon
  <2> QED
    BY <1>1, <1>3, <1>4, <2>1, RefsDrop, Zenon DEF PfInv, RefsFacts
<1>7. ASSUME NEW c \in Clients \ {d, e} PROVE Refs(c)'
  <2>1. Count(c)' = Count(c)
    BY <1>1, <1>2, <1>3, <1>4, CountSource, ZenonT(40)
  <2> QED
    BY <1>3, <1>4, <2>1, RefsSame, Zenon DEF PfInv, RefsFacts
<1> QED
  BY <1>5, <1>6, <1>7, Zenon DEF RefsFacts

\* A client that connects starts with the table's reference.
LEMMA PfAcceptRefs ==
    ASSUME PfInv, NEW d \in Clients, PfAccept(d)
    PROVE  RefsFacts'
<1>1. /\ peer[d] = "connecting" /\ tsref' = [tsref EXCEPT ![d] = 1] /\ clients' = clients \cup {d}
      /\ UNCHANGED <<source, requests, freed, session_timeout, lc>>
  BY Zenon DEF PfAccept, sessVars
<1>2. Count(d) = 0 /\ d \notin clients /\ d \notin requests /\ d \notin freed
  <2>1. New(d)
    BY <1>1, Zenon DEF PfInv, FdFacts, New
  <2> QED
    BY <2>1, NewCount, Zenon
<1>3. tsref \in [Clients -> Int]
  BY Zenon DEF PfInv, TypeOK
<1>4. Refs(d)'
  <2>1. One(d \in clients') = 1 /\ One(d \in clients) = 0 /\ One(d \in requests') = 0 /\ One(d \in requests) = 0
    BY <1>1, <1>2, Zenon DEF One
  <2>2. Count(d)' = 1
    BY <1>1, <1>2, <2>1, CountMember, SMTT(40)
  <2>3. tsref'[d] = 1 /\ d \notin freed'
    BY <1>1, <1>2, <1>3, Zenon
  <2> QED
    BY <2>2, <2>3 DEF Refs
<1>5. ASSUME NEW c \in Clients \ {d} PROVE Refs(c)'
  <2>1. One(c \in clients') = One(c \in clients) /\ One(c \in requests') = One(c \in requests)
    BY <1>1, Zenon DEF One
  <2>2. Count(c)' = Count(c) /\ tsref'[c] = tsref[c]
    <3>1. Users(c)' = Users(c) /\ Sources(c)' = Sources(c)
      BY <1>1, Zenon DEF Users, Sources
    <3> QED
      BY <1>1, <1>3, <2>1, <3>1, CountParts, Zenon
  <2> QED
    BY <1>1, <2>2, RefsSame, Zenon DEF PfInv, RefsFacts
<1> QED
  BY <1>4, <1>5, Zenon DEF RefsFacts

\* A request of a client goes to the core, with a reference.
LEMMA QueueRefs ==
    ASSUME PfInv, NEW d \in Clients, d \in clients, d \notin requests, requests' = requests \cup {d},
           tsref' = [tsref EXCEPT ![d] = @ + 1], UNCHANGED <<source, clients, freed, session_timeout, lc>>
    PROVE  RefsFacts'
<1>1. /\ tsref \in [Clients -> Int] /\ tsref[d] \in Int /\ tsref'[d] = tsref[d] + 1
      /\ \A c \in Clients \ {d} : tsref'[c] = tsref[c]
  BY ZenonT(40) DEF PfInv, TypeOK
<1>2. Refs(d)'
  <2>1. One(d \in clients') = One(d \in clients) /\ One(d \in requests') = 1 /\ One(d \in requests) = 0
    BY Zenon DEF One
  <2>2. Count(d)' = Count(d) + 1
    <3>1. Count(d)' = Count(d) + 1 - 0 + One(d \in clients) - One(d \in clients)
      BY <2>1, CountMember, Zenon
    <3>2. Count(d) \in Nat /\ One(d \in clients) \in {0, 1}
      BY CountParts, Zenon
    <3> QED
      BY <3>1, <3>2
  <2>3. Count(d) > 0
    BY MemberCounts, Zenon
  <2> QED
    BY <1>1, <2>2, <2>3, RefsTake, Zenon DEF PfInv, RefsFacts
<1>3. ASSUME NEW c \in Clients \ {d} PROVE Refs(c)'
  <2>1. One(c \in requests') = One(c \in requests)
    BY Zenon DEF One
  <2>2. Count(c)' = Count(c)
    <3>1. Users(c)' = Users(c) /\ Sources(c)' = Sources(c)
      BY Zenon DEF Users, Sources
    <3> QED
      BY <2>1, <3>1, CountParts, Zenon
  <2> QED
    BY <1>1, <2>2, RefsSame, Zenon DEF PfInv, RefsFacts
<1> QED
  BY <1>2, <1>3, Zenon DEF RefsFacts

\* The first datagram of a client puts it in the table and queues a request.
LEMMA PfDgramRefs ==
    ASSUME PfInv, NEW d \in Clients, PfDgram(d)
    PROVE  RefsFacts'
<1>1. /\ d \in inbox /\ d \in Dgrams /\ clients' = clients \cup {d} /\ requests' = requests \cup {d}
      /\ tsref' = [tsref EXCEPT ![d] = IF d \in clients THEN @ + 1 ELSE 2]
      /\ UNCHANGED <<source, freed, session_timeout, lc>>
  BY Zenon DEF PfDgram, sessVars
<1>2. d \notin requests /\ tsref \in [Clients -> Int]
  BY <1>1, Zenon DEF PfInv, CoreFacts, TypeOK
<1>3. CASE d \in clients
  <2>1. clients' = clients /\ tsref' = [tsref EXCEPT ![d] = @ + 1]
    BY <1>1, <1>3, Zenon
  <2> QED
    BY <1>1, <1>2, <1>3, <2>1, QueueRefs, Zenon
<1>4. CASE d \notin clients
  <2>1. Count(d) = 0 /\ d \notin freed
    <3>1. New(d)
      BY <1>1, <1>4, Zenon DEF New
    <3> QED
      BY <3>1, NewCount, Zenon
  <2>2. Refs(d)'
    <3>1. One(d \in clients') = 1 /\ One(d \in clients) = 0 /\ One(d \in requests') = 1 /\ One(d \in requests) = 0
      BY <1>1, <1>2, <1>4, Zenon DEF One
    <3>2. Count(d)' = 2
      BY <1>1, <2>1, <3>1, CountMember, SMTT(40)
    <3>3. tsref'[d] = 2 /\ d \notin freed'
      BY <1>1, <1>2, <1>4, <2>1, Zenon
    <3> QED
      BY <3>2, <3>3 DEF Refs
  <2>3. ASSUME NEW c \in Clients \ {d} PROVE Refs(c)'
    <3>1. One(c \in clients') = One(c \in clients) /\ One(c \in requests') = One(c \in requests)
      BY <1>1, Zenon DEF One
    <3>2. Users(c)' = Users(c) /\ Sources(c)' = Sources(c)
      BY <1>1, Zenon DEF Users, Sources
    <3>3. Count(c)' = Count(c) /\ tsref'[c] = tsref[c]
      BY <1>1, <1>2, <3>1, <3>2, CountParts, Zenon
    <3> QED
      BY <1>1, <3>3, RefsSame, Zenon DEF PfInv, RefsFacts
  <2> QED
    BY <2>2, <2>3, Zenon DEF RefsFacts
<1> QED
  BY <1>3, <1>4, Zenon

\* A request that is queued has a reference of its own.
LEMMA PfInRefs ==
    ASSUME PfInv, NEW d \in Clients, PfIn(d)
    PROVE  RefsFacts'
<1>1. d \in inbox /\ fd[d] = "open"
  BY Zenon DEF PfIn
<1>2. d \in clients /\ d \notin requests
  BY <1>1, Zenon DEF PfInv, FdFacts, CoreFacts
<1> QED
  BY <1>2, QueueRefs, Zenon DEF PfIn, clientVars, sessVars

\* A client that is closed leaves the table, and the table's reference is dropped.
LEMMA PfCloseRefs ==
    ASSUME PfInv, PfClose
    PROVE  RefsFacts'
<1>1. PICK d \in Clients : d = lc[Pf] /\ d \in clients
  BY Zenon DEF PfInv, PollFacts, FdFacts, PfClose
<1>2. /\ clients' = clients \ {d} /\ tsref' = [tsref EXCEPT ![d] = @ - 1]
      /\ freed' = (IF tsref[d] = 1 THEN freed \cup {d} ELSE freed)
      /\ lc' = [lc EXCEPT ![Pf] = NoClient] /\ UNCHANGED <<source, requests, session_timeout>>
  BY <1>1, Zenon DEF PfClose, Drop, sessVars
<1>3. tsref \in [Clients -> Int] /\ \A q \in Callers : lc'[q] = lc[q]
  BY <1>2, ThreadFacts, Zenon DEF PfInv, TypeOK
<1>4. /\ tsref[d] \in Int /\ tsref'[d] = tsref[d] - 1 /\ \A c \in Clients \ {d} : tsref'[c] = tsref[c]
      /\ \A c \in freed' : c \in freed \/ (c = d /\ tsref[d] = 1)
  BY <1>2, <1>3, Zenon
<1>5. Refs(d)'
  <2>1. One(d \in clients') = 0 /\ One(d \in clients) = 1 /\ One(d \in requests') = One(d \in requests)
    BY <1>1, <1>2, Zenon DEF One
  <2>2. Count(d)' = Count(d) - 1
    <3>1. Count(d)' = Count(d) + One(d \in requests) - One(d \in requests) + 0 - 1
      BY <1>2, <1>3, <2>1, CountMember, Zenon
    <3>2. Count(d) \in Nat /\ One(d \in requests) \in {0, 1}
      BY CountParts, Zenon
    <3> QED
      BY <3>1, <3>2
  <2>3. Count(d) > 0
    BY <1>1, MemberCounts, Zenon
  <2> QED
    BY <1>2, <1>4, <2>2, <2>3, RefsDrop, Zenon DEF PfInv, RefsFacts
<1>6. ASSUME NEW c \in Clients \ {d} PROVE Refs(c)'
  <2>1. One(c \in clients') = One(c \in clients)
    BY <1>2, Zenon DEF One
  <2>2. Users(c)' = Users(c) /\ Sources(c)' = Sources(c)
    BY <1>2, <1>3, Zenon DEF Users, Sources
  <2>3. Count(c)' = Count(c)
    BY <1>2, <2>1, <2>2, CountParts, Zenon
  <2> QED
    BY <1>2, <1>4, <2>3, RefsSame, Zenon DEF PfInv, RefsFacts
<1> QED
  BY <1>5, <1>6, Zenon DEF RefsFacts

\* A client with a session that timed out may be freed with references left.
LEMMA PfOutRefs ==
    ASSUME PfInv, NEW d \in Clients, PfOut(d)
    PROVE  RefsFacts'
<1>1. UNCHANGED <<tsref, requests, source, session_timeout, lc>>
  BY Zenon DEF PfOut, sessVars
<1>2. CASE d \notin session_timeout
  BY <1>1, <1>2, QuietRefs, Zenon DEF PfOut, PfInv
<1>3. CASE d \in session_timeout
  <2>1. clients' = clients \ {d} /\ freed' = freed \cup {d}
    BY <1>3, Zenon DEF PfOut
  <2>2. Refs(d)'
    <3>1. One(d \in requests') = One(d \in requests) /\ One(d \in clients') = 0
      BY <1>1, <2>1, Zenon DEF One
    <3>2. Count(d)' = Count(d) - One(d \in clients)
      <4>1. Count(d)' = Count(d) + One(d \in requests) - One(d \in requests) + 0 - One(d \in clients)
        BY <1>1, <3>1, CountMember, Zenon
      <4>2. Count(d) \in Nat /\ One(d \in requests) \in {0, 1} /\ One(d \in clients) \in {0, 1}
        BY CountParts, Zenon
      <4> QED
        BY <4>1, <4>2
    <3>3. tsref[d] >= Count(d) /\ tsref[d] \in Int /\ tsref'[d] = tsref[d]
      BY <1>1, Zenon DEF PfInv, RefsFacts, Refs, TypeOK
    <3>4. tsref'[d] >= Count(d)'
      <4>1. Count(d) \in Nat /\ One(d \in clients) \in {0, 1}
        BY CountParts, Zenon
      <4> QED
        BY <3>2, <3>3, <4>1
    <3> QED
      BY <1>1, <1>3, <3>4, Zenon DEF Refs
  <2>3. ASSUME NEW c \in Clients \ {d} PROVE Refs(c)'
    <3>1. One(c \in clients') = One(c \in clients)
      BY <2>1, Zenon DEF One
    <3>2. Users(c)' = Users(c) /\ Sources(c)' = Sources(c)
      BY <1>1, Zenon DEF Users, Sources
    <3>3. Count(c)' = Count(c)
      BY <1>1, <3>1, <3>2, CountParts, Zenon
    <3> QED
      BY <1>1, <2>1, <3>3, RefsSame, Zenon DEF PfInv, RefsFacts
  <2> QED
    BY <2>2, <2>3, Zenon DEF RefsFacts
<1> QED
  BY <1>2, <1>3, Zenon

-----------------------------------------------------------------------------
(* Steps. *)

\* The steps that leave alone the clients, their descriptors and what refers to them.
Quiet ==
    \/ InitDone \/ Destroy \/ PfEnd \/ PfPrepare \/ PfPoll \/ PfWake \/ PfGone \/ PfRound
    \/ ReqOther \/ WdStart \/ WdRemove \/ WdEnd
    \/ \E c \in Clients : PeerSends(c) \/ PfInClosed(c) \/ PfHup(c)
    \/ \E p \in Callers : Send(p)
    \/ \E s \in Sess : ReqCreate(s) \/ ReqDestroy(s) \/ WdExpired(s)

\* What most steps leave alone.
LEMMA QuietSame ==
    ASSUME TypeOK, Quiet \/ UNCHANGED vars
    PROVE  /\ UNCHANGED <<peer, fd, clients, freed, session_timeout, tsref, requests, source>>
           /\ \A p \in Callers : lc'[p] = lc[p]
<1> DEFINE Same == /\ UNCHANGED <<peer, fd, clients, freed, session_timeout, tsref, requests, source>>
                   /\ \A p \in Callers : lc'[p] = lc[p]
<1>1. CASE UNCHANGED vars
  BY <1>1, Zenon DEF vars, netVars, clientVars, sessVars
<1>2. CASE InitDone \/ Destroy \/ PfEnd \/ PfPrepare \/ PfPoll \/ PfWake
  BY <1>2, Zenon DEF InitDone, Destroy, PfEnd, PfPrepare, PfPoll, PfWake, netVars, clientVars, sessVars
<1>3. CASE PfGone \/ PfRound \/ ReqOther \/ WdStart \/ WdRemove \/ WdEnd
  BY <1>3, Zenon DEF PfGone, PfRound, ReqOther, WdStart, WdRemove, WdEnd, netVars, clientVars, sessVars
<1>4. ASSUME NEW c \in Clients, PeerSends(c) \/ PfInClosed(c) PROVE Same
  BY <1>4, Zenon DEF PeerSends, PfInClosed, netVars, clientVars, sessVars
<1>5. ASSUME NEW c \in Clients, PfHup(c) PROVE Same
  <2>1. lc' = [lc EXCEPT ![Pf] = c] /\ UNCHANGED <<netVars, clientVars, tsref, requests, sessVars>>
    BY <1>5, Zenon DEF PfHup
  <2>2. \A p \in Callers : lc'[p] = lc[p]
    BY <2>1, ThreadFacts, Zenon DEF TypeOK
  <2> QED
    BY <2>1, <2>2, Zenon DEF netVars, clientVars, sessVars
<1>6. ASSUME NEW p \in Callers, Send(p) PROVE Same
  BY <1>6, Zenon DEF Send, SendCheck, SendPush, SendWake, netVars, clientVars, sessVars
<1>7. ASSUME NEW s \in Sess, ReqCreate(s) \/ ReqDestroy(s) \/ WdExpired(s) PROVE Same
  BY <1>7, Zenon DEF ReqCreate, ReqDestroy, WdExpired, netVars, clientVars, sessVars
<1> QED
  BY <1>1, <1>2, <1>3, <1>4, <1>5, <1>6, <1>7, Zenon DEF Quiet

\* The steps that change a counter or what it counts, one by one; all others are quiet.
LEMMA NextSplit ==
    ASSUME [Next]_vars
    PROVE  \/ Quiet \/ UNCHANGED vars
           \/ \E c \in Clients : \/ PeerConnects(c) \/ PfAccept(c) \/ PfDgram(c) \/ PfIn(c) \/ PfOut(c)
                                 \/ ReqPop(c) \/ \E how \in Closings : PeerCloses(c, how)
           \/ \E s \in Sess : SessionFree(s) \/ ReqClaim(s) \/ EvNotify(s)
           \/ PfClose \/ ReqSource \/ WdNotify \/ WdOver
           \/ \E p \in {Req, Ev} : SendDone(p)
<1>1. CASE InitDone \/ Destroy \/ (\E c \in Clients : Peer(c)) \/ (\E s \in Sess : SessionFree(s))
  BY <1>1, Zenon DEF Peer, Quiet
<1>2. CASE PfThread
  BY <1>2, Zenon DEF PfThread, Quiet
<1>3. CASE ReqThread
  BY <1>3, ThreadFacts, Zenon DEF ReqThread, Quiet
<1>4. CASE EvThread
  BY <1>4, ThreadFacts, Zenon DEF EvThread, Quiet
<1>5. CASE WdThread
  BY <1>5, ThreadFacts, Zenon DEF WdThread, Quiet
<1> QED
  BY <1>1, <1>2, <1>3, <1>4, <1>5, Zenon DEF Next

\* What the threads of the core and of plugins do with their clients.
LEMMA SendDoneUser ==
    ASSUME PfInv, NEW p \in {Req, Ev}, SendDone(p)
    PROVE  p \in Callers /\ p # Wd /\ p # Pf /\ lc[p] \in Clients
BY ThreadFacts, Zenon DEF PfInv, TypeOK, SendDone

\* A plugin's thread that takes a reference had none, and takes it to a client.
LEMMA EvNotifyUser ==
    ASSUME PfInv, NEW s \in Sess, EvNotify(s)
    PROVE  Ev \in Callers /\ lc[Ev] = NoClient /\ source[s] \in Clients
BY ThreadFacts, ZenonT(40) DEF PfInv, TypeOK, CoreFacts, EvNotify

\* So does the watchdog, if the session has a source.
LEMMA WdNotifyUser ==
    ASSUME PfInv, WdNotify
    PROVE  Wd \in Callers /\ lc[Wd] = NoClient /\ ls[Wd] \in Sess /\ source[ls[Wd]] \in Clients \cup {NoClient}
<1>1. pc[Wd] = "expired"
  BY Zenon DEF WdNotify
<1> QED
  BY <1>1, ThreadFacts, Zenon DEF PfInv, TypeOK, CoreFacts, Expiring, Sending

\* session_over flags at most the client the watchdog has.
LEMMA WdOverUser ==
    ASSUME PfInv, WdOver
    PROVE  /\ Wd \in Callers /\ lc[Wd] \in Clients
           /\ session_timeout \subseteq session_timeout' /\ session_timeout' \subseteq session_timeout \cup {lc[Wd]}
BY ThreadFacts, ZenonT(40) DEF PfInv, TypeOK, WdOver

\* Every step keeps the counters.
LEMMA RefsStep == ASSUME PfInv, [Next]_vars PROVE RefsFacts'
<1>1. CASE Quiet \/ UNCHANGED vars
  BY <1>1, QuietSame, QuietRefs, Zenon DEF PfInv
<1>2. ASSUME NEW c \in Clients, PeerConnects(c) \/ \E how \in Closings : PeerCloses(c, how) PROVE RefsFacts'
  BY <1>2, QuietRefs, Zenon DEF PfInv, PeerConnects, PeerCloses, clientVars, sessVars
<1>3. ASSUME NEW s \in Sess, EvNotify(s) PROVE RefsFacts'
  BY <1>3, EvNotifyUser, NotifyRefs, Zenon DEF EvNotify, clientVars, sessVars
<1>4. CASE WdNotify
  <2>1. CASE source[ls[Wd]] = NoClient
    BY <1>4, <2>1, QuietRefs, Zenon DEF PfInv, WdNotify, clientVars, sessVars
  <2>2. CASE source[ls[Wd]] # NoClient
    BY <1>4, <2>2, WdNotifyUser, NotifyRefs, Zenon DEF WdNotify, clientVars, sessVars
  <2> QED
    BY <2>1, <2>2, Zenon
<1>5. CASE WdOver
  BY <1>5, WdOverUser, LeaveRefs, Zenon DEF WdOver, sessVars
<1>6. ASSUME NEW p \in {Req, Ev}, SendDone(p) PROVE RefsFacts'
  BY <1>6, SendDoneUser, LeaveRefs, Zenon DEF SendDone, sessVars
<1> QED
  BY <1>1, <1>2, <1>3, <1>4, <1>5, <1>6, NextSplit, SessionFreeRefs, ReqClaimRefs, ReqSourceRefs, ReqPopRefs,
     PfAcceptRefs, PfDgramRefs, PfInRefs, PfOutRefs, PfCloseRefs, Zenon
=============================================================================
