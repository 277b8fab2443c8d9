---------------------------- MODULE PfUnixProofs ----------------------------
(***************************************************************************)
(* The theorems about the Unix sockets transport, for any clients and      *)
(* sessions, and the parts of the invariant that are not about counters.   *)
(***************************************************************************)
EXTENDS PfUnixRefs

-----------------------------------------------------------------------------
(* The tables and the descriptors. *)

\* The last reference is not dropped while the client is in the table.
LEMMA DropTables ==
    ASSUME PfInv, RefsFacts', NEW d \in Clients, Drop(d), clients' \subseteq clients,
           \A c \in clients' : fd'[c] = fd[c]
    PROVE  TablesSound'
<1>1. ASSUME d \in clients' PROVE tsref[d] # 1
  <2>1. One(d \in clients') = 1
    BY <1>1, Zenon DEF One
  <2>2. Count(d)' > 0
    BY <2>1, CountParts
  <2>3. tsref'[d] = tsref[d] - 1 /\ tsref[d] \in Int
    BY Zenon DEF Drop, PfInv, TypeOK
  <2>4. tsref'[d] >= Count(d)'
    BY Zenon DEF RefsFacts, Refs
  <2>5. Count(d)' \in Nat
    BY CountParts
  <2> QED
    BY <2>2, <2>3, <2>4, <2>5
<1> QED
  BY <1>1, ZenonT(40) DEF PfInv, TablesSound, Drop

\* Every step keeps the tables sound: a client leaves them before it is freed.
LEMMA TablesStep == ASSUME PfInv, RefsFacts', [Next]_vars PROVE TablesSound'
<1>1. CASE Quiet \/ UNCHANGED vars
  BY <1>1, QuietSame, Zenon DEF PfInv, TablesSound
<1>2. ASSUME NEW c \in Clients,
             PeerConnects(c) \/ PfIn(c) \/ ReqPop(c) \/ \E how \in Closings : PeerCloses(c, how)
      PROVE  TablesSound'
  BY <1>2, Zenon DEF PfInv, TablesSound, PeerConnects, PfIn, ReqPop, PeerCloses, clientVars
<1>3. ASSUME NEW d \in Clients, PfAccept(d) PROVE TablesSound'
  <2>1. /\ fd' = [fd EXCEPT ![d] = "open"] /\ clients' = clients \cup {d} /\ UNCHANGED freed
        /\ peer[d] = "connecting" /\ fd \in [Clients -> {"none", "open", "closed"}]
    BY <1>3, Zenon DEF PfAccept, PfInv, TypeOK
  <2>2. d \notin Dgrams /\ New(d)
    BY <2>1, Zenon DEF PfInv, FdFacts, New
  <2>3. d \notin clients /\ d \notin freed /\ clients \subseteq Clients
    BY <2>2, NewCount, Zenon DEF PfInv, TypeOK
  <2>4. \A c \in clients : fd'[c] = fd[c] /\ c # d
    BY <2>1, <2>3, Zenon
  <2>5. fd'[d] = "open"
    BY <2>1, Zenon
  <2> QED
    BY <2>1, <2>2, <2>3, <2>4, <2>5, Zenon DEF PfInv, TablesSound, Stream
<1>4. ASSUME NEW d \in Clients, PfDgram(d) PROVE TablesSound'
  <2>1. d \in Dgrams /\ clients' = clients \cup {d} /\ UNCHANGED <<fd, freed>>
    BY <1>4, Zenon DEF PfDgram
  <2>2. d \notin clients => d \notin freed
    BY <2>1, NewCount, Zenon DEF New
  <2> QED
    BY <2>1, <2>2, Zenon DEF PfInv, TablesSound, FdFacts, Stream
<1>5. ASSUME NEW d \in Clients, PfOut(d) PROVE TablesSound'
  <2>1. CASE d \notin session_timeout
    BY <1>5, <2>1, Zenon DEF PfOut, PfInv, TablesSound
  <2>2. CASE d \in session_timeout
    <3>1. /\ fd' = [fd EXCEPT ![d] = "closed"] /\ clients' = clients \ {d} /\ freed' = freed \cup {d}
          /\ clients \subseteq Clients /\ fd \in [Clients -> {"none", "open", "closed"}]
      BY <1>5, <2>2, Zenon DEF PfOut, PfInv, TypeOK
    <3>2. \A c \in clients' : c \in clients /\ c # d /\ fd'[c] = fd[c] /\ (c \in freed' <=> c \in freed)
      BY <3>1, Zenon
    <3> QED
      BY <3>2, Zenon DEF PfInv, TablesSound
  <2> QED
    BY <2>1, <2>2, Zenon
<1>6. CASE PfClose
  <2>1. PICK d \in Clients : d = lc[Pf]
    BY <1>6, Zenon DEF PfClose, PfInv, PollFacts
  <2>2. /\ fd' = [fd EXCEPT ![d] = "closed"] /\ clients' = clients \ {d} /\ Drop(d)
        /\ clients \subseteq Clients /\ fd \in [Clients -> {"none", "open", "closed"}]
    BY <1>6, <2>1, Zenon DEF PfClose, PfInv, TypeOK
  <2>3. \A c \in clients' : fd'[c] = fd[c]
    BY <2>2, Zenon
  <2> QED
    BY <2>2, <2>3, DropTables, Zenon
<1>7. ASSUME NEW s \in Sess, SessionFree(s) PROVE TablesSound'
  <2>1. PICK d \in Clients : d = source[s]
    BY <1>7, Zenon DEF PfInv, TypeOK, SessionFree
  <2> QED
    BY <1>7, <2>1, DropTables, Zenon DEF SessionFree
<1>8. ASSUME NEW s \in Sess, ReqClaim(s) PROVE TablesSound'
  <2>1. PICK d \in Clients, e \in Clients : d = lc[Req] /\ e = source[s] /\ d # e
    <3>1. pc[Req] = "serve" /\ sess[s] = "live" /\ source[s] # lc[Req]
      BY <1>8, Zenon DEF ReqClaim
    <3>2. lc[Req] \in Clients /\ source[s] \in Clients
      BY <3>1, ThreadFacts, ZenonT(40) DEF PfInv, TypeOK, CoreFacts
    <3> QED
      BY <3>1, <3>2, Zenon
  <2>2. /\ tsref' = [tsref EXCEPT ![d] = @ + 1, ![e] = @ - 1]
        /\ freed' = (IF tsref[e] = 1 THEN freed \cup {e} ELSE freed) /\ UNCHANGED <<fd, clients>>
        /\ tsref \in [Clients -> Int]
    BY <1>8, <2>1, Zenon DEF ReqClaim, PfInv, TypeOK
  <2>3. tsref'[e] = tsref[e] - 1 /\ tsref[e] \in Int
    BY <2>1, <2>2
  <2>4. ASSUME e \in clients PROVE tsref[e] # 1
    <3>1. One(e \in clients') = 1
      BY <2>2, <2>4, Zenon DEF One
    <3>2. Count(e)' > 0 /\ Count(e)' \in Nat
      BY <3>1, CountParts
    <3>3. tsref'[e] >= Count(e)'
      BY Zenon DEF RefsFacts, Refs
    <3> QED
      BY <2>3, <3>2, <3>3
  <2> QED
    BY <2>2, <2>4, Zenon DEF PfInv, TablesSound
<1>9. CASE ReqSource
  BY <1>9, Zenon DEF PfInv, TablesSound, ReqSource, clientVars
<1>10. ASSUME NEW s \in Sess, EvNotify(s) PROVE TablesSound'
  BY <1>10, Zenon DEF PfInv, TablesSound, EvNotify, clientVars
<1>11. CASE WdNotify
  BY <1>11, Zenon DEF PfInv, TablesSound, WdNotify, clientVars
<1>12. CASE WdOver
  BY <1>12, WdOverUser, DropTables, Zenon DEF WdOver
<1>13. ASSUME NEW p \in {Req, Ev}, SendDone(p) PROVE TablesSound'
  BY <1>13, SendDoneUser, DropTables, Zenon DEF SendDone
<1> QED
  BY <1>1, <1>2, <1>3, <1>4, <1>5, <1>6, <1>7, <1>8, <1>9, <1>10, <1>11, <1>12, <1>13, NextSplit, Zenon

\* Every step keeps descriptors and tables together.
LEMMA FdStep == ASSUME PfInv, [Next]_vars PROVE FdFacts'
<1>0. /\ fd \in [Clients -> {"none", "open", "closed"}] /\ FdFacts
      /\ peer \in [Clients -> {"absent", "connecting", "connected", "hungup", "half"}]
  BY Zenon DEF PfInv, TypeOK
<1>1. CASE Quiet \/ UNCHANGED vars
  BY <1>0, <1>1, QuietSame, Zenon DEF FdFacts, PfInv
<1>2. ASSUME NEW d \in Clients, PeerConnects(d) PROVE FdFacts'
  BY <1>0, <1>2, Zenon DEF FdFacts, PeerConnects, Stream, clientVars
<1>3. ASSUME NEW d \in Clients, NEW how \in Closings, PeerCloses(d, how) PROVE FdFacts'
  BY <1>0, <1>3, Zenon DEF FdFacts, PeerCloses, clientVars
<1>4. ASSUME NEW d \in Clients, PfAccept(d) PROVE FdFacts'
  BY <1>0, <1>4, Zenon DEF FdFacts, PfAccept
<1>5. ASSUME NEW d \in Clients, PfDgram(d) PROVE FdFacts'
  BY <1>0, <1>5, Zenon DEF FdFacts, PfDgram
<1>6. ASSUME NEW d \in Clients, PfOut(d) PROVE FdFacts'
  <2>1. fd[d] = "open" /\ UNCHANGED peer
    BY <1>6, Zenon DEF PfOut, Serving, PfInv, PollFacts, netVars
  <2>2. CASE d \in session_timeout
    BY <1>0, <1>6, <2>1, <2>2, Zenon DEF FdFacts, PfOut
  <2>3. CASE d \notin session_timeout
    BY <1>0, <1>6, <2>1, <2>3, Zenon DEF FdFacts, PfOut
  <2> QED
    BY <2>2, <2>3, Zenon
<1>7. CASE PfClose
  <2>1. PICK d \in Clients : d = lc[Pf] /\ fd[d] = "open"
    BY <1>7, Zenon DEF PfClose, PfInv, PollFacts
  <2>2. fd' = [fd EXCEPT ![d] = "closed"] /\ clients' = clients \ {d} /\ UNCHANGED peer
    BY <1>7, <2>1, Zenon DEF PfClose, netVars
  <2> QED
    BY <1>0, <2>1, <2>2, Zenon DEF FdFacts
<1>8. ASSUME NEW c \in Clients, PfIn(c) \/ ReqPop(c) PROVE FdFacts'
  BY <1>0, <1>8, Zenon DEF FdFacts, PfIn, ReqPop, clientVars, netVars
<1>9. ASSUME NEW s \in Sess, SessionFree(s) \/ ReqClaim(s) \/ EvNotify(s) PROVE FdFacts'
  BY <1>0, <1>9, ZenonT(40) DEF FdFacts, SessionFree, ReqClaim, EvNotify, clientVars, netVars
<1>10. CASE ReqSource \/ WdNotify \/ WdOver
  BY <1>0, <1>10, Zenon DEF FdFacts, ReqSource, WdNotify, WdOver, clientVars, netVars
<1>11. ASSUME NEW p \in {Req, Ev}, SendDone(p) PROVE FdFacts'
  BY <1>0, <1>11, Zenon DEF FdFacts, SendDone, netVars
<1> QED
  BY <1>1, <1>2, <1>3, <1>4, <1>5, <1>6, <1>7, <1>8, <1>9, <1>10, <1>11, NextSplit, Zenon

\* A step says nothing new of c.
Untouched(c) ==
    /\ New(c)' => New(c)
    /\ fd'[c] = fd[c] /\ (c \in freed' => c \in freed) /\ (c \in requests' => c \in requests)
    /\ \A s \in Sess : source'[s] = c => source[s] = c
    /\ \A p \in Callers : lc'[p] = c => lc[p] = c

\* A step that refers only to clients that are known keeps the new ones unknown.
LEMMA NewKeep ==
    ASSUME NewFacts, NEW D, \A c \in Clients \cap D : ~New(c)', \A c \in Clients \ D : Untouched(c)
    PROVE  NewFacts'
<1>1. ASSUME NEW c \in Clients, New(c)'
      PROVE  /\ fd'[c] = "none" /\ c \notin freed' /\ c \notin requests'
             /\ \A s \in Sess : source'[s] # c
             /\ \A p \in Callers : lc'[p] # c
  <2>1. Untouched(c)
    BY <1>1, Zenon
  <2>2. /\ fd[c] = "none" /\ c \notin freed /\ c \notin requests
        /\ \A s \in Sess : source[s] # c
        /\ \A p \in Callers : lc[p] # c
    BY <1>1, <2>1, Zenon DEF NewFacts, Untouched
  <2> QED
    BY <2>1, <2>2, Zenon DEF Untouched
<1> QED
  BY <1>1, Zenon DEF NewFacts

\* Clients with a reference, or with a descriptor, are not new.
LEMMA KnownFacts ==
    ASSUME PfInv, NEW c \in Clients,
           \/ c \in requests \/ fd[c] # "none"
           \/ \E s \in Sess : source[s] = c
           \/ \E p \in Callers : lc[p] = c
    PROVE  ~New(c)
BY Zenon DEF PfInv, NewFacts

\* Every step keeps clients that are not there yet unreferenced.
LEMMA NewStep == ASSUME PfInv, [Next]_vars PROVE NewFacts'
<1>0. /\ NewFacts /\ fd \in [Clients -> {"none", "open", "closed"}]
      /\ peer \in [Clients -> {"absent", "connecting", "connected", "hungup", "half"}]
      /\ source \in [Sess -> Clients \cup {NoClient}] /\ lc \in [Threads -> Clients \cup {NoClient}]
      /\ NoClient \notin Clients /\ Callers \subseteq Threads /\ Pf \notin Callers
  BY NamesAssumption, ThreadFacts, Zenon DEF PfInv, TypeOK
<1>1. CASE Quiet \/ UNCHANGED vars
  BY <1>0, <1>1, QuietSame, ZenonT(40) DEF NewFacts, New, PfInv
<1>2. ASSUME NEW d \in Clients, PeerConnects(d) PROVE NewFacts'
  <2>1. /\ d \notin Dgrams /\ peer[d] = "absent" /\ peer' = [peer EXCEPT ![d] = "connecting"]
        /\ UNCHANGED <<fd, clients, freed, requests, source, lc>>
    BY <1>2, Zenon DEF PeerConnects, Stream, clientVars, sessVars
  <2>2. \A c \in Clients : New(c)' => New(c)
    BY <1>0, <2>1, Zenon DEF New
  <2> QED
    BY <1>0, <2>1, <2>2, Zenon DEF NewFacts
<1>3. ASSUME NEW d \in Clients, NEW how \in Closings, PeerCloses(d, how) PROVE NewFacts'
  <2>1. /\ peer[d] = "connected" /\ peer' = [peer EXCEPT ![d] = how]
        /\ UNCHANGED <<fd, clients, freed, requests, source, lc>> /\ how \in {"hungup", "half"}
    BY <1>3, OptionsAssumption, Zenon DEF PeerCloses, clientVars, sessVars
  <2>2. \A c \in Clients : New(c)' => New(c)
    BY <1>0, <2>1, Zenon DEF New
  <2> QED
    BY <1>0, <2>1, <2>2, Zenon DEF NewFacts
<1>4. ASSUME NEW d \in Clients, PfAccept(d) PROVE NewFacts'
  <2>1. /\ peer[d] = "connecting" /\ peer' = [peer EXCEPT ![d] = "connected"]
        /\ fd' = [fd EXCEPT ![d] = "open"] /\ clients' = clients \cup {d}
        /\ UNCHANGED <<freed, requests, source, lc>>
    BY <1>4, Zenon DEF PfAccept, sessVars
  <2>2. ~New(d)'
    BY <1>0, <2>1, Zenon DEF New, PfInv, FdFacts
  <2>3. \A c \in Clients \ {d} : (New(c)' => New(c)) /\ fd'[c] = fd[c]
    BY <1>0, <2>1, Zenon DEF New
  <2>8. \A c \in Clients \ {d} : Untouched(c)
    BY <1>0, <2>1, <2>2, <2>3, Zenon DEF Untouched
  <2>9. \A c \in Clients \cap {d} : ~New(c)'
    BY <1>0, <2>1, <2>2, <2>3, Zenon
  <2> QED
    BY <1>0, <2>8, <2>9, NewKeep, Zenon
<1>5. ASSUME NEW d \in Clients, PfDgram(d) PROVE NewFacts'
  <2>1. /\ d \in Dgrams /\ clients' = clients \cup {d} /\ requests' = requests \cup {d}
        /\ UNCHANGED <<peer, fd, freed, source, lc>>
    BY <1>5, ZenonT(40) DEF PfDgram, sessVars
  <2>2. ~New(d)'
    BY <2>1, Zenon DEF New
  <2>3. \A c \in Clients \ {d} : (New(c)' => New(c)) /\ (c \in requests' => c \in requests)
    BY <2>1, Zenon DEF New
  <2>8. \A c \in Clients \ {d} : Untouched(c)
    BY <1>0, <2>1, <2>2, <2>3, Zenon DEF Untouched
  <2>9. \A c \in Clients \cap {d} : ~New(c)'
    BY <1>0, <2>1, <2>2, <2>3, Zenon
  <2> QED
    BY <1>0, <2>8, <2>9, NewKeep, Zenon
<1>6. ASSUME NEW d \in Clients, PfIn(d) PROVE NewFacts'
  <2>1. fd[d] = "open" /\ requests' = requests \cup {d} /\ UNCHANGED <<peer, fd, clients, freed, source, lc>>
    BY <1>6, Zenon DEF PfIn, clientVars, sessVars
  <2>2. ~New(d)
    BY <2>1, KnownFacts, Zenon
  <2>3. \A c \in Clients : New(c)' <=> New(c)
    BY <2>1, Zenon DEF New
  <2>4. \A c \in Clients \ {d} : c \in requests' => c \in requests
    BY <2>1, Zenon
  <2>8. \A c \in Clients \ {d} : Untouched(c)
    BY <1>0, <2>1, <2>2, <2>3, <2>4, Zenon DEF Untouched
  <2>9. \A c \in Clients \cap {d} : ~New(c)'
    BY <1>0, <2>1, <2>2, <2>3, <2>4, Zenon
  <2> QED
    BY <1>0, <2>8, <2>9, NewKeep, Zenon
<1>7. ASSUME NEW d \in Clients, PfOut(d) PROVE NewFacts'
  <2>1. fd[d] = "open" /\ UNCHANGED <<peer, requests, source, lc>>
    BY <1>7, Zenon DEF PfOut, Serving, PfInv, PollFacts, netVars, sessVars
  <2>2. ~New(d) /\ d \notin Dgrams
    BY <2>1, KnownFacts, Zenon DEF PfInv, FdFacts
  <2>3. /\ \A c \in Clients \ {d} : c \in clients' <=> c \in clients
        /\ \A c \in Clients \ {d} : fd'[c] = fd[c] /\ (c \in freed' => c \in freed)
    BY <1>0, <1>7, ZenonT(40) DEF PfOut
  <2>4. ~New(d)' /\ \A c \in Clients \ {d} : New(c)' => New(c)
    BY <2>1, <2>2, <2>3, Zenon DEF New
  <2>8. \A c \in Clients \ {d} : Untouched(c)
    BY <1>0, <2>1, <2>3, <2>4, Zenon DEF Untouched
  <2>9. \A c \in Clients \cap {d} : ~New(c)'
    BY <1>0, <2>1, <2>3, <2>4, Zenon
  <2> QED
    BY <1>0, <2>8, <2>9, NewKeep, Zenon
<1>8. ASSUME NEW d \in Clients, ReqPop(d) PROVE NewFacts'
  <2>1. /\ d \in requests /\ requests' = requests \ {d} /\ lc' = [lc EXCEPT ![Req] = d]
        /\ UNCHANGED <<peer, fd, clients, freed, source>>
    BY <1>8, Zenon DEF ReqPop, netVars, clientVars, sessVars
  <2>2. ~New(d)
    BY <2>1, KnownFacts, Zenon
  <2>3. \A c \in Clients : New(c)' <=> New(c)
    BY <2>1, Zenon DEF New
  <2>4. \A c \in Clients \ {d} : (\A p \in Callers : lc'[p] = c => lc[p] = c) /\ (c \in requests' => c \in requests)
    BY <1>0, <2>1, Zenon
  <2>8. \A c \in Clients \ {d} : Untouched(c)
    BY <1>0, <2>1, <2>2, <2>3, <2>4, Zenon DEF Untouched
  <2>9. \A c \in Clients \cap {d} : ~New(c)'
    BY <1>0, <2>1, <2>2, <2>3, <2>4, Zenon
  <2> QED
    BY <1>0, <2>8, <2>9, NewKeep, Zenon
<1>9. CASE PfClose
  <2>1. PICK d \in Clients : d = lc[Pf] /\ fd[d] = "open"
    BY <1>9, Zenon DEF PfClose, PfInv, PollFacts
  <2>2. /\ fd' = [fd EXCEPT ![d] = "closed"] /\ clients' = clients \ {d} /\ Drop(d)
        /\ lc' = [lc EXCEPT ![Pf] = NoClient] /\ UNCHANGED <<peer, requests, source>>
    BY <1>9, <2>1, Zenon DEF PfClose, netVars, sessVars
  <2>3. ~New(d) /\ d \notin Dgrams
    BY <2>1, KnownFacts, Zenon DEF PfInv, FdFacts
  <2>4. ~New(d)' /\ \A c \in Clients \ {d} : New(c)' => New(c)
    BY <2>2, <2>3, Zenon DEF New
  <2>5. \A c \in Clients \ {d} : fd'[c] = fd[c] /\ (c \in freed' => c \in freed)
    BY <1>0, <2>2, Zenon DEF Drop
  <2>6. \A p \in Callers : lc'[p] = lc[p]
    BY <1>0, <2>2, Zenon
  <2>8. \A c \in Clients \ {d} : Untouched(c)
    BY <1>0, <2>2, <2>4, <2>5, <2>6, Zenon DEF Untouched
  <2>9. \A c \in Clients \cap {d} : ~New(c)'
    BY <1>0, <2>2, <2>4, <2>5, <2>6, Zenon
  <2> QED
    BY <1>0, <2>8, <2>9, NewKeep, Zenon
<1>10. ASSUME NEW s \in Sess, SessionFree(s) PROVE NewFacts'
  <2>1. PICK d \in Clients : d = source[s]
    BY <1>0, <1>10, Zenon DEF SessionFree
  <2>2. /\ Drop(d) /\ source' = [source EXCEPT ![s] = NoClient]
        /\ UNCHANGED <<peer, fd, clients, requests, lc>>
    BY <1>10, <2>1, Zenon DEF SessionFree, netVars
  <2>3. ~New(d)
    BY <2>1, KnownFacts, Zenon
  <2>4. \A c \in Clients : New(c)' <=> New(c)
    BY <2>2, Zenon DEF New
  <2>5. /\ \A c \in Clients \ {d} : c \in freed' => c \in freed
        /\ \A c \in Clients \ {d} : \A x \in Sess : source'[x] = c => source[x] = c
    BY <1>0, <2>2, Zenon DEF Drop
  <2>8. \A c \in Clients \ {d} : Untouched(c)
    BY <1>0, <2>2, <2>3, <2>4, <2>5, Zenon DEF Untouched
  <2>9. \A c \in Clients \cap {d} : ~New(c)'
    BY <1>0, <2>2, <2>3, <2>4, <2>5, ZenonT(40)
  <2> QED
    BY <1>0, <2>8, <2>9, NewKeep, Zenon
<1>11. ASSUME NEW s \in Sess, ReqClaim(s) PROVE NewFacts'
  <2>1. PICK d \in Clients, e \in Clients : d = lc[Req] /\ e = source[s]
    <3>1. pc[Req] = "serve" /\ sess[s] = "live"
      BY <1>11, Zenon DEF ReqClaim
    <3> QED
      BY <3>1, ThreadFacts, ZenonT(40) DEF PfInv, TypeOK, CoreFacts
  <2>2. /\ source' = [source EXCEPT ![s] = d] /\ UNCHANGED <<peer, fd, clients, requests, lc>>
        /\ freed' = (IF tsref[e] = 1 THEN freed \cup {e} ELSE freed)
    BY <1>11, <2>1, Zenon DEF ReqClaim, netVars
  <2>3. ~New(d) /\ ~New(e)
    BY <2>1, KnownFacts, ThreadFacts, Zenon
  <2>4. \A c \in Clients : New(c)' <=> New(c)
    BY <2>2, Zenon DEF New
  <2>5. /\ \A c \in Clients \ {d, e} : c \in freed' => c \in freed
        /\ \A c \in Clients \ {d, e} : \A x \in Sess : source'[x] = c => source[x] = c
    BY <1>0, <2>2, Zenon
  <2>6. \A c \in Clients \cap {d, e} : ~New(c)'
    BY <2>3, <2>4, Zenon
  <2>8. \A c \in Clients \ {d, e} : Untouched(c)
    BY <1>0, <2>2, <2>4, <2>5, <2>6, Zenon DEF Untouched
  <2>9. \A c \in Clients \cap {d, e} : ~New(c)'
    BY <1>0, <2>2, <2>4, <2>5, <2>6, Zenon
  <2> QED
    BY <1>0, <2>8, <2>9, NewKeep, Zenon
<1>12. CASE ReqSource
  <2>1. PICK s \in Sess, d \in Clients : s = ls[Req] /\ d = lc[Req]
    BY <1>12, ThreadFacts, Zenon DEF PfInv, TypeOK, CoreFacts, ReqSource
  <2>2. source' = [source EXCEPT ![s] = d] /\ UNCHANGED <<peer, fd, clients, freed, requests, lc>>
    BY <1>12, <2>1, Zenon DEF ReqSource, netVars, clientVars
  <2>3. ~New(d)
    BY <2>1, KnownFacts, ThreadFacts, Zenon
  <2>4. \A c \in Clients : New(c)' <=> New(c)
    BY <2>2, Zenon DEF New
  <2>5. \A c \in Clients \ {d} : \A x \in Sess : source'[x] = c => source[x] = c
    BY <1>0, <2>2, Zenon
  <2>8. \A c \in Clients \ {d} : Untouched(c)
    BY <1>0, <2>2, <2>3, <2>4, <2>5, Zenon DEF Untouched
  <2>9. \A c \in Clients \cap {d} : ~New(c)'
    BY <1>0, <2>2, <2>3, <2>4, <2>5, ZenonT(40)
  <2> QED
    BY <1>0, <2>8, <2>9, NewKeep, Zenon
<1>13. ASSUME NEW p \in Callers, NEW s \in Sess, NEW d \in Clients, source[s] = d,
              lc' = [lc EXCEPT ![p] = d], UNCHANGED <<peer, fd, clients, freed, requests, source>>
       PROVE  NewFacts'
  <2>1. ~New(d)
    BY <1>13, KnownFacts, Zenon
  <2>2. \A c \in Clients : New(c)' <=> New(c)
    BY <1>13, Zenon DEF New
  <2>3. \A c \in Clients \ {d} : \A q \in Callers : lc'[q] = c => lc[q] = c
    BY <1>0, <1>13, Zenon
  <2>8. \A c \in Clients \ {d} : Untouched(c)
    BY <1>0, <1>13, <2>1, <2>2, <2>3, Zenon DEF Untouched
  <2>9. \A c \in Clients \cap {d} : ~New(c)'
    BY <1>0, <1>13, <2>1, <2>2, <2>3, ZenonT(40)
  <2> QED
    BY <1>0, <2>8, <2>9, NewKeep, Zenon
<1>14. ASSUME NEW s \in Sess, EvNotify(s) PROVE NewFacts'
  BY <1>13, <1>14, EvNotifyUser, Zenon DEF EvNotify, netVars, clientVars, sessVars
<1>15. CASE WdNotify
  <2>1. UNCHANGED <<peer, fd, clients, freed, requests, source>>
    BY <1>15, Zenon DEF WdNotify, netVars, clientVars, sessVars
  <2>2. CASE source[ls[Wd]] = NoClient
    BY <1>0, <1>15, <2>1, <2>2, ZenonT(40) DEF WdNotify, NewFacts, New
  <2>3. CASE source[ls[Wd]] # NoClient
    BY <1>13, <1>15, <2>1, <2>3, WdNotifyUser, ZenonT(40) DEF WdNotify
  <2> QED
    BY <2>2, <2>3, Zenon
<1>16. ASSUME NEW p \in Callers, NEW d \in Clients, lc[p] = d, Drop(d), lc' = [lc EXCEPT ![p] = NoClient],
              UNCHANGED <<peer, fd, clients, requests, source>>
       PROVE  NewFacts'
  <2>1. ~New(d)
    BY <1>16, KnownFacts, Zenon
  <2>2. \A c \in Clients : New(c)' <=> New(c)
    BY <1>16, Zenon DEF New
  <2>3. \A c \in Clients \ {d} : (\A q \in Callers : lc'[q] = c => lc[q] = c) /\ (c \in freed' => c \in freed)
    BY <1>0, <1>16, Zenon DEF Drop
  <2>8. \A c \in Clients \ {d} : Untouched(c)
    BY <1>0, <1>16, <2>1, <2>2, <2>3, Zenon DEF Untouched
  <2>9. \A c \in Clients \cap {d} : ~New(c)'
    BY <1>0, <1>16, <2>1, <2>2, <2>3, ZenonT(40)
  <2> QED
    BY <1>0, <2>8, <2>9, NewKeep, Zenon
<1>17. CASE WdOver
  BY <1>16, <1>17, WdOverUser, Zenon DEF WdOver, netVars, sessVars
<1>18. ASSUME NEW p \in {Req, Ev}, SendDone(p) PROVE NewFacts'
  BY <1>16, <1>18, SendDoneUser, Zenon DEF SendDone, netVars, sessVars
<1> QED
  BY <1>1, <1>2, <1>3, <1>4, <1>5, <1>6, <1>7, <1>8, <1>9, <1>10, <1>11, <1>12, <1>14, <1>15, <1>17, <1>18,
     NextSplit, Zenon

-----------------------------------------------------------------------------
(* The threads. *)

\* What the threads are at, as functions.
LEMMA ThreadFunctions ==
    ASSUME TypeOK
    PROVE  /\ pc = [q \in Threads |-> pc[q]] /\ lc = [q \in Threads |-> lc[q]] /\ ls = [q \in Threads |-> ls[q]]
BY ZenonT(40) DEF TypeOK

\* What one thread does it does to its own step, client and session.
Others(p) == \A q \in Threads \ {p} : pc'[q] = pc[q] /\ lc'[q] = lc[q] /\ ls'[q] = ls[q]

\* What clients, start-up, shutdown and the freeing of a session leave alone.
LEMMA OutsideMoves ==
    ASSUME InitDone \/ Destroy \/ (\E c \in Clients : Peer(c)) \/ (\E s \in Sess : SessionFree(s)) \/ UNCHANGED vars
    PROVE  UNCHANGED <<fd, clients, session_timeout, messages, pollVars, requests, sess, pc, lc, ls>>
<1>1. CASE InitDone \/ Destroy \/ UNCHANGED vars
  BY <1>1, Zenon DEF InitDone, Destroy, vars, clientVars, sessVars
<1>2. ASSUME NEW c \in Clients, Peer(c)
      PROVE  UNCHANGED <<fd, clients, session_timeout, messages, pollVars, requests, sess, pc, lc, ls>>
  BY <1>2, Zenon DEF Peer, PeerConnects, PeerSends, PeerCloses, clientVars, sessVars
<1>3. ASSUME NEW s \in Sess, SessionFree(s)
      PROVE  UNCHANGED <<fd, clients, session_timeout, messages, pollVars, requests, sess, pc, lc, ls>>
  BY <1>3, Zenon DEF SessionFree
<1> QED
  BY <1>1, <1>2, <1>3, Zenon

\* What the transport's thread leaves alone.
LEMMA PfMoves ==
    ASSUME TypeOK, PfThread
    PROVE  Others(Pf) /\ UNCHANGED <<source, ls, session_timeout>>
<1>1. CASE PfEnd \/ PfPrepare \/ PfPoll \/ PfGone \/ PfRound
  BY <1>1, ThreadFunctions, Zenon DEF PfEnd, PfPrepare, PfPoll, PfGone, PfRound, Others, Goto, clientVars, sessVars
<1>2. CASE PfWake \/ (\E c \in Clients : PfAccept(c) \/ PfDgram(c) \/ PfIn(c) \/ PfInClosed(c) \/ PfOut(c))
  BY <1>2, ZenonT(40) DEF PfWake, PfAccept, PfDgram, PfIn, PfInClosed, PfOut, Others, clientVars, sessVars
<1>3. CASE PfClose \/ \E c \in Clients : PfHup(c)
  BY <1>3, ThreadFunctions, Zenon DEF PfClose, PfHup, Others, Goto, clientVars, sessVars
<1> QED
  BY <1>1, <1>2, <1>3, Zenon DEF PfThread

\* What janus_pfunix_send_message changes of its caller, and leaves alone.
LEMMA SendMoves ==
    ASSUME TypeOK, NEW p \in Threads, Send(p)
    PROVE  /\ Others(p) /\ lc'[p] = lc[p] /\ pc[p] \in {"send", "push", "wake"} /\ pc'[p] \in {"push", "wake", "sent"}
           /\ UNCHANGED <<inbox, pollVars, session_timeout, requests, sess, source, ls>>
<1>1. CASE SendCheck(p)
  <2>1. PICK found \in Found(lc[p]) : Goto(p, IF found THEN "push" ELSE "sent")
    BY <1>1, Zenon DEF SendCheck
  <2> QED
    BY <1>1, <2>1, ThreadFunctions, Zenon DEF SendCheck, Others, Goto, netVars, clientVars, sessVars
<1>2. CASE SendPush(p)
  BY <1>2, ThreadFunctions, Zenon DEF SendPush, Others, Goto, netVars, clientVars, sessVars
<1>3. CASE SendWake(p)
  BY <1>3, ThreadFunctions, Zenon DEF SendWake, Others, Goto, netVars, clientVars, sessVars
<1> QED
  BY <1>1, <1>2, <1>3, Zenon DEF Send

\* The caller of janus_pfunix_send_message drops its reference and goes on.
LEMMA SendDoneMoves ==
    ASSUME TypeOK, NEW p \in Threads, SendDone(p)
    PROVE  /\ Others(p) /\ lc'[p] = NoClient /\ pc[p] = "sent" /\ pc'[p] = "idle"
           /\ UNCHANGED <<inbox, pollVars, session_timeout, requests, sess, source, ls>>
BY ThreadFunctions, Zenon DEF SendDone, Others, Goto, netVars, sessVars

\* What the requests thread leaves alone.
LEMMA ReqMoves ==
    ASSUME TypeOK, ReqThread
    PROVE  Others(Req) /\ UNCHANGED <<inbox, fd, pollVars, session_timeout>>
<1>1. Req \in Threads
  BY ThreadFacts, Zenon
<1>2. ASSUME NEW c \in Clients, ReqPop(c) PROVE Others(Req) /\ UNCHANGED <<inbox, fd, pollVars, session_timeout>>
  BY <1>2, ThreadFunctions, Zenon DEF ReqPop, Others, Goto, netVars, clientVars
<1>3. ASSUME NEW s \in Sess, ReqCreate(s) \/ ReqDestroy(s)
      PROVE  Others(Req) /\ UNCHANGED <<inbox, fd, pollVars, session_timeout>>
  BY <1>3, ThreadFunctions, Zenon DEF ReqCreate, ReqDestroy, Others, Goto, netVars, clientVars
<1>4. ASSUME NEW s \in Sess, ReqClaim(s) PROVE Others(Req) /\ UNCHANGED <<inbox, fd, pollVars, session_timeout>>
  BY <1>4, ThreadFunctions, Zenon DEF ReqClaim, Others, Goto, netVars
<1>5. CASE ReqSource \/ ReqOther
  BY <1>5, ThreadFunctions, Zenon DEF ReqSource, ReqOther, Others, Goto, netVars, clientVars
<1>6. CASE SendDone(Req)
  BY <1>1, <1>6, SendDoneMoves, Zenon DEF SendDone
<1>7. CASE Send(Req)
  BY <1>1, <1>7, SendMoves, Zenon DEF Send, SendCheck, SendPush, SendWake, clientVars
<1> QED
  BY <1>2, <1>3, <1>4, <1>5, <1>6, <1>7, Zenon DEF ReqThread

\* What a plugin's thread leaves alone.
LEMMA EvMoves ==
    ASSUME TypeOK, EvThread
    PROVE  Others(Ev) /\ UNCHANGED <<inbox, fd, pollVars, session_timeout, requests, sess, source, ls>>
<1>1. Ev \in Threads
  BY ThreadFacts, Zenon
<1>2. ASSUME NEW s \in Sess, EvNotify(s)
      PROVE  Others(Ev) /\ UNCHANGED <<inbox, fd, pollVars, session_timeout, requests, sess, source, ls>>
  BY <1>2, ThreadFunctions, Zenon DEF EvNotify, Others, Goto, netVars, clientVars, sessVars
<1>3. CASE SendDone(Ev)
  BY <1>1, <1>3, SendDoneMoves, Zenon DEF SendDone
<1>4. CASE Send(Ev)
  BY <1>1, <1>4, SendMoves, ZenonT(40) DEF Send, SendCheck, SendPush, SendWake, clientVars
<1> QED
  BY <1>2, <1>3, <1>4, Zenon DEF EvThread

\* What the watchdog leaves alone.
LEMMA WdMoves ==
    ASSUME TypeOK, WdThread
    PROVE  Others(Wd) /\ UNCHANGED <<inbox, fd, pollVars, requests, source>>
<1>1. Wd \in Threads
  BY ThreadFacts, Zenon
<1>2. CASE WdStart \/ WdRemove \/ WdEnd
  BY <1>2, ThreadFunctions, Zenon DEF WdStart, WdRemove, WdEnd, Others, Goto, netVars, clientVars, sessVars
<1>3. CASE WdNotify
  BY <1>3, ThreadFunctions, Zenon DEF WdNotify, Others, Goto, netVars, clientVars, sessVars
<1>4. CASE WdOver
  BY <1>4, ThreadFunctions, Zenon DEF WdOver, Others, Goto, netVars, sessVars
<1>5. CASE Send(Wd)
  BY <1>1, <1>5, SendMoves, Zenon DEF Send, SendCheck, SendPush, SendWake, clientVars
<1>6. ASSUME NEW s \in Sess, WdExpired(s) PROVE Others(Wd) /\ UNCHANGED <<inbox, fd, pollVars, requests, source>>
  BY <1>6, ThreadFunctions, Zenon DEF WdExpired, Others, Goto, netVars, clientVars, sessVars
<1> QED
  BY <1>2, <1>3, <1>4, <1>5, <1>6, Zenon DEF WdThread

\* The watchdog has nothing to do.
LEMMA TimeoutStep == ASSUME PfInv, [Next]_vars PROVE TimeoutFacts'
<1>0. TypeOK /\ TimeoutFacts
  BY Zenon DEF PfInv
<1> SUFFICES ASSUME ~SessionTimeout, ~Reclaim PROVE pc'[Wd] = "idle" /\ session_timeout' = {}
  BY Zenon DEF TimeoutFacts
<1>1. pc[Wd] = "idle" /\ session_timeout = {}
  BY <1>0, Zenon DEF TimeoutFacts
<1>2. CASE WdThread
  <2>1. ~WdThread
    BY <1>1, Zenon DEF WdThread, WdStart, WdNotify, WdOver, WdRemove, WdEnd, Send, SendCheck, SendPush, SendWake,
       WdExpired
  <2> QED
    BY <1>2, <2>1, Zenon
<1>3. CASE InitDone \/ Destroy \/ (\E c \in Clients : Peer(c)) \/ (\E s \in Sess : SessionFree(s)) \/ UNCHANGED vars
  BY <1>1, <1>3, OutsideMoves, Zenon
<1>4. CASE PfThread
  BY <1>0, <1>1, <1>4, PfMoves, ThreadFacts, Zenon DEF Others
<1>5. CASE ReqThread
  BY <1>0, <1>1, <1>5, ReqMoves, ThreadFacts, Zenon DEF Others
<1>6. CASE EvThread
  BY <1>0, <1>1, <1>6, EvMoves, ThreadFacts, Zenon DEF Others
<1> QED
  BY <1>2, <1>3, <1>4, <1>5, <1>6, Zenon DEF Next

-----------------------------------------------------------------------------
(* The wake-up socket pair. *)

\* A step that queues no message, keeps the wake-up byte and does not go to sleep loses no wake-up.
LEMMA WakeKeep ==
    ASSUME NoLostWakeup, messages' \subseteq messages, pc'[Pf] = "poll" => pc[Pf] = "poll",
           pollout' = pollout, \A c \in messages : fd'[c] = "open" => fd[c] = "open", wake => wake',
           \A p \in Callers : pc[p] = "wake" => pc'[p] = "wake"
    PROVE  NoLostWakeup'
<1>1. ASSUME NEW c \in messages', pc'[Pf] = "poll" /\ fd'[c] = "open" /\ c \notin pollout'
      PROVE  wake' \/ \E p \in Callers : pc'[p] = "wake"
  <2>1. wake \/ \E p \in Callers : pc[p] = "wake"
    BY <1>1, Zenon DEF NoLostWakeup
  <2> QED
    BY <2>1, Zenon
<1> QED
  BY <1>1, Zenon DEF NoLostWakeup

\* janus_pfunix_send_message queues the message first and writes the byte after.
LEMMA WakeSend ==
    ASSUME PfInv, NEW p \in Callers, Send(p)
    PROVE  NoLostWakeup'
<1>0. TypeOK /\ NoLostWakeup /\ p \in Threads /\ p # Pf /\ Pf \in Threads /\ Callers \subseteq Threads
  BY ThreadFacts, Zenon DEF PfInv
<1>1. Others(p)
  BY <1>0, SendMoves, Zenon
<1>2. CASE SendCheck(p)
  BY <1>0, <1>1, <1>2, WakeKeep, Zenon DEF SendCheck, Others, clientVars, pollVars
<1>3. CASE SendPush(p)
  <2>1. CASE fd[lc[p]] = "open"
    <3>1. pc'[p] = "wake"
      BY <1>0, <1>3, <2>1, ThreadFunctions, Zenon DEF SendPush, Goto
    <3> QED
      BY <3>1, Zenon DEF NoLostWakeup
  <2>2. CASE fd[lc[p]] # "open"
    BY <1>0, <1>1, <1>3, <2>2, WakeKeep, Zenon DEF SendPush, Others, clientVars, pollVars
  <2> QED
    BY <2>1, <2>2, Zenon
<1>4. CASE SendWake(p)
  BY <1>4, Zenon DEF SendWake, NoLostWakeup
<1> QED
  BY <1>2, <1>3, <1>4, Zenon DEF Send

\* No step loses a wake-up: before it sleeps the thread builds the poll list from the queues.
LEMMA WakeStep == ASSUME PfInv, [Next]_vars PROVE NoLostWakeup'
<1>0. TypeOK /\ NoLostWakeup /\ FdFacts
  BY Zenon DEF PfInv
<1>1. CASE InitDone \/ (\E c \in Clients : Peer(c)) \/ (\E s \in Sess : SessionFree(s)) \/ UNCHANGED vars
  <2>1. UNCHANGED <<fd, messages, pollout, pc, wake>>
    <3>1. UNCHANGED <<fd, messages, pollVars, pc>>
      BY <1>1, OutsideMoves, Zenon
    <3>2. UNCHANGED wake
      BY <1>1, Zenon DEF InitDone, Peer, PeerConnects, PeerSends, PeerCloses, SessionFree, vars
    <3> QED
      BY <3>1, <3>2, Zenon DEF pollVars
  <2> QED
    BY <1>0, <2>1, Zenon DEF NoLostWakeup
<1>2. CASE Destroy
  BY <1>2, Zenon DEF Destroy, NoLostWakeup
<1>3. CASE PfPrepare
  <2>1. /\ UNCHANGED <<fd, messages>> /\ messages \subseteq Clients
        /\ pollout' = {c \in clients : fd[c] = "open" /\ c \in messages}
    BY <1>0, <1>3, Zenon DEF PfPrepare, TypeOK, clientVars
  <2> QED
    BY <1>0, <2>1, Zenon DEF NoLostWakeup, FdFacts
<1>4. CASE PfThread /\ ~PfPrepare
  <2>1. pc'[Pf] # "poll"
    <3>1. CASE PfEnd \/ PfPoll \/ PfGone \/ PfClose \/ PfRound \/ \E c \in Clients : PfHup(c)
      BY <1>0, <3>1, ThreadFacts, ThreadFunctions, Zenon DEF PfEnd, PfPoll, PfGone, PfClose, PfRound, PfHup, Goto
    <3>2. CASE PfWake \/ \E c \in Clients : PfAccept(c) \/ PfDgram(c) \/ PfIn(c) \/ PfInClosed(c) \/ PfOut(c)
      BY <3>2, ZenonT(40) DEF PfWake, PfAccept, PfDgram, PfIn, PfInClosed, PfOut, Serving
    <3> QED
      BY <1>4, <3>1, <3>2, Zenon DEF PfThread
  <2> QED
    BY <2>1, Zenon DEF NoLostWakeup
<1>5. ASSUME NEW c \in Clients, ReqPop(c) PROVE NoLostWakeup'
  <2>1. UNCHANGED <<fd, messages, pollout, wake>> /\ Others(Req) /\ pc[Req] = "idle"
    BY <1>0, <1>5, ReqMoves, Zenon DEF ReqPop, ReqThread, clientVars, pollVars
  <2> QED
    BY <1>0, <2>1, ThreadFacts, WakeKeep, Zenon DEF Others
<1>6. ASSUME NEW s \in Sess, ReqCreate(s) \/ ReqDestroy(s) \/ ReqClaim(s) PROVE NoLostWakeup'
  <2>1. UNCHANGED <<fd, messages, pollout, wake>> /\ Others(Req) /\ pc[Req] = "serve"
    BY <1>0, <1>6, ReqMoves, Zenon DEF ReqCreate, ReqDestroy, ReqClaim, ReqThread, clientVars, pollVars
  <2> QED
    BY <1>0, <2>1, ThreadFacts, WakeKeep, Zenon DEF Others
<1>7. CASE ReqSource \/ ReqOther
  <2>1. UNCHANGED <<fd, messages, pollout, wake>> /\ Others(Req) /\ pc[Req] # "wake"
    BY <1>0, <1>7, ReqMoves, Zenon DEF ReqSource, ReqOther, ReqThread, clientVars, pollVars
  <2> QED
    BY <1>0, <2>1, ThreadFacts, WakeKeep, Zenon DEF Others
<1>8. ASSUME NEW p \in {Req, Ev}, SendDone(p) PROVE NoLostWakeup'
  <2>1. p \in Callers /\ p # Pf /\ p \in Threads
    BY ThreadFacts, Zenon
  <2>2. UNCHANGED <<fd, messages, pollout, wake>> /\ Others(p) /\ pc[p] = "sent"
    BY <1>0, <1>8, <2>1, SendDoneMoves, ZenonT(40) DEF SendDone, pollVars
  <2> QED
    BY <1>0, <2>1, <2>2, ThreadFacts, WakeKeep, Zenon DEF Others
<1>9. ASSUME NEW s \in Sess, EvNotify(s) PROVE NoLostWakeup'
  <2>1. UNCHANGED <<fd, messages, pollout, wake>> /\ Others(Ev) /\ pc[Ev] = "idle"
    BY <1>0, <1>9, EvMoves, Zenon DEF EvNotify, EvThread, clientVars, pollVars
  <2> QED
    BY <1>0, <2>1, ThreadFacts, WakeKeep, Zenon DEF Others
<1>10. CASE WdStart \/ WdNotify \/ WdRemove \/ WdEnd \/ \E s \in Sess : WdExpired(s)
  <2>1. UNCHANGED <<fd, messages, pollout, wake>> /\ pc[Wd] # "wake"
    BY <1>10, ZenonT(40) DEF WdStart, WdNotify, WdRemove, WdEnd, WdExpired, clientVars, pollVars
  <2>2. Others(Wd)
    BY <1>0, <1>10, WdMoves, Zenon DEF WdThread
  <2> QED
    BY <1>0, <2>1, <2>2, ThreadFacts, WakeKeep, Zenon DEF Others
<1>11. CASE WdOver
  <2>1. UNCHANGED <<fd, messages, pollout>> /\ pc[Wd] # "wake" /\ (wake => wake')
    BY <1>11, Zenon DEF WdOver, pollVars
  <2>2. Others(Wd)
    BY <1>0, <1>11, WdMoves, Zenon DEF WdThread
  <2> QED
    BY <1>0, <2>1, <2>2, ThreadFacts, WakeKeep, Zenon DEF Others
<1>12. ASSUME NEW p \in Callers, Send(p) PROVE NoLostWakeup'
  BY <1>12, WakeSend, Zenon
<1>13. CASE ReqThread
  BY <1>5, <1>6, <1>7, <1>8, <1>12, <1>13, ThreadFacts, Zenon DEF ReqThread
<1>14. CASE EvThread
  BY <1>8, <1>9, <1>12, <1>14, ThreadFacts, Zenon DEF EvThread
<1>15. CASE WdThread
  BY <1>10, <1>11, <1>12, <1>15, ThreadFacts, Zenon DEF WdThread
<1> QED
  BY <1>1, <1>2, <1>3, <1>4, <1>13, <1>14, <1>15, Zenon DEF Next

-----------------------------------------------------------------------------
(* The poll list. *)

\* Events that were handled may be forgotten.
LEMMA RevKeep ==
    ASSUME PollFacts, revents' \subseteq revents, pc'[Pf] \notin {"poll", "gone", "close"},
           \A c \in Clients : fd[c] = "open" => fd'[c] = "open",
           \A c \in Clients : fd[c] # "none" => fd'[c] # "none"
    PROVE  PollFacts'
BY Zenon DEF PollFacts

\* Every step keeps what the thread may rely on when it handles an event.
LEMMA PollStep == ASSUME PfInv, [Next]_vars PROVE PollFacts'
<1>0. /\ TypeOK /\ PollFacts /\ Pf \in Threads /\ fd \in [Clients -> {"none", "open", "closed"}]
      /\ pollin \subseteq Clients /\ pollout \subseteq Clients
  BY ThreadFacts, Zenon DEF PfInv, TypeOK
<1>1. ASSUME UNCHANGED <<pollVars, fd>>, pc'[Pf] = pc[Pf], lc'[Pf] = lc[Pf] PROVE PollFacts'
  BY <1>0, <1>1, Zenon DEF PollFacts, pollVars
<1>2. CASE InitDone \/ Destroy \/ (\E c \in Clients : Peer(c)) \/ (\E s \in Sess : SessionFree(s)) \/ UNCHANGED vars
  BY <1>1, <1>2, OutsideMoves, Zenon
<1>3. CASE ReqThread
  BY <1>0, <1>1, <1>3, ReqMoves, ThreadFacts, Zenon DEF Others
<1>4. CASE EvThread
  BY <1>0, <1>1, <1>4, EvMoves, ThreadFacts, Zenon DEF Others
<1>5. CASE WdThread
  BY <1>0, <1>1, <1>5, WdMoves, ThreadFacts, Zenon DEF Others
<1>6. CASE PfEnd \/ PfRound
  <2>1. pc'[Pf] \in {"ended", "loop"} /\ UNCHANGED <<fd, revents>>
    BY <1>0, <1>6, ThreadFunctions, Zenon DEF PfEnd, PfRound, Goto, clientVars, pollVars
  <2> QED
    BY <1>0, <2>1, RevKeep, Zenon
<1>7. CASE PfPrepare
  <2>1. /\ pc'[Pf] = "poll" /\ UNCHANGED <<fd, revents>>
        /\ pollin' = {c \in clients : fd[c] = "open"}
        /\ pollout' = {c \in clients : fd[c] = "open" /\ c \in messages}
    BY <1>0, <1>7, ThreadFunctions, Zenon DEF PfPrepare, Goto, clientVars
  <2> QED
    BY <1>0, <2>1, Zenon DEF PollFacts
<1>8. CASE PfPoll
  <2>1. pc[Pf] = "poll" /\ pc'[Pf] = "serve" /\ revents' = Ready /\ UNCHANGED fd
    BY <1>0, <1>8, ThreadFunctions, Zenon DEF PfPoll, Goto, clientVars
  <2>2. ASSUME NEW c \in Clients, <<"hup", c>> \in Ready \/ <<"out", c>> \in Ready \/ <<"in", c>> \in Ready
        PROVE  c \in pollin \cup pollout
    BY <2>2 DEF Ready
  <2>3. \A c \in Clients : <<"hup", c>> \in revents' \/ <<"out", c>> \in revents' \/ <<"in", c>> \in revents'
                           => fd'[c] = "open"
    BY <1>0, <2>1, <2>2, Zenon DEF PollFacts
  <2> QED
    BY <2>1, <2>3, Zenon DEF PollFacts
<1>9. CASE PfWake \/ \E c \in Clients : PfDgram(c) \/ PfIn(c) \/ PfInClosed(c)
  <2>1. pc'[Pf] = "serve" /\ UNCHANGED fd /\ revents' \subseteq revents
    BY <1>9, ZenonT(40) DEF PfWake, PfDgram, PfIn, PfInClosed, Serving, clientVars
  <2> QED
    BY <1>0, <2>1, RevKeep, Zenon
<1>10. ASSUME NEW d \in Clients, PfAccept(d) PROVE PollFacts'
  <2>1. pc'[Pf] = "serve" /\ fd' = [fd EXCEPT ![d] = "open"] /\ revents' \subseteq revents
    BY <1>10, Zenon DEF PfAccept, Serving
  <2> QED
    BY <1>0, <2>1, RevKeep, Zenon
<1>11. ASSUME NEW d \in Clients, PfHup(d) PROVE PollFacts'
  <2>1. fd[d] = "open"
    BY <1>0, <1>11, Zenon DEF PfHup, Serving, PollFacts
  <2>2. pc'[Pf] = "gone" /\ lc'[Pf] = d /\ revents' = {e \in revents : e[2] # d} /\ UNCHANGED fd
    BY <1>0, <1>11, ThreadFunctions, Zenon DEF PfHup, Goto, clientVars
  <2>3. <<"hup", d>> \notin revents' /\ <<"out", d>> \notin revents'
    BY <2>2
  <2> QED
    BY <1>0, <2>1, <2>2, <2>3, Zenon DEF PollFacts
<1>12. CASE PfGone
  <2>1. pc[Pf] = "gone" /\ pc'[Pf] = "close" /\ UNCHANGED <<fd, revents, lc>>
    BY <1>0, <1>12, ThreadFunctions, Zenon DEF PfGone, Goto, clientVars, pollVars
  <2> QED
    BY <1>0, <2>1, Zenon DEF PollFacts
<1>13. CASE PfClose
  <2>1. PICK d \in Clients : /\ d = lc[Pf] /\ fd[d] = "open"
                             /\ <<"hup", d>> \notin revents /\ <<"out", d>> \notin revents
    BY <1>0, <1>13, Zenon DEF PfClose, PollFacts
  <2>2. pc'[Pf] = "serve" /\ fd' = [fd EXCEPT ![d] = "closed"] /\ UNCHANGED revents
    BY <1>0, <1>13, <2>1, ThreadFunctions, Zenon DEF PfClose, Goto, pollVars
  <2>3. fd'[d] = "closed" /\ \A c \in Clients \ {d} : fd'[c] = fd[c]
    BY <1>0, <2>2, Zenon
  <2> QED
    BY <1>0, <2>1, <2>2, <2>3, Zenon DEF PollFacts
<1>14. ASSUME NEW d \in Clients, PfOut(d) PROVE PollFacts'
  <2>1. /\ pc'[Pf] = "serve" /\ <<"hup", d>> \notin revents /\ revents' = revents \ {<<"out", d>>}
    BY <1>14, Zenon DEF PfOut, Serving
  <2>2. \A c \in Clients \ {d} : fd'[c] = fd[c]
    BY <1>0, <1>14, Zenon DEF PfOut
  <2>3. fd'[d] # "none"
    BY <1>0, <1>14, Zenon DEF PfOut, Serving, PollFacts
  <2>4. <<"hup", d>> \notin revents' /\ <<"out", d>> \notin revents' /\ revents' \subseteq revents
    BY <2>1, Zenon
  <2> QED
    BY <1>0, <2>1, <2>2, <2>3, <2>4, Zenon DEF PollFacts
<1>15. CASE PfThread
  BY <1>6, <1>7, <1>8, <1>9, <1>10, <1>11, <1>12, <1>13, <1>14, <1>15, Zenon DEF PfThread
<1> QED
  BY <1>2, <1>3, <1>4, <1>5, <1>15, Zenon DEF Next

-----------------------------------------------------------------------------
(* The sessions and their sources. *)

\* Clients, start-up, shutdown and the freeing of a session keep what is known of the core's threads.
LEMMA OutsideCore ==
    ASSUME PfInv,
           InitDone \/ Destroy \/ (\E c \in Clients : Peer(c)) \/ (\E s \in Sess : SessionFree(s)) \/ UNCHANGED vars
    PROVE  CoreFacts'
<1>0. CoreFacts /\ source \in [Sess -> Clients \cup {NoClient}]
  BY ZenonT(40) DEF PfInv, TypeOK
<1>1. UNCHANGED <<requests, sess, pc, lc, ls>>
  BY OutsideMoves, Zenon
<1>2. CASE InitDone \/ Destroy \/ UNCHANGED vars
  <2>1. UNCHANGED <<inbox, source>>
    BY <1>2, Zenon DEF InitDone, Destroy, vars, netVars, sessVars
  <2> QED
    BY <1>0, <1>1, <2>1, Zenon DEF CoreFacts
<1>3. ASSUME NEW c \in Clients, Peer(c) PROVE CoreFacts'
  <2>1. UNCHANGED source /\ inbox' \cap requests = {}
    BY <1>0, <1>3, ZenonT(40) DEF CoreFacts, Peer, PeerConnects, PeerSends, PeerCloses, sessVars
  <2> QED
    BY <1>0, <1>1, <2>1, Zenon DEF CoreFacts
<1>4. ASSUME NEW s \in Sess, SessionFree(s) PROVE CoreFacts'
  <2>1. sess[s] = "over" /\ source' = [source EXCEPT ![s] = NoClient] /\ UNCHANGED inbox
    BY <1>4, Zenon DEF SessionFree, netVars
  <2>2. source'[s] = NoClient /\ \A x \in Sess \ {s} : source'[x] = source[x]
    BY <1>0, <2>1, Zenon
  <2>3. \A x \in Sess : source[x] = NoClient => source'[x] = NoClient
    BY <2>2, Zenon
  <2>4. \A x \in Sess : sess[x] = "live" => source'[x] = source[x]
    BY <2>1, <2>2, Zenon
  <2> QED
    BY <1>0, <1>1, <2>1, <2>3, <2>4, Zenon DEF CoreFacts
<1> QED
  BY <1>2, <1>3, <1>4, Zenon

\* So does the transport's thread.
LEMMA PfCore ==
    ASSUME PfInv, PfThread
    PROVE  CoreFacts'
<1>0. CoreFacts /\ TypeOK /\ sess \in [Sess -> {"none", "live", "over"}]
  BY Zenon DEF PfInv, TypeOK
<1>1. /\ UNCHANGED <<source, ls>> /\ \A q \in Callers : pc'[q] = pc[q] /\ lc'[q] = lc[q]
      /\ Req \in Callers /\ Wd \in Callers
  BY <1>0, PfMoves, ThreadFacts, Zenon DEF Others
<1>2. inbox' \cap requests' = {}
  <2>1. CASE PfEnd \/ PfPrepare \/ PfPoll \/ PfWake \/ PfGone \/ PfClose \/ PfRound
    BY <1>0, <2>1, Zenon DEF CoreFacts, PfEnd, PfPrepare, PfPoll, PfWake, PfGone, PfClose, PfRound, netVars
  <2>2. ASSUME NEW c \in Clients, PfAccept(c) \/ PfInClosed(c) \/ PfHup(c) \/ PfOut(c) PROVE inbox' \cap requests' = {}
    BY <1>0, <2>2, Zenon DEF CoreFacts, PfAccept, PfInClosed, PfHup, PfOut, netVars
  <2>3. ASSUME NEW c \in Clients, PfDgram(c) \/ PfIn(c) PROVE inbox' \cap requests' = {}
    BY <1>0, <2>3, Zenon DEF CoreFacts, PfDgram, PfIn
  <2> QED
    BY <2>1, <2>2, <2>3, Zenon DEF PfThread
<1>3. \A s \in Sess : (sess'[s] = "none" <=> sess[s] = "none") /\ (sess'[s] = "live" => sess[s] = "live")
  <2>1. CASE PfGone
    <3>1. CASE Reclaim
      BY <2>1, <3>1, Zenon DEF PfGone
    <3>2. CASE ~Reclaim
      BY <1>0, <2>1, <3>2, Zenon DEF PfGone, SessionsOf
    <3> QED
      BY <3>1, <3>2, Zenon
  <2>2. CASE PfEnd \/ PfPrepare \/ PfPoll \/ PfWake \/ PfClose \/ PfRound
    BY <2>2, Zenon DEF PfEnd, PfPrepare, PfPoll, PfWake, PfClose, PfRound, sessVars
  <2>3. CASE \E c \in Clients : PfAccept(c) \/ PfDgram(c) \/ PfIn(c) \/ PfInClosed(c) \/ PfHup(c) \/ PfOut(c)
    BY <2>3, ZenonT(40) DEF PfAccept, PfDgram, PfIn, PfInClosed, PfHup, PfOut, sessVars
  <2> QED
    BY <2>1, <2>2, <2>3, Zenon DEF PfThread
<1>4. /\ \A s \in Sess : sess'[s] = "none" => source'[s] = NoClient
      /\ \A s \in Sess : sess'[s] = "live" => source'[s] # NoClient \/ (pc'[Req] = "created" /\ ls'[Req] = s)
      /\ pc'[Req] = "created" => ls'[Req] \in Sess /\ source'[ls'[Req]] = NoClient /\ sess'[ls'[Req]] # "none"
  BY <1>0, <1>1, <1>3, ZenonT(40) DEF CoreFacts
<1>5. /\ \A p \in Callers : pc'[p] = "idle" => lc'[p] = NoClient
      /\ pc'[Wd] \notin Sending => lc'[Wd] = NoClient
      /\ pc'[Wd] \in Expiring => ls'[Wd] \in Sess
  BY <1>0, <1>1, ZenonT(40) DEF CoreFacts
<1> QED
  BY <1>2, <1>4, <1>5, Zenon DEF CoreFacts

\* A step of a caller q that keeps the sessions, or lets some go, and its own facts.
LEMMA CallerCore ==
    ASSUME PfInv, NEW q \in Callers, Others(q), inbox' \cap requests' = {},
           pc'[q] = "idle" => lc'[q] = NoClient,
           q = Wd => /\ pc'[Wd] \notin Sending => lc'[Wd] = NoClient
                     /\ pc'[Wd] \in Expiring => ls'[Wd] \in Sess,
           q = Req => pc[Req] # "created" /\ pc'[Req] # "created",
           \A s \in Sess : sess'[s] = "none" => sess[s] = "none",
           \A s \in Sess : sess'[s] = "live" => sess[s] = "live",
           \A s \in Sess : source'[s] = source[s]
    PROVE  CoreFacts'
<1>0. CoreFacts /\ Req \in Callers /\ Wd \in Callers /\ Callers \subseteq Threads
  BY ThreadFacts, Zenon DEF PfInv
<1>1. \A p \in Callers : pc'[p] = "idle" => lc'[p] = NoClient
  BY <1>0, ZenonT(40) DEF CoreFacts, Others
<1>2. (pc'[Wd] \notin Sending => lc'[Wd] = NoClient) /\ (pc'[Wd] \in Expiring => ls'[Wd] \in Sess)
  BY <1>0, Zenon DEF CoreFacts, Others
<1>3. \A s \in Sess : sess'[s] = "none" => source'[s] = NoClient
  BY <1>0, ZenonT(40) DEF CoreFacts
<1>4. CASE q = Req
  <2>1. \A s \in Sess : sess'[s] = "live" => source'[s] # NoClient
    BY <1>0, <1>4, Zenon DEF CoreFacts
  <2> QED
    BY <1>1, <1>2, <1>3, <1>4, <2>1, Zenon DEF CoreFacts
<1>5. CASE q # Req
  <2>1. pc'[Req] = pc[Req] /\ ls'[Req] = ls[Req]
    BY <1>0, <1>5, Zenon DEF Others
  <2>2. \A s \in Sess : sess'[s] = "live" => source'[s] # NoClient \/ (pc'[Req] = "created" /\ ls'[Req] = s)
    BY <1>0, <2>1, Zenon DEF CoreFacts
  <2>3. pc'[Req] = "created" => ls'[Req] \in Sess /\ source'[ls'[Req]] = NoClient /\ sess'[ls'[Req]] # "none"
    BY <1>0, <2>1, ZenonT(40) DEF CoreFacts
  <2> QED
    BY <1>1, <1>2, <1>3, <2>2, <2>3, Zenon DEF CoreFacts
<1> QED
  BY <1>4, <1>5, Zenon

\* So does janus_pfunix_send_message.
LEMMA SendCore == ASSUME PfInv, NEW q \in Callers, Send(q) PROVE CoreFacts'
<1>1. TypeOK /\ CoreFacts /\ q \in Threads
  BY ThreadFacts, Zenon DEF PfInv
<1>2. /\ Others(q) /\ lc'[q] = lc[q] /\ pc[q] \in {"send", "push", "wake"} /\ pc'[q] \in {"push", "wake", "sent"}
      /\ UNCHANGED <<inbox, requests, sess, source, ls>>
  BY <1>1, SendMoves, Zenon
<1>3. q = Wd => pc'[Wd] \in Sending /\ (pc'[Wd] \in Expiring => ls'[Wd] \in Sess)
  BY <1>1, <1>2, Zenon DEF CoreFacts, Sending, Expiring
<1>4. inbox' \cap requests' = {}
  BY <1>1, <1>2, Zenon DEF CoreFacts
<1> QED
  BY <1>2, <1>3, <1>4, CallerCore, Zenon

\* So does the end of a call of it.
LEMMA SendDoneCore == ASSUME PfInv, NEW q \in {Req, Ev}, SendDone(q) PROVE CoreFacts'
<1>1. TypeOK /\ CoreFacts /\ q \in Threads /\ q \in Callers /\ q # Wd
  BY ThreadFacts, Zenon DEF PfInv
<1>2. /\ Others(q) /\ lc'[q] = NoClient /\ pc[q] = "sent" /\ pc'[q] = "idle"
      /\ UNCHANGED <<inbox, requests, sess, source, ls>>
  BY <1>1, SendDoneMoves, Zenon
<1>3. inbox' \cap requests' = {}
  BY <1>1, <1>2, Zenon DEF CoreFacts
<1> QED
  BY <1>1, <1>2, <1>3, CallerCore, Zenon

\* So does the requests thread.
LEMMA ReqCore == ASSUME PfInv, ReqThread PROVE CoreFacts'
<1>0. /\ TypeOK /\ CoreFacts /\ Req \in Callers /\ Req \in Threads /\ Req # Wd /\ Wd \in Threads
      /\ sess \in [Sess -> {"none", "live", "over"}] /\ source \in [Sess -> Clients \cup {NoClient}]
      /\ NoClient \notin Clients
  BY ThreadFacts, NamesAssumption, ZenonT(40) DEF PfInv, TypeOK
<1>1. Others(Req) /\ UNCHANGED inbox
  BY <1>0, ReqMoves, Zenon
<1>2. ASSUME NEW c \in Clients, ReqPop(c) PROVE CoreFacts'
  <2>1. /\ pc[Req] = "idle" /\ pc'[Req] = "serve" /\ requests' = requests \ {c} /\ UNCHANGED <<sess, source>>
    BY <1>0, <1>2, ThreadFunctions, Zenon DEF ReqPop, Goto, sessVars
  <2>2. inbox' \cap requests' = {}
    BY <1>0, <1>1, <2>1, Zenon DEF CoreFacts
  <2> QED
    BY <1>0, <1>1, <2>1, <2>2, CallerCore, Zenon
<1>3. CASE ReqOther \/ \E s \in Sess : ReqDestroy(s)
  <2>1. /\ pc[Req] = "serve" /\ pc'[Req] = "send" /\ UNCHANGED <<requests, source>>
    BY <1>0, <1>3, ThreadFunctions, Zenon DEF ReqOther, ReqDestroy, Goto, sessVars
  <2>2. \A s \in Sess : (sess'[s] = "none" => sess[s] = "none") /\ (sess'[s] = "live" => sess[s] = "live")
    BY <1>0, <1>3, ZenonT(40) DEF ReqOther, ReqDestroy, sessVars
  <2>3. inbox' \cap requests' = {}
    BY <1>0, <1>1, <2>1, Zenon DEF CoreFacts
  <2> QED
    BY <1>0, <1>1, <2>1, <2>2, <2>3, CallerCore, Zenon
<1>4. /\ \A p \in Callers \ {Req} : pc'[p] = "idle" => lc'[p] = NoClient
      /\ pc'[Wd] \notin Sending => lc'[Wd] = NoClient
      /\ pc'[Wd] \in Expiring => ls'[Wd] \in Sess
  <2>1. \A p \in Callers \ {Req} : pc'[p] = pc[p] /\ lc'[p] = lc[p]
    BY <1>1, ThreadFacts, Zenon DEF Others
  <2>2. pc'[Wd] = pc[Wd] /\ lc'[Wd] = lc[Wd] /\ ls'[Wd] = ls[Wd]
    BY <1>0, <1>1, Zenon DEF Others
  <2>3. \A p \in Callers \ {Req} : pc'[p] = "idle" => lc'[p] = NoClient
    BY <1>0, <2>1, ZenonT(40) DEF CoreFacts
  <2> QED
    BY <1>0, <2>2, <2>3, Zenon DEF CoreFacts
<1>5. ASSUME NEW x \in Sess, ReqCreate(x) PROVE CoreFacts'
  <2>1. /\ pc[Req] = "serve" /\ pc'[Req] = "created" /\ ls'[Req] = x /\ sess[x] = "none"
        /\ sess' = [sess EXCEPT ![x] = "live"] /\ UNCHANGED <<requests, source>>
    BY <1>0, <1>5, ThreadFunctions, Zenon DEF ReqCreate, Goto
  <2>2. sess'[x] = "live" /\ \A s \in Sess \ {x} : sess'[s] = sess[s]
    BY <1>0, <2>1, Zenon
  <2>3. \A s \in Sess : sess'[s] = "none" => source'[s] = NoClient
    BY <1>0, <2>1, <2>2, Zenon DEF CoreFacts
  <2>4. \A s \in Sess : sess'[s] = "live" => source'[s] # NoClient \/ (pc'[Req] = "created" /\ ls'[Req] = s)
    BY <1>0, <2>1, <2>2, ZenonT(40) DEF CoreFacts
  <2>5. pc'[Req] = "created" => ls'[Req] \in Sess /\ source'[ls'[Req]] = NoClient /\ sess'[ls'[Req]] # "none"
    BY <1>0, <2>1, <2>2, ZenonT(40) DEF CoreFacts
  <2>6. inbox' \cap requests' = {} /\ \A p \in Callers : pc'[p] = "idle" => lc'[p] = NoClient
    BY <1>0, <1>1, <1>4, <2>1, Zenon DEF CoreFacts
  <2> QED
    BY <1>4, <2>3, <2>4, <2>5, <2>6, ZenonT(40) DEF CoreFacts
<1>6. ASSUME NEW x \in Sess, NEW c \in Clients, sess[x] # "none", source' = [source EXCEPT ![x] = c],
             pc[Req] = "created" => ls[Req] = x, pc'[Req] = "send", UNCHANGED <<requests, sess>>
      PROVE  CoreFacts'
  <2>1. source'[x] = c /\ \A s \in Sess \ {x} : source'[s] = source[s]
    BY <1>0, <1>6, Zenon
  <2>2. \A s \in Sess : sess'[s] = "none" => source'[s] = NoClient
    BY <1>0, <1>6, <2>1, ZenonT(40) DEF CoreFacts
  <2>3. \A s \in Sess : sess'[s] = "live" => source'[s] # NoClient
    BY <1>0, <1>6, <2>1, ZenonT(40) DEF CoreFacts
  <2>4. inbox' \cap requests' = {} /\ \A p \in Callers : pc'[p] = "idle" => lc'[p] = NoClient
    BY <1>0, <1>1, <1>4, <1>6, Zenon DEF CoreFacts
  <2> QED
    BY <1>4, <1>6, <2>2, <2>3, <2>4, Zenon DEF CoreFacts
<1>7. CASE ReqSource
  <2>1. PICK s \in Sess, c \in Clients : s = ls[Req] /\ c = lc[Req] /\ sess[s] # "none"
    BY <1>7, ThreadFacts, ZenonT(40) DEF PfInv, TypeOK, CoreFacts, ReqSource
  <2>2. source' = [source EXCEPT ![s] = c] /\ pc'[Req] = "send" /\ UNCHANGED <<requests, sess>>
    BY <1>0, <1>7, <2>1, ThreadFunctions, Zenon DEF ReqSource, Goto
  <2> QED
    BY <1>6, <2>1, <2>2, Zenon
<1>8. ASSUME NEW s \in Sess, ReqClaim(s) PROVE CoreFacts'
  <2>1. pc[Req] = "serve" /\ sess[s] # "none"
    BY <1>8, Zenon DEF ReqClaim
  <2>2. PICK c \in Clients : c = lc[Req]
    BY <2>1, ThreadFacts, Zenon DEF PfInv, TypeOK
  <2>3. source' = [source EXCEPT ![s] = c] /\ pc'[Req] = "send" /\ UNCHANGED <<requests, sess>>
    BY <1>0, <1>8, <2>2, ThreadFunctions, Zenon DEF ReqClaim, Goto
  <2> QED
    BY <1>6, <2>1, <2>2, <2>3, Zenon
<1> QED
  BY <1>0, <1>2, <1>3, <1>5, <1>7, <1>8, SendCore, SendDoneCore, Zenon DEF ReqThread

\* So does a plugin's thread.
LEMMA EvCore == ASSUME PfInv, EvThread PROVE CoreFacts'
<1>0. TypeOK /\ CoreFacts /\ Ev \in Callers /\ Ev \in Threads /\ Ev # Wd /\ Ev # Req
  BY ThreadFacts, Zenon DEF PfInv
<1>1. Others(Ev) /\ UNCHANGED <<inbox, requests, sess, source>>
  BY <1>0, EvMoves, Zenon
<1>2. inbox' \cap requests' = {}
  BY <1>0, <1>1, Zenon DEF CoreFacts
<1>3. ASSUME NEW s \in Sess, EvNotify(s) PROVE CoreFacts'
  <2>1. pc'[Ev] = "send"
    BY <1>0, <1>3, ThreadFunctions, Zenon DEF EvNotify, Goto
  <2> QED
    BY <1>0, <1>1, <1>2, <2>1, CallerCore, Zenon
<1> QED
  BY <1>0, <1>3, SendCore, SendDoneCore, Zenon DEF EvThread

\* So does the watchdog.
LEMMA WdCore == ASSUME PfInv, WdThread PROVE CoreFacts'
<1>0. /\ TypeOK /\ CoreFacts /\ Wd \in Callers /\ Wd \in Threads /\ Wd # Req
      /\ sess \in [Sess -> {"none", "live", "over"}]
  BY ThreadFacts, ZenonT(40) DEF PfInv, TypeOK
<1>1. Others(Wd) /\ UNCHANGED <<inbox, requests, source>>
  BY <1>0, WdMoves, Zenon
<1>2. inbox' \cap requests' = {}
  BY <1>0, <1>1, Zenon DEF CoreFacts
<1>3. ASSUME pc'[Wd] = "idle" => lc'[Wd] = NoClient, pc'[Wd] \notin Sending => lc'[Wd] = NoClient,
             pc'[Wd] \in Expiring => ls'[Wd] \in Sess,
             \A s \in Sess : sess'[s] = "none" => sess[s] = "none",
             \A s \in Sess : sess'[s] = "live" => sess[s] = "live"
      PROVE  CoreFacts'
  BY <1>0, <1>1, <1>2, <1>3, CallerCore, Zenon
<1>4. CASE WdStart \/ WdEnd
  <2>1. pc'[Wd] \notin Expiring /\ pc[Wd] \notin Sending /\ UNCHANGED <<sess, lc>>
    BY <1>0, <1>4, ThreadFunctions, Zenon DEF WdStart, WdEnd, Goto, sessVars, Expiring, Sending
  <2>2. lc'[Wd] = NoClient
    BY <1>0, <2>1, Zenon DEF CoreFacts
  <2> QED
    BY <1>3, <2>1, <2>2, Zenon
<1>5. ASSUME NEW s \in Sess, WdExpired(s) PROVE CoreFacts'
  <2>1. ls'[Wd] = s /\ pc[Wd] \notin Sending /\ UNCHANGED <<sess, lc>>
    BY <1>0, <1>5, ThreadFunctions, Zenon DEF WdExpired, sessVars, Sending
  <2>2. lc'[Wd] = NoClient
    BY <1>0, <2>1, Zenon DEF CoreFacts
  <2> QED
    BY <1>3, <2>1, <2>2, Zenon
<1>6. CASE WdNotify
  <2>1. pc[Wd] = "expired" /\ lc[Wd] = NoClient /\ ls'[Wd] = ls[Wd] /\ ls[Wd] \in Sess /\ UNCHANGED sess
    BY <1>0, <1>6, Zenon DEF WdNotify, CoreFacts, Sending, Expiring, sessVars
  <2>2. CASE source[ls[Wd]] = NoClient
    BY <1>3, <1>6, <2>1, <2>2, Zenon DEF WdNotify
  <2>3. CASE source[ls[Wd]] # NoClient
    <3>1. pc'[Wd] = "send"
      BY <1>0, <1>6, <2>3, ThreadFunctions, Zenon DEF WdNotify, Goto
    <3> QED
      BY <1>3, <2>1, <3>1, Zenon DEF Sending
  <2> QED
    BY <2>2, <2>3, Zenon
<1>7. CASE WdOver
  <2>1. pc[Wd] = "sent" /\ lc'[Wd] = NoClient /\ ls'[Wd] = ls[Wd] /\ UNCHANGED sess
    BY <1>0, <1>7, ThreadFunctions, Zenon DEF WdOver, sessVars
  <2>2. ls[Wd] \in Sess
    BY <1>0, <2>1, Zenon DEF CoreFacts, Expiring
  <2> QED
    BY <1>3, <2>1, <2>2, Zenon
<1>8. CASE WdRemove
  <2>1. /\ pc[Wd] = "remove" /\ pc'[Wd] = "check" /\ UNCHANGED lc
    BY <1>0, <1>8, ThreadFunctions, Zenon DEF WdRemove, Goto
  <2>2. PICK s \in Sess : s = ls[Wd]
    BY <1>0, <2>1, ZenonT(40) DEF CoreFacts, Expiring
  <2>3. sess' = [sess EXCEPT ![s] = "over"]
    BY <1>8, <2>2, Zenon DEF WdRemove
  <2>5. \A x \in Sess : (sess'[x] = "none" => sess[x] = "none") /\ (sess'[x] = "live" => sess[x] = "live")
    BY <1>0, <2>3, Zenon
  <2>6. lc'[Wd] = NoClient /\ pc'[Wd] \notin Expiring
    BY <1>0, <2>1, Zenon DEF CoreFacts, Sending, Expiring
  <2> QED
    BY <1>3, <2>5, <2>6, Zenon
<1> QED
  BY <1>0, <1>4, <1>5, <1>6, <1>7, <1>8, SendCore, Zenon DEF WdThread

\* Every step keeps what is known of the core's threads.
LEMMA CoreStep == ASSUME PfInv, [Next]_vars PROVE CoreFacts'
BY OutsideCore, PfCore, ReqCore, EvCore, WdCore, Zenon DEF Next

-----------------------------------------------------------------------------
(* The theorems. *)

\* The invariant holds initially.
LEMMA PfInit == ASSUME Init PROVE PfInv
<1>1. TypeOK
  BY TypeInit, Zenon
<1>2. /\ \A p \in Callers : pc[p] = "idle" /\ lc[p] = NoClient
      /\ \A s \in Sess : sess[s] = "none" /\ source[s] = NoClient
      /\ pc[Pf] = "loop" /\ Req \in Callers /\ Wd \in Callers /\ NoClient \notin Clients
      /\ \A c \in Clients : peer[c] = "absent" /\ fd[c] = "none" /\ tsref[c] = 0
  BY ThreadFacts, NamesAssumption, Zenon DEF Init
<1>3. RefsFacts
  <2> SUFFICES ASSUME NEW c \in Clients PROVE Refs(c)
    BY Zenon DEF RefsFacts
  <2>1. Sources(c) = {} /\ Users(c) = {}
    BY <1>2, ZenonT(40) DEF Sources, Users
  <2>2. c \notin requests /\ c \notin clients /\ tsref[c] = 0
    BY <1>2, Zenon DEF Init
  <2>3. Cardinality(Sources(c)) = 0 /\ Cardinality(Users(c)) = 0
    BY <2>1, FS_EmptySet, Zenon
  <2>4. One(c \in requests) = 0 /\ One(c \in clients) = 0
    BY <2>2, Zenon DEF One
  <2>5. Count(c) = 0
    BY <2>3, <2>4, CountParts
  <2> QED
    BY <2>2, <2>5 DEF Refs
<1>4. NewFacts /\ FdFacts
  <2>1. requests = {} /\ freed = {} /\ clients = {}
    BY Zenon DEF Init
  <2>2. NewFacts
    BY <1>2, <2>1, ZenonT(40) DEF NewFacts
  <2>3. FdFacts
    BY <1>2, Zenon DEF FdFacts
  <2> QED
    BY <2>2, <2>3
<1>5. PollFacts
  BY <1>2, Zenon DEF PollFacts, Init
<1>6. CoreFacts
  BY <1>2, ZenonT(40) DEF CoreFacts, Expiring, Init
<1>7. TimeoutFacts /\ TablesSound /\ NoLostWakeup
  BY <1>2, ZenonT(40) DEF TimeoutFacts, TablesSound, NoLostWakeup, Init
<1> QED
  BY <1>1, <1>3, <1>4, <1>5, <1>6, <1>7, Zenon DEF PfInv

\* Every step keeps the invariant.
LEMMA PfStep == ASSUME PfInv, [Next]_vars PROVE PfInv'
<1>1. RefsFacts' /\ NewFacts' /\ FdFacts' /\ PollFacts' /\ CoreFacts' /\ TimeoutFacts' /\ NoLostWakeup' /\ TypeOK'
  BY RefsStep, NewStep, FdStep, PollStep, CoreStep, TimeoutStep, WakeStep, TypeStep, Zenon
<1>2. TablesSound'
  BY <1>1, TablesStep, Zenon
<1> QED
  BY <1>1, <1>2, Zenon DEF PfInv

\* The invariant always holds.
LEMMA PfAlways == Spec => []PfInv
<1>1. Init => PfInv
  BY PfInit, Zenon
<1>2. PfInv /\ [Next]_vars => PfInv'
  BY PfStep, ZenonT(40)
<1> QED
  BY <1>1, <1>2, PTL DEF Spec

\* Every variable keeps its type, and a thread that calls janus_pfunix_send_message
\* has the client it sends to.
THEOREM TypesCorrect == Spec => []TypeOK
<1>1. PfInv => TypeOK
  BY Zenon DEF PfInv
<1> QED
  BY <1>1, PfAlways, PTL

\* What refers to a client, the table apart.
LEMMA HoldersCount == ASSUME NEW c \in Clients PROVE Count(c) = Holders(c) + One(c \in clients)
BY Zenon DEF Count

\* The counter of an instance is never below what refers to it: what janus_refcount_increase
\* and janus_refcount_decrease do for the table of clients, the queue of requests, the
\* sources of sessions and the senders never adds up to a reference nobody counted, not
\* even when a session that times out has its client freed by the thread.
THEOREM RefsEnough == Spec => []InstanceRefsEnough
<1>1. PfInv => InstanceRefsEnough
  BY HoldersCount, Zenon DEF PfInv, RefsFacts, Refs, InstanceRefsEnough
<1> QED
  BY <1>1, PfAlways, PTL

\* What janus_pfunix_thread finds in the tables is allocated and has its descriptor.
THEOREM TablesCorrect == Spec => []TablesSound
<1>1. PfInv => TablesSound
  BY Zenon DEF PfInv
<1> QED
  BY <1>1, PfAlways, PTL

\* janus_pfunix_send_message writes to the socket pair after it queues a message, and
\* the thread empties the pair before it looks at the queues: whatever the order of their
\* steps, the thread does not sleep in poll on a message nobody will tell it of.
THEOREM WakeupsKept == Spec => []NoLostWakeup
<1>1. PfInv => NoLostWakeup
  BY Zenon DEF PfInv
<1> QED
  BY <1>1, PfAlways, PTL

\* With session_timeout and reclaim_session_timeout both off, the counter of an instance
\* is exactly what refers to it.
THEOREM RefsExact == ASSUME ~SessionTimeout, ~Reclaim PROVE Spec => []InstanceRefsExact
<1>1. ASSUME PfInv PROVE InstanceRefsExact
  <2>1. \A c \in Clients : c \notin session_timeout /\ Refs(c)
    BY <1>1, Zenon DEF PfInv, RefsFacts, TimeoutFacts
  <2> QED
    BY <2>1, HoldersCount, Zenon DEF Refs, InstanceRefsExact
<1> QED
  BY <1>1, PfAlways, PTL

\* ... and janus_pfunix_send_message, which uses its client after it unlocks clients_mutex,
\* uses one that is still there: its caller's reference is one of those counted.
THEOREM SendsSafe == ASSUME ~SessionTimeout, ~Reclaim PROVE Spec => []SendsToValid
<1>1. ASSUME PfInv PROVE SendsToValid
  <2> SUFFICES ASSUME NEW p \in Callers, pc[p] = "push" PROVE lc[p] \notin freed
    BY Zenon DEF SendsToValid
  <2>1. PICK c \in Clients : c = lc[p]
    BY <1>1, ZenonT(40) DEF PfInv, TypeOK
  <2>2. Count(c) > 0
    BY <2>1, UserCounts, Zenon
  <2>3. c \notin session_timeout /\ Refs(c) /\ Count(c) \in Nat
    BY <1>1, CountParts, Zenon DEF PfInv, RefsFacts, TimeoutFacts
  <2>4. tsref[c] = Count(c) /\ (c \in freed => tsref[c] = 0)
    BY <2>3, Zenon DEF Refs
  <2>5. c \notin freed
    BY <2>2, <2>3, <2>4, SMTT(40)
  <2> QED
    BY <2>1, <2>5, Zenon
<1> QED
  BY <1>1, PfAlways, PTL
=============================================================================
