---------------------------- MODULE SessionsTable ----------------------------
(* The types, and the part of the invariant about the table of sessions: every *)
(* step keeps them.                                                            *)
EXTENDS SessionsCounters

-----------------------------------------------------------------------------
(* Types *)

\* Dropping references leaves numbers in the counters.
LEMMA UnrefTypes ==
    ASSUME CountLaws, RefTypes, NEW hdec \in [Hnds -> Int], NEW sdec \in [Sess -> Int],
           Unref(hdec, sdec)
    PROVE  RefTypes'
<1> DEFINE dead == {h \in Hnds : href[h] > 0 /\ href[h] - hdec[h] = 0}
<1>1. \A s \in Sess : Cardinality({h \in dead : hsess[h] = s}) \in Nat
  BY HandlesFinite, Zenon
<1>2. href' \in [Hnds -> Int]
  BY SMTT(40) DEF RefTypes, Unref
<1>3. sref' = [s \in Sess |-> sref[s] - sdec[s] - Cardinality({h \in dead : hsess[h] = s})]
  BY Zenon DEF Unref
<1> HIDE DEF dead
<1>4. sref' \in [Sess -> Int]
  BY <1>1, <1>3 DEF RefTypes
<1> QED
  BY <1>2, <1>4, ZenonT(40) DEF RefTypes

\* Destroying handles keeps the types of handles and counters.
LEMMA HandlesDestroyTypes ==
    ASSUME CountLaws, HandleTypes, RefTypes, NEW H \in SUBSET Hnds,
           NEW hdec \in [Hnds -> Int], NEW sdec \in [Sess -> Int],
           HandlesDestroy(H, hdec, sdec)
    PROVE  HandleTypes' /\ RefTypes'
<1> DEFINE dec == [h \in Hnds |-> hdec[h] + One(h \in H \cap listed) + One(h \in Detaching(H))]
<1>1. dec \in [Hnds -> Int]
  BY DEF One
<1>2. Unref(dec, sdec)
  BY Zenon DEF HandlesDestroy
<1>3. RefTypes'
  BY <1>1, <1>2, UnrefTypes, Zenon
<1>4. HandleTypes'
  BY SMTT(40) DEF HandlesDestroy, HandleTypes, Detaching, One
<1> QED
  BY <1>3, <1>4, Zenon

\* The initial states have the types.
LEMMA TypeInit == Init => TypeOK
<1> SUFFICES ASSUME Init PROVE TypeOK
  BY Zenon
<1> USE SizesAssumption DEF Init, NoneS, NoneH
<1>1. 0 \in 0 .. MaxIdle
  BY DEF MaxIdle
<1>2. TableTypes
  BY <1>1, Zenon DEF TableTypes
<1>3. HandleTypes
  BY SMTT(40) DEF HandleTypes
<1>4. RefTypes
  BY DEF RefTypes
<1>5. ThreadTypes
  BY ThreadFacts, Zenon DEF ThreadTypes, LocalTypes, Labels, WorkerLabels, WdLabels, TransportLabels
<1> QED
  BY <1>2, <1>3, <1>4, <1>5, Zenon DEF TypeOK

\* A group of variables that does not change keeps its type.
LEMMA TableSame == ASSUME TableTypes, UNCHANGED <<tableVars, gone>> PROVE TableTypes'
BY Zenon DEF TableTypes, tableVars

\* So do those of handles,
LEMMA HandleSame == ASSUME HandleTypes, UNCHANGED handleVars PROVE HandleTypes'
BY Zenon DEF HandleTypes, handleVars

\* of counters,
LEMMA RefSame == ASSUME RefTypes, UNCHANGED refVars PROVE RefTypes'
BY Zenon DEF RefTypes, refVars

\* and of threads.
LEMMA ThreadSame == ASSUME ThreadTypes, UNCHANGED threadVars PROVE ThreadTypes'
BY Zenon DEF ThreadTypes, threadVars

\* A step of one thread keeps the types of the threads if it does for this one.
LEMMA ThreadStep ==
    ASSUME ThreadTypes, NEW p \in Threads,
           sessions_mutex' \in Transports \cup {Wd, NoTransport},
           todo' \subseteq Sess,
           pc' \in [Threads -> Labels],
           lsess' \in [Threads -> Sess \cup {NoSess}],
           lhnd' \in [Threads -> Hnds \cup {NoHnd}],
           from' \in [Threads -> Transports \cup {NoTransport}],
           \A q \in Threads \ {p} : /\ pc'[q] = pc[q] /\ lsess'[q] = lsess[q]
                                     /\ lhnd'[q] = lhnd[q] /\ from'[q] = from[q],
           LocalTypes(p, pc'[p], lsess'[p], lhnd'[p], from'[p])
    PROVE  ThreadTypes'
<1>1. ASSUME NEW q \in Threads
      PROVE  LocalTypes(q, pc'[q], lsess'[q], lhnd'[q], from'[q])
  BY Zenon DEF ThreadTypes
<1> QED
  BY <1>1, Zenon DEF ThreadTypes, LocalTypes

\* The requests thread keeps the types.
LEMMA RequestsTypes == ASSUME CountLaws, TypeOK, RequestsThread PROVE TypeOK'
<1>t. TableTypes /\ HandleTypes /\ RefTypes /\ ThreadTypes
  BY Zenon DEF TypeOK
<1>n. /\ MaxIdle \in Nat /\ 0 \in 0 .. MaxIdle
      /\ NoneH \in [Hnds -> Int] /\ NoneS \in [Sess -> Int]
      /\ \A h : OneH(h) \in [Hnds -> Int]
      /\ \A s : OneS(s) \in [Sess -> Int]
      /\ \A s : HandlesOf(s) \in SUBSET Hnds
  BY CounterFacts, Zenon
<1>l. /\ sessions_mutex \in Transports \cup {Wd, NoTransport} /\ todo \subseteq Sess
      /\ pc \in [Threads -> Labels]
      /\ lsess \in [Threads -> Sess \cup {NoSess}]
      /\ lhnd \in [Threads -> Hnds \cup {NoHnd}]
      /\ from \in [Threads -> Transports \cup {NoTransport}]
  BY LocalFacts, Zenon
<1>x. /\ Req \in Workers /\ Req \in Threads /\ Req # Wd /\ Req \notin Transports
      /\ pc[Req] # "idle" => lsess[Req] \in Sess /\ from[Req] \in Transports
      /\ pc[Req] \in {"attach_plugin", "attach_loop", "detach"} => lhnd[Req] \in Hnds
  BY LocalFacts, ThreadFacts, Zenon
<1>1. ASSUME NEW i \in Ids, NEW t \in Transports, CreateConflict(i, t) PROVE TypeOK'
  <2>1. RefTypes'
    BY <1>t, <1>1, SMTT(40) DEF CreateConflict, RefTypes, refVars, TableTypes
  <2>2. ThreadTypes'
    BY <1>t, <1>l, <1>x, <1>1, ThreadStep, ZenonT(40) DEF CreateConflict, LocalTypes, Goto, Labels,
       WorkerLabels, Receive, TableTypes
  <2> QED
    BY <2>1, <2>2, <1>t, <1>1, TableSame, HandleSame, Zenon DEF TypeOK, CreateConflict,
       tableVars, handleVars
<1>2. ASSUME NEW i \in Ids, NEW s \in Sess, NEW t \in Transports, CreateSession(i, s, t) PROVE TypeOK'
  <2>1. TableTypes'
    BY <1>t, <1>2, <1>n, <1>x, Zenon DEF CreateSession, TableTypes, tableVars
  <2>2. RefTypes'
    BY <1>t, <1>2, SMTT(40) DEF CreateSession, RefTypes, refVars
  <2>3. ThreadTypes'
    BY <1>t, <1>l, <1>x, <1>2, ThreadStep, ZenonT(40) DEF CreateSession, LocalTypes, Goto, Labels,
       WorkerLabels, Receive
  <2> QED
    BY <2>1, <2>2, <2>3, <1>t, <1>2, HandleSame, Zenon DEF TypeOK, CreateSession, handleVars
<1>3. ASSUME CreateSource PROVE TypeOK'
  <2>1. TableTypes'
    BY <1>t, <1>3, <1>x, Zenon DEF CreateSource, TableTypes, tableVars
  <2>2. RefTypes'
    <3>1. sref' = [sref EXCEPT ![lsess[Req]] = @ + 1] /\ href' = href
      BY <1>3, Zenon DEF CreateSource
    <3>2. lsess[Req] \in Sess
      BY <1>x, <1>3, Zenon DEF CreateSource
    <3> QED
      BY <1>t, <3>1, <3>2, SMTT(40) DEF RefTypes
  <2>3. ThreadTypes'
    BY <1>t, <1>l, <1>x, <1>3, ThreadStep, Zenon DEF CreateSource, LocalTypes, Goto, Labels,
       WorkerLabels
  <2> QED
    BY <2>1, <2>2, <2>3, <1>t, <1>3, HandleSame, Zenon DEF TypeOK, CreateSource, handleVars
<1>4. ASSUME Claim PROVE TypeOK'
  <2>1. TableTypes'
    BY <1>t, <1>4, <1>x, Zenon DEF Claim, TableTypes, tableVars
  <2>2. ThreadTypes'
    BY <1>t, <1>l, <1>x, <1>4, ThreadStep, Zenon DEF Claim, LocalTypes, Goto, Labels,
       WorkerLabels
  <2> QED
    BY <2>1, <2>2, <1>t, <1>4, HandleSame, RefSame, Zenon DEF TypeOK, Claim, handleVars,
       refVars
<1>5. ASSUME NEW op, NEW admin \in BOOLEAN, SessionRequest(op, admin) PROVE TypeOK'
  <2>1. TableTypes'
    BY <1>t, <1>5, <1>n, <1>x, Zenon DEF SessionRequest, TableTypes, tableVars
  <2>2. ThreadTypes'
    BY <1>t, <1>l, <1>x, <1>5, ThreadStep, ZenonT(40) DEF SessionRequest, LocalTypes, Goto, Labels,
       WorkerLabels
  <2> QED
    BY <2>1, <2>2, <1>t, <1>5, HandleSame, RefSame, Zenon DEF TypeOK, SessionRequest,
       handleVars, refVars
<1>6. ASSUME NEW h \in Hnds, AttachCreate(h) PROVE TypeOK'
  <2>1. HandleTypes'
    BY <1>t, <1>6, <1>x, Zenon DEF AttachCreate, HandleTypes, handleVars
  <2>2. RefTypes'
    BY <1>t, <1>6, <1>x, SMTT(40) DEF AttachCreate, RefTypes, refVars
  <2>3. ThreadTypes'
    BY <1>t, <1>l, <1>x, <1>6, ThreadStep, ZenonT(40) DEF AttachCreate, LocalTypes, Goto, Labels,
       WorkerLabels
  <2> QED
    BY <2>1, <2>2, <2>3, <1>t, <1>6, TableSame, Zenon DEF TypeOK, AttachCreate, tableVars
<1>7. ASSUME AttachNone PROVE TypeOK'
  <2>1. ThreadTypes'
    BY <1>t, <1>l, <1>x, <1>7, ThreadStep, Zenon DEF AttachNone, LocalTypes, Goto, Labels,
       WorkerLabels
  <2> QED
    BY <2>1, <1>t, <1>7, TableSame, HandleSame, RefSame, Zenon DEF TypeOK, AttachNone,
       tableVars, handleVars, refVars
<1>8. ASSUME AttachPlugin PROVE TypeOK'
  <2>1. HandleTypes'
    BY <1>t, <1>8, <1>x, SMTT(40) DEF AttachPlugin, HandleTypes, handleVars
  <2>2. RefTypes'
    BY <1>t, <1>8, <1>x, SMTT(40) DEF AttachPlugin, RefTypes, refVars
  <2>3. ThreadTypes'
    BY <1>t, <1>l, <1>x, <1>8, ThreadStep, ZenonT(40) DEF AttachPlugin, LocalTypes, Goto, Labels,
       WorkerLabels
  <2> QED
    BY <2>1, <2>2, <2>3, <1>t, <1>8, TableSame, Zenon DEF TypeOK, AttachPlugin, tableVars
<1>9. ASSUME AttachPluginError PROVE TypeOK'
  <2>1. HandleTypes' /\ RefTypes'
    BY <1>t, <1>n, <1>x, <1>9, HandlesDestroyTypes, Zenon DEF AttachPluginError
  <2>2. ThreadTypes'
    BY <1>t, <1>l, <1>x, <1>9, ThreadStep, Zenon DEF AttachPluginError, LocalTypes, Goto,
       Labels, WorkerLabels
  <2> QED
    BY <2>1, <2>2, <1>t, <1>9, TableSame, Zenon DEF TypeOK, AttachPluginError, tableVars
<1>10. ASSUME AttachLoop PROVE TypeOK'
  <2>1. HandleTypes'
    BY <1>t, <1>10, <1>x, Zenon DEF AttachLoop, HandleTypes, handleVars
  <2>2. RefTypes'
    BY <1>t, <1>10, <1>x, SMTT(40) DEF AttachLoop, RefTypes, refVars
  <2>3. ThreadTypes'
    BY <1>t, <1>l, <1>x, <1>10, ThreadStep, Zenon DEF AttachLoop, LocalTypes, Goto, Labels,
       WorkerLabels
  <2> QED
    BY <2>1, <2>2, <2>3, <1>t, <1>10, TableSame, Zenon DEF TypeOK, AttachLoop, tableVars
<1>11. ASSUME AttachLoopError PROVE TypeOK'
  <2>1. HandleTypes'
    BY <1>t, <1>11, <1>x, SMTT(40) DEF AttachLoopError, HandleTypes, handleVars, One
  <2>2. RefTypes'
    BY <1>t, <1>11, <1>x, SMTT(40) DEF AttachLoopError, RefTypes, refVars, One
  <2>3. ThreadTypes'
    BY <1>t, <1>l, <1>x, <1>11, ThreadStep, Zenon DEF AttachLoopError, LocalTypes, Goto,
       Labels, WorkerLabels
  <2> QED
    BY <2>1, <2>2, <2>3, <1>t, <1>11, TableSame, Zenon DEF TypeOK, AttachLoopError, tableVars
<1>12. ASSUME DestroyRemove PROVE TypeOK'
  <2>1. TableTypes'
    BY <1>t, <1>12, <1>x, NullsAssumption, Zenon DEF DestroyRemove, TableTypes, tableVars
  <2>2. ThreadTypes'
    BY <1>t, <1>l, <1>x, <1>12, ThreadStep, Zenon DEF DestroyRemove, LocalTypes, Goto, Labels,
       WorkerLabels
  <2> QED
    BY <2>1, <2>2, <1>t, <1>12, HandleSame, RefSame, Zenon DEF TypeOK, DestroyRemove,
       handleVars, refVars
<1>13. ASSUME DestroyMark PROVE TypeOK'
  <2>1. TableTypes'
    BY <1>t, <1>13, <1>x, Zenon DEF DestroyMark, TableTypes, tableVars, MarkDestroyed
  <2>2. ThreadTypes'
    BY <1>t, <1>l, <1>x, <1>13, ThreadStep, ZenonT(40) DEF DestroyMark, LocalTypes, Goto, Labels,
       WorkerLabels, MarkDestroyed
  <2> QED
    BY <2>1, <2>2, <1>t, <1>13, HandleSame, RefSame, Zenon DEF TypeOK, DestroyMark,
       MarkDestroyed, handleVars, refVars
<1>14. ASSUME DestroyHandles PROVE TypeOK'
  <2>1. HandleTypes' /\ RefTypes'
    BY <1>t, <1>n, <1>x, <1>14, HandlesDestroyTypes, Zenon DEF DestroyHandles, DestroyClear
  <2>2. ThreadTypes'
    BY <1>t, <1>l, <1>x, <1>14, ThreadStep, Zenon DEF DestroyHandles, LocalTypes, Goto, Labels,
       WorkerLabels, DestroyClear
  <2> QED
    BY <2>1, <2>2, <1>t, <1>14, TableSame, Zenon DEF TypeOK, DestroyHandles, DestroyClear,
       tableVars
<1>15. ASSUME Detach PROVE TypeOK'
  <2>1. HandleTypes' /\ RefTypes'
    <3>1. CASE app[lhnd[Req]] \in {"alive", "stopped"}
      BY <1>t, <1>n, <1>x, <1>15, <3>1, HandlesDestroyTypes, Zenon DEF Detach
    <3>2. CASE app[lhnd[Req]] \notin {"alive", "stopped"}
      BY <1>t, <1>15, <3>2, Zenon DEF Detach, HandleTypes, RefTypes, handleVars, refVars
    <3> QED
      BY <3>1, <3>2, Zenon
  <2>2. ThreadTypes'
    BY <1>t, <1>l, <1>x, <1>15, ThreadStep, Zenon DEF Detach, LocalTypes, Goto, Labels,
       WorkerLabels
  <2> QED
    BY <2>1, <2>2, <1>t, <1>15, TableSame, Zenon DEF TypeOK, Detach, tableVars
<1> QED
  BY <1>1, <1>2, <1>3, <1>4, <1>5, <1>6, <1>7, <1>8, <1>9, <1>10, <1>11, <1>12, <1>13,
     <1>14, <1>15, Zenon DEF RequestsThread

\* So does a thread that serves a request.
LEMMA WorkerTypes == ASSUME CountLaws, TypeOK, NEW p \in Workers, Worker(p) PROVE TypeOK'
<1>t. TableTypes /\ HandleTypes /\ RefTypes /\ ThreadTypes
  BY Zenon DEF TypeOK
<1>n. /\ MaxIdle \in Nat /\ 0 \in 0 .. MaxIdle
      /\ NoneH \in [Hnds -> Int] /\ NoneS \in [Sess -> Int]
      /\ \A h : OneH(h) \in [Hnds -> Int]
      /\ \A s : OneS(s) \in [Sess -> Int]
      /\ \A s : HandlesOf(s) \in SUBSET Hnds
  BY CounterFacts, Zenon
<1>l. /\ sessions_mutex \in Transports \cup {Wd, NoTransport} /\ todo \subseteq Sess
      /\ pc \in [Threads -> Labels]
      /\ lsess \in [Threads -> Sess \cup {NoSess}]
      /\ lhnd \in [Threads -> Hnds \cup {NoHnd}]
      /\ from \in [Threads -> Transports \cup {NoTransport}]
  BY LocalFacts, Zenon
<1>x. /\ p \in Threads /\ p # Wd /\ p \notin Transports
      /\ pc[p] # "idle" => lsess[p] \in Sess /\ from[p] \in Transports
      /\ pc[p] \in {"message", "deliver"} => lhnd[p] \in Hnds
  BY LocalFacts, ThreadFacts, Zenon
<1>1. ASSUME NEW i \in Ids, NEW t \in Transports, FindSession(p, i, t) PROVE TypeOK'
  <2>1. RefTypes'
    BY <1>t, <1>1, SMTT(40) DEF FindSession, RefTypes, refVars, TableTypes
  <2>2. ThreadTypes'
    BY <1>t, <1>l, <1>x, <1>1, ThreadStep, ZenonT(40) DEF FindSession, LocalTypes, Goto, Labels,
       WorkerLabels, Receive, TableTypes
  <2> QED
    BY <2>1, <2>2, <1>t, <1>1, TableSame, HandleSame, Zenon DEF TypeOK, FindSession, tableVars,
       handleVars
<1>2. ASSUME NEW op, NEW h \in Hnds, NEW admin \in BOOLEAN, HandleRequest(p, op, h, admin) PROVE TypeOK'
  <2>1. TableTypes'
    BY <1>t, <1>2, <1>n, <1>x, Zenon DEF HandleRequest, TableTypes, tableVars
  <2>2. RefTypes'
    <3>1. sref' = sref /\ href' = [href EXCEPT ![h] = @ + 1]
      BY <1>2, Zenon DEF HandleRequest
    <3>2. h \in Hnds
      BY <1>n, <1>2, Zenon DEF HandleRequest
    <3> QED
      BY <1>t, <3>1, <3>2, SMTT(40) DEF RefTypes
  <2>3. ThreadTypes'
    BY <1>t, <1>l, <1>x, <1>2, ThreadStep, ZenonT(40) DEF HandleRequest, LocalTypes, Goto, Labels,
       WorkerLabels
  <2> QED
    BY <2>1, <2>2, <2>3, <1>t, <1>2, HandleSame, Zenon DEF TypeOK, HandleRequest, handleVars
<1>3. ASSUME MissingHandle(p) PROVE TypeOK'
  <2>1. TableTypes'
    BY <1>t, <1>3, <1>n, <1>x, Zenon DEF MissingHandle, TableTypes, tableVars
  <2>2. ThreadTypes'
    BY <1>t, <1>l, <1>x, <1>3, ThreadStep, ZenonT(40) DEF MissingHandle, LocalTypes, Goto, Labels,
       WorkerLabels
  <2> QED
    BY <2>1, <2>2, <1>t, <1>3, HandleSame, RefSame, Zenon DEF TypeOK, MissingHandle,
       handleVars, refVars
<1>4. ASSUME Message(p) PROVE TypeOK'
  <2>1. ThreadTypes'
    BY <1>t, <1>l, <1>x, <1>4, ThreadStep, Zenon DEF Message, LocalTypes, Goto, Labels,
       WorkerLabels
  <2> QED
    BY <2>1, <1>t, <1>4, TableSame, HandleSame, RefSame, Zenon DEF TypeOK, Message, tableVars,
       handleVars, refVars
<1>5. ASSUME Deliver(p) PROVE TypeOK'
  <2>1. ThreadTypes'
    BY <1>t, <1>l, <1>x, <1>5, ThreadStep, Zenon DEF Deliver, LocalTypes, Goto, Labels,
       WorkerLabels
  <2> QED
    BY <2>1, <1>t, <1>5, TableSame, HandleSame, RefSame, Zenon DEF TypeOK, Deliver, tableVars,
       handleVars, refVars
<1>6. ASSUME Done(p) PROVE TypeOK'
  <2>1. RefTypes'
    BY <1>t, <1>n, <1>6, UnrefTypes, Zenon DEF Done, One
  <2>2. ThreadTypes'
    BY <1>t, <1>l, <1>x, <1>6, ThreadStep, Zenon DEF Done, LocalTypes, Goto, Labels,
       WorkerLabels
  <2> QED
    BY <2>1, <2>2, <1>t, <1>6, TableSame, HandleSame, Zenon DEF TypeOK, Done, tableVars,
       handleVars
<1> QED
  BY <1>1, <1>2, <1>3, <1>4, <1>5, <1>6, Zenon DEF Worker

\* The watchdog keeps the types.
LEMMA WatchdogTypes == ASSUME CountLaws, TypeOK, Watchdog PROVE TypeOK'
<1>t. TableTypes /\ HandleTypes /\ RefTypes /\ ThreadTypes
  BY Zenon DEF TypeOK
<1>n. /\ MaxIdle \in Nat /\ 0 \in 0 .. MaxIdle
      /\ NoneH \in [Hnds -> Int] /\ NoneS \in [Sess -> Int]
      /\ \A h : OneH(h) \in [Hnds -> Int]
      /\ \A s : OneS(s) \in [Sess -> Int]
      /\ \A s : HandlesOf(s) \in SUBSET Hnds
  BY CounterFacts, Zenon
<1>l. /\ sessions_mutex \in Transports \cup {Wd, NoTransport} /\ todo \subseteq Sess
      /\ pc \in [Threads -> Labels]
      /\ lsess \in [Threads -> Sess \cup {NoSess}]
      /\ lhnd \in [Threads -> Hnds \cup {NoHnd}]
      /\ from \in [Threads -> Transports \cup {NoTransport}]
  BY LocalFacts, Zenon
<1>x. /\ Wd \in Threads /\ Wd \notin Workers /\ Wd \notin Transports
      /\ pc[Wd] \in {"clear", "remove", "destroy_clear"} => lsess[Wd] \in Sess
  BY LocalFacts, ThreadFacts, Zenon
<1>1. ASSUME WdStart PROVE TypeOK'
  <2>1. ThreadTypes'
    BY <1>t, <1>l, <1>x, <1>1, ThreadStep, Zenon DEF WdStart, LocalTypes, Goto, Labels,
       WdLabels, InTable
  <2> QED
    BY <2>1, <1>t, <1>1, TableSame, HandleSame, RefSame, Zenon DEF TypeOK, WdStart, tableVars,
       handleVars, refVars
<1>2. ASSUME NEW s \in Sess, WdCheck(s) PROVE TypeOK'
  <2>1. TableTypes'
    BY <1>t, <1>2, Zenon DEF WdCheck, TableTypes, tableVars
  <2>2. ThreadTypes'
    BY <1>t, <1>l, <1>x, <1>2, ThreadStep, SMTT(40) DEF WdCheck, LocalTypes, Goto, Labels,
       WdLabels
  <2> QED
    BY <2>1, <2>2, <1>t, <1>2, HandleSame, RefSame, Zenon DEF TypeOK, WdCheck, handleVars,
       refVars
<1>3. ASSUME WdClear PROVE TypeOK'
  <2>1. HandleTypes' /\ RefTypes'
    BY <1>t, <1>n, <1>x, <1>3, HandlesDestroyTypes, Zenon DEF WdClear
  <2>2. ThreadTypes'
    BY <1>t, <1>l, <1>x, <1>3, ThreadStep, Zenon DEF WdClear, LocalTypes, Goto, Labels,
       WdLabels
  <2> QED
    BY <2>1, <2>2, <1>t, <1>3, TableSame, Zenon DEF TypeOK, WdClear, tableVars
<1>4. ASSUME WdRemove PROVE TypeOK'
  <2>1. TableTypes'
    BY <1>t, <1>4, <1>x, Zenon DEF WdRemove, TableTypes, tableVars, MarkDestroyed
  <2>2. ThreadTypes'
    BY <1>t, <1>l, <1>x, <1>4, ThreadStep, ZenonT(40) DEF WdRemove, LocalTypes, Goto, Labels,
       WdLabels, MarkDestroyed
  <2> QED
    BY <2>1, <2>2, <1>t, <1>4, HandleSame, RefSame, Zenon DEF TypeOK, WdRemove, MarkDestroyed,
       handleVars, refVars
<1>5. ASSUME WdDestroy PROVE TypeOK'
  <2>1. HandleTypes' /\ RefTypes'
    BY <1>t, <1>n, <1>x, <1>5, HandlesDestroyTypes, Zenon DEF WdDestroy, DestroyClear
  <2>2. ThreadTypes'
    BY <1>t, <1>l, <1>x, <1>5, ThreadStep, ZenonT(40) DEF WdDestroy, LocalTypes, Goto, Labels,
       WdLabels, DestroyClear
  <2> QED
    BY <2>1, <2>2, <1>t, <1>5, TableSame, Zenon DEF TypeOK, WdDestroy, DestroyClear, tableVars
<1>6. ASSUME WdEnd PROVE TypeOK'
  <2>1. ThreadTypes'
    BY <1>t, <1>l, <1>x, <1>6, ThreadStep, Zenon DEF WdEnd, LocalTypes, Goto, Labels, WdLabels
  <2> QED
    BY <2>1, <1>t, <1>6, TableSame, HandleSame, RefSame, Zenon DEF TypeOK, WdEnd, tableVars,
       handleVars, refVars
<1>7. ASSUME NEW h \in Hnds, WdEndSession(h) PROVE TypeOK'
  <2>1. HandleTypes'
    BY <1>t, <1>7, SMTT(40) DEF WdEndSession, HandleTypes, handleVars, One
  <2>2. RefTypes'
    BY <1>t, <1>n, <1>7, UnrefTypes, SMTT(40) DEF WdEndSession, One
  <2> QED
    BY <2>1, <2>2, <1>t, <1>7, TableSame, ThreadSame, Zenon DEF TypeOK, WdEndSession,
       tableVars, threadVars
<1> QED
  BY <1>1, <1>2, <1>3, <1>4, <1>5, <1>6, <1>7, Zenon DEF Watchdog

\* A transport that reports a peer gone keeps the types.
LEMMA TransportTypes == ASSUME CountLaws, TypeOK, NEW t \in Transports, TransportThread(t) PROVE TypeOK'
<1>t. TableTypes /\ HandleTypes /\ RefTypes /\ ThreadTypes
  BY Zenon DEF TypeOK
<1>n. /\ MaxIdle \in Nat /\ 0 \in 0 .. MaxIdle
      /\ NoneH \in [Hnds -> Int] /\ NoneS \in [Sess -> Int]
      /\ \A h : OneH(h) \in [Hnds -> Int]
      /\ \A s : OneS(s) \in [Sess -> Int]
      /\ \A s : HandlesOf(s) \in SUBSET Hnds
  BY CounterFacts, Zenon
<1>l. /\ sessions_mutex \in Transports \cup {Wd, NoTransport} /\ todo \subseteq Sess
      /\ pc \in [Threads -> Labels]
      /\ lsess \in [Threads -> Sess \cup {NoSess}]
      /\ lhnd \in [Threads -> Hnds \cup {NoHnd}]
      /\ from \in [Threads -> Transports \cup {NoTransport}]
  BY LocalFacts, Zenon
<1>x. /\ t \in Threads /\ t # Wd /\ t \notin Workers
      /\ pc[t] \in {"over", "destroy_clear", "remove"} => lsess[t] \in Sess
  BY LocalFacts, ThreadFacts, Zenon
<1>1. ASSUME TgStart(t) PROVE TypeOK'
  <2>1. TableTypes'
    BY <1>t, <1>1, Zenon DEF TgStart, TableTypes, tableVars
  <2>2. ThreadTypes'
    BY <1>t, <1>l, <1>x, <1>1, ThreadStep, Zenon DEF TgStart, LocalTypes, Goto, Labels,
       TransportLabels, InTable
  <2> QED
    BY <2>1, <2>2, <1>t, <1>1, HandleSame, RefSame, Zenon DEF TypeOK, TgStart, handleVars,
       refVars
<1>2. ASSUME NEW s \in Sess, TgCheck(t, s) PROVE TypeOK'
  <2>1. ThreadTypes'
    BY <1>t, <1>l, <1>x, <1>2, ThreadStep, SMTT(40) DEF TgCheck, LocalTypes, Goto, Labels,
       TransportLabels
  <2> QED
    BY <2>1, <1>t, <1>2, TableSame, HandleSame, RefSame, Zenon DEF TypeOK, TgCheck, tableVars,
       handleVars, refVars
<1>3. ASSUME TgFlag(t) PROVE TypeOK'
  <2>1. TableTypes'
    BY <1>t, <1>3, <1>x, Zenon DEF TgFlag, TableTypes, tableVars
  <2>2. ThreadTypes'
    BY <1>t, <1>l, <1>x, <1>3, ThreadStep, Zenon DEF TgFlag, LocalTypes, Goto, Labels,
       TransportLabels
  <2> QED
    BY <2>1, <2>2, <1>t, <1>3, HandleSame, RefSame, Zenon DEF TypeOK, TgFlag, handleVars,
       refVars
<1>4. ASSUME TgMark(t) PROVE TypeOK'
  <2>1. TableTypes'
    BY <1>t, <1>4, <1>x, Zenon DEF TgMark, TableTypes, tableVars, MarkDestroyed
  <2>2. ThreadTypes'
    BY <1>t, <1>l, <1>x, <1>4, ThreadStep, ZenonT(40) DEF TgMark, LocalTypes, Goto, Labels,
       TransportLabels, MarkDestroyed
  <2> QED
    BY <2>1, <2>2, <1>t, <1>4, HandleSame, RefSame, Zenon DEF TypeOK, TgMark, MarkDestroyed,
       handleVars, refVars
<1>5. ASSUME TgClear(t) PROVE TypeOK'
  <2>1. HandleTypes' /\ RefTypes'
    BY <1>t, <1>n, <1>x, <1>5, HandlesDestroyTypes, Zenon DEF TgClear, DestroyClear
  <2>2. ThreadTypes'
    BY <1>t, <1>l, <1>x, <1>5, ThreadStep, ZenonT(40) DEF TgClear, LocalTypes, Goto, Labels,
       TransportLabels, DestroyClear
  <2> QED
    BY <2>1, <2>2, <1>t, <1>5, TableSame, Zenon DEF TypeOK, TgClear, DestroyClear, tableVars
<1>6. ASSUME TgRemove(t) PROVE TypeOK'
  <2>1. TableTypes'
    BY <1>t, <1>6, Zenon DEF TgRemove, TableTypes, tableVars
  <2>2. ThreadTypes'
    BY <1>t, <1>l, <1>x, <1>6, ThreadStep, Zenon DEF TgRemove, LocalTypes, Goto, Labels,
       TransportLabels
  <2> QED
    BY <2>1, <2>2, <1>t, <1>6, HandleSame, RefSame, Zenon DEF TypeOK, TgRemove, handleVars,
       refVars
<1>7. ASSUME TgEnd(t) PROVE TypeOK'
  <2>1. ThreadTypes'
    BY <1>t, <1>l, <1>x, <1>7, ThreadStep, Zenon DEF TgEnd, LocalTypes, Goto, Labels,
       TransportLabels
  <2> QED
    BY <2>1, <1>t, <1>7, TableSame, HandleSame, RefSame, Zenon DEF TypeOK, TgEnd, tableVars,
       handleVars, refVars
<1> QED
  BY <1>1, <1>2, <1>3, <1>4, <1>5, <1>6, <1>7, Zenon DEF TransportThread

\* A plugin, the loop of a handle and the clock keep the types.
LEMMA HandleTypesKept == ASSUME CountLaws, TypeOK, (\E h \in Hnds : EndSession(h) \/ Loop(h) \/ PluginUnref(h)) \/ Tick PROVE TypeOK'
<1>t. TableTypes /\ HandleTypes /\ RefTypes /\ ThreadTypes
  BY Zenon DEF TypeOK
<1>n. /\ MaxIdle \in Nat /\ 0 \in 0 .. MaxIdle
      /\ NoneH \in [Hnds -> Int] /\ NoneS \in [Sess -> Int]
      /\ \A h : OneH(h) \in [Hnds -> Int]
      /\ \A s : OneS(s) \in [Sess -> Int]
      /\ \A s : HandlesOf(s) \in SUBSET Hnds
  BY CounterFacts, Zenon
<1>l. /\ sessions_mutex \in Transports \cup {Wd, NoTransport} /\ todo \subseteq Sess
      /\ pc \in [Threads -> Labels]
      /\ lsess \in [Threads -> Sess \cup {NoSess}]
      /\ lhnd \in [Threads -> Hnds \cup {NoHnd}]
      /\ from \in [Threads -> Transports \cup {NoTransport}]
  BY LocalFacts, Zenon
<1>1. ASSUME NEW h \in Hnds, EndSession(h) PROVE TypeOK'
  <2>1. HandleTypes'
    BY <1>t, <1>1, SMTT(40) DEF EndSession, HandleTypes, handleVars
  <2> QED
    BY <2>1, <1>t, <1>1, TableSame, RefSame, ThreadSame, Zenon DEF TypeOK, EndSession,
       tableVars, refVars, threadVars
<1>2. ASSUME NEW h \in Hnds, LoopDetach(h) PROVE TypeOK'
  <2>1. HandleTypes'
    BY <1>t, <1>2, Zenon DEF LoopDetach, HandleTypes, handleVars
  <2>2. RefTypes'
    BY <1>t, <1>n, <1>2, UnrefTypes, Zenon DEF LoopDetach, One
  <2> QED
    BY <2>1, <2>2, <1>t, <1>2, TableSame, ThreadSame, Zenon DEF TypeOK, LoopDetach, tableVars,
       threadVars
<1>3. ASSUME NEW h \in Hnds, LoopEnd(h) PROVE TypeOK'
  <2>1. HandleTypes'
    BY <1>t, <1>3, Zenon DEF LoopEnd, HandleTypes, handleVars
  <2>2. RefTypes'
    BY <1>t, <1>n, <1>3, UnrefTypes, Zenon DEF LoopEnd, One
  <2> QED
    BY <2>1, <2>2, <1>t, <1>3, TableSame, ThreadSame, Zenon DEF TypeOK, LoopEnd, tableVars,
       threadVars
<1>4. ASSUME NEW h \in Hnds, PluginUnref(h) PROVE TypeOK'
  <2>1. HandleTypes'
    BY <1>t, <1>4, SMTT(40) DEF PluginUnref, HandleTypes, handleVars
  <2>2. RefTypes'
    BY <1>t, <1>n, <1>4, UnrefTypes, SMTT(40) DEF PluginUnref, One
  <2> QED
    BY <2>1, <2>2, <1>t, <1>4, TableSame, ThreadSame, Zenon DEF TypeOK, PluginUnref, tableVars,
       threadVars
<1>5. ASSUME Tick PROVE TypeOK'
  <2>1. TableTypes'
    BY <1>t, <1>5, <1>n, SMTT(40) DEF Tick, TableTypes, tableVars
  <2> QED
    BY <2>1, <1>t, <1>5, HandleSame, RefSame, ThreadSame, Zenon DEF TypeOK, Tick, handleVars,
       refVars, threadVars
<1> QED
  BY <1>1, <1>2, <1>3, <1>4, <1>5, Zenon DEF Loop

\* Every step keeps the types.
LEMMA TypeStep == CountLaws /\ TypeOK /\ [Next]_vars => TypeOK'
<1> SUFFICES ASSUME CountLaws, TypeOK, [Next]_vars PROVE TypeOK'
  BY Zenon
<1>1. CASE Next
  BY <1>1, RequestsTypes, WorkerTypes, WatchdogTypes, TransportTypes, HandleTypesKept, Zenon DEF Next
<1>2. CASE UNCHANGED vars
  BY <1>2, TableSame, HandleSame, RefSame, ThreadSame, Zenon
     DEF vars, tableVars, handleVars, refVars, threadVars, TypeOK
<1> QED
  BY <1>1, <1>2, Zenon

-----------------------------------------------------------------------------
(* Steps that leave the table alone *)

\* Nothing the invariant is about changes.
LEMMA StillTable ==
    ASSUME TableInv, UNCHANGED <<table, sid, sdestroyed, threadVars>>
    PROVE  TableInv'
<1>1. MutexSound'
  BY Zenon DEF TableInv, MutexSound, threadVars
<1>2. TableSound'
  BY Zenon DEF TableInv, TableSound, threadVars
<1>3. NoLostSession'
  BY Zenon DEF TableInv, NoLostSession, threadVars, Created, InTable
<1>4. Located'
  BY Zenon DEF TableInv, Located, threadVars, Created
<1> QED
  BY <1>1, <1>2, <1>3, <1>4, Zenon DEF TableInv

\* The requests thread or a task takes a step that is not one of "destroy", to a
\* session that exists and whose identifier is not another's.
LEMMA QuietWorker ==
    ASSUME TypeOK, TableInv, NEW p \in Workers,
           UNCHANGED <<table, sid, sdestroyed, sessions_mutex, todo>>,
           \A q \in Threads \ {p} : pc'[q] = pc[q] /\ lsess'[q] = lsess[q],
           p = Req => pc[p] # "destroy_mark" /\ pc'[p] # "destroy_mark",
           lsess'[p] \in Sess => Created(lsess'[p]),
           p = Req /\ pc'[p] # "idle" => table[sid[lsess'[p]]] \in {lsess'[p], NoSess}
    PROVE  TableInv'
<1>0. /\ Wd \in Threads \ {p} /\ p \notin Transports
      /\ \A t \in Transports : t \in Threads \ {p}
      /\ Req \in Threads
  BY ThreadFacts, Zenon
<1>1. MutexSound'
  BY <1>0, ZenonT(40) DEF TableInv, MutexSound
<1>2. TableSound'
  BY <1>0, ZenonT(40) DEF TableInv, TableSound
<1>3. NoLostSession'
  <2>1. p # Req => pc'[Req] = pc[Req] /\ lsess'[Req] = lsess[Req]
    BY <1>0, Zenon
  <2> QED
    BY <2>1, Zenon DEF TableInv, NoLostSession, Created, InTable
<1>4. Located'
  <2>1. \A q \in Threads : lsess'[q] \in Sess => Created(lsess'[q])
    BY Zenon DEF TableInv, Located
  <2>2. /\ pc'[Req] # "idle" => table[sid[lsess'[Req]]] \in {lsess'[Req], NoSess}
        /\ pc'[Req] = "destroy_mark" => table[sid[lsess'[Req]]] = NoSess
    BY <1>0, ZenonT(40) DEF TableInv, Located
  <2>3. \A t \in Transports : pc'[t] \in {"destroy_clear", "remove"} => lsess'[t] \in sdestroyed
    BY <1>0, Zenon DEF TableInv, Located
  <2> QED
    BY <2>1, <2>2, <2>3, Zenon DEF Located, Created, TableInv
<1> QED
  BY <1>1, <1>2, <1>3, <1>4, Zenon DEF TableInv

\* The watchdog or a transport takes or holds sessions_mutex, and does not leave
\* a session that it destroyed in the table.
LEMMA QuietHolder ==
    ASSUME TypeOK, TableInv, NEW p \in Transports \cup {Wd},
           UNCHANGED <<table, sid, sdestroyed>>,
           \A q \in Threads \ {p} : pc'[q] = pc[q] /\ lsess'[q] = lsess[q],
           sessions_mutex \in {p, NoTransport}, sessions_mutex' \in {p, NoTransport},
           (pc'[p] # "idle") <=> (sessions_mutex' = p),
           \/ p = Wd \/ pc[p] \notin {"destroy_clear", "remove"}
           \/ pc'[p] = "remove" /\ lsess'[p] = lsess[p] /\ sessions_mutex' = p,
           lsess'[p] \in Sess => Created(lsess'[p]),
           \A s \in todo' : Created(s),
           p \in Transports /\ pc'[p] \in {"destroy_clear", "remove"} => lsess'[p] \in sdestroyed
    PROVE  TableInv'
<1>0. /\ Req \in Threads \ {p} /\ NoTransport \notin Transports \cup {Wd}
      /\ \A q \in (Transports \cup {Wd}) \ {p} : q \in Threads \ {p}
      /\ Wd \notin Transports
  BY ThreadFacts, NullsAssumption, ZenonT(40)
<1>1. MutexSound'
  BY <1>0, SMTT(40) DEF TableInv, MutexSound
<1>2. TableSound'
  BY <1>0, SMTT(40) DEF TableInv, TableSound
<1>3. NoLostSession'
  BY <1>0, ZenonT(40) DEF TableInv, NoLostSession, Created, InTable
<1>4. Located'
  BY <1>0, ZenonT(40) DEF TableInv, Located, Created
<1> QED
  BY <1>1, <1>2, <1>3, <1>4, Zenon DEF TableInv

\* The usual step of a request: on to the next label, with the same session.
LEMMA QuietGoto ==
    ASSUME TypeOK, TableInv, NEW p \in Workers, NEW l,
           UNCHANGED <<table, sid, sdestroyed, sessions_mutex, todo, lsess>>,
           Goto(p, l), pc[p] # "idle",
           p = Req => pc[p] # "destroy_mark" /\ l # "destroy_mark"
    PROVE  TableInv'
<1>1. p \in Threads /\ pc \in [Threads -> Labels]
  BY ThreadFacts, LocalFacts, Zenon
<1>2. pc'[p] = l /\ \A q \in Threads \ {p} : pc'[q] = pc[q] /\ lsess'[q] = lsess[q]
  BY <1>1, Zenon DEF Goto
<1>3. lsess'[p] \in Sess => Created(lsess'[p])
  BY <1>1, Zenon DEF TableInv, Located
<1>4. p = Req => table[sid[lsess'[p]]] \in {lsess'[p], NoSess}
  BY Zenon DEF TableInv, Located
<1> QED
  BY <1>2, <1>3, <1>4, QuietWorker, Zenon

\* The first step of a request: it finds a session in the table.
LEMMA QuietFind ==
    ASSUME TypeOK, TableInv, NEW p \in Workers, NEW i \in Ids, NEW l,
           table[i] # NoSess, pc[p] = "idle", l # "destroy_mark",
           UNCHANGED <<table, sid, sdestroyed, sessions_mutex, todo>>,
           lsess' = [lsess EXCEPT ![p] = table[i]], Goto(p, l)
    PROVE  TableInv'
<1>1. /\ p \in Threads /\ pc \in [Threads -> Labels]
      /\ lsess \in [Threads -> Sess \cup {NoSess}]
  BY ThreadFacts, LocalFacts, Zenon
<1>2. /\ pc'[p] = l /\ lsess'[p] = table[i]
      /\ \A q \in Threads \ {p} : pc'[q] = pc[q] /\ lsess'[q] = lsess[q]
  BY <1>1, Zenon DEF Goto
<1>3. sid[table[i]] = i
  BY Zenon DEF TableInv, TableSound
<1>4. Created(lsess'[p])
  BY <1>2, <1>3, NullsAssumption, ZenonT(40) DEF Created
<1>5. table[sid[lsess'[p]]] = lsess'[p]
  BY <1>2, <1>3, Zenon
<1> QED
  BY <1>2, <1>4, <1>5, QuietWorker, Zenon

-----------------------------------------------------------------------------
(* The steps of the threads *)

\* A task keeps the invariant of the table.
LEMMA WorkerTable ==
    ASSUME TypeOK, TableInv, NEW p \in Workers, Worker(p)
    PROVE  TableInv'
<1>1. ASSUME NEW i \in Ids, NEW t \in Transports, FindSession(p, i, t) PROVE TableInv'
  BY <1>1, QuietFind, Zenon DEF FindSession, tableVars
<1>2. ASSUME NEW op \in {"detach", "message", "done"}, NEW h \in Hnds, NEW admin \in BOOLEAN,
             HandleRequest(p, op, h, admin)
      PROVE  TableInv'
  BY <1>2, QuietGoto, Zenon DEF HandleRequest
<1>3. ASSUME MissingHandle(p) PROVE TableInv'
  BY <1>3, QuietGoto, Zenon DEF MissingHandle
<1>4. ASSUME Message(p) PROVE TableInv'
  BY <1>4, QuietGoto, Zenon DEF Message, tableVars
<1>5. ASSUME Deliver(p) PROVE TableInv'
  BY <1>5, QuietGoto, Zenon DEF Deliver, tableVars
<1>6. ASSUME Done(p) PROVE TableInv'
  <2>1. /\ p \in Threads /\ pc \in [Threads -> Labels]
        /\ lsess \in [Threads -> Sess \cup {NoSess}]
    BY ThreadFacts, LocalFacts, Zenon
  <2>2. /\ pc[p] = "done" /\ pc'[p] = "idle" /\ lsess'[p] = NoSess
        /\ \A q \in Threads \ {p} : pc'[q] = pc[q] /\ lsess'[q] = lsess[q]
        /\ UNCHANGED <<table, sid, sdestroyed, sessions_mutex, todo>>
    BY <1>6, <2>1, Zenon DEF Done, Goto, tableVars
  <2> QED
    BY <2>2, NullsAssumption, QuietWorker, Zenon
<1> QED
  BY <1>1, <1>2, <1>3, <1>4, <1>5, <1>6, Zenon DEF Worker

\* janus_session_create: the new session is the only one of its identifier.
LEMMA CreateTable ==
    ASSUME TypeOK, TableInv, NEW i \in Ids, NEW s \in Sess, NEW t \in Transports,
           CreateSession(i, s, t)
    PROVE  TableInv'
<1>1. /\ Req \in Threads /\ Req # Wd /\ Req \notin Transports
      /\ Wd \in Threads /\ Transports \subseteq Threads
      /\ pc \in [Threads -> Labels] /\ lsess \in [Threads -> Sess \cup {NoSess}]
      /\ table \in [Ids -> Sess \cup {NoSess}] /\ sid \in [Sess -> Ids \cup {NoId}]
  BY ThreadFacts, LocalFacts, Zenon DEF TypeOK, TableTypes
<1>2. /\ pc[Req] = "idle" /\ sessions_mutex = NoTransport /\ table[i] = NoSess /\ sid[s] = NoId
      /\ table' = [table EXCEPT ![i] = s] /\ sid' = [sid EXCEPT ![s] = i]
      /\ pc' = [pc EXCEPT ![Req] = "created"] /\ lsess' = [lsess EXCEPT ![Req] = s]
      /\ UNCHANGED <<sdestroyed, sessions_mutex, todo>>
  BY Zenon DEF CreateSession, Goto
<1>3. /\ \A q \in Threads \ {Req} : pc'[q] = pc[q] /\ lsess'[q] = lsess[q]
      /\ pc'[Req] = "created" /\ lsess'[Req] = s
  BY <1>1, <1>2, Zenon
<1>4. \A x \in Sess : Created(x) => Created(x)' /\ sid'[x] = sid[x]
  BY <1>1, <1>2, Zenon DEF Created
<1>5. MutexSound'
  BY <1>1, <1>2, <1>3, Zenon DEF TableInv, MutexSound
<1>6. TableSound'
  <2>1. \A j \in Ids \ {i} : table'[j] = table[j] /\ (table[j] # NoSess => sid'[table[j]] = j)
    BY <1>1, <1>2, NullsAssumption, SMTT(40) DEF TableInv, TableSound
  <2>2. table'[i] = s /\ sid'[s] = i
    BY <1>1, <1>2, Zenon
  <2>3. \A j \in Ids \ {i} : table[j] # NoSess => table[j] \notin sdestroyed
    BY <1>2, NullsAssumption, Zenon DEF TableInv, TableSound
  <2>4. s \notin sdestroyed
    BY <1>2, Zenon DEF TableInv, Located, Created
  <2> QED
    BY <1>2, <2>1, <2>2, <2>3, <2>4, SMTT(40) DEF TableSound
<1>7. NoLostSession'
  <2>1. ASSUME NEW x \in Sess, Created(x)', x \notin sdestroyed PROVE x \in InTable'
    <3>1. CASE x = s
      BY <1>1, <1>2, <3>1, Zenon DEF InTable
    <3>2. CASE x # s
      <4>1. PICK j \in Ids : table[j] = x
        BY <1>1, <1>2, <2>1, <3>2, Zenon DEF TableInv, NoLostSession, Created, InTable
      <4> QED
        BY <1>1, <1>2, <4>1, NullsAssumption, Zenon DEF InTable
    <3> QED
      BY <3>1, <3>2, Zenon
  <2> QED
    BY <1>2, <2>1, Zenon DEF NoLostSession
<1>8. Located'
  <2>1. \A q \in Threads : lsess'[q] \in Sess => sid'[lsess'[q]] # NoId
    <3>1. \A q \in Threads : lsess[q] \in Sess => Created(lsess[q])
      BY Zenon DEF TableInv, Located
    <3>2. sid'[s] # NoId
      BY <1>1, <1>2, NullsAssumption, Zenon
    <3> QED
      BY <1>3, <1>4, <3>1, <3>2, Zenon DEF Created
  <2>2. \A x \in todo' \cup sdestroyed' : Created(x)'
    BY <1>2, <1>4, Zenon DEF TableInv, Located, TypeOK, ThreadTypes, TableTypes
  <2>3. table'[sid'[lsess'[Req]]] = lsess'[Req]
    BY <1>1, <1>2, <1>3, ZenonT(40)
  <2>4. \A q \in Transports : pc'[q] \in {"destroy_clear", "remove"} => lsess'[q] \in sdestroyed'
    BY <1>1, <1>2, <1>3, Zenon DEF TableInv, Located
  <2> QED
    BY <1>3, <2>1, <2>2, <2>3, <2>4, Zenon DEF Located, Created
<1> QED
  BY <1>5, <1>6, <1>7, <1>8, Zenon DEF TableInv

\* "destroy" removes the entry of its own session, if it is still there ...
LEMMA DestroyRemoveTable ==
    ASSUME TypeOK, TableInv, DestroyRemove
    PROVE  TableInv'
<1> DEFINE s == lsess[Req]
<1>1. /\ Req \in Threads /\ Req # Wd /\ Req \notin Transports
      /\ Wd \in Threads /\ Transports \subseteq Threads
      /\ pc \in [Threads -> Labels]
      /\ table \in [Ids -> Sess \cup {NoSess}] /\ sid \in [Sess -> Ids \cup {NoId}]
  BY ThreadFacts, LocalFacts, Zenon DEF TypeOK, TableTypes
<1>2. /\ pc[Req] = "destroy" /\ sessions_mutex = NoTransport
      /\ table' = [table EXCEPT ![sid[s]] = NoSess]
      /\ pc' = [pc EXCEPT ![Req] = "destroy_mark"]
      /\ UNCHANGED <<sid, sdestroyed, sessions_mutex, todo, lsess>>
  BY Zenon DEF DestroyRemove, Goto
<1>3. s \in Sess /\ sid[s] \in Ids /\ table[sid[s]] \in {s, NoSess}
  BY <1>1, <1>2, LocalFacts, ThreadFacts, Zenon DEF TableInv, Located, Created
<1>4. pc'[Req] = "destroy_mark" /\ \A q \in Threads \ {Req} : pc'[q] = pc[q]
  BY <1>1, <1>2, Zenon
<1> HIDE DEF s
<1>5. MutexSound'
  BY <1>1, <1>2, <1>4, Zenon DEF TableInv, MutexSound
<1>6. TableSound'
  BY <1>1, <1>2, <1>3, NullsAssumption, Zenon DEF TableInv, TableSound
<1>7. NoLostSession'
  <2>1. ASSUME NEW x \in Sess, Created(x), x \notin sdestroyed, x # s PROVE x \in InTable'
    <3>1. PICK j \in Ids : table[j] = x
      BY <1>2, <2>1, Zenon DEF TableInv, NoLostSession, InTable
    <3>2. j # sid[s]
      BY <1>3, <2>1, <3>1, NullsAssumption, Zenon
    <3> QED
      BY <1>1, <1>2, <1>3, <3>1, <3>2, Zenon DEF InTable
  <2> QED
    BY <1>2, <1>4, <2>1, Zenon DEF NoLostSession, Created, s
<1>8. Located'
  <2>1. table'[sid[s]] = NoSess
    BY <1>1, <1>2, <1>3, Zenon
  <2> QED
    BY <1>1, <1>2, <1>4, <2>1, Zenon DEF TableInv, Located, Created, s
<1> QED
  BY <1>5, <1>6, <1>7, <1>8, Zenon DEF TableInv

\* ... and destroys it when no entry leads to it any more.
LEMMA DestroyMarkTable ==
    ASSUME TypeOK, TableInv, DestroyMark
    PROVE  TableInv'
<1> DEFINE s == lsess[Req]
<1>1. /\ Req \in Threads /\ Req # Wd /\ Req \notin Transports
      /\ Wd \in Threads /\ Transports \subseteq Threads
      /\ pc \in [Threads -> Labels]
      /\ table \in [Ids -> Sess \cup {NoSess}] /\ sid \in [Sess -> Ids \cup {NoId}]
  BY ThreadFacts, LocalFacts, Zenon DEF TypeOK, TableTypes
<1>2. /\ pc[Req] = "destroy_mark" /\ sdestroyed' = sdestroyed \cup {s}
      /\ UNCHANGED <<table, sid, sessions_mutex, todo, lsess>>
  BY Zenon DEF DestroyMark, MarkDestroyed
<1>3. s \in Sess /\ Created(s) /\ table[sid[s]] = NoSess
  BY <1>1, <1>2, LocalFacts, ThreadFacts, Zenon DEF TableInv, Located
<1>4. /\ pc'[Req] \in {"destroy_clear", "done"}
      /\ \A q \in Threads \ {Req} : pc'[q] = pc[q]
  BY <1>1, Zenon DEF DestroyMark, MarkDestroyed, Goto
<1> HIDE DEF s
<1>5. s \notin InTable
  BY <1>1, <1>3, NullsAssumption, Zenon DEF TableInv, TableSound, InTable
<1>6. MutexSound'
  BY <1>1, <1>2, <1>4, Zenon DEF TableInv, MutexSound
<1>7. TableSound'
  BY <1>1, <1>2, <1>3, <1>4, <1>5, Zenon DEF TableInv, TableSound, InTable
<1>8. NoLostSession'
  BY <1>2, <1>4, Zenon DEF TableInv, NoLostSession, Created, InTable, s
<1>9. Located'
  BY <1>1, <1>2, <1>3, <1>4, Zenon DEF TableInv, Located, Created, s
<1> QED
  BY <1>6, <1>7, <1>8, <1>9, Zenon DEF TableInv

\* So does the requests thread.
LEMMA RequestsTable ==
    ASSUME TypeOK, TableInv, RequestsThread
    PROVE  TableInv'
<1>0. Req \in Workers
  BY ThreadFacts, Zenon
<1>1. ASSUME NEW i \in Ids, NEW t \in Transports, CreateConflict(i, t) PROVE TableInv'
  BY <1>0, <1>1, QuietFind, Zenon DEF CreateConflict, tableVars
<1>2. ASSUME CreateSource PROVE TableInv'
  BY <1>0, <1>2, QuietGoto, Zenon DEF CreateSource
<1>3. ASSUME Claim PROVE TableInv'
  BY <1>0, <1>3, QuietGoto, Zenon DEF Claim
<1>4. ASSUME NEW op \in {"attach", "destroy", "claim", "done"}, NEW admin \in BOOLEAN, SessionRequest(op, admin) PROVE TableInv'
  BY <1>0, <1>4, QuietGoto, Zenon DEF SessionRequest
<1>5. ASSUME NEW h \in Hnds, AttachCreate(h) PROVE TableInv'
  BY <1>0, <1>5, QuietGoto, Zenon DEF AttachCreate, tableVars
<1>6. ASSUME AttachNone PROVE TableInv'
  BY <1>0, <1>6, QuietGoto, Zenon DEF AttachNone, tableVars
<1>7. ASSUME AttachPlugin PROVE TableInv'
  BY <1>0, <1>7, QuietGoto, Zenon DEF AttachPlugin, tableVars
<1>8. ASSUME AttachPluginError PROVE TableInv'
  BY <1>0, <1>8, QuietGoto, Zenon DEF AttachPluginError, tableVars
<1>9. ASSUME AttachLoop PROVE TableInv'
  BY <1>0, <1>9, QuietGoto, Zenon DEF AttachLoop, tableVars
<1>10. ASSUME AttachLoopError PROVE TableInv'
  BY <1>0, <1>10, QuietGoto, Zenon DEF AttachLoopError, tableVars
<1>11. ASSUME DestroyHandles PROVE TableInv'
  BY <1>0, <1>11, QuietGoto, Zenon DEF DestroyHandles, DestroyClear, tableVars
<1>12. ASSUME Detach PROVE TableInv'
  BY <1>0, <1>12, QuietGoto, Zenon DEF Detach, tableVars
<1> QED
  BY <1>1, <1>2, <1>3, <1>4, <1>5, <1>6, <1>7, <1>8, <1>9, <1>10, <1>11, <1>12,
     CreateTable, DestroyRemoveTable, DestroyMarkTable, Zenon DEF RequestsThread

\* The watchdog removes a session and destroys it in one step, under the lock.
LEMMA WdRemoveTable ==
    ASSUME TypeOK, TableInv, WdRemove
    PROVE  TableInv'
<1> DEFINE s == lsess[Wd]
<1>1. /\ Req \in Threads /\ Req # Wd /\ Wd \notin Transports
      /\ Wd \in Threads /\ Transports \subseteq Threads
      /\ pc \in [Threads -> Labels]
      /\ table \in [Ids -> Sess \cup {NoSess}]
  BY ThreadFacts, LocalFacts, Zenon DEF TypeOK, TableTypes
<1>2. /\ pc[Wd] = "remove" /\ sdestroyed' = sdestroyed \cup {s}
      /\ table' = [i \in Ids |-> IF table[i] = s THEN NoSess ELSE table[i]]
      /\ UNCHANGED <<sid, sessions_mutex, todo, lsess>>
  BY Zenon DEF WdRemove, MarkDestroyed
<1>3. s \in Sess /\ Created(s) /\ sessions_mutex = Wd
  BY <1>1, <1>2, LocalFacts, Zenon DEF TableInv, Located, MutexSound
<1>4. /\ pc'[Wd] \in {"destroy_clear", "check"}
      /\ \A q \in Threads \ {Wd} : pc'[q] = pc[q]
  BY <1>1, Zenon DEF WdRemove, MarkDestroyed, Goto
<1> HIDE DEF s
<1>5. MutexSound'
  BY <1>1, <1>2, <1>3, <1>4, Zenon DEF TableInv, MutexSound
<1>6. TableSound'
  BY <1>1, <1>2, <1>3, Zenon DEF TableInv, TableSound
<1>7. NoLostSession'
  <2>1. ASSUME NEW x \in Sess, x \in InTable, x # s PROVE x \in InTable'
    BY <1>1, <1>2, <2>1, Zenon DEF InTable
  <2> QED
    BY <1>1, <1>2, <1>4, <2>1, Zenon DEF TableInv, NoLostSession, Created
<1>8. Located'
  <2>1. \A i \in {sid[lsess[Req]]} \cap Ids : table'[i] \in {table[i], NoSess}
    BY <1>1, <1>2, Zenon
  <2>2. pc[Req] # "idle" => sid[lsess[Req]] \in Ids
    BY <1>1, LocalFacts, ThreadFacts, ZenonT(40) DEF TableInv, Located, Created, TypeOK, TableTypes
  <2>3. pc'[Req] = pc[Req]
    BY <1>1, <1>4, Zenon
  <2> QED
    BY <1>1, <1>2, <1>3, <1>4, <2>1, <2>2, <2>3, Zenon DEF TableInv, Located, Created
<1> QED
  BY <1>5, <1>6, <1>7, <1>8, Zenon DEF TableInv

\* A session in the table has an identifier.
LEMMA InTableCreated ==
    ASSUME TableInv
    PROVE  \A s \in InTable : Created(s)
<1> SUFFICES ASSUME NEW s \in Sess, NEW i \in Ids, table[i] = s PROVE Created(s)
  BY Zenon DEF InTable
<1>1. sid[s] = i
  BY NullsAssumption, Zenon DEF TableInv, TableSound
<1> QED
  BY <1>1, NullsAssumption, Zenon DEF Created

\* So does the watchdog.
LEMMA WatchdogTable ==
    ASSUME TypeOK, TableInv, Watchdog
    PROVE  TableInv'
<1>1. /\ Wd \in Threads /\ Wd \in Transports \cup {Wd} /\ Wd \notin Transports
      /\ pc \in [Threads -> Labels] /\ lsess \in [Threads -> Sess \cup {NoSess}]
      /\ \A s \in InTable : Created(s)
      /\ pc[Wd] # "idle" => sessions_mutex = Wd
      /\ NoTransport # Wd /\ NoSess \notin Sess
      /\ lsess[Wd] \in Sess => Created(lsess[Wd])
      /\ \A s \in todo : Created(s)
  <2>1. Wd \in Threads /\ Wd \in Transports \cup {Wd} /\ Wd \notin Transports /\ NoTransport # Wd /\ NoSess \notin Sess
    BY ThreadFacts, NullsAssumption, Zenon
  <2>2. pc \in [Threads -> Labels] /\ lsess \in [Threads -> Sess \cup {NoSess}]
    BY LocalFacts, Zenon
  <2>3. \A s \in InTable : Created(s)
    BY InTableCreated, Zenon
  <2>4. pc[Wd] # "idle" => sessions_mutex = Wd
    BY Zenon DEF TableInv, MutexSound
  <2>5. lsess[Wd] \in Sess => Created(lsess[Wd])
    BY <2>1, Zenon DEF TableInv, Located
  <2>6. \A s \in todo : Created(s)
    BY Zenon DEF TableInv, Located
  <2> QED
    BY <2>1, <2>2, <2>3, <2>4, <2>5, <2>6, Zenon
<1>2. ASSUME WdStart PROVE TableInv'
  BY <1>1, <1>2, QuietHolder, Zenon DEF WdStart, Goto, tableVars
<1>3. ASSUME NEW s \in Sess, WdCheck(s) PROVE TableInv'
  <2>1. /\ UNCHANGED <<table, sid, sdestroyed, sessions_mutex>> /\ pc'[Wd] # "idle"
        /\ pc[Wd] = "check" /\ s \in todo
        /\ \A q \in Threads \ {Wd} : pc'[q] = pc[q] /\ lsess'[q] = lsess[q]
        /\ lsess'[Wd] \in {lsess[Wd], s} /\ todo' \subseteq todo
    BY <1>1, <1>3, Zenon DEF WdCheck, Goto
  <2> QED
    BY <1>1, <2>1, QuietHolder, Zenon
<1>4. ASSUME WdClear PROVE TableInv'
  BY <1>1, <1>4, QuietHolder, Zenon DEF WdClear, Goto, tableVars
<1>5. ASSUME WdDestroy PROVE TableInv'
  BY <1>1, <1>5, QuietHolder, Zenon DEF WdDestroy, DestroyClear, Goto, tableVars
<1>6. ASSUME WdEnd PROVE TableInv'
  BY <1>1, <1>6, QuietHolder, Zenon DEF WdEnd, Goto, tableVars
<1>7. ASSUME NEW h \in Hnds, WdEndSession(h) PROVE TableInv'
  BY <1>7, StillTable, Zenon DEF WdEndSession, tableVars
<1> QED
  BY <1>2, <1>3, <1>4, <1>5, <1>6, <1>7, WdRemoveTable, Zenon DEF Watchdog

\* A transport that is gone destroys a session while it holds the lock ...
LEMMA TgMarkTable ==
    ASSUME TypeOK, TableInv, NEW t \in Transports, TgMark(t)
    PROVE  TableInv'
<1>1. /\ Req \in Threads \ {t} /\ Wd \in Threads \ {t}
      /\ t \in Threads /\ Transports \subseteq Threads
      /\ pc \in [Threads -> Labels]
      /\ table \in [Ids -> Sess \cup {NoSess}]
  BY ThreadFacts, LocalFacts, Zenon DEF TypeOK, TableTypes
<1>2. /\ pc[t] = "over" /\ sdestroyed' = sdestroyed \cup {lsess[t]}
      /\ UNCHANGED <<table, sid, sessions_mutex, todo, lsess>>
  BY Zenon DEF TgMark, MarkDestroyed
<1>3. lsess[t] \in Sess /\ Created(lsess[t]) /\ sessions_mutex = t
  BY <1>1, <1>2, LocalFacts, Zenon DEF TableInv, Located, MutexSound
<1>4. /\ pc'[t] \in {"destroy_clear", "remove"}
      /\ \A q \in Threads \ {t} : pc'[q] = pc[q]
  BY <1>1, Zenon DEF TgMark, MarkDestroyed, Goto
<1>5. MutexSound'
  BY <1>1, <1>2, <1>3, <1>4, Zenon DEF TableInv, MutexSound
<1>6. TableSound'
  BY <1>1, <1>2, <1>3, <1>4, Zenon DEF TableInv, TableSound
<1>7. NoLostSession'
  BY <1>1, <1>2, <1>4, Zenon DEF TableInv, NoLostSession, Created, InTable
<1>8. Located'
  BY <1>1, <1>2, <1>3, <1>4, Zenon DEF TableInv, Located, Created
<1> QED
  BY <1>5, <1>6, <1>7, <1>8, Zenon DEF TableInv

\* ... and removes it from the table before it goes on.
LEMMA TgRemoveTable ==
    ASSUME TypeOK, TableInv, NEW t \in Transports, TgRemove(t)
    PROVE  TableInv'
<1> DEFINE s == lsess[t]
<1>1. /\ Req \in Threads \ {t} /\ Wd \in Threads \ {t}
      /\ t \in Threads /\ Transports \subseteq Threads
      /\ pc \in [Threads -> Labels]
      /\ table \in [Ids -> Sess \cup {NoSess}]
  BY ThreadFacts, LocalFacts, Zenon DEF TypeOK, TableTypes
<1>2. /\ pc[t] = "remove"
      /\ table' = [i \in Ids |-> IF table[i] = s THEN NoSess ELSE table[i]]
      /\ UNCHANGED <<sid, sdestroyed, sessions_mutex, todo, lsess>>
  BY Zenon DEF TgRemove
<1>3. s \in Sess /\ s \in sdestroyed /\ sessions_mutex = t
  BY <1>1, <1>2, LocalFacts, Zenon DEF TableInv, Located, MutexSound
<1>4. pc'[t] = "gone" /\ \A q \in Threads \ {t} : pc'[q] = pc[q]
  BY <1>1, Zenon DEF TgRemove, Goto
<1>5. MutexSound'
  BY <1>1, <1>2, <1>3, <1>4, Zenon DEF TableInv, MutexSound
<1>6. TableSound'
  BY <1>1, <1>2, <1>3, Zenon DEF TableInv, TableSound
<1>7. NoLostSession'
  <2>1. ASSUME NEW x \in Sess, x \in InTable, x # s PROVE x \in InTable'
    BY <1>1, <1>2, <2>1, Zenon DEF InTable
  <2> HIDE DEF s
  <2> QED
    BY <1>1, <1>2, <1>3, <1>4, <2>1, Zenon DEF TableInv, NoLostSession, Created
<1>8. Located'
  <2>1. \A i \in {sid[lsess[Req]]} \cap Ids : table'[i] \in {table[i], NoSess}
    BY <1>1, <1>2, Zenon
  <2>2. pc[Req] # "idle" => sid[lsess[Req]] \in Ids
    BY <1>1, LocalFacts, ThreadFacts, ZenonT(40) DEF TableInv, Located, Created, TypeOK, TableTypes
  <2> QED
    BY <1>1, <1>2, <1>3, <1>4, <2>1, <2>2, Zenon DEF TableInv, Located, Created
<1> QED
  BY <1>5, <1>6, <1>7, <1>8, Zenon DEF TableInv

\* So does a transport's thread.
LEMMA TransportTable ==
    ASSUME TypeOK, TableInv, NEW t \in Transports, TransportThread(t)
    PROVE  TableInv'
<1>1. /\ t \in Threads /\ t \in Transports \cup {Wd}
      /\ pc \in [Threads -> Labels] /\ lsess \in [Threads -> Sess \cup {NoSess}]
      /\ \A s \in InTable : Created(s)
      /\ pc[t] # "idle" => sessions_mutex = t
      /\ NoTransport # t /\ NoSess \notin Sess
      /\ lsess[t] \in Sess => Created(lsess[t])
      /\ pc[t] = "destroy_clear" => lsess[t] \in sdestroyed
      /\ \A s \in todo : Created(s)
  <2>1. t \in Threads /\ t \in Transports \cup {Wd} /\ NoTransport # t /\ NoSess \notin Sess
    BY ThreadFacts, NullsAssumption, Zenon
  <2>2. pc \in [Threads -> Labels] /\ lsess \in [Threads -> Sess \cup {NoSess}]
    BY LocalFacts, Zenon
  <2>3. \A s \in InTable : Created(s)
    BY InTableCreated, Zenon
  <2>4. pc[t] # "idle" => sessions_mutex = t
    BY Zenon DEF TableInv, MutexSound
  <2>5. lsess[t] \in Sess => Created(lsess[t])
    BY <2>1, Zenon DEF TableInv, Located
  <2>6. \A s \in todo : Created(s)
    BY Zenon DEF TableInv, Located
  <2>7. pc[t] = "destroy_clear" => lsess[t] \in sdestroyed
    BY Zenon DEF TableInv, Located
  <2> QED
    BY <2>1, <2>2, <2>3, <2>4, <2>5, <2>6, <2>7, Zenon
<1>2. ASSUME TgStart(t) PROVE TableInv'
  BY <1>1, <1>2, QuietHolder, Zenon DEF TgStart, Goto, tableVars
<1>3. ASSUME NEW s \in Sess, TgCheck(t, s) PROVE TableInv'
  <2>1. /\ UNCHANGED <<table, sid, sdestroyed, sessions_mutex>> /\ pc'[t] \in {"gone", "over"}
        /\ pc[t] = "gone" /\ s \in todo
        /\ \A q \in Threads \ {t} : pc'[q] = pc[q] /\ lsess'[q] = lsess[q]
        /\ lsess'[t] \in {lsess[t], s} /\ todo' \subseteq todo
    BY <1>1, <1>3, Zenon DEF TgCheck, Goto, tableVars
  <2> QED
    BY <1>1, <2>1, QuietHolder, Zenon
<1>4. ASSUME TgFlag(t) PROVE TableInv'
  BY <1>1, <1>4, QuietHolder, Zenon DEF TgFlag, Goto
<1>5. ASSUME TgClear(t) PROVE TableInv'
  BY <1>1, <1>5, QuietHolder, Zenon DEF TgClear, DestroyClear, Goto, tableVars
<1>6. ASSUME TgEnd(t) PROVE TableInv'
  BY <1>1, <1>6, QuietHolder, Zenon DEF TgEnd, Goto, tableVars
<1> QED
  BY <1>2, <1>3, <1>4, <1>5, <1>6, TgMarkTable, TgRemoveTable, Zenon DEF TransportThread

-----------------------------------------------------------------------------
(* The invariant *)

\* The invariant of the table holds initially: there are no sessions.
LEMMA TableInit == Init => TableInv
<1> SUFFICES ASSUME Init PROVE TableInv
  BY Zenon
<1>1. MutexSound
  BY ThreadFacts, NullsAssumption, Zenon DEF Init, MutexSound
<1>2. TableSound /\ NoLostSession
  BY Zenon DEF Init, TableSound, NoLostSession, Created
<1>3. Located
  BY ThreadFacts, NullsAssumption, Zenon DEF Init, Located
<1> QED
  BY <1>1, <1>2, <1>3, Zenon DEF TableInv

\* Every step keeps the invariant of the table.
LEMMA TableStep == TypeOK /\ TableInv /\ [Next]_vars => TableInv'
<1> SUFFICES ASSUME TypeOK, TableInv, [Next]_vars PROVE TableInv'
  BY Zenon
<1>1. ASSUME NEW h \in Hnds, EndSession(h) \/ Loop(h) \/ PluginUnref(h) PROVE TableInv'
  BY <1>1, StillTable, Zenon DEF EndSession, Loop, LoopDetach, LoopEnd, PluginUnref, tableVars
<1>2. ASSUME Tick PROVE TableInv'
  BY <1>2, StillTable, Zenon DEF Tick
<1>3. CASE UNCHANGED vars
  BY <1>3, StillTable, Zenon DEF vars, tableVars
<1> QED
  BY <1>1, <1>2, <1>3, RequestsTable, WorkerTable, WatchdogTable, TransportTable, Zenon DEF Next
=============================================================================
