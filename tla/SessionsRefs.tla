---------------------------- MODULE SessionsRefs ----------------------------
(* The invariant behind the reference counters: handles' loops and plugins     *)
(* keep the counters exact, as the threads do, and every step keeps the other  *)
(* parts, about handles, destroyed and new sessions and tasks.                 *)
EXTENDS SessionsCounters

-----------------------------------------------------------------------------
(* Steps of a handle's count *)

\* The table's reference to a handle and the plugin session's go, if they were there ...
LEMMA HandleEnded ==
    ASSUME CountLaws, NEW h, NEW a \in {0, 1}, NEW b \in {0, 1},
           One(h \in listed)' = One(h \in listed) - a, One(pref[h] > 0)' = One(pref[h] > 0) - b,
           hsess'[h] = hsess[h], app'[h] = app[h], LoopRefs(h)' = LoopRefs(h),
           Cardinality(HandleUsers(h)') = Cardinality(HandleUsers(h))
    PROVE  HandleCount(h)' = HandleCount(h) - (a + b) /\ HandleCount(h)' >= 0
<1>1. HandleCount(h)' = One(hsess[h] # NoSess /\ app[h] \in {"none", "alive"}) + (One(h \in listed) - a)
                          + Cardinality(HandleUsers(h)) + (One(pref[h] > 0) - b) + LoopRefs(h)
  BY Zenon DEF HandleCount
<1>2. /\ One(h \in listed)' \in {0, 1} /\ One(pref[h] > 0)' \in {0, 1} /\ LoopRefs(h) \in Nat
      /\ One(hsess[h] # NoSess /\ app[h] \in {"none", "alive"}) \in {0, 1}
      /\ One(h \in listed) \in {0, 1} /\ One(pref[h] > 0) \in {0, 1} /\ Cardinality(HandleUsers(h)) \in Nat
  BY CountNumbers, Zenon DEF One
<1> QED
  BY <1>1, <1>2 DEF HandleCount

\* ... or its loop's references change by n.
LEMMA HandleLooped ==
    ASSUME CountLaws, NEW h, NEW n \in Int, LoopRefs(h)' = LoopRefs(h) + n,
           One(hsess[h] # NoSess /\ app[h] \in {"none", "alive"})'
              = One(hsess[h] # NoSess /\ app[h] \in {"none", "alive"}),
           listed' = listed, pref'[h] = pref[h],
           Cardinality(HandleUsers(h)') = Cardinality(HandleUsers(h))
    PROVE  HandleCount(h)' = HandleCount(h) + n /\ HandleCount(h)' >= 0
<1>1. HandleCount(h)' = One(hsess[h] # NoSess /\ app[h] \in {"none", "alive"}) + One(h \in listed)
                          + Cardinality(HandleUsers(h)) + One(pref[h] > 0) + (LoopRefs(h) + n)
  BY Zenon DEF HandleCount
<1>2. /\ LoopRefs(h)' \in Nat /\ LoopRefs(h) \in Nat /\ Cardinality(HandleUsers(h)) \in Nat
      /\ One(hsess[h] # NoSess /\ app[h] \in {"none", "alive"}) \in {0, 1}
      /\ One(h \in listed) \in {0, 1} /\ One(pref[h] > 0) \in {0, 1}
  BY CountNumbers, Zenon DEF One, LoopRefs
<1> QED
  BY <1>1, <1>2 DEF HandleCount

\* A plugin session that is referred to, before and after a reference to it is dropped.
LEMMA PluginSums ==
    \A n \in Int : n >= 1 => One(n > 0) = 1 /\ One(n - 1 > 0) = One(n > 0) - One(n = 1) /\ One(n = 1) \in {0, 1}
BY DEF One

\* One reference, taken from what is counted.
LEMMA SumLess == \A n \in Int : n + (-1) = n - 1 /\ \A i \in {0, 1} : n - (0 + i) = n - i
OBVIOUS

-----------------------------------------------------------------------------
(* The counters *)

\* Every step of the requests thread keeps the counters exact.
LEMMA RequestsExact ==
    ASSUME CountLaws, TypeOK, TypeOK', RefsInv, RequestsThread
    PROVE  RefsExact'
<1>0. RefsExact /\ HandleFacts /\ TableInv /\ CreationFacts
  BY Zenon DEF RefsInv
<1>x. /\ Req \in Workers /\ Req \in Threads /\ Workers \subseteq Threads
      /\ pc \in [Threads -> Labels] /\ lsess \in [Threads -> Sess \cup {NoSess}]
      /\ pc[Req] # "idle" => lsess[Req] \in Sess
      /\ pc[Req] \in {"attach_plugin", "attach_loop", "detach"} => lhnd[Req] \in Hnds
  BY LocalFacts, ThreadFacts, Zenon
<1>1. ASSUME NEW i \in Ids, NEW t \in Transports, CreateConflict(i, t) PROVE RefsExact'
  <2>1. lsess[Req] = NoSess /\ table[i] \in Sess
    BY <1>0, <1>1, <1>x, ZenonT(40) DEF CreateConflict, HandleFacts, TypeOK, TableTypes
  <2> QED
    BY <1>0, <1>1, <1>x, <2>1, ExactTakeSession, NullsAssumption, Zenon DEF CreateConflict, tableVars
<1>2. ASSUME NEW i \in Ids, NEW s \in Sess, NEW t \in Transports, CreateSession(i, s, t) PROVE RefsExact'
  <2>0. SessionsExact /\ HandlesExact
    BY <1>0, ExactParts, Zenon
  <2>1. /\ pc[Req] = "idle" /\ lsess[Req] = NoSess /\ sid[s] = NoId
        /\ sid' = [sid EXCEPT ![s] = i] /\ sref' = [sref EXCEPT ![s] = 1]
        /\ pc'[Req] = "created" /\ lsess'[Req] = s
        /\ \A q \in Threads \ {Req} : pc'[q] = pc[q] /\ lsess'[q] = lsess[q]
        /\ UNCHANGED <<sdestroyed, handleVars, href, lhnd>>
        /\ sid \in [Sess -> Ids \cup {NoId}] /\ sref \in [Sess -> Int]
    BY <1>0, <1>2, <1>x, Zenon DEF CreateSession, Goto, HandleFacts, TypeOK, TableTypes, RefTypes
  <2>2. HandlesExact'
    BY <2>0, <2>1, HandlesKept, Zenon DEF HandleUsers, handleVars
  <2>3. \A x \in Sess : UsersOf(x)' = UsersOf(x) /\ LiveHandlesOf(x)' = LiveHandlesOf(x)
    BY <1>x, <2>1, NullsAssumption DEF UsersOf, LiveHandlesOf, handleVars
  <2>4. UsersOf(s) = {} /\ LiveHandlesOf(s) = {} /\ s \notin sdestroyed
    <3>1. \A p \in Threads : lsess[p] # s
      BY <1>0, <2>1, Zenon DEF TableInv, Located, Created
    <3>2. \A h \in Hnds : hsess[h] # s
      BY <1>0, <2>1, NullsAssumption, Zenon DEF HandleFacts, Created
    <3> QED
      BY <1>0, <1>x, <2>1, <3>1, <3>2, ZenonT(40) DEF UsersOf, LiveHandlesOf, TableInv, Located, Created
  <2>5. \A x \in Sess \ {s} : HasInitialRef(x)' <=> HasInitialRef(x)
    BY <1>x, <2>1, ZenonT(40) DEF HasInitialRef, Created
  <2>6. HasInitialRef(s)'
    BY <2>1, <2>4, NullsAssumption, Zenon DEF HasInitialRef, Created
  <2>7. sref'[s] = 1 /\ Cardinality(UsersOf(s)') = 0 /\ Cardinality(LiveHandlesOf(s)') = 0
    BY <2>1, <2>3, <2>4, NoneCounted, Zenon
  <2>8. SessionsExact'
    <3>1. SessionCount(s)' = 1
      BY <2>6, <2>7 DEF SessionCount, One
    <3>2. ASSUME NEW x \in Sess \ {s}
          PROVE  sref'[x] - Cardinality(LiveHandlesOf(x)') = SessionCount(x)'
      BY <2>0, <2>1, <2>3, <2>5, Zenon DEF SessionsExact, SessionCount, One
    <3> QED
      BY <2>7, <3>1, <3>2 DEF SessionsExact
  <2> QED
    BY <2>2, <2>8, ExactParts, Zenon
<1>3. ASSUME CreateSource PROVE RefsExact'
  <2>1. lsess' = [lsess EXCEPT ![Req] = lsess[Req]] /\ lsess[Req] \in Sess /\ pc[Req] = "created"
    BY <1>3, <1>x, Zenon DEF CreateSource
  <2> QED
    BY <1>0, <1>3, <1>x, <2>1, ExactTakeSession, Zenon DEF CreateSource
<1>4. ASSUME Claim PROVE RefsExact'
  BY <1>0, <1>4, <1>x, ExactGoto, Zenon DEF Claim
<1>5. ASSUME NEW op \in {"attach", "destroy", "claim", "done"}, NEW admin \in BOOLEAN,
             SessionRequest(op, admin)
      PROVE  RefsExact'
  BY <1>0, <1>5, <1>x, ExactGoto, Zenon DEF SessionRequest
<1>6. ASSUME NEW h \in Hnds, AttachCreate(h) PROVE RefsExact'
  BY <1>6, ExactAttach, Zenon
<1>7. ASSUME AttachNone PROVE RefsExact'
  BY <1>0, <1>7, <1>x, ExactGoto, Zenon DEF AttachNone, tableVars
<1>8. ASSUME AttachPlugin PROVE RefsExact'
  <2>1. PICK h \in Hnds : h = lhnd[Req]
    BY <1>8, <1>x, Zenon DEF AttachPlugin
  <2>2. /\ hsess[h] # NoSess /\ href[h] = HandleCount(h) /\ pref[h] = PluginCount(h)
        /\ Cardinality(HandleUsers(h)) \in Nat \ {0} /\ LoopRefs(h) \in Nat
    BY <2>1, OwnHandle, Zenon
  <2>3. app[h] = "none" /\ h \notin plugged \cup ending
    BY <1>0, <1>8, <2>1, Zenon DEF AttachPlugin, HandleFacts
  <2>4. /\ app'[h] = "alive" /\ pref'[h] = 2 /\ plugged' = plugged \cup {h} /\ href'[h] = href[h] + 1
        /\ \A x \in Hnds \ {h} : href'[x] = href[x] /\ pref'[x] = pref[x] /\ app'[x] = app[x]
        /\ UNCHANGED <<sid, sdestroyed, lsess, lhnd, hsess, sref, loop, listed, ending>>
    <3>1. /\ app \in [Hnds -> {"none", "alive", "stopped", "detached"}]
          /\ href \in [Hnds -> Int] /\ pref \in [Hnds -> Int]
      BY Zenon DEF TypeOK, HandleTypes, RefTypes
    <3>2. /\ app' = [app EXCEPT ![h] = "alive"] /\ pref' = [pref EXCEPT ![h] = 2]
          /\ plugged' = plugged \cup {h} /\ href' = [href EXCEPT ![h] = @ + 1]
          /\ UNCHANGED <<sid, sdestroyed, lsess, lhnd, hsess, sref, loop, listed, ending>>
      BY <1>8, <2>1, Zenon DEF AttachPlugin, tableVars
    <3> QED
      BY <3>1, <3>2, Zenon
  <2>5. pref[h] = 0
    BY <2>2, <2>3 DEF PluginCount, One
  <2>6. HandleCount(h) = 1 + One(h \in listed) + Cardinality(HandleUsers(h)) + LoopRefs(h)
    BY <2>2, <2>3, <2>5 DEF HandleCount, One
  <2>7. HandleCount(h)' = 1 + One(h \in listed) + Cardinality(HandleUsers(h)) + 1 + LoopRefs(h)
    BY <2>2, <2>4 DEF HandleCount, One, HandleUsers, LoopRefs
  <2>8. PluginCount(h)' = 2
    BY <2>3, <2>4 DEF PluginCount, One
  <2>9. href[h] > 0 /\ href'[h] > 0 /\ href'[h] = HandleCount(h)'
    BY <2>2, <2>4, <2>6, <2>7, CountNumbers
  <2> QED
    BY <1>8, <2>4, <2>8, <2>9, ExactOwnHandle, ZenonT(40) DEF AttachPlugin
<1>9. ASSUME AttachPluginError PROVE RefsExact'
  BY <1>9, <1>x, ExactHandles, Zenon DEF AttachPluginError, tableVars
<1>10. ASSUME AttachLoop PROVE RefsExact'
  <2>1. PICK h \in Hnds : h = lhnd[Req]
    BY <1>10, <1>x, Zenon DEF AttachLoop
  <2>2. /\ href[h] = HandleCount(h) /\ pref[h] = PluginCount(h)
        /\ Cardinality(HandleUsers(h)) \in Nat \ {0}
    BY <2>1, OwnHandle, Zenon
  <2>3. loop[h] = "none"
    BY <1>0, <1>10, <2>1, Zenon DEF AttachLoop, HandleFacts
  <2>4. /\ loop'[h] = "running" /\ href'[h] = href[h] + 2
        /\ \A x \in Hnds \ {h} : href'[x] = href[x] /\ loop'[x] = loop[x]
        /\ UNCHANGED <<sid, sdestroyed, lsess, lhnd, hsess, sref, app, pref, listed, plugged, ending>>
    <3>1. /\ loop \in [Hnds -> {"none", "running", "quit", "ended", "dead"}] /\ href \in [Hnds -> Int]
      BY Zenon DEF TypeOK, HandleTypes, RefTypes
    <3>2. /\ loop' = [loop EXCEPT ![h] = "running"] /\ href' = [href EXCEPT ![h] = @ + 2]
          /\ UNCHANGED <<sid, sdestroyed, lsess, lhnd, hsess, sref, app, pref, listed, plugged, ending>>
      BY <1>10, <2>1, Zenon DEF AttachLoop, tableVars
    <3> QED
      BY <3>1, <3>2, Zenon
  <2>5. LoopRefs(h) = 0 /\ LoopRefs(h)' = 2
    BY <2>3, <2>4, Zenon DEF LoopRefs
  <2>6. HandleCount(h)' = HandleCount(h) + 2 /\ HandleCount(h) > 0
    <3>1. LoopRefs(h)' = LoopRefs(h) + 2 /\ 2 \in Int
      BY <2>5
    <3>2. HandleCount(h)' = HandleCount(h) + 2
      BY <2>4, <3>1, HandleLooped, Zenon DEF HandleUsers
    <3> QED
      BY <2>2, <3>2, CountNumbers
  <2>7. PluginCount(h)' = PluginCount(h)
    BY <2>4, Zenon DEF PluginCount
  <2> QED
    BY <1>10, <2>2, <2>4, <2>6, <2>7, CountNumbers, ExactOwnHandle, SMTT(40) DEF AttachLoop
<1>11. ASSUME AttachLoopError PROVE RefsExact'
  <2>1. PICK h \in Hnds : h = lhnd[Req]
    BY <1>11, <1>x, Zenon DEF AttachLoopError
  <2>2. /\ hsess[h] # NoSess /\ href[h] = HandleCount(h) /\ pref[h] = PluginCount(h)
        /\ Cardinality(HandleUsers(h)) \in Nat \ {0}
    BY <2>1, OwnHandle, Zenon
  <2>3. loop[h] = "none"
    BY <1>0, <1>11, <2>1, Zenon DEF AttachLoopError, HandleFacts
  <2>4. /\ loop' = [loop EXCEPT ![h] = "dead"] /\ listed' = listed \ {h}
        /\ app' = [app EXCEPT ![h] = IF h \in Detaching({h}) THEN "stopped" ELSE @]
        /\ pref' = [pref EXCEPT ![h] = @ - One(h \in Detaching({h}))]
        /\ href' = [href EXCEPT ![h] = @ + 1 - One(h \in listed) - One(h \in Detaching({h}))]
        /\ UNCHANGED <<sid, sdestroyed, lsess, lhnd, hsess, sref, plugged, ending>>
    BY <1>11, <2>1, Zenon DEF AttachLoopError, tableVars
  <2>5. \A x \in Hnds \ {h} : /\ href'[x] = href[x] /\ loop'[x] = loop[x] /\ app'[x] = app[x]
                               /\ pref'[x] = pref[x] /\ (x \in listed' <=> x \in listed)
    BY <2>4, SMTT(40) DEF TypeOK, HandleTypes, RefTypes
  <2>6. /\ LoopRefs(h) = 0 /\ LoopRefs(h)' = 1 /\ h \notin listed'
        /\ Cardinality(HandleUsers(h)') = Cardinality(HandleUsers(h))
    BY <2>3, <2>4, ZenonT(40) DEF LoopRefs, HandleUsers, TypeOK, HandleTypes
  <2>7. href'[h] > 0 /\ href'[h] = HandleCount(h)' /\ pref'[h] = PluginCount(h)'
    <3>1. CASE h \in Detaching({h})
      <4>1. app[h] = "alive" /\ h \in plugged
        BY <1>0, <3>1, Zenon DEF Detaching, HandleFacts
      <4>2. app'[h] = "stopped" /\ pref'[h] = pref[h] - 1 /\ href'[h] = href[h] - One(h \in listed)
        BY <2>4, <3>1, SMTT(40) DEF One, TypeOK, HandleTypes, RefTypes
      <4>3. pref[h] = 2 + One(h \in ending) /\ One(h \in ending) \in {0, 1}
        BY <2>2, <4>1 DEF PluginCount, One
      <4>4. pref'[h] = PluginCount(h)' /\ pref'[h] > 0 /\ pref[h] > 0
        BY <2>4, <4>1, <4>2, <4>3 DEF PluginCount, One
      <4>5. HandleCount(h) = 1 + One(h \in listed) + Cardinality(HandleUsers(h)) + 1
        BY <2>2, <2>6, <4>1, <4>4 DEF HandleCount, One
      <4>6. HandleCount(h)' = Cardinality(HandleUsers(h)) + 2
        BY <2>2, <2>4, <2>6, <4>2, <4>4, SMTT(40) DEF HandleCount, One
      <4> QED
        BY <2>2, <4>2, <4>4, <4>5, <4>6, CountNumbers
    <3>2. CASE h \notin Detaching({h})
      <4>1. app'[h] = app[h] /\ pref'[h] = pref[h] /\ href'[h] = href[h] + 1 - One(h \in listed)
        BY <2>4, <3>2, SMTT(40) DEF One, TypeOK, HandleTypes, RefTypes
      <4>2. pref'[h] = PluginCount(h)'
        BY <2>2, <2>4, <4>1, Zenon DEF PluginCount
      <4>3. HandleCount(h)' = HandleCount(h) - One(h \in listed) + 1 /\ HandleCount(h)' > 0
        BY <2>2, <2>4, <2>6, <4>1, SMTT(40) DEF HandleCount, One
      <4> QED
        BY <2>2, <4>1, <4>2, <4>3, CountNumbers, SMTT(40)
    <3> QED
      BY <3>1, <3>2, Zenon
  <2>8. href[h] > 0
    BY <2>2, CountNumbers
  <2>9. /\ Goto(Req, "done") /\ pc[Req] = "attach_loop"
        /\ UNCHANGED <<sid, sdestroyed, lsess, lhnd, hsess, sref, plugged, ending>>
    BY <1>11, <2>4, Zenon DEF AttachLoopError
  <2> QED
    BY <2>5, <2>7, <2>8, <2>9, ExactOwnHandle, Zenon
<1>12. ASSUME DestroyRemove PROVE RefsExact'
  BY <1>0, <1>12, <1>x, ExactGoto, Zenon DEF DestroyRemove
<1>13. ASSUME DestroyMark PROVE RefsExact'
  BY <1>0, <1>13, <1>x, ExactMark, Zenon DEF DestroyMark
<1>14. ASSUME DestroyHandles PROVE RefsExact'
  BY <1>14, <1>x, ExactClear, Zenon DEF DestroyHandles, DestroyClear
<1>15. ASSUME Detach PROVE RefsExact'
  <2>1. CASE app[lhnd[Req]] \in {"alive", "stopped"}
    BY <1>15, <1>x, <2>1, ExactHandles, Zenon DEF Detach, tableVars
  <2>2. CASE app[lhnd[Req]] \notin {"alive", "stopped"}
    BY <1>0, <1>15, <1>x, <2>2, ExactGoto, Zenon DEF Detach, tableVars
  <2> QED
    BY <2>1, <2>2, Zenon
<1> QED
  BY <1>1, <1>2, <1>3, <1>4, <1>5, <1>6, <1>7, <1>8, <1>9, <1>10, <1>11, <1>12, <1>13,
     <1>14, <1>15, Zenon DEF RequestsThread

\* The watchdog keeps the counters exact ...
LEMMA WatchdogExact ==
    ASSUME CountLaws, TypeOK, TypeOK', RefsInv, Watchdog
    PROVE  RefsExact'
<1>0. RefsExact /\ HandleFacts /\ TableInv
  BY Zenon DEF RefsInv
<1>x. /\ Wd \in Threads /\ pc \in [Threads -> Labels] /\ lsess \in [Threads -> Sess \cup {NoSess}]
      /\ pc[Wd] \in {"clear", "remove", "destroy_clear"} => lsess[Wd] \in Sess
      /\ \A s : HandlesOf(s) \in SUBSET Hnds
  BY LocalFacts, ThreadFacts, CounterFacts, Zenon
<1>1. ASSUME WdStart PROVE RefsExact'
  BY <1>0, <1>1, <1>x, ExactHolder, Zenon DEF WdStart, Goto, tableVars
<1>2. ASSUME WdClear PROVE RefsExact'
  BY <1>2, <1>x, ExactHandles, Zenon DEF WdClear, tableVars
<1>3. ASSUME WdRemove PROVE RefsExact'
  BY <1>0, <1>3, <1>x, ExactMark, Zenon DEF WdRemove
<1>4. ASSUME WdDestroy PROVE RefsExact'
  BY <1>4, <1>x, ExactClear, Zenon DEF WdDestroy, DestroyClear
<1>5. ASSUME WdEnd PROVE RefsExact'
  BY <1>0, <1>5, <1>x, ExactHolder, Zenon DEF WdEnd, Goto, tableVars
<1>6. ASSUME NEW s \in Sess, WdCheck(s) PROVE RefsExact'
  <2>1. /\ \A q \in Threads \ {Wd} : pc'[q] = pc[q] /\ lsess'[q] = lsess[q]
        /\ pc[Wd] # "destroy_clear" /\ pc'[Wd] # "destroy_clear"
        /\ UNCHANGED <<sid, sdestroyed, handleVars, refVars, lhnd>>
    BY <1>6, <1>x, Zenon DEF WdCheck, Goto
  <2> QED
    BY <1>0, <2>1, ExactHolder, Zenon
<1>7. ASSUME NEW h \in Hnds, WdEndSession(h) PROVE RefsExact'
  <2>0. SessionsExact /\ HandlesExact
    BY <1>0, ExactParts, Zenon
  <2> DEFINE H == {h} \ hdestroyed
             dec == [x \in Hnds |-> One(x = h /\ h \in H \cap listed) + One(x = h /\ h \in Detaching(H))
                                    + One(x = h /\ LastPluginRef(h))]
  <2>1. /\ h \in ending /\ ending' = ending \ {h} /\ listed' = listed \ H
        /\ app' = [app EXCEPT ![h] = IF h \in Detaching(H) THEN "stopped" ELSE @]
        /\ pref' = [pref EXCEPT ![h] = @ - 1 - One(h \in Detaching(H))]
        /\ Unref(dec, NoneS)
        /\ UNCHANGED <<sid, sdestroyed, pc, lsess, lhnd, hsess, plugged, loop>>
    BY <1>7, Zenon DEF WdEndSession, tableVars, threadVars
  <2>2. /\ dec \in [Hnds -> Int] /\ \A x \in Hnds \ {h} : dec[x] = 0
        /\ dec[h] = One(h \in H \cap listed) + One(h \in Detaching(H)) + One(LastPluginRef(h))
    BY DEF One
  <2> HIDE DEF dec
  <2>3. /\ app \in [Hnds -> {"none", "alive", "stopped", "detached"}] /\ pref \in [Hnds -> Int]
        /\ href \in [Hnds -> Int] /\ sref \in [Sess -> Int] /\ sref' \in [Sess -> Int]
    BY Zenon DEF TypeOK, HandleTypes, RefTypes
  <2>4. /\ href[h] = HandleCount(h) /\ pref[h] = PluginCount(h) /\ hsess[h] # NoSess /\ app[h] # "none"
        /\ app[h] \in {"alive", "stopped"} => h \in plugged
    BY <1>0, <2>0, <2>1, Zenon DEF HandlesExact, HandleFacts
  <2>5. /\ LoopRefs(h)' = LoopRefs(h) /\ LoopRefs(h) \in Nat /\ Cardinality(HandleUsers(h)) \in Nat
        /\ \A x \in Hnds : Cardinality(HandleUsers(x)') = Cardinality(HandleUsers(x))
    <3>1. LoopRefs(h)' = LoopRefs(h) /\ LoopRefs(h) \in Nat
      BY <2>1, Zenon DEF LoopRefs
    <3>2. \A x \in Hnds : HandleUsers(x)' = HandleUsers(x)
      BY <2>1, Zenon DEF HandleUsers
    <3> QED
      BY <3>1, <3>2, CountTypes, Zenon
  <2>6. href[h] - dec[h] = HandleCount(h)' /\ pref'[h] = PluginCount(h)' /\ dec[h] >= 0 /\ HandleCount(h)' >= 0
    <3>1. CASE h \in Detaching(H)
      <4>1. app[h] = "alive" /\ h \in plugged /\ h \in H /\ app'[h] = "stopped" /\ pref'[h] = pref[h] - 2
        BY <2>1, <2>3, <2>4, <3>1 DEF Detaching, One
      <4>2. pref[h] = 3 /\ pref'[h] = 1 /\ ~LastPluginRef(h)
        BY <2>1, <2>4, <4>1, SMTT(40) DEF PluginCount, One, LastPluginRef
      <4>3. pref'[h] = PluginCount(h)'
        BY <2>1, <4>1, <4>2 DEF PluginCount, One
      <4>4. dec[h] = One(h \in listed) + 1
        BY <2>2, <3>1, <4>1, <4>2, SMTT(40) DEF One
      <4>5. HandleCount(h) = 1 + One(h \in listed) + Cardinality(HandleUsers(h)) + 1 + LoopRefs(h)
        BY <2>4, <4>1, <4>2, SMTT(40) DEF HandleCount, One
      <4>6. HandleCount(h)' = Cardinality(HandleUsers(h)) + 1 + LoopRefs(h)
        BY <2>1, <2>5, <4>1, <4>2, SMTT(40) DEF HandleCount, One
      <4> QED
        BY <2>4, <2>5, <4>3, <4>4, <4>5, <4>6 DEF One
    <3>2. CASE h \notin Detaching(H)
      <4>1. app'[h] = app[h] /\ pref'[h] = pref[h] - 1 /\ pref[h] \in Int
        BY <2>1, <2>3, <3>2 DEF One
      <4>2. pref'[h] = PluginCount(h)' /\ pref[h] >= 1
        BY <2>1, <2>4, <4>1, SMTT(40) DEF PluginCount, One
      <4>3. dec[h] = One(h \in H \cap listed) + One(pref[h] = 1)
        BY <2>2, <3>2 DEF One, LastPluginRef
      <4>4. One(pref[h] > 0)' = One(pref[h] > 0) - One(pref[h] = 1)
        <5>1. One(pref[h] - 1 > 0) = One(pref[h] > 0) - One(pref[h] = 1)
          BY <4>1, <4>2, PluginSums, Zenon
        <5> QED
          BY <4>1, <5>1, Zenon
      <4>5. One(h \in listed)' = One(h \in listed) - One(h \in H \cap listed)
        BY <2>1 DEF One
      <4>6. One(h \in H \cap listed) \in {0, 1} /\ One(pref[h] = 1) \in {0, 1}
        BY Zenon DEF One
      <4>7. HandleCount(h)' = HandleCount(h) - (One(h \in H \cap listed) + One(pref[h] = 1)) /\ HandleCount(h)' >= 0
        BY <2>1, <2>5, <4>1, <4>4, <4>5, <4>6, HandleEnded, Zenon
      <4>8. One(h \in H \cap listed) + One(pref[h] = 1) >= 0
        BY <4>6
      <4> QED
        BY <2>4, <4>2, <4>3, <4>7, <4>8, Zenon
    <3> QED
      BY <3>1, <3>2, Zenon
  <2>7. \A x \in Hnds : href'[x] = href[x] - dec[x] /\ href[x] \in Int
    BY <2>1, <2>3, Zenon DEF Unref
  <2>8. HandlesExact'
    <3>1. \A x \in Hnds \ {h} :
             /\ href'[x] = href[x] /\ pref'[x] = pref[x] /\ app'[x] = app[x]
             /\ (x \in listed' <=> x \in listed) /\ (x \in ending' <=> x \in ending)
             /\ (x \in plugged' <=> x \in plugged) /\ hsess'[x] = hsess[x] /\ loop'[x] = loop[x]
      <4>1. \A x \in Hnds \ {h} : href'[x] = href[x]
        BY <2>2, <2>7, SumZero, Zenon
      <4>2. \A x \in Hnds \ {h} : pref'[x] = pref[x] /\ app'[x] = app[x]
        BY <2>1, <2>3, Zenon
      <4> QED
        BY <2>1, <4>1, <4>2, Zenon
    <3>2. href'[h] = HandleCount(h)' /\ pref'[h] = PluginCount(h)'
      BY <2>6, <2>7, Zenon
    <3> QED
      BY <2>0, <2>5, <3>1, <3>2, OneHandle, Zenon
  <2>9. \A x \in Hnds : dec[x] >= 0 /\ href[x] - dec[x] >= 0
    <3>1. \A x \in Hnds : href[x] \in Nat
      BY <2>0, CountNumbers, Zenon DEF HandlesExact
    <3>2. ASSUME NEW x \in Hnds PROVE dec[x] >= 0 /\ href[x] - dec[x] >= 0
      <4>1. CASE x = h
        BY <2>6, <4>1, Zenon
      <4>2. CASE x # h
        BY <2>2, <2>7, <3>1, <4>2, SumZero, NatSign, ZenonT(40)
      <4> QED
        BY <4>1, <4>2, Zenon
    <3> QED
      BY <3>2, Zenon
  <2>10. NoneS \in [Sess -> Int] /\ \A s \in Sess : NoneS[s] = 0
    BY DEF NoneS
  <2>11. \A s \in Sess : SessionCount(s)' = SessionCount(s) - NoneS[s]
    <3>1. \A s \in Sess : SessionCount(s)' = SessionCount(s)
      BY <2>1, Zenon DEF SessionCount, HasInitialRef, UsersOf, Created
    <3> QED
      BY <2>10, <3>1, CountNumbers, NatSign, SumZero, Zenon
  <2>12. \A s \in Sess : sref'[s] - Cardinality(LiveHandlesOf(s)')
                            = sref[s] - NoneS[s] - Cardinality(LiveHandlesOf(s))
    BY <2>1, <2>2, <2>9, <2>10, UnrefSessions, Zenon
  <2>13. SessionsExact'
    BY <2>0, <2>3, <2>10, <2>11, <2>12, SessionsSame, Zenon
  <2> QED
    BY <2>8, <2>13, ExactParts, Zenon
<1> QED
  BY <1>1, <1>2, <1>3, <1>4, <1>5, <1>6, <1>7, Zenon DEF Watchdog

\* ... and so does a transport thread.
LEMMA TransportExact ==
    ASSUME CountLaws, TypeOK, TypeOK', RefsInv, NEW t \in Transports, TransportThread(t)
    PROVE  RefsExact'
<1>0. RefsExact /\ TableInv
  BY Zenon DEF RefsInv
<1>x. /\ t \in Threads /\ pc \in [Threads -> Labels] /\ lsess \in [Threads -> Sess \cup {NoSess}]
      /\ pc[t] \in {"over", "destroy_clear", "remove"} => lsess[t] \in Sess
  BY LocalFacts, ThreadFacts, Zenon
<1>1. ASSUME TgStart(t) PROVE RefsExact'
  BY <1>0, <1>1, <1>x, ExactHolder, Zenon DEF TgStart, Goto, tableVars
<1>2. ASSUME TgFlag(t) PROVE RefsExact'
  BY <1>0, <1>2, <1>x, ExactHolder, Zenon DEF TgFlag, Goto
<1>3. ASSUME TgMark(t) PROVE RefsExact'
  BY <1>0, <1>3, <1>x, ExactMark, Zenon DEF TgMark
<1>4. ASSUME TgClear(t) PROVE RefsExact'
  BY <1>4, <1>x, ExactClear, Zenon DEF TgClear, DestroyClear
<1>5. ASSUME TgRemove(t) PROVE RefsExact'
  BY <1>0, <1>5, <1>x, ExactHolder, Zenon DEF TgRemove, Goto
<1>6. ASSUME TgEnd(t) PROVE RefsExact'
  BY <1>0, <1>6, <1>x, ExactHolder, Zenon DEF TgEnd, Goto, tableVars
<1>7. ASSUME NEW s \in Sess, TgCheck(t, s) PROVE RefsExact'
  <2>1. /\ \A q \in Threads \ {t} : pc'[q] = pc[q] /\ lsess'[q] = lsess[q]
        /\ pc[t] # "destroy_clear" /\ pc'[t] # "destroy_clear"
        /\ UNCHANGED <<sid, sdestroyed, handleVars, refVars, lhnd>>
    BY <1>7, <1>x, Zenon DEF TgCheck, Goto, tableVars
  <2> QED
    BY <1>0, <2>1, ExactHolder, Zenon
<1> QED
  BY <1>1, <1>2, <1>3, <1>4, <1>5, <1>6, <1>7, Zenon DEF TransportThread

\* A step of a handle's loop or plugin: it drops n references to the handle.
LEMMA ExactHandleStep ==
    ASSUME CountLaws, TypeOK, TypeOK', RefsInv, NEW h \in Hnds, NEW n \in Nat,
           NEW hdec \in [Hnds -> Int], Unref(hdec, NoneS), hdec[h] = n,
           \A x \in Hnds \ {h} : hdec[x] = 0,
           UNCHANGED <<sid, sdestroyed, threadVars, hsess, listed>>,
           \A x \in Hnds \ {h} :
              /\ pref'[x] = pref[x] /\ app'[x] = app[x] /\ loop'[x] = loop[x]
              /\ (x \in plugged' <=> x \in plugged) /\ (x \in ending' <=> x \in ending),
           HandleCount(h)' = HandleCount(h) - n, HandleCount(h)' >= 0, pref'[h] = PluginCount(h)'
    PROVE  RefsExact'
<1>0. SessionsExact /\ HandlesExact
  BY ExactParts, Zenon DEF RefsInv
<1>1. \A x \in Hnds : Cardinality(HandleUsers(x)') = Cardinality(HandleUsers(x))
  BY Zenon DEF HandleUsers, threadVars
<1>2. NoneS \in [Sess -> Int] /\ \A s \in Sess : NoneS[s] = 0
  BY SMTT(40) DEF NoneS
<1>3. /\ HandlesExact'
      /\ \A s \in Sess : sref'[s] - Cardinality(LiveHandlesOf(s)')
                            = sref[s] - NoneS[s] - Cardinality(LiveHandlesOf(s))
  BY <1>0, <1>1, <1>2, ExactUnref, Zenon
<1>4. \A s \in Sess : SessionCount(s)' = SessionCount(s) - NoneS[s]
  <2>1. \A s \in Sess : SessionCount(s)' = SessionCount(s)
    BY Zenon DEF SessionCount, HasInitialRef, UsersOf, Created, threadVars
  <2> QED
    BY <1>2, <2>1, CountNumbers, NatSign, SumZero, Zenon
<1>5. SessionsExact'
  BY <1>0, <1>2, <1>3, <1>4, SessionsSame, Zenon DEF TypeOK, RefTypes
<1> QED
  BY <1>3, <1>5, ExactParts, Zenon

\* So do the end of a session asked by the plugin, the loop and the plugin's release.
LEMMA HandleStepsExact ==
    ASSUME CountLaws, TypeOK, TypeOK', RefsInv, NEW h \in Hnds, EndSession(h) \/ Loop(h) \/ PluginUnref(h)
    PROVE  RefsExact'
<1>0. HandlesExact /\ HandleFacts
  BY ExactParts, Zenon DEF RefsInv
<1>1. /\ href[h] = HandleCount(h) /\ pref[h] = PluginCount(h) /\ Cardinality(HandleUsers(h)) \in Nat
      /\ app \in [Hnds -> {"none", "alive", "stopped", "detached"}] /\ pref \in [Hnds -> Int]
      /\ loop \in [Hnds -> {"none", "running", "quit", "ended", "dead"}]
      /\ OneH(h) \in [Hnds -> Int] /\ OneH(h)[h] = 1 /\ \A x \in Hnds \ {h} : OneH(h)[x] = 0
  BY <1>0, CountTypes, SMTT(40) DEF HandlesExact, TypeOK, HandleTypes, OneH, One
<1>2. ASSUME EndSession(h) PROVE RefsExact'
  <2>1. /\ app[h] = "alive" /\ h \notin ending /\ ending' = ending \cup {h}
        /\ pref' = [pref EXCEPT ![h] = @ + 1]
        /\ UNCHANGED <<sid, sdestroyed, threadVars, hsess, listed, app, plugged, loop, refVars>>
    BY <1>2, Zenon DEF EndSession, tableVars
  <2>2. Cardinality(HandleUsers(h)') = Cardinality(HandleUsers(h)) /\ LoopRefs(h)' = LoopRefs(h)
    BY <2>1, Zenon DEF HandleUsers, LoopRefs, threadVars
  <2>3. pref'[h] = PluginCount(h)' /\ pref[h] > 0 /\ pref'[h] > 0
    BY <1>1, <2>1, SMTT(40) DEF PluginCount, One
  <2>4. HandleCount(h)' = HandleCount(h)
    BY <2>1, <2>2, <2>3, Zenon DEF HandleCount, One
  <2>5. \A x \in Hnds \ {h} : pref'[x] = pref[x] /\ (x \in ending' <=> x \in ending)
    BY <1>1, <2>1, Zenon
  <2>6. HandlesExact'
    <3>1. \A x \in Hnds : Cardinality(HandleUsers(x)') = Cardinality(HandleUsers(x))
      BY <2>1, Zenon DEF HandleUsers, threadVars
    <3> QED
      BY <1>0, <1>1, <2>1, <2>3, <2>4, <2>5, <3>1, OneHandle, Zenon DEF refVars
  <2>7. SessionsExact'
    <3>1. SessionsExact
      BY ExactParts, Zenon DEF RefsInv
    <3>2. \A s \in Sess : SessionCount(s)' = SessionCount(s) /\ LiveHandlesOf(s)' = LiveHandlesOf(s)
      BY <2>1, Zenon DEF SessionCount, HasInitialRef, UsersOf, Created, threadVars, LiveHandlesOf, refVars
    <3> QED
      BY <2>1, <3>1, <3>2, Zenon DEF SessionsExact, refVars
  <2> QED
    BY <2>6, <2>7, ExactParts, Zenon
<1>3. ASSUME LoopDetach(h) PROVE RefsExact'
  <2>1. /\ loop[h] = "running" /\ app[h] = "stopped"
        /\ app' = [app EXCEPT ![h] = "detached"] /\ loop' = [loop EXCEPT ![h] = "quit"]
        /\ Unref(OneH(h), NoneS)
        /\ UNCHANGED <<sid, sdestroyed, threadVars, hsess, listed, pref, plugged, ending>>
    BY <1>3, Zenon DEF LoopDetach, tableVars
  <2>2. LoopRefs(h) = 2 /\ LoopRefs(h)' = 1 /\ Cardinality(HandleUsers(h)') = Cardinality(HandleUsers(h))
    BY <1>1, <2>1, Zenon DEF HandleUsers, LoopRefs, threadVars
  <2>3. pref'[h] = PluginCount(h)'
    BY <1>1, <2>1, Zenon DEF PluginCount, One
  <2>4. HandleCount(h)' = HandleCount(h) - 1 /\ HandleCount(h)' >= 0
    <3>1. One(hsess'[h] # NoSess /\ app'[h] \in {"none", "alive"})
            = One(hsess[h] # NoSess /\ app[h] \in {"none", "alive"})
      BY <1>1, <2>1, Zenon DEF One
    <3>2. LoopRefs(h)' = LoopRefs(h) + (-1) /\ -1 \in Int
      BY <2>2
    <3>3. HandleCount(h)' = HandleCount(h) + (-1) /\ HandleCount(h)' >= 0
      BY <2>1, <2>2, <3>1, <3>2, HandleLooped, Zenon
    <3> QED
      BY <3>3, CountNumbers, NatSign, SumLess, Zenon
  <2>5. \A x \in Hnds \ {h} : app'[x] = app[x] /\ loop'[x] = loop[x]
    BY <1>1, <2>1, Zenon
  <2> QED
    BY <1>1, <2>1, <2>3, <2>4, <2>5, ExactHandleStep, Zenon
<1>4. ASSUME LoopEnd(h) PROVE RefsExact'
  <2>1. /\ loop[h] = "quit" /\ loop' = [loop EXCEPT ![h] = "ended"]
        /\ Unref(OneH(h), NoneS)
        /\ UNCHANGED <<sid, sdestroyed, threadVars, hsess, listed, app, pref, plugged, ending>>
    BY <1>4, Zenon DEF LoopEnd, tableVars
  <2>2. LoopRefs(h) = 1 /\ LoopRefs(h)' = 0 /\ Cardinality(HandleUsers(h)') = Cardinality(HandleUsers(h))
    BY <1>1, <2>1, Zenon DEF HandleUsers, LoopRefs, threadVars
  <2>3. pref'[h] = PluginCount(h)'
    BY <1>1, <2>1, Zenon DEF PluginCount
  <2>4. HandleCount(h)' = HandleCount(h) - 1 /\ HandleCount(h)' >= 0
    <3>1. One(hsess'[h] # NoSess /\ app'[h] \in {"none", "alive"})
            = One(hsess[h] # NoSess /\ app[h] \in {"none", "alive"})
      BY <1>1, <2>1, Zenon DEF One
    <3>2. LoopRefs(h)' = LoopRefs(h) + (-1) /\ -1 \in Int
      BY <2>2
    <3>3. HandleCount(h)' = HandleCount(h) + (-1) /\ HandleCount(h)' >= 0
      BY <2>1, <2>2, <3>1, <3>2, HandleLooped, Zenon
    <3> QED
      BY <3>3, CountNumbers, NatSign, SumLess, Zenon
  <2>5. \A x \in Hnds \ {h} : loop'[x] = loop[x]
    BY <1>1, <2>1, Zenon
  <2> QED
    BY <1>1, <2>1, <2>3, <2>4, <2>5, ExactHandleStep, Zenon
<1>5. ASSUME PluginUnref(h) PROVE RefsExact'
  <2>0. PICK dec \in [Hnds -> Int] : dec = [x \in Hnds |-> One(x = h /\ LastPluginRef(h))]
    <3>1. [x \in Hnds |-> One(x = h /\ LastPluginRef(h))] \in [Hnds -> Int]
      BY DEF One
    <3> QED
      BY <3>1, Zenon
  <2>1. /\ app[h] = "detached" /\ h \in plugged /\ plugged' = plugged \ {h}
        /\ pref' = [pref EXCEPT ![h] = @ - 1] /\ Unref(dec, NoneS)
        /\ UNCHANGED <<sid, sdestroyed, threadVars, hsess, listed, app, ending, loop>>
    BY <1>5, <2>0, Zenon DEF PluginUnref, tableVars
  <2>2. /\ dec \in [Hnds -> Int] /\ \A x \in Hnds \ {h} : dec[x] = 0
        /\ dec[h] = One(pref[h] = 1) /\ dec[h] \in Nat
    BY <2>0, Zenon DEF One, LastPluginRef
  <2>3. LoopRefs(h)' = LoopRefs(h) /\ Cardinality(HandleUsers(h)') = Cardinality(HandleUsers(h))
    BY <2>1, Zenon DEF HandleUsers, LoopRefs, threadVars
  <2>4. pref'[h] = PluginCount(h)' /\ pref'[h] = pref[h] - 1 /\ pref[h] >= 1
    BY <1>1, <2>1, SMTT(40) DEF PluginCount, One
  <2>5. HandleCount(h)' = HandleCount(h) - dec[h] /\ HandleCount(h)' >= 0
    <3>1. One(pref[h] = 1) \in {0, 1} /\ 0 \in {0, 1} /\ pref[h] \in Int
      BY <1>1, Zenon DEF One
    <3>2. One(pref[h] > 0)' = One(pref[h] > 0) - One(pref[h] = 1)
      <4>1. One(pref[h] - 1 > 0) = One(pref[h] > 0) - One(pref[h] = 1)
        BY <2>4, <3>1, PluginSums, Zenon
      <4> QED
        BY <2>4, <4>1, Zenon
    <3>3. One(h \in listed)' = One(h \in listed) - 0
      BY <2>1, SumOne, Zenon
    <3>4. HandleCount(h)' = HandleCount(h) - (0 + One(pref[h] = 1)) /\ HandleCount(h)' >= 0
      BY <2>1, <2>3, <3>1, <3>2, <3>3, HandleEnded, Zenon
    <3> QED
      BY <2>2, <3>1, <3>4, CountNumbers, NatSign, SumLess, Zenon
  <2>6. \A x \in Hnds \ {h} :
           /\ pref'[x] = pref[x] /\ app'[x] = app[x] /\ loop'[x] = loop[x]
           /\ (x \in plugged' <=> x \in plugged) /\ (x \in ending' <=> x \in ending)
    BY <1>1, <2>1, Zenon
  <2>7. PICK n \in Nat : n = dec[h]
    BY <2>2, Zenon
  <2>8. HandleCount(h)' = HandleCount(h) - n
    BY <2>5, <2>7, Zenon
  <2> QED
    <3>1. UNCHANGED <<sid, sdestroyed, threadVars, hsess, listed>>
      BY <2>1, Zenon
    <3>2. Unref(dec, NoneS) /\ pref'[h] = PluginCount(h)' /\ HandleCount(h)' >= 0
      BY <2>1, <2>4, <2>5, Zenon
    <3> QED
      BY <2>2, <2>6, <2>7, <2>8, <3>1, <3>2, ExactHandleStep, Zenon
<1> QED
  BY <1>2, <1>3, <1>4, <1>5, Zenon DEF Loop

\* Every step keeps the counters exact.
LEMMA ExactStep == CountLaws /\ TypeOK /\ TypeOK' /\ RefsInv /\ [Next]_vars => RefsExact'
<1> SUFFICES ASSUME CountLaws, TypeOK, TypeOK', RefsInv, [Next]_vars PROVE RefsExact'
  BY Zenon
<1>1. CASE Tick \/ UNCHANGED vars
  <2>1. UNCHANGED <<sid, sdestroyed, handleVars, refVars, threadVars>>
    BY <1>1, Zenon DEF Tick, vars, tableVars
  <2>2. \A h \in Hnds : Cardinality(HandleUsers(h)') = Cardinality(HandleUsers(h))
    BY <2>1, Zenon DEF HandleUsers, threadVars
  <2>3. \A s \in Sess : SessionCount(s)' = SessionCount(s)
    BY <2>1, Zenon DEF SessionCount, HasInitialRef, UsersOf, Created, threadVars
  <2> QED
    BY <2>1, <2>2, <2>3, ExactSame, Zenon DEF RefsInv
<1> QED
  BY <1>1, RequestsExact, WorkerExact, WatchdogExact, TransportExact, HandleStepsExact, Zenon DEF Next

-----------------------------------------------------------------------------
(* HandleFacts *)

\* A thread takes a step, and handles are removed at most.
LEMMA HandlesMove ==
    ASSUME TypeOK, TypeOK', HandleFacts, NEW p \in Threads,
           \A s \in Sess : Created(s) => Created(s)',
           UNCHANGED <<hsess, plugged, loop>>, listed' \subseteq listed, ending' \subseteq ending,
           \A h \in Hnds : app'[h] = app[h] \/ (app[h] = "alive" /\ app'[h] = "stopped"),
           \A q \in Threads \ {p} : pc'[q] = pc[q] /\ lsess'[q] = lsess[q] /\ lhnd'[q] = lhnd[q],
           p \in Workers => /\ pc'[p] \notin {"attach_plugin", "attach_loop"}
                            /\ pc'[p] = "idle" => lsess'[p] = NoSess
                            /\ pc'[p] \in EarlyLabels => lhnd'[p] = NoHnd
                            /\ lhnd'[p] \in {lhnd[p], NoHnd} \cup listed
    PROVE  HandleFacts'
<1>0. /\ Req \in Workers /\ Workers \subseteq Threads /\ NoHnd \notin Hnds /\ NoSess \notin Sess
      /\ lhnd \in [Threads -> Hnds \cup {NoHnd}] /\ hsess \in [Hnds -> Sess \cup {NoSess}]
  BY ThreadFacts, LocalFacts, NullsAssumption, Zenon DEF TypeOK, HandleTypes
<1>1. ASSUME NEW h \in Hnds, hsess[h] = NoSess
      PROVE  h \notin listed' /\ app'[h] = "none" /\ \A q \in Workers : lhnd'[q] # h
  <2>1. h \notin listed /\ app[h] = "none" /\ \A q \in Workers : lhnd[q] # h
    BY <1>1, Zenon DEF HandleFacts
  <2>2. app'[h] = "none"
    BY <2>1, Zenon
  <2>3. ASSUME NEW q \in Workers PROVE lhnd'[q] # h
    <3>1. CASE q = p
      BY <1>0, <2>1, <3>1, ZenonT(40)
    <3>2. CASE q # p
      BY <1>0, <2>1, <3>2, Zenon
    <3> QED
      BY <3>1, <3>2, Zenon
  <2> QED
    BY <2>1, <2>2, <2>3, Zenon
<1>2. ASSUME NEW h \in Hnds, hsess[h] # NoSess PROVE Created(hsess[h])'
  <2>1. Created(hsess[h])
    BY <1>2, Zenon DEF HandleFacts
  <2>2. hsess[h] \in Sess /\ hsess' = hsess
    BY <1>0, <1>2, Zenon
  <2> QED
    BY <2>1, <2>2, Zenon DEF Created
<1>3. ASSUME NEW h \in Hnds
      PROVE  /\ app'[h] = "none" => h \notin plugged \cup ending' /\ loop[h] = "none"
             /\ app'[h] \in {"alive", "stopped"} => h \in plugged
  <2>1. /\ app[h] = "none" => h \notin plugged \cup ending /\ loop[h] = "none"
        /\ app[h] \in {"alive", "stopped"} => h \in plugged
    BY Zenon DEF HandleFacts
  <2>2. app'[h] = app[h] \/ (app[h] = "alive" /\ app'[h] = "stopped")
    BY Zenon
  <2> QED
    BY <2>1, <2>2, Zenon
<1>4. ASSUME pc'[Req] \in {"attach_plugin", "attach_loop"}
      PROVE  p # Req /\ pc'[Req] = pc[Req] /\ lhnd'[Req] = lhnd[Req] /\ lhnd[Req] \in Hnds
  <2>1. p # Req /\ pc'[Req] = pc[Req] /\ lhnd'[Req] = lhnd[Req]
    BY <1>0, <1>4, Zenon
  <2> QED
    BY <1>0, <1>4, <2>1, LocalFacts, Zenon
<1>5. /\ pc'[Req] = "attach_plugin" => app'[lhnd'[Req]] = "none"
      /\ pc'[Req] = "attach_loop" => loop[lhnd'[Req]] = "none" /\ app'[lhnd'[Req]] # "none"
  <2>1. ASSUME pc'[Req] = "attach_plugin" PROVE app'[lhnd'[Req]] = "none"
    <3>1. app[lhnd[Req]] = "none" /\ lhnd'[Req] = lhnd[Req] /\ lhnd[Req] \in Hnds
      BY <1>4, <2>1, Zenon DEF HandleFacts
    <3> QED
      BY <3>1, Zenon
  <2>2. ASSUME pc'[Req] = "attach_loop" PROVE loop[lhnd'[Req]] = "none" /\ app'[lhnd'[Req]] # "none"
    <3>1. loop[lhnd[Req]] = "none" /\ app[lhnd[Req]] # "none" /\ lhnd'[Req] = lhnd[Req] /\ lhnd[Req] \in Hnds
      BY <1>4, <2>2, Zenon DEF HandleFacts
    <3> QED
      BY <3>1, Zenon
  <2> QED
    BY <2>1, <2>2, Zenon
<1>6. ASSUME NEW q \in Workers
      PROVE  /\ pc'[q] = "idle" => lsess'[q] = NoSess
             /\ pc'[q] \in EarlyLabels => lhnd'[q] = NoHnd
  <2>1. CASE q = p
    BY <2>1, Zenon
  <2>2. CASE q # p
    <3>1. pc'[q] = pc[q] /\ lsess'[q] = lsess[q] /\ lhnd'[q] = lhnd[q]
      BY <1>0, <2>2, Zenon
    <3>2. /\ pc[q] = "idle" => lsess[q] = NoSess
          /\ pc[q] \in EarlyLabels => lhnd[q] = NoHnd
      BY Zenon DEF HandleFacts
    <3> QED
      BY <3>1, <3>2, Zenon
  <2> QED
    BY <2>1, <2>2, Zenon
<1> QED
  BY <1>1, <1>2, <1>3, <1>5, <1>6, Zenon DEF HandleFacts

\* What the destruction of handles does to them.
LEMMA HandlesDestroyed ==
    ASSUME TypeOK, NEW H, NEW hdec, NEW sdec, HandlesDestroy(H, hdec, sdec)
    PROVE  /\ UNCHANGED <<hsess, plugged, loop>> /\ listed' \subseteq listed /\ ending' \subseteq ending
           /\ \A h \in Hnds : app'[h] = app[h] \/ (app[h] = "alive" /\ app'[h] = "stopped")
BY Zenon DEF HandlesDestroy, Detaching

\* A thread that goes on, destroying handles or not, keeps what is known of handles.
LEMMA HandlesGoto ==
    ASSUME TypeOK, TypeOK', HandleFacts, NEW p \in Threads, NEW l, Goto(p, l),
           UNCHANGED <<sid, lsess, lhnd>>,
           \/ UNCHANGED handleVars
           \/ \E H, hdec, sdec : HandlesDestroy(H, hdec, sdec),
           p \in Workers => /\ l \notin {"idle", "attach_plugin", "attach_loop"}
                            /\ pc[p] \in EarlyLabels \/ l \notin EarlyLabels
    PROVE  HandleFacts'
<1>1. pc \in [Threads -> Labels] /\ Workers \subseteq Threads
  BY LocalFacts, ThreadFacts, Zenon
<1>2. pc'[p] = l /\ \A q \in Threads \ {p} : pc'[q] = pc[q] /\ lsess'[q] = lsess[q] /\ lhnd'[q] = lhnd[q]
  BY <1>1, Zenon DEF Goto
<1>3. /\ UNCHANGED <<hsess, plugged, loop>> /\ listed' \subseteq listed /\ ending' \subseteq ending
      /\ \A h \in Hnds : app'[h] = app[h] \/ (app[h] = "alive" /\ app'[h] = "stopped")
  BY HandlesDestroyed, Zenon DEF handleVars
<1>4. \A s \in Sess : Created(s) => Created(s)'
  BY Zenon DEF Created
<1>5. p \in Workers => (l \in EarlyLabels => lhnd[p] = NoHnd)
  BY Zenon DEF HandleFacts
<1> QED
  BY <1>2, <1>3, <1>4, <1>5, HandlesMove, Zenon

\* One handle, which has a plugin session, changes.
LEMMA HandlesOwn ==
    ASSUME TypeOK, HandleFacts, NEW h \in Hnds, app[h] # "none",
           UNCHANGED <<sid, hsess, pc, lsess, lhnd>>, listed' \subseteq listed,
           \A x \in Hnds \ {h} :
              /\ app'[x] = app[x] /\ loop'[x] = loop[x]
              /\ (x \in plugged' <=> x \in plugged) /\ (x \in ending' => x \in ending),
           app'[h] # "none", app'[h] \in {"alive", "stopped"} => h \in plugged',
           loop[h] = "none" => loop'[h] = "none"
    PROVE  HandleFacts'
<1>1. ASSUME NEW x \in Hnds
      PROVE  /\ hsess[x] = NoSess => x \notin listed' /\ app'[x] = "none" /\ \A p \in Workers : lhnd[p] # x
             /\ hsess[x] # NoSess => Created(hsess[x])
             /\ app'[x] = "none" => x \notin plugged' \cup ending' /\ loop'[x] = "none"
             /\ app'[x] \in {"alive", "stopped"} => x \in plugged'
  BY ZenonT(40) DEF HandleFacts
<1>2. pc[Req] \in {"attach_plugin", "attach_loop"} => lhnd[Req] \in Hnds
  BY LocalFacts, ThreadFacts, Zenon
<1>3. /\ pc[Req] = "attach_plugin" => app'[lhnd[Req]] = "none"
      /\ pc[Req] = "attach_loop" => loop'[lhnd[Req]] = "none" /\ app'[lhnd[Req]] # "none"
  BY <1>2, Zenon DEF HandleFacts
<1>4. \A p \in Workers : /\ pc[p] = "idle" => lsess[p] = NoSess
                         /\ pc[p] \in EarlyLabels => lhnd[p] = NoHnd
  BY Zenon DEF HandleFacts
<1>5. \A x \in Hnds :
         /\ hsess'[x] = NoSess => x \notin listed' /\ app'[x] = "none" /\ \A p \in Workers : lhnd'[p] # x
         /\ hsess'[x] # NoSess => Created(hsess[x])'
         /\ app'[x] = "none" => x \notin plugged' \cup ending' /\ loop'[x] = "none"
         /\ app'[x] \in {"alive", "stopped"} => x \in plugged'
  BY <1>1, ZenonT(40) DEF Created
<1>6. /\ pc'[Req] = "attach_plugin" => app'[lhnd'[Req]] = "none"
      /\ pc'[Req] = "attach_loop" => loop'[lhnd'[Req]] = "none" /\ app'[lhnd'[Req]] # "none"
      /\ \A p \in Workers : /\ pc'[p] = "idle" => lsess'[p] = NoSess
                            /\ pc'[p] \in EarlyLabels => lhnd'[p] = NoHnd
  BY <1>3, <1>4, Zenon
<1> QED
  BY <1>5, <1>6, Zenon DEF HandleFacts

\* A task keeps what is known of handles.
LEMMA WorkerHandles ==
    ASSUME TypeOK, TypeOK', HandleFacts, NEW p \in Workers, Worker(p)
    PROVE  HandleFacts'
<1>0. /\ p \in Threads /\ pc \in [Threads -> Labels] /\ lsess \in [Threads -> Sess \cup {NoSess}]
      /\ lhnd \in [Threads -> Hnds \cup {NoHnd}]
  BY ThreadFacts, LocalFacts, Zenon
<1>1. ASSUME NEW i \in Ids, NEW t \in Transports, FindSession(p, i, t) PROVE HandleFacts'
  <2>1. /\ pc[p] = "idle" /\ pc' = [pc EXCEPT ![p] = "found"]
        /\ lsess' = [lsess EXCEPT ![p] = table[i]] /\ UNCHANGED <<sid, handleVars, lhnd>>
    BY <1>1, Zenon DEF FindSession, Goto, tableVars
  <2>2. /\ pc'[p] = "found" /\ lhnd'[p] = NoHnd
        /\ \A q \in Threads \ {p} : pc'[q] = pc[q] /\ lsess'[q] = lsess[q] /\ lhnd'[q] = lhnd[q]
    BY <1>0, <2>1, Zenon DEF HandleFacts, EarlyLabels
  <2> QED
    BY <1>0, <2>1, <2>2, HandlesMove, Zenon DEF handleVars, Created
<1>2. ASSUME NEW op \in {"detach", "message", "done"}, NEW h \in Hnds, NEW admin \in BOOLEAN,
             HandleRequest(p, op, h, admin)
      PROVE  HandleFacts'
  <2>1. /\ pc' = [pc EXCEPT ![p] = op] /\ lhnd' = [lhnd EXCEPT ![p] = h] /\ h \in listed
        /\ UNCHANGED <<sid, handleVars, lsess>>
    BY <1>2, Zenon DEF HandleRequest, Goto, HandlesOf
  <2>2. /\ pc'[p] = op /\ lhnd'[p] = h
        /\ \A q \in Threads \ {p} : pc'[q] = pc[q] /\ lsess'[q] = lsess[q] /\ lhnd'[q] = lhnd[q]
    BY <1>0, <2>1, Zenon
  <2>3. op \notin EarlyLabels /\ op \notin {"idle", "attach_plugin", "attach_loop"}
    BY Zenon DEF EarlyLabels
  <2> QED
    BY <1>0, <2>1, <2>2, <2>3, HandlesMove, Zenon DEF handleVars, Created
<1>3. ASSUME MissingHandle(p) \/ Message(p) \/ Deliver(p) PROVE HandleFacts'
  <2>1. PICK l \in {"done", "deliver"} : Goto(p, l)
    BY <1>3, Zenon DEF MissingHandle, Message, Deliver
  <2>2. UNCHANGED <<sid, lsess, lhnd, handleVars>>
    BY <1>3, Zenon DEF MissingHandle, Message, Deliver, tableVars
  <2> QED
    BY <1>0, <2>1, <2>2, HandlesGoto, Zenon DEF EarlyLabels
<1>4. ASSUME Done(p) PROVE HandleFacts'
  <2>1. /\ pc' = [pc EXCEPT ![p] = "idle"] /\ lhnd' = [lhnd EXCEPT ![p] = NoHnd]
        /\ lsess' = [lsess EXCEPT ![p] = NoSess] /\ UNCHANGED <<sid, handleVars>>
    BY <1>4, Zenon DEF Done, Goto, tableVars
  <2>2. /\ pc'[p] = "idle" /\ lhnd'[p] = NoHnd /\ lsess'[p] = NoSess
        /\ \A q \in Threads \ {p} : pc'[q] = pc[q] /\ lsess'[q] = lsess[q] /\ lhnd'[q] = lhnd[q]
    BY <1>0, <2>1, Zenon
  <2> QED
    BY <1>0, <2>1, <2>2, HandlesMove, Zenon DEF handleVars, Created
<1> QED
  BY <1>1, <1>2, <1>3, <1>4, Zenon DEF Worker

\* "attach": the handle is created ...
LEMMA AttachCreateHandles ==
    ASSUME TypeOK, TypeOK', RefsInv, NEW h \in Hnds, AttachCreate(h)
    PROVE  HandleFacts'
<1>0. /\ Req \in Workers /\ Req \in Threads /\ Workers \subseteq Threads
      /\ pc \in [Threads -> Labels] /\ lhnd \in [Threads -> Hnds \cup {NoHnd}]
      /\ hsess \in [Hnds -> Sess \cup {NoSess}] /\ NoSess \notin Sess
      /\ HandleFacts
  BY ThreadFacts, LocalFacts, NullsAssumption, Zenon DEF TypeOK, HandleTypes, RefsInv
<1>1. /\ pc[Req] = "attach" /\ hsess[h] = NoSess /\ hsess' = [hsess EXCEPT ![h] = lsess[Req]]
      /\ listed' = listed \cup {h} /\ lhnd' = [lhnd EXCEPT ![Req] = h]
      /\ pc' = [pc EXCEPT ![Req] = "attach_plugin"]
      /\ UNCHANGED <<sid, app, plugged, ending, loop, lsess>>
  BY Zenon DEF AttachCreate, Goto, tableVars
<1>2. lsess[Req] \in Sess /\ Created(lsess[Req]) /\ app[h] = "none"
  BY <1>0, <1>1, LocalFacts, Zenon DEF RefsInv, TableInv, Located, HandleFacts
<1>3. /\ pc'[Req] = "attach_plugin" /\ lhnd'[Req] = h /\ hsess'[h] = lsess[Req]
      /\ \A q \in Workers \ {Req} : pc'[q] = pc[q] /\ lhnd'[q] = lhnd[q]
      /\ \A x \in Hnds \ {h} : hsess'[x] = hsess[x] /\ (x \in listed' <=> x \in listed)
  BY <1>0, <1>1, Zenon
<1>4. ASSUME NEW x \in Hnds
      PROVE  /\ hsess'[x] = NoSess => x \notin listed' /\ app[x] = "none" /\ \A p \in Workers : lhnd'[p] # x
             /\ hsess'[x] # NoSess => Created(hsess'[x])
  <2>1. CASE x = h
    BY <1>0, <1>2, <1>3, <2>1, ZenonT(40)
  <2>2. CASE x # h
    <3>1. hsess'[x] = hsess[x] /\ (x \in listed' <=> x \in listed)
      BY <1>3, <2>2, Zenon
    <3>2. /\ hsess[x] = NoSess => x \notin listed /\ app[x] = "none" /\ \A p \in Workers : lhnd[p] # x
          /\ hsess[x] # NoSess => Created(hsess[x])
      BY <1>0, Zenon DEF HandleFacts
    <3>3. (\A p \in Workers : lhnd[p] # x) => \A p \in Workers : lhnd'[p] # x
      BY <1>3, <2>2, Zenon
    <3> QED
      BY <3>1, <3>2, <3>3, Zenon
  <2> QED
    BY <2>1, <2>2, Zenon
<1>5. ASSUME NEW p \in Workers
      PROVE  /\ pc'[p] = "idle" => lsess[p] = NoSess
             /\ pc'[p] \in EarlyLabels => lhnd'[p] = NoHnd
  <2>1. CASE p = Req
    BY <1>3, <2>1, Zenon DEF EarlyLabels
  <2>2. CASE p # Req
    <3>1. pc'[p] = pc[p] /\ lhnd'[p] = lhnd[p]
      BY <1>3, <2>2, Zenon
    <3> QED
      BY <1>0, <3>1, Zenon DEF HandleFacts
  <2> QED
    BY <2>1, <2>2, Zenon
<1> QED
  BY <1>0, <1>1, <1>2, <1>3, <1>4, <1>5, ZenonT(40) DEF HandleFacts, Created

\* ... gets its plugin session, and its loop, which may fail.
LEMMA AttachHandles ==
    ASSUME TypeOK, TypeOK', HandleFacts, AttachPlugin \/ AttachLoop \/ AttachLoopError
    PROVE  HandleFacts'
<1>0. /\ Req \in Workers /\ Req \in Threads /\ Workers \subseteq Threads
      /\ pc \in [Threads -> Labels] /\ lhnd \in [Threads -> Hnds \cup {NoHnd}]
      /\ app \in [Hnds -> {"none", "alive", "stopped", "detached"}]
      /\ loop \in [Hnds -> {"none", "running", "quit", "ended", "dead"}]
  BY ThreadFacts, LocalFacts, Zenon DEF TypeOK, HandleTypes
<1>1. /\ pc[Req] \in {"attach_plugin", "attach_loop"} /\ lhnd[Req] \in Hnds
      /\ UNCHANGED <<sid, hsess, ending, lsess, lhnd>>
  BY <1>0, LocalFacts, Zenon DEF AttachPlugin, AttachLoop, AttachLoopError, tableVars
<1>2. PICK h \in Hnds : h = lhnd[Req]
  BY <1>1, Zenon
<1>3. PICK l \in {"attach_loop", "done"} : pc' = [pc EXCEPT ![Req] = l]
  BY Zenon DEF AttachPlugin, AttachLoop, AttachLoopError, Goto
<1>4. pc'[Req] = l /\ \A q \in Workers \ {Req} : pc'[q] = pc[q]
  BY <1>0, <1>3, Zenon
<1>5. ASSUME AttachPlugin
      PROVE  /\ listed' = listed /\ loop' = loop /\ app' = [app EXCEPT ![h] = "alive"]
             /\ plugged' = plugged \cup {h} /\ app[h] = "none" /\ loop[h] = "none"
  BY <1>2, <1>5, Zenon DEF AttachPlugin, HandleFacts
<1>6. ASSUME AttachLoop
      PROVE  /\ listed' = listed /\ loop' = [loop EXCEPT ![h] = "running"]
             /\ UNCHANGED <<app, plugged>> /\ app[h] # "none" /\ l = "done"
  BY <1>0, <1>2, <1>3, <1>6, Zenon DEF AttachLoop, HandleFacts, Goto
<1>7. ASSUME AttachLoopError
      PROVE  /\ listed' \subseteq listed /\ loop' = [loop EXCEPT ![h] = "dead"]
             /\ app' = [app EXCEPT ![h] = IF h \in Detaching({h}) THEN "stopped" ELSE @]
             /\ plugged' = plugged /\ app[h] # "none" /\ l = "done"
             /\ h \in Detaching({h}) => app[h] = "alive"
  BY <1>0, <1>2, <1>3, <1>7, ZenonT(40) DEF AttachLoopError, HandleFacts, Goto, Detaching
<1>8. /\ listed' \subseteq listed /\ app'[h] # "none" /\ hsess[h] # NoSess
      /\ app'[h] \in {"alive", "stopped"} => h \in plugged'
      /\ l = "attach_loop" => loop'[h] = "none"
      /\ \A x \in Hnds \ {h} : app'[x] = app[x] /\ loop'[x] = loop[x] /\ (x \in plugged' <=> x \in plugged)
  <2>1. CASE AttachPlugin
    BY <1>0, <1>2, <1>5, <2>1, ZenonT(40) DEF HandleFacts
  <2>2. CASE AttachLoop
    BY <1>0, <1>2, <1>6, <2>2, ZenonT(40) DEF HandleFacts
  <2>3. CASE AttachLoopError
    <3>1. hsess[h] # NoSess /\ (app[h] \in {"alive", "stopped"} => h \in plugged)
      BY <1>2, <1>7, <2>3, Zenon DEF HandleFacts
    <3> QED
      BY <1>0, <1>7, <2>3, <3>1, Zenon
  <2> QED
    BY <2>1, <2>2, <2>3, Zenon
<1>9. ASSUME NEW x \in Hnds
      PROVE  /\ hsess[x] = NoSess => x \notin listed' /\ app'[x] = "none" /\ \A p \in Workers : lhnd[p] # x
             /\ hsess[x] # NoSess => Created(hsess[x])
             /\ app'[x] = "none" => x \notin plugged' \cup ending /\ loop'[x] = "none"
             /\ app'[x] \in {"alive", "stopped"} => x \in plugged'
  BY <1>8, ZenonT(40) DEF HandleFacts
<1>10. ASSUME NEW p \in Workers
       PROVE  /\ pc'[p] = "idle" => lsess[p] = NoSess
              /\ pc'[p] \in EarlyLabels => lhnd[p] = NoHnd
  BY <1>4, Zenon DEF HandleFacts, EarlyLabels
<1>11. /\ pc'[Req] = "attach_plugin" => app'[lhnd'[Req]] = "none"
       /\ pc'[Req] = "attach_loop" => loop'[lhnd'[Req]] = "none" /\ app'[lhnd'[Req]] # "none"
  BY <1>1, <1>2, <1>4, <1>8, Zenon
<1> QED
  BY <1>1, <1>9, <1>10, <1>11, ZenonT(40) DEF HandleFacts, Created

\* So does the requests thread.
LEMMA RequestsHandles ==
    ASSUME TypeOK, TypeOK', RefsInv, RequestsThread
    PROVE  HandleFacts'
<1>0. /\ Req \in Workers /\ Req \in Threads /\ HandleFacts
      /\ pc \in [Threads -> Labels] /\ lsess \in [Threads -> Sess \cup {NoSess}]
      /\ sid \in [Sess -> Ids \cup {NoId}] /\ NoId \notin Ids
  BY ThreadFacts, LocalFacts, NullsAssumption, Zenon DEF TypeOK, TableTypes, RefsInv
<1>1. ASSUME NEW i \in Ids, NEW t \in Transports,
             CreateConflict(i, t) \/ \E s \in Sess : CreateSession(i, s, t)
      PROVE  HandleFacts'
  <2>1. /\ pc[Req] = "idle" /\ UNCHANGED <<handleVars, lhnd>>
        /\ \E l \in {"done", "created"} : pc' = [pc EXCEPT ![Req] = l]
        /\ \E s : lsess' = [lsess EXCEPT ![Req] = s]
        /\ sid' = sid \/ \E s \in Sess : sid' = [sid EXCEPT ![s] = i]
    BY <1>1, Zenon DEF CreateConflict, CreateSession, Goto, tableVars
  <2>2. /\ pc'[Req] \in {"done", "created"} /\ lhnd'[Req] = NoHnd /\ lhnd[Req] = NoHnd
        /\ \A q \in Threads \ {Req} : pc'[q] = pc[q] /\ lsess'[q] = lsess[q] /\ lhnd'[q] = lhnd[q]
    BY <1>0, <2>1, ZenonT(40) DEF HandleFacts, EarlyLabels
  <2>3. \A s \in Sess : Created(s) => Created(s)'
    BY <1>0, <2>1, Zenon DEF Created
  <2> QED
    BY <1>0, <2>1, <2>2, <2>3, HandlesMove, Zenon DEF handleVars
<1>2. ASSUME CreateSource \/ Claim \/ AttachNone PROVE HandleFacts'
  <2>1. Goto(Req, "done") /\ UNCHANGED <<sid, lsess, lhnd, handleVars>>
    BY <1>2, Zenon DEF CreateSource, Claim, AttachNone, tableVars
  <2> QED
    BY <1>0, <2>1, HandlesGoto, Zenon DEF EarlyLabels
<1>3. ASSUME NEW op \in {"attach", "destroy", "claim", "done"}, NEW admin \in BOOLEAN,
             SessionRequest(op, admin)
      PROVE  HandleFacts'
  <2>1. Goto(Req, op) /\ pc[Req] \in EarlyLabels /\ UNCHANGED <<sid, lsess, lhnd, handleVars>>
    BY <1>3, Zenon DEF SessionRequest, EarlyLabels
  <2> QED
    BY <1>0, <2>1, HandlesGoto, Zenon
<1>4. ASSUME DestroyRemove \/ DestroyMark PROVE HandleFacts'
  <2>1. PICK l \in {"destroy_mark", "destroy_clear", "done"} : Goto(Req, l)
    BY <1>4, Zenon DEF DestroyRemove, DestroyMark, MarkDestroyed
  <2>2. pc[Req] \in EarlyLabels /\ UNCHANGED <<sid, lsess, lhnd, handleVars>>
    BY <1>4, Zenon DEF DestroyRemove, DestroyMark, EarlyLabels
  <2> QED
    BY <1>0, <2>1, <2>2, HandlesGoto, Zenon
<1>5. ASSUME DestroyHandles PROVE HandleFacts'
  <2>1. /\ Goto(Req, "done") /\ UNCHANGED <<sid, lsess, lhnd>>
        /\ HandlesDestroy(HandlesOf(lsess[Req]), NoneH, OneS(lsess[Req]))
    BY <1>5, Zenon DEF DestroyHandles, DestroyClear, tableVars
  <2> QED
    BY <1>0, <2>1, HandlesGoto, Zenon DEF EarlyLabels
<1>6. ASSUME AttachPluginError PROVE HandleFacts'
  <2>1. /\ Goto(Req, "done") /\ UNCHANGED <<sid, lsess, lhnd>>
        /\ HandlesDestroy({lhnd[Req]}, NoneH, NoneS)
    BY <1>6, Zenon DEF AttachPluginError, tableVars
  <2> QED
    BY <1>0, <2>1, HandlesGoto, Zenon DEF EarlyLabels
<1>7. ASSUME Detach PROVE HandleFacts'
  <2>1. /\ Goto(Req, "done") /\ UNCHANGED <<sid, lsess, lhnd>>
        /\ UNCHANGED handleVars \/ HandlesDestroy({lhnd[Req]}, NoneH, NoneS)
    BY <1>7, Zenon DEF Detach, tableVars
  <2> QED
    BY <1>0, <2>1, HandlesGoto, Zenon DEF EarlyLabels
<1> QED
  BY <1>0, <1>1, <1>2, <1>3, <1>4, <1>5, <1>6, <1>7, AttachCreateHandles, AttachHandles, Zenon DEF RequestsThread

\* The watchdog and the transport threads.
LEMMA HolderHandles ==
    ASSUME TypeOK, TypeOK', HandleFacts,
           \/ WdStart \/ WdClear \/ WdRemove \/ WdDestroy \/ WdEnd \/ \E s \in Sess : WdCheck(s)
           \/ \E t \in Transports : TransportThread(t)
    PROVE  HandleFacts'
<1>0. /\ pc \in [Threads -> Labels] /\ lsess \in [Threads -> Sess \cup {NoSess}] /\ Wd \in Threads
      /\ \A t \in Transports : t \in Threads /\ t \notin Workers
      /\ Wd \notin Workers
  BY ThreadFacts, LocalFacts, Zenon
<1>1. PICK p \in Transports \cup {Wd} :
         /\ pc' = pc \/ \E l : pc' = [pc EXCEPT ![p] = l]
         /\ lsess' = lsess \/ \E s : lsess' = [lsess EXCEPT ![p] = s]
  <2>1. CASE WdStart \/ WdClear \/ WdRemove \/ WdDestroy \/ WdEnd \/ \E s \in Sess : WdCheck(s)
    BY <2>1, Zenon DEF WdStart, WdClear, WdRemove, WdDestroy, WdEnd, WdCheck, DestroyClear, MarkDestroyed, Goto
  <2>2. ASSUME NEW t \in Transports, TransportThread(t)
        PROVE  /\ pc' = pc \/ \E l : pc' = [pc EXCEPT ![t] = l]
               /\ lsess' = lsess \/ \E s : lsess' = [lsess EXCEPT ![t] = s]
    BY <2>2, Zenon DEF TransportThread, TgStart, TgCheck, TgFlag, TgMark, TgClear, TgRemove, TgEnd, DestroyClear, MarkDestroyed, Goto
  <2> QED
    BY <2>1, <2>2, Zenon
<1>2. /\ UNCHANGED <<sid, lhnd>>
      /\ UNCHANGED handleVars \/ \E H, hdec, sdec : HandlesDestroy(H, hdec, sdec)
  <2>1. CASE WdStart \/ WdRemove \/ WdEnd \/ \E s \in Sess : WdCheck(s)
    BY <2>1, Zenon DEF WdStart, WdRemove, WdEnd, WdCheck, tableVars
  <2>2. CASE WdClear \/ WdDestroy
    BY <2>2, Zenon DEF WdClear, WdDestroy, DestroyClear, tableVars
  <2>3. ASSUME NEW t \in Transports, TransportThread(t)
        PROVE  /\ UNCHANGED <<sid, lhnd>>
               /\ UNCHANGED handleVars \/ \E H, hdec, sdec : HandlesDestroy(H, hdec, sdec)
    <3>1. CASE TgClear(t)
      BY <3>1, Zenon DEF TgClear, DestroyClear, tableVars
    <3>2. CASE TgStart(t) \/ TgEnd(t) \/ \E s \in Sess : TgCheck(t, s)
      BY <3>2, Zenon DEF TgStart, TgEnd, TgCheck, tableVars
    <3>3. CASE TgFlag(t) \/ TgMark(t) \/ TgRemove(t)
      BY <3>3, Zenon DEF TgFlag, TgMark, TgRemove
    <3> QED
      BY <2>3, <3>1, <3>2, <3>3, Zenon DEF TransportThread
  <2> QED
    BY <2>1, <2>2, <2>3, Zenon
<1>3. \A q \in Threads \ {p} : pc'[q] = pc[q] /\ lsess'[q] = lsess[q] /\ lhnd'[q] = lhnd[q]
  BY <1>0, <1>1, <1>2, Zenon
<1>4. /\ UNCHANGED <<hsess, plugged, loop>> /\ listed' \subseteq listed /\ ending' \subseteq ending
      /\ \A h \in Hnds : app'[h] = app[h] \/ (app[h] = "alive" /\ app'[h] = "stopped")
  BY <1>2, HandlesDestroyed, Zenon DEF handleVars
<1> QED
  BY <1>0, <1>2, <1>3, <1>4, HandlesMove, Zenon DEF Created

\* The handles' own steps, and the callback of the watchdog.
LEMMA OwnHandles ==
    ASSUME TypeOK, HandleFacts, NEW h \in Hnds,
           EndSession(h) \/ Loop(h) \/ PluginUnref(h) \/ WdEndSession(h)
    PROVE  HandleFacts'
<1>0. /\ app \in [Hnds -> {"none", "alive", "stopped", "detached"}]
      /\ loop \in [Hnds -> {"none", "running", "quit", "ended", "dead"}]
  BY Zenon DEF TypeOK, HandleTypes
<1>1. UNCHANGED <<sid, hsess, pc, lsess, lhnd>>
  <2>1. CASE EndSession(h) \/ PluginUnref(h)
    BY <2>1, Zenon DEF EndSession, PluginUnref, tableVars, threadVars
  <2>2. CASE Loop(h)
    BY <2>2, Zenon DEF Loop, LoopDetach, LoopEnd, tableVars, threadVars
  <2>3. CASE WdEndSession(h)
    BY <2>3, Zenon DEF WdEndSession, tableVars, threadVars
  <2> QED
    BY <2>1, <2>2, <2>3, Zenon
<1>2. ASSUME EndSession(h) PROVE HandleFacts'
  <2>1. app[h] = "alive" /\ ending' = ending \cup {h} /\ UNCHANGED <<listed, app, plugged, loop>>
    BY <1>2, Zenon DEF EndSession
  <2>2. h \in plugged
    BY <2>1, Zenon DEF HandleFacts
  <2> QED
    BY <1>1, <2>1, <2>2, HandlesOwn, Zenon
<1>3. ASSUME Loop(h) PROVE HandleFacts'
  <2>0. /\ loop[h] # "none" /\ UNCHANGED <<listed, plugged, ending>>
        /\ app' = [app EXCEPT ![h] = "detached"] \/ app' = app
        /\ \E l : loop' = [loop EXCEPT ![h] = l]
    BY <1>3, Zenon DEF Loop, LoopDetach, LoopEnd
  <2>1. app[h] # "none" /\ (app[h] \in {"alive", "stopped"} => h \in plugged)
    <3>1. loop[h] # "none"
      BY <2>0, Zenon
    <3> QED
      BY <3>1, Zenon DEF HandleFacts
  <2>2. /\ app'[h] # "none" /\ (app'[h] \in {"alive", "stopped"} => h \in plugged)
        /\ \A x \in Hnds \ {h} : app'[x] = app[x] /\ loop'[x] = loop[x]
    BY <1>0, <2>0, <2>1, Zenon
  <2> QED
    BY <1>1, <2>0, <2>1, <2>2, HandlesOwn, Zenon
<1>4. ASSUME PluginUnref(h) PROVE HandleFacts'
  <2>1. app[h] = "detached" /\ plugged' = plugged \ {h} /\ UNCHANGED <<listed, app, ending, loop>>
    BY <1>4, Zenon DEF PluginUnref
  <2> QED
    BY <1>1, <2>1, HandlesOwn, Zenon
<1>5. ASSUME WdEndSession(h) PROVE HandleFacts'
  <2>1. /\ app[h] # "none" /\ ending' = ending \ {h} /\ listed' \subseteq listed
        /\ UNCHANGED <<plugged, loop>>
        /\ app' = [app EXCEPT ![h] = IF h \in Detaching({h} \ hdestroyed) THEN "stopped" ELSE @]
    BY <1>5, Zenon DEF WdEndSession, HandleFacts
  <2>2. /\ app'[h] # "none" /\ (app'[h] \in {"alive", "stopped"} => h \in plugged)
        /\ \A x \in Hnds \ {h} : app'[x] = app[x]
    BY <1>0, <2>1, ZenonT(40) DEF HandleFacts, Detaching
  <2> QED
    BY <1>1, <2>1, <2>2, HandlesOwn, Zenon
<1> QED
  BY <1>2, <1>3, <1>4, <1>5, Zenon

\* Every step keeps what is known of handles.
LEMMA HandlesStep == TypeOK /\ TypeOK' /\ RefsInv /\ [Next]_vars => HandleFacts'
<1> SUFFICES ASSUME TypeOK, TypeOK', RefsInv, [Next]_vars PROVE HandleFacts'
  BY Zenon
<1>0. HandleFacts
  BY Zenon DEF RefsInv
<1>1. CASE Tick \/ UNCHANGED vars
  BY <1>0, <1>1, ZenonT(40) DEF Tick, vars, tableVars, handleVars, threadVars, HandleFacts, Created
<1> QED
  BY <1>0, <1>1, RequestsHandles, WorkerHandles, HolderHandles, OwnHandles, Zenon DEF Next, Watchdog

-----------------------------------------------------------------------------
(* DestroyFacts *)

\* A worker takes a step, and destroys nothing.
LEMMA DestroyWorker ==
    ASSUME RefsInv, NEW p \in Workers,
           UNCHANGED <<table, sid, sdestroyed, todo, sessions_mutex>>, pc'[p] # "destroy_clear",
           \A q \in Threads \ {p} : pc'[q] = pc[q] /\ lsess'[q] = lsess[q]
    PROVE  DestroyFacts'
<1>0. /\ Wd \in Threads \ {p} /\ \A t \in Transports : t \in Threads \ {p}
      /\ DestroyFacts
  BY ThreadFacts, Zenon DEF RefsInv
<1>1. ASSUME NEW q \in Threads, pc'[q] = "destroy_clear"
      PROVE  /\ lsess'[q] \in sdestroyed
             /\ \A r \in Threads : pc'[r] = "destroy_clear" /\ lsess'[r] = lsess'[q] => r = q
  BY <1>0, <1>1, Zenon DEF DestroyFacts
<1> QED
  BY <1>0, <1>1, ZenonT(40) DEF DestroyFacts, Held

\* A request that goes on destroys nothing.
LEMMA DestroyGoto ==
    ASSUME TypeOK, RefsInv, NEW p \in Workers, NEW l, l # "destroy_clear", Goto(p, l),
           UNCHANGED <<table, sid, sdestroyed, todo, sessions_mutex, lsess>>
    PROVE  DestroyFacts'
<1>1. pc \in [Threads -> Labels] /\ p \in Threads
  BY LocalFacts, ThreadFacts, Zenon
<1>2. pc'[p] # "destroy_clear" /\ \A q \in Threads \ {p} : pc'[q] = pc[q] /\ lsess'[q] = lsess[q]
  BY <1>1, Zenon DEF Goto
<1> QED
  BY <1>2, DestroyWorker, Zenon

\* Nor does one that takes a session.
LEMMA DestroyTake ==
    ASSUME TypeOK, RefsInv, NEW p \in Workers, NEW l, l # "destroy_clear", Goto(p, l),
           \A q \in Threads \ {p} : lsess'[q] = lsess[q],
           UNCHANGED <<table, sid, sdestroyed, todo, sessions_mutex>>
    PROVE  DestroyFacts'
<1>1. pc \in [Threads -> Labels] /\ p \in Threads
  BY LocalFacts, ThreadFacts, Zenon
<1>2. pc'[p] # "destroy_clear" /\ \A q \in Threads \ {p} : pc'[q] = pc[q] /\ lsess'[q] = lsess[q]
  BY <1>1, Zenon DEF Goto
<1> QED
  BY <1>2, DestroyWorker, Zenon

\* The holder of sessions_mutex, old or new, takes a step.
LEMMA DestroyHolder ==
    ASSUME RefsInv, NEW p \in Transports \cup {Wd}, sessions_mutex \in {p, NoTransport},
           \A q \in Threads \ {p} : pc'[q] = pc[q] /\ lsess'[q] = lsess[q],
           \A s \in todo' : Held(s)', sessions_mutex' = NoTransport => todo' = {},
           sdestroyed \subseteq sdestroyed',
           pc'[p] = "destroy_clear" => lsess'[p] \in sdestroyed' /\ lsess'[p] \notin sdestroyed,
           \/ p = Wd /\ pc'[p] \notin {"clear", "remove"}
           \/ p # Wd /\ pc'[p] # "over"
           \/ table'[sid'[lsess'[p]]] = lsess'[p] /\ lsess'[p] \notin sdestroyed' \cup todo'
    PROVE  DestroyFacts'
<1>0. /\ DestroyFacts /\ MutexSound /\ Wd \notin Transports
      /\ NoTransport \notin Transports \cup {Wd} /\ Transports \cup {Wd} \subseteq Threads
  BY ThreadFacts, NullsAssumption, Zenon DEF RefsInv, TableInv
<1>1. \A q \in (Transports \cup {Wd}) \ {p} : pc'[q] = "idle"
  <2> SUFFICES ASSUME NEW q \in (Transports \cup {Wd}) \ {p} PROVE pc'[q] = "idle"
    BY Zenon
  <2>1. q \in Transports \cup {Wd} /\ q # p /\ q \in Threads
    BY <1>0, Zenon
  <2>2. sessions_mutex # q
    BY <1>0, <2>1, Zenon
  <2>3. pc[q] = "idle"
    BY <1>0, <2>1, <2>2, Zenon DEF MutexSound
  <2> QED
    BY <2>1, <2>3, Zenon
<1>2. ASSUME NEW q \in Threads, pc'[q] = "destroy_clear"
      PROVE  /\ lsess'[q] \in sdestroyed'
             /\ \A r \in Threads : pc'[r] = "destroy_clear" /\ lsess'[r] = lsess'[q] => r = q
  BY <1>0, <1>2, ZenonT(40) DEF DestroyFacts
<1>3. /\ pc'[Wd] \in {"clear", "remove"} => Held(lsess[Wd])' /\ lsess'[Wd] \notin todo'
      /\ \A t \in Transports : pc'[t] = "over" => Held(lsess[t])' /\ lsess'[t] \notin todo'
  <2>1. CASE p = Wd
    BY <1>0, <1>1, <2>1, Zenon DEF Held
  <2>2. CASE p # Wd
    <3>1. pc'[Wd] \notin {"clear", "remove"}
      BY <1>1, <2>2, Zenon
    <3>2. ASSUME NEW t \in Transports, pc'[t] = "over" PROVE Held(lsess[t])' /\ lsess'[t] \notin todo'
      <4>1. t = p
        BY <1>1, <3>2, Zenon
      <4> QED
        BY <2>2, <3>2, <4>1, Zenon DEF Held
    <3> QED
      BY <3>1, <3>2, Zenon
  <2> QED
    BY <2>1, <2>2, Zenon
<1> QED
  BY <1>2, <1>3, Zenon DEF DestroyFacts

\* No iteration is under way when sessions_mutex is free.
LEMMA MutexFree ==
    ASSUME RefsInv, sessions_mutex = NoTransport
    PROVE  todo = {} /\ \A q \in Transports \cup {Wd} : pc[q] = "idle"
BY NullsAssumption, ThreadFacts, Zenon DEF RefsInv, TableInv, MutexSound, DestroyFacts

\* The requests thread is alone at destroying a session.
LEMMA RequestsDestroy ==
    ASSUME TypeOK, RefsInv, RequestsThread
    PROVE  DestroyFacts'
<1>0. /\ Req \in Workers /\ Req \in Threads /\ pc \in [Threads -> Labels]
      /\ lsess \in [Threads -> Sess \cup {NoSess}]
      /\ Wd \in Threads \ {Req} /\ \A t \in Transports : t \in Threads \ {Req}
      /\ DestroyFacts
  BY ThreadFacts, LocalFacts, Zenon DEF RefsInv
<1>2. ASSUME NEW i \in Ids, NEW t \in Transports, CreateConflict(i, t) PROVE DestroyFacts'
  <2>1. \A q \in Threads \ {Req} : lsess'[q] = lsess[q]
    BY <1>0, <1>2, Zenon DEF CreateConflict
  <2> QED
    BY <1>0, <1>2, <2>1, DestroyTake, Zenon DEF CreateConflict, tableVars
<1>3. ASSUME CreateSource \/ Claim \/ AttachNone PROVE DestroyFacts'
  BY <1>0, <1>3, DestroyGoto, Zenon DEF CreateSource, Claim, AttachNone, tableVars
<1>4. ASSUME NEW op \in {"attach", "destroy", "claim", "done"}, NEW admin \in BOOLEAN, SessionRequest(op, admin)
      PROVE  DestroyFacts'
  BY <1>0, <1>4, DestroyGoto, Zenon DEF SessionRequest
<1>5. ASSUME NEW h \in Hnds, AttachCreate(h) PROVE DestroyFacts'
  BY <1>0, <1>5, DestroyGoto, Zenon DEF AttachCreate, tableVars
<1>6. ASSUME AttachPlugin \/ AttachLoop PROVE DestroyFacts'
  BY <1>0, <1>6, DestroyGoto, Zenon DEF AttachPlugin, AttachLoop, tableVars
<1>7. ASSUME AttachPluginError \/ AttachLoopError \/ Detach PROVE DestroyFacts'
  BY <1>0, <1>7, DestroyGoto, Zenon DEF AttachPluginError, AttachLoopError, Detach, tableVars
<1>8. ASSUME DestroyHandles PROVE DestroyFacts'
  BY <1>0, <1>8, DestroyGoto, Zenon DEF DestroyHandles, DestroyClear, tableVars
<1>9. ASSUME NEW i \in Ids, NEW t \in Transports, NEW s \in Sess, CreateSession(i, s, t) PROVE DestroyFacts'
  <2>1. /\ sessions_mutex = NoTransport /\ pc' = [pc EXCEPT ![Req] = "created"]
        /\ lsess' = [lsess EXCEPT ![Req] = s] /\ UNCHANGED <<sdestroyed, todo, sessions_mutex>>
    BY <1>9, Zenon DEF CreateSession, Goto
  <2>2. /\ todo' = {} /\ \A q \in Transports \cup {Wd} : pc'[q] = "idle"
        /\ pc'[Req] = "created" /\ \A q \in Threads \ {Req} : pc'[q] = pc[q] /\ lsess'[q] = lsess[q]
    BY <1>0, <2>1, MutexFree, Zenon
  <2>3. \A p \in Threads : pc'[p] = "destroy_clear" =>
           /\ lsess'[p] \in sdestroyed
           /\ \A q \in Threads : pc'[q] = "destroy_clear" /\ lsess'[q] = lsess'[p] => q = p
    BY <1>0, <2>2, ZenonT(40) DEF DestroyFacts
  <2> QED
    BY <2>1, <2>2, <2>3, Zenon DEF DestroyFacts
<1>10. ASSUME DestroyRemove PROVE DestroyFacts'
  <2>1. /\ sessions_mutex = NoTransport /\ pc' = [pc EXCEPT ![Req] = "destroy_mark"]
        /\ UNCHANGED <<sdestroyed, todo, sessions_mutex, lsess>>
    BY <1>10, Zenon DEF DestroyRemove, Goto
  <2>2. /\ todo' = {} /\ \A q \in Transports \cup {Wd} : pc'[q] = "idle"
        /\ pc'[Req] = "destroy_mark" /\ \A q \in Threads \ {Req} : pc'[q] = pc[q]
    BY <1>0, <2>1, MutexFree, Zenon
  <2>3. \A p \in Threads : pc'[p] = "destroy_clear" =>
           /\ lsess'[p] \in sdestroyed
           /\ \A q \in Threads : pc'[q] = "destroy_clear" /\ lsess'[q] = lsess'[p] => q = p
    BY <1>0, <2>1, <2>2, ZenonT(40) DEF DestroyFacts
  <2> QED
    BY <2>1, <2>2, <2>3, Zenon DEF DestroyFacts
<1>11. ASSUME DestroyMark PROVE DestroyFacts'
  <2>0. PICK s \in Sess : s = lsess[Req]
    BY <1>0, <1>11, LocalFacts, Zenon DEF DestroyMark
  <2>1. /\ pc[Req] = "destroy_mark" /\ sdestroyed' = sdestroyed \cup {s}
        /\ pc' = [pc EXCEPT ![Req] = IF s \in sdestroyed THEN "done" ELSE "destroy_clear"]
        /\ UNCHANGED <<table, sid, todo, sessions_mutex, lsess>>
    BY <1>11, <2>0, Zenon DEF DestroyMark, MarkDestroyed, Goto
  <2>2. /\ pc'[Req] = IF s \in sdestroyed THEN "done" ELSE "destroy_clear"
        /\ \A q \in Threads \ {Req} : pc'[q] = pc[q]
    BY <1>0, <2>1, Zenon
  <2>3. table[sid[s]] # s
    BY <2>0, <2>1, NullsAssumption, Zenon DEF RefsInv, TableInv, Located
  <2>4. \A x \in Sess : Held(x) => Held(x)'
    BY <2>1, <2>3, Zenon DEF Held
  <2>5. \A p \in Threads : pc'[p] = "destroy_clear" =>
           /\ lsess[p] \in sdestroyed'
           /\ \A q \in Threads : pc'[q] = "destroy_clear" /\ lsess[q] = lsess[p] => q = p
    BY <1>0, <2>0, <2>1, <2>2, ZenonT(40) DEF DestroyFacts
  <2>6. /\ pc[Wd] \in {"clear", "remove"} => Held(lsess[Wd])' /\ lsess[Wd] \notin todo
        /\ \A t \in Transports : pc[t] = "over" => Held(lsess[t])' /\ lsess[t] \notin todo
    BY <1>0, <2>1, <2>3, Zenon DEF DestroyFacts, Held
  <2>7. \A x \in todo : Held(x)'
    BY <1>0, <2>4, LocalFacts, Zenon DEF DestroyFacts
  <2> QED
    BY <1>0, <2>1, <2>2, <2>5, <2>6, <2>7, ZenonT(40) DEF DestroyFacts
<1> QED
  BY <1>2, <1>3, <1>4, <1>5, <1>6, <1>7, <1>8, <1>9, <1>10, <1>11, Zenon DEF RequestsThread

\* A task destroys no session.
LEMMA WorkerDestroy ==
    ASSUME TypeOK, RefsInv, NEW p \in Workers, Worker(p)
    PROVE  DestroyFacts'
<1>1. ASSUME NEW i \in Ids, NEW t \in Transports, FindSession(p, i, t) PROVE DestroyFacts'
  <2>1. \A q \in Threads \ {p} : lsess'[q] = lsess[q]
    BY <1>1, LocalFacts, Zenon DEF FindSession
  <2> QED
    BY <1>1, <2>1, DestroyTake, Zenon DEF FindSession, tableVars
<1>2. ASSUME NEW op \in {"detach", "message", "done"}, NEW h \in Hnds, NEW admin \in BOOLEAN,
             HandleRequest(p, op, h, admin)
      PROVE  DestroyFacts'
  BY <1>2, DestroyGoto, Zenon DEF HandleRequest
<1>3. ASSUME MissingHandle(p) \/ Message(p) \/ Deliver(p) PROVE DestroyFacts'
  <2>1. PICK l \in {"done", "deliver"} : Goto(p, l)
    BY <1>3, Zenon DEF MissingHandle, Message, Deliver
  <2>2. UNCHANGED <<table, sid, sdestroyed, todo, sessions_mutex, lsess>>
    BY <1>3, Zenon DEF MissingHandle, Message, Deliver, tableVars
  <2> QED
    BY <2>1, <2>2, DestroyGoto, Zenon
<1>4. ASSUME Done(p) PROVE DestroyFacts'
  <2>1. /\ Goto(p, "idle") /\ lsess' = [lsess EXCEPT ![p] = NoSess]
        /\ UNCHANGED <<table, sid, sdestroyed, todo, sessions_mutex>>
    BY <1>4, Zenon DEF Done, tableVars
  <2>2. \A q \in Threads \ {p} : lsess'[q] = lsess[q]
    BY <2>1, LocalFacts, Zenon
  <2> QED
    BY <2>1, <2>2, DestroyTake, Zenon
<1> QED
  BY <1>1, <1>2, <1>3, <1>4, Zenon DEF Worker

\* What is in the table while nobody holds sessions_mutex is not destroyed.
LEMMA TableHeld ==
    ASSUME RefsInv, sessions_mutex = NoTransport
    PROVE  \A s \in InTable : Held(s)
BY NullsAssumption, ZenonT(40) DEF RefsInv, TableInv, TableSound, InTable, Held

\* The watchdog is alone at destroying a session.
LEMMA WatchdogDestroy ==
    ASSUME TypeOK, RefsInv,
           WdStart \/ WdClear \/ WdRemove \/ WdDestroy \/ WdEnd \/ \E s \in Sess : WdCheck(s)
    PROVE  DestroyFacts'
<1>0. /\ Wd \in Threads /\ pc \in [Threads -> Labels] /\ lsess \in [Threads -> Sess \cup {NoSess}]
      /\ todo \subseteq Sess /\ DestroyFacts
      /\ pc[Wd] # "idle" => sessions_mutex = Wd
      /\ Wd # NoTransport
  BY ThreadFacts, LocalFacts, NullsAssumption, Zenon DEF RefsInv, TableInv, MutexSound
<1>1. CASE WdStart
  <2>1. /\ sessions_mutex = NoTransport /\ sessions_mutex' = Wd /\ todo' = InTable
        /\ pc' = [pc EXCEPT ![Wd] = "check"] /\ UNCHANGED <<table, sid, sdestroyed, lsess>>
    BY <1>1, Zenon DEF WdStart, Goto, tableVars
  <2>2. pc'[Wd] = "check" /\ \A q \in Threads \ {Wd} : pc'[q] = pc[q] /\ lsess'[q] = lsess[q]
    BY <1>0, <2>1, Zenon
  <2>3. \A s \in todo' : Held(s)'
    BY <2>1, TableHeld, Zenon DEF Held
  <2> QED
    BY <1>0, <2>1, <2>2, <2>3, DestroyHolder, Zenon
<1>2. CASE WdClear \/ WdDestroy
  <2>1. /\ pc[Wd] # "idle" /\ UNCHANGED <<table, sid, sdestroyed, lsess, todo, sessions_mutex>>
        /\ \/ pc[Wd] = "clear" /\ pc' = [pc EXCEPT ![Wd] = "remove"]
           \/ pc' = [pc EXCEPT ![Wd] = "check"]
    BY <1>2, Zenon DEF WdClear, WdDestroy, DestroyClear, Goto, tableVars
  <2>2. /\ pc'[Wd] = "check" \/ (pc[Wd] = "clear" /\ pc'[Wd] = "remove")
        /\ \A q \in Threads \ {Wd} : pc'[q] = pc[q] /\ lsess'[q] = lsess[q]
    BY <1>0, <2>1, Zenon
  <2>3. \A s \in todo' : Held(s)'
    BY <1>0, <2>1, Zenon DEF DestroyFacts, Held
  <2>4. pc[Wd] = "clear" => table[sid[lsess[Wd]]] = lsess[Wd] /\ lsess[Wd] \notin sdestroyed \cup todo
    BY <1>0, Zenon DEF DestroyFacts, Held
  <2> QED
    BY <1>0, <2>1, <2>2, <2>3, <2>4, DestroyHolder, Zenon
<1>3. CASE WdRemove
  <2>0. PICK s \in Sess : s = lsess[Wd]
    BY <1>3, LocalFacts, Zenon DEF WdRemove
  <2>1. /\ pc[Wd] = "remove" /\ table' = [i \in Ids |-> IF table[i] = s THEN NoSess ELSE table[i]]
        /\ sdestroyed' = sdestroyed \cup {s} /\ UNCHANGED <<sid, lsess, todo, sessions_mutex>>
        /\ pc' = [pc EXCEPT ![Wd] = IF s \in sdestroyed THEN "check" ELSE "destroy_clear"]
    BY <1>3, <2>0, Zenon DEF WdRemove, MarkDestroyed, Goto
  <2>2. s \notin sdestroyed /\ s \notin todo
    BY <1>0, <2>0, <2>1, Zenon DEF DestroyFacts, Held
  <2>3. /\ pc'[Wd] = "destroy_clear"
        /\ \A q \in Threads \ {Wd} : pc'[q] = pc[q] /\ lsess'[q] = lsess[q]
    BY <1>0, <2>1, <2>2, Zenon
  <2>4. ASSUME NEW x \in todo PROVE Held(x)'
    <3>1. x # s /\ Held(x) /\ sid[x] \in Ids
      BY <1>0, <2>2, <2>4, ZenonT(40) DEF DestroyFacts, RefsInv, TableInv, Located, Created, TypeOK, TableTypes
    <3> QED
      BY <2>1, <3>1, Zenon DEF Held
  <2> QED
    BY <1>0, <2>0, <2>1, <2>2, <2>3, <2>4, DestroyHolder, Zenon
<1>4. CASE WdEnd
  <2>1. /\ pc[Wd] = "check" /\ todo = {} /\ pc' = [pc EXCEPT ![Wd] = "idle"]
        /\ lsess' = [lsess EXCEPT ![Wd] = NoSess] /\ UNCHANGED <<table, sid, sdestroyed, todo>>
    BY <1>4, Zenon DEF WdEnd, Goto, tableVars
  <2>2. pc'[Wd] = "idle" /\ \A q \in Threads \ {Wd} : pc'[q] = pc[q] /\ lsess'[q] = lsess[q]
    BY <1>0, <2>1, Zenon
  <2> QED
    BY <1>0, <2>1, <2>2, DestroyHolder, Zenon
<1>5. ASSUME NEW s \in Sess, WdCheck(s) PROVE DestroyFacts'
  <2>1. /\ pc[Wd] = "check" /\ s \in todo /\ todo' = todo \ {s}
        /\ UNCHANGED <<table, sid, sdestroyed, sessions_mutex>>
        /\ \/ UNCHANGED <<lsess, pc>>
           \/ lsess' = [lsess EXCEPT ![Wd] = s] /\ pc' = [pc EXCEPT ![Wd] = "clear"]
    BY <1>5, Zenon DEF WdCheck, Goto
  <2>2. /\ pc'[Wd] = "check" \/ (pc'[Wd] = "clear" /\ lsess'[Wd] = s)
        /\ \A q \in Threads \ {Wd} : pc'[q] = pc[q] /\ lsess'[q] = lsess[q]
    BY <1>0, <2>1, Zenon
  <2>3. Held(s) /\ \A x \in todo' : Held(x)'
    BY <1>0, <2>1, Zenon DEF DestroyFacts, Held
  <2>4. table'[sid'[s]] = s /\ s \notin sdestroyed' \cup todo'
    BY <2>1, <2>3, Zenon DEF Held
  <2> QED
    BY <1>0, <2>1, <2>2, <2>3, <2>4, DestroyHolder, ZenonT(40)
<1> QED
  BY <1>1, <1>2, <1>3, <1>4, <1>5, Zenon

\* So is a transport's thread.
LEMMA TransportDestroy ==
    ASSUME TypeOK, RefsInv, NEW t \in Transports, TransportThread(t)
    PROVE  DestroyFacts'
<1>0. /\ t \in Threads /\ pc \in [Threads -> Labels] /\ lsess \in [Threads -> Sess \cup {NoSess}]
      /\ todo \subseteq Sess /\ DestroyFacts /\ t # Wd
      /\ pc[t] # "idle" => sessions_mutex = t
      /\ t # NoTransport
  BY ThreadFacts, LocalFacts, NullsAssumption, Zenon DEF RefsInv, TableInv, MutexSound
<1>1. CASE TgStart(t)
  <2>1. /\ sessions_mutex = NoTransport /\ sessions_mutex' = t /\ todo' = InTable
        /\ pc' = [pc EXCEPT ![t] = "gone"] /\ UNCHANGED <<table, sid, sdestroyed, lsess>>
    BY <1>1, Zenon DEF TgStart, Goto, tableVars
  <2>2. pc'[t] = "gone" /\ \A q \in Threads \ {t} : pc'[q] = pc[q] /\ lsess'[q] = lsess[q]
    BY <1>0, <2>1, Zenon
  <2>3. \A s \in todo' : Held(s)'
    BY <2>1, TableHeld, Zenon DEF Held
  <2> QED
    BY <1>0, <2>1, <2>2, <2>3, DestroyHolder, Zenon
<1>2. CASE TgFlag(t) \/ TgClear(t)
  <2>1. /\ pc[t] # "idle" /\ UNCHANGED <<table, sid, sdestroyed, lsess, todo, sessions_mutex>>
        /\ \E l \in {"gone", "remove"} : pc' = [pc EXCEPT ![t] = l]
    BY <1>2, Zenon DEF TgFlag, TgClear, DestroyClear, Goto, tableVars
  <2>2. /\ pc'[t] \in {"gone", "remove"}
        /\ \A q \in Threads \ {t} : pc'[q] = pc[q] /\ lsess'[q] = lsess[q]
    BY <1>0, <2>1, Zenon
  <2>3. \A s \in todo' : Held(s)'
    BY <1>0, <2>1, Zenon DEF DestroyFacts, Held
  <2> QED
    BY <1>0, <2>1, <2>2, <2>3, DestroyHolder, Zenon
<1>3. CASE TgMark(t)
  <2>0. PICK s \in Sess : s = lsess[t]
    BY <1>3, LocalFacts, Zenon DEF TgMark
  <2>1. /\ pc[t] = "over" /\ sdestroyed' = sdestroyed \cup {s}
        /\ UNCHANGED <<table, sid, lsess, todo, sessions_mutex>>
        /\ pc' = [pc EXCEPT ![t] = IF s \in sdestroyed THEN "remove" ELSE "destroy_clear"]
    BY <1>3, <2>0, Zenon DEF TgMark, MarkDestroyed, Goto
  <2>2. s \notin sdestroyed /\ s \notin todo
    BY <1>0, <2>0, <2>1, Zenon DEF DestroyFacts, Held
  <2>3. /\ pc'[t] = "destroy_clear"
        /\ \A q \in Threads \ {t} : pc'[q] = pc[q] /\ lsess'[q] = lsess[q]
    BY <1>0, <2>1, <2>2, Zenon
  <2>4. \A x \in todo' : Held(x)'
    BY <1>0, <2>1, <2>2, ZenonT(40) DEF DestroyFacts, Held
  <2> QED
    BY <1>0, <2>0, <2>1, <2>2, <2>3, <2>4, DestroyHolder, Zenon
<1>4. CASE TgRemove(t)
  <2>0. PICK s \in Sess : s = lsess[t]
    BY <1>4, LocalFacts, Zenon DEF TgRemove
  <2>1. /\ pc[t] = "remove" /\ table' = [i \in Ids |-> IF table[i] = s THEN NoSess ELSE table[i]]
        /\ UNCHANGED <<sid, sdestroyed, lsess, todo, sessions_mutex>>
        /\ pc' = [pc EXCEPT ![t] = "gone"]
    BY <1>4, <2>0, Zenon DEF TgRemove, Goto
  <2>2. s \in sdestroyed
    BY <2>0, <2>1, Zenon DEF RefsInv, TableInv, Located
  <2>3. pc'[t] = "gone" /\ \A q \in Threads \ {t} : pc'[q] = pc[q] /\ lsess'[q] = lsess[q]
    BY <1>0, <2>1, Zenon
  <2>4. ASSUME NEW x \in todo PROVE Held(x)'
    <3>1. x # s /\ Held(x) /\ sid[x] \in Ids
      <4>1. Held(x)
        BY <1>0, <2>4, Zenon DEF DestroyFacts
      <4>2. Created(x) /\ x \in Sess
        BY <2>4, LocalFacts, Zenon DEF RefsInv, TableInv, Located
      <4> QED
        BY <2>2, <4>1, <4>2, Zenon DEF Held, Created, TypeOK, TableTypes
    <3> QED
      BY <2>1, <3>1, Zenon DEF Held
  <2> QED
    BY <1>0, <2>1, <2>3, <2>4, DestroyHolder, Zenon
<1>5. CASE TgEnd(t)
  <2>1. /\ pc[t] = "gone" /\ todo = {} /\ pc' = [pc EXCEPT ![t] = "idle"]
        /\ lsess' = [lsess EXCEPT ![t] = NoSess] /\ UNCHANGED <<table, sid, sdestroyed, todo>>
    BY <1>5, Zenon DEF TgEnd, Goto, tableVars
  <2>2. pc'[t] = "idle" /\ \A q \in Threads \ {t} : pc'[q] = pc[q] /\ lsess'[q] = lsess[q]
    BY <1>0, <2>1, Zenon
  <2> QED
    BY <1>0, <2>1, <2>2, DestroyHolder, Zenon
<1>6. ASSUME NEW s \in Sess, TgCheck(t, s) PROVE DestroyFacts'
  <2>1. /\ pc[t] = "gone" /\ s \in todo /\ todo' = todo \ {s}
        /\ UNCHANGED <<table, sid, sdestroyed, sessions_mutex>>
        /\ \/ UNCHANGED <<lsess, pc>>
           \/ lsess' = [lsess EXCEPT ![t] = s] /\ pc' = [pc EXCEPT ![t] = "over"]
    BY <1>6, Zenon DEF TgCheck, Goto, tableVars
  <2>2. /\ pc'[t] = "gone" \/ (pc'[t] = "over" /\ lsess'[t] = s)
        /\ \A q \in Threads \ {t} : pc'[q] = pc[q] /\ lsess'[q] = lsess[q]
    BY <1>0, <2>1, Zenon
  <2>3. Held(s) /\ \A x \in todo' : Held(x)'
    BY <1>0, <2>1, Zenon DEF DestroyFacts, Held
  <2>4. table'[sid'[s]] = s /\ s \notin sdestroyed' \cup todo'
    BY <2>1, <2>3, Zenon DEF Held
  <2> QED
    BY <1>0, <2>1, <2>2, <2>3, <2>4, DestroyHolder, ZenonT(40)
<1> QED
  BY <1>1, <1>2, <1>3, <1>4, <1>5, <1>6, Zenon DEF TransportThread

\* Every step keeps the destruction of a session to one thread.
LEMMA DestroyStep == TypeOK /\ RefsInv /\ [Next]_vars => DestroyFacts'
<1> SUFFICES ASSUME TypeOK, RefsInv, [Next]_vars PROVE DestroyFacts'
  BY Zenon
<1>0. DestroyFacts
  BY Zenon DEF RefsInv
<1>1. ASSUME UNCHANGED <<table, sid, sdestroyed, threadVars>> PROVE DestroyFacts'
  BY <1>0, <1>1, Zenon DEF DestroyFacts, Held, threadVars
<1>2. CASE Tick \/ UNCHANGED vars
  BY <1>1, <1>2, Zenon DEF Tick, vars, tableVars
<1>3. ASSUME NEW h \in Hnds, EndSession(h) \/ Loop(h) \/ PluginUnref(h) \/ WdEndSession(h)
      PROVE  DestroyFacts'
  <2>1. CASE EndSession(h) \/ PluginUnref(h)
    BY <1>1, <2>1, Zenon DEF EndSession, PluginUnref, tableVars
  <2>2. CASE Loop(h)
    BY <1>1, <2>2, Zenon DEF Loop, LoopDetach, LoopEnd, tableVars
  <2>3. CASE WdEndSession(h)
    BY <1>1, <2>3, Zenon DEF WdEndSession, tableVars
  <2> QED
    BY <1>3, <2>1, <2>2, <2>3, Zenon
<1> QED
  BY <1>2, <1>3, RequestsDestroy, WorkerDestroy, WatchdogDestroy, TransportDestroy, Zenon DEF Next, Watchdog

-----------------------------------------------------------------------------
(* CreationFacts *)

\* A step that leaves the session being created alone keeps what is known of it.
LEMMA CreationKept ==
    ASSUME sid' = sid,
           \A s \in Sess : ~Created(s) => s \notin transport_gone' /\ source'[s] = NoTransport,
           pc'[Req] = "created" =>
              /\ lsess'[Req] = lsess[Req]
              /\ idle'[lsess[Req]] = 0 /\ source'[lsess[Req]] = NoTransport
              /\ lsess[Req] \notin transport_gone' \cup sdestroyed'
              /\ \A p \in Transports \cup {Wd} : lsess'[p] # lsess[Req]
    PROVE  CreationFacts'
BY Zenon DEF CreationFacts, Created

\* The requests thread leaves "created", or was not there.
LEMMA CreationOver ==
    ASSUME RefsInv, pc'[Req] # "created", UNCHANGED <<sid, transport_gone, source>>
    PROVE  CreationFacts'
BY CreationKept, Zenon DEF RefsInv, CreationFacts

\* The requests thread keeps what is known of the session it creates.
LEMMA RequestsCreation ==
    ASSUME TypeOK, RefsInv, RequestsThread
    PROVE  CreationFacts'
<1>0. /\ Req \in Workers /\ Req \in Threads /\ pc \in [Threads -> Labels] /\ CreationFacts
      /\ lsess \in [Threads -> Sess \cup {NoSess}] /\ source \in [Sess -> Transports \cup {NoTransport}]
      /\ idle \in [Sess -> 0 .. MaxIdle] /\ sid \in [Sess -> Ids \cup {NoId}]
      /\ Located /\ NoId \notin Ids
      /\ \A q \in Transports \cup {Wd} : q \in Threads \ {Req}
  BY ThreadFacts, LocalFacts, NullsAssumption, ZenonT(40) DEF TypeOK, TableTypes, RefsInv, TableInv
<1>1. ASSUME NEW l, l # "created", Goto(Req, l), UNCHANGED <<sid, transport_gone, source>>
      PROVE  CreationFacts'
  <2>1. pc'[Req] # "created"
    BY <1>0, <1>1, Zenon DEF Goto
  <2> QED
    BY <1>1, <2>1, CreationOver, Zenon
<1>2. ASSUME NEW i \in Ids, NEW t \in Transports, CreateConflict(i, t) PROVE CreationFacts'
  BY <1>1, <1>2, Zenon DEF CreateConflict, tableVars
<1>3. ASSUME CreateSource \/ Claim PROVE CreationFacts'
  <2>0. PICK s \in Sess : s = lsess[Req]
    BY <1>0, <1>3, LocalFacts, Zenon DEF CreateSource, Claim
  <2>1. /\ pc' = [pc EXCEPT ![Req] = "done"] /\ UNCHANGED sid /\ transport_gone' \subseteq transport_gone
        /\ source' = [source EXCEPT ![s] = from[Req]]
    BY <1>3, <2>0, Zenon DEF CreateSource, Claim, Goto
  <2>2. pc'[Req] # "created" /\ Created(s)
    BY <1>0, <2>0, <2>1, Zenon DEF Located
  <2>3. \A x \in Sess : ~Created(x) => x \notin transport_gone' /\ source'[x] = NoTransport
    BY <1>0, <2>1, <2>2, Zenon DEF CreationFacts
  <2> QED
    BY <2>1, <2>2, <2>3, CreationKept, Zenon
<1>4. ASSUME NEW op \in {"attach", "destroy", "claim", "done"}, NEW admin \in BOOLEAN, SessionRequest(op, admin)
      PROVE  CreationFacts'
  BY <1>1, <1>4, Zenon DEF SessionRequest
<1>5. ASSUME NEW h \in Hnds, AttachCreate(h) PROVE CreationFacts'
  BY <1>1, <1>5, Zenon DEF AttachCreate, tableVars
<1>6. ASSUME AttachPlugin \/ AttachLoop \/ AttachNone PROVE CreationFacts'
  BY <1>1, <1>6, Zenon DEF AttachPlugin, AttachLoop, AttachNone, tableVars
<1>7. ASSUME AttachPluginError \/ AttachLoopError \/ Detach PROVE CreationFacts'
  BY <1>1, <1>7, Zenon DEF AttachPluginError, AttachLoopError, Detach, tableVars
<1>8. ASSUME DestroyHandles PROVE CreationFacts'
  BY <1>1, <1>8, Zenon DEF DestroyHandles, DestroyClear, tableVars
<1>9. ASSUME DestroyRemove PROVE CreationFacts'
  BY <1>1, <1>9, Zenon DEF DestroyRemove
<1>10. ASSUME DestroyMark PROVE CreationFacts'
  <2>1. PICK l \in {"done", "destroy_clear"} : Goto(Req, l)
    BY <1>10, Zenon DEF DestroyMark, MarkDestroyed
  <2>2. UNCHANGED <<sid, transport_gone, source>>
    BY <1>10, Zenon DEF DestroyMark
  <2> QED
    BY <1>1, <2>1, <2>2, Zenon
<1>11. ASSUME NEW i \in Ids, NEW t \in Transports, NEW s \in Sess, CreateSession(i, s, t) PROVE CreationFacts'
  <2>1. /\ sid[s] = NoId /\ sid' = [sid EXCEPT ![s] = i] /\ idle' = [idle EXCEPT ![s] = 0]
        /\ lsess' = [lsess EXCEPT ![Req] = s] /\ UNCHANGED <<sdestroyed, transport_gone, source>>
    BY <1>11, Zenon DEF CreateSession
  <2>2. idle'[s] = 0 /\ lsess'[Req] = s /\ \A q \in Transports \cup {Wd} : lsess'[q] = lsess[q]
    BY <1>0, <2>1, Zenon
  <2>3. source[s] = NoTransport /\ s \notin transport_gone
    BY <1>0, <2>1, Zenon DEF CreationFacts, Created
  <2>4. s \notin sdestroyed /\ \A q \in Transports \cup {Wd} : lsess[q] # s
    BY <1>0, <2>1, Zenon DEF Located, Created
  <2>5. \A x \in Sess : ~Created(x)' => ~Created(x)
    BY <1>0, <2>1, Zenon DEF Created
  <2>6. \A x \in Sess : ~Created(x)' => x \notin transport_gone' /\ source'[x] = NoTransport
    BY <1>0, <2>1, <2>5, Zenon DEF CreationFacts
  <2>7. /\ idle'[lsess'[Req]] = 0 /\ source'[lsess'[Req]] = NoTransport
        /\ lsess'[Req] \notin transport_gone' \cup sdestroyed'
    <3>1. source'[s] = NoTransport /\ s \notin transport_gone' \cup sdestroyed'
      BY <2>1, <2>3, <2>4, Zenon
    <3> QED
      BY <2>2, <3>1, Zenon
  <2>8. \A q \in Transports \cup {Wd} : lsess'[q] # lsess'[Req]
    BY <2>2, <2>4, Zenon
  <2> QED
    BY <2>6, <2>7, <2>8, Zenon DEF CreationFacts
<1> QED
  BY <1>2, <1>3, <1>4, <1>5, <1>6, <1>7, <1>8, <1>9, <1>10, <1>11, Zenon DEF RequestsThread

\* A task leaves it alone.
LEMMA WorkerCreation ==
    ASSUME TypeOK, RefsInv, NEW p \in Workers, Worker(p)
    PROVE  CreationFacts'
<1>0. /\ p \in Threads /\ Req \in Threads /\ pc \in [Threads -> Labels] /\ CreationFacts
      /\ Req \in Workers /\ lsess \in [Threads -> Sess \cup {NoSess}] /\ idle \in [Sess -> 0 .. MaxIdle]
      /\ \A q \in Transports \cup {Wd} : q \in Threads \ {p}
  BY ThreadFacts, LocalFacts, ZenonT(40) DEF TypeOK, TableTypes, RefsInv
<1>1. /\ UNCHANGED <<sid, transport_gone, source, sdestroyed>>
      /\ idle' = idle \/ \E x : idle' = [idle EXCEPT ![x] = 0]
  BY ZenonT(40) DEF Worker, FindSession, HandleRequest, MissingHandle, Message, Deliver, Done, tableVars
<1>2. /\ \E l : l # "created" /\ pc' = [pc EXCEPT ![p] = l]
      /\ lsess' = lsess \/ \E x : lsess' = [lsess EXCEPT ![p] = x]
  BY ZenonT(40) DEF Worker, FindSession, HandleRequest, MissingHandle, Message, Deliver, Done, Goto
<1>3. pc'[p] # "created" /\ \A q \in Threads \ {p} : pc'[q] = pc[q] /\ lsess'[q] = lsess[q]
  BY <1>0, <1>2, Zenon
<1>4. CASE p = Req
  BY <1>1, <1>3, <1>4, CreationOver, Zenon
<1>5. CASE p # Req
  <2>1. pc'[Req] = pc[Req] /\ lsess'[Req] = lsess[Req]
    BY <1>0, <1>3, <1>5, Zenon
  <2>2. ASSUME pc[Req] = "created" PROVE idle'[lsess[Req]] = 0
    BY <1>0, <1>1, <2>2, LocalFacts, Zenon DEF CreationFacts
  <2>3. pc[Req] = "created" =>
           /\ source[lsess[Req]] = NoTransport /\ lsess[Req] \notin transport_gone \cup sdestroyed
           /\ \A q \in Transports \cup {Wd} : lsess'[q] # lsess[Req]
    BY <1>0, <1>3, Zenon DEF CreationFacts
  <2>4. \A s \in Sess : ~Created(s) => s \notin transport_gone /\ source[s] = NoTransport
    BY <1>0, Zenon DEF CreationFacts
  <2> QED
    BY <1>1, <2>1, <2>2, <2>3, <2>4, CreationKept, Zenon
<1> QED
  BY <1>4, <1>5, Zenon

\* A thread that goes over the table leaves it alone.
LEMMA CreationHolder ==
    ASSUME TypeOK, RefsInv, NEW p \in Transports \cup {Wd}, UNCHANGED <<sid, idle, source>>,
           \A q \in Threads \ {p} : pc'[q] = pc[q] /\ lsess'[q] = lsess[q],
           sdestroyed' \subseteq sdestroyed \cup {lsess[p]},
           transport_gone' \subseteq transport_gone \cup {lsess[p]},
           \/ lsess'[p] \in {lsess[p], NoSess}
           \/ pc[Req] = "created" => lsess'[p] # lsess[Req]
    PROVE  CreationFacts'
<1>0. /\ p \in Threads /\ Req \in Threads \ {p} /\ CreationFacts /\ Located
      /\ Transports \cup {Wd} \subseteq Threads
      /\ pc[Req] = "created" => lsess[Req] \in Sess
      /\ NoSess \notin Sess
  BY ThreadFacts, LocalFacts, NullsAssumption, ZenonT(40) DEF RefsInv, TableInv
<1>1. \A s \in Sess : ~Created(s) => s \notin transport_gone' /\ source[s] = NoTransport
  BY <1>0, ZenonT(40) DEF CreationFacts, Located
<1>2. ASSUME pc[Req] = "created"
      PROVE  /\ idle[lsess[Req]] = 0 /\ source[lsess[Req]] = NoTransport
             /\ lsess[Req] \notin transport_gone' \cup sdestroyed'
             /\ \A q \in Transports \cup {Wd} : lsess'[q] # lsess[Req]
  BY <1>0, <1>2, ZenonT(40) DEF CreationFacts
<1> QED
  BY <1>0, <1>1, <1>2, CreationKept, Zenon

\* So does the watchdog: the session was used just now.
LEMMA WatchdogCreation ==
    ASSUME TypeOK, RefsInv,
           WdStart \/ WdClear \/ WdRemove \/ WdDestroy \/ WdEnd \/ \E s \in Sess : WdCheck(s)
    PROVE  CreationFacts'
<1>0. /\ Wd \in Threads /\ Req \in Threads /\ Req \in Workers
      /\ pc \in [Threads -> Labels] /\ lsess \in [Threads -> Sess \cup {NoSess}]
      /\ CreationFacts
  BY ThreadFacts, LocalFacts, Zenon DEF RefsInv
<1>1. CASE WdStart \/ WdClear \/ WdRemove \/ WdDestroy \/ WdEnd
  <2>1. /\ UNCHANGED <<sid, idle, source, transport_gone>> /\ sdestroyed' \subseteq sdestroyed \cup {lsess[Wd]}
        /\ \E l : pc' = [pc EXCEPT ![Wd] = l]
        /\ lsess' = lsess \/ lsess' = [lsess EXCEPT ![Wd] = NoSess]
    BY <1>1, Zenon DEF WdStart, WdClear, WdRemove, WdDestroy, WdEnd, DestroyClear, MarkDestroyed, Goto, tableVars
  <2>2. /\ \A q \in Threads \ {Wd} : pc'[q] = pc[q] /\ lsess'[q] = lsess[q]
        /\ lsess'[Wd] \in {lsess[Wd], NoSess}
    BY <1>0, <2>1, Zenon
  <2> QED
    BY <2>1, <2>2, CreationHolder, Zenon
<1>2. ASSUME NEW s \in Sess, WdCheck(s) PROVE CreationFacts'
  <2>1. /\ UNCHANGED <<sid, idle, source, transport_gone, sdestroyed>>
        /\ \/ UNCHANGED <<lsess, pc>>
           \/ /\ WdOver(s) /\ lsess' = [lsess EXCEPT ![Wd] = s]
              /\ pc' = [pc EXCEPT ![Wd] = "clear"]
    BY <1>2, Zenon DEF WdCheck, Goto
  <2>2. /\ \A q \in Threads \ {Wd} : pc'[q] = pc[q] /\ lsess'[q] = lsess[q]
        /\ lsess'[Wd] = lsess[Wd] \/ (lsess'[Wd] = s /\ WdOver(s))
    BY <1>0, <2>1, Zenon
  <2>3. ASSUME pc[Req] = "created", WdOver(s) PROVE s # lsess[Req]
    <3>1. idle[lsess[Req]] = 0 /\ lsess[Req] \notin transport_gone
      BY <1>0, <2>3, Zenon DEF CreationFacts
    <3>2. idle[s] # 0 \/ s \in transport_gone
      BY <2>3, SizesAssumption, SMTT(40) DEF WdOver, IdleExpired, ReclaimExpired
    <3> QED
      BY <3>1, <3>2, Zenon
  <2>4. lsess'[Wd] = lsess[Wd] \/ (pc[Req] = "created" => lsess'[Wd] # lsess[Req])
    BY <2>2, <2>3, Zenon
  <2> QED
    BY <2>1, <2>2, <2>4, CreationHolder, Zenon
<1> QED
  BY <1>1, <1>2, Zenon

\* So does a transport's thread: the session has no source yet.
LEMMA TransportCreation ==
    ASSUME TypeOK, RefsInv, NEW t \in Transports, TransportThread(t)
    PROVE  CreationFacts'
<1>0. /\ t \in Threads /\ pc \in [Threads -> Labels] /\ lsess \in [Threads -> Sess \cup {NoSess}]
      /\ CreationFacts /\ t # NoTransport
  BY ThreadFacts, LocalFacts, NullsAssumption, Zenon DEF RefsInv
<1>1. CASE TgStart(t) \/ TgFlag(t) \/ TgMark(t) \/ TgClear(t) \/ TgRemove(t) \/ TgEnd(t)
  <2>1. /\ UNCHANGED <<sid, idle, source>> /\ sdestroyed' \subseteq sdestroyed \cup {lsess[t]}
        /\ transport_gone' \subseteq transport_gone \cup {lsess[t]}
    BY <1>1, Zenon DEF TgStart, TgFlag, TgMark, TgClear, TgRemove, TgEnd, DestroyClear, MarkDestroyed, tableVars
  <2>2. /\ \E l : pc' = [pc EXCEPT ![t] = l]
        /\ lsess' = lsess \/ lsess' = [lsess EXCEPT ![t] = NoSess]
    BY <1>1, Zenon DEF TgStart, TgFlag, TgMark, TgClear, TgRemove, TgEnd, DestroyClear, MarkDestroyed, Goto
  <2>3. /\ \A q \in Threads \ {t} : pc'[q] = pc[q] /\ lsess'[q] = lsess[q]
        /\ lsess'[t] \in {lsess[t], NoSess}
    BY <1>0, <2>2, Zenon
  <2> QED
    BY <2>1, <2>3, CreationHolder, Zenon
<1>2. ASSUME NEW s \in Sess, TgCheck(t, s) PROVE CreationFacts'
  <2>1. /\ UNCHANGED <<sid, idle, source, transport_gone, sdestroyed>>
        /\ \/ UNCHANGED <<lsess, pc>>
           \/ /\ source[s] = t /\ lsess' = [lsess EXCEPT ![t] = s]
              /\ pc' = [pc EXCEPT ![t] = "over"]
    BY <1>2, Zenon DEF TgCheck, Goto, tableVars
  <2>2. /\ \A q \in Threads \ {t} : pc'[q] = pc[q] /\ lsess'[q] = lsess[q]
        /\ lsess'[t] = lsess[t] \/ (lsess'[t] = s /\ source[s] = t)
    BY <1>0, <2>1, Zenon
  <2>3. lsess'[t] = lsess[t] \/ (pc[Req] = "created" => lsess'[t] # lsess[Req])
    BY <1>0, <2>2, Zenon DEF CreationFacts
  <2> QED
    BY <2>1, <2>2, <2>3, CreationHolder, Zenon
<1> QED
  BY <1>1, <1>2, Zenon DEF TransportThread

\* Every step keeps what is known of a session being created.
LEMMA CreationStep == TypeOK /\ RefsInv /\ [Next]_vars => CreationFacts'
<1> SUFFICES ASSUME TypeOK, RefsInv, [Next]_vars PROVE CreationFacts'
  BY Zenon
<1>0. CreationFacts
  BY Zenon DEF RefsInv
<1>1. ASSUME UNCHANGED <<tableVars, threadVars>> PROVE CreationFacts'
  BY <1>0, <1>1, Zenon DEF CreationFacts, Created, tableVars, threadVars
<1>2. CASE Tick
  BY <1>2, CreationOver, Zenon DEF Tick, threadVars
<1>3. CASE UNCHANGED vars
  BY <1>1, <1>3, Zenon DEF vars
<1>4. ASSUME NEW h \in Hnds, EndSession(h) \/ Loop(h) \/ PluginUnref(h) \/ WdEndSession(h)
      PROVE  CreationFacts'
  <2>1. CASE EndSession(h) \/ PluginUnref(h)
    BY <1>1, <2>1, Zenon DEF EndSession, PluginUnref
  <2>2. CASE Loop(h)
    BY <1>1, <2>2, Zenon DEF Loop, LoopDetach, LoopEnd
  <2>3. CASE WdEndSession(h)
    BY <1>1, <2>3, Zenon DEF WdEndSession
  <2> QED
    BY <1>4, <2>1, <2>2, <2>3, Zenon
<1> QED
  BY <1>2, <1>3, <1>4, RequestsCreation, WorkerCreation, WatchdogCreation, TransportCreation, Zenon DEF Next, Watchdog

\* A step changes the label of one thread, and a task's not to "created".
LEMMA TaskStep == TypeOK /\ TaskFacts /\ [Next]_vars => TaskFacts'
<1> SUFFICES ASSUME TypeOK, TaskFacts, [Next]_vars PROVE TaskFacts'
  BY Zenon
<1>0. /\ pc \in [Threads -> Labels] /\ Req \notin Tasks /\ Wd \notin Tasks
      /\ \A t \in Transports : t \notin Tasks
      /\ Tasks \subseteq Threads
  BY LocalFacts, ThreadsAssumption, ThreadFacts, Zenon DEF Threads, Workers
<1>1. CASE RequestsThread
  <2>1. \E l : Goto(Req, l)
    <3>1. CASE \E i \in Ids, t \in Transports : CreateConflict(i, t) \/ \E s \in Sess : CreateSession(i, s, t)
      BY <3>1, ZenonT(40) DEF CreateConflict, CreateSession
    <3>2. CASE CreateSource \/ Claim \/ AttachNone \/ AttachPlugin \/ AttachPluginError \/ AttachLoop
      BY <3>2, Zenon DEF CreateSource, Claim, AttachNone, AttachPlugin, AttachPluginError, AttachLoop
    <3>3. CASE AttachLoopError \/ Detach
      BY <3>3, Zenon DEF AttachLoopError, Detach
    <3>4. CASE DestroyRemove \/ DestroyMark \/ DestroyHandles
      BY <3>4, Zenon DEF DestroyRemove, DestroyMark, MarkDestroyed, DestroyHandles, DestroyClear
    <3>5. ASSUME NEW op, NEW admin, SessionRequest(op, admin) PROVE Goto(Req, op)
      BY <3>5, Zenon DEF SessionRequest
    <3>6. ASSUME NEW h, AttachCreate(h) PROVE Goto(Req, "attach_plugin")
      BY <3>6, Zenon DEF AttachCreate
    <3> QED
      BY <1>1, <3>1, <3>2, <3>3, <3>4, <3>5, <3>6, Zenon DEF RequestsThread
  <2> QED
    BY <1>0, <2>1, Zenon DEF Goto, TaskFacts
<1>2. ASSUME NEW p \in Workers, Worker(p) PROVE TaskFacts'
  <2>1. \E l : l # "created" /\ Goto(p, l)
    BY <1>2, ZenonT(40) DEF Worker, FindSession, HandleRequest, MissingHandle, Message, Deliver, Done
  <2> QED
    BY <1>0, <2>1, Zenon DEF Goto, TaskFacts
<1>3. CASE WdStart \/ WdClear \/ WdRemove \/ WdDestroy \/ WdEnd \/ \E s \in Sess : WdCheck(s)
  <2>1. pc' = pc \/ \E l : Goto(Wd, l)
    BY <1>3, Zenon DEF WdStart, WdClear, WdRemove, WdDestroy, WdEnd, WdCheck, DestroyClear, MarkDestroyed
  <2> QED
    BY <1>0, <2>1, Zenon DEF Goto, TaskFacts
<1>4. ASSUME NEW t \in Transports, TransportThread(t) PROVE TaskFacts'
  <2>1. pc' = pc \/ \E l : Goto(t, l)
    BY <1>4, Zenon DEF TransportThread, TgStart, TgCheck, TgFlag, TgMark, TgClear, TgRemove, TgEnd, DestroyClear, MarkDestroyed
  <2> QED
    BY <1>0, <2>1, Zenon DEF Goto, TaskFacts
<1>5. ASSUME NEW h \in Hnds, EndSession(h) \/ Loop(h) \/ PluginUnref(h) \/ WdEndSession(h)
      PROVE  TaskFacts'
  <2>1. CASE EndSession(h) \/ PluginUnref(h)
    BY <2>1, Zenon DEF EndSession, PluginUnref, threadVars, TaskFacts
  <2>2. CASE Loop(h)
    BY <2>2, Zenon DEF Loop, LoopDetach, LoopEnd, threadVars, TaskFacts
  <2>3. CASE WdEndSession(h)
    BY <2>3, Zenon DEF WdEndSession, threadVars, TaskFacts
  <2> QED
    BY <1>5, <2>1, <2>2, <2>3, Zenon
<1>6. CASE Tick \/ UNCHANGED vars
  BY <1>6, Zenon DEF Tick, vars, threadVars, TaskFacts
<1> QED
  BY <1>1, <1>2, <1>3, <1>4, <1>5, <1>6, Zenon DEF Next, Watchdog

-----------------------------------------------------------------------------
(* The initial states, and what the invariant gives *)

\* The initial states satisfy the invariant.
LEMMA RefsInit == ASSUME CountLaws, Init, TableInv PROVE RefsInv
<1>0. /\ Req \in Threads /\ Wd \in Threads /\ Workers \subseteq Threads /\ Transports \subseteq Threads
      /\ Tasks \subseteq Workers /\ NoSess \notin Sess /\ NoHnd \notin Hnds
  BY ThreadFacts, NullsAssumption, Zenon DEF Workers
<1>1. \A s \in Sess : UsersOf(s) = {} /\ LiveHandlesOf(s) = {} /\ ~HasInitialRef(s)
  BY <1>0, Zenon DEF Init, UsersOf, LiveHandlesOf, HasInitialRef, Created, NoneH
<1>2. \A h \in Hnds : HandleUsers(h) = {} /\ LoopRefs(h) = 0
  BY <1>0, Zenon DEF Init, HandleUsers, LoopRefs
<1>3. Cardinality({}) = 0
  BY NoneCounted, Zenon
<1>4. RefsExact
  <2>1. \A s \in Sess : sref[s] = 0
    BY Zenon DEF Init, NoneS
  <2>2. \A h \in Hnds : /\ href[h] = 0 /\ pref[h] = 0 /\ h \notin listed \cup plugged \cup ending
                        /\ app[h] = "none" /\ hsess[h] = NoSess
    BY Zenon DEF Init, NoneH
  <2>3. /\ \A s \in Sess : Cardinality(UsersOf(s)) = 0 /\ Cardinality(LiveHandlesOf(s)) = 0
        /\ \A h \in Hnds : Cardinality(HandleUsers(h)) = 0
    BY <1>1, <1>2, <1>3, Zenon
  <2> QED
    <3>1. \A s \in Sess : One(HasInitialRef(s)) = 0
      BY <1>1, Zenon DEF One
    <3>2. \A h \in Hnds : /\ One(hsess[h] # NoSess /\ app[h] \in {"none", "alive"}) = 0
                          /\ One(h \in listed) = 0 /\ One(pref[h] > 0) = 0
                          /\ One(app[h] = "alive") = 0 /\ One(h \in plugged) = 0 /\ One(h \in ending) = 0
      BY <2>2, SumNone, Zenon DEF One
    <3> QED
      BY <1>2, <2>1, <2>2, <2>3, <3>1, <3>2, SumNone, ZenonT(40) DEF RefsExact
<1>5. HandleFacts
  BY <1>0, Zenon DEF Init, HandleFacts, NoneH
<1>6. DestroyFacts
  BY <1>0, Zenon DEF Init, DestroyFacts
<1>7. CreationFacts /\ TaskFacts
  BY <1>0, Zenon DEF Init, CreationFacts, TaskFacts
<1> QED
  BY <1>4, <1>5, <1>6, <1>7, Zenon DEF RefsInv

\* The invariant leaves a reference to whatever is still in use.
LEMMA RefsEnough == CountLaws /\ TypeOK /\ RefsInv => NoUseAfterFree
<1> SUFFICES ASSUME CountLaws, TypeOK, RefsInv PROVE NoUseAfterFree
  BY Zenon
<1>0. /\ TableSound /\ Located /\ SessionsExact /\ HandlesExact /\ HandleFacts /\ DestroyFacts /\ TaskFacts
      /\ CreationFacts
  BY ExactParts, Zenon DEF RefsInv, TableInv
<1>s. \A s \in Sess :
         /\ sref[s] = One(HasInitialRef(s)) + Cardinality(UsersOf(s)) + Cardinality(LiveHandlesOf(s))
         /\ One(HasInitialRef(s)) \in {0, 1} /\ Cardinality(UsersOf(s)) \in Nat
         /\ Cardinality(LiveHandlesOf(s)) \in Nat
  BY CountTypes, CountNumbers, Zenon DEF RefsInv, RefsExact
<1>1. ASSUME NEW s \in Sess, HasInitialRef(s) PROVE sref[s] > 0
  <2>1. One(HasInitialRef(s)) = 1
    BY <1>1, Zenon DEF One
  <2> QED
    BY <1>s, <2>1, SMTT(40)
<1>2. ASSUME NEW s \in Sess, s \notin sdestroyed, Created(s) PROVE sref[s] > 0
  BY <1>1, <1>2, Zenon DEF HasInitialRef
<1>3. ASSUME NEW p \in Threads, pc[p] = "destroy_clear", lsess[p] \in Sess PROVE sref[lsess[p]] > 0
  BY <1>0, <1>1, <1>3, Zenon DEF HasInitialRef, Located
<1>4. ASSUME NEW p \in Workers, lsess[p] # NoSess PROVE sref[lsess[p]] > 0
  <2>1. lsess[p] \in Sess
    BY <1>4, LocalFacts, ThreadFacts, Zenon
  <2>2. CASE pc[p] = "created"
    <3>1. p = Req
      BY <1>0, <2>2, Zenon DEF TaskFacts, Workers
    <3> QED
      BY <1>0, <1>2, <2>1, <2>2, <3>1, ThreadFacts, Zenon DEF CreationFacts, Located
  <2>3. CASE pc[p] # "created"
    <3>1. PICK s \in Sess : s = lsess[p]
      BY <2>1, Zenon
    <3>2. p \in UsersOf(s) /\ UsersOf(s) \in SUBSET Workers
      BY <2>3, <3>1, Zenon DEF UsersOf
    <3>3. Cardinality(UsersOf(s)) \in Nat \ {0}
      BY <3>2, WorkersFinite, NoneCounted, Zenon
    <3> QED
      BY <1>s, <3>1, <3>3, SMTT(40)
  <2> QED
    BY <2>2, <2>3, Zenon
<1>5. \A h \in Hnds : LoopRefs(h) \in Nat /\ Cardinality(HandleUsers(h)) \in Nat
  BY CountTypes, Zenon DEF LoopRefs
<1>6. ASSUME NEW p \in Workers, lhnd[p] # NoHnd PROVE href[lhnd[p]] > 0
  <2>1. PICK h \in Hnds : h = lhnd[p]
    BY <1>6, LocalFacts, ThreadFacts, Zenon
  <2>2. p \in HandleUsers(h) /\ HandleUsers(h) \in SUBSET Workers
    BY <2>1, Zenon DEF HandleUsers
  <2>3. Cardinality(HandleUsers(h)) \in Nat \ {0}
    BY <2>2, WorkersFinite, NoneCounted, Zenon
  <2> QED
    BY <1>0, <1>5, <2>1, <2>3, SMTT(40) DEF HandlesExact, HandleCount, One
<1>7. ASSUME NEW h \in Hnds
      PROVE  /\ h \in listed \/ loop[h] \in {"running", "quit"} => href[h] > 0
             /\ app[h] \in {"alive", "stopped"} => pref[h] > 0
             /\ pref[h] > 0 => href[h] > 0
  <2>1. href[h] = HandleCount(h) /\ pref[h] = PluginCount(h)
    BY <1>0, Zenon DEF HandlesExact
  <2>2. h \in listed \/ loop[h] \in {"running", "quit"} => href[h] > 0
    BY <1>5, <2>1, SMTT(40) DEF HandleCount, LoopRefs, One
  <2>3. app[h] \in {"alive", "stopped"} => pref[h] > 0
    BY <1>0, <2>1, SMTT(40) DEF PluginCount, HandleFacts, One
  <2>4. pref[h] > 0 => href[h] > 0
    BY <1>5, <2>1, SMTT(40) DEF HandleCount, One
  <2> QED
    BY <2>2, <2>3, <2>4, Zenon
<1>8. ASSUME NEW h \in Hnds, href[h] > 0 PROVE sref[hsess[h]] > 0
  <2>1. hsess[h] # NoSess
    <3>1. SUFFICES ASSUME hsess[h] = NoSess PROVE FALSE
      BY Zenon
    <3>2. h \notin listed /\ app[h] = "none" /\ h \notin plugged \cup ending /\ loop[h] = "none" /\ HandleUsers(h) = {}
      BY <1>0, <3>1, Zenon DEF HandleFacts, HandleUsers
    <3>3. pref[h] = 0 /\ Cardinality(HandleUsers(h)) = 0
      BY <1>0, <3>2, NoneCounted, SMTT(40) DEF HandlesExact, PluginCount, One
    <3> QED
      BY <1>0, <1>8, <3>1, <3>2, <3>3, SMTT(40) DEF HandlesExact, HandleCount, LoopRefs, One
  <2>2. PICK s \in Sess : s = hsess[h]
    BY <2>1, Zenon DEF TypeOK, HandleTypes
  <2>3. h \in LiveHandlesOf(s) /\ LiveHandlesOf(s) \in SUBSET Hnds
    BY <1>8, <2>2, Zenon DEF LiveHandlesOf
  <2>4. Cardinality(LiveHandlesOf(s)) \in Nat \ {0}
    BY <2>3, HandlesFinite, NoneCounted, Zenon
  <2> QED
    BY <1>s, <2>2, <2>4, SMTT(40)
<1>9. ASSUME NEW s \in Sess, Held(s), Created(s) PROVE sref[s] > 0
  BY <1>2, <1>9, Zenon DEF Held
<1>10. \A s \in todo : sref[s] > 0
  BY <1>0, <1>9, LocalFacts, Zenon DEF DestroyFacts, Located
<1>11. /\ pc[Wd] \in {"clear", "remove", "destroy_clear"} => sref[lsess[Wd]] > 0
       /\ \A t \in Transports : pc[t] \in {"over", "destroy_clear"} => sref[lsess[t]] > 0
  <2>1. pc[Wd] \in {"clear", "remove", "destroy_clear"} => lsess[Wd] \in Sess /\ Created(lsess[Wd])
    BY <1>0, LocalFacts, ThreadFacts, Zenon DEF Located
  <2>2. \A t \in Transports : pc[t] \in {"over", "destroy_clear"} => lsess[t] \in Sess /\ Created(lsess[t])
    BY <1>0, LocalFacts, ThreadFacts, Zenon DEF Located
  <2> QED
    BY <1>0, <1>3, <1>9, <2>1, <2>2, ThreadFacts, Zenon DEF DestroyFacts
<1>12. ASSUME NEW s \in InTable PROVE sref[s] > 0 \/ \E t \in Transports : lsess[t] = s /\ pc[t] = "remove"
  <2>1. PICK i \in Ids : table[i] = s
    BY Zenon DEF InTable
  <2>2. s \in Sess /\ sid[s] = i /\ Created(s)
    BY <1>0, <2>1, NullsAssumption, Zenon DEF InTable, TableSound, Created
  <2>3. CASE s \notin sdestroyed
    BY <1>2, <2>2, <2>3, Zenon
  <2>4. CASE s \in sdestroyed
    <3>1. PICK t \in Transports : lsess[t] = s /\ pc[t] \in {"destroy_clear", "remove"}
      BY <1>0, <2>1, <2>2, <2>4, NullsAssumption, Zenon DEF TableSound
    <3> QED
      BY <1>3, <2>2, <3>1, ThreadFacts, Zenon
  <2> QED
    BY <2>3, <2>4, Zenon
<1> QED
  BY <1>4, <1>6, <1>7, <1>8, <1>10, <1>11, <1>12, Zenon DEF NoUseAfterFree
=============================================================================
