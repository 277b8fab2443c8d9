------------------------ MODULE PeerConnectionProofs ------------------------
(* The negotiation of a PeerConnection is sound, for every value of the        *)
(* constants: proofs of TypeOK, HangupOnItsWay, CandidatesOnTheirWay,          *)
(* AgentsSound and MediaInStep.                                                *)
EXTENDS PeerConnection, TLAPS

Messages == {"gather", "candidates", "dtls", "hangup", "detach"}
AtTypes == [Threads -> [step : Labels, jsep : {"offer", "answer"}, update : BOOLEAN, ret : Labels]]
HangupSteps == {"hangup_alert", "hangup_push"}
Returns == {"idle", "setup_error", "destroy_stop", "dispatch"}

-----------------------------------------------------------------------------
(* Threads and their steps *)

\* The threads are different ones.
LEMMA ThreadFacts ==
    /\ Tasks \subseteq Threads /\ Plug \in Threads /\ Req \in Threads /\ Wd \in Threads /\ Loop \in Threads
    /\ Plug \notin Tasks /\ Req \notin Tasks /\ Wd \notin Tasks /\ Loop \notin Tasks
    /\ Plug # Req /\ Plug # Wd /\ Plug # Loop /\ Req # Wd /\ Req # Loop /\ Wd # Loop
    /\ NoThread \notin Threads
BY ThreadsAssumption, ZenonT(40) DEF Threads

\* What a thread is at, after each way of going on.
LEMMA AtGoto ==
    ASSUME at \in AtTypes, NEW p \in Threads, NEW l \in Labels, Goto(p, l)
    PROVE  /\ at' \in AtTypes /\ at'[p].step = l /\ at'[p].ret \in {at[p].ret, "idle"}
           /\ \A q \in Threads \ {p} : at'[q] = at[q]
<1>1. PICK r \in [step : Labels, jsep : {"offer", "answer"}, update : BOOLEAN, ret : Labels] :
         at' = [at EXCEPT ![p] = r] /\ r.step = l /\ r.ret \in {at[p].ret, "idle"}
  <2>1. CASE l = "idle"
    <3>1. /\ Idle \in [step : Labels, jsep : {"offer", "answer"}, update : BOOLEAN, ret : Labels]
          /\ Idle.step = "idle" /\ Idle.ret = "idle"
      BY Zenon DEF Idle, Labels
    <3> QED
      BY <2>1, <3>1, Zenon DEF Goto
  <2>2. CASE l # "idle"
    <3> DEFINE r == [at[p] EXCEPT !.step = l]
    <3>1. r \in [step : Labels, jsep : {"offer", "answer"}, update : BOOLEAN, ret : Labels]
          /\ r.step = l /\ r.ret = at[p].ret
      BY Zenon DEF AtTypes
    <3>2. at' = [at EXCEPT ![p] = r]
      BY <2>2, Zenon DEF Goto, AtTypes
    <3> QED
      BY <3>1, <3>2, Zenon
  <2> QED
    BY <2>1, <2>2, Zenon
<1> QED
  BY <1>1, Zenon DEF AtTypes

\* A thread that begins something new is at its first step, with nothing to return to.
LEMMA AtBegin ==
    ASSUME at \in AtTypes, NEW p \in Threads, NEW l \in Labels, NEW t \in {"offer", "answer"},
           NEW u \in BOOLEAN, Begin(p, l, t, u)
    PROVE  /\ at' \in AtTypes /\ at'[p].step = l /\ at'[p].ret = "idle"
           /\ \A q \in Threads \ {p} : at'[q] = at[q]
BY ZenonT(40) DEF Begin, AtTypes, Labels

\* A thread that returns goes on where it was called from.
LEMMA AtReturn ==
    ASSUME at \in AtTypes, NEW p \in Threads, Return(p)
    PROVE  /\ at' \in AtTypes /\ at'[p].step = at[p].ret /\ at'[p].ret = "idle"
           /\ \A q \in Threads \ {p} : at'[q] = at[q]
<1>1. CASE at[p].ret = "idle"
  BY <1>1, Zenon DEF Return, AtTypes, Idle, Labels
<1>2. CASE at[p].ret # "idle"
  <2> DEFINE r == [at[p] EXCEPT !.step = at[p].ret, !.ret = "idle"]
  <2>1. r \in [step : Labels, jsep : {"offer", "answer"}, update : BOOLEAN, ret : Labels]
        /\ r.step = at[p].ret /\ r.ret = "idle"
    BY ZenonT(40) DEF AtTypes, Labels
  <2>2. at' = [at EXCEPT ![p] = r]
    BY <1>2, Zenon DEF Return, AtTypes
  <2> QED
    BY <2>1, <2>2, Zenon DEF AtTypes
<1> QED
  BY <1>1, <1>2, Zenon

\* A thread that calls a function is at the function's first step and remembers where to go on.
LEMMA AtCall ==
    ASSUME at \in AtTypes, NEW p \in Threads, NEW l \in Labels, NEW b \in Labels, Call(p, l, b)
    PROVE  /\ at' \in AtTypes /\ at'[p].step = l /\ at'[p].ret = b
           /\ \A q \in Threads \ {p} : at'[q] = at[q]
<1> DEFINE r == [at[p] EXCEPT !.step = l, !.ret = b]
<1>1. r \in [step : Labels, jsep : {"offer", "answer"}, update : BOOLEAN, ret : Labels]
      /\ r.step = l /\ r.ret = b
  BY Zenon DEF AtTypes
<1>2. at' = [at EXCEPT ![p] = r]
  BY Zenon DEF Call, AtTypes
<1> QED
  BY <1>1, <1>2, Zenon DEF AtTypes

\* janus_ice_webrtc_hangup: the caller goes on, or is at it.
LEMMA AtHangup ==
    ASSUME at \in AtTypes, NEW p \in Threads, NEW b \in Labels, Hangup(p, b)
    PROVE  /\ at' \in AtTypes /\ closepc' = FALSE
           /\ \/ Is("ALERT") /\ at'[p].step = b /\ at'[p].ret \in {at[p].ret, "idle"}
              \/ ~Is("ALERT") /\ at'[p].step = "hangup_alert" /\ at'[p].ret = b
           /\ \A q \in Threads \ {p} : at'[q] = at[q]
<1>1. "hangup_alert" \in Labels
  BY Zenon DEF Labels
<1> QED
  BY <1>1, AtGoto, AtCall, Zenon DEF Hangup

-----------------------------------------------------------------------------
(* The queue *)

\* A message put at the front is in the queue, and nothing is lost.
LEMMA QueueFront ==
    ASSUME queue \in Seq(Messages), NEW m \in Messages, queue' = PushFront(m)
    PROVE  /\ queue' \in Seq(Messages) /\ Queued(m)'
           /\ \A x : Queued(x) => Queued(x)'
<1>1. queue' \in Seq(Messages) /\ Len(queue') = Len(queue) + 1
      /\ queue'[1] = m /\ \A i \in 1 .. Len(queue) : queue'[i + 1] = queue[i]
  BY DEF PushFront
<1>2. DOMAIN queue = 1 .. Len(queue) /\ DOMAIN queue' = 1 .. Len(queue') /\ Len(queue) \in Nat
  BY <1>1
<1>3. Queued(m)'
  BY <1>1, <1>2 DEF Queued
<1>4. ASSUME NEW x, Queued(x) PROVE Queued(x)'
  <2>1. PICK i \in 1 .. Len(queue) : queue[i] = x
    BY <1>2, <1>4, Zenon DEF Queued
  <2>2. i + 1 \in DOMAIN queue' /\ queue'[i + 1] = x
    BY <1>1, <1>2, <2>1
  <2> QED
    BY <2>2, Zenon DEF Queued
<1> QED
  BY <1>1, <1>3, <1>4, Zenon

\* Nothing is lost when a message is appended.
LEMMA QueueAppend ==
    ASSUME queue \in Seq(Messages), NEW m \in Messages, queue' = Append(queue, m)
    PROVE  /\ queue' \in Seq(Messages)
           /\ \A x : Queued(x) => Queued(x)'
<1>1. queue' \in Seq(Messages) /\ Len(queue') = Len(queue) + 1
      /\ \A i \in 1 .. Len(queue) : queue'[i] = queue[i]
  OBVIOUS
<1>2. DOMAIN queue = 1 .. Len(queue) /\ DOMAIN queue' = 1 .. Len(queue') /\ Len(queue) \in Nat
  BY <1>1
<1>4. ASSUME NEW x, Queued(x) PROVE Queued(x)'
  <2>1. PICK i \in 1 .. Len(queue) : queue[i] = x
    BY <1>2, <1>4, Zenon DEF Queued
  <2>2. i \in DOMAIN queue' /\ queue'[i] = x
    BY <1>1, <1>2, <2>1
  <2> QED
    BY <2>2, Zenon DEF Queued
<1> QED
  BY <1>1, <1>4, Zenon

\* Taking a message from the front leaves all others in the queue.
LEMMA QueuePop ==
    ASSUME queue \in Seq(Messages), NEW m, Pop(m)
    PROVE  /\ queue' \in Seq(Messages) /\ m \in Messages
           /\ \A x : Queued(x) /\ x # m => Queued(x)'
<1>1. /\ queue # <<>> /\ queue' = Tail(queue) /\ queue[1] = m
  BY DEF Pop
<1>2. /\ queue' \in Seq(Messages) /\ Len(queue') = Len(queue) - 1 /\ Len(queue) \in Nat \ {0}
      /\ \A i \in 1 .. Len(queue') : queue'[i] = queue[i + 1]
  BY <1>1
<1>3. DOMAIN queue = 1 .. Len(queue) /\ DOMAIN queue' = 1 .. Len(queue')
  BY <1>2
<1>4. ASSUME NEW x, Queued(x), x # m PROVE Queued(x)'
  <2>1. PICK i \in 1 .. Len(queue) : queue[i] = x
    BY <1>3, <1>4, Zenon DEF Queued
  <2>2. i - 1 \in 1 .. Len(queue')
    BY <1>1, <1>2, <1>4, <2>1
  <2>3. queue'[i - 1] = x
    BY <1>2, <2>1, <2>2
  <2> QED
    BY <1>3, <2>2, <2>3, Zenon DEF Queued
<1> QED
  BY <1>1, <1>2, <1>4

\* The loop is told of candidates.
LEMMA QueueCandidates ==
    ASSUME queue \in Seq(Messages), queue' = PushCandidates
    PROVE  /\ queue' \in Seq(Messages) /\ Queued("candidates")'
           /\ \A x : Queued(x) => Queued(x)'
<1>1. CASE queue # <<>> /\ Head(queue) = "candidates"
  <2>1. queue' = queue /\ 1 \in DOMAIN queue /\ queue[1] = "candidates"
    BY <1>1 DEF PushCandidates
  <2> QED
    BY <2>1, Zenon DEF Queued
<1>2. CASE ~(queue # <<>> /\ Head(queue) = "candidates")
  BY <1>2, QueueFront, Zenon DEF PushCandidates, Messages
<1> QED
  BY <1>1, <1>2, Zenon

-----------------------------------------------------------------------------
(* Types *)

\* TypeOK but for what threads are at and the queue.
RestTypes ==
    /\ flags \subseteq FlagNames /\ mutex \in Tasks \cup {Plug, NoThread}
    /\ closepc \in BOOLEAN
    /\ agent \in {"none", "ok", "failed"} /\ remote \in BOOLEAN /\ cdone \in {"none", "gathering", "done"}
    /\ candidates \in BOOLEAN /\ process_started \in BOOLEAN /\ queued_candidates \in BOOLEAN
    /\ connected \in BOOLEAN /\ dtls \in {"none", "handshake", "done"}
    /\ pending_trickles \in BOOLEAN
    /\ destroyed \in BOOLEAN /\ app \in {"alive", "stopped", "detached"} /\ media \in Nat
    /\ loop \in {"running", "quit", "ended"} /\ removed \in BOOLEAN
    /\ closing \in Nat /\ ending \in Nat /\ toanswer \in BOOLEAN /\ offered \in BOOLEAN
    /\ lost \subseteq Losable
    /\ inputs \in 0..MaxInputs

\* TypeOK in three parts: the queue, the threads' steps and the rest.
LEMMA TypesSplit ==
    /\ TypeOK <=> RestTypes /\ at \in AtTypes /\ queue \in Seq(Messages)
    /\ TypeOK' <=> RestTypes' /\ at' \in AtTypes /\ queue' \in Seq(Messages)
BY Zenon DEF TypeOK, RestTypes, AtTypes, Messages

\* The steps of janus_ice_webrtc_hangup.
LEMMA HangupTypes ==
    ASSUME RestTypes, at \in AtTypes, queue \in Seq(Messages), NEW p \in Threads, HangupStep(p)
    PROVE  RestTypes' /\ at' \in AtTypes /\ queue' \in Seq(Messages)
<1>1. CASE HangupAlert(p)
  <2>1. at' \in AtTypes
    BY <1>1, AtGoto, Zenon DEF HangupAlert, Labels
  <2>2. RestTypes'
    BY <1>1 DEF HangupAlert, RestTypes, FlagNames, ice, handle, outside
  <2> QED
    BY <1>1, <2>1, <2>2, Zenon DEF HangupAlert
<1>2. CASE HangupPush(p)
  <2>1. at' \in AtTypes
    BY <1>2, AtReturn, Zenon DEF HangupPush
  <2>2. RestTypes'
    BY <1>2 DEF HangupPush, RestTypes, FlagNames, ice, handle, outside
  <2>3. queue' \in Seq(Messages)
    BY <1>2, QueueFront, Zenon DEF HangupPush, Messages
  <2> QED
    BY <2>1, <2>2, <2>3, Zenon
<1> QED
  BY <1>1, <1>2, Zenon DEF HangupStep

\* The steps of janus_ice_setup_local.
LEMMA SetupTypes ==
    ASSUME RestTypes, at \in AtTypes, queue \in Seq(Messages), NEW p \in Threads, SetupStep(p)
    PROVE  RestTypes' /\ at' \in AtTypes /\ queue' \in Seq(Messages)
<1>l. {"setup_error", "setup_agent", "gather", "process", "idle"} \subseteq Labels
  BY Zenon DEF Labels
<1>1. CASE SetupFlags(p)
  <2>1. at' \in AtTypes
    <3>1. CASE Is("HAS_AGENT")
      BY <1>1, <1>l, <3>1, AtGoto, Zenon DEF SetupFlags
    <3>2. CASE ~Is("HAS_AGENT")
      BY <1>1, <1>l, <3>2, AtGoto, Zenon DEF SetupFlags
    <3> QED
      BY <3>1, <3>2, Zenon
  <2>2. RestTypes'
    <3>1. flags' \subseteq FlagNames /\ closepc' \in BOOLEAN
      BY <1>1, Zenon DEF SetupFlags, RestTypes, FlagNames
    <3> QED
      BY <1>1, <3>1 DEF SetupFlags, RestTypes, ice, handle, outside
  <2> QED
    BY <1>1, <2>1, <2>2, Zenon DEF SetupFlags
<1>2. CASE SetupAgent(p) /\ agent' = "ok" /\ SetupDone(p)
  <2>1. at' \in AtTypes /\ mutex' \in Tasks \cup {Plug, NoThread}
    BY <1>2, <1>l, AtGoto, Zenon DEF SetupDone, RestTypes
  <2>2. queue' \in Seq(Messages)
    BY <1>2, QueueFront, Zenon DEF SetupAgent, Messages
  <2>3. closepc' \in BOOLEAN
    BY <1>2, Zenon DEF SetupAgent, RestTypes, Hangup
  <2>4. RestTypes'
    BY <1>2, <2>1, <2>3, ZenonT(40) DEF SetupAgent, RestTypes, FlagNames, handle, outside
  <2> QED
    BY <2>1, <2>2, <2>4, Zenon
<1>3. CASE SetupAgent(p) /\ agent' = "failed" /\ Hangup(p, "setup_error") /\ UNCHANGED <<queue, mutex>>
  <2>1. at' \in AtTypes /\ closepc' \in BOOLEAN
    BY <1>3, <1>l, AtHangup, Zenon
  <2>2. /\ remote' = FALSE /\ candidates' = FALSE /\ process_started' = FALSE
        /\ connected' = FALSE /\ dtls' = "none" /\ UNCHANGED <<queued_candidates, pending_trickles>>
    BY <1>3, Zenon DEF SetupAgent
  <2>3. UNCHANGED <<handle, outside, inputs>>
    BY <1>3, Zenon DEF SetupAgent
  <2>5. flags' \subseteq FlagNames /\ cdone' \in {"none", "gathering", "done"}
    BY <1>3, Zenon DEF SetupAgent, RestTypes
  <2>4. RestTypes'
    BY <1>3, <2>1, <2>2, <2>3, <2>5, ZenonT(40) DEF RestTypes, handle, outside
  <2> QED
    BY <1>3, <2>1, <2>4, Zenon
<1>4. CASE SetupError(p)
  <2>1. at' \in AtTypes
    BY <1>4, <1>l, AtGoto, Zenon DEF SetupError
  <2>2. RestTypes'
    BY <1>4 DEF SetupError, RestTypes, FlagNames, ice, handle, outside
  <2> QED
    BY <1>4, <2>1, <2>2, Zenon DEF SetupError
<1>5. SetupAgent(p) => \/ SetupAgent(p) /\ agent' = "ok" /\ SetupDone(p)
                       \/ SetupAgent(p) /\ agent' = "failed" /\ Hangup(p, "setup_error") /\ UNCHANGED <<queue, mutex>>
  BY Zenon DEF SetupAgent
<1> QED
  BY <1>1, <1>2, <1>3, <1>4, <1>5, Zenon DEF SetupStep

\* Candidates given to the loop.
LEMMA ForwardTypes ==
    ASSUME RestTypes, queue \in Seq(Messages), NEW listed \in BOOLEAN
    PROVE  /\ Forward(listed) \/ SetupRemoteCandidates(listed) \/ HandleAnswer(listed)
                => /\ candidates' \in BOOLEAN /\ process_started' \in BOOLEAN
                   /\ queued_candidates' \in BOOLEAN /\ queue' \in Seq(Messages)
           /\ HandleAnswer(listed) => flags' \subseteq FlagNames /\ pending_trickles' \in BOOLEAN
<1>1. Forward(listed) => /\ candidates' \in BOOLEAN /\ process_started' \in BOOLEAN
                         /\ queued_candidates' \in BOOLEAN /\ queue' \in Seq(Messages)
  BY QueueCandidates, Zenon DEF Forward
<1>2. SetupRemoteCandidates(listed) => /\ candidates' \in BOOLEAN /\ process_started' \in BOOLEAN
                                       /\ queued_candidates' \in BOOLEAN /\ queue' \in Seq(Messages)
  BY <1>1, Zenon DEF SetupRemoteCandidates, RestTypes
<1> QED
  BY <1>1, <1>2, Zenon DEF HandleAnswer, RestTypes

\* The steps of a task.
LEMMA TaskTypes ==
    ASSUME RestTypes, at \in AtTypes, queue \in Seq(Messages), NEW p \in Tasks, TaskStep(p)
    PROVE  RestTypes' /\ at' \in AtTypes /\ queue' \in Seq(Messages)
<1>l. {"idle", "negotiated", "lock", "parse", "got_answer", "gather", "setup_flags", "process", "deliver"} \subseteq Labels
  BY Zenon DEF Labels
<1>p. p \in Threads
  BY ThreadFacts, Zenon
<1>j. at[p].jsep \in {"offer", "answer"}
  BY <1>p, Zenon DEF AtTypes
<1>g. GiveUp(p) => at' \in AtTypes /\ flags' \subseteq FlagNames /\ mutex' = NoThread
  BY <1>l, <1>p, AtGoto, Zenon DEF GiveUp, RestTypes
<1>1. CASE MessageCleaning(p)
  <2>1. at' \in AtTypes
    BY <1>1, <1>l, <1>p, AtGoto, Zenon DEF MessageCleaning
  <2> QED
    BY <1>1, <2>1 DEF MessageCleaning, RestTypes, shared, ice, handle, outside
<1>2. CASE MessageNegotiated(p)
  <2>0. Is("NEGOTIATED") \in BOOLEAN
    BY DEF Is
  <2>n. PICK u \in BOOLEAN : u = Is("NEGOTIATED")
    BY <2>0, Zenon
  <2>t. PICK t \in {"offer", "answer"} : t = at[p].jsep
    BY <1>j, Zenon
  <2>b. Begin(p, "lock", t, u)
    BY <1>2, <2>n, <2>t, Zenon DEF MessageNegotiated
  <2>1. at' \in AtTypes
    BY <2>b, <1>l, <1>p, AtBegin, Zenon
  <2> QED
    BY <1>2, <2>1 DEF MessageNegotiated, RestTypes, shared, ice, handle, outside
<1>3. CASE MessageLock(p)
  <2>1. at' \in AtTypes
    BY <1>3, <1>l, <1>p, <1>g, AtGoto, Zenon DEF MessageLock
  <2>2. flags' \subseteq FlagNames /\ mutex' \in Tasks \cup {Plug, NoThread}
    BY <1>3, <1>g, Zenon DEF MessageLock, OfferFlags, RestTypes, FlagNames
  <2> QED
    BY <1>3, <2>1, <2>2 DEF MessageLock, RestTypes, ice, handle, outside
<1>4. CASE GotAnswer(p)
  <2>1. at' \in AtTypes
    BY <1>4, <1>l, <1>p, AtGoto, Zenon DEF GotAnswer
  <2>2. flags' \subseteq FlagNames
    BY <1>4, Zenon DEF GotAnswer, RestTypes, FlagNames
  <2> QED
    BY <1>4, <2>1, <2>2 DEF GotAnswer, RestTypes, ice, handle, outside
<1>5. CASE MessageParse(p)
  <2>1. at' \in AtTypes
    BY <1>5, <1>l, <1>p, <1>g, AtGoto, Zenon DEF MessageParse
  <2>2. flags' \subseteq FlagNames /\ mutex' \in Tasks \cup {Plug, NoThread}
    BY <1>5, <1>g, Zenon DEF MessageParse, RestTypes
  <2> QED
    BY <1>5, <2>1, <2>2 DEF MessageParse, RestTypes, ice, handle, outside
<1>6. CASE MessageProcess(p)
  <2>1. at' \in AtTypes
    BY <1>6, <1>l, <1>p, <1>g, AtGoto, Zenon DEF MessageProcess
  <2>2. mutex' = NoThread /\ remote' \in BOOLEAN
    BY <1>6, <1>g, Zenon DEF MessageProcess, RestTypes
  <2>3. /\ flags' \subseteq FlagNames /\ candidates' \in BOOLEAN /\ process_started' \in BOOLEAN
        /\ queued_candidates' \in BOOLEAN /\ pending_trickles' \in BOOLEAN /\ queue' \in Seq(Messages)
    <3>1. CASE /\ GiveUp(p) /\ candidates' \in {candidates, candidates \/ agent # "none"}
               /\ UNCHANGED <<process_started, queued_candidates, pending_trickles, queue>>
      BY <3>1, <1>g, Zenon DEF RestTypes
    <3>2. ASSUME NEW listed \in BOOLEAN, HandleAnswer(listed)
          PROVE  <2>3!1 /\ <2>3!2
      BY <3>2, ForwardTypes, Zenon
    <3>3. ASSUME NEW listed \in BOOLEAN, candidates' = listed,
                 UNCHANGED <<flags, process_started, queued_candidates, pending_trickles, queue>>
          PROVE  <2>3!1 /\ <2>3!2
      BY <3>3, Zenon DEF RestTypes
    <3>4. {candidates, TRUE} \subseteq BOOLEAN
      BY Zenon DEF RestTypes
    <3> QED
      BY <1>6, <3>1, <3>2, <3>3, <3>4, Zenon DEF MessageProcess
  <2>4. UNCHANGED <<closepc, agent, cdone, connected, dtls, destroyed, app, media, loop, removed,
                    closing, ending, toanswer, offered, lost, inputs>>
    BY <1>6, Zenon DEF MessageProcess, handle, outside
  <2>5. RestTypes'
    BY <2>2, <2>3, <2>4, SMTT(40) DEF RestTypes
  <2> QED
    BY <2>1, <2>3, <2>5, Zenon
<1>7. CASE MessageDeliver(p)
  <2>1. at' \in AtTypes
    BY <1>7, <1>l, <1>p, AtGoto, Zenon DEF MessageDeliver
  <2>2. flags' \subseteq FlagNames /\ toanswer' \in BOOLEAN
    BY <1>7, Zenon DEF MessageDeliver, RestTypes
  <2> QED
    BY <1>7, <2>1, <2>2, SMTT(40) DEF MessageDeliver, RestTypes, ice, handle
<1> QED
  BY <1>1, <1>2, <1>3, <1>4, <1>5, <1>6, <1>7, <1>p, SetupTypes, HangupTypes, Zenon DEF TaskStep

\* The steps of a plugin's thread.
LEMMA PlugTypes ==
    ASSUME RestTypes, at \in AtTypes, queue \in Seq(Messages), PlugStep
    PROVE  RestTypes' /\ at' \in AtTypes /\ queue' \in Seq(Messages)
<1>l. {"idle", "setup_lock", "merge", "setup_flags", "gather", "parse"} \subseteq Labels
  BY Zenon DEF Labels
<1>p. Plug \in Threads
  BY ThreadFacts, Zenon
<1>1. CASE PluginCleaning
  <2>1. at' \in AtTypes
    BY <1>1, <1>l, <1>p, AtGoto, AtBegin, Zenon DEF PluginCleaning
  <2> QED
    BY <1>1, <2>1 DEF PluginCleaning, RestTypes, shared, ice, handle, outside
<1>2. CASE PluginSetup
  <2>1. at' \in AtTypes
    BY <1>2, <1>l, <1>p, AtGoto, Zenon DEF PluginSetup
  <2> QED
    BY <1>2, <2>1 DEF PluginSetup, RestTypes, ice, handle, outside
<1>3. CASE PluginGathered
  <2>1. at' \in AtTypes
    BY <1>3, <1>l, <1>p, AtGoto, Zenon DEF PluginGathered
  <2> QED
    BY <1>3, <2>1 DEF PluginGathered, RestTypes, shared, ice, handle, outside
<1>4. CASE PluginMerge
  <2>1. at' \in AtTypes
    BY <1>4, <1>l, <1>p, AtGoto, Zenon DEF PluginMerge
  <2>3. /\ flags' \subseteq FlagNames /\ candidates' \in BOOLEAN /\ process_started' \in BOOLEAN
        /\ queued_candidates' \in BOOLEAN /\ pending_trickles' \in BOOLEAN /\ queue' \in Seq(Messages)
    <3>0. candidates \in BOOLEAN
      BY Zenon DEF RestTypes
    <3>c. PICK listed \in BOOLEAN : listed = candidates
      BY <3>0, Zenon
    <3>1. CASE HandleAnswer(listed)
      BY <3>1, ForwardTypes, Zenon
    <3>2. CASE flags' \in {flags, flags \cup {"PROCESSING_OFFER"}}
               /\ UNCHANGED <<candidates, process_started, queued_candidates, pending_trickles, queue>>
      BY <3>2, Zenon DEF RestTypes, FlagNames
    <3> QED
      BY <1>4, <3>1, <3>2, <3>c, Zenon DEF PluginMerge
  <2>4. offered' \in BOOLEAN
    BY <1>4, Zenon DEF PluginMerge, RestTypes
  <2> QED
    BY <1>4, <2>1, <2>3, <2>4 DEF PluginMerge, RestTypes, handle
<1>5. CASE GotAnswer(Plug)
  <2>1. at' \in AtTypes
    BY <1>5, <1>l, <1>p, AtGoto, Zenon DEF GotAnswer
  <2>2. flags' \subseteq FlagNames
    BY <1>5, Zenon DEF GotAnswer, RestTypes, FlagNames
  <2> QED
    BY <1>5, <2>1, <2>2 DEF GotAnswer, RestTypes, ice, handle, outside
<1> QED
  BY <1>1, <1>2, <1>3, <1>4, <1>5, <1>p, SetupTypes, HangupTypes, Zenon DEF PlugStep

\* The steps of the requests thread and of the watchdog.
LEMMA RequestTypes ==
    ASSUME RestTypes, at \in AtTypes, queue \in Seq(Messages), ReqStep \/ WdStep
    PROVE  RestTypes' /\ at' \in AtTypes /\ queue' \in Seq(Messages)
<1>l. {"idle", "destroy_stop", "destroy_detach"} \subseteq Labels
  BY Zenon DEF Labels
<1>p. Req \in Threads /\ Wd \in Threads
  BY ThreadFacts, Zenon
<1>1. CASE TrickleLocked
  <2>1. at' \in AtTypes
    BY <1>1, <1>l, <1>p, AtGoto, Zenon DEF TrickleLocked
  <2>3. /\ candidates' \in BOOLEAN /\ process_started' \in BOOLEAN
        /\ queued_candidates' \in BOOLEAN /\ pending_trickles' \in BOOLEAN /\ queue' \in Seq(Messages)
    <3>0. candidates \in BOOLEAN
      BY Zenon DEF RestTypes
    <3>c. PICK listed \in BOOLEAN : listed = candidates
      BY <3>0, Zenon
    <3>1. CASE Forward(listed) /\ UNCHANGED pending_trickles
      BY <3>1, ForwardTypes, Zenon DEF RestTypes
    <3>2. CASE pending_trickles' = TRUE /\ UNCHANGED <<candidates, process_started, queued_candidates, queue>>
      BY <3>2, Zenon DEF RestTypes
    <3> QED
      BY <1>1, <3>1, <3>2, <3>c, Zenon DEF TrickleLocked
  <2> QED
    BY <1>1, <2>1, <2>3 DEF TrickleLocked, RestTypes, handle, outside
<1>2. ASSUME NEW p \in {Req, Wd}, DestroyStop(p)
      PROVE  RestTypes' /\ at' \in AtTypes /\ queue' \in Seq(Messages)
  <2>1. at' \in AtTypes
    BY <1>2, <1>l, <1>p, AtGoto, Zenon DEF DestroyStop
  <2> QED
    BY <1>2, <2>1 DEF DestroyStop, RestTypes, FlagNames, ice, handle, outside
<1>3. ASSUME NEW p \in {Req, Wd}, DestroyDetach(p)
      PROVE  RestTypes' /\ at' \in AtTypes /\ queue' \in Seq(Messages)
  <2>1. at' \in AtTypes
    BY <1>3, <1>l, <1>p, AtGoto, Zenon DEF DestroyDetach
  <2>2. queue' \in Seq(Messages)
    BY <1>3, QueueAppend, Zenon DEF DestroyDetach, Messages
  <2> QED
    BY <1>3, <2>1, <2>2 DEF DestroyDetach, RestTypes, shared, ice, outside
<1>4. CASE ClosePcInternal
  <2>1. at' \in AtTypes /\ closepc' \in BOOLEAN
    BY <1>4, <1>l, <1>p, AtHangup, Zenon DEF ClosePcInternal
  <2> QED
    BY <1>4, <2>1 DEF ClosePcInternal, RestTypes, ice, handle
<1>5. CASE EndSessionInternal
  <2>1. at' \in AtTypes /\ closepc' \in BOOLEAN /\ destroyed' \in BOOLEAN
    BY <1>5, <1>l, <1>p, AtHangup, Zenon DEF EndSessionInternal, DestroyHandle, RestTypes
  <2> QED
    BY <1>5, <2>1 DEF EndSessionInternal, RestTypes, ice
<1> QED
  BY <1>1, <1>2, <1>3, <1>4, <1>5, <1>p, HangupTypes, Zenon DEF ReqStep, WdStep

\* janus_ice_webrtc_free.
LEMMA FreeTypes ==
    ASSUME RestTypes, WebrtcFree
    PROVE  /\ flags' \subseteq FlagNames /\ agent' \in {"none", "ok", "failed"} /\ remote' \in BOOLEAN
           /\ cdone' \in {"none", "gathering", "done"} /\ candidates' \in BOOLEAN
           /\ process_started' \in BOOLEAN /\ queued_candidates' \in BOOLEAN /\ connected' \in BOOLEAN
           /\ dtls' \in {"none", "handshake", "done"} /\ pending_trickles' \in BOOLEAN
<1>1. flags' \subseteq FlagNames
  BY Zenon DEF WebrtcFree, RestTypes
<1>2. CASE agent = "none"
  BY <1>1, <1>2, ZenonT(40) DEF WebrtcFree, RestTypes, ice
<1>3. CASE agent # "none"
  BY <1>1, <1>3, Zenon DEF WebrtcFree, RestTypes
<1> QED
  BY <1>2, <1>3, Zenon

\* The steps of the loop.
LEMMA LoopTypes ==
    ASSUME RestTypes, at \in AtTypes, queue \in Seq(Messages), LoopStep
    PROVE  RestTypes' /\ at' \in AtTypes /\ queue' \in Seq(Messages)
<1>l. {"idle", "dispatch", "free"} \subseteq Labels
  BY Zenon DEF Labels
<1>p. Loop \in Threads
  BY ThreadFacts, Zenon
<1>1. CASE LoopDispatch
  <2>1. at' \in AtTypes
    BY <1>1, <1>l, <1>p, AtGoto, Zenon DEF LoopDispatch
  <2>2. removed' \in BOOLEAN
    BY <1>1, Zenon DEF LoopDispatch
  <2> QED
    BY <1>1, <2>1, <2>2 DEF LoopDispatch, RestTypes, shared, ice, outside
<1>2. CASE LoopGather
  <2>1. queue' \in Seq(Messages)
    BY <1>2, QueuePop, Zenon DEF LoopGather
  <2>2. at' \in AtTypes /\ closepc' \in BOOLEAN /\ cdone' \in {"none", "gathering", "done"}
    BY <1>2, <1>l, <1>p, AtHangup, Zenon DEF LoopGather, RestTypes
  <2> QED
    BY <1>2, <2>1, <2>2 DEF LoopGather, RestTypes, handle, outside
<1>3. CASE LoopCandidates
  <2>1. queue' \in Seq(Messages)
    BY <1>3, QueuePop, Zenon DEF LoopCandidates
  <2>2. queued_candidates' \in BOOLEAN
    BY <1>3, Zenon DEF LoopCandidates
  <2> QED
    BY <1>3, <2>1, <2>2 DEF LoopCandidates, RestTypes, shared, handle, outside
<1>4. CASE LoopHandshake
  <2>1. queue' \in Seq(Messages)
    BY <1>4, QueuePop, Zenon DEF LoopHandshake
  <2> QED
    BY <1>4, <2>1 DEF LoopHandshake, RestTypes, shared, handle, outside
<1>5. CASE LoopHangup
  <2>1. queue' \in Seq(Messages)
    BY <1>5, QueuePop, Zenon DEF LoopHangup
  <2>2. at' \in AtTypes
    BY <1>5, <1>l, <1>p, AtGoto, Zenon DEF LoopHangup
  <2> QED
    BY <1>5, <2>1, <2>2 DEF LoopHangup, RestTypes, shared, ice, outside
<1>6. CASE LoopFree
  <2>1. at' \in AtTypes
    BY <1>6, <1>l, <1>p, AtGoto, Zenon DEF LoopFree
  <2>2. WebrtcFree
    BY <1>6, Zenon DEF LoopFree
  <2>3. lost' \subseteq Losable
    BY <1>6, Zenon DEF LoopFree, RestTypes
  <2> QED
    BY <1>6, <2>1, <2>2, <2>3, FreeTypes DEF LoopFree, RestTypes, handle
<1>7. CASE LoopDetach
  <2>1. queue' \in Seq(Messages)
    BY <1>7, QueuePop, Zenon DEF LoopDetach
  <2> QED
    BY <1>7, <2>1 DEF LoopDetach, RestTypes, shared, ice, outside
<1>8. CASE LoopEmpty
  <2>1. at' \in AtTypes
    BY <1>8, <1>l, <1>p, AtGoto, Zenon DEF LoopEmpty
  <2> QED
    BY <1>8, <2>1 DEF LoopEmpty, RestTypes, shared, ice, outside
<1>9. CASE LoopEnd
  <2>2. WebrtcFree
    BY <1>9, Zenon DEF LoopEnd
  <2> QED
    BY <1>9, <2>2, FreeTypes, ZenonT(40) DEF LoopEnd, RestTypes, outside
<1> QED
  BY <1>1, <1>2, <1>3, <1>4, <1>5, <1>6, <1>7, <1>8, <1>9, <1>p, HangupTypes, Zenon DEF LoopStep

\* What the peer, the plugin and the network bring about.
LEMMA InputTypes ==
    ASSUME RestTypes, at \in AtTypes, queue \in Seq(Messages), Input
    PROVE  RestTypes' /\ at' \in AtTypes /\ queue' \in Seq(Messages)
<1>l. {"idle", "cleaning", "trickle", "got_answer", "gather", "destroy_stop"} \subseteq Labels
  BY Zenon DEF Labels
<1>p. Tasks \subseteq Threads /\ {Plug, Req, Wd, Loop} \subseteq Threads
  BY ThreadFacts, Zenon
<1>a. \A kind : Arrives(kind) => inputs' \in 0 .. MaxInputs
  BY OptionsAssumption DEF Arrives, RestTypes
<1>1. ASSUME NEW p \in Tasks, NEW type \in {"offer", "answer"}, Message(p, type)
      PROVE  RestTypes' /\ at' \in AtTypes /\ queue' \in Seq(Messages)
  <2>1. at' \in AtTypes
    BY <1>1, <1>l, <1>p, AtBegin, Zenon DEF Message
  <2>2. inputs' \in 0 .. MaxInputs /\ offered' \in BOOLEAN
    BY <1>1, <1>a, Zenon DEF Message, RestTypes
  <2> QED
    BY <1>1, <2>1, <2>2 DEF Message, RestTypes, shared, ice, handle
<1>2. CASE Trickle
  <2>1. at' \in AtTypes /\ inputs' \in 0 .. MaxInputs
    BY <1>2, <1>a, <1>l, <1>p, AtGoto, Zenon DEF Trickle
  <2> QED
    BY <1>2, <2>1 DEF Trickle, RestTypes, shared, ice, handle, outside
<1>3. CASE HangupRequest
  <2>1. at' \in AtTypes /\ inputs' \in 0 .. MaxInputs /\ closepc' \in BOOLEAN
    BY <1>3, <1>a, <1>l, <1>p, AtHangup, Zenon DEF HangupRequest
  <2> QED
    BY <1>3, <2>1 DEF HangupRequest, RestTypes, ice, handle, outside
<1>4. CASE DetachRequest
  <2>1. at' \in AtTypes /\ inputs' \in 0 .. MaxInputs /\ closepc' \in BOOLEAN /\ destroyed' = TRUE
    BY <1>4, <1>a, <1>l, <1>p, AtHangup, Zenon DEF DetachRequest, DestroyHandle
  <2> QED
    BY <1>4, <2>1 DEF DetachRequest, RestTypes, ice, outside
<1>5. CASE PluginAnswer
  <2>1. at' \in AtTypes
    BY <1>5, <1>l, <1>p, AtBegin, Zenon DEF PluginAnswer
  <2>2. flags' \subseteq FlagNames /\ toanswer' \in BOOLEAN
    BY <1>5, Zenon DEF PluginAnswer, RestTypes, FlagNames
  <2> QED
    BY <1>5, <2>1, <2>2 DEF PluginAnswer, RestTypes, ice, handle
<1>6. CASE PluginOffer
  <2>1. at' \in AtTypes /\ inputs' \in 0 .. MaxInputs
    BY <1>6, <1>a, <1>l, <1>p, AtBegin, Zenon DEF PluginOffer
  <2>2. flags' \subseteq FlagNames
    BY <1>6, Zenon DEF PluginOffer, OfferFlags, RestTypes, FlagNames
  <2> QED
    BY <1>6, <2>1, <2>2 DEF PluginOffer, RestTypes, ice, handle, outside
<1>7. CASE PluginClosePc
  BY <1>7, <1>a, SMTT(40) DEF PluginClosePc, RestTypes, ice, handle
<1>8. CASE PluginEndSession
  BY <1>8, <1>a DEF PluginEndSession, RestTypes, shared, ice, handle
<1>9. CASE GatheringDone
  BY <1>9 DEF GatheringDone, RestTypes, shared, handle, outside
<1>10. CASE NewSelectedPair
  <2>1. queue' \in Seq(Messages)
    BY <1>10 DEF NewSelectedPair, Messages
  <2>2. lost' \subseteq Losable
    BY <1>10, Zenon DEF NewSelectedPair, RestTypes
  <2> QED
    BY <1>10, <2>1, <2>2 DEF NewSelectedPair, RestTypes, shared, handle
<1>11. CASE CheckFailed \/ DtlsFailed
  <2>1. at' \in AtTypes /\ closepc' \in BOOLEAN
    BY <1>11, <1>l, <1>p, AtHangup, Zenon DEF CheckFailed, DtlsFailed
  <2>2. UNCHANGED <<flags, mutex, agent, remote, cdone, candidates, process_started, queued_candidates,
                    connected, dtls, pending_trickles, queue, destroyed, app, media, loop, removed,
                    closing, ending, toanswer, offered, lost, inputs>>
    BY <1>11, Zenon DEF CheckFailed, DtlsFailed, ice, handle, outside
  <2>3. RestTypes'
    BY <2>1, <2>2, SMTT(40) DEF RestTypes
  <2> QED
    BY <2>1, <2>2, <2>3, Zenon
<1>12. CASE HandshakeDone
  <2>1. flags' \subseteq FlagNames /\ media' \in Nat
    BY <1>12 DEF HandshakeDone, RestTypes, FlagNames
  <2> QED
    BY <1>12, <2>1 DEF HandshakeDone, RestTypes, outside
<1> QED
  BY <1>1, <1>2, <1>3, <1>4, <1>5, <1>6, <1>7, <1>8, <1>9, <1>10, <1>11, <1>12, Zenon DEF Input

\* Every step keeps the types.
LEMMA TypeStep == TypeOK /\ [Next]_vars => TypeOK'
<1> SUFFICES ASSUME TypeOK, [Next]_vars PROVE TypeOK'
  BY Zenon
<1>0. RestTypes /\ at \in AtTypes /\ queue \in Seq(Messages)
  BY TypesSplit, Zenon
<1>1. CASE UNCHANGED vars
  BY <1>1, <1>0, TypesSplit, Zenon DEF vars, shared, ice, handle, outside, RestTypes
<1>2. CASE Next
  <2>1. RestTypes' /\ at' \in AtTypes /\ queue' \in Seq(Messages)
    BY <1>0, <1>2, InputTypes, TaskTypes, PlugTypes, RequestTypes, LoopTypes, Zenon DEF Next
  <2> QED
    BY <2>1, TypesSplit, Zenon
<1> QED
  BY <1>1, <1>2, Zenon

\* Every variable of the PeerConnection always holds a value of its kind, whatever the threads,
\* the peer, the plugin and the network do: what TypeOK says is an invariant.
THEOREM TypesCorrect == Spec => []TypeOK
<1>1. Init => TypeOK
  <2> SUFFICES ASSUME Init PROVE TypeOK
    BY Zenon
  <2>1. at \in AtTypes
    BY ZenonT(40) DEF Init, AtTypes, Idle, Labels
  <2>2. queue \in Seq(Messages)
    BY DEF Init
  <2>3. RestTypes
    <3>1. /\ closepc \in BOOLEAN /\ remote \in BOOLEAN /\ candidates \in BOOLEAN
          /\ process_started \in BOOLEAN /\ queued_candidates \in BOOLEAN /\ connected \in BOOLEAN
          /\ pending_trickles \in BOOLEAN /\ destroyed \in BOOLEAN /\ removed \in BOOLEAN
          /\ toanswer \in BOOLEAN /\ offered \in BOOLEAN
      BY Zenon DEF Init
    <3> QED
      BY <3>1, OptionsAssumption DEF Init, RestTypes
  <2> QED
    BY <2>1, <2>2, <2>3, TypesSplit, Zenon
<1> QED
  BY <1>1, TypeStep, PTL DEF Spec

-----------------------------------------------------------------------------
(* The inductive invariant *)

\* The steps with which a thread holds the handle's mutex.
Holds(p) ==
    \/ Step(p) \in {"setup_flags", "setup_agent", "setup_error", "parse", "process"}
    \/ p \in Tasks /\ Step(p) = "got_answer"
    \/ Step(p) \in HangupSteps /\ at[p].ret = "setup_error"

\* The loop will come to janus_ice_webrtc_free.
Coming == \/ Queued("hangup") \/ Step(Loop) = "free" \/ loop # "running"
          \/ \E p \in Threads : Step(p) \in HangupSteps

\* A thread between the lock and the unlock is the mutex's owner. One that is about to create the
\* agent has set HAS_AGENT, and an ALERT set since has a hangup coming.
LockFacts ==
    \A p \in Threads :
        /\ Holds(p) => mutex = p
        /\ Step(p) = "setup_agent" => Is("HAS_AGENT") /\ (Is("ALERT") => Coming)
        /\ at[p].ret \in Returns

\* The loop does something only while it runs, and ends only after the plugin was detached.
LoopFacts ==
    /\ Step(Loop) # "idle" => loop = "running"
    /\ removed \/ loop # "running" => app # "alive"

\* What only an agent that works brings about.
IceFacts ==
    /\ Is("READY") \/ connected => agent = "ok"
    /\ "candidates" \in lost => agent = "ok" \/ loop # "running"

PeerInv ==
    /\ HangupOnItsWay /\ CandidatesOnTheirWay /\ AgentsSound /\ MediaInStep
    /\ LockFacts /\ LoopFacts /\ IceFacts

\* A step of a thread that neither sets up nor frees the agent keeps the invariant, when it leaves
\* the messages the loop is to see in the queue, keeps the mutex as long as it needs it, and tells
\* the loop of a hangup that it is at.
LEMMA Ordinary ==
    ASSUME TypeOK, PeerInv, NEW p \in Threads, TypeOK',
           \A q \in Threads \ {p} : at'[q] = at[q],
           agent' = agent, connected' = connected, lost' = lost, loop' = loop, media' = media,
           app' = app \/ app' # "alive", removed' => removed \/ app' # "alive",
           Is("HAS_AGENT")' <=> Is("HAS_AGENT"), Is("READY")' <=> Is("READY"),
           Is("CLEANING")' => Is("CLEANING") \/ Queued("hangup")',
           Is("ALERT")' => Is("ALERT") \/ Step(p)' \in HangupSteps,
           Queued("hangup") => Queued("hangup")',
           queued_candidates' => Queued("candidates")' \/ "candidates" \in lost,
           mutex' = mutex \/ mutex \in {p, NoThread}, Holds(p)' => mutex' = p,
           Step(p) \in HangupSteps => Step(p)' \in HangupSteps \/ Queued("hangup")',
           Step(p)' = "setup_agent" => Step(p) = "setup_agent",
           p = Loop => (Step(p)' = "free" <=> Step(p) = "free") /\ (Step(p)' # "idle" => loop = "running"),
           at'[p].ret \in Returns
    PROVE  PeerInv'
<1>l. Step(Loop)' = "free" <=> Step(Loop) = "free"
  BY ThreadFacts, Zenon DEF Step
<1>c. Coming => Coming'
  BY <1>l, Zenon DEF Coming, Step
<1>1. HangupOnItsWay'
  BY <1>l, Zenon DEF PeerInv, HangupOnItsWay
<1>2. CandidatesOnTheirWay'
  BY Zenon DEF CandidatesOnTheirWay
<1>3. AgentsSound'
  <2>1. agent' = "ok" => Is("HAS_AGENT")' /\ \A q \in Threads : Step(q)' # "setup_agent"
    BY Zenon DEF PeerInv, AgentsSound, Step
  <2>2. agent' = "failed" => Coming'
    BY <1>c, Zenon DEF PeerInv, AgentsSound, Coming, HangupSteps
  <2> QED
    BY <2>1, <2>2, Zenon DEF AgentsSound, Coming, HangupSteps
<1>4. MediaInStep'
  BY <1>l, Zenon DEF PeerInv, MediaInStep
<1>5. LockFacts'
  <2>1. ASSUME NEW q \in Threads PROVE Holds(q)' => mutex' = q
    BY ThreadFacts, SMTT(40) DEF PeerInv, LockFacts, Holds, Step
  <2>2. ASSUME NEW q \in Threads, Step(q)' = "setup_agent" PROVE Is("HAS_AGENT")' /\ (Is("ALERT")' => Coming')
    <3>1. Step(q) = "setup_agent"
      BY <2>2, Zenon DEF Step
    <3>2. Is("HAS_AGENT") /\ (Is("ALERT") => Coming)
      BY <3>1, Zenon DEF PeerInv, LockFacts
    <3> QED
      BY <3>2, <1>c, Zenon DEF Coming
  <2>3. ASSUME NEW q \in Threads PROVE at'[q].ret \in Returns
    BY Zenon DEF PeerInv, LockFacts
  <2> QED
    BY <2>1, <2>2, <2>3, Zenon DEF LockFacts
<1>6. LoopFacts'
  BY ThreadFacts, Zenon DEF PeerInv, LoopFacts, Step
<1>7. IceFacts'
  BY Zenon DEF PeerInv, IceFacts
<1> QED
  BY <1>1, <1>2, <1>3, <1>4, <1>5, <1>6, <1>7, Zenon DEF PeerInv

\* What such a step does with the queue, the flags and the rest.
QueueKept ==
    /\ Queued("hangup") => Queued("hangup")'
    /\ queued_candidates' => Queued("candidates")' \/ "candidates" \in lost
FlagsKept ==
    /\ Is("HAS_AGENT")' <=> Is("HAS_AGENT")
    /\ Is("READY")' <=> Is("READY")
    /\ Is("CLEANING")' => Is("CLEANING")
    /\ Is("ALERT")' => Is("ALERT")
RestKept ==
    /\ UNCHANGED <<agent, connected, lost, loop, media>>
    /\ app' = app \/ app' # "alive"
    /\ removed' => removed \/ app' # "alive"

\* The same when the thread just goes on to a step that has nothing to do with a hangup.
LEMMA OrdinaryGoto ==
    ASSUME TypeOK, PeerInv, NEW p \in Threads, TypeOK', QueueKept, FlagsKept, RestKept,
           at'[p].ret \in Returns, \A q \in Threads \ {p} : at'[q] = at[q],
           at'[p].step \notin {"setup_agent", "free", "hangup_alert", "hangup_push"},
           at[p].step \notin {"free", "hangup_alert", "hangup_push"},
           p = Loop => loop = "running",
           mutex' = mutex \/ mutex \in {p, NoThread},
           at'[p].step \in {"setup_flags", "setup_error", "parse", "process"} => mutex' = p,
           p \in Tasks /\ at'[p].step = "got_answer" => mutex' = p
    PROVE  PeerInv'
<1>1. Step(p)' \notin {"setup_agent", "free", "hangup_alert", "hangup_push"}
      /\ Step(p) \notin {"free", "hangup_alert", "hangup_push"}
  BY Zenon DEF Step
<1>2. Holds(p)' => mutex' = p
  BY <1>1, Zenon DEF Holds, HangupSteps, Step
<1> QED
  BY <1>1, <1>2, Ordinary, Zenon DEF HangupSteps, QueueKept, FlagsKept, RestKept

\* And when it calls janus_ice_webrtc_hangup.
LEMMA OrdinaryHangup ==
    ASSUME TypeOK, PeerInv, NEW p \in Threads, TypeOK',
           NEW b \in {"idle", "destroy_stop", "dispatch"},
           Hangup(p, b), at[p].ret \in Returns,
           Step(p) \notin HangupSteps \cup {"free"}, p = Loop => loop = "running",
           UNCHANGED <<flags, mutex, agent, queued_candidates, connected, lost, loop, media, app, removed>>,
           \A x \in {"hangup", "candidates"} : Queued(x) => Queued(x)'
    PROVE  PeerInv'
<1>1. /\ \/ Is("ALERT") /\ at'[p].step = b /\ at'[p].ret \in {at[p].ret, "idle"}
         \/ ~Is("ALERT") /\ at'[p].step = "hangup_alert" /\ at'[p].ret = b
      /\ \A q \in Threads \ {p} : at'[q] = at[q]
  <2>1. at \in AtTypes /\ b \in Labels
    BY TypesSplit, Zenon DEF Labels
  <2> QED
    BY <2>1, AtHangup, Zenon
<1>2. Step(p)' \in {b, "hangup_alert"} /\ at'[p].ret \in Returns
  BY <1>1, Zenon DEF Step, Returns
<1>3. Holds(p)' => mutex' = p
  BY <1>1, Zenon DEF Holds, HangupSteps, Step
<1>4. queued_candidates' => Queued("candidates")' \/ "candidates" \in lost
  BY Zenon DEF PeerInv, CandidatesOnTheirWay
<1>5. \A f : Is(f)' <=> Is(f)
  BY Zenon DEF Is
<1> QED
  BY <1>1, <1>2, <1>3, <1>4, <1>5, Ordinary, Zenon DEF HangupSteps

\* The queue is left alone, or the loop told of candidates.
LEMMA QueueSame ==
    ASSUME PeerInv, queue' = queue, queued_candidates' = queued_candidates
    PROVE  QueueKept
BY Zenon DEF PeerInv, CandidatesOnTheirWay, QueueKept, Queued

\* A queue that only gains messages keeps what the loop is to see.
LEMMA QueueMore ==
    ASSUME PeerInv, queued_candidates' = queued_candidates, \A x \in {"hangup", "candidates"} : Queued(x) => Queued(x)'
    PROVE  QueueKept
BY Zenon DEF PeerInv, CandidatesOnTheirWay, QueueKept

\* Candidates given to the loop are given with a message (sdp.c and janus.c's trickle handling).
LEMMA QueueForward ==
    ASSUME PeerInv, queue \in Seq(Messages), NEW listed \in BOOLEAN,
           Forward(listed) \/ SetupRemoteCandidates(listed) \/ HandleAnswer(listed)
    PROVE  QueueKept
<1>1. Forward(listed) => QueueKept
  BY QueueCandidates, Zenon DEF Forward, QueueKept
<1>2. SetupRemoteCandidates(listed) => QueueKept
  BY <1>1, QueueSame, Zenon DEF SetupRemoteCandidates
<1> QED
  BY <1>1, <1>2, Zenon DEF HandleAnswer

\* The steps of janus_ice_webrtc_hangup keep the invariant: whoever sets CLEANING messages the loop.
LEMMA HangupInv ==
    ASSUME TypeOK, PeerInv, NEW p \in Threads, TypeOK', HangupStep(p)
    PROVE  PeerInv'
<1>t. at \in AtTypes /\ queue \in Seq(Messages) /\ at[p].ret \in Returns
  BY TypesSplit, Zenon DEF PeerInv, LockFacts
<1>h. Step(p) \in HangupSteps /\ (p = Loop => loop = "running")
  BY Zenon DEF HangupStep, HangupAlert, HangupPush, HangupSteps, PeerInv, LoopFacts
<1>1. CASE HangupAlert(p)
  <2>1. /\ at'[p].step = "hangup_push" /\ at'[p].ret \in {at[p].ret, "idle"}
        /\ \A q \in Threads \ {p} : at'[q] = at[q]
    BY <1>1, <1>t, AtGoto, Zenon DEF HangupAlert, Labels
  <2>2. Step(p)' \in HangupSteps /\ Step(p)' # "setup_agent" /\ Step(p)' # "free" /\ Step(p) # "free" /\ at'[p].ret \in Returns
    BY <1>h, <1>t, <2>1, Zenon DEF Step, HangupSteps, Returns
  <2>3. UNCHANGED <<agent, connected, lost, loop, media, app, removed, mutex, queued_candidates, queue>>
    BY <1>1, Zenon DEF HangupAlert, ice, handle, outside
  <2>4. QueueKept
    BY <2>3, QueueSame, Zenon
  <2>5. Holds(p)' => mutex' = p
    <3>1. Holds(p)' => at[p].ret = "setup_error"
      BY <2>1, Zenon DEF Holds, Step
    <3> QED
      BY <3>1, <1>h, <2>3, Zenon DEF Holds, PeerInv, LockFacts
  <2>6. /\ Is("HAS_AGENT")' <=> Is("HAS_AGENT")
        /\ Is("READY")' <=> Is("READY")
        /\ Is("CLEANING")' => Is("CLEANING")
    BY <1>1, Zenon DEF HangupAlert, Is
  <2> QED
    BY <1>h, <2>1, <2>2, <2>3, <2>4, <2>5, <2>6, Ordinary, Zenon DEF QueueKept
<1>2. CASE HangupPush(p)
  <2>1. /\ at'[p].step = at[p].ret /\ at'[p].ret = "idle"
        /\ \A q \in Threads \ {p} : at'[q] = at[q]
    BY <1>2, <1>t, AtReturn, Zenon DEF HangupPush
  <2>2. Step(p)' # "setup_agent" /\ Step(p)' # "free" /\ Step(p) # "free" /\ at'[p].ret \in Returns
    BY <1>h, <1>t, <2>1, Zenon DEF Step, HangupSteps, Returns
  <2>3. UNCHANGED <<agent, connected, lost, loop, media, app, removed, mutex, queued_candidates>>
    BY <1>2, Zenon DEF HangupPush, ice, handle, outside
  <2>4. Queued("hangup")' /\ \A x : Queued(x) => Queued(x)'
    BY <1>2, <1>t, QueueFront, Zenon DEF HangupPush, Messages
  <2>5. QueueKept
    BY <2>3, <2>4, QueueMore, Zenon
  <2>6. Holds(p)' => mutex' = p
    <3>1. Holds(p)' => at[p].ret = "setup_error"
      BY <1>t, <2>1, Zenon DEF Holds, Step, Returns, HangupSteps
    <3> QED
      BY <3>1, <1>h, <2>3, Zenon DEF Holds, PeerInv, LockFacts
  <2>7. /\ Is("HAS_AGENT")' <=> Is("HAS_AGENT")
        /\ Is("READY")' <=> Is("READY")
        /\ Is("ALERT")' => Is("ALERT")
    BY <1>2, Zenon DEF HangupPush, Is
  <2> QED
    BY <1>h, <2>1, <2>2, <2>3, <2>4, <2>5, <2>6, <2>7, Ordinary, Zenon DEF QueueKept
<1> QED
  BY <1>1, <1>2, Zenon DEF HangupStep

\* The owner of the mutex is alone with what the mutex protects.
LEMMA Alone ==
    ASSUME PeerInv, NEW p \in Threads, Holds(p)
    PROVE  mutex = p /\ \A q \in Threads : Holds(q) => q = p
BY Zenon DEF PeerInv, LockFacts

\* janus_ice_setup_local keeps the invariant: HAS_AGENT keeps it from overwriting an agent, and one
\* whose setup fails is freed by the hangup that follows or by one that is coming already.
LEMMA SetupFlagsInv ==
    ASSUME TypeOK, PeerInv, NEW p \in Tasks \cup {Plug}, TypeOK', SetupFlags(p)
    PROVE  PeerInv'
<1>p. p \in Threads /\ p # Loop
  BY ThreadFacts, Zenon
<1>t. at \in AtTypes /\ at[p].ret \in Returns /\ {"setup_error", "setup_agent"} \subseteq Labels
  BY <1>p, TypesSplit, Zenon DEF PeerInv, LockFacts, Labels
<1>h. Holds(p) /\ at[p].step = "setup_flags"
  BY Zenon DEF SetupFlags, Holds, Step
<1>m. mutex = p /\ \A q \in Threads : Holds(q) => q = p
  BY <1>h, <1>p, Alone, Zenon
<1>u. UNCHANGED <<mutex, agent, connected, queued_candidates, queue, lost, loop, media, app, removed>>
  BY Zenon DEF SetupFlags, ice, handle, outside
<1>1. CASE Is("HAS_AGENT")
  <2>1. /\ at'[p].step = "setup_error" /\ at'[p].ret \in {at[p].ret, "idle"}
        /\ \A q \in Threads \ {p} : at'[q] = at[q]
    BY <1>1, <1>p, <1>t, AtGoto, Zenon DEF SetupFlags
  <2>2. FlagsKept /\ RestKept
    BY <1>1, <1>u, Zenon DEF SetupFlags, FlagsKept, RestKept, Is
  <2>3. QueueKept
    BY <1>u, QueueSame, Zenon
  <2>4. at'[p].ret \in Returns
    BY <1>t, <2>1, Zenon DEF Returns
  <2> QED
    BY <1>p, <1>h, <1>m, <1>u, <2>1, <2>2, <2>3, <2>4, OrdinaryGoto, Zenon
<1>2. CASE ~Is("HAS_AGENT")
  <2>1. /\ at'[p].step = "setup_agent" /\ at'[p].ret \in {at[p].ret, "idle"}
        /\ \A q \in Threads \ {p} : at'[q] = at[q]
    BY <1>2, <1>p, <1>t, AtGoto, Zenon DEF SetupFlags
  <2>f. /\ Is("HAS_AGENT")' /\ ~Is("READY")' /\ ~Is("ALERT")'
        /\ Is("CLEANING")' <=> Is("CLEANING")
    BY <1>2 DEF SetupFlags, Is
  <2>a. agent # "ok" /\ ~connected /\ ~Is("READY")
    BY <1>2, Zenon DEF PeerInv, AgentsSound, IceFacts
  <2>l. at'[Loop] = at[Loop] /\ Loop \in Threads
    BY <1>p, <2>1, ThreadFacts, Zenon
  <2>q. \A x : Queued(x)' <=> Queued(x)
    BY <1>u, Zenon DEF Queued
  <2>2. HangupOnItsWay'
    BY <1>u, <2>f, <2>l, <2>q, Zenon DEF PeerInv, HangupOnItsWay, Step
  <2>3. CandidatesOnTheirWay'
    BY <1>u, <2>q, Zenon DEF PeerInv, CandidatesOnTheirWay
  <2>4. AgentsSound'
    <3>1. Coming => Coming'
      BY <1>h, <1>u, <2>1, <2>l, <2>q, Zenon DEF Coming, Step, HangupSteps
    <3> QED
      BY <3>1, <1>u, <2>a, Zenon DEF PeerInv, AgentsSound, Coming, HangupSteps
  <2>5. MediaInStep'
    BY <1>u, <2>a, <2>f, <2>l, Zenon DEF PeerInv, MediaInStep, Step
  <2>6. LockFacts'
    <3>1. ASSUME NEW q \in Threads, q # p
          PROVE  ~Holds(q)' /\ Step(q)' # "setup_agent" /\ at'[q].ret \in Returns
      BY <3>1, <1>m, <2>1, Zenon DEF Holds, Step, PeerInv, LockFacts
    <3>2. at'[p].ret \in Returns
      BY <1>t, <2>1, Zenon DEF Returns
    <3> QED
      BY <3>1, <3>2, <1>m, <1>u, <2>f, Zenon DEF LockFacts
  <2>7. LoopFacts'
    BY <1>u, <2>l, Zenon DEF PeerInv, LoopFacts, Step
  <2>8. IceFacts'
    BY <1>u, <2>a, <2>f, Zenon DEF PeerInv, IceFacts
  <2> QED
    BY <2>2, <2>3, <2>4, <2>5, <2>6, <2>7, <2>8, Zenon DEF PeerInv
<1> QED
  BY <1>1, <1>2, Zenon

\* janus_ice_setup_local, once HAS_AGENT is set: the agent it makes or fails to make keeps the invariant.
LEMMA SetupAgentInv ==
    ASSUME TypeOK, PeerInv, NEW p \in Tasks \cup {Plug}, TypeOK', SetupAgent(p)
    PROVE  PeerInv'
<1>p. p \in Threads /\ p # Loop
  BY ThreadFacts, Zenon
<1>t. /\ at \in AtTypes /\ queue \in Seq(Messages) /\ at[p].ret \in Returns
      /\ {"setup_error", "process", "gather"} \subseteq Labels
  BY <1>p, TypesSplit, Zenon DEF PeerInv, LockFacts, Labels
<1>h. Holds(p) /\ at[p].step = "setup_agent" /\ Step(p) = "setup_agent"
  BY Zenon DEF SetupAgent, Holds, Step
<1>m. mutex = p /\ \A q \in Threads : Holds(q) => q = p
  BY <1>h, <1>p, Alone, Zenon
<1>u. connected' = FALSE /\ UNCHANGED <<queued_candidates, lost, loop, media, app, removed>>
  BY Zenon DEF SetupAgent, handle, outside
<1>a. agent # "ok" /\ ~Is("READY") /\ Is("HAS_AGENT") /\ (Is("ALERT") => Coming)
  BY <1>p, <1>h, Zenon DEF PeerInv, AgentsSound, IceFacts, LockFacts
<1>1. ASSUME \A q \in Threads \ {p} : at'[q] = at[q],
             \A x : Queued(x) => Queued(x)', ~Is("CLEANING")', ~Is("READY")',
             agent' = "ok" => Is("HAS_AGENT")', agent' = "failed" => Coming',
             agent' = "ok" \/ agent' = "failed",
             Holds(p)' => mutex' = p, Step(p)' # "setup_agent", at'[p].ret \in Returns
      PROVE  PeerInv'
  <2>l. at'[Loop] = at[Loop] /\ Loop \in Threads
    BY <1>p, <1>1, ThreadFacts, Zenon
  <2>o. \A q \in Threads \ {p} : ~Holds(q)' /\ Step(q)' # "setup_agent" /\ at'[q].ret \in Returns
    BY <1>m, <1>1, Zenon DEF Holds, Step, PeerInv, LockFacts
  <2>2. HangupOnItsWay'
    BY <1>1, Zenon DEF HangupOnItsWay
  <2>3. CandidatesOnTheirWay'
    BY <1>u, <1>1, Zenon DEF PeerInv, CandidatesOnTheirWay
  <2>4. AgentsSound'
    <3>1. agent' = "ok" => Is("HAS_AGENT")' /\ \A q \in Threads : Step(q)' # "setup_agent"
      BY <1>1, <2>o, Zenon
    <3> QED
      BY <3>1, <1>1, Zenon DEF AgentsSound, Coming, HangupSteps
  <2>5. MediaInStep'
    BY <1>u, <1>a, <1>1, <2>l, Zenon DEF PeerInv, MediaInStep, Step
  <2>6. LockFacts'
    BY <1>1, <2>o, Zenon DEF LockFacts
  <2>7. LoopFacts'
    BY <1>u, <2>l, Zenon DEF PeerInv, LoopFacts, Step
  <2>8. IceFacts'
    BY <1>u, <1>a, <1>1, Zenon DEF PeerInv, IceFacts
  <2> QED
    BY <2>2, <2>3, <2>4, <2>5, <2>6, <2>7, <2>8, Zenon DEF PeerInv
<1>2. CASE /\ agent' = "ok" /\ queue' = IF FullTrickle THEN PushFront("gather") ELSE queue
           /\ flags' = flags \ {"CLEANING"} /\ SetupDone(p)
  <2>1. /\ at'[p].step \in {"gather", "process"} /\ at'[p].ret \in {at[p].ret, "idle"}
        /\ at'[p].step = "process" => mutex' = mutex
        /\ \A q \in Threads \ {p} : at'[q] = at[q]
    BY <1>2, <1>p, <1>t, AtGoto, Zenon DEF SetupDone
  <2>2. \A x : Queued(x) => Queued(x)'
    <3>1. CASE FullTrickle
      BY <1>2, <1>t, <3>1, QueueFront, Zenon DEF Messages
    <3>2. CASE ~FullTrickle
      BY <1>2, <3>2, Zenon DEF Queued
    <3> QED
      BY <3>1, <3>2, Zenon
  <2>3. ~Is("CLEANING")' /\ ~Is("READY")' /\ Is("HAS_AGENT")'
    BY <1>2, <1>a, Zenon DEF Is
  <2>4. Holds(p)' => mutex' = p
    BY <1>m, <2>1, Zenon DEF Holds, Step, HangupSteps
  <2>5. Step(p)' # "setup_agent" /\ at'[p].ret \in Returns
    BY <1>t, <2>1, Zenon DEF Step, Returns
  <2> QED
    BY <1>1, <1>2, <2>1, <2>2, <2>3, <2>4, <2>5, Zenon
<1>3. CASE /\ agent' = "failed" /\ flags' = flags \ {"CLEANING", "HAS_AGENT"}
           /\ Hangup(p, "setup_error") /\ UNCHANGED <<queue, mutex>>
  <2>1. /\ \/ Is("ALERT") /\ at'[p].step = "setup_error" /\ at'[p].ret \in {at[p].ret, "idle"}
           \/ ~Is("ALERT") /\ at'[p].step = "hangup_alert" /\ at'[p].ret = "setup_error"
        /\ \A q \in Threads \ {p} : at'[q] = at[q]
    BY <1>3, <1>p, <1>t, AtHangup, Zenon
  <2>2. \A x : Queued(x) => Queued(x)'
    BY <1>3, Zenon DEF Queued
  <2>3. ~Is("CLEANING")' /\ ~Is("READY")'
    BY <1>3, <1>a, Zenon DEF Is
  <2>4. Coming'
    <3>1. CASE Is("ALERT")
      <4>1. Coming
        BY <1>a, <3>1, Zenon
      <4> QED
        BY <4>1, <1>h, <1>p, <1>u, <2>1, <2>2, ThreadFacts, Zenon DEF Coming, Step, HangupSteps
    <3>2. CASE ~Is("ALERT")
      BY <1>p, <2>1, <3>2, Zenon DEF Coming, Step, HangupSteps
    <3> QED
      BY <3>1, <3>2, Zenon
  <2>5. mutex' = p /\ Step(p)' # "setup_agent" /\ at'[p].ret \in Returns
    BY <1>3, <1>m, <1>t, <2>1, Zenon DEF Step, Returns
  <2> QED
    BY <1>1, <1>3, <2>1, <2>2, <2>3, <2>4, <2>5, Zenon
<1> QED
  BY <1>2, <1>3, Zenon DEF SetupAgent

\* Every step of janus_ice_setup_local keeps the invariant.
LEMMA SetupInv ==
    ASSUME TypeOK, PeerInv, NEW p \in Tasks \cup {Plug}, TypeOK', SetupStep(p)
    PROVE  PeerInv'
<1>1. CASE SetupError(p)
  <2>p. p \in Threads /\ p # Loop
    BY ThreadFacts, Zenon
  <2>t. at \in AtTypes /\ at[p].ret \in Returns /\ "idle" \in Labels
    BY <2>p, TypesSplit, Zenon DEF PeerInv, LockFacts, Labels
  <2>h. Holds(p) /\ at[p].step = "setup_error"
    BY <1>1, Zenon DEF SetupError, Holds, Step
  <2>1. /\ at'[p].step = "idle" /\ at'[p].ret \in {at[p].ret, "idle"}
        /\ \A q \in Threads \ {p} : at'[q] = at[q]
    BY <1>1, <2>p, <2>t, AtGoto, Zenon DEF SetupError
  <2>2. FlagsKept
    BY <1>1, Zenon DEF SetupError, FlagsKept, Is
  <2>3. RestKept
    BY <1>1, Zenon DEF SetupError, RestKept, ice, handle, outside
  <2>4. QueueKept
    BY <1>1, QueueSame, Zenon DEF SetupError, ice
  <2>5. mutex = p /\ at'[p].ret \in Returns
    BY <2>1, <2>t, <2>h, <2>p, Alone, Zenon DEF Returns
  <2> QED
    BY <2>p, <2>h, <2>1, <2>2, <2>3, <2>4, <2>5, OrdinaryGoto, Zenon
<1> QED
  BY <1>1, SetupFlagsInv, SetupAgentInv, Zenon DEF SetupStep

\* The steps of a task keep the invariant.
LEMMA TaskInv ==
    ASSUME TypeOK, PeerInv, NEW p \in Tasks, TypeOK', TaskStep(p)
    PROVE  PeerInv'
<1>l. {"idle", "negotiated", "lock", "parse", "got_answer", "setup_flags", "process", "deliver"} \subseteq Labels
  BY Zenon DEF Labels
<1>p. p \in Threads /\ p # Loop /\ p # Plug
  BY ThreadFacts, Zenon
<1>t. at \in AtTypes /\ queue \in Seq(Messages) /\ at[p].ret \in Returns /\ "idle" \in Returns
  BY <1>p, TypesSplit, Zenon DEF PeerInv, LockFacts, Returns
<1>b. candidates \in BOOLEAN /\ at[p].jsep \in {"offer", "answer"}
  BY <1>p, <1>t, Zenon DEF TypeOK, AtTypes
<1>g. ASSUME NEW l \in Labels, Goto(p, l)
      PROVE  at'[p].step = l /\ at'[p].ret \in Returns /\ \A q \in Threads \ {p} : at'[q] = at[q]
  BY <1>g, <1>p, <1>t, AtGoto, Zenon
<1>u. GiveUp(p) => /\ at'[p].step = "idle" /\ at'[p].ret \in Returns /\ \A q \in Threads \ {p} : at'[q] = at[q]
                   /\ mutex' = NoThread /\ FlagsKept
  BY <1>g, <1>l, Zenon DEF GiveUp, FlagsKept, Is
<1>1. CASE MessageCleaning(p)
  <2>1. /\ at'[p].step \in {"idle", "negotiated"} /\ at'[p].ret \in Returns
        /\ \A q \in Threads \ {p} : at'[q] = at[q]
    BY <1>1, <1>l, <1>g, Zenon DEF MessageCleaning
  <2>2. FlagsKept /\ RestKept
    BY <1>1, Zenon DEF MessageCleaning, FlagsKept, RestKept, Is, shared, ice, handle, outside
  <2>3. QueueKept
    BY <1>1, QueueSame, Zenon DEF MessageCleaning, ice
  <2>4. at[p].step = "cleaning" /\ mutex' = mutex
    BY <1>1, Zenon DEF MessageCleaning, Step, shared
  <2> QED
    BY <1>p, <2>1, <2>2, <2>3, <2>4, OrdinaryGoto, Zenon
<1>2. CASE MessageNegotiated(p)
  <2>0. Is("NEGOTIATED") \in BOOLEAN
    BY DEF Is
  <2>n. PICK u \in BOOLEAN : u = Is("NEGOTIATED")
    BY <2>0, Zenon
  <2>t. PICK t \in {"offer", "answer"} : t = at[p].jsep
    BY <1>b, Zenon
  <2>b. Begin(p, "lock", t, u)
    BY <1>2, <2>n, <2>t, Zenon DEF MessageNegotiated
  <2>1. at'[p].step = "lock" /\ at'[p].ret \in Returns /\ \A q \in Threads \ {p} : at'[q] = at[q]
    BY <2>b, <1>l, <1>p, <1>t, AtBegin, ZenonT(40)
  <2>2. FlagsKept /\ RestKept
    BY <1>2, Zenon DEF MessageNegotiated, FlagsKept, RestKept, Is, shared, ice, handle, outside
  <2>3. QueueKept
    BY <1>2, QueueSame, Zenon DEF MessageNegotiated, ice
  <2>4. at[p].step = "negotiated" /\ mutex' = mutex
    BY <1>2, Zenon DEF MessageNegotiated, Step, shared
  <2> QED
    BY <1>p, <2>1, <2>2, <2>3, <2>4, OrdinaryGoto, Zenon
<1>3. CASE MessageLock(p)
  <2>1. /\ at'[p].step \in {"idle", "parse", "got_answer"} /\ at'[p].ret \in Returns
        /\ \A q \in Threads \ {p} : at'[q] = at[q]
        /\ at'[p].step = "idle" \/ mutex' = p
    BY <1>3, <1>l, <1>g, <1>u, Zenon DEF MessageLock
  <2>2. FlagsKept
    BY <1>3, <1>u, Zenon DEF MessageLock, OfferFlags, FlagsKept, Is
  <2>r. RestKept
    BY <1>3, Zenon DEF MessageLock, RestKept, ice, handle, outside
  <2>3. QueueKept
    BY <1>3, QueueSame, Zenon DEF MessageLock, ice
  <2>4. at[p].step = "lock" /\ mutex = NoThread
    BY <1>3, Zenon DEF MessageLock, Step, Unlocked
  <2> QED
    BY <1>p, <2>1, <2>2, <2>r, <2>3, <2>4, OrdinaryGoto, Zenon
<1>4. CASE GotAnswer(p)
  <2>1. at'[p].step = "parse" /\ at'[p].ret \in Returns /\ \A q \in Threads \ {p} : at'[q] = at[q]
    BY <1>4, <1>l, <1>p, <1>g, Zenon DEF GotAnswer
  <2>2. FlagsKept
    BY <1>4, Zenon DEF GotAnswer, FlagsKept, Is
  <2>r. RestKept
    BY <1>4, Zenon DEF GotAnswer, RestKept, ice, handle, outside
  <2>3. QueueKept
    BY <1>4, QueueSame, Zenon DEF GotAnswer, ice
  <2>4. at[p].step = "got_answer" /\ Holds(p) /\ mutex' = mutex
    BY <1>4, Zenon DEF GotAnswer, Step, Holds
  <2>5. mutex = p
    BY <1>p, <2>4, Alone, Zenon
  <2> QED
    BY <1>p, <2>1, <2>2, <2>r, <2>3, <2>4, <2>5, OrdinaryGoto, Zenon
<1>5. CASE MessageParse(p)
  <2>1. /\ at'[p].step \in {"idle", "setup_flags", "process"} /\ at'[p].ret \in Returns
        /\ \A q \in Threads \ {p} : at'[q] = at[q]
        /\ at'[p].step = "idle" \/ mutex' = mutex
    BY <1>5, <1>l, <1>g, <1>u, Zenon DEF MessageParse
  <2>2. FlagsKept
    BY <1>5, <1>u, Zenon DEF MessageParse, FlagsKept, Is
  <2>r. RestKept
    BY <1>5, Zenon DEF MessageParse, RestKept, ice, handle, outside
  <2>3. QueueKept
    BY <1>5, QueueSame, Zenon DEF MessageParse, ice
  <2>4. at[p].step = "parse" /\ Holds(p)
    BY <1>5, Zenon DEF MessageParse, Step, Holds
  <2>5. mutex = p
    BY <1>p, <2>4, Alone, Zenon
  <2> QED
    BY <1>p, <2>1, <2>2, <2>r, <2>3, <2>4, <2>5, OrdinaryGoto, Zenon
<1>6. CASE MessageProcess(p)
  <2>1. /\ at'[p].step \in {"idle", "deliver"} /\ at'[p].ret \in Returns
        /\ \A q \in Threads \ {p} : at'[q] = at[q]
    <3>1. GiveUp(p) \/ Goto(p, "deliver")
      BY <1>6, Zenon DEF MessageProcess
    <3> QED
      BY <3>1, <1>l, <1>g, <1>u, Zenon
  <2>2. FlagsKept /\ QueueKept
    <3>1. CASE GiveUp(p) /\ UNCHANGED <<queued_candidates, queue>>
      BY <3>1, <1>u, QueueSame, Zenon
    <3>2. ASSUME NEW listed \in BOOLEAN, HandleAnswer(listed)
          PROVE  FlagsKept /\ QueueKept
      <4>1. FlagsKept
        BY <3>2, Zenon DEF HandleAnswer, FlagsKept, Is
      <4>2. QueueKept
        BY <3>2, <1>t, QueueForward, Zenon
      <4> QED
        BY <4>1, <4>2, Zenon
    <3>3. CASE UNCHANGED <<flags, queued_candidates, queue>>
      <4>1. FlagsKept
        BY <3>3, Zenon DEF FlagsKept, Is
      <4> QED
        BY <4>1, <3>3, QueueSame, Zenon
    <3>4. {candidates, TRUE} \subseteq BOOLEAN
      BY <1>b, Zenon
    <3>5. \/ GiveUp(p) /\ UNCHANGED <<queued_candidates, queue>>
          \/ \E listed \in {candidates, TRUE} : HandleAnswer(listed)
          \/ UNCHANGED <<flags, queued_candidates, queue>>
      BY <1>6, Zenon DEF MessageProcess
    <3> QED
      BY <3>1, <3>2, <3>3, <3>4, <3>5, Zenon
  <2>r. RestKept
    BY <1>6, Zenon DEF MessageProcess, RestKept, handle, outside
  <2>4. at[p].step = "process" /\ Holds(p)
    BY <1>6, Zenon DEF MessageProcess, Step, Holds
  <2>5. mutex = p
    BY <1>p, <2>4, Alone, Zenon
  <2> QED
    BY <1>p, <2>1, <2>2, <2>r, <2>4, <2>5, OrdinaryGoto, Zenon
<1>7. CASE MessageDeliver(p)
  <2>1. at'[p].step = "idle" /\ at'[p].ret \in Returns /\ \A q \in Threads \ {p} : at'[q] = at[q]
    BY <1>7, <1>l, <1>g, Zenon DEF MessageDeliver
  <2>2. FlagsKept
    BY <1>7, Zenon DEF MessageDeliver, FlagsKept, Is
  <2>r. RestKept
    BY <1>7, Zenon DEF MessageDeliver, RestKept, ice, handle
  <2>3. QueueKept
    BY <1>7, QueueSame, Zenon DEF MessageDeliver, ice
  <2>4. at[p].step = "deliver" /\ mutex' = mutex
    BY <1>7, Zenon DEF MessageDeliver, Step
  <2> QED
    BY <1>p, <2>1, <2>2, <2>r, <2>3, <2>4, OrdinaryGoto, Zenon
<1> QED
  BY <1>1, <1>2, <1>3, <1>4, <1>5, <1>6, <1>7, <1>p, SetupInv, HangupInv, Zenon DEF TaskStep

\* The steps of a plugin's thread keep the invariant.
LEMMA PlugInv ==
    ASSUME TypeOK, PeerInv, TypeOK', PlugStep
    PROVE  PeerInv'
<1>l. {"idle", "setup_lock", "merge", "setup_flags", "gather"} \subseteq Labels
  BY Zenon DEF Labels
<1>p. Plug \in Threads /\ Plug # Loop /\ Plug \notin Tasks
  BY ThreadFacts, Zenon
<1>t. at \in AtTypes /\ queue \in Seq(Messages) /\ at[Plug].ret \in Returns /\ "idle" \in Returns
  BY <1>p, TypesSplit, Zenon DEF PeerInv, LockFacts, Returns
<1>g. ASSUME NEW l \in Labels, Goto(Plug, l)
      PROVE  at'[Plug].step = l /\ at'[Plug].ret \in Returns /\ \A q \in Threads \ {Plug} : at'[q] = at[q]
  BY <1>g, <1>p, <1>t, AtGoto, Zenon
<1>1. CASE PluginCleaning
  <2>1. /\ at'[Plug].step \in {"idle", "setup_lock", "merge"} /\ at'[Plug].ret \in Returns
        /\ \A q \in Threads \ {Plug} : at'[q] = at[q]
    <3>1. Goto(Plug, "idle") \/ Goto(Plug, "setup_lock") \/ Begin(Plug, "merge", "offer", TRUE)
      BY <1>1, Zenon DEF PluginCleaning
    <3>2. CASE Begin(Plug, "merge", "offer", TRUE)
      BY <3>2, <1>l, <1>p, <1>t, AtBegin, Zenon
    <3> QED
      BY <3>1, <3>2, <1>l, <1>g, Zenon
  <2>2. FlagsKept /\ RestKept
    BY <1>1, Zenon DEF PluginCleaning, FlagsKept, RestKept, Is, shared, ice, handle, outside
  <2>3. QueueKept
    BY <1>1, QueueSame, Zenon DEF PluginCleaning, ice
  <2>4. at[Plug].step = "cleaning" /\ mutex' = mutex
    BY <1>1, Zenon DEF PluginCleaning, Step, shared
  <2> QED
    BY <1>p, <2>1, <2>2, <2>3, <2>4, OrdinaryGoto, Zenon
<1>2. CASE PluginSetup
  <2>1. /\ at'[Plug].step = "setup_flags" /\ at'[Plug].ret \in Returns
        /\ \A q \in Threads \ {Plug} : at'[q] = at[q]
    BY <1>2, <1>l, <1>g, Zenon DEF PluginSetup
  <2>2. FlagsKept /\ RestKept
    BY <1>2, Zenon DEF PluginSetup, FlagsKept, RestKept, Is, ice, handle, outside
  <2>3. QueueKept
    BY <1>2, QueueSame, Zenon DEF PluginSetup, ice
  <2>4. at[Plug].step = "setup_lock" /\ mutex = NoThread /\ mutex' = Plug
    BY <1>2, Zenon DEF PluginSetup, Step, Unlocked
  <2> QED
    BY <1>p, <2>1, <2>2, <2>3, <2>4, OrdinaryGoto, Zenon
<1>3. CASE PluginGathered
  <2>1. /\ at'[Plug].step \in {"idle", "merge"} /\ at'[Plug].ret \in Returns
        /\ \A q \in Threads \ {Plug} : at'[q] = at[q]
    BY <1>3, <1>l, <1>g, Zenon DEF PluginGathered
  <2>2. FlagsKept /\ RestKept
    BY <1>3, Zenon DEF PluginGathered, FlagsKept, RestKept, Is, shared, ice, handle, outside
  <2>3. QueueKept
    BY <1>3, QueueSame, Zenon DEF PluginGathered, ice
  <2>4. at[Plug].step = "gather" /\ mutex' = mutex
    BY <1>3, Zenon DEF PluginGathered, Step, shared
  <2> QED
    BY <1>p, <2>1, <2>2, <2>3, <2>4, OrdinaryGoto, Zenon
<1>4. CASE PluginMerge
  <2>1. at'[Plug].step = "idle" /\ at'[Plug].ret \in Returns /\ \A q \in Threads \ {Plug} : at'[q] = at[q]
    BY <1>4, <1>l, <1>g, Zenon DEF PluginMerge
  <2>2. FlagsKept /\ QueueKept
    <3>0. candidates \in BOOLEAN
      BY Zenon DEF TypeOK
    <3>c. PICK listed \in BOOLEAN : listed = candidates
      BY <3>0, Zenon
    <3>1. CASE HandleAnswer(listed)
      <4>1. FlagsKept
        BY <3>1, Zenon DEF HandleAnswer, FlagsKept, Is
      <4> QED
        BY <3>1, <4>1, <1>t, QueueForward, Zenon
    <3>2. CASE flags' \in {flags, flags \cup {"PROCESSING_OFFER"}} /\ UNCHANGED <<queued_candidates, queue>>
      <4>1. FlagsKept
        BY <3>2, Zenon DEF FlagsKept, Is
      <4> QED
        BY <3>2, <4>1, QueueSame, Zenon
    <3> QED
      BY <1>4, <3>1, <3>2, <3>c, Zenon DEF PluginMerge
  <2>r. RestKept
    BY <1>4, Zenon DEF PluginMerge, RestKept, handle
  <2>4. at[Plug].step = "merge" /\ mutex' = mutex
    BY <1>4, Zenon DEF PluginMerge, Step
  <2> QED
    BY <1>p, <2>1, <2>2, <2>r, <2>4, OrdinaryGoto, Zenon
<1>5. CASE GotAnswer(Plug)
  <2>1. at'[Plug].step = "gather" /\ at'[Plug].ret \in Returns /\ \A q \in Threads \ {Plug} : at'[q] = at[q]
    BY <1>5, <1>l, <1>g, Zenon DEF GotAnswer
  <2>2. FlagsKept
    BY <1>5, Zenon DEF GotAnswer, FlagsKept, Is
  <2>r. RestKept
    BY <1>5, Zenon DEF GotAnswer, RestKept, ice, handle, outside
  <2>3. QueueKept
    BY <1>5, QueueSame, Zenon DEF GotAnswer, ice
  <2>4. at[Plug].step = "got_answer" /\ mutex' = mutex
    BY <1>5, Zenon DEF GotAnswer, Step
  <2> QED
    BY <1>p, <2>1, <2>2, <2>r, <2>3, <2>4, OrdinaryGoto, Zenon
<1> QED
  BY <1>1, <1>2, <1>3, <1>4, <1>5, <1>p, SetupInv, HangupInv, Zenon DEF PlugStep

\* The steps of the requests thread and of the watchdog keep the invariant.
LEMMA RequestInv ==
    ASSUME TypeOK, PeerInv, TypeOK', ReqStep \/ WdStep
    PROVE  PeerInv'
<1>l. {"idle", "destroy_detach"} \subseteq Labels
  BY Zenon DEF Labels
<1>p. {Req, Wd} \subseteq Threads /\ Loop \notin {Req, Wd} /\ {Req, Wd} \cap Tasks = {}
  BY ThreadFacts, Zenon
<1>t. at \in AtTypes /\ queue \in Seq(Messages) /\ "idle" \in Returns /\ \A p \in Threads : at[p].ret \in Returns
  BY TypesSplit, Zenon DEF PeerInv, LockFacts, Returns
<1>g. ASSUME NEW p \in {Req, Wd}, NEW l \in Labels, Goto(p, l)
      PROVE  at'[p].step = l /\ at'[p].ret \in Returns /\ \A q \in Threads \ {p} : at'[q] = at[q]
  <2>1. p \in Threads
    BY <1>p, Zenon
  <2> QED
    BY <1>g, <2>1, <1>t, AtGoto, Zenon
<1>1. CASE TrickleLocked
  <2>1. at'[Req].step = "idle" /\ at'[Req].ret \in Returns /\ \A q \in Threads \ {Req} : at'[q] = at[q]
    BY <1>1, <1>l, <1>g, Zenon DEF TrickleLocked
  <2>2. FlagsKept /\ RestKept
    BY <1>1, Zenon DEF TrickleLocked, FlagsKept, RestKept, Is, handle, outside
  <2>3. QueueKept
    <3>0. candidates \in BOOLEAN
      BY Zenon DEF TypeOK
    <3>c. PICK listed \in BOOLEAN : listed = candidates
      BY <3>0, Zenon
    <3>1. Forward(listed) \/ UNCHANGED <<queued_candidates, queue>>
      BY <1>1, <3>c, Zenon DEF TrickleLocked
    <3> QED
      BY <3>1, <1>t, QueueSame, QueueForward, Zenon
  <2>4. at[Req].step = "trickle" /\ mutex' = mutex
    BY <1>1, Zenon DEF TrickleLocked, Step
  <2> QED
    BY <1>p, <2>1, <2>2, <2>3, <2>4, OrdinaryGoto, Zenon
<1>2. ASSUME NEW p \in {Req, Wd}, DestroyStop(p)
      PROVE  PeerInv'
  <2>1. at'[p].step = "destroy_detach" /\ at'[p].ret \in Returns /\ \A q \in Threads \ {p} : at'[q] = at[q]
    BY <1>2, <1>l, <1>g, Zenon DEF DestroyStop
  <2>2. FlagsKept
    BY <1>2, Zenon DEF DestroyStop, FlagsKept, Is
  <2>r. RestKept
    BY <1>2, Zenon DEF DestroyStop, RestKept, ice, handle, outside
  <2>3. QueueKept
    BY <1>2, QueueSame, Zenon DEF DestroyStop, ice
  <2>4. at[p].step = "destroy_stop" /\ mutex' = mutex /\ p \in Threads /\ p # Loop /\ p \notin Tasks
    BY <1>2, <1>p, Zenon DEF DestroyStop, Step
  <2> QED
    BY <2>1, <2>2, <2>r, <2>3, <2>4, OrdinaryGoto, Zenon
<1>3. ASSUME NEW p \in {Req, Wd}, DestroyDetach(p)
      PROVE  PeerInv'
  <2>1. at'[p].step = "idle" /\ at'[p].ret \in Returns /\ \A q \in Threads \ {p} : at'[q] = at[q]
    BY <1>3, <1>l, <1>g, Zenon DEF DestroyDetach
  <2>2. FlagsKept /\ RestKept
    BY <1>3, Zenon DEF DestroyDetach, FlagsKept, RestKept, Is, shared, ice, outside
  <2>3. QueueKept
    <3>1. \A x : Queued(x) => Queued(x)'
      BY <1>3, <1>t, QueueAppend, Zenon DEF DestroyDetach, Messages
    <3> QED
      BY <1>3, <3>1, QueueMore, Zenon DEF DestroyDetach, ice
  <2>4. at[p].step = "destroy_detach" /\ mutex' = mutex /\ p \in Threads /\ p # Loop /\ p \notin Tasks
    BY <1>3, <1>p, Zenon DEF DestroyDetach, Step, shared
  <2> QED
    BY <2>1, <2>2, <2>3, <2>4, OrdinaryGoto, Zenon
<1>h. ASSUME NEW p \in {Req, Wd}, NEW b \in {"idle", "destroy_stop"}, Hangup(p, b), at[p].step = "idle",
             UNCHANGED <<flags, mutex, agent, queued_candidates, connected, lost, loop, media, app, removed, queue>>
      PROVE  PeerInv'
  <2>1. p \in Threads /\ p # Loop /\ at[p].ret \in Returns /\ Step(p) \notin HangupSteps \cup {"free"}
    BY <1>h, <1>p, <1>t, Zenon DEF Step, HangupSteps
  <2>2. \A x \in {"hangup", "candidates"} : Queued(x) => Queued(x)'
    BY <1>h, Zenon DEF Queued
  <2> QED
    BY <1>h, <2>1, <2>2, OrdinaryHangup, Zenon
<1>i. ASSUME UNCHANGED <<at, flags, mutex, agent, queued_candidates, connected, lost, loop, media, app, removed, queue>>,
             Step(Wd) = "idle"
      PROVE  PeerInv'
  <2>1. FlagsKept /\ RestKept
    BY <1>i, Zenon DEF FlagsKept, RestKept, Is
  <2>2. QueueKept
    BY <1>i, QueueSame, Zenon
  <2>3. at'[Wd].step = "idle" /\ at'[Wd].ret \in Returns /\ Wd \in Threads
    BY <1>i, <1>p, <1>t, Zenon DEF Step
  <2> QED
    BY <1>i, <1>p, <2>1, <2>2, <2>3, OrdinaryGoto, Zenon
<1>4. CASE ClosePcInternal
  <2>1. /\ UNCHANGED <<flags, mutex, agent, queued_candidates, connected, lost, loop, media, app, removed, queue>>
        /\ at[Wd].step = "idle" /\ Step(Wd) = "idle"
    BY <1>4, Zenon DEF ClosePcInternal, Step, ice, handle
  <2>2. Hangup(Wd, "idle") \/ UNCHANGED at
    BY <1>4, Zenon DEF ClosePcInternal
  <2> QED
    BY <2>1, <2>2, <1>h, <1>i, Zenon
<1>5. CASE EndSessionInternal
  <2>1. /\ UNCHANGED <<flags, mutex, agent, queued_candidates, connected, lost, loop, media, app, removed, queue>>
        /\ at[Wd].step = "idle" /\ Step(Wd) = "idle"
    BY <1>5, Zenon DEF EndSessionInternal, Step, ice
  <2>2. Hangup(Wd, "destroy_stop") \/ UNCHANGED at
    BY <1>5, Zenon DEF EndSessionInternal, DestroyHandle
  <2> QED
    BY <2>1, <2>2, <1>h, <1>i, Zenon
<1> QED
  BY <1>1, <1>2, <1>3, <1>4, <1>5, <1>p, HangupInv, Zenon DEF ReqStep, WdStep

\* janus_ice_webrtc_free, by the loop or after it, leaves no agent behind, and nothing of it.
LEMMA FreeInv ==
    ASSUME TypeOK, PeerInv, TypeOK', WebrtcFree, queue' = queue,
           \A q \in Threads \ {Loop} : at'[q] = at[q], at'[Loop].step \in {"idle", "dispatch"},
           at'[Loop].ret \in Returns, at'[Loop].step # "idle" => loop' = "running",
           "candidates" \in lost' => loop' # "running",
           lost' \subseteq lost, agent = "none" => "candidates" \in lost' \/ "candidates" \notin lost,
           loop' # "running" => lost' = lost /\ loop # "running", mutex' = mutex, removed' = removed,
           app' = app, media' = media, media = 1 => app # "alive"
    PROVE  PeerInv'
<1>p. Loop \in Threads
  BY ThreadFacts, Zenon
<1>m. \A q \in Threads : ~Holds(q) /\ Step(q) # "setup_agent"
  BY ThreadFacts, Zenon DEF WebrtcFree, Unlocked, PeerInv, LockFacts, Holds
<1>f. ~Is("READY")' /\ ~Is("CLEANING")' /\ agent' = "none" /\ ~connected'
  <2>1. ~Is("READY")' /\ ~Is("CLEANING")'
    BY Zenon DEF WebrtcFree, Is
  <2>2. CASE agent = "none"
    BY <2>1, <2>2, Zenon DEF WebrtcFree, ice, PeerInv, IceFacts
  <2>3. CASE agent # "none"
    BY <2>1, <2>3, Zenon DEF WebrtcFree
  <2> QED
    BY <2>2, <2>3, Zenon
<1>1. HangupOnItsWay'
  BY <1>f, Zenon DEF HangupOnItsWay
<1>2. CandidatesOnTheirWay'
  <2>1. CASE agent = "none"
    BY <2>1, Zenon DEF WebrtcFree, ice, PeerInv, CandidatesOnTheirWay, Queued
  <2>2. CASE agent # "none"
    BY <2>2, Zenon DEF WebrtcFree, CandidatesOnTheirWay
  <2> QED
    BY <2>1, <2>2, Zenon
<1>3. AgentsSound'
  BY <1>f, Zenon DEF AgentsSound
<1>4. MediaInStep'
  BY <1>f, <1>p, Zenon DEF PeerInv, MediaInStep, TypeOK
<1>5. LockFacts'
  <2>1. ASSUME NEW q \in Threads PROVE ~Holds(q)' /\ Step(q)' # "setup_agent" /\ at'[q].ret \in Returns
    <3>1. CASE q = Loop
      BY <3>1, ThreadFacts, Zenon DEF Holds, Step, HangupSteps
    <3>2. CASE q # Loop
      BY <3>2, <1>m, Zenon DEF Holds, Step, PeerInv, LockFacts
    <3> QED
      BY <3>1, <3>2, Zenon
  <2> QED
    BY <2>1, Zenon DEF LockFacts
<1>6. LoopFacts'
  BY <1>f, Zenon DEF PeerInv, LoopFacts, Step
<1>7. IceFacts'
  BY <1>f, Zenon DEF IceFacts
<1> QED
  BY <1>1, <1>2, <1>3, <1>4, <1>5, <1>6, <1>7, Zenon DEF PeerInv

\* The steps of the loop keep the invariant.
LEMMA LoopInv ==
    ASSUME TypeOK, PeerInv, TypeOK', LoopStep
    PROVE  PeerInv'
<1>l. {"idle", "dispatch", "free"} \subseteq Labels
  BY Zenon DEF Labels
<1>p. Loop \in Threads /\ Loop \notin Tasks
  BY ThreadFacts, Zenon
<1>t. at \in AtTypes /\ queue \in Seq(Messages) /\ "idle" \in Returns /\ at[Loop].ret \in Returns
  BY <1>p, TypesSplit, Zenon DEF PeerInv, LockFacts, Returns
<1>r. at[Loop].step # "idle" => loop = "running"
  BY Zenon DEF PeerInv, LoopFacts, Step
<1>g. ASSUME NEW l \in Labels, Goto(Loop, l)
      PROVE  at'[Loop].step = l /\ at'[Loop].ret \in Returns /\ \A q \in Threads \ {Loop} : at'[q] = at[q]
  BY <1>g, <1>p, <1>t, AtGoto, Zenon
<1>o. ASSUME at[Loop].step = "dispatch", UNCHANGED at, QueueKept, FlagsKept, RestKept, mutex' = mutex
      PROVE  PeerInv'
  <2>1. at'[Loop].step = "dispatch" /\ at'[Loop].ret \in Returns /\ \A q \in Threads \ {Loop} : at'[q] = at[q]
    BY <1>o, <1>t, Zenon
  <2>2. loop = "running"
    BY <1>o, <1>r, Zenon
  <2> QED
    BY <1>o, <1>p, <2>1, <2>2, OrdinaryGoto, Zenon
<1>1. CASE LoopDispatch
  <2>1. at'[Loop].step = "dispatch" /\ at'[Loop].ret \in Returns /\ \A q \in Threads \ {Loop} : at'[q] = at[q]
    BY <1>1, <1>l, <1>g, Zenon DEF LoopDispatch
  <2>2. FlagsKept
    BY <1>1, Zenon DEF LoopDispatch, FlagsKept, Is, shared
  <2>r. RestKept
    BY <1>1, Zenon DEF LoopDispatch, RestKept, ice, outside
  <2>3. QueueKept
    BY <1>1, QueueSame, Zenon DEF LoopDispatch, ice
  <2>4. at[Loop].step = "idle" /\ loop = "running" /\ mutex' = mutex
    BY <1>1, Zenon DEF LoopDispatch, LoopIdle, Step, shared
  <2> QED
    BY <1>p, <2>1, <2>2, <2>r, <2>3, <2>4, OrdinaryGoto, Zenon
<1>2. CASE LoopGather
  <2>1. \A x \in {"hangup", "candidates"} : Queued(x) => Queued(x)'
    BY <1>2, <1>t, QueuePop, Zenon DEF LoopGather
  <2>2. /\ at[Loop].step = "dispatch" /\ loop = "running"
        /\ Step(Loop) \notin HangupSteps \cup {"free"}
        /\ UNCHANGED <<flags, mutex, agent, queued_candidates, connected, lost, loop, media, app, removed>>
    BY <1>2, <1>r, Zenon DEF LoopGather, Pop, Step, HangupSteps, handle, outside
  <2>3. CASE UNCHANGED at
    <3>1. QueueKept
      BY <2>1, <2>2, QueueMore, Zenon
    <3>2. FlagsKept /\ RestKept
      BY <2>2, Zenon DEF FlagsKept, RestKept, Is
    <3> QED
      BY <3>1, <3>2, <2>2, <2>3, <1>o, Zenon
  <2>4. CASE Hangup(Loop, "dispatch")
    BY <2>4, <2>1, <2>2, <1>p, <1>t, OrdinaryHangup, Zenon
  <2> QED
    BY <1>2, <2>3, <2>4, Zenon DEF LoopGather
<1>3. CASE LoopCandidates
  <2>1. Queued("hangup") => Queued("hangup")'
    BY <1>3, <1>t, QueuePop, SMTT(40) DEF LoopCandidates
  <2>2. QueueKept
    BY <1>3, <2>1, Zenon DEF LoopCandidates, QueueKept
  <2>3. FlagsKept /\ RestKept
    BY <1>3, Zenon DEF LoopCandidates, FlagsKept, RestKept, Is, shared, handle, outside
  <2>4. at[Loop].step = "dispatch" /\ UNCHANGED at /\ mutex' = mutex
    BY <1>3, Zenon DEF LoopCandidates, Pop, Step, shared
  <2> QED
    BY <2>2, <2>3, <2>4, <1>o, Zenon
<1>4. CASE LoopHandshake
  <2>1. \A x \in {"hangup", "candidates"} : Queued(x) => Queued(x)'
    BY <1>4, <1>t, QueuePop, Zenon DEF LoopHandshake
  <2>2. QueueKept
    BY <1>4, <2>1, QueueMore, Zenon DEF LoopHandshake
  <2>3. FlagsKept /\ RestKept
    BY <1>4, Zenon DEF LoopHandshake, FlagsKept, RestKept, Is, shared, handle, outside
  <2>4. at[Loop].step = "dispatch" /\ UNCHANGED at /\ mutex' = mutex
    BY <1>4, Zenon DEF LoopHandshake, Pop, Step, shared
  <2> QED
    BY <2>2, <2>3, <2>4, <1>o, Zenon
<1>5. CASE LoopHangup
  <2>1. at'[Loop].step = "free" /\ at'[Loop].ret \in Returns /\ \A q \in Threads \ {Loop} : at'[q] = at[q]
    BY <1>5, <1>l, <1>g, Zenon DEF LoopHangup
  <2>2. Queued("candidates") => Queued("candidates")'
    BY <1>5, <1>t, QueuePop DEF LoopHangup
  <2>3. at[Loop].step = "dispatch" /\ loop = "running"
    BY <1>5, <1>r, Zenon DEF LoopHangup, Pop, Step
  <2>4. UNCHANGED <<flags, mutex, agent, queued_candidates, connected, lost, loop, app, removed>>
    BY <1>5, Zenon DEF LoopHangup, shared, ice, outside
  <2>f. Step(Loop)' = "free" /\ Coming' /\ \A x : Is(x)' <=> Is(x)
    BY <2>1, <2>4, Zenon DEF Step, Coming, Is
  <2>5. HangupOnItsWay'
    BY <2>f, Zenon DEF HangupOnItsWay
  <2>6. CandidatesOnTheirWay'
    BY <2>2, <2>4, Zenon DEF PeerInv, CandidatesOnTheirWay
  <2>7. AgentsSound'
    BY <2>1, <2>4, <2>f, Zenon DEF PeerInv, AgentsSound, Step
  <2>8. MediaInStep'
    <3>1. media' = IF app # "detached" THEN 0 ELSE media
      BY <1>5, Zenon DEF LoopHangup
    <3> QED
      BY <3>1, <2>4, <2>f DEF PeerInv, MediaInStep
  <2>9. LockFacts'
    <3>1. ASSUME NEW q \in Threads
          PROVE  (Holds(q)' => mutex' = q) /\ (Step(q)' = "setup_agent" => Is("HAS_AGENT")') /\ at'[q].ret \in Returns
      <4>1. CASE q = Loop
        BY <4>1, <1>p, <2>1, Zenon DEF Holds, Step, HangupSteps
      <4>2. CASE q # Loop
        BY <4>2, <2>1, <2>4, <2>f, Zenon DEF Holds, Step, PeerInv, LockFacts
      <4> QED
        BY <4>1, <4>2, Zenon
    <3> QED
      BY <3>1, <2>f, Zenon DEF LockFacts
  <2>10. LoopFacts' /\ IceFacts'
    BY <2>3, <2>4, <2>f, Zenon DEF PeerInv, LoopFacts, IceFacts
  <2> QED
    BY <2>5, <2>6, <2>7, <2>8, <2>9, <2>10, Zenon DEF PeerInv
<1>6. CASE LoopFree
  <2>1. at'[Loop].step = "dispatch" /\ at'[Loop].ret \in Returns /\ \A q \in Threads \ {Loop} : at'[q] = at[q]
    BY <1>6, <1>l, <1>g, Zenon DEF LoopFree
  <2>2. at[Loop].step = "free" /\ loop = "running" /\ Step(Loop) = "free"
    BY <1>6, <1>r, Zenon DEF LoopFree, Step
  <2>3. WebrtcFree /\ lost' = lost \cap {"detach"} /\ UNCHANGED <<mutex, queue, app, media, loop, removed>>
    BY <1>6, Zenon DEF LoopFree, handle
  <2>4. media = 1 => app # "alive"
    BY <2>2, Zenon DEF PeerInv, MediaInStep
  <2>5. agent = "none" => "candidates" \notin lost
    BY <2>2, Zenon DEF PeerInv, IceFacts
  <2>6. lost' \subseteq lost /\ "candidates" \notin lost'
    BY <2>3, Zenon
  <2> QED
    BY <2>1, <2>2, <2>3, <2>4, <2>5, <2>6, FreeInv, Zenon
<1>7. CASE LoopDetach
  <2>1. \A x \in {"hangup", "candidates"} : Queued(x) => Queued(x)'
    BY <1>7, <1>t, QueuePop, Zenon DEF LoopDetach
  <2>2. QueueKept
    BY <1>7, <2>1, QueueMore, Zenon DEF LoopDetach, ice
  <2>3. FlagsKept
    BY <1>7, Zenon DEF LoopDetach, FlagsKept, Is, shared
  <2>r. RestKept
    BY <1>7, Zenon DEF LoopDetach, RestKept, ice, outside
  <2>4. at[Loop].step = "dispatch" /\ UNCHANGED at /\ mutex' = mutex
    BY <1>7, Zenon DEF LoopDetach, Pop, Step, shared
  <2> QED
    BY <2>2, <2>3, <2>r, <2>4, <1>o, Zenon
<1>8. CASE LoopEmpty
  <2>1. at'[Loop].step = "idle" /\ at'[Loop].ret \in Returns /\ \A q \in Threads \ {Loop} : at'[q] = at[q]
    BY <1>8, <1>l, <1>g, Zenon DEF LoopEmpty
  <2>2. at[Loop].step = "dispatch" /\ loop = "running" /\ loop' = IF removed THEN "quit" ELSE "running"
    BY <1>8, <1>r, Zenon DEF LoopEmpty, Step
  <2>3. UNCHANGED <<flags, mutex, agent, queued_candidates, connected, queue, lost, media, app, removed>>
    BY <1>8, Zenon DEF LoopEmpty, shared, ice, outside
  <2>4. CASE ~removed
    <3>1. FlagsKept /\ RestKept
      BY <2>2, <2>3, <2>4, Zenon DEF FlagsKept, RestKept, Is
    <3>2. QueueKept
      BY <2>3, QueueSame, Zenon
    <3> QED
      BY <1>p, <2>1, <2>2, <2>3, <3>1, <3>2, OrdinaryGoto, Zenon
  <2>5. CASE removed
    <3>f. /\ loop' = "quit" /\ Coming' /\ (\A x : Is(x)' <=> Is(x)) /\ (\A x : Queued(x)' <=> Queued(x))
          /\ Step(Loop)' = "idle" /\ Step(Loop) = "dispatch"
      BY <2>1, <2>2, <2>3, <2>5, Zenon DEF Coming, Is, Queued, Step
    <3>1. HangupOnItsWay' /\ CandidatesOnTheirWay'
      BY <3>f, <2>3, Zenon DEF PeerInv, HangupOnItsWay, CandidatesOnTheirWay
    <3>2. AgentsSound'
      BY <3>f, <2>1, <2>3, Zenon DEF PeerInv, AgentsSound, Step
    <3>3. MediaInStep'
      BY <3>f, <2>3, Zenon DEF PeerInv, MediaInStep
    <3>4. LockFacts'
      <4>1. ASSUME NEW q \in Threads
            PROVE  (Holds(q)' => mutex' = q) /\ (Step(q)' = "setup_agent" => Is("HAS_AGENT")') /\ at'[q].ret \in Returns
        <5>1. CASE q = Loop
          BY <5>1, <1>p, <2>1, Zenon DEF Holds, Step, HangupSteps
        <5>2. CASE q # Loop
          BY <5>2, <2>1, <2>3, <3>f, Zenon DEF Holds, Step, PeerInv, LockFacts
        <5> QED
          BY <5>1, <5>2, Zenon
      <4> QED
        BY <4>1, <3>f, Zenon DEF LockFacts
    <3>5. LoopFacts' /\ IceFacts'
      BY <3>f, <2>3, <2>5, Zenon DEF PeerInv, LoopFacts, IceFacts
    <3> QED
      BY <3>1, <3>2, <3>3, <3>4, <3>5, Zenon DEF PeerInv
  <2> QED
    BY <2>4, <2>5, Zenon
<1>9. CASE LoopEnd
  <2>1. WebrtcFree /\ loop = "quit" /\ loop' = "ended" /\ UNCHANGED <<mutex, queue, app, media, removed, lost, at>>
    BY <1>9, Zenon DEF LoopEnd, outside
  <2>2. at[Loop].step = "idle" /\ app # "alive"
    BY <2>1, <1>r, Zenon DEF PeerInv, LoopFacts
  <2> QED
    BY <2>1, <2>2, <1>t, FreeInv, Zenon
<1> QED
  BY <1>1, <1>2, <1>3, <1>4, <1>5, <1>6, <1>7, <1>8, <1>9, <1>p, HangupInv, Zenon DEF LoopStep

\* The first selected pair keeps the invariant: what it clears from the queue is recorded.
LEMMA PairInv ==
    ASSUME TypeOK, PeerInv, NewSelectedPair
    PROVE  PeerInv'
<1>1. /\ UNCHANGED <<at, flags, mutex, agent, queued_candidates, loop, app, media, removed>>
      /\ agent = "ok" /\ lost \subseteq lost'
  BY Zenon DEF NewSelectedPair, shared, handle
<1>2. \A x \in {"hangup", "candidates"} : Queued(x) => x \in lost'
  BY Zenon DEF NewSelectedPair, Queued, Losable
<1>3. HangupOnItsWay'
  BY <1>1, <1>2, Zenon DEF PeerInv, HangupOnItsWay, Is, Step
<1>4. CandidatesOnTheirWay'
  BY <1>1, <1>2, Zenon DEF PeerInv, CandidatesOnTheirWay
<1>5. AgentsSound' /\ \A p \in Threads : Step(p)' # "setup_agent"
  BY <1>1, Zenon DEF PeerInv, AgentsSound, Is, Step
<1>6. MediaInStep' /\ LoopFacts'
  BY <1>1, Zenon DEF PeerInv, MediaInStep, LoopFacts, Is, Step
<1>7. LockFacts'
  BY <1>1, <1>5, Zenon DEF PeerInv, LockFacts, Holds, Step
<1>8. IceFacts'
  BY <1>1, Zenon DEF IceFacts
<1> QED
  BY <1>3, <1>4, <1>5, <1>6, <1>7, <1>8, Zenon DEF PeerInv

\* The end of the handshake keeps the invariant: the plugin is told of the media once.
LEMMA HandshakeInv ==
    ASSUME TypeOK, PeerInv, HandshakeDone
    PROVE  PeerInv'
<1>1. /\ UNCHANGED <<at, mutex, agent, queued_candidates, connected, queue, loop, app, removed, lost>>
      /\ connected /\ Step(Loop) = "idle" /\ flags' = flags \cup {"READY"}
      /\ media' = IF ~Is("READY") /\ app = "alive" THEN media + 1 ELSE media
  BY Zenon DEF HandshakeDone, LoopIdle, outside
<1>2. Is("READY")' /\ \A x : x # "READY" => (Is(x)' <=> Is(x))
  BY <1>1, Zenon DEF Is
<1>3. (\A x : Queued(x)' <=> Queued(x)) /\ (\A p : Step(p)' = Step(p)) /\ (Coming' <=> Coming) /\ (\A p : Holds(p)' <=> Holds(p))
  BY <1>1, Zenon DEF Queued, Step, Coming, Holds
<1>4. HangupOnItsWay' /\ CandidatesOnTheirWay' /\ AgentsSound' /\ LoopFacts'
  BY <1>1, <1>2, <1>3, ZenonT(40) DEF PeerInv, HangupOnItsWay, CandidatesOnTheirWay, AgentsSound, LoopFacts
<1>5. MediaInStep'
  <2>1. media \in Nat /\ media <= 1 /\ (app = "alive" => (media = 1 <=> Is("READY") /\ Step(Loop) # "free"))
    BY Zenon DEF TypeOK, PeerInv, MediaInStep
  <2>2. CASE Is("READY") \/ app # "alive"
    BY <2>1, <2>2, <1>1, <1>2, <1>3, Zenon DEF MediaInStep
  <2>3. CASE ~Is("READY") /\ app = "alive"
    <3>1. media = 0 /\ media' = 1
      BY <2>1, <2>3, <1>1
    <3> QED
      BY <3>1, <1>1, <1>2, <1>3 DEF MediaInStep
  <2> QED
    BY <2>2, <2>3, Zenon
<1>6. LockFacts'
  BY <1>1, <1>2, <1>3, Zenon DEF PeerInv, LockFacts
<1>7. IceFacts'
  BY <1>1, Zenon DEF PeerInv, IceFacts
<1> QED
  BY <1>4, <1>5, <1>6, <1>7, Zenon DEF PeerInv

\* What the peer, the plugin and the network bring about keeps the invariant.
LEMMA InputInv ==
    ASSUME TypeOK, PeerInv, TypeOK', Input
    PROVE  PeerInv'
<1>l. {"idle", "cleaning", "trickle", "got_answer", "gather"} \subseteq Labels
  BY Zenon DEF Labels
<1>p. Tasks \subseteq Threads /\ {Plug, Req, Loop} \subseteq Threads /\ Loop \notin Tasks /\ Plug \notin Tasks
      /\ Req \notin Tasks /\ Plug # Loop /\ Req # Loop
  BY ThreadFacts, Zenon
<1>t. at \in AtTypes /\ "idle" \in Returns /\ \A p \in Threads : at[p].ret \in Returns
  BY TypesSplit, Zenon DEF PeerInv, LockFacts, Returns
<1>s. ASSUME NEW p \in Threads \ {Loop}, at[p].step = "idle", at'[p].ret \in Returns,
             \A q \in Threads \ {p} : at'[q] = at[q], at'[p].step \in {"cleaning", "trickle", "got_answer", "gather"},
             p \in Tasks => at'[p].step # "got_answer", FlagsKept,
             UNCHANGED <<mutex, agent, queued_candidates, connected, lost, loop, media, app, removed, queue>>
      PROVE  PeerInv'
  <2>1. RestKept
    BY <1>s, Zenon DEF RestKept
  <2>2. QueueKept
    BY <1>s, QueueSame, Zenon
  <2> QED
    BY <1>s, <2>1, <2>2, OrdinaryGoto, Zenon
<1>h. ASSUME NEW p \in {Req, Loop}, NEW b \in {"idle", "destroy_stop"}, Hangup(p, b), at[p].step = "idle",
             p = Loop => loop = "running",
             UNCHANGED <<flags, mutex, agent, queued_candidates, connected, lost, loop, media, app, removed, queue>>
      PROVE  PeerInv'
  <2>1. p \in Threads /\ at[p].ret \in Returns /\ Step(p) \notin HangupSteps \cup {"free"}
    BY <1>h, <1>p, <1>t, Zenon DEF Step, HangupSteps
  <2>2. \A x \in {"hangup", "candidates"} : Queued(x) => Queued(x)'
    BY <1>h, Zenon DEF Queued
  <2> QED
    BY <1>h, <2>1, <2>2, OrdinaryHangup, Zenon
<1>i. ASSUME UNCHANGED <<at, flags, mutex, agent, queued_candidates, connected, lost, loop, media, app, removed, queue>>
      PROVE  PeerInv'
  BY <1>i, ZenonT(40) DEF PeerInv, HangupOnItsWay, CandidatesOnTheirWay, AgentsSound, MediaInStep, LockFacts, LoopFacts,
              IceFacts, Holds, Coming, Queued, Is, Step
<1>1. ASSUME NEW p \in Tasks, NEW type \in {"offer", "answer"}, Message(p, type)
      PROVE  PeerInv'
  <2>1. at'[p].step = "cleaning" /\ at'[p].ret = "idle" /\ \A q \in Threads \ {p} : at'[q] = at[q]
    <3>1. Begin(p, "cleaning", type, FALSE) /\ p \in Threads /\ "cleaning" \in Labels
      BY <1>1, <1>l, <1>p, Zenon DEF Message
    <3> QED
      BY <3>1, <1>t, AtBegin, ZenonT(40)
  <2>2. /\ at[p].step = "idle" /\ FlagsKept
        /\ UNCHANGED <<mutex, agent, queued_candidates, connected, lost, loop, media, app, removed, queue>>
    BY <1>1, Zenon DEF Message, Step, FlagsKept, Is, shared, ice, handle
  <2> QED
    BY <2>1, <2>2, <1>p, <1>t, <1>s, Zenon
<1>2. CASE Trickle
  <2>1. at'[Req].step = "trickle" /\ at'[Req].ret \in Returns /\ \A q \in Threads \ {Req} : at'[q] = at[q]
    BY <1>2, <1>l, <1>p, <1>t, AtGoto, Zenon DEF Trickle
  <2>2. /\ at[Req].step = "idle" /\ FlagsKept
        /\ UNCHANGED <<mutex, agent, queued_candidates, connected, lost, loop, media, app, removed, queue>>
    BY <1>2, Zenon DEF Trickle, Step, FlagsKept, Is, shared, ice, handle, outside
  <2> QED
    BY <2>1, <2>2, <1>p, <1>s, Zenon
<1>3. CASE HangupRequest
  <2>1. /\ at[Req].step = "idle" /\ Hangup(Req, "idle")
        /\ UNCHANGED <<flags, mutex, agent, queued_candidates, connected, lost, loop, media, app, removed, queue>>
    BY <1>3, Zenon DEF HangupRequest, Step, ice, handle, outside
  <2> QED
    BY <2>1, <1>p, <1>h, Zenon
<1>4. CASE DetachRequest
  <2>1. /\ at[Req].step = "idle" /\ Hangup(Req, "destroy_stop")
        /\ UNCHANGED <<flags, mutex, agent, queued_candidates, connected, lost, loop, media, app, removed, queue>>
    BY <1>4, Zenon DEF DetachRequest, DestroyHandle, Step, ice, outside
  <2> QED
    BY <2>1, <1>p, <1>h, Zenon
<1>5. CASE PluginAnswer
  <2>1. /\ at'[Plug].step \in {"got_answer", "gather"} /\ at'[Plug].ret = "idle"
        /\ \A q \in Threads \ {Plug} : at'[q] = at[q]
    BY <1>5, <1>l, <1>p, <1>t, AtBegin, Zenon DEF PluginAnswer
  <2>2. FlagsKept
    BY <1>5, Zenon DEF PluginAnswer, FlagsKept, Is
  <2>3. /\ at[Plug].step = "idle"
        /\ UNCHANGED <<mutex, agent, queued_candidates, connected, lost, loop, media, app, removed, queue>>
    BY <1>5, Zenon DEF PluginAnswer, Step, ice, handle
  <2> QED
    BY <2>1, <2>2, <2>3, <1>p, <1>t, <1>s, Zenon
<1>6. CASE PluginOffer
  <2>1. at'[Plug].step = "cleaning" /\ at'[Plug].ret = "idle" /\ \A q \in Threads \ {Plug} : at'[q] = at[q]
    BY <1>6, <1>l, <1>p, <1>t, AtBegin, Zenon DEF PluginOffer
  <2>2. FlagsKept
    BY <1>6, Zenon DEF PluginOffer, OfferFlags, FlagsKept, Is
  <2>3. /\ at[Plug].step = "idle"
        /\ UNCHANGED <<mutex, agent, queued_candidates, connected, lost, loop, media, app, removed, queue>>
    BY <1>6, Zenon DEF PluginOffer, Step, ice, handle, outside
  <2> QED
    BY <2>1, <2>2, <2>3, <1>p, <1>t, <1>s, Zenon
<1>7. CASE PluginClosePc \/ PluginEndSession
  BY <1>7, <1>i, Zenon DEF PluginClosePc, PluginEndSession, shared, ice, handle
<1>8. CASE GatheringDone
  BY <1>8, <1>i, Zenon DEF GatheringDone, shared, handle, outside
<1>9. CASE CheckFailed \/ DtlsFailed
  <2>1. /\ at[Loop].step = "idle" /\ Hangup(Loop, "idle") /\ loop = "running"
        /\ UNCHANGED <<flags, mutex, agent, queued_candidates, connected, lost, loop, media, app, removed, queue>>
    BY <1>9, Zenon DEF CheckFailed, DtlsFailed, LoopIdle, Step, ice, handle, outside
  <2> QED
    BY <2>1, <1>p, <1>h, Zenon
<1> QED
  BY <1>1, <1>2, <1>3, <1>4, <1>5, <1>6, <1>7, <1>8, <1>9, PairInv, HandshakeInv, Zenon DEF Input

-----------------------------------------------------------------------------
(* The theorems *)

\* A handle starts without agent, messages or media.
LEMMA PeerInit == Init => PeerInv
<1> SUFFICES ASSUME Init PROVE PeerInv
  BY Zenon
<1>1. \A p \in Threads : at[p].step = "idle" /\ at[p].ret = "idle"
  BY Zenon DEF Init, Idle
<1>2. /\ flags = {} /\ agent = "none" /\ ~connected /\ ~queued_candidates /\ lost = {} /\ media = 0
      /\ loop = "running" /\ ~removed /\ Loop \in Threads
  BY ThreadFacts, Zenon DEF Init
<1>3. HangupOnItsWay /\ CandidatesOnTheirWay /\ AgentsSound /\ MediaInStep
  BY <1>1, <1>2, SMTT(40) DEF HangupOnItsWay, CandidatesOnTheirWay, AgentsSound, MediaInStep, Is
<1>4. LockFacts
  BY <1>1, Zenon DEF LockFacts, Holds, Step, HangupSteps, Returns
<1>5. LoopFacts /\ IceFacts
  BY <1>1, <1>2, Zenon DEF LoopFacts, IceFacts, Is, Step
<1> QED
  BY <1>3, <1>4, <1>5, Zenon DEF PeerInv

\* Every step keeps the invariant: one case per kind of thread.
LEMMA PeerStep == TypeOK /\ PeerInv /\ [Next]_vars => PeerInv'
<1> SUFFICES ASSUME TypeOK, PeerInv, [Next]_vars PROVE PeerInv'
  BY Zenon
<1>t. TypeOK'
  BY TypeStep, Zenon
<1>1. CASE Next
  BY <1>1, <1>t, InputInv, TaskInv, PlugInv, RequestInv, LoopInv DEF Next
<1>2. CASE UNCHANGED vars
  <2>1. UNCHANGED <<at, flags, mutex, agent, queued_candidates, connected, lost, loop, media, app, removed, queue>>
    BY <1>2, SMTT(40) DEF vars, shared, ice, handle, outside
  <2> QED
    BY <2>1, ZenonT(40) DEF PeerInv, HangupOnItsWay, CandidatesOnTheirWay, AgentsSound, MediaInStep, LockFacts, LoopFacts,
                IceFacts, Holds, Coming, Queued, Is, Step
<1> QED
  BY <1>1, <1>2, Zenon

\* The invariant always holds.
LEMMA PeerAlways == Spec => []PeerInv
BY PeerInit, PeerStep, TypesCorrect, PTL DEF Spec

\* janus_ice_webrtc_hangup: while others wait for a hangup (CLEANING), its message is in the queue or
\* the loop is at it or about to end, or the first selected pair cleared it from the queue.
THEOREM HangupsArrive == Spec => []HangupOnItsWay
BY PeerAlways, PTL DEF PeerInv

\* Remote candidates queued for the loop have a message in the queue that makes the loop take them,
\* unless the first selected pair cleared it.
THEOREM CandidatesArrive == Spec => []CandidatesOnTheirWay
BY PeerAlways, PTL DEF PeerInv

\* janus_ice_setup_local never overwrites an agent that works, and an agent whose setup failed has a
\* hangup coming that frees it, whatever threads do between its steps.
THEOREM AgentsSafe == Spec => []AgentsSound
BY PeerAlways, PTL DEF PeerInv

\* The plugin is told in turns of the media's setup and of its hangup, as READY says.
THEOREM MediaTold == Spec => []MediaInStep
BY PeerAlways, PTL DEF PeerInv
=============================================================================
