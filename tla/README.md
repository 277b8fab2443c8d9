# A TLA+ model of the Janus gateway

Janus is a WebRTC server: *transports* (HTTP, WebSockets, Unix sockets, message
brokers) bring the requests of clients, the *core* keeps sessions and the handles
attached to them and negotiates a PeerConnection for each handle, and *plugins*
do something with the media. This directory holds TLA+ modules of its parts,
translated from the C sources in `src/`, the TLC configurations that check them
on small instances, and proofs that TLAPS checks.

## The system

| Part | State | Operations | Who runs them |
|------|-------|------------|---------------|
| Core sessions (`janus.c`) | the `sessions` table; per session its counter, flags `destroyed`, `timeout`, `transport_gone`, `last_activity`, `source`, table of handles | create, find, attach, detach, claim, destroy, message, keepalive; `janus_check_sessions`; `janus_transport_gone`; `janus_plugin_end_session`, `janus_plugin_close_pc` | the requests thread; a pool of tasks for messages; the watchdog; the transports' threads; the plugins' threads |
| Handles (`ice.c`) | counter, `destroyed`, plugin session (`app_handle`, with its own counter and `stopped`), event loop, queue of packets and control messages, WebRTC flags, streams and components | create, attach, destroy, free; hangup, `janus_ice_webrtc_free`; SDP and candidates; relaying; NACKs | the above, and one loop per handle |
| DTLS, SCTP (`dtls.c`, `sctp.c`) | handshake state, retransmission timer; channels and streams | handshake, alerts, incoming and outgoing messages | the handle's loop |
| RTP, RTCP (`rtp.c`, `rtcp.c`) | sequence numbers and timestamps across switches, simulcast contexts, loss statistics | header update, simulcast relay choice, NACK and feedback building | the handle's loop, plugins |
| SDP (`sdp.c`, `sdp-utils.c`) | none | offer, answer, merge | the thread that negotiates |
| Transports (`transports/`) | clients and their outgoing messages | receive, send, `session_over`, close | their service threads, and any thread of the core that sends |
| Events (`events.c`, `events/`) | a queue of events | notify, dispatch | any; the events thread |
| Recorder, logger, tokens (`record.c`, `log.c`, `auth.c`) | a file; a ring of buffers; a table | open, save, close; print, flush; add, allow, check | any |
| Plugins (`plugins/`) | their sessions, rooms, mountpoints | their requests and media callbacks | tasks, loops, their own threads |

What makes the server hard to get right is that a session, a handle and a plugin
session live in four kinds of threads at once, with no lock over all of it: each
thread holds counted references, flags are compared and set, and the end of a
handle is only a message to its loop. The hazards this leads to are listed in
`PROJECT.json`, each at its line.

## Modules

### Sessions

`Sessions.tla` models the lifecycle of sessions and handles. Objects are
allocated once: a counter that gets to 0 is an object that was freed, and using
it after that is an error the invariants see.

| Variable | Code |
|----------|------|
| `table`, `sid` | the `sessions` hash table, `session->session_id` |
| `sref`, `href`, `pref` | the counters of sessions, handles and plugin sessions |
| `sdestroyed`, `timeout`, `transport_gone`, `idle`, `source` | the fields of a session; `idle` is the time since `last_activity` |
| `hsess`, `hdestroyed`, `listed` | a handle's session, its `destroyed` flag, its entry in `ice_handles` |
| `app` | the plugin session: `none`, `alive` (in `plugin_sessions`), `stopped` (removed from there, detach queued), `detached` |
| `plugged`, `ending` | references of the plugin, and of a pending `end_session` callback |
| `loop` | the handle's loop: `running` (source and thread), `quit` (source finalized), `ended`; `dead` when its thread could not be created |
| `sessions_mutex`, `pc`, `lsess`, `lhnd`, `from`, `todo` | the owner of the lock, each thread's next step and local variables, the iterator over the table |

Each action is what a thread does between two points where another can see or
change what it uses. A section under `session->mutex` is one action; the long
ones under `sessions_mutex`, which call out and take other locks, are several.
`CreateSession`/`CreateSource`, `AttachCreate`/`AttachPlugin`/`AttachLoop`,
`DestroyRemove`/`DestroyMark`/`DestroyHandles`, `Message`/`Deliver`,
`WdCheck`/`WdClear`/`WdRemove`/`WdDestroy` and
`TgCheck`/`TgFlag`/`TgMark`/`TgClear`/`TgRemove` follow the code's order.

Abstractions: identifiers are taken from a set instead of drawn at random; time
is the number of `Tick`s since the last activity, up to the larger of the two
timeouts; the Admin API is the part of it that touches sessions; the handle's
media is left out. Two switches say what the environment may do: `SlowRequests`
lets time pass while a request is served, `LateRequests` lets a request be
served after its transport is gone (requests wait in a queue).

#### Runs

| Run | Checks | Instance |
|-----|--------|----------|
| `sessions_safety` | `TypeOK`, `RefsExact` (every counter is the number of its holders), `NoUseAfterFree`, `TableSound`, `NoLostSession` | one identifier for two session objects (so that it is used again), one handle, one transport, requests thread, one task; sessions time out after one tick and are not kept for a claim, so that `janus_transport_gone` destroys them itself; both failures of an attach |
| `sessions_liveness` | `AbandonedReaped`, `DestroyedFreed` | one session, one handle, one transport, timeouts 2 and 1: sessions are flagged and the watchdog takes them, in two passes |
| `sessions_failed_attach` | `EveryHandleFreed`, with a counterexample: see the findings | one session, one handle |

Bounds: the counters are bounded by the holders there are, and nothing else
grows. Two session objects with one identifier are what a stale identifier
needs; one handle is enough for the counters of handles and plugin sessions,
whose holders do not depend on other handles.

Fairness (`FairSpec`): threads that have started go on (weak fairness; strong
for those that wait for `sessions_mutex`), the watchdog's timer fires and its pass goes on
(`Pass`) however many ends of sessions are queued on its loop, loops run, the plugin
drops its reference once its `destroy_session` was called, and time passes.
Nobody is obliged to send a request, and no transport has to go away. Strong
fairness is an assumption on the scheduler: POSIX does not promise that a thread gets
a mutex that is free again and again.

#### Proofs

Four modules hold the proofs: `SessionsCounters.tla` (the inductive invariants, and what a step
does to a count), `SessionsTable.tla` (types and the table), `SessionsRefs.tla` (the counters) and
`SessionsProofs.tla` (the theorems). They hold for every value of the constants, from the
assumptions of `Sessions.tla`: threads are distinct, the null values are not objects, `Hnds` and
`Tasks` are finite, the timeouts are numbers.

- `TypeCorrect`: `Spec => []TypeOK`. `TypeOK` is inductive because it also says which locals a
  thread has at each step: an action at `destroy_clear`, say, has a session to clear.
- `TableCorrect` and `SessionsFound`: `TableSound` and `NoLostSession`. Neither is inductive:
  whether a thread may remove an entry depends on what it looked up before. `TableInv` adds
  `MutexSound` (a thread inside a section with `sessions_mutex` owns it) and `Located`: the sessions
  threads are at were created, the identifier of the session the requests thread is at leads to
  that session or nowhere (only that thread creates sessions, so no other can get the identifier),
  and a transport's thread that clears or removes a session has marked it. Most actions touch
  neither the table nor threads at such steps and are dealt with by one lemma, `StillTable`.
- `RefsCorrect` and `MemorySafe`: `RefsExact` and `NoUseAfterFree`. A counter that is exact now stays
  exact only if a step that drops a reference had one. `RefsInv` therefore adds to `TableInv` and
  `RefsExact`: `HandleFacts` (a handle that is new is in no table, what a handle has at each stage
  of its attach, that a request has no handle before it looked one up), `DestroyFacts` (a session is
  cleared by the one thread that marked it, and what an iterator has yet to visit is in the table
  and not destroyed), `CreationFacts` (between the insertion of a session and the reference its
  request takes, no other thread is at it) and `TaskFacts` (tasks create no sessions).
  `CreationFacts` rests on a modelling decision: the clock does not tick between these two steps,
  so the watchdog does not find a session timed out that was made just now (`src/janus.c:1042`
  below). `NoUseAfterFree` then follows without an induction: each
  use is one of the holders that a counter adds up, so the counter is not 0 (`RefsEnough`).

A counter is compared with the cardinalities of sets of holders. A step changes such a set by one
element, and `CountStep`, `UsersStep`, `HandleUsersStep` say what this does to the count. The facts of
finite sets they need are collected in `CountLaws`, a hypothesis of these lemmas that
`SessionsProofs` discharges (`CountsHold`) from the library's theorems; the theorems do not
depend on it.

### PfUnix

`PfUnix.tla` composes the Unix sockets transport (`janus_pfunix.c`) with the part
of the core that calls it and that it calls. Its thread builds a poll list,
waits, and handles one event after the other; the requests thread, the watchdog
and a plugin's thread send messages and end sessions.

| Variable | Code |
|----------|------|
| `peer`, `inbox` | the other end of a client's socket, data to read (external) |
| `fd`, `clients`, `freed`, `messages`, `session_timeout`, `tsref` | a client's descriptor, its entry in the tables, its memory, its queue, its flag, the counter of its transport instance |
| `wake`, `pollin`, `pollout`, `revents` | the wake-up socket pair, the poll list and what `poll` returned |
| `clients_mutex`, `sessions_mutex` | their owners |
| `requests`, `sess`, `source`, `transport_gone` | the core's queue of requests, its sessions and what they refer to |
| `pc`, `lc`, `ls` | per thread: next step, client, session |

`PfPrepare` to `PfRound` are one iteration of `janus_pfunix_thread`, with `PfIn`,
`PfOut`, `PfHup`/`PfGone`/`PfClose`, `PfWake` and `PfAccept` for the events;
`SendCheck`/`SendPush`/`SendWake` are `janus_pfunix_send_message`; the `Wd`
actions are `janus_check_sessions` with the calls it makes under
`sessions_mutex`. A client without a descriptor (`SOCK_DGRAM`) is a member of
`Dgrams`.

| Run | Checks | Instance |
|-----|--------|----------|
| `pfunix_safety` | `TypeOK`, `InstanceRefsEnough`, `TablesSound`, `NoLostWakeup` | a client of each kind, one session, with session timeouts and claims; a client sends its next message when its last was served |
| `pfunix_liveness` | `InstanceRefsExact`, `SendsToValid`; `MessagesWritten`, `HungUpRemoved`, `Stops` | one client that may close in both ways, no session timeouts, the transport may be shut down |
| `pfunix_deadlock` | `HungUpRemoved`, with a counterexample: see the findings | one client, with session timeouts |

With session timeouts only `InstanceRefsEnough` holds, not `InstanceRefsExact`: a
client that is closed for a timeout is freed at once, without its own reference being
dropped. For the same reason `SendsToValid` is checked without session timeouts only.
With them it does not hold, since the client is freed whatever refers to it: these
runs do not show that a send is safe then (a hazard in `PROJECT.json`). Bounds: a client has at most
one message to read and one request in the queue, and `messages` says whether a
queue is empty; the order of messages is not modelled. In `pfunix_safety` a client
does not send while its message is being served (`Pipelining`); in the others it does.
A pass of the watchdog over an empty table is left out, as it changes nothing. Two clients are what it takes
for the thread to be at one while another changes.

Fairness (`FairSpec`): the transport's and the requests thread do what there is to do,
the watchdog and a plugin's thread go on once they have begun, each with strong
fairness because they wait for locks, and `janus_pfunix_init` ends. Clients, events,
the freeing of a session and the shutdown are not obliged to come. Deadlock is not
checked: a server nobody talks to waits.

#### Proofs

`PfUnixRefs.tla` and `PfUnixProofs.tla` prove, for any sets of clients and of sessions (sessions
finite) and every setting of the options: `TypesCorrect` (`TypeOK`), `RefsEnough`
(`InstanceRefsEnough`), `TablesCorrect` (`TablesSound`) and `WakeupsKept` (`NoLostWakeup`). With both
timeouts off, which is a setting of the server, `RefsExact` (`InstanceRefsExact`) and `SendsSafe`
(`SendsToValid`) hold as well; with a timeout on they do not, for the reason above.

The inductive invariant `PfInv` is the conjunction of these and of what each needs:

- `RefsFacts`: the counter is at least what refers to the client, and equal to it until a session of
  the client times out; then a client is freed exactly when its counter gets to 0. One formula serves
  both theorems about counters, because the flag `session_timeout` is never cleared.
- `NewFacts`: nothing refers to a client that has not connected (or, for datagrams, is in no table), so
  that its counter may be set instead of increased.
- `FdFacts`, `PollFacts`: only clients of the table have open descriptors, and an event that `poll`
  returned is about a descriptor that is open or was closed in this round. Without it
  `TablesSound` could be lost at an event for a client that was removed.
- `CoreFacts`: what the threads of the core have at each step (a session, a client, nothing).
- `TimeoutFacts`: without timeouts the watchdog finds nothing and no client is flagged.

`PfUnixRefs` holds the invariant, the types and the counters, `PfUnixProofs` the other conjuncts and
the theorems. TLC checked `PfInv` on the instance of `pfunix_safety` before it was proved.

### PeerConnection

`PeerConnection.tla` models what one handle does to have a PeerConnection: offers
and answers in both directions, candidates, hangups from every thread, the detach.

| Variable | Code |
|----------|------|
| `flags`, `mutex`, `closepc` | `webrtc_flags` (changed without a lock), `handle->mutex`, `handle->closepc` |
| `agent` | `handle->agent` with its stream: `none`, `ok`, or `failed` after an error of `janus_ice_setup_local` |
| `remote`, `cdone`, `connected`, `dtls` | the peer's credentials, the local candidates, the first selected pair, the handshake |
| `candidates`, `process_started`, `queued_candidates`, `pending_trickles` | where remote candidates wait |
| `queue` | the control messages in `queued_packets`; packets are left out |
| `destroyed`, `app`, `media`, `loop`, `removed` | the handle, its plugin session, what the plugin was told of its media, the loop |
| `closing`, `ending`, `toanswer`, `offered` | sources of the watchdog, offers to be answered by the plugin and by the peer |
| `at`, `inputs` | what each thread is at; how many inputs came |

`Message...` actions are the `message` request in a task, from the wait for
`CLEANING` to the call of the plugin; `Plugin...` are `janus_plugin_push_event` and
`janus_plugin_handle_sdp`, `close_pc` and `end_session`; `Hangup`/`HangupAlert`/`HangupPush`
and `SetupFlags`/`SetupAgent`/`SetupError` are called by several of them; `Loop...` are
`janus_ice_outgoing_traffic_dispatch` and its handlers; `GatheringDone`,
`NewSelectedPair`, `CheckFailed`, `HandshakeDone` and `DtlsFailed` are callbacks that
run in the loop between two dispatches.

Steps follow accesses without a lock. `ALERT` is tested, then set, then comes the
message: a setup or another hangup may come in between. `NEGOTIATED` is set a step
after `GOT_OFFER` was seen. Flags that nothing modelled depends on (`START`,
`TRICKLE` and those of media) and the notifications of the peer are left out. Loops
shared by several handles, ICE restarts and mDNS candidates are not modelled.

| Run | Checks | Instance |
|-----|--------|----------|
| `peerconnection` | `TypeOK`, `HangupOnItsWay`, `CandidatesOnTheirWay`, `AgentsSound`, `MediaInStep`; `CleaningEnds`, `DestroyedEnds` | one task, full trickle, setups may fail; two inputs of every kind |
| `peerconnection_dropped_hangup` | `HangupHandled`, with a counterexample: see the findings | full trickle, two inputs of every kind |

`Inputs` and `MaxInputs` say which requests and calls of the plugin there are, and how
many; answers and what the network does come on top of them. Two are enough for the detach to
race an offer, a hangup by the network included, and
for a second PeerConnection after a first that the network ended. What takes more
inputs, and half trickle, is left to the proofs, which bound neither; the two liveness
properties are checked for two inputs only. The first selected pair may clear messages from the
queue, which is the finding: the history variable `lost` records which, and
`HangupOnItsWay`, `CandidatesOnTheirWay` and the two liveness properties except just
a message of their own kind that was lost.

Fairness: tasks, the plugin's thread, the requests thread, the watchdog and the loop
go on with what they have begun (weak fairness; with finitely many inputs the mutex is
free for good at some time). Neither the peer nor libnice nor DTLS has to do anything.

#### Proofs

`PeerConnectionProofs.tla` proves the five invariants for any number of tasks and of inputs, for
both kinds of trickling and all setup errors: `TypesCorrect`, `HangupsArrive`,
`CandidatesArrive`, `AgentsSafe`, `MediaTold`. It assumes that threads are distinct. The
inductive invariant `PeerInv` adds three facts to the four properties:

- `LockFacts`: a thread between the lock and the unlock of `handle->mutex` owns it, so there is one
  setup at a time; a thread about to create the agent has set `HAS_AGENT`; and an `ALERT` that was set
  since then has a hangup coming (`Coming`: its message is in the queue, the loop is at it, or a
  thread is between the flags and the message). This is what makes `AgentsSound` survive a hangup
  between two steps of a setup.
- `LoopFacts`: the loop does something only while it runs, and ends only after the detach.
- `IceFacts`: only an agent that works becomes ready or connects, and only then is the queue cleared.

Most steps change neither agent nor media. `Ordinary` says what a step has to leave alone to keep
`PeerInv`, and the lemmas for hangups, messages, the plugin and the loop check that; setups
(`SetupAgentInv`, `SetupInv`) and `janus_ice_webrtc_free` are proved on their own.

### Services and transports

The components below run in threads of their own and share no state with each
other. `MCServices.tla` makes one instance of each, and a behaviour of its `Spec`
picks one (`which`) and runs it while the others stay in their initial states: the
state spaces add up instead of multiplying, and one run, `services`, checks all. An
invariant of a component is required while it runs; its fairness is assumed of the
behaviours that picked it.

**`Logger.tla`** (`log.c`). Threads format lines into buffers of a pool
(`GetBuffer`), append them (`janus_vprintf`), and `janus_log_thread` takes the list
and prints it. A signal that comes while the thread is not in `g_cond_wait` is
lost, as with a real condition variable. `LinesKept`: no line is lost, repeated or
printed out of order, and the pool accounts for every buffer. `LinesPrinted`:
every line appended before `stopping` was set is printed. Two threads write two
lines with a pool of two: one after the other, the second uses the first one's
buffer again; at once, the pool is full and a buffer is freed.

**`Events.tla`** (`events.c`, `janus_sampleevh.c`, the shutdown in `janus.c`).
`NotifyBuild`/`NotifyPush` queue an event, `janus_events_thread` hands it to the
handlers that want its type, and the handler's thread groups events, posts them
and retransmits. `EventsKept`: an event is in exactly one place on its way and the
order is kept; `GroupsInOrder`: the backend gets groups in order, and only a
retransmission repeats one. `EventsSettle`: every event is delivered or given
up, and the exit ends with all threads joined. Three events, groups of two, one
retransmission.

**`WebSockets.tla`** (`janus_websockets.c`). `send_message` queues a message and
asks for a callback; the service thread writes it a fragment at a time
(`NextBuffer`, `Write`), keeping the rest of an interrupted message in the client's buffer.
`StreamsSound`: wire, buffer and queue together are the messages given, whole and
in order. A client for which a write failed is excepted: the code starts the
next message in the middle of that one. `MessagesWritten`: every message is
written unless its client or the transport ends. Three messages of 2, 1 and 3
fragments. libwebsockets is external.

**`Http.tla`** (`janus_http.c`). A POST is suspended until the core answers it, a
GET waits for events of the session's queue. The web server's threads, the
thread of timeouts and threads of the core work on the same requests, with
compare-and-swaps on `longpoll` and `timeout_flag` instead of a lock.
`PollsSound`: a suspended request is listed, timed or being answered;
`EventsSound`: an event is in the queue or in one response, in order, except for
the events in `lost`: a timeout and a sender that race can put an event in a
response that nobody reads. `ServicesSettle` adds that every request ends,
except those suspended after the shutdown resumed all (`TooLate`). Two instances:
two polls (one takes two events) with a shutdown, and a poll and a POST with a
claim and a shutdown.

**`Rtp.tla`** (`rtp.c`) holds the operators of the media path, on 16-bit sequence
numbers and timestamps modulo `TsMod`: `header_update` and `skew_compensate`.
**`RtpSource.tla`** is a mountpoint of the Streaming plugin whose source has a clock
of its own, loses packets and changes its SSRC. **`RtpLayers.tla`** is the relay of a
simulcasting publisher to a subscriber of the VideoRoom: substreams are chosen
at key frames, temporal layers dropped, with `pause`, `start` and `configure` in
between. `MediaCoherent`: numbers and timestamps go on across switches, drops and corrections, and
no packet of a substream that was left is relayed. It excepts late packets from before a
change of the base (`crossed`) and a source that changes its SSRC after a correction
(`ahead`). `NumbersFollow`: without late packets, every relayed packet has the number after
the last one, except after a `start` with a jsep, which does not reset the numbers (`gaps`).
Sequence numbers start at 65533, so that they wrap; timestamps are modulo 2^24
because TLC's integers have 32 bits, and 8 kHz lets skews be reached in few packets.

| Run | Checks |
|-----|--------|
| `services` | `TypesOK`, `LinesKept`, `EventsKept`, `StreamsSound`, `PollsSound`, `MediaCoherent`, `NumbersFollow`; `ServicesSettle` |

Fairness: the components' own threads go on (weak fairness), the exit is not obliged
to come. Clients, senders and the network do not have to do anything. `ServicesSettle` says `[]<>`
of the states in which nothing is left to do; with finitely many inputs this means
that everything asked is done in the end.

### Plugins

`MCPlugins.tla` does the same for EchoTest and TextRoom, `MCCalls.tla` for VideoCall and VideoRoom.

**`PluginSession.tla`** is an abstract specification: what the core expects of every
plugin that answers requests in a thread of its own. Sessions are created and
removed once; requests are answered at most once, in order, and dropped only when
their session was removed; a session is freed only when it was removed and no
request refers to it. `EchoTest`, `VideoCall` and `TextRoom` implement it (`Implements`):
the queue with the request being handled maps to `pending`, and a session's
counter to its `life`.

**`EchoTest.tla`** (`janus_echotest.c`, `record.c`). The handler thread, the callbacks
of the core and the media threads, each step ending where a mutex is let go; the recorder with
its file, its header and its renaming. `RefsExact`, `RecordingWellFormed` and
`RecordingFinal`: a closed recording has its name, its header and whole frames
and never changes. `RequestsSettled`: no thread waits for ever on the plugin's mutexes.

**`VideoCall.tla`** (`janus_videocall.c`). Names, calls and hangups of three sessions. The core's part is
modelled because the plugin's depends on it: `close_pc` leaves the hangup to a timer (`closepc`,
`close_pc_internal`), a PeerConnection that is `"down"` (`ALERT` is set) is not hung up again, an offer from or to
the browser sets up a new one and takes back what `close_pc` asked for (`SetupLocal`), and descriptions wait for the end of
a hangup (`Cleaning`). `CallsSound`: a registered name leads to its session until the handle is closed and is free
then; and a session in a call has its peer in the same call or was told that the peer hung up. A `register` that
the handler runs for a session destroyed meanwhile leaves the name in the table for ever, though
`janus_videocall.c:84` says that closing the handle frees it; these sessions are in `ghosts`, and the names of no others
stay.

**`TextRoom.tla`** (`janus_textroom.c`). Requests over data channels and over the Janus
API, with the three nested mutexes: where a thread waits for one with another held it takes
a step of its own. `RoomsSound`: references are exact; sessions and the rooms that exist agree on who is where,
except for sessions that joined a room destroyed since it was found (`late`); and what is relayed goes to sessions
that are there. `stray` records every operation for which the last is not so: an announcement or a join that found its room
before a `destroy`, which leaves the participants in the table of the room. `RoomsSound` says that no other operation is in it.
`RequestsSettled` names the one deadlock there is (`Inverted`): a hangup takes the session's mutex
before `rooms_mutex`, a destroy the other way round. The configuration file of permanent rooms and `edit`, which changes
nothing else that is modelled, are left out.

**`VideoRoom.tla`** (`janus_videoroom.c`). Sessions, publishers, subscribers and rooms
with their counters; the handler thread, the loops of the handles and a thread of synchronous
requests. A PeerConnection is `"fresh"`, `"offered"`, `"negotiated"`, `"up"` or `"down"`; as in VideoCall, `close_pc` hangs
up in every state but the last. Where the code lets a mutex go and uses what it read under it, there are two steps:
`SubscribeReads` and `SubscribeOffers`, `SwitchLeaves`, `SwitchJoins` and `SwitchFeeds`, `OfferPush`, `OfferStore` and
`OfferUpdate`, `PublisherRequest` and `Configure`. `VideoRoomSound` is the conjunction of:

- `RefsExact`: every counter is the number of pointers there are;
- `FeedsHeld`: a feed that a thread is about to lock without a reference to it is still allocated, unless its
  session was destroyed meanwhile;
- `CrashesKnown`: a NULL participant or room is used only if it was destroyed or kicked during the request;
- `FeedsPaired`: a subscriber is in the list of its feed and in no other;
- `FeedsLive`: once all is quiet, a subscriber's feed is published, and a published feed has a PeerConnection;
- `ViewsAgree`: once all is quiet, participants know just the feeds that are up;
- `PublishersBounded` and `NoGhosts`: the limit of a room holds, and a session that is gone leaves no participant.

The code breaks most of them in some interleaving. History variables name the objects that met one, and the properties are
stated object by object, so that they go on holding of the others:

| History | What happened | Excepted |
|---------|---------------|----------|
| `crossed` | the subscriber's own hangup met its switch, or a switch its end | its counter, its place in lists, its feed |
| `dropped` | a switch or a hangup let a session or a room go twice (a count) | nothing: the counter must be less by this number |
| `leaked` | an offer was refused and its reference to the publisher kept (a count) | nothing: the counter must be more by this number |
| `belated` | the subscriber was given a feed that was being unpublished | it may keep this feed |
| `overtaken` | the publisher's feed was stored after the hangup | it may keep this feed |
| `late` | the participant joined a destroyed room, or for a destroyed session | it may stay, and know too little |
| `lowered` | the limit of the room was lowered | the limit |

Each is named in a hazard of `PROJECT.json`.

| Run | Checks |
|-----|--------|
| `plugins` | `TypesOK`, `PluginsSound` (`RefsExact` and `RecordingWellFormed` of EchoTest, `RoomsSound` of TextRoom); `Implements`, `RecordingFinal`, `RequestsSettled` |
| `calls` | `TypesOK`, `CallsSound`, `VideoRoomSound`; `Implements` (VideoCall) |
| `videocall_both_told` | `BothTold`, with a counterexample: see the findings |

Bounds: EchoTest has one session with two requests and three frames, so that a recording is
started, stopped and hung up. VideoCall starts in one of two ways (`CallStarts`): one session is registered, and another comes
and registers, with one and two requests; or three are registered, and the first has two requests, so that it can
call the third while the second still rings. Either has two places in the queue, so that requests wait for each other, and one incident (a
browser that hangs up, a session destroyed) at any point. TextRoom has two sessions with two names and an API thread,
with four requests over two room objects of one id. VideoRoom's clients follow seven scripts (`VideoScripts`): two publishers and a subscriber
that switches; publish, unpublish, publish again; a renegotiation; a switch to the same feed; and so on, each with up to two incidents
(a PeerConnection that ends, a session destroyed, a room edited, destroyed or created, a participant kicked) at
any point. Free choice of all requests is beyond TLC; the scripts were chosen so that every action is reached and each of the
exceptions above occurs.

Fairness: weak for the handler threads, the loops and the media threads once they have begun,
strong where they wait for a mutex.

### Proof about the media path

`RtpProofs.tla` proves `StreamFollows` (`Spec => NumbersFollow` of `RtpLayers`) for any number of
packets and incidents, any start of the sequence numbers, any set of substreams and layers that
`RtpParameters.tla` allows (`SeqMod` is 65536). `NumbersFollow` is an action property; the inductive invariant `StreamInv`
says, for each substream, how far its last sequence number is ahead of the base of the context, and that the
last number relayed is what `header_update` would give for the packet before the next one. `SwitchFacts` and
`SeqResetFacts` are the modular arithmetic of a change of base, `UpdateFacts` says what
`header_update` returns, and `PacketStep`, `LateStep` and `OtherStep` preserve the invariant. Assumptions on the
constants are in a module of their own, which the run's module extends, so that TLC evaluates them.

## Findings

- A handle whose plugin refuses `create_session` is never freed: the branch of
  `janus_ice_handle_destroy` for it cannot be reached (`sessions_failed_attach`).
- The Unix sockets transport calls `transport_gone` with `clients_mutex` locked, the
  watchdog calls the transport with `sessions_mutex` locked, and each waits for the
  other's lock (`pfunix_deadlock`).
- The callback for the first selected pair clears the queue of the loop and loses a
  hangup or a detach that is in it (`peerconnection_dropped_hangup`).
- A VideoCall session whose PeerConnection ends between the pairing of the two sessions and the push of the offer is not
  told the end of its call: the setup for that offer takes back the `close_pc` of the peer, and the peer's hangup,
  which would tell the session, does not come. The peer stays paired and in a call (`videocall_both_told`).

## Hazards without a property

The hazards that a property covers are in `PROJECT.json`. These were met while modelling and are covered by none: most are
behaviours of the model that the code allows and no document promises away.

- `src/janus.c:1539`: The plugin session is checked alive and used after, with the loop detaching it in
  between: handle_message may be called with an app_handle that is NULL by then. The interleaving is one of
  Sessions: a task at deliver while the loop is at Detached. That the plugins look the pointer up in their own
  table before they use it belongs to their modules.
- `src/janus.c:3134`: source is compared and transport_gone set without session->mutex: a claim in between has
  its clearing undone, and the watchdog ends a session whose transport is there. Sessions has the interleaving
  (TgCheck, Claim, TgFlag) and no property forbids it, because the code allows it.
- `src/janus.c:1042`: The create request takes its own reference after the session is in the table: if the
  watchdog destroyed it in between, it would use freed memory. It needs the thread to stall for a session
  timeout. The model's clock does not advance between the two steps (Tick), as the session is brand new; with
  it the state would be reachable only with a stall of the length of the session timeout.
- `src/janus.c:3134`: session->source is dereferenced without session->mutex while a claim destroys the
  request it points to. A read of freed memory is not a state of the model; the model takes the comparison as
  one step with the value before or after the claim.
- `src/transports/janus_pfunix.c:622`: The flag that closes a connection is set (janus.c:654, session_over)
  after the message that makes the thread look at it was queued: if the message is written in between, the
  connection stays open until another one is sent. PfUnix has the interleaving (SendPush, PfOut, WdOver);
  closing is not promised by a property because the code does not do it then.
- `src/transports/janus_pfunix.c:350`: initialized is set after the thread that reads it was created: the loop
  ends if it reads it before. PfUnix has the interleaving (PfEnd before InitDone); the properties are about a
  transport that serves.
- `src/transports/janus_pfunix.c:485`: The poll list has 1024 entries and no check. A bound on the number of
  clients the process can have (descriptors) is not part of the code modelled.
- `src/janus.c:5341`: At shutdown the transports are closed before the requests thread is joined: a request in
  flight answers through a transport whose tables are destroyed. After the thread has ended the model lets the
  lookup find anything; a crash of the process that is exiting is not a state of it.
- `src/janus.c:1330`: Whether a message is a renegotiation is decided before the lock: a hangup in between
  makes an offer an update of a PeerConnection that is gone. PeerConnection has the interleaving
  (MessageNegotiated, then HangupPush); the code answers such a message with an error, so no property promises
  more.
- `src/janus.c:1688`: Trickles queued while the plugin's second offer waits for its answer: an answer that is
  an update does not process them (janus.c:1453), though the comment says they will be. PeerConnection has the
  behaviour (PluginOffer, TrickleLocked, an answer with update): the candidates stay until another answer is
  handled or the PeerConnection is freed. Candidates that come with a restart are not told apart from others.
- `src/sdp.c:880`: Candidates in the SDP of a renegotiation are added to the list and not given to the loop,
  because process_started is set. PeerConnection has the behaviour (MessageProcess with process_started); no
  document promises it.
- `src/janus.c:3406`: A plugin's offer sets GOT_OFFER before it waits for a hangup to be over: a hangup in
  between clears the flag, and the answer then does not make the PeerConnection negotiated. PeerConnection has
  the interleaving (PluginOffer, HangupPush, PluginCleaning); a later offer of the peer fails with 'Agent
  already exists?' (ice.c:3311) until a hangup.
- `src/ice.c:3320`: janus_ice_setup_local clears STOP: a message that was waiting for the lock when the handle
  was destroyed makes a new agent for it, after the loop has ended if it is late enough, and nothing frees it.
  PeerConnection has the interleaving (MessageLock after LoopEnd); the agent's stream keeps a reference to the
  handle.
- `src/janus.c:3606`: After 5 seconds without local candidates the SDP is sent with those there are, while
  gathering goes on. PluginGathered takes both ways; what is in the SDP is not modelled.
- `src/events.c:274`: A thread that found events enabled may push to a queue that deinit has released. Events
  has the interleaving (Post after DeinitExit); the queue's memory is not modelled.
- `src/events/janus_sampleevh.c:733`: A failed compression while a group is retransmitted, or group_events
  changed between two events of a group. Both are settings of one handler; Events has groups and failures of
  the backend.
- `src/plugins/janus_echotest.c:1244`: The handler uses the session after it has freed the message whose
  reference kept the session. EchoTest has the interleaving (HandlerFree after destroy_session); the reads
  that follow are of fields the model leaves out.
- `src/plugins/janus_echotest.c:1156`: A second `record: true` replaces recorders that were not closed. The
  recorder that is replaced is leaked, its file is never renamed; no document promises more. EchoTest's
  requests toggle recording.
- `src/plugins/janus_videocall.c:815`: The media threads use `peer` and its recorder without a reference. A
  read of a pointer that a hangup clears in another thread: the model has the hangups but no media of
  VideoCall.
- `src/plugins/janus_textroom.c:2086`: kick and message touch the session's table of rooms without the
  session's mutex, listparticipants goes through a room's participants without the room's. A data race on a
  GHashTable has no outcome that the source determines; TextRoom takes the operations as atomic.
- `src/plugins/janus_videoroom.c:4396`: kick uses the participant without a reference once the room's mutex is
  let go. VideoRoom has the interleaving; a freed publisher's fields are still read by the model, so no
  property covers it.
- `src/plugins/janus_videoroom.c:6488`: enable_recording between the close of the recorders and the end of the
  feed opens a recorder that nobody closes. Recording is not in VideoRoom; EchoTest models the recorder.

## What is proved, and what only TLC checks

| Module | Proved for every value of the constants | Model-checked only |
|--------|-----------------------------------------|--------------------|
| `Sessions` | `TypeOK`, `TableSound`, `NoLostSession`, `RefsExact`, `NoUseAfterFree` | `AbandonedReaped`, `DestroyedFreed` |
| `PfUnix` | `TypeOK`, `InstanceRefsEnough`, `TablesSound`, `NoLostWakeup`; without timeouts `InstanceRefsExact`, `SendsToValid` | `MessagesWritten`, `HungUpRemoved`, `Stops` |
| `PeerConnection` | `TypeOK`, `HangupOnItsWay`, `CandidatesOnTheirWay`, `AgentsSound`, `MediaInStep` | `CleaningEnds`, `DestroyedEnds` |
| `RtpLayers` | `NumbersFollow` | `MediaCoherent` |
| the other services, the plugins | | everything, the refinements of `PluginSession` included |

So every safety invariant of the core's sessions, of the Unix sockets transport and of the
PeerConnection is proved, and what TLC alone shows of these three is liveness: it needs fairness and
`ENABLED`, which the proof system's backends do not handle. The services and plugins hold on the instances
above and nothing more: their invariants speak of sequences built up over a run (lines, events, fragments,
frames), whose proofs would need inductions over data that the installed provers cannot
instantiate, and `VideoRoom`'s of history variables for seven races. Counterexamples
are TLC's by nature.

In the refinements of `PluginSession` by VideoCall and TextRoom, which have no counters of sessions, a session counts as
freed when it was destroyed and no request refers to it: that part of `Implements` holds by the mapping there, and says
something about the code for EchoTest only. The order and the number of answers are checked for all three.

## Steps that are merged

An action ends where the code lets a mutex go or calls another component. In these places it covers more, and
an interleaving inside it is not checked:

- `Sessions`: `LoopDetach` calls the plugin's `destroy_session` and clears `app_handle`; `TgCheck` leaves out the test of
  `last_activity` against 0; `EndSession` has one callback pending per handle.
- `PfUnix`: `ReqClaim` finds the session and claims it; `PfGone` does not skip sessions that have timed out. Errors of the
  listening and wake-up sockets are left out.
- `PeerConnection`: `HangupPush` sets `CLEANING` and pushes the message; `NewSelectedPair` and `GatheringDone` need an agent
  that works, though libnice may also call them for one whose DTLS setup failed.
- `Http`: `janus_http_destroy` sets `stopping`, ends the thread of timeouts and resumes the requests; `Post` looks at `stopping` and suspends.
- `EchoTest`: a recorder freed between its read (`janus_echotest.c:607`) and its lock (`record.c:269`) makes `SaveLock` do
  nothing, where the code uses it after it was freed.
- `VideoCall`: `HandleCall` sets and clears `incall` for a call to oneself; only the handler thread looks at it.

## Not modelled

`PROJECT.json` lists every part with its reason. Half of the lines under `src/` are a bundled JavaScript
interpreter, and of the rest much is parsing and formatting (JSON, SDP text, configuration
files), the text of requests and answers, logging, and calls of external libraries (Sofia SIP, GStreamer, libsrtp,
OpenSSL, usrsctp). What has state that threads share is modelled in the
order of its hazards. Left for later: the AudioBridge's mixer, mountpoints of the Streaming plugin, SIP calls, DTLS and
SCTP, RTCP statistics, stored tokens. RecordPlay, VoiceMail and NoSIP repeat the structure of EchoTest and
VideoCall (one handler thread, a table of sessions, hangups); the broker transports that of the others without
clients; the other event handlers that of the sample handler.
