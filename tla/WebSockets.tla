----------------------------- MODULE WebSockets -----------------------------
(***************************************************************************)
(* The WebSockets transport (transports/janus_websockets.c), for           *)
(* libwebsockets 3 and later: threads of the core queue messages for a     *)
(* client, and the one service thread writes them, a fragment a time, when *)
(* libwebsockets says that the client's socket is writable.  A message is  *)
(* its number; it is as many fragments long as Fragments says.             *)
(*                                                                         *)
(* libwebsockets is external: it calls back for a client that asked to     *)
(* write and was not called since, tells of a cancelled wait once after a  *)
(* lws_cancel_service, may find the pipe choked and may fail to write.     *)
(***************************************************************************)
EXTENDS Naturals, Sequences, FiniteSets, SequencesExt

CONSTANTS Clients, MaxMessages,   \* bound: messages per client
          MaxRequests,            \* bound: requests per client
          Fragments,              \* fragments of the n-th message of a client
          MaxChokes, None         \* bound: times the pipe is found choked

VARIABLES state,        \* of a client: "new", "open", "closed" (and destroyed)
          messages,     \* queue of a client
          sent,         \* messages given to send_message, per client
          pending, offset,          \* of the buffer: fragments left and written
          buffer,                   \* the message in it
          clients, writable_clients,
          wanted, cancelled,        \* of libwebsockets: who asked to write; a wait was cancelled
          wire,                     \* history: [msg, fragment, first, last] written to a client
          failed,                   \* history: clients a write failed for
          incoming,                 \* fragments of the incoming message received so far
          requests,                 \* history: requests received whole, per client
          gone,                     \* history: times the core was told the client is gone
          chokes, spc               \* the service thread: "run", "stopping", "ended"

sendVars == <<messages, sent>>
bufVars == <<pending, offset, buffer>>
lwsVars == <<wanted, cancelled, chokes>>
inVars == <<incoming, requests>>
vars == <<state, sendVars, bufVars, clients, writable_clients, lwsVars, wire, failed, inVars, gone, spc>>

Init ==
    /\ state = [c \in Clients |-> "new"]
    /\ messages = [c \in Clients |-> <<>>] /\ sent = [c \in Clients |-> 0]
    /\ pending = [c \in Clients |-> 0] /\ offset = [c \in Clients |-> 0]
    /\ buffer = [c \in Clients |-> None]
    /\ clients = {} /\ writable_clients = {} /\ wanted = {} /\ cancelled = FALSE
    /\ wire = [c \in Clients |-> <<>>] /\ failed = {}
    /\ incoming = [c \in Clients |-> 0] /\ requests = [c \in Clients |-> 0]
    /\ gone = [c \in Clients |-> 0] /\ chokes = 0 /\ spc = "run"

-----------------------------------------------------------------------------
(* The callbacks of the service thread.                                    *)

\* A connection that is not allowed is refused before it becomes a client.
Established(c) ==
    /\ spc # "ended" /\ state[c] = "new"
    /\ state' = [state EXCEPT ![c] = "open"]
    /\ clients' = clients \union {c} /\ wanted' = wanted \union {c}
    /\ UNCHANGED <<sendVars, bufVars, writable_clients, cancelled, chokes, wire, failed, inVars, gone, spc>>

\* A fragment of a request; the last one hands the request to the core.
Receive(c, final) ==
    /\ spc # "ended" /\ state[c] = "open" /\ requests[c] < MaxRequests /\ (final \/ incoming[c] = 0)
    /\ IF final
         THEN incoming' = [incoming EXCEPT ![c] = 0] /\ requests' = [requests EXCEPT ![c] = @ + 1]
         ELSE incoming' = [incoming EXCEPT ![c] = @ + 1] /\ UNCHANGED requests
    /\ UNCHANGED <<state, sendVars, bufVars, clients, writable_clients, lwsVars, wire, failed, gone, spc>>

EventWaitCancelled ==
    /\ spc = "run" /\ cancelled
    /\ cancelled' = FALSE
    /\ wanted' = wanted \union writable_clients /\ writable_clients' = {}
    /\ UNCHANGED <<state, sendVars, bufVars, clients, chokes, wire, failed, inVars, gone, spc>>

\* The pipe cannot take more now: the callback is asked for again if there is more.
WriteableChoked(c) ==
    /\ spc = "run" /\ state[c] = "open" /\ c \in wanted /\ chokes < MaxChokes
    /\ chokes' = chokes + 1
    /\ wanted' = IF (pending[c] > 0 /\ offset[c] > 0) \/ messages[c] # <<>> THEN wanted ELSE wanted \ {c}
    /\ UNCHANGED <<state, sendVars, bufVars, clients, writable_clients, cancelled, wire, failed, inVars, gone, spc>>

WriteableIdle(c) ==
    /\ state[c] = "open" /\ c \in wanted
    /\ spc = "stopping" \/ (spc = "run" /\ pending[c] = 0 /\ messages[c] = <<>>)
    /\ wanted' = wanted \ {c}
    /\ UNCHANGED <<state, sendVars, bufVars, clients, writable_clients, cancelled, chokes, wire, failed, inVars, gone, spc>>

\* Mutant: the next message is taken although the last one is not written whole.
NextBufferEager(c) ==
    IF messages[c] # <<>>
      THEN [msg |-> Head(messages[c]), left |-> Fragments[Head(messages[c])], done |-> 0]
      ELSE [msg |-> buffer[c], left |-> pending[c], done |-> offset[c]]

\* What the buffer holds for this write: the rest of the message in it, or the next one.
NextBuffer(c) ==
    IF pending[c] > 0
      THEN [msg |-> buffer[c], left |-> pending[c], done |-> offset[c]]
      ELSE [msg |-> Head(messages[c]), left |-> Fragments[Head(messages[c])], done |-> 0]

\* One fragment is written; a failed write gives the rest of the message up.  Either way
\* the callback is asked for again.
Writeable(c, ok) ==
    /\ spc = "run" /\ state[c] = "open" /\ c \in wanted
    /\ pending[c] > 0 \/ messages[c] # <<>>
    /\ LET b == NextBuffer(c)
       IN  /\ buffer' = [buffer EXCEPT ![c] = b.msg]
           /\ messages' = IF b.done = 0 THEN [messages EXCEPT ![c] = Tail(@)] ELSE messages
           /\ pending' = [pending EXCEPT ![c] = IF ok THEN b.left - 1 ELSE 0]
           /\ offset' = [offset EXCEPT ![c] = IF ok THEN b.done + 1 ELSE 0]
           /\ IF ok
                THEN /\ wire' = [wire EXCEPT ![c] = Append(@,
                           [msg |-> b.msg, fragment |-> b.done + 1, first |-> b.done = 0, last |-> b.left = 1])]
                     /\ UNCHANGED failed
                ELSE failed' = failed \union {c} /\ UNCHANGED wire
    /\ UNCHANGED <<state, sent, clients, writable_clients, lwsVars, inVars, gone, spc>>

\* Mutant: the client stays among the writable ones.
destroy_client_half(c) ==
    /\ state[c] = "open"
    /\ state' = [state EXCEPT ![c] = "closed"]
    /\ wanted' = wanted \ {c} /\ clients' = clients \ {c}
    /\ messages' = [messages EXCEPT ![c] = <<>>]
    /\ pending' = [pending EXCEPT ![c] = 0] /\ offset' = [offset EXCEPT ![c] = 0]
    /\ buffer' = [buffer EXCEPT ![c] = None] /\ incoming' = [incoming EXCEPT ![c] = 0]
    /\ gone' = [gone EXCEPT ![c] = @ + 1]
    /\ UNCHANGED <<sent, writable_clients, cancelled, chokes, wire, failed, requests, spc>>

\* janus_websockets_destroy_client, on the callback for a closed connection, or from
\* lws_context_destroy once the thread was joined.  A second callback for it finds it
\* destroyed.
destroy_client(c) ==
    /\ state[c] = "open"
    /\ state' = [state EXCEPT ![c] = "closed"]
    /\ wanted' = wanted \ {c}
    /\ clients' = clients \ {c} /\ writable_clients' = writable_clients \ {c}
    /\ messages' = [messages EXCEPT ![c] = <<>>]
    /\ pending' = [pending EXCEPT ![c] = 0] /\ offset' = [offset EXCEPT ![c] = 0]
    /\ buffer' = [buffer EXCEPT ![c] = None] /\ incoming' = [incoming EXCEPT ![c] = 0]
    /\ gone' = [gone EXCEPT ![c] = @ + 1]
    /\ UNCHANGED <<sent, cancelled, chokes, wire, failed, requests, spc>>

-----------------------------------------------------------------------------
(* The core's threads, and the end.                                        *)

\* Mutant: the wait of the service thread is not cancelled.
send_message_quiet(c) ==
    /\ state[c] = "open" /\ sent[c] < MaxMessages
    /\ sent' = [sent EXCEPT ![c] = @ + 1]
    /\ messages' = [messages EXCEPT ![c] = Append(@, sent[c] + 1)]
    /\ writable_clients' = IF c \in clients THEN writable_clients \union {c} ELSE writable_clients
    /\ UNCHANGED <<state, bufVars, clients, lwsVars, wire, failed, inVars, gone, spc>>

\* A message for a client that is gone is an error.
send_message(c) ==
    /\ state[c] = "open" /\ sent[c] < MaxMessages
    /\ sent' = [sent EXCEPT ![c] = @ + 1]
    /\ messages' = [messages EXCEPT ![c] = Append(@, sent[c] + 1)]
    /\ writable_clients' = IF c \in clients THEN writable_clients \union {c} ELSE writable_clients
    /\ cancelled' = TRUE
    /\ UNCHANGED <<state, bufVars, clients, wanted, chokes, wire, failed, inVars, gone, spc>>

janus_websockets_destroy ==
    /\ spc = "run" /\ spc' = "stopping"
    /\ UNCHANGED <<state, sendVars, bufVars, clients, writable_clients, lwsVars, wire, failed, inVars, gone>>

\* The service thread leaves its loop and is joined; the context, and with it every
\* client that is left, is destroyed by the thread that stops the transport.
ServiceEnds ==
    /\ spc = "stopping" /\ spc' = "ended"
    /\ UNCHANGED <<state, sendVars, bufVars, clients, writable_clients, lwsVars, wire, failed, inVars, gone>>

ServiceStep ==
    \/ EventWaitCancelled \/ ServiceEnds
    \/ \E c \in Clients :
         \/ WriteableIdle(c) \/ Writeable(c, TRUE)
         \/ spc = "ended" /\ destroy_client(c)

Next ==
    \/ \E c \in Clients :
         \/ Established(c) \/ send_message(c) \/ destroy_client(c) \/ WriteableChoked(c)
         \/ \E final \in BOOLEAN : Receive(c, final)
         \/ Writeable(c, FALSE)
    \/ janus_websockets_destroy \/ ServiceStep

\* libwebsockets serves every client that asked to write, and whatever cancels its wait.
Fairness ==
    /\ WF_vars(EventWaitCancelled) /\ WF_vars(ServiceEnds)
    /\ \A c \in Clients :
         /\ WF_vars(WriteableIdle(c) \/ Writeable(c, TRUE))
         /\ WF_vars(spc = "ended" /\ destroy_client(c))

Spec == Init /\ [][Next]_vars /\ Fairness

-----------------------------------------------------------------------------
TypeOK ==
    /\ state \in [Clients -> {"new", "open", "closed"}]
    /\ messages \in [Clients -> Seq(1 .. MaxMessages)] /\ sent \in [Clients -> 0 .. MaxMessages]
    /\ pending \in [Clients -> Nat] /\ offset \in [Clients -> Nat]
    /\ buffer \in [Clients -> 1 .. MaxMessages \union {None}]
    /\ clients \subseteq Clients /\ writable_clients \subseteq clients /\ wanted \subseteq clients
    /\ cancelled \in BOOLEAN /\ failed \subseteq Clients
    /\ incoming \in [Clients -> 0 .. 1] /\ requests \in [Clients -> 0 .. MaxRequests]
    /\ gone \in [Clients -> 0 .. 1] /\ chokes \in 0 .. MaxChokes /\ spc \in {"run", "stopping", "ended"}

\* The fragments of the n-th message, first and last marked.
Whole(n) == [i \in 1 .. Fragments[n] |-> [msg |-> n, fragment |-> i, first |-> i = 1, last |-> i = Fragments[n]]]

Wholes(ns) == FlattenSeq([i \in 1 .. Len(ns) |-> Whole(ns[i])])

\* What is on the wire, what is left in the buffer and what is queued are together the
\* messages the core gave, in that order: none is lost, cut, interleaved with another or
\* sent twice, unless a write failed.
StreamsSound ==
    \A c \in Clients \ failed :
        LET rest == IF pending[c] > 0 THEN SubSeq(Whole(buffer[c]), offset[c] + 1, Fragments[buffer[c]]) ELSE <<>>
            all == Wholes([i \in 1 .. sent[c] |-> i])
        IN  IF state[c] = "open" THEN wire[c] \o rest \o Wholes(messages[c]) = all
                                 ELSE IsPrefix(wire[c], all)

\* A message queued for a client is written, unless the client goes, a write fails or
\* the transport stops: send_message always wakes the service thread up for it.  A client
\* that is left when the transport stops is destroyed, and the core told, once.  There are finitely many messages: again and again none is left.
MessagesWritten ==
    []<>(\A c \in Clients :
            /\ spc = "run" /\ state[c] = "open" /\ c \notin failed => messages[c] = <<>> /\ pending[c] = 0
            /\ spc # "run" => state[c] # "open" /\ (state[c] = "closed" => gone[c] = 1))
=============================================================================
