------------------------------ MODULE EchoTest ------------------------------
(***************************************************************************)
(* The EchoTest plugin (plugins/janus_echotest.c) and the recorder it      *)
(* writes its media with (record.c).                                       *)
(*                                                                         *)
(* Four threads meet here: the one that brings requests, the handler       *)
(* thread that answers them, the core (hangup_media and destroy_session,   *)
(* which hold sessions_mutex) and the loop that delivers RTP packets.      *)
(* The three recorders of a session (audio, video, data) are managed by    *)
(* the same code: one stands for them, `arc`.  A recording is the sequence *)
(* of what was written to its file.                                        *)
(***************************************************************************)
EXTENDS Naturals, Sequences, FiniteSets

CONSTANTS Handles, MaxRequests,  \* bound: requests per handle
          Recorders,             \* recorders that may be created
          MaxFrames,             \* bound: packets the loop delivers
          None

VARIABLES sessions,   \* handles in the table
          life,       \* "new", "open", "destroyed" (session->destroyed), "freed"
          ref,        \* references to a session
          asked, messages,
          hpc, msg,   \* janus_echotest_handler and its message
          answers,    \* history: requests answered, per handle
          has_audio, hangingup, arc,   \* of a session
          cpc, core,  \* the holder of sessions_mutex, if any, and its handle
          destroying, \* it runs destroy_session
          rec_mutex,  \* its owner, per session: None, "handler" or "core"
          closing,    \* the recorder each owner is closing
          rec,        \* recorders: [state, writable, header, mutex, file, final]
          rpc, rp, frames   \* the RTP loop: step, recorder it read, packets

coreVars == <<cpc, core, destroying>>
mediaVars == <<has_audio, hangingup, arc>>
queueVars == <<asked, messages, hpc, msg, answers>>
rtpVars == <<rpc, rp, frames>>
vars == <<sessions, life, ref, queueVars, mediaVars, coreVars, rec_mutex, closing, rec, rtpVars>>

\* An offer, with or without the start of a recording; its start or stop alone; any
\* other request, valid or not.
Requests == {"offer", "offer_record", "record", "stop", "configure"}
Owners == {"handler", "core"}
\* What a recorder writes.
Header == [what |-> "header", n |-> 0]
Info == [what |-> "info", n |-> 0]
Frame == [what |-> "frame", n |-> frames]
NoRec == [state |-> "none", writable |-> FALSE, header |-> FALSE, mutex |-> None,
          file |-> <<>>, final |-> FALSE]

Init ==
    /\ sessions = {} /\ life = [h \in Handles |-> "new"] /\ ref = [h \in Handles |-> 0]
    /\ asked = [h \in Handles |-> 0] /\ messages = <<>>
    /\ hpc = "pop" /\ msg = None /\ answers = [h \in Handles |-> <<>>]
    /\ has_audio = [h \in Handles |-> FALSE] /\ hangingup = [h \in Handles |-> FALSE]
    /\ arc = [h \in Handles |-> None]
    /\ cpc = "free" /\ core = None /\ destroying = FALSE
    /\ rec_mutex = [h \in Handles |-> None] /\ closing = [o \in Owners |-> None]
    /\ rec = [r \in Recorders |-> NoRec]
    /\ rpc = "idle" /\ rp = None /\ frames = 0

\* janus_refcount_decrease: the last reference frees the session.
Unref(h) ==
    /\ ref' = [ref EXCEPT ![h] = @ - 1]
    /\ life' = IF ref[h] = 1 THEN [life EXCEPT ![h] = "freed"] ELSE life

-----------------------------------------------------------------------------
(* The plugin API, called by the core.                                     *)

create_session(h) ==
    /\ life[h] = "new" /\ cpc = "free"
    /\ life' = [life EXCEPT ![h] = "open"] /\ ref' = [ref EXCEPT ![h] = 1]
    /\ sessions' = sessions \union {h}
    /\ UNCHANGED <<queueVars, mediaVars, coreVars, rec_mutex, closing, rec, rtpVars>>

\* The message holds a reference to the session until it is freed.
handle_message(h) ==
    /\ life[h] = "open" /\ asked[h] < MaxRequests
    /\ asked' = [asked EXCEPT ![h] = @ + 1]
    /\ ref' = [ref EXCEPT ![h] = @ + 1]
    /\ \E request \in Requests :
         messages' = Append(messages, [handle |-> h, n |-> asked[h] + 1, request |-> request, done |-> FALSE])
    /\ UNCHANGED <<sessions, life, hpc, msg, answers, mediaVars, coreVars, rec_mutex, closing, rec, rtpVars>>

setup_media(h) ==
    /\ h \in sessions /\ cpc = "free" /\ has_audio[h]
    /\ hangingup' = [hangingup EXCEPT ![h] = FALSE]
    /\ UNCHANGED <<sessions, life, ref, queueVars, has_audio, arc, coreVars, rec_mutex, closing, rec, rtpVars>>

\* hangup_media and destroy_session take sessions_mutex; the latter always removes the session.
hangup_media(h, destroy) ==
    /\ h \in sessions /\ cpc = "free"
    /\ core' = h /\ destroying' = destroy
    /\ IF hangingup[h]
         THEN cpc' = "leave" /\ UNCHANGED hangingup
         ELSE cpc' = "lock" /\ hangingup' = [hangingup EXCEPT ![h] = TRUE]
    /\ UNCHANGED <<sessions, life, ref, queueVars, has_audio, arc, rec_mutex, closing, rec, rtpVars>>

-----------------------------------------------------------------------------
(* janus_echotest_recorder_close, by whoever owns rec_mutex.               *)

\* rec_mutex is taken; the pointer is cleared first.
CloseBegin(o, h) ==
    /\ rec_mutex[h] = None
    /\ rec_mutex' = [rec_mutex EXCEPT ![h] = o]
    /\ closing' = [closing EXCEPT ![o] = arc[h]]
    /\ arc' = [arc EXCEPT ![h] = None]

\* Mutant: janus_recorder_close does not wait for the recorder's mutex.
CloseRenameEager(o) ==
    LET r == closing[o]
    IN  /\ r # None /\ ~rec[r].final
        /\ rec' = [rec EXCEPT ![r].writable = FALSE, ![r].final = TRUE]

\* janus_recorder_close: writable goes first, the rest under the recorder's mutex,
\* where the file loses its temporary extension.
CloseFlag(o) ==
    LET r == closing[o]
    IN  r # None /\ rec[r].writable /\ rec' = [rec EXCEPT ![r].writable = FALSE]

CloseRename(o) ==
    LET r == closing[o]
    IN  /\ r # None /\ ~rec[r].writable /\ ~rec[r].final /\ rec[r].mutex = None
        /\ rec' = [rec EXCEPT ![r].final = TRUE]

\* janus_recorder_destroy drops the only reference: janus_recorder_free.
CloseFree(o) ==
    LET r == closing[o]
    IN  /\ r # None /\ rec[r].final
        /\ rec' = [rec EXCEPT ![r].state = "freed"]
        /\ closing' = [closing EXCEPT ![o] = None]

Close(o, h) ==
    /\ rec_mutex[h] = o
    /\ \/ (CloseFlag(o) \/ CloseRename(o)) /\ UNCHANGED closing
       \/ CloseFree(o)
    /\ UNCHANGED <<sessions, life, ref, queueVars, mediaVars, coreVars, rec_mutex, rtpVars>>

-----------------------------------------------------------------------------
(* The core, inside sessions_mutex.                                        *)

CoreLock ==
    /\ cpc = "lock"
    /\ CloseBegin("core", core)
    /\ cpc' = "close"
    /\ UNCHANGED <<sessions, life, ref, queueVars, has_audio, hangingup, core, destroying, rec, rtpVars>>

CoreReset ==
    /\ cpc = "close" /\ closing["core"] = None
    /\ rec_mutex' = [rec_mutex EXCEPT ![core] = None]
    /\ has_audio' = [has_audio EXCEPT ![core] = FALSE]
    /\ hangingup' = [hangingup EXCEPT ![core] = FALSE]
    /\ cpc' = "leave"
    /\ UNCHANGED <<sessions, life, ref, queueVars, arc, core, destroying, closing, rec, rtpVars>>

\* g_hash_table_remove calls janus_echotest_session_destroy.
CoreLeave ==
    /\ cpc = "leave"
    /\ IF destroying
         THEN /\ sessions' = sessions \ {core}
              /\ ref' = [ref EXCEPT ![core] = @ - 1]
              /\ life' = [life EXCEPT ![core] = IF ref[core] = 1 THEN "freed" ELSE "destroyed"]
         ELSE UNCHANGED <<sessions, life, ref>>
    /\ cpc' = "free" /\ core' = None /\ destroying' = FALSE
    /\ UNCHANGED <<queueVars, mediaVars, rec_mutex, closing, rec, rtpVars>>

-----------------------------------------------------------------------------
(* janus_echotest_handler.                                                 *)

\* The message is freed, and its reference with it.
MessageFree ==
    /\ Unref(msg.handle)
    /\ msg' = None /\ hpc' = "pop" /\ messages' = Tail(messages)

\* The lookup under sessions_mutex: a request whose session is gone is dropped.
HandlerPop ==
    /\ hpc = "pop" /\ messages # <<>>
    /\ msg' = Head(messages) /\ hpc' = "lookup"
    /\ UNCHANGED <<sessions, life, ref, asked, messages, answers, mediaVars, coreVars, rec_mutex, closing, rec, rtpVars>>

HandlerLookup ==
    /\ hpc = "lookup" /\ cpc = "free"
    /\ IF msg.handle \in sessions
         THEN hpc' = "handle" /\ UNCHANGED <<life, ref, messages, msg>>
         ELSE MessageFree
    /\ UNCHANGED <<sessions, asked, answers, mediaVars, coreVars, rec_mutex, closing, rec, rtpVars>>

\* Mutant: the error path is taken after the answer was pushed.
PushTwice(pc) ==
    /\ answers' = [answers EXCEPT ![msg.handle] = @ \o <<msg.n, msg.n>>]
    /\ messages' = [messages EXCEPT ![1].done = TRUE]
    /\ hpc' = pc

Push(pc) ==
    /\ answers' = [answers EXCEPT ![msg.handle] = Append(@, msg.n)]
    /\ messages' = [messages EXCEPT ![1].done = TRUE]
    /\ hpc' = pc

\* The answer is pushed before the recording is started or stopped.  An offer that
\* does not parse, like an invalid request, is answered with an error and ends there,
\* whatever media it named by then.
HandlerAnswer ==
    /\ hpc = "handle"
    /\ \/ /\ msg.request \in {"offer", "offer_record"}
          /\ has_audio' = [has_audio EXCEPT ![msg.handle] = TRUE]
          /\ hangingup' = [hangingup EXCEPT ![msg.handle] = FALSE]
          /\ Push(IF msg.request = "offer" THEN "free" ELSE "record")
       \/ /\ msg.request \in {"offer", "offer_record"}
          /\ \E audio \in BOOLEAN : has_audio' = [has_audio EXCEPT ![msg.handle] = audio]
          /\ Push("free") /\ UNCHANGED hangingup
       \/ /\ msg.request \notin {"offer", "offer_record"}
          /\ Push(IF msg.request \in {"record", "stop"} THEN msg.request ELSE "free")
          /\ UNCHANGED <<has_audio, hangingup>>
    /\ UNCHANGED <<sessions, life, ref, asked, msg, arc, coreVars, rec_mutex, closing, rec, rtpVars>>

\* A recorder for the media that was negotiated; its file may not open.
HandlerRecord ==
    /\ hpc = "record" /\ rec_mutex[msg.handle] = None
    /\ \/ /\ has_audio[msg.handle]
          /\ \/ \E r \in Recorders :
                  /\ rec[r].state = "none"
                  /\ rec' = [rec EXCEPT ![r] = [@ EXCEPT !.state = "open", !.writable = TRUE, !.file = <<Header>>]]
                  /\ arc' = [arc EXCEPT ![msg.handle] = r]
             \/ arc' = [arc EXCEPT ![msg.handle] = None] /\ UNCHANGED rec
       \/ ~has_audio[msg.handle] /\ UNCHANGED <<rec, arc>>
    /\ hpc' = "free"
    /\ UNCHANGED <<sessions, life, ref, asked, messages, msg, answers, has_audio, hangingup, coreVars, rec_mutex, closing, rtpVars>>

HandlerStop ==
    /\ hpc = "stop"
    /\ CloseBegin("handler", msg.handle)
    /\ hpc' = "close"
    /\ UNCHANGED <<sessions, life, ref, asked, messages, msg, answers, has_audio, hangingup, coreVars, rec, rtpVars>>

\* Mutant: rec_mutex is not released.
HandlerStoppedLocked ==
    /\ hpc = "close" /\ closing["handler"] = None
    /\ hpc' = "free"
    /\ UNCHANGED <<sessions, life, ref, asked, messages, msg, answers, mediaVars, coreVars, rec_mutex, closing, rec, rtpVars>>

HandlerStopped ==
    /\ hpc = "close" /\ closing["handler"] = None
    /\ rec_mutex' = [rec_mutex EXCEPT ![msg.handle] = None]
    /\ hpc' = "free"
    /\ UNCHANGED <<sessions, life, ref, asked, messages, msg, answers, mediaVars, coreVars, closing, rec, rtpVars>>

HandlerFree ==
    /\ hpc = "free"
    /\ MessageFree
    /\ UNCHANGED <<sessions, asked, answers, mediaVars, coreVars, rec_mutex, closing, rec, rtpVars>>

-----------------------------------------------------------------------------
(* janus_echotest_incoming_rtp, which takes no reference to the recorder,  *)
(* and janus_recorder_save_frame.                                          *)

\* Mutant: the pointer is not tested.
RtpReadUnchecked(h) ==
    /\ rpc = "idle" /\ frames < MaxFrames
    /\ life[h] = "open"
    /\ rp' = arc[h] /\ rpc' = "save"
    /\ frames' = frames + 1
    /\ UNCHANGED <<sessions, life, ref, queueVars, mediaVars, coreVars, rec_mutex, closing, rec>>

RtpRead(h) ==
    /\ rpc = "idle" /\ frames < MaxFrames
    /\ life[h] = "open" /\ arc[h] # None
    /\ rp' = arc[h] /\ rpc' = "save"
    /\ frames' = frames + 1
    /\ UNCHANGED <<sessions, life, ref, queueVars, mediaVars, coreVars, rec_mutex, closing, rec>>

\* The checks under the recorder's mutex.  A recorder that was freed meanwhile
\* is read as it was left, not writable: the packet is not written.
SaveLock ==
    /\ rpc = "save" /\ rec[rp].mutex = None
    /\ IF rec[rp].state = "open" /\ rec[rp].writable
         THEN rec' = [rec EXCEPT ![rp].mutex = "rtp"] /\ rpc' = "write" /\ UNCHANGED rp
         ELSE rpc' = "idle" /\ rp' = None /\ UNCHANGED rec
    /\ UNCHANGED <<sessions, life, ref, queueVars, mediaVars, coreVars, rec_mutex, closing, frames>>

\* Mutant: the info header is not marked as written.
SaveWriteForgetful ==
    /\ rpc = "write"
    /\ rec' = [rec EXCEPT ![rp] = [@ EXCEPT !.mutex = None, !.file = @ \o <<Info, Frame>>]]
    /\ rpc' = "idle" /\ rp' = None
    /\ UNCHANGED <<sessions, life, ref, queueVars, mediaVars, coreVars, rec_mutex, closing, frames>>

\* The info header goes before the first frame.
SaveWrite ==
    /\ rpc = "write"
    /\ rec' = [rec EXCEPT ![rp] = [@ EXCEPT !.mutex = None, !.header = TRUE,
                 !.file = @ \o (IF rec[rp].header THEN <<Frame>> ELSE <<Info, Frame>>)]]
    /\ rpc' = "idle" /\ rp' = None
    /\ UNCHANGED <<sessions, life, ref, queueVars, mediaVars, coreVars, rec_mutex, closing, frames>>

-----------------------------------------------------------------------------
janus_echotest_handler ==
    \/ HandlerPop \/ HandlerLookup \/ HandlerAnswer \/ HandlerRecord
    \/ HandlerStop \/ HandlerStopped \/ HandlerFree
    \/ \E h \in Handles : Close("handler", h)

CoreSteps == CoreLock \/ CoreReset \/ CoreLeave \/ \E h \in Handles : Close("core", h)

RtpSteps == SaveLock \/ SaveWrite

Next ==
    \/ \E h \in Handles :
         \/ create_session(h) \/ handle_message(h) \/ setup_media(h) \/ RtpRead(h)
         \/ \E destroy \in BOOLEAN : hangup_media(h, destroy)
    \/ janus_echotest_handler \/ CoreSteps \/ RtpSteps

(* Every thread that is not blocked goes on, and one that waits for a lock *)
(* that is released again and again gets it: strong fairness.              *)
Fairness ==
    /\ SF_vars(janus_echotest_handler) /\ WF_vars(CoreSteps) /\ WF_vars(RtpSteps)

Spec == Init /\ [][Next]_vars /\ Fairness

-----------------------------------------------------------------------------
Message == [handle : Handles, n : 1 .. MaxRequests, request : Requests, done : BOOLEAN]

TypeOK ==
    /\ sessions \subseteq Handles
    /\ life \in [Handles -> {"new", "open", "destroyed", "freed"}] /\ ref \in [Handles -> Nat]
    /\ asked \in [Handles -> 0 .. MaxRequests] /\ messages \in Seq(Message)
    /\ hpc \in {"pop", "lookup", "handle", "record", "stop", "close", "free"}
    /\ msg \in Message \union {None}
    /\ answers \in [Handles -> Seq(1 .. MaxRequests)]
    /\ has_audio \in [Handles -> BOOLEAN] /\ hangingup \in [Handles -> BOOLEAN]
    /\ arc \in [Handles -> Recorders \union {None}]
    /\ cpc \in {"free", "lock", "close", "leave"} /\ core \in Handles \union {None}
    /\ destroying \in BOOLEAN
    /\ rec_mutex \in [Handles -> Owners \union {None}]
    /\ closing \in [Owners -> Recorders \union {None}]
    /\ rpc \in {"idle", "save", "write"} /\ rp \in Recorders \union {None}
    /\ rpc = "idle" <=> rp = None
    /\ frames \in 0 .. MaxFrames

\* The table and every queued message hold one reference each, and nothing else
\* does: a session is freed with the last of them, never earlier and never later.
RefsExact ==
    \A h \in Handles :
        /\ ref[h] = (IF h \in sessions THEN 1 ELSE 0)
                    + Cardinality({i \in 1 .. Len(messages) : messages[i].handle = h})
        /\ life[h] = "freed" <=> (life[h] # "new" /\ ref[h] = 0)

\* A recording is its header, then the info header once, then frames in the order
\* they came.
RecordingWellFormed ==
    \A r \in Recorders :
        LET f == rec[r].file
        IN  /\ Len(f) > 0 => f[1] = Header
            /\ Len(f) > 1 => f[2] = Info
            /\ \A i \in 3 .. Len(f) : f[i].what = "frame"
            /\ \A i, j \in 3 .. Len(f) : i < j => f[i].n < f[j].n

\* A file that lost its temporary extension is complete: it never changes again,
\* whatever packet is on its way when the recording is closed.
RecordingFinal == [][\A r \in Recorders : rec[r].final => rec'[r].file = rec[r].file]_vars

\* Every request is answered, or dropped because its session was destroyed, and its
\* reference released: the three mutexes never block the handler for good, so that again
\* and again none of the finitely many requests is left.
RequestsSettled == []<>(messages = <<>>)

\* The plugin does what every plugin promises the core (PluginSession).
PS == INSTANCE PluginSession WITH
        life <- [h \in Handles |-> IF life[h] = "destroyed" THEN "removed" ELSE life[h]],
        pending <- [i \in 1 .. Len(messages) |->
                      [handle |-> messages[i].handle, n |-> messages[i].n, done |-> messages[i].done]]

Implements == PS!Spec
=============================================================================
