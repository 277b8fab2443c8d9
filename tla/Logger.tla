------------------------------- MODULE Logger -------------------------------
(***************************************************************************)
(* The buffered logger (log.c): every thread that logs formats its line    *)
(* into a buffer taken from a pool and appends it to a list; one thread    *)
(* takes the whole list, prints it and recycles the buffers; at exit       *)
(* janus_log_destroy stops that thread and joins it.                       *)
(*                                                                         *)
(* A line is the thread that wrote it, its number and whether it needed a  *)
(* buffer above maxbuffersz.  A critical section of `lock` is one step.    *)
(***************************************************************************)
EXTENDS Naturals, Sequences, FiniteSets

CONSTANTS Writers,    \* threads that call JANUS_LOG
          MaxLines,   \* bound: lines they write in all
          maxpoolsz   \* buffers kept, in use or pooled (log.c: 32)

VARIABLES printhead,   \* lines waiting to be printed
          bufferpool,  \* number of pooled buffers
          poolsz,      \* buffers the pool accounts for
          stopping,
          wpc,         \* where a writer is: "idle" or "format" (it holds a buffer)
          lines,       \* lines a writer has appended
          lpc,         \* where janus_log_thread is
          head, b,     \* its local list, and the lines of it (or of printhead) it printed
          dpc,         \* where janus_log_destroy is
          appended,    \* history: every line, in the order it was appended
          printed,     \* history: every line printed, in order
          due          \* history: how many lines there were when `stopping` was set

threadVars == <<lpc, head, b>>
history == <<appended, printed, due>>
vars == <<printhead, bufferpool, poolsz, stopping, wpc, lines, threadVars, dpc, history>>

Line == [writer : Writers, n : 1 .. MaxLines, large : BOOLEAN]

Init ==
    /\ printhead = <<>> /\ bufferpool = 0 /\ poolsz = 0 /\ stopping = FALSE
    /\ wpc = [w \in Writers |-> "idle"] /\ lines = [w \in Writers |-> 0]
    /\ lpc = "check" /\ head = <<>> /\ b = 0
    /\ dpc = "running"
    /\ appended = <<>> /\ printed = <<>> /\ due = 0

\* A signal is lost when the thread is not inside g_cond_wait.
Signalled == IF lpc = "wait" THEN "woken" ELSE lpc

-----------------------------------------------------------------------------
(* Threads that log.                                                       *)

\* janus_vprintf takes a buffer: a pooled one, or a new one that is accounted for.
janus_log_getbuf(w) ==
    /\ wpc[w] = "idle" /\ Len(appended) + Cardinality({v \in Writers : wpc[v] = "format"}) < MaxLines
    /\ wpc' = [wpc EXCEPT ![w] = "format"]
    /\ IF bufferpool > 0
         THEN bufferpool' = bufferpool - 1 /\ UNCHANGED poolsz
         ELSE poolsz' = poolsz + 1 /\ UNCHANGED bufferpool
    /\ UNCHANGED <<printhead, stopping, lines, threadVars, dpc, history>>

\* Mutant: the line is appended and nobody told.
janus_vprintf_silent(w) ==
    /\ wpc[w] = "format"
    /\ wpc' = [wpc EXCEPT ![w] = "idle"]
    /\ lines' = [lines EXCEPT ![w] = @ + 1]
    /\ LET line == [writer |-> w, n |-> lines[w] + 1, large |-> FALSE]
       IN  printhead' = Append(printhead, line) /\ appended' = Append(appended, line)
    /\ UNCHANGED <<bufferpool, poolsz, stopping, threadVars, dpc, printed, due>>

\* It formats the line, growing the buffer when it does not fit, appends it and signals.
janus_vprintf(w) ==
    /\ wpc[w] = "format"
    /\ wpc' = [wpc EXCEPT ![w] = "idle"]
    /\ lines' = [lines EXCEPT ![w] = @ + 1]
    /\ \E large \in BOOLEAN :
         LET line == [writer |-> w, n |-> lines[w] + 1, large |-> large]
         IN  /\ printhead' = Append(printhead, line)
             /\ appended' = Append(appended, line)
    /\ lpc' = Signalled
    /\ UNCHANGED <<bufferpool, poolsz, stopping, head, b, dpc, printed, due>>

-----------------------------------------------------------------------------
(* janus_log_thread.                                                       *)

ThreadCheck ==
    /\ lpc = "check"
    /\ lpc' = IF stopping THEN "last" ELSE "lock"
    /\ UNCHANGED <<printhead, bufferpool, poolsz, stopping, wpc, lines, head, b, dpc, history>>

\* An empty list: the thread waits for the condition, once.
ThreadWait ==
    /\ lpc = "lock" /\ printhead = <<>>
    /\ lpc' = "wait"
    /\ UNCHANGED <<printhead, bufferpool, poolsz, stopping, wpc, lines, head, b, dpc, history>>

\* It takes the whole list; woken for nothing, it goes back to its test of `stopping`.
ThreadTake ==
    /\ \/ lpc = "lock" /\ printhead # <<>>
       \/ lpc = "woken"
    /\ head' = printhead /\ printhead' = <<>> /\ b' = 0
    /\ lpc' = IF printhead = <<>> THEN "check" ELSE "print"
    /\ UNCHANGED <<bufferpool, poolsz, stopping, wpc, lines, dpc, history>>

\* g_cond_wait may return without a signal.
SpuriousWakeup ==
    /\ lpc = "wait"
    /\ lpc' = "woken"
    /\ UNCHANGED <<printhead, bufferpool, poolsz, stopping, wpc, lines, head, b, dpc, history>>

ThreadPrint ==
    /\ lpc = "print" /\ b < Len(head)
    /\ b' = b + 1
    /\ printed' = Append(printed, head[b + 1])
    /\ UNCHANGED <<printhead, bufferpool, poolsz, stopping, wpc, lines, lpc, head, dpc, appended, due>>

\* Mutant: the recycling loop forgets poolsz-- for the buffers it frees.
RecycleForgetful(list, pool, size) ==
    <<pool + Len(SelectSeq(list, LAMBDA l : ~l.large)), size>>

\* The recycling loop over `list`, as the pair of the pool and of its size.
RECURSIVE Recycle(_, _, _)
Recycle(list, pool, size) ==
    IF list = <<>> THEN <<pool, size>>
    ELSE IF size >= maxpoolsz \/ Head(list).large
      THEN Recycle(Tail(list), pool, size - 1)
      ELSE Recycle(Tail(list), pool + 1, size)

ThreadRecycle ==
    /\ lpc = "print" /\ b = Len(head)
    /\ LET r == Recycle(head, bufferpool, poolsz)
       IN  bufferpool' = r[1] /\ poolsz' = r[2]
    /\ head' = <<>> /\ b' = 0
    /\ lpc' = "check"
    /\ UNCHANGED <<printhead, stopping, wpc, lines, dpc, history>>

\* After `stopping`: the rest of the list, read without the lock.
ThreadLast ==
    /\ lpc = "last" /\ b < Len(printhead)
    /\ b' = b + 1
    /\ printed' = Append(printed, printhead[b + 1])
    /\ UNCHANGED <<printhead, bufferpool, poolsz, stopping, wpc, lines, lpc, head, dpc, appended, due>>

\* The last b->next was NULL: what is appended from here on is freed unprinted.
ThreadLeave ==
    /\ lpc = "last" /\ b >= Len(printhead)
    /\ lpc' = "clear"
    /\ UNCHANGED <<printhead, bufferpool, poolsz, stopping, wpc, lines, head, b, dpc, history>>

ThreadFree ==
    /\ lpc = "clear"
    /\ printhead' = <<>> /\ bufferpool' = 0
    /\ lpc' = "done"
    /\ UNCHANGED <<poolsz, stopping, wpc, lines, head, b, dpc, history>>

-----------------------------------------------------------------------------
(* janus_log_destroy, from the exit handler.                               *)

DestroySet ==
    /\ dpc = "running"
    /\ stopping' = TRUE /\ due' = Len(appended)
    /\ dpc' = "signal"
    /\ UNCHANGED <<printhead, bufferpool, poolsz, wpc, lines, threadVars, appended, printed>>

DestroySignal ==
    /\ dpc = "signal"
    /\ dpc' = "join"
    /\ lpc' = Signalled
    /\ UNCHANGED <<printhead, bufferpool, poolsz, stopping, wpc, lines, head, b, history>>

DestroyJoin ==
    /\ dpc = "join" /\ lpc = "done"
    /\ dpc' = "joined"
    /\ UNCHANGED <<printhead, bufferpool, poolsz, stopping, wpc, lines, threadVars, history>>

-----------------------------------------------------------------------------
janus_log_thread ==
    \/ ThreadCheck \/ ThreadWait \/ ThreadTake \/ ThreadPrint
    \/ ThreadRecycle \/ ThreadLast \/ ThreadLeave \/ ThreadFree

janus_log_destroy == DestroySet \/ DestroySignal \/ DestroyJoin

Next ==
    \/ \E w \in Writers : janus_log_getbuf(w) \/ janus_vprintf(w)
    \/ janus_log_thread
    \/ SpuriousWakeup
    \/ janus_log_destroy

(* The scheduler runs every thread that is not blocked.  Nothing makes the *)
(* server exit, a line be written or a wait end without a signal.          *)
Fairness ==
    /\ WF_vars(janus_log_thread)
    /\ WF_vars(DestroySignal \/ DestroyJoin)

Spec == Init /\ [][Next]_vars /\ Fairness

-----------------------------------------------------------------------------
TypeOK ==
    /\ printhead \in Seq(Line) /\ head \in Seq(Line)
    /\ appended \in Seq(Line) /\ printed \in Seq(Line) /\ due \in Nat
    /\ bufferpool \in Nat /\ poolsz \in Nat /\ b \in Nat
    /\ stopping \in BOOLEAN
    /\ wpc \in [Writers -> {"idle", "format"}]
    /\ lines \in [Writers -> 0 .. MaxLines]
    /\ lpc \in {"check", "lock", "wait", "woken", "print", "last", "clear", "done"}
    /\ dpc \in {"running", "signal", "join", "joined"}

\* The lines of the current list that were not printed yet.
Unprinted ==
    CASE lpc = "print" -> SubSeq(head, b + 1, Len(head)) \o printhead
      [] lpc \in {"last", "clear"} -> SubSeq(printhead, b + 1, Len(printhead))
      [] OTHER -> printhead

\* Until the thread frees the list at exit, what was printed and what is still to be
\* printed is exactly what was appended, in that order: no line is lost, repeated
\* or printed out of order, whatever the writers do while the list is printed.  And
\* the pool accounts for every buffer that exists: buffers do not leak, poolsz does not
\* drift away from maxpoolsz for good, and fewer than maxpoolsz are kept.
LinesKept ==
    lpc # "done" =>
        /\ appended = printed \o Unprinted
        /\ poolsz = bufferpool + Cardinality({w \in Writers : wpc[w] = "format"})
                    + Len(head) + Len(printhead)
        /\ bufferpool < maxpoolsz

\* A line that was appended before janus_log_destroy set `stopping` is printed: lines are
\* printed in order, so again and again there is none left to print.  And
\* janus_log_destroy wakes the thread up ("Signal print thread to print any remaining
\* message") and its join returns, unless its signal falls between the thread's test of
\* `stopping` and its wait for a line, the one window in which it is lost.
LinesPrinted ==
    /\ []<>(Len(printed) >= IF stopping THEN due ELSE Len(appended))
    /\ (dpc = "signal" /\ ~(lpc = "lock" /\ printhead = <<>>)) ~> (dpc = "joined")
=============================================================================
