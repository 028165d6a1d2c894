------------------------------ MODULE LogQueue ------------------------------
(* Structured log entries on their way to the table unified_logs:           *)
(* DatabaseLogHandler puts them into the bounded queue of LogQueueWorker,   *)
(* whose daemon thread collects them in a buffer and writes the buffer in   *)
(* one transaction; at exit StructlogConfig.shutdown closes the worker.     *)
(* An entry is the number of its place in the order of acceptance.          *)
EXTENDS Naturals, FiniteSets, Sequences, SequencesExt

CONSTANTS Loggers,        \* threads that log
          QueueSize, BatchSize,
          MaxEntries      \* bound: entries handed to the queue

ASSUME LogAssumption == QueueSize \in Nat \ {0} /\ BatchSize \in Nat \ {0} /\ MaxEntries \in Nat

VARIABLES
    accepted,   \* how many entries the queue took
    queue,      \* Queue(maxsize)
    buffer,     \* _buffer, of the worker object: both flushers use it
    batch,      \* the list `entries` of the thread's flush
    closing,    \* the list `entries` of the flush of close
    stored,     \* the rows, in the order of their ids
    lost,       \* the entries of transactions that failed
    due,        \* flush_interval has passed since _last_flush
    shutdown,   \* the event _shutdown
    shared,     \* the entries the buffer held while both flushers used it
    lpc, wpc, mpc

logVars == <<accepted, queue, buffer, batch, closing, stored, lost, due, shutdown, shared, lpc, wpc, mpc>>

LogInit ==
    /\ accepted = 0 /\ queue = << >> /\ buffer = << >>
    /\ batch = << >> /\ closing = << >>
    /\ stored = << >> /\ lost = {} /\ shared = {}
    /\ due = FALSE /\ shutdown = FALSE
    /\ lpc = [l \in Loggers |-> "idle"]
    /\ wpc = "loop" /\ mpc = "running"

Alive == mpc # "exited"

\* close has stopped to wait for the thread and flushes.
GivenUp == mpc \in {"flush", "clear", "write"}

----------------------------------------------------------------------------
\* An event that is not DEBUG reaches enqueue, which first looks at the event ...
Log(l) ==
    /\ Alive /\ lpc[l] = "idle" /\ ~shutdown
    /\ lpc' = [lpc EXCEPT ![l] = "put"]
    /\ UNCHANGED <<accepted, queue, buffer, batch, closing, stored, lost, due, shutdown, shared, wpc, mpc>>

\* ... and then puts the entry, or drops it when the queue is full.
Put(l) ==
    /\ Alive /\ lpc[l] = "put"
    /\ lpc' = [lpc EXCEPT ![l] = "idle"]
    /\ \/ /\ Len(queue) < QueueSize /\ accepted < MaxEntries
          /\ accepted' = accepted + 1
          /\ queue' = Append(queue, accepted + 1)
       \/ /\ Len(queue) = QueueSize \/ accepted = MaxEntries
          /\ UNCHANGED <<accepted, queue>>
    /\ UNCHANGED <<buffer, batch, closing, stored, lost, due, shutdown, shared, wpc, mpc>>

\* Time passes.
Tick ==
    /\ ~due
    /\ due' = TRUE
    /\ UNCHANGED <<accepted, queue, buffer, batch, closing, stored, lost, shutdown, shared, lpc, wpc, mpc>>

----------------------------------------------------------------------------
\* _run: the loop ends at the event, after a last flush.
Loop ==
    /\ Alive /\ wpc = "loop"
    /\ wpc' = IF shutdown THEN "last_flush" ELSE "get"
    /\ UNCHANGED <<accepted, queue, buffer, batch, closing, stored, lost, due, shutdown, shared, lpc, mpc>>

\* Mutant of Get: a stack instead of a queue.
GetNewest ==
    /\ Alive /\ wpc = "get"
    /\ \/ /\ queue # << >>
          /\ buffer' = Append(buffer, Last(queue))
          /\ queue' = Front(queue)
          /\ shared' = IF GivenUp THEN shared \cup {Last(queue)} ELSE shared
       \/ /\ queue = << >>
          /\ UNCHANGED <<buffer, queue, shared>>
    /\ wpc' = "check"
    /\ UNCHANGED <<accepted, batch, closing, stored, lost, due, shutdown, lpc, mpc>>

\* get with a timeout: an entry if there is one.
Get ==
    /\ Alive /\ wpc = "get"
    /\ \/ /\ queue # << >>
          /\ buffer' = Append(buffer, Head(queue))
          /\ queue' = Tail(queue)
          /\ shared' = IF GivenUp THEN shared \cup {Head(queue)} ELSE shared
       \/ /\ queue = << >>
          /\ UNCHANGED <<buffer, queue, shared>>
    /\ wpc' = "check"
    /\ UNCHANGED <<accepted, batch, closing, stored, lost, due, shutdown, lpc, mpc>>

\* Mutant of ShouldFlush: no interval.
ShouldFlushFull == Len(buffer) >= BatchSize

\* _should_flush
ShouldFlush == buffer # << >> /\ (Len(buffer) >= BatchSize \/ due)

Check ==
    /\ Alive /\ wpc = "check"
    /\ wpc' = IF ShouldFlush THEN "flush" ELSE "loop"
    /\ UNCHANGED <<accepted, queue, buffer, batch, closing, stored, lost, due, shutdown, shared, lpc, mpc>>

\* The transaction: all rows or, on any error, none; the entries are gone
\* either way, and _last_flush is now.
Written(entries) ==
    /\ \/ stored' = stored \o entries /\ UNCHANGED lost
       \/ stored' = stored /\ lost' = lost \cup ToSet(entries)
    /\ due' = FALSE

\* _flush_buffer: with nothing in the buffer it returns; the entries are
\* copied ...
Flush ==
    /\ Alive /\ wpc \in {"flush", "last_flush"}
    /\ batch' = buffer
    /\ wpc' = IF buffer = << >> THEN (IF wpc = "flush" THEN "loop" ELSE "done")
              ELSE IF wpc = "flush" THEN "clear" ELSE "last_clear"
    /\ UNCHANGED <<accepted, queue, buffer, closing, stored, lost, due, shutdown, shared, lpc, mpc>>

\* ... the buffer is cleared, whatever it holds by now ...
Clear ==
    /\ Alive /\ wpc \in {"clear", "last_clear"}
    /\ buffer' = << >>
    /\ wpc' = IF wpc = "clear" THEN "write" ELSE "last_write"
    /\ UNCHANGED <<accepted, queue, batch, closing, stored, lost, due, shutdown, shared, lpc, mpc>>

\* ... and the copy is written.
Write ==
    /\ Alive /\ wpc \in {"write", "last_write"}
    /\ Written(batch)
    /\ batch' = << >>
    /\ wpc' = IF wpc = "write" THEN "loop" ELSE "done"
    /\ UNCHANGED <<accepted, queue, buffer, closing, shutdown, shared, lpc, mpc>>

----------------------------------------------------------------------------
\* close: no entry is accepted and the thread is asked to stop ...
Close ==
    /\ mpc = "running"
    /\ shutdown' = TRUE
    /\ mpc' = "join"
    /\ UNCHANGED <<accepted, queue, buffer, batch, closing, stored, lost, due, shared, lpc, wpc>>

\* ... it is waited for, five seconds at most: then it writes to the database
\* or, where the process was held up, is anywhere ...
Join ==
    /\ mpc = "join"
    /\ shared' = IF wpc \in {"done", "write", "last_write"} THEN {} ELSE ToSet(buffer) \cup ToSet(batch)
    /\ mpc' = "flush"
    /\ UNCHANGED <<accepted, queue, buffer, batch, closing, stored, lost, due, shutdown, lpc, wpc>>

\* ... and what the buffer holds is copied, cleared and written here.
CloseFlush ==
    /\ mpc = "flush"
    /\ closing' = buffer
    /\ mpc' = IF buffer = << >> THEN "exited" ELSE "clear"
    /\ UNCHANGED <<accepted, queue, buffer, batch, stored, lost, due, shutdown, shared, lpc, wpc>>

CloseClear ==
    /\ mpc = "clear"
    /\ buffer' = << >>
    /\ mpc' = "write"
    /\ UNCHANGED <<accepted, queue, batch, closing, stored, lost, due, shutdown, shared, lpc, wpc>>

CloseWrite ==
    /\ mpc = "write"
    /\ Written(closing)
    /\ closing' = << >>
    /\ mpc' = "exited"
    /\ UNCHANGED <<accepted, queue, buffer, batch, shutdown, shared, lpc, wpc>>

WorkerStep == Loop \/ Get \/ Check \/ Flush \/ Clear \/ Write
CloseStep == Join \/ CloseFlush \/ CloseClear \/ CloseWrite

LogNext ==
    \/ \E l \in Loggers : Log(l) \/ Put(l)
    \/ Tick
    \/ WorkerStep
    \/ Close \/ CloseStep

\* The daemon thread runs, time passes, and an exit that began goes on.
LogSpec == LogInit /\ [][LogNext]_logVars /\ WF_logVars(WorkerStep) /\ WF_logVars(Tick) /\ WF_logVars(CloseStep)

----------------------------------------------------------------------------
Entries == 1 .. accepted

LogTypeOK ==
    /\ accepted \in 0 .. MaxEntries
    /\ queue \in Seq(Entries) /\ Len(queue) <= QueueSize
    /\ buffer \in Seq(Entries) /\ Len(buffer) <= BatchSize
    /\ batch \in Seq(Entries) /\ closing \in Seq(Entries)
    /\ stored \in Seq(Entries) /\ lost \subseteq Entries /\ shared \subseteq Entries
    /\ due \in BOOLEAN /\ shutdown \in BOOLEAN
    /\ lpc \in [Loggers -> {"idle", "put"}]
    /\ wpc \in {"loop", "get", "check", "flush", "last_flush", "clear", "last_clear", "write", "last_write", "done"}
    /\ mpc \in {"running", "join", "flush", "clear", "write", "exited"}

(* enqueue, _run, _flush_buffer and close hand an entry over without losing *)
(* or doubling it: it waits in the queue, the buffer or a flush, or its     *)
(* transaction ended.  Only what the buffer held while close and a thread   *)
(* that was held up both used it can be lost or stored twice.               *)
InOnePlace ==
    LET flushing == IF wpc \in {"clear", "last_clear"} THEN {} ELSE ToSet(batch)
        places == <<ToSet(queue), ToSet(buffer), flushing, ToSet(stored), lost>>
    IN /\ Entries \ shared \subseteq UNION ToSet(places)
       /\ \A i, j \in DOMAIN places : i # j => places[i] \cap places[j] \subseteq shared

(* The rows of unified_logs have the order in which the events were accepted, *)
(* however batches fail and whoever writes the last one, but for those.       *)
StoredInOrder ==
    \A i, j \in DOMAIN stored : i < j => stored[i] < stored[j] \/ {stored[i], stored[j]} \subseteq shared

(* Both: an entry is stored at most once, and in its place.                 *)
StoredOnceInOrder == InOnePlace /\ StoredInOrder

(* While the process lives, no accepted entry waits for ever, whether the   *)
(* batch fills up or not and whether transactions fail or not.              *)
EntriesSettle == \A n \in 1 .. MaxEntries : (n \in Entries) ~> (n \in ToSet(stored) \cup lost \/ shutdown)

(* "停止日志队列工作线程,刷新所有待处理的日志": nothing is pending after close. *)
ClosedIsFlushed == mpc = "exited" => queue = << >>
=============================================================================
