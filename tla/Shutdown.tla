------------------------------ MODULE Shutdown -------------------------------
(* An orderly stop of the process (cmd/ragamuffin/main.go): the goroutine that *)
(* waits for SIGTERM, the main goroutine that serves HTTP, and what they stop: *)
(* the consolidation worker, one vault's watcher, its fan-out with the retry   *)
(* goroutines, the consumers, and the driver behind the document endpoint.     *)
(* A panic in a goroutine of the driver ends the process; one in a handler is  *)
(* answered with an error (Server.Recovery).                                   *)
EXTENDS Integers, FiniteSets

CONSTANTS
    Request,        \* uploads of a document
    Capacity,       \* of each of the driver's channels (10000)
    RetryCap,       \* retry goroutines per channel (fanoutSemCap, 1000)
    MaxEvents       \* bound: file events

VARIABLES
    process,        \* "serving", "returning" (main's deferred calls), "exited", "crashed"
    stage,          \* of the signal goroutine: the step it takes next
    cancelled,      \* contexts that are cancelled
    request,        \* progress of each upload
    worker,         \* the consolidation worker
    watcher,        \* the goroutine of Watch
    left,           \* file events still to be seen
    raw,            \* len(rawEvents)
    fanout,         \* the fan-out goroutine: receiving, or at the channel it sends to
    indexer,        \* Indexer.ProcessEvents
    buffered,       \* len of idxEvents, ingestEvents, prunerEvents
    retries,        \* goroutines blocked in a send to each
    doneClosed,     \* close(d.doneCh) has run
    closed,         \* the closed ones among the channels below
    late            \* history: who sent on a closed channel

vars == <<process, stage, cancelled, request, worker, watcher, left, raw, fanout,
          indexer, buffered, retries, doneClosed, closed, late>>

main    == <<process, stage, cancelled>>
server  == <<request, worker>>
source  == <<watcher, left, raw>>
outputs == <<buffered, retries, closed, late>>

Output  == {"idx", "ingest", "pruner"}
Channel == Output \cup {"api"}

Init ==
    /\ process = "serving" /\ stage = "signal" /\ cancelled = {}
    /\ request = [r \in Request |-> "none"]
    /\ worker = "idle" /\ watcher = "idle" /\ left = MaxEvents /\ raw = 0
    /\ fanout = "receive" /\ indexer = "idle"
    /\ buffered = [o \in Output |-> 0] /\ retries = [o \in Output |-> 0]
    /\ doneClosed = FALSE /\ closed = {} /\ late = {}

Alive == process \in {"serving", "returning"}

-----------------------------------------------------------------------------
(* The signal goroutine and the main goroutine.                               *)

\* Cancel the server's background goroutines, then the consolidation worker.
Signal ==
    /\ stage = "signal"
    /\ stage' = "wait" /\ cancelled' = cancelled \cup {"server", "sweeps"}
    /\ UNCHANGED <<process, server, source, fanout, indexer, doneClosed, outputs>>

\* consWG.Wait, then the prune worker's cancel and the flush of the log store.
WaitForSweep ==
    /\ stage = "wait" /\ worker = "gone"
    /\ stage' = "indexers" /\ cancelled' = cancelled \cup {"prune"}
    /\ UNCHANGED <<process, server, source, fanout, indexer, doneClosed, outputs>>

CancelIndexers ==
    /\ stage = "indexers"
    /\ stage' = "drivers" /\ cancelled' = cancelled \cup {"indexers"}
    /\ UNCHANGED <<process, server, source, fanout, indexer, doneClosed, outputs>>

CancelDrivers ==
    /\ stage = "drivers"
    /\ stage' = "http" /\ cancelled' = cancelled \cup {"drivers"}
    /\ UNCHANGED <<process, server, source, fanout, indexer, doneClosed, outputs>>

\* httpServer.Shutdown closes the listener and starts to wait for the handlers.
CloseListener ==
    /\ stage = "http"
    /\ stage' = "drain"
    /\ UNCHANGED <<process, cancelled, server, source, fanout, indexer, doneClosed, outputs>>

\* ListenAndServe returns as soon as Shutdown is called: main goes on to its
\* deferred calls, which cancel the pruner and close the stores.
ListenAndServeReturns ==
    /\ process = "serving" /\ stage = "drain"
    /\ process' = "returning" /\ cancelled' = cancelled \cup {"pruner"}
    /\ UNCHANGED <<stage, server, source, fanout, indexer, doneClosed, outputs>>

Exit ==
    /\ process = "returning"
    /\ process' = "exited"
    /\ UNCHANGED <<stage, cancelled, server, source, fanout, indexer, doneClosed, outputs>>

-----------------------------------------------------------------------------
(* HTTP requests and the consolidation worker.                                *)

Arrive(r) ==
    /\ request[r] = "none" /\ stage # "drain"
    /\ request' = [request EXCEPT ![r] = "indexing"]
    /\ UNCHANGED <<main, worker, source, fanout, indexer, doneClosed, outputs>>

\* APIIngestDriver.Ingest: ingestFunc has indexed the document, or has failed.
Indexed(r) ==
    /\ request[r] = "indexing"
    /\ \E next \in {"announcing", "answered"} : request' = [request EXCEPT ![r] = next]
    /\ UNCHANGED <<main, worker, source, fanout, indexer, doneClosed, outputs>>

\* Its event is dropped when the channel is full, and sent even when it is closed.
Announce(r) ==
    /\ request[r] = "announcing"
    /\ request' = [request EXCEPT ![r] = "answered"]
    /\ late' = late \cup (IF "api" \in closed THEN {"document"} ELSE {})
    /\ UNCHANGED <<main, worker, source, fanout, indexer, doneClosed, buffered, retries, closed>>

\* APIIngestDriver.Run.
CloseApi ==
    /\ "drivers" \in cancelled /\ "api" \notin closed
    /\ closed' = closed \cup {"api"}
    /\ UNCHANGED <<main, server, source, fanout, indexer, doneClosed, buffered, retries, late>>

\* Consolidator.Run; with both cases ready the select may still take the tick.
Consolidate ==
    /\ \/ worker = "idle" /\ worker' = "sweeping"
       \/ worker = "sweeping" /\ worker' = "idle"
       \/ worker = "idle" /\ "sweeps" \in cancelled /\ worker' = "gone"
    /\ UNCHANGED <<main, request, source, fanout, indexer, doneClosed, outputs>>

-----------------------------------------------------------------------------
(* The watcher and the driver.                                                *)

\* A scan or a notification finds something; it is sent under the watcher's lock.
SeeEvent ==
    /\ watcher = "idle" /\ left > 0
    /\ watcher' = "sending" /\ left' = left - 1
    /\ UNCHANGED <<main, server, raw, fanout, indexer, doneClosed, outputs>>

SendRaw ==
    /\ watcher = "sending" /\ raw < Capacity
    /\ watcher' = "idle" /\ raw' = raw + 1
    /\ UNCHANGED <<main, server, left, fanout, indexer, doneClosed, outputs>>

StopWatching ==
    /\ watcher = "idle" /\ doneClosed
    /\ watcher' = "gone"
    /\ UNCHANGED <<main, server, left, raw, fanout, indexer, doneClosed, outputs>>

\* FileWatcherDriver.Run after <-ctx.Done().
CloseDone ==
    /\ "drivers" \in cancelled /\ ~doneClosed
    /\ doneClosed' = TRUE
    /\ UNCHANGED <<main, server, source, fanout, indexer, outputs>>

Receive ==
    /\ fanout = "receive" /\ raw > 0
    /\ fanout' = "idx" /\ raw' = raw - 1
    /\ UNCHANGED <<main, server, watcher, left, indexer, doneClosed, outputs>>

Following(o) ==
    CASE o = "idx" -> "ingest" [] o = "ingest" -> "pruner" [] o = "pruner" -> "receive"

\* fanoutEvent, fanoutIngest: send, or leave it to a retry goroutine, or drop.
Forward(o) ==
    /\ fanout = o
    /\ fanout' = Following(o)
    /\ \/ /\ buffered[o] < Capacity
          /\ buffered' = [buffered EXCEPT ![o] = @ + 1] /\ UNCHANGED retries
       \/ /\ buffered[o] = Capacity /\ retries[o] < RetryCap
          /\ retries' = [retries EXCEPT ![o] = @ + 1] /\ UNCHANGED buffered
       \/ /\ buffered[o] = Capacity /\ retries[o] = RetryCap
          /\ UNCHANGED <<buffered, retries>>
    /\ UNCHANGED <<main, server, source, indexer, doneClosed, closed, late>>

CloseOutputs ==
    /\ fanout = "receive" /\ doneClosed
    /\ fanout' = "gone" /\ closed' = closed \cup Output
    /\ UNCHANGED <<main, server, source, indexer, doneClosed, buffered, retries, late>>

\* A retry goroutine sends, gives up after 30 s, or finds its channel closed.
Retry(o) ==
    /\ retries[o] > 0
    /\ retries' = [retries EXCEPT ![o] = @ - 1]
    /\ \/ /\ o \notin closed /\ buffered[o] < Capacity
          /\ buffered' = [buffered EXCEPT ![o] = @ + 1] /\ UNCHANGED <<process, late>>
       \/ /\ o \notin closed /\ UNCHANGED <<buffered, process, late>>
       \/ /\ o \in closed
          /\ late' = late \cup {"retry"} /\ process' = "crashed" /\ UNCHANGED buffered
    /\ UNCHANGED <<stage, cancelled, server, source, fanout, indexer, doneClosed, closed>>

\* Indexer.ProcessEvents: take an event, or re-index, and be busy with it; leave
\* when cancelled or when the channel is closed and drained.
Index ==
    /\ \/ indexer = "idle" /\ indexer' = "busy"
          /\ \/ buffered["idx"] > 0 /\ buffered' = [buffered EXCEPT !["idx"] = @ - 1]
             \/ UNCHANGED buffered
       \/ indexer = "busy" /\ indexer' = "idle" /\ UNCHANGED buffered
       \/ /\ indexer = "idle"
          /\ "indexers" \in cancelled \/ ("idx" \in closed /\ buffered["idx"] = 0)
          /\ indexer' = "gone" /\ UNCHANGED buffered
    /\ UNCHANGED <<main, server, source, fanout, doneClosed, retries, closed, late>>

\* Pruner.ProcessEvents and the fan-in of main only read.
Drain(o) ==
    /\ o \in {"ingest", "pruner"} /\ buffered[o] > 0
    /\ o = "pruner" => "pruner" \notin cancelled
    /\ buffered' = [buffered EXCEPT ![o] = @ - 1]
    /\ UNCHANGED <<main, server, source, fanout, indexer, doneClosed, retries, closed, late>>

-----------------------------------------------------------------------------
Step ==
    \/ Signal \/ WaitForSweep \/ CancelIndexers \/ CancelDrivers \/ CloseListener
    \/ ListenAndServeReturns \/ Exit
    \/ \E r \in Request : Arrive(r) \/ Indexed(r) \/ Announce(r)
    \/ CloseApi \/ Consolidate
    \/ SeeEvent \/ SendRaw \/ StopWatching \/ CloseDone \/ Receive
    \/ \E o \in Output : Forward(o) \/ Retry(o) \/ Drain(o)
    \/ CloseOutputs \/ Index

Next == Alive /\ Step

Spec == Init /\ [][Next]_vars

-----------------------------------------------------------------------------
\* The variables keep their types, and no channel or semaphore exceeds its size.
TypeOK ==
    /\ process \in {"serving", "returning", "exited", "crashed"}
    /\ stage \in {"signal", "wait", "indexers", "drivers", "http", "drain"}
    /\ cancelled \subseteq {"server", "sweeps", "prune", "indexers", "drivers", "pruner"}
    /\ request \in [Request -> {"none", "indexing", "announcing", "answered"}]
    /\ worker \in {"idle", "sweeping", "gone"}
    /\ watcher \in {"idle", "sending", "gone"} /\ left \in 0 .. MaxEvents
    /\ raw \in 0 .. Capacity
    /\ fanout \in Output \cup {"receive", "gone"} /\ indexer \in {"idle", "busy", "gone"}
    /\ buffered \in [Output -> 0 .. Capacity] /\ retries \in [Output -> 0 .. RetryCap]
    /\ doneClosed \in BOOLEAN /\ closed \subseteq Channel
    /\ late \subseteq {"document", "retry"}

\* Nobody sends on a channel that is closed (FileWatcherDriver.Run: the channels
\* are "populated while Run is active and closed on return").
NoSendOnClosed == late = {}

\* Requests that were accepted are answered before the process ends ("Graceful
\* HTTP server drain", main.go).
DrainedBeforeExit ==
    process = "exited" => \A r \in Request : request[r] \in {"none", "answered"}

\* An event that makes a retry goroutine wait is not what ends the process.
RetriesAreHarmless == "retry" \notin late
=============================================================================
