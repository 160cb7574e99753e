----------------------------- MODULE SyncLegacy -----------------------------
(***************************************************************************)
(* The command sync-legacy: a goroutine reads the skus and starts a worker *)
(* for each, which asks the service to reconcile it; the main goroutine    *)
(* logs what the workers hand back.  The channel limit holds a token per   *)
(* call, the channel syncitems what was handed back, and a wait group says *)
(* when the latter may be closed.  Both have the capacity of the flag      *)
(* "concurency".  The service behind the calls is StockEvents' Reconcile.  *)
(***************************************************************************)
EXTENDS Integers, Sequences, FiniteSets

CONSTANTS
    Skus,           \* the rows of the query
    Concurrency     \* the flag

\* With 0 the first send on limit waits forever.
ASSUME SyncAssumption == IsFiniteSet(Skus) /\ Concurrency \in Nat \ {0}

VARIABLES
    rows,       \* rows the query has yet to return
    producer,   \* where the goroutine that reads them is
    item,       \* the row it scanned and has no worker for, if there is one
    limit,      \* tokens in the channel limit
    wg,         \* the counter of the wait group
    worker,     \* per row: where its goroutine is
    syncitems,  \* what is in the channel syncitems
    closed,     \* whether that channel is closed
    reported,   \* per row: how often the main goroutine logged it
    main        \* the main goroutine

vars == <<rows, producer, item, limit, wg, worker, syncitems, closed, reported, main>>

ProducerStates == {"scan", "take", "spawn", "wait", "ended"}
WorkerStates   == {"none", "calling", "release", "send", "done", "ended"}
MainStates     == {"range", "returned", "panicked"}

Running == main = "range"

-----------------------------------------------------------------------------
(* The goroutine that reads the rows                                        *)

Scan(s) ==
    /\ Running /\ producer = "scan"
    /\ s \in rows
    /\ item' = {s}
    /\ rows' = rows \ {s}
    /\ producer' = "take"
    /\ UNCHANGED <<limit, wg, worker, syncitems, closed, reported, main>>

\* No row is left, or reading the next one failed: rows.Err is not looked at.
RowsEnd ==
    /\ Running /\ producer = "scan"
    /\ producer' = "wait"
    /\ UNCHANGED <<rows, item, limit, wg, worker, syncitems, closed, reported, main>>

\* The query fails, or a row cannot be scanned: the process panics.
ScanPanics ==
    /\ Running /\ producer = "scan"
    /\ rows # {}
    /\ main' = "panicked"
    /\ UNCHANGED <<rows, producer, item, limit, wg, worker, syncitems, closed, reported>>

\* Mutant of TakeToken: a select with a default goes on without the token.
TryToken ==
    /\ Running /\ producer = "take"
    /\ limit' = IF limit < Concurrency THEN limit + 1 ELSE limit
    /\ producer' = "spawn"
    /\ UNCHANGED <<rows, item, wg, worker, syncitems, closed, reported, main>>

\* limit <- 1 waits for room.
TakeToken ==
    /\ Running /\ producer = "take"
    /\ limit < Concurrency
    /\ limit' = limit + 1
    /\ producer' = "spawn"
    /\ UNCHANGED <<rows, item, wg, worker, syncitems, closed, reported, main>>

\* Mutant of Spawn: wg.Add is forgotten for all but the first row.
SpawnOnce ==
    /\ Running /\ producer = "spawn"
    /\ wg' = 1
    /\ worker' = [s \in Skus |-> IF s \in item THEN "calling" ELSE worker[s]]
    /\ item' = {}
    /\ producer' = "scan"
    /\ UNCHANGED <<rows, limit, syncitems, closed, reported, main>>

Spawn ==
    /\ Running /\ producer = "spawn"
    /\ wg' = wg + 1
    /\ worker' = [s \in Skus |-> IF s \in item THEN "calling" ELSE worker[s]]
    /\ item' = {}
    /\ producer' = "scan"
    /\ UNCHANGED <<rows, limit, syncitems, closed, reported, main>>

\* wg.Wait, then the deferred close.
WaitAndClose ==
    /\ Running /\ producer = "wait"
    /\ wg = 0
    /\ closed' = TRUE
    /\ producer' = "ended"
    /\ UNCHANGED <<rows, item, limit, wg, worker, syncitems, reported, main>>

-----------------------------------------------------------------------------
(* A worker                                                                 *)

\* The answer of ProductReconcile, streamed to its end, or an error: both are
\* only logged.
CallEnds(s) ==
    /\ Running /\ worker[s] = "calling"
    /\ worker' = [worker EXCEPT ![s] = "release"]
    /\ UNCHANGED <<rows, producer, item, limit, wg, syncitems, closed, reported, main>>

\* Mutant of ReturnToken: the token is kept.
KeepToken(s) ==
    /\ Running /\ worker[s] = "release"
    /\ worker' = [worker EXCEPT ![s] = "send"]
    /\ UNCHANGED <<rows, producer, item, limit, wg, syncitems, closed, reported, main>>

ReturnToken(s) ==
    /\ Running /\ worker[s] = "release"
    /\ limit > 0
    /\ limit' = limit - 1
    /\ worker' = [worker EXCEPT ![s] = "send"]
    /\ UNCHANGED <<rows, producer, item, wg, syncitems, closed, reported, main>>

Send(s) ==
    /\ Running /\ worker[s] = "send"
    /\ \/ /\ closed
          /\ main' = "panicked"
          /\ UNCHANGED <<worker, syncitems>>
       \/ /\ ~closed /\ Len(syncitems) < Concurrency
          /\ syncitems' = Append(syncitems, s)
          /\ worker' = [worker EXCEPT ![s] = "done"]
          /\ UNCHANGED main
    /\ UNCHANGED <<rows, producer, item, limit, wg, closed, reported>>

\* The deferred wg.Done.
Done(s) ==
    /\ Running /\ worker[s] = "done"
    /\ wg' = wg - 1
    /\ worker' = [worker EXCEPT ![s] = "ended"]
    /\ UNCHANGED <<rows, producer, item, limit, syncitems, closed, reported, main>>

-----------------------------------------------------------------------------
(* The main goroutine                                                       *)

Receive ==
    /\ Running /\ syncitems # <<>>
    /\ reported' = [reported EXCEPT ![Head(syncitems)] = @ + 1]
    /\ syncitems' = Tail(syncitems)
    /\ UNCHANGED <<rows, producer, item, limit, wg, worker, closed, main>>

\* The range over syncitems ends when it is closed and drained.
Return ==
    /\ Running /\ closed /\ syncitems = <<>>
    /\ main' = "returned"
    /\ UNCHANGED <<rows, producer, item, limit, wg, worker, syncitems, closed, reported>>

-----------------------------------------------------------------------------
Init ==
    /\ rows = Skus /\ producer = "scan" /\ item = {}
    /\ limit = 0 /\ wg = 0
    /\ worker = [s \in Skus |-> "none"]
    /\ syncitems = <<>> /\ closed = FALSE
    /\ reported = [s \in Skus |-> 0]
    /\ main = "range"

Producer == (\E s \in Skus : Scan(s)) \/ RowsEnd \/ TakeToken \/ Spawn \/ WaitAndClose

Worker(s) == CallEnds(s) \/ ReturnToken(s) \/ Send(s) \/ Done(s)

Main == Receive \/ Return

Next == Producer \/ ScanPanics \/ (\E s \in Skus : Worker(s)) \/ Main

Spec == Init /\ [][Next]_vars

\* Go schedules every goroutine that can go on, and every call gets an answer
\* or an error.
FairSpec == /\ Spec
            /\ WF_vars(Producer) /\ WF_vars(Main)
            /\ \A s \in Skus : WF_vars(Worker(s))

-----------------------------------------------------------------------------
TypeOK ==
    /\ rows \subseteq Skus
    /\ producer \in ProducerStates
    /\ item \subseteq Skus
    /\ limit \in 0 .. Concurrency
    /\ wg \in Int
    /\ worker \in [Skus -> WorkerStates]
    /\ syncitems \in Seq(Skus) /\ Len(syncitems) <= Concurrency
    /\ closed \in BOOLEAN
    /\ reported \in [Skus -> Nat]
    /\ main \in MainStates

Calling == {s \in Skus : worker[s] \in {"calling", "release"}}

\* The service never has more reconciles of this command to do at a time than
\* the flag allows.
CallsBounded == Cardinality(Calling) <= Concurrency

\* The channel is closed only when no worker will send any more, however the
\* last workers interleave with the wait and with the main goroutine.
NoSendAfterClose ==
    closed => \A s \in Skus : worker[s] \in {"none", "ended"}

\* When the command returns it has logged every row it read, and each once:
\* none is left in the channel, dropped with the worker or received again.
ReportedOnce ==
    main = "returned" =>
        \A s \in Skus : reported[s] = IF s \in rows THEN 0 ELSE 1

\* The two bounded channels, the wait group and the loop over syncitems never
\* wait for each other in a circle: the command ends, and unless it panicked
\* every row it read is accounted for by then.
CommandEnds == <>(main # "range" /\ ReportedOnce)
=============================================================================
