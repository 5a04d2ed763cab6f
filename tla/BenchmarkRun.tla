---------------------------- MODULE BenchmarkRun ----------------------------
(***************************************************************************)
(* BenchmarkRunner.Run (pkg/query/benchmarker.go) with the InfluxDB query  *)
(* processor (cmd/tsbs_run_queries_influx): the Run goroutine scans the    *)
(* query file into b.ch, a channel of capacity Workers, closes it at the   *)
(* limit or at EOF, waits for the workers and then for the stat processor. *)
(* Each worker takes queries from b.ch until it is closed and drained,     *)
(* calls the cache client, whose shard choice is ShardIndex (instantiated  *)
(* here on the same variables), and sends the query's Stat on sp.c, a      *)
(* channel of capacity Workers that the stat-processor goroutine drains.   *)
(* That goroutine, started at benchmarker.go:157, makes sp.c and calls     *)
(* sp.wg.Add(1) itself (stat_processor.go 82-84), so until it has run a    *)
(* worker's send finds sp.c nil and blocks forever, close(sp.c) panics,    *)
(* and sp.wg.Wait() returns at once.                                       *)
(*                                                                         *)
(* Queries are interchangeable: b.ch is a count.  A Stat is its hitKind.   *)
(* The rate limiter only delays a worker, and the per-interval report only *)
(* writes stderr; neither is modelled.                                     *)
(***************************************************************************)
EXTENDS Integers, Sequences, FiniteSets

CONSTANTS
    Workers,          \* b.Workers worker goroutines
    FieldLists,       \* field lists of the queries in the file
    Untemplated,      \* those whose queries have no "WHERE (..) AND"
    CacheNum,         \* len(STsConnArr)
    Locked,           \* the worker runs STsCacheClient (TRUE) or ...Seg
    NoWorker,         \* mtx is free
    FileQueries,      \* the most queries an input file holds
    Limit,            \* max-queries, 0 = no limit
    BurnIn,           \* burn-in
    PrewarmQueries,   \* prewarm-queries
    HitKinds          \* the hitKinds the cache client may answer with

\* Run panics unless there is a worker and burn-in <= max-queries
\* (benchmarker.go 147-154).
ASSUME Workers # {} /\ BurnIn \in 0 .. Limit /\ FileQueries \in Nat
ASSUME PrewarmQueries \in BOOLEAN /\ HitKinds \subseteq 0 .. 2

VARIABLES
    cacheHash, pc, fields, shard, mtx, used, calls, query, memo,  \* ShardIndex's
    fileLen,      \* the queries the input file holds
    run,          \* the Run goroutine: "scan", "wait", "spwait", "returned",
                  \* or "panicked" (the program died)
    n,            \* the scanner's count of queries sent
    ch,           \* queries buffered in b.ch
    chClosed,     \* close(b.ch) has run
    wpc,          \* wpc[w]: "recv", "query", "send", "exited", or "blocked"
                  \* (sending on a nil sp.c)
    stat,         \* stat[w]: the hitKind of the Stat w is about to send
    spc,          \* the Stats buffered in sp.c
    spClosed,     \* close(sp.c) has run
    sppc,         \* process: "start" (sp.c nil), "add" (sp.c made), "loop"
                  \* (sp.wg.Add done), "done" (sp.wg.Done called)
    i,            \* process's query counter i
    opsCount,     \* sp.opsCount
    totalFully,   \* sp.totalFullyGetNum
    totalPartial, \* sp.totalPartialGetNum
    groupCount    \* groupCount[l]: statMapping[l].count

shardVars == <<cacheHash, pc, fields, shard, mtx, used, calls, query, memo>>
benchVars == <<fileLen, run, n, ch, chClosed, wpc, stat, spc, spClosed, sppc,
               i, opsCount, totalFully, totalPartial, groupCount>>
vars == <<shardVars, benchVars>>

S == INSTANCE ShardIndex WITH MaxCalls <- FileQueries

Cap == Cardinality(Workers)
spVars == <<sppc, i, opsCount, totalFully, totalPartial, groupCount>>

\* Run up to the scan: b.ch made, the process goroutine and the workers
\* started (benchmarker.go 155-165); sp's counters are zero and its
\* statMapping nil.
Init ==
    /\ S!Init
    /\ fileLen \in 0 .. FileQueries
    /\ run = "scan" /\ n = 0 /\ ch = 0 /\ chClosed = FALSE
    /\ wpc = [w \in Workers |-> "recv"]
    /\ stat = [w \in Workers |-> 0]
    /\ spc = <<>> /\ spClosed = FALSE
    /\ sppc = "start"
    /\ i = 0 /\ opsCount = 0 /\ totalFully = 0 /\ totalPartial = 0
    /\ groupCount = [l \in {} |-> 0]

\* Fault variant: the send on b.ch does not block when b.ch is full.
ScanUnbounded ==
    /\ run = "scan"
    /\ ~(Limit > 0 /\ n >= Limit)
    /\ n < fileLen
    /\ ch' = ch + 1
    /\ n' = n + 1
    /\ UNCHANGED <<shardVars, fileLen, run, chClosed, wpc, stat, spc, spClosed, spVars>>

\* scan: one query decoded and sent on b.ch (blocks while b.ch is full).
Scan ==
    /\ run = "scan"
    /\ ~(Limit > 0 /\ n >= Limit)
    /\ n < fileLen
    /\ ch < Cap
    /\ ch' = ch + 1
    /\ n' = n + 1
    /\ UNCHANGED <<shardVars, fileLen, run, chClosed, wpc, stat, spc, spClosed, spVars>>

\* Fault variant: Run never closes b.ch.
ScanDoneNoClose ==
    /\ run = "scan"
    /\ (Limit > 0 /\ n >= Limit) \/ n = fileLen
    /\ run' = "wait"
    /\ UNCHANGED <<shardVars, fileLen, n, ch, chClosed, wpc, stat, spc, spClosed, spVars>>

\* scan returns at the limit or at EOF; Run closes b.ch.
ScanDone ==
    /\ run = "scan"
    /\ (Limit > 0 /\ n >= Limit) \/ n = fileLen
    /\ chClosed' = TRUE
    /\ run' = "wait"
    /\ UNCHANGED <<shardVars, fileLen, n, ch, wpc, stat, spc, spClosed, spVars>>

\* wg.Wait() returns once every worker is done; CloseAndWait closes sp.c
\* (benchmarker.go 171-172, stat_processor.go 292-295).
WaitWorkers ==
    /\ run = "wait"
    /\ \A w \in Workers : wpc[w] = "exited"
    /\ sppc # "start"
    /\ spClosed' = TRUE
    /\ run' = "spwait"
    /\ UNCHANGED <<shardVars, fileLen, n, ch, chClosed, wpc, stat, spc, spVars>>

\* The same, while the process goroutine has not yet made sp.c:
\* close of a nil channel panics.
CloseNil ==
    /\ run = "wait"
    /\ \A w \in Workers : wpc[w] = "exited"
    /\ sppc = "start"
    /\ run' = "panicked"
    /\ UNCHANGED <<shardVars, fileLen, n, ch, chClosed, wpc, stat, spc, spClosed, spVars>>

\* sp.wg.Wait() returns when the counter is zero: before process's Add(1)
\* or after its Done.  Run then reports and returns, and main exits.
SpWait ==
    /\ run = "spwait"
    /\ sppc \in {"add", "done"}
    /\ run' = "returned"
    /\ UNCHANGED <<shardVars, fileLen, n, ch, chClosed, wpc, stat, spc, spClosed, spVars>>

\* processorHandler: for query := range b.ch; ProcessQuery starts the
\* cache client's call.
Recv(w) ==
    /\ wpc[w] = "recv"
    /\ ch > 0
    /\ ch' = ch - 1
    /\ S!Call(w)
    /\ wpc' = [wpc EXCEPT ![w] = "query"]
    /\ UNCHANGED <<fileLen, run, n, chClosed, stat, spc, spClosed, spVars>>

\* The steps of the template memo, GetCacheHashValue and their lock, inside
\* ProcessQuery.
ShardStep(w) ==
    /\ S!Lock(w) \/ S!Memo(w) \/ S!Check(w) \/ S!Assign(w) \/ S!Read(w) \/ S!Unlock(w)
    /\ UNCHANGED benchVars

\* The client's Get/Set on the shard; Do returns the hitKind and
\* ProcessQuery makes it a Stat.
Answer(w) ==
    /\ wpc[w] = "query"
    /\ S!Use(w)
    /\ \E h \in HitKinds : stat' = [stat EXCEPT ![w] = h]
    /\ wpc' = [wpc EXCEPT ![w] = "send"]
    /\ UNCHANGED <<fileLen, run, n, ch, chClosed, spc, spClosed, spVars>>

\* sp.send(stats): sp.c <- s (blocks while sp.c is full).  The warm
\* ProcessQuery of the InfluxDB processor returns nil, so sendWarm returns
\* at once.  sp.c is closed only after wg.Wait, so ~spClosed always holds.
Send(w) ==
    /\ wpc[w] = "send"
    /\ sppc # "start"
    /\ ~spClosed
    /\ Len(spc) < Cap
    /\ spc' = Append(spc, stat[w])
    /\ wpc' = [wpc EXCEPT ![w] = "recv"]
    /\ UNCHANGED <<shardVars, fileLen, run, n, ch, chClosed, stat, spClosed, spVars>>

\* The same send while sp.c is still nil: it blocks forever.
SendNil(w) ==
    /\ wpc[w] = "send"
    /\ sppc = "start"
    /\ wpc' = [wpc EXCEPT ![w] = "blocked"]
    /\ UNCHANGED <<shardVars, fileLen, run, n, ch, chClosed, stat, spc, spClosed, spVars>>

\* b.ch closed and drained: the range loop ends and the worker calls wg.Done.
Exit(w) ==
    /\ wpc[w] = "recv"
    /\ ch = 0
    /\ chClosed
    /\ wpc' = [wpc EXCEPT ![w] = "exited"]
    /\ UNCHANGED <<shardVars, fileLen, run, n, ch, chClosed, stat, spc, spClosed, spVars>>

\* process: sp.c = make(chan *Stat, workers).
SpMake ==
    /\ sppc = "start"
    /\ sppc' = "add"
    /\ UNCHANGED <<shardVars, fileLen, run, n, ch, chClosed, wpc, stat, spc, spClosed,
                   i, opsCount, totalFully, totalPartial, groupCount>>

\* process: sp.wg.Add(1) and the statMapping it starts with
\* (stat_processor.go 84-93).
SpAdd ==
    /\ sppc = "add"
    /\ sppc' = "loop"
    /\ groupCount' = [l \in IF PrewarmQueries THEN {"all", "cold", "warm"}
                           ELSE {"all"} |-> 0]
    /\ UNCHANGED <<shardVars, fileLen, run, n, ch, chClosed, wpc, stat, spc, spClosed,
                   i, opsCount, totalFully, totalPartial>>

\* One Stat of the process loop.  Every Stat is cold and not partial.
SpReceive ==
    LET h == Head(spc) IN
    /\ sppc = "loop"
    /\ spc # <<>>
    /\ spc' = Tail(spc)
    /\ opsCount' = opsCount + 1
    /\ totalFully' = IF i > BurnIn /\ h = 2 THEN totalFully + 1 ELSE totalFully
    /\ totalPartial' = IF i > BurnIn /\ h = 1 THEN totalPartial + 1 ELSE totalPartial
    /\ i' = i + 1
    /\ groupCount' = IF i < BurnIn THEN groupCount
                     ELSE [l \in DOMAIN groupCount |->
                             IF l = "warm" THEN groupCount[l]
                             ELSE groupCount[l] + 1]
    /\ UNCHANGED <<shardVars, fileLen, run, n, ch, chClosed, wpc, stat, spClosed, sppc>>

\* sp.c closed and drained: the loop ends, the totals are printed, Done.
SpExit ==
    /\ sppc = "loop"
    /\ spc = <<>>
    /\ spClosed
    /\ sppc' = "done"
    /\ UNCHANGED <<shardVars, fileLen, run, n, ch, chClosed, wpc, stat, spc, spClosed,
                   i, opsCount, totalFully, totalPartial, groupCount>>

\* The program has ended: Run returned and main exited, or it panicked.
Ended ==
    /\ run \in {"returned", "panicked"}
    /\ UNCHANGED vars

\* A worker is blocked for good on the nil sp.c: the rest of the program
\* can only wait for it (or the runtime aborts it).
Stuck ==
    /\ \E w \in Workers : wpc[w] = "blocked"
    /\ UNCHANGED vars

Live == run \notin {"returned", "panicked"}

RunStep == Scan \/ ScanDone \/ WaitWorkers \/ CloseNil \/ SpWait
WorkerStep(w) == Recv(w) \/ ShardStep(w) \/ Answer(w) \/ Send(w) \/ SendNil(w) \/ Exit(w)
SpStep == SpMake \/ SpAdd \/ SpReceive \/ SpExit

\* Once main has returned or panicked no goroutine runs.
Next ==
    \/ RunStep
    \/ Live /\ \E w \in Workers : WorkerStep(w)
    \/ Live /\ SpStep
    \/ Ended
    \/ Stuck

Spec == Init /\ [][Next]_vars

\* Go's scheduler runs every runnable goroutine eventually (weak fairness per
\* goroutine); sync.Mutex hands a lock waited on for over 1 ms to a waiter
\* (starvation mode), so a worker repeatedly able to Lock gets it.
FairSpec ==
    /\ Spec
    /\ WF_vars(RunStep)
    /\ WF_vars(Live /\ SpStep)
    /\ \A w \in Workers :
          /\ WF_vars(Live /\ WorkerStep(w))
          /\ SF_vars(Live /\ S!Lock(w) /\ UNCHANGED benchVars)


-----------------------------------------------------------------------------

\* a - b in uint64; a wrapped result, 2^64 - (b - a), is beyond TLC's
\* integers and is kept as the pair <<"2^64 -", b - a>>.
Uint64Sub(a, b) == IF a >= b THEN a - b ELSE <<"2^64 -", b - a>>

\* The count Run prints as "Run complete after %d queries": i - burnIn in
\* uint64 (stat_processor.go 215-217).
Reported == Uint64Sub(i, BurnIn)

TypeOK ==
    /\ S!TypeOK
    /\ run \in {"scan", "wait", "spwait", "returned", "panicked"}
    /\ n \in 0 .. FileQueries
    /\ ch \in 0 .. Cap
    /\ wpc \in [Workers -> {"recv", "query", "send", "exited", "blocked"}]
    /\ sppc \in {"start", "add", "loop", "done"}
    /\ spc \in Seq(HitKinds) /\ Len(spc) <= Cap

ShardStable == S!ShardStable
NoMapRace == S!NoMapRace

StatsDrained ==
    run = "returned" =>
      /\ sppc = "done"
      /\ opsCount = n
      /\ n >= BurnIn => /\ groupCount["all"] = n - BurnIn
                        /\ Reported = groupCount["all"]

\* The process goroutine has lost the race with the workers or with Run.
StartRaceLost == run = "panicked" \/ \E w \in Workers : wpc[w] = "blocked"

(* RunCompletesAfterStart: Run returns unless the stat processor lost the *)
(* start race.  b.ch and sp.c hold only Workers entries each, and the     *)
(* scanner, the workers and the stat processor block on them in turn; the *)
(* close of b.ch after scan, wg.Wait, the close of sp.c and sp.wg.Wait    *)
(* must leave no cycle of waits, for every file length and limit.         *)
RunCompletesAfterStart == <>(run = "returned" \/ StartRaceLost)

(* RunCompletes: Run returns: the scanner reaches the limit or EOF, every  *)
(* worker leaves its range loop, and the stat processor drains sp.c.      *)
RunCompletes == <>(run = "returned")

(* ReportNoWrap: the count Run prints is the number of queries run after  *)
(* the burn-in (the burn-in flag: "Number of queries to ignore before      *)
(* collecting statistics").                                                 *)
ReportNoWrap ==
    sppc = "done" => i >= BurnIn /\ Reported = n - BurnIn

(* HitTotals: when every answer is a full hit, the fully-get total Run     *)
(* prints counts every query after the burn-in, as the overall fully-get  *)
(* rate, totalFullyGetNum / (i - burnIn), presumes.                         *)
HitTotals ==
    sppc = "done" /\ HitKinds = {2} => totalFully = groupCount["all"]

=============================================================================
