----------------------------- MODULE ShardIndex -----------------------------
(***************************************************************************)
(* The shard choice of the InfluxDB cache client: GetCacheHashValue        *)
(* (InfluxDB-client/v2/client.go) memoises, in the package map CacheHash,  *)
(* the shard of each field list as len(CacheHash) % CacheNum at the time   *)
(* the field list is first seen.  Every benchmark worker calls it once per *)
(* query and then does its Get and Set on STsConnArr[CacheIndex].          *)
(*                                                                         *)
(* STsCacheClient calls it between mtx.Lock() and mtx.Unlock();            *)
(* STsCacheClientSeg and TSCacheClientSeg call it with no lock.  Locked    *)
(* selects which caller the workers run.  The body of GetCacheHashValue    *)
(* is split at its accesses of the map: the presence test, the write of    *)
(* the new value, and the final read.                                      *)
(*                                                                         *)
(* Before it, under the same lock, STsCacheClient looks the query's        *)
(* template up in QueryTemplateToPartialSegment and takes the partial      *)
(* segment, fields and metric of the first query with that template; the  *)
(* Seg variants split them from the segment the query file gives.  A query *)
(* type fixes its field list and whether GetQueryTemplate finds a tag      *)
(* condition in it; Untemplated are the field lists of the types it does   *)
(* not find one in, whose template is "".                                  *)
(***************************************************************************)
EXTENDS Integers, FiniteSets, TLC

CONSTANTS
    Workers,      \* benchmark worker goroutines
    FieldLists,   \* the distinct field lists of the queries
    CacheNum,     \* len(STsConnArr): the number of cache shards
    Locked,       \* TRUE: the caller holds mtx around the call
    MaxCalls,     \* bound on calls in a behaviour
    NoWorker,     \* mtx is free
    Untemplated   \* field lists of queries without "WHERE (..) AND"

ASSUME CacheNum \in Nat \ {0} /\ Locked \in BOOLEAN /\ MaxCalls \in Nat
ASSUME NoWorker \notin Workers /\ Untemplated \subseteq FieldLists

VARIABLES
    cacheHash,   \* CacheHash: a function on the field lists seen so far
    pc,          \* pc[w]: where worker w is
    fields,      \* fields[w]: the field list of w's query
    shard,       \* shard[w]: the CacheIndex w obtained
    mtx,         \* the worker holding mtx, or NoWorker
    used,        \* <<field list, shard>> pairs some Get/Set has gone to
    calls,       \* calls made so far
    query,       \* query[w]: the field list w's query asks for
    memo         \* QueryTemplateToPartialSegment (with SegmentToFields)

vars == <<cacheHash, pc, fields, shard, mtx, used, calls, query, memo>>

\* The template GetQueryTemplate returns: times and tag conditions replaced
\* by "?", the select clause and the rest kept, or "" when the tag regex
\* does not match (util.go 146-153).
GetQueryTemplate(f) == IF f \in Untemplated THEN "" ELSE f

\* The query arrives; the caller takes mtx first if it is STsCacheClient.
Call(w) ==
    /\ pc[w] = "idle"
    /\ calls < MaxCalls
    /\ \E f \in FieldLists : /\ query' = [query EXCEPT ![w] = f]
                              /\ fields' = [fields EXCEPT ![w] = f]
    /\ pc' = [pc EXCEPT ![w] = IF Locked THEN "lock" ELSE "check"]
    /\ calls' = calls + 1
    /\ UNCHANGED <<cacheHash, shard, mtx, used, memo>>

\* Fault variant: mtx taken without waiting for it to be free.
LockUnguarded(w) ==
    /\ pc[w] = "lock"
    /\ mtx' = w
    /\ pc' = [pc EXCEPT ![w] = "memo"]
    /\ UNCHANGED <<cacheHash, fields, shard, used, calls, query, memo>>

Lock(w) ==
    /\ pc[w] = "lock"
    /\ mtx = NoWorker
    /\ mtx' = w
    /\ pc' = [pc EXCEPT ![w] = "memo"]
    /\ UNCHANGED <<cacheHash, fields, shard, used, calls, query, memo>>

\* if ps, ok := QueryTemplateToPartialSegment[queryTemplate]; !ok: the
\* segment and fields of the query, remembered; else those remembered.
Memo(w) ==
    /\ pc[w] = "memo"
    /\ LET t == GetQueryTemplate(query[w])
       IN  IF t \in DOMAIN memo
           THEN /\ fields' = [fields EXCEPT ![w] = memo[t]]
                /\ UNCHANGED memo
           ELSE /\ memo' = memo @@ (t :> query[w])
                /\ UNCHANGED fields
    /\ pc' = [pc EXCEPT ![w] = "check"]
    /\ UNCHANGED <<cacheHash, shard, mtx, used, calls, query>>

\* if _, ok := CacheHash[fields]; !ok
Check(w) ==
    /\ pc[w] = "check"
    /\ pc' = [pc EXCEPT ![w] = IF fields[w] \in DOMAIN cacheHash
                              THEN "read" ELSE "assign"]
    /\ UNCHANGED <<cacheHash, fields, shard, mtx, used, calls, query, memo>>

\* Fault variant: the new value not reduced modulo CacheNum.
AssignNoModulo(w) ==
    /\ pc[w] = "assign"
    /\ cacheHash' = [f \in DOMAIN cacheHash \cup {fields[w]} |->
                       IF f = fields[w] THEN Cardinality(DOMAIN cacheHash)
                       ELSE cacheHash[f]]
    /\ pc' = [pc EXCEPT ![w] = "read"]
    /\ UNCHANGED <<fields, shard, mtx, used, calls, query, memo>>

\* value := len(CacheHash) % CacheNum; CacheHash[fields] = value
Assign(w) ==
    /\ pc[w] = "assign"
    /\ cacheHash' = [f \in DOMAIN cacheHash \cup {fields[w]} |->
                       IF f = fields[w]
                       THEN Cardinality(DOMAIN cacheHash) % CacheNum
                       ELSE cacheHash[f]]
    /\ pc' = [pc EXCEPT ![w] = "read"]
    /\ UNCHANGED <<fields, shard, mtx, used, calls, query, memo>>

\* hashValue := CacheHash[fields]; return hashValue
Read(w) ==
    /\ pc[w] = "read"
    /\ shard' = [shard EXCEPT ![w] = cacheHash[fields[w]]]
    /\ pc' = [pc EXCEPT ![w] = IF Locked THEN "unlock" ELSE "use"]
    /\ UNCHANGED <<cacheHash, fields, mtx, used, calls, query, memo>>

Unlock(w) ==
    /\ pc[w] = "unlock"
    /\ mtx' = NoWorker
    /\ pc' = [pc EXCEPT ![w] = "use"]
    /\ UNCHANGED <<cacheHash, fields, shard, used, calls, query, memo>>

\* STsConnArr[CacheIndex].Get / .Set for the query's segment.
Use(w) ==
    /\ pc[w] = "use"
    /\ used' = used \cup {<<fields[w], shard[w]>>}
    /\ pc' = [pc EXCEPT ![w] = "idle"]
    /\ UNCHANGED <<cacheHash, fields, shard, mtx, calls, query, memo>>

\* The benchmark has run all its queries.
Terminated ==
    /\ calls = MaxCalls
    /\ \A w \in Workers : pc[w] = "idle"
    /\ UNCHANGED vars

Init ==
    /\ cacheHash = [f \in {} |-> 0]
    /\ pc = [w \in Workers |-> "idle"]
    /\ fields = [w \in Workers |-> CHOOSE f \in FieldLists : TRUE]
    /\ shard = [w \in Workers |-> 0]
    /\ mtx = NoWorker
    /\ used = {}
    /\ calls = 0
    /\ query = fields
    /\ memo = [t \in {} |-> CHOOSE f \in FieldLists : TRUE]

Next ==
    \/ \E w \in Workers :
          Call(w) \/ Lock(w) \/ Memo(w) \/ Check(w) \/ Assign(w) \/ Read(w)
          \/ Unlock(w) \/ Use(w)
    \/ Terminated

Spec == Init /\ [][Next]_vars

-----------------------------------------------------------------------------

TypeOK ==
    /\ DOMAIN cacheHash \subseteq FieldLists
    /\ \A f \in DOMAIN cacheHash : cacheHash[f] \in 0 .. CacheNum - 1
    /\ pc \in [Workers -> {"idle", "lock", "memo", "check", "assign", "read", "unlock", "use"}]
    /\ fields \in [Workers -> FieldLists] /\ query \in [Workers -> FieldLists]
    /\ \A t \in DOMAIN memo : memo[t] \in FieldLists
    /\ mtx \in Workers \cup {NoWorker}
    /\ calls \in 0 .. MaxCalls

(* ShardStable: all Gets and Sets for one field list go to one shard, the  *)
(* one CacheHash now maps it to (spec.md §4.4: "repeated queries against   *)
(* the same metric/field-set always land on the same shard").  If two      *)
(* shards are used, the data Set on the first is never found again.        *)
ShardStable ==
    \A u \in used : u[2] = cacheHash[u[1]]

(* NoMapRace: no goroutine writes CacheHash while another is inside        *)
(* GetCacheHashValue; Go's map is not safe for that, and the runtime may   *)
(* abort the benchmark with "concurrent map writes".                       *)
NoMapRace ==
    \A w, v \in Workers :
        w # v /\ pc[w] = "assign" => pc[v] \notin {"check", "assign", "read"}

(* SegmentFaithful: once STsCacheClient has its partial segment, the field *)
(* list it hashes for the shard, builds the key from and decodes the entry *)
(* with is the one its own query asks for.  It fails if the template memo  *)
(* QueryTemplateToPartialSegment lets queries of different field lists    *)
(* share an entry, which GetQueryTemplate's "" for every query without a   *)
(* "WHERE (..) AND" tag condition does.                                    *)
SegmentFaithful ==
    \A w \in Workers :
        pc[w] \in {"check", "assign", "read", "unlock", "use"} => fields[w] = query[w]

=============================================================================
