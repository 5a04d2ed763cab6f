----------------------------- MODULE CacheService -----------------------------
(***************************************************************************)
(* What the semantic cache promises its callers (spec.md §4.5, §8), with   *)
(* no store, no remainder query and no merge: a call of a query answers in *)
(* one step, either                                                        *)
(*   - with every database row of its tags and window, after which the     *)
(*     cache knows the whole window for those tags (scenarios A-C, and     *)
(*     known-empty idempotence); or                                        *)
(*   - under the threshold rule (scenario D), from what the cache already  *)
(*     knows, when everything it does not know lies in one window no wider *)
(*     than the threshold; the cache is left as it is.                     *)
(* Answers are sets of rows: order and series shape are the merger's      *)
(* business and are checked separately.                                    *)
(***************************************************************************)
EXTENDS Integers

CONSTANTS
    Workers,     \* callers
    Tags,        \* tag-combinations of the template
    Slots,       \* time points
    Data,        \* the database contents: rows <<tag, time>>
    Queries,     \* [tags, st, et] records
    Threshold,   \* widest window the threshold rule may leave stale
    MaxQueries   \* bound on calls in a behaviour

VARIABLES
    cache,       \* cache[t]: the time points known for tag-combination t
    status,      \* status[w]: "idle", "busy" or "done"
    query,       \* query[w]: the query of w's call
    answer,      \* answer[w]: the rows w's call returned
    issued       \* calls so far

vars == <<cache, status, query, answer, issued>>

Window(q) == q.st .. q.et - 1
Rows(q) == {r \in Data : r[1] \in q.tags /\ r[2] \in Window(q)}

Issue(w) ==
    /\ status[w] \in {"idle", "done"}
    /\ issued < MaxQueries
    /\ \E q \in Queries : query' = [query EXCEPT ![w] = q]
    /\ status' = [status EXCEPT ![w] = "busy"]
    /\ answer' = [answer EXCEPT ![w] = {}]
    /\ issued' = issued + 1
    /\ UNCHANGED cache

\* The whole answer; the window becomes known for every requested tag.
AnswerFresh(w) ==
    LET q == query[w] IN
    /\ status[w] = "busy"
    /\ status' = [status EXCEPT ![w] = "done"]
    /\ answer' = [answer EXCEPT ![w] = Rows(q)]
    /\ cache' = [t \in Tags |-> IF t \in q.tags THEN cache[t] \cup Window(q)
                                ELSE cache[t]]
    /\ UNCHANGED <<query, issued>>

\* The threshold rule: some of the window is known, the rest fits in
\* [lo, hi) with hi - lo <= Threshold, and the known rows are returned.
AnswerStale(w) ==
    LET q == query[w] IN
    /\ status[w] = "busy"
    /\ \E t \in q.tags : cache[t] \cap Window(q) # {}
    /\ \E lo, hi \in Slots \cup {q.et} :
          /\ hi - lo <= Threshold
          /\ \A t \in q.tags : Window(q) \ cache[t] \subseteq lo .. hi - 1
    /\ status' = [status EXCEPT ![w] = "done"]
    /\ answer' = [answer EXCEPT ![w] = {r \in Rows(q) : r[2] \in cache[r[1]]}]
    /\ UNCHANGED <<cache, query, issued>>

Init ==
    /\ cache = [t \in Tags |-> {}]
    /\ status = [w \in Workers |-> "idle"]
    /\ query \in [Workers -> Queries]
    /\ answer = [w \in Workers |-> {}]
    /\ issued = 0

Next ==
    \E w \in Workers : Issue(w) \/ AnswerFresh(w) \/ AnswerStale(w)

Spec == Init /\ [][Next]_vars

=============================================================================
