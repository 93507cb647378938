----------------------------- MODULE FleetCache -----------------------------
(***************************************************************************)
(* CachingClient (internal/fleet/cache.go): a stale-while-revalidate cache *)
(* in front of the upstream fleet API, read by concurrent HTTP handlers.   *)
(*                                                                         *)
(* A process is a goroutine: a reader runs getCached for one request after *)
(* another, a refresher is a goroutine spawned by a stale hit.  One action *)
(* is one access to state that goroutines share: the clock, the items map  *)
(* under its lock, the refreshing set, the singleflight group.  What lies  *)
(* between two such accesses is local and belongs to the earlier one.      *)
(*                                                                         *)
(* A cached value is the instant whose fleet it describes: the moment the  *)
(* upstream produced it.  A larger value is newer data.                    *)
(***************************************************************************)
EXTENDS Integers, Sequences

CONSTANTS
    Keys,             (* cache keys, endpoint|suffix                          *)
    SlowKeys,         (* the keys of the slow tier: meta, policy_meta, ...    *)
    Readers,          (* request goroutines                                   *)
    Refreshers,       (* pool the background goroutines are drawn from        *)
    None,             (* no entry, no leader, no result                       *)
    TTL, MaxStale,    (* CacheConfig: the live tier's window                  *)
    SlowTier,         (* slowTierMultiplier                                   *)
    MaxEntries,       (* CacheConfig.MaxEntries                               *)
    UpstreamTimeout,  (* the upstream http.Client's Timeout                   *)
    MaxTime           (* bound: the clock stops here                          *)

Procs == Readers \cup Refreshers

Entry  == [val : Nat, at : Nat]
Result == [val : Nat, err : {"none", "retryable", "terminal"}]
Reply  == [how : {"none", "fresh", "stale", "fetched", "degraded", "failed"},
           key : Keys \cup {None}, val : Nat]

ASSUME CacheAssumption ==
    /\ SlowKeys \subseteq Keys
    /\ Readers \cap Refreshers = {}
    /\ None \notin Procs \cup Entry
    /\ TTL \in Nat \ {0} /\ MaxStale \in Nat \ {0} /\ SlowTier \in Nat \ {0}
    /\ MaxEntries \in Nat \ {0}
    /\ UpstreamTimeout \in Nat
    /\ MaxTime \in Nat

VARIABLES
    now,         (* the clock                                                *)
    items,       (* key -> cached entry, or None                             *)
    order,       (* the keys of items, oldest fetched first                  *)
    refreshing,  (* keys with a background refresh in flight                 *)
    sf,          (* singleflight.Group: key -> goroutine leading the call    *)
    pc, key,     (* where each goroutine is, and for which key               *)
    clock,       (* the time a reader took before its lookup                 *)
    seen,        (* the entry a reader copied out under the read lock        *)
    leader,      (* the goroutine whose singleflight call it waits on        *)
    started,     (* when a leader sent its upstream request                  *)
    got,         (* what a leader's fetch came back with                     *)
    reply        (* the last thing a reader returned to its caller           *)

shared == <<items, order, refreshing, sf>>
locals == <<clock, seen, leader, started, got>>
vars == <<now, shared, pc, key, locals, reply>>

InFlight == {"asking", "answered", "finishing"}

TypeOK ==
    /\ now \in Nat
    /\ items \in [Keys -> Entry \cup {None}]
    /\ order \in Seq(Keys)
    /\ refreshing \subseteq Keys
    /\ sf \in [Keys -> Procs \cup {None}]
    /\ pc \in [Procs -> {"idle", "lookup", "stale", "do", "waiting", "cleanup"} \cup InFlight]
    /\ key \in [Procs -> Keys \cup {None}]
    /\ clock \in [Procs -> Nat]
    /\ seen \in [Procs -> Entry \cup {None}]
    /\ leader \in [Procs -> Procs \cup {None}]
    /\ started \in [Procs -> Nat]
    /\ got \in [Procs -> Result \cup {None}]
    /\ reply \in [Readers -> Reply]

Init ==
    /\ now = 0
    /\ items = [k \in Keys |-> None]
    /\ order = << >>
    /\ refreshing = {}
    /\ sf = [k \in Keys |-> None]
    /\ pc = [p \in Procs |-> "idle"]
    /\ key = [p \in Procs |-> None]
    /\ clock = [p \in Procs |-> 0]
    /\ seen = [p \in Procs |-> None]
    /\ leader = [p \in Procs |-> None]
    /\ started = [p \in Procs |-> 0]
    /\ got = [p \in Procs |-> None]
    /\ reply = [r \in Readers |-> [how |-> "none", key |-> None, val |-> 0]]

(* buildPolicies and policyFor: the window of a key's endpoint. *)
Scale(k) == IF k \in SlowKeys THEN SlowTier ELSE 1
Ttl(k)   == Scale(k) * TTL
Limit(k) == Scale(k) * MaxStale

(* A goroutine's locals die with its call. *)
Discard(Q) ==
    /\ clock'   = [p \in Procs |-> IF p \in Q THEN 0 ELSE clock[p]]
    /\ seen'    = [p \in Procs |-> IF p \in Q THEN None ELSE seen[p]]
    /\ leader'  = [p \in Procs |-> IF p \in Q THEN None ELSE leader[p]]
    /\ started' = [p \in Procs |-> IF p \in Q THEN 0 ELSE started[p]]
    /\ got'     = [p \in Procs |-> IF p \in Q THEN None ELSE got[p]]

-----------------------------------------------------------------------------
(* getCached, up to the branch on the entry's age. *)

(* A request arrives and takes the time, before the read lock. *)
Begin(r, k) ==
    /\ pc[r] = "idle"
    /\ pc' = [pc EXCEPT ![r] = "lookup"]
    /\ key' = [key EXCEPT ![r] = k]
    /\ clock' = [clock EXCEPT ![r] = now]
    /\ UNCHANGED <<now, shared, seen, leader, started, got, reply>>

Age(r) == clock[r] - items[key[r]].at

(* Younger than the TTL: return the cached value. *)
HitFresh(r) ==
    /\ pc[r] = "lookup"
    /\ items[key[r]] # None
    /\ Age(r) < Ttl(key[r])
    /\ pc' = [pc EXCEPT ![r] = "idle"]
    /\ reply' = [reply EXCEPT ![r] =
                    [how |-> "fresh", key |-> key[r], val |-> items[key[r]].val]]
    /\ Discard({r})
    /\ UNCHANGED <<now, shared, key>>

(* Variant: no upper limit on the age of what is served stale.                *)
HitStaleUnlimited(r) ==
    /\ pc[r] = "lookup"
    /\ items[key[r]] # None
    /\ Age(r) >= Ttl(key[r])
    /\ pc' = [pc EXCEPT ![r] = "stale"]
    /\ seen' = [seen EXCEPT ![r] = items[key[r]]]
    /\ UNCHANGED <<now, shared, key, clock, leader, started, got, reply>>

(* Younger than MaxStale: hold a copy, go on to the refreshing guard. *)
HitStale(r) ==
    /\ pc[r] = "lookup"
    /\ items[key[r]] # None
    /\ Age(r) >= Ttl(key[r])
    /\ Age(r) < Limit(key[r])
    /\ pc' = [pc EXCEPT ![r] = "stale"]
    /\ seen' = [seen EXCEPT ![r] = items[key[r]]]
    /\ UNCHANGED <<now, shared, key, clock, leader, started, got, reply>>

(* Absent, or too old to serve: block on the fetch, the copy kept. *)
MustFetch(r) ==
    /\ pc[r] = "lookup"
    /\ items[key[r]] # None => Age(r) >= Ttl(key[r]) /\ Age(r) >= Limit(key[r])
    /\ pc' = [pc EXCEPT ![r] = "do"]
    /\ seen' = [seen EXCEPT ![r] = items[key[r]]]
    /\ UNCHANGED <<now, shared, key, clock, leader, started, got, reply>>

(* Every stale reader returns its copy at once...                             *)
ReplyStale(r) ==
    /\ pc[r] = "stale"
    /\ reply' = [reply EXCEPT ![r] =
                    [how |-> "stale", key |-> key[r], val |-> seen[r].val]]
    /\ Discard({r})

(* Variant: the refreshing guard is not consulted.                            *)
SpawnAlways(r, g) ==
    /\ ReplyStale(r)
    /\ pc[g] = "idle"
    /\ refreshing' = refreshing \cup {key[r]}
    /\ pc' = [pc EXCEPT ![r] = "idle", ![g] = "do"]
    /\ key' = [key EXCEPT ![g] = key[r]]
    /\ UNCHANGED <<now, items, order, sf>>

(* ... the first, by refreshing.LoadOrStore, having spawned the refresh.      *)
SpawnRefresh(r, g) ==
    /\ ReplyStale(r)
    /\ key[r] \notin refreshing
    /\ pc[g] = "idle"
    /\ refreshing' = refreshing \cup {key[r]}
    /\ pc' = [pc EXCEPT ![r] = "idle", ![g] = "do"]
    /\ key' = [key EXCEPT ![g] = key[r]]
    /\ UNCHANGED <<now, items, order, sf>>

SkipRefresh(r) ==
    /\ ReplyStale(r)
    /\ key[r] \in refreshing
    /\ pc' = [pc EXCEPT ![r] = "idle"]
    /\ UNCHANGED <<now, shared, key>>

(* Variant: the goroutine ends without freeing its key.                       *)
CleanUpKeepsMark(g) ==
    /\ pc[g] = "cleanup"
    /\ pc' = [pc EXCEPT ![g] = "idle"]
    /\ key' = [key EXCEPT ![g] = None]
    /\ UNCHANGED <<now, shared, locals, reply>>

(* The goroutine's deferred refreshing.Delete. *)
CleanUp(g) ==
    /\ pc[g] = "cleanup"
    /\ pc' = [pc EXCEPT ![g] = "idle"]
    /\ refreshing' = refreshing \ {key[g]}
    /\ key' = [key EXCEPT ![g] = None]
    /\ UNCHANGED <<now, items, order, sf, locals, reply>>

-----------------------------------------------------------------------------
(* singleflight.Group.Do(key, fetchStore). *)

(* Variant: every caller fetches for itself.                                  *)
LeadAlways(p) ==
    /\ pc[p] = "do"
    /\ sf' = [sf EXCEPT ![key[p]] = p]
    /\ pc' = [pc EXCEPT ![p] = "asking"]
    /\ started' = [started EXCEPT ![p] = now]
    /\ UNCHANGED <<now, items, order, refreshing, key, clock, seen, leader, got, reply>>

(* No call for the key is in flight: lead one, and send the request...        *)
Lead(p) ==
    /\ pc[p] = "do"
    /\ sf[key[p]] = None
    /\ sf' = [sf EXCEPT ![key[p]] = p]
    /\ pc' = [pc EXCEPT ![p] = "asking"]
    /\ started' = [started EXCEPT ![p] = now]
    /\ UNCHANGED <<now, items, order, refreshing, key, clock, seen, leader, got, reply>>

(* ... or wait on the one in flight.                                          *)
Follow(p) ==
    /\ pc[p] = "do"
    /\ sf[key[p]] # None
    /\ pc' = [pc EXCEPT ![p] = "waiting"]
    /\ leader' = [leader EXCEPT ![p] = sf[key[p]]]
    /\ UNCHANGED <<now, shared, key, clock, seen, started, got, reply>>

(* The upstream answers with its state of this instant... *)
UpstreamServes(p) ==
    /\ pc[p] = "asking"
    /\ pc' = [pc EXCEPT ![p] = "answered"]
    /\ got' = [got EXCEPT ![p] = [val |-> now, err |-> "none"]]
    /\ UNCHANGED <<now, shared, key, clock, seen, leader, started, reply>>

(* ... or the fetch fails: nothing is stored. *)
UpstreamFails(p) ==
    /\ pc[p] = "asking"
    /\ pc' = [pc EXCEPT ![p] = "finishing"]
    /\ \E e \in {"retryable", "terminal"} :
          got' = [got EXCEPT ![p] = [val |-> 0, err |-> e]]
    /\ UNCHANGED <<now, shared, key, clock, seen, leader, started, reply>>

(* Variant: a refreshed entry keeps its place.                                *)
StayInPlace(o, k) == o

MoveToBack(o, k) ==
    LET i == CHOOSE j \in 1..Len(o) : o[j] = k
    IN  [j \in 1..Len(o) |-> IF j < i THEN o[j]
                             ELSE IF j < Len(o) THEN o[j + 1] ELSE k]

(* Variant: eviction starts one entry late.                                   *)
OverflowLate(o) == IF Len(o) > MaxEntries + 1 THEN Len(o) - MaxEntries ELSE 0

Overflow(o) == IF Len(o) > MaxEntries THEN Len(o) - MaxEntries ELSE 0

(* store, under the write lock: stamp, move to the back, evict from the front. *)
Stamp(p) == now

Store(p) ==
    /\ pc[p] = "answered"
    /\ pc' = [pc EXCEPT ![p] = "finishing"]
    /\ LET k == key[p]
           o == IF items[k] # None THEN MoveToBack(order, k) ELSE Append(order, k)
           evicted == {o[i] : i \in 1..Overflow(o)}
       IN  /\ order' = SubSeq(o, Overflow(o) + 1, Len(o))
           /\ items' = [x \in Keys |->
                 IF x \in evicted THEN None
                 ELSE IF x = k THEN [val |-> got[p].val, at |-> Stamp(p)]
                 ELSE items[x]]
    /\ UNCHANGED <<now, refreshing, sf, key, locals, reply>>

(* Variants: the error is not looked at; every error is masked.               *)
OutcomeUnchecked(r, res) ==
    [how |-> "fetched", key |-> key[r],
     val |-> IF res.err = "none" THEN res.val ELSE None]
OutcomeMasked(r, res) ==
    IF res.err = "none" THEN [how |-> "fetched", key |-> key[r], val |-> res.val]
    ELSE IF seen[r] # None
         THEN [how |-> "degraded", key |-> key[r], val |-> seen[r].val]
         ELSE [how |-> "failed", key |-> key[r], val |-> 0]

(* What a reader whose blocking Do came back with res returns: the value, the *)
(* error, or its old copy when the error is transient.                        *)
Outcome(r, res) ==
    IF res.err = "none" THEN [how |-> "fetched", key |-> key[r], val |-> res.val]
    ELSE IF seen[r] # None /\ res.err = "retryable"
         THEN [how |-> "degraded", key |-> key[r], val |-> seen[r].val]
         ELSE [how |-> "failed", key |-> key[r], val |-> 0]

(* Variant: the followers are not woken.                                      *)
WokenAlone(p) == {p}

Woken(p) == {p} \cup {q \in Procs : pc[q] = "waiting" /\ leader[q] = p}

(* The call leaves the group, and its leader and followers go on with its     *)
(* result: readers return, refreshers run their deferred clean-up.            *)
Finish(p) ==
    /\ pc[p] = "finishing"
    /\ sf' = [sf EXCEPT ![key[p]] = None]
    /\ pc' = [q \in Procs |-> IF q \notin Woken(p) THEN pc[q]
                              ELSE IF q \in Readers THEN "idle" ELSE "cleanup"]
    /\ reply' = [r \in Readers |-> IF r \in Woken(p) THEN Outcome(r, got[p])
                                   ELSE reply[r]]
    /\ Discard(Woken(p))
    /\ UNCHANGED <<now, items, order, refreshing, key>>

-----------------------------------------------------------------------------

(* Time passes, except that an upstream call never outlives the HTTP client's *)
(* timeout; the in-process steps that follow its answer take no time of note. *)
Tick ==
    /\ now < MaxTime
    /\ \A p \in Procs : pc[p] \in InFlight => now - started[p] < UpstreamTimeout
    /\ now' = now + 1
    /\ UNCHANGED <<shared, pc, key, locals, reply>>

Fetch(p) ==
    \/ Lead(p) \/ Follow(p)
    \/ UpstreamServes(p) \/ UpstreamFails(p)
    \/ Store(p)
    \/ Finish(p)

Serve(r) ==
    \/ HitFresh(r) \/ HitStale(r) \/ MustFetch(r)
    \/ SkipRefresh(r)
    \/ \E g \in Refreshers : SpawnRefresh(r, g)

(* The steps of a request once it has arrived, and of a refresh once spawned. *)
Work(p) ==
    \/ Fetch(p)
    \/ p \in Readers /\ Serve(p)
    \/ p \in Refreshers /\ CleanUp(p)

Next ==
    \/ Tick
    \/ \E r \in Readers, k \in Keys : Begin(r, k)
    \/ \E p \in Procs : Work(p)

(* Goroutines are scheduled, and the client's timeout makes every upstream    *)
(* call come back.  Nothing obliges a request to arrive or time to pass.      *)
Fairness == \A p \in Procs : WF_vars(Work(p))

Spec == Init /\ [][Next]_vars /\ Fairness
-----------------------------------------------------------------------------
(* Properties. *)

(* The items map and the order list always hold the same keys, each once, and *)
(* never more of them than MaxEntries: an entry that was moved or evicted in  *)
(* one structure and not in the other would leak or be evicted twice.         *)
CacheBounded ==
    /\ Len(order) <= MaxEntries
    /\ \A k \in Keys : items[k] # None <=> \E i \in 1..Len(order) : order[i] = k
    /\ \A i, j \in 1..Len(order) : order[i] = order[j] => i = j

(* "front = oldest fetchedAt, back = newest": what store evicts is the entry  *)
(* fetched longest ago, whatever the order in which concurrent fetches for    *)
(* different keys began and ended.                                            *)
OldestFirst ==
    \A i, j \in 1..Len(order) : i < j => items[order[i]].at <= items[order[j]].at

Refresh(g, k) == pc[g] # "idle" /\ key[g] = k

(* The refreshing guard: at most one background refresh per key, and the key  *)
(* is marked exactly while that goroutine lives.  A mark left behind would    *)
(* end background revalidation of the key for good.                           *)
OneRefreshPerKey ==
    /\ \A k \in Keys : k \in refreshing <=> \E g \in Refreshers : Refresh(g, k)
    /\ \A k \in Keys, g, h \in Refreshers : Refresh(g, k) /\ Refresh(h, k) => g = h

(* Single-flight holds from the request to the end of the store: no two       *)
(* goroutines are fetching or storing the same key at once.                   *)
OneFetchPerKey ==
    \A p, q \in Procs :
        pc[p] \in InFlight /\ pc[q] \in InFlight /\ key[p] = key[q] => p = q

(* An entry is stamped when it is stored, not when the upstream produced it,  *)
(* so its age understates the age of the data, but by no more than one        *)
(* upstream timeout.                                                          *)
StampedNearData ==
    \A k \in Keys : items[k] # None =>
        items[k].val <= items[k].at /\ items[k].at - items[k].val <= UpstreamTimeout

(* Replacing an entry never replaces newer data by older, although foreground *)
(* fetches and background refreshes store independently.                      *)
CacheNeverRegresses ==
    [][\A k \in Keys : items[k] # None /\ items'[k] # None =>
            items'[k].val >= items[k].val]_vars

Answered(r) == pc[r] # "idle" /\ pc'[r] = "idle"

(* A client that polls one key sequentially never sees the fleet go back in   *)
(* time, across fresh and stale hits, shared fetches, evictions in between    *)
(* and degraded replies.                                                      *)
MonotonicReads ==
    [][\A r \in Readers :
            /\ Answered(r)
            /\ reply'[r].key = reply[r].key
            /\ reply[r].how \notin {"none", "failed"}
            /\ reply'[r].how # "failed"
            => reply'[r].val >= reply[r].val]_vars

(* What is served without waiting or straight from a fetch describes the      *)
(* fleet no longer ago than the window of the key plus one upstream timeout;  *)
(* only a degraded reply may be older, and only once the entry has left its   *)
(* window.                                                                    *)
ServedWithinWindow ==
    [][\A r \in Readers : Answered(r) =>
            CASE reply'[r].how = "fresh" ->
                   clock[r] - reply'[r].val < Ttl(key[r]) + UpstreamTimeout
              [] reply'[r].how = "stale" ->
                   clock[r] - reply'[r].val < Limit(key[r]) + UpstreamTimeout
              [] reply'[r].how = "fetched" ->
                   clock[r] - reply'[r].val <= UpstreamTimeout
              [] OTHER -> reply'[r].how = "degraded" =>
                   clock[r] - seen[r].at >= Limit(key[r])]_vars

(* "Terminal errors must surface, never be masked": when a fetch ends with    *)
(* one, none of the readers that shared it gets a value, old or new.          *)
TerminalErrorsSurface ==
    [][\A p \in Procs, r \in Readers :
            /\ pc[p] = "finishing" /\ got[p].err = "terminal" /\ pc'[p] # "finishing"
            /\ Answered(r) /\ key[r] = key[p]
            /\ r = p \/ pc[r] = "waiting"
            => reply'[r].how = "failed"]_vars

(* Every request is answered: no follower waits for a call that has gone.     *)
EveryRequestAnswered == \A r \in Readers : pc[r] # "idle" ~> pc[r] = "idle"

(* Every background refresh ends and frees its key for the next one.          *)
EveryRefreshEnds == \A k \in Keys : k \in refreshing ~> k \notin refreshing

-----------------------------------------------------------------------------
(* What the comments of cache.go say and the code does not do. *)

(* "Degrade to the last-known value": a degraded reply is at least as new as  *)
(* what the cache holds.  The code returns the copy taken before the wait.    *)
DegradesToLastKnown ==
    [][\A r \in Readers :
            Answered(r) /\ reply'[r].how = "degraded" /\ items[key[r]] # None
            => reply'[r].val >= items[key[r]].val]_vars
=============================================================================
