-------------------------- MODULE FleetCacheProofs --------------------------
(***************************************************************************)
(* Safety of FleetCache for every set of keys, readers and refreshers and  *)
(* every value of the windows and the timeout.                             *)
(*                                                                         *)
(* The properties are not inductive.  SInv adds which goroutine may be     *)
(* where, that the singleflight map and the goroutines inside a call agree *)
(* (SFInv), that the refreshing set and the refreshers agree (RefreshInv), *)
(* and how the times in an entry and in a call relate (TimeInv): a call    *)
(* that has its answer carries data no older than what the cache holds.    *)
(* From SFInv nobody waits for a call that nobody makes, and from          *)
(* RefreshInv no more refreshes run than there are keys.                   *)
(*                                                                         *)
(* The two structures of the cache are for the end: the items map and the  *)
(* order list hold the same keys, each once, never more than MaxEntries,   *)
(* and the list is in order of stamps.  Only store changes them.  It makes *)
(* a key the last of the list, moving or appending it, and cuts the list   *)
(* from the front.                                                         *)
(***************************************************************************)
EXTENDS FleetCache, FiniteSetTheorems, TLAPS

Role ==
    /\ \A r \in Readers : pc[r] # "cleanup"
    /\ \A g \in Refreshers : pc[g] \notin {"lookup", "stale"}
    /\ \A p \in Procs : pc[p] # "idle" => key[p] \in Keys
    /\ \A p \in Procs : pc[p] = "stale" => seen[p] # None
    /\ \A p \in Procs : pc[p] = "waiting" => leader[p] \in Procs
    /\ \A p \in Procs : pc[p] = "answered" => got[p] \in Result /\ got[p].err = "none"
    /\ \A p \in Procs : pc[p] = "finishing" => got[p] \in Result

SFInv ==
    /\ \A p \in Procs : pc[p] \in InFlight => sf[key[p]] = p
    /\ \A k \in Keys : sf[k] # None => pc[sf[k]] \in InFlight /\ key[sf[k]] = k
    /\ \A p \in Procs : pc[p] = "waiting" =>
            pc[leader[p]] \in InFlight /\ key[leader[p]] = key[p]

RefreshInv ==
    /\ \A g \in Refreshers : pc[g] # "idle" => key[g] \in refreshing
    /\ \A k \in refreshing : \E g \in Refreshers : Refresh(g, k)
    /\ \A g, h \in Refreshers :
            pc[g] # "idle" /\ pc[h] # "idle" /\ key[g] = key[h] => g = h

TimeInv ==
    /\ \A k \in Keys : items[k] # None =>
            /\ items[k].val <= items[k].at
            /\ items[k].at <= now
            /\ items[k].at - items[k].val <= UpstreamTimeout
    /\ \A p \in Procs : pc[p] \in InFlight =>
            started[p] <= now /\ now - started[p] <= UpstreamTimeout
    /\ \A p \in Procs : pc[p] = "answered" =>
            /\ started[p] <= got[p].val
            /\ got[p].val <= now
            /\ items[key[p]] # None => items[key[p]].val <= got[p].val

SInv == Role /\ SFInv /\ RefreshInv /\ TimeInv

IInv == TypeOK /\ SInv

-----------------------------------------------------------------------------
(* The sequence operators of store keep the order list a list of keys. *)

LEMMA MoveToBackType ==
    ASSUME NEW o \in Seq(Keys), NEW k \in Keys
    PROVE  MoveToBack(o, k) \in Seq(Keys) /\ Len(MoveToBack(o, k)) = Len(o)
<1>1. \A j \in 1..Len(o) : o[j] \in Keys
  OBVIOUS
<1>. QED  BY <1>1 DEF MoveToBack

LEMMA OverflowType ==
    ASSUME NEW o \in Seq(Keys)
    PROVE  Overflow(o) \in Nat /\ Overflow(o) <= Len(o)
BY CacheAssumption DEF Overflow

LEMMA EvictType ==
    ASSUME NEW o \in Seq(Keys)
    PROVE  SubSeq(o, Overflow(o) + 1, Len(o)) \in Seq(Keys)
<1>1. \A j \in 1..Len(o) : o[j] \in Keys
  OBVIOUS
<1>. QED  BY <1>1, OverflowType

LEMMA DiscardType ==
    ASSUME NEW Q, TypeOK, Discard(Q)
    PROVE  /\ clock' \in [Procs -> Nat]
           /\ seen' \in [Procs -> Entry \cup {None}]
           /\ leader' \in [Procs -> Procs \cup {None}]
           /\ started' \in [Procs -> Nat]
           /\ got' \in [Procs -> Result \cup {None}]
BY DEF TypeOK, Discard

LEMMA TypeStep == TypeOK /\ Role /\ [Next]_vars => TypeOK'
<1>. SUFFICES ASSUME TypeOK, Role, [Next]_vars PROVE TypeOK'
  OBVIOUS
<1>. USE DEF TypeOK, Role, Entry, Result, Reply, InFlight, Procs
<1>1. CASE Tick
  BY <1>1 DEF Tick, shared, locals
<1>2. ASSUME NEW r \in Readers, NEW k \in Keys, Begin(r, k) PROVE TypeOK'
  BY <1>2 DEF Begin, shared
<1>3. ASSUME NEW r \in Readers, HitFresh(r) PROVE TypeOK'
  BY <1>3 DEF HitFresh, shared, locals, Discard
<1>4. ASSUME NEW r \in Readers, HitStale(r) PROVE TypeOK'
  BY <1>4 DEF HitStale, shared, locals, Discard
<1>5. ASSUME NEW r \in Readers, MustFetch(r) PROVE TypeOK'
  BY <1>5 DEF MustFetch, shared, locals, Discard
<1>6. ASSUME NEW r \in Readers, NEW g \in Refreshers, SpawnRefresh(r, g) PROVE TypeOK'
  <2>1. seen[r] \in Entry /\ key[r] \in Keys
    BY <1>6 DEF SpawnRefresh, ReplyStale
  <2>2. pc' \in [Procs -> {"idle", "lookup", "stale", "do", "waiting", "cleanup"} \cup InFlight]
    BY <1>6 DEF SpawnRefresh, ReplyStale
  <2>3. key' \in [Procs -> Keys \cup {None}] /\ refreshing' \subseteq Keys
    BY <1>6, <2>1 DEF SpawnRefresh, ReplyStale
  <2>4. reply' \in [Readers -> Reply]
    BY <1>6, <2>1 DEF SpawnRefresh, ReplyStale
  <2>. QED  BY <1>6, <2>2, <2>3, <2>4, DiscardType DEF SpawnRefresh, ReplyStale
<1>7. ASSUME NEW r \in Readers, SkipRefresh(r) PROVE TypeOK'
  BY <1>7 DEF SkipRefresh, ReplyStale, shared, Discard
<1>8. ASSUME NEW g \in Refreshers, CleanUp(g) PROVE TypeOK'
  BY <1>8 DEF CleanUp, shared, locals, Discard
<1>9. ASSUME NEW p \in Procs, Lead(p) PROVE TypeOK'
  BY <1>9 DEF Lead
<1>10. ASSUME NEW p \in Procs, Follow(p) PROVE TypeOK'
  BY <1>10 DEF Follow, shared
<1>11. ASSUME NEW p \in Procs, UpstreamServes(p) PROVE TypeOK'
  BY <1>11 DEF UpstreamServes, shared, locals, Discard
<1>12. ASSUME NEW p \in Procs, UpstreamFails(p) PROVE TypeOK'
  BY <1>12 DEF UpstreamFails, shared, locals, Discard
<1>13. ASSUME NEW p \in Procs, Store(p) PROVE TypeOK'
  <2>. DEFINE o == IF items[key[p]] # None THEN MoveToBack(order, key[p])
                   ELSE Append(order, key[p])
              evicted == {o[i] : i \in 1..Overflow(o)}
  <2>1. key[p] \in Keys /\ got[p] \in Result
    BY <1>13 DEF Store
  <2>2. o \in Seq(Keys)
    BY <2>1, MoveToBackType
  <2>3. order' \in Seq(Keys)
    BY <1>13, <2>2, EvictType DEF Store
  <2>4. items' = [x \in Keys |->
                    IF x \in evicted THEN None
                    ELSE IF x = key[p] THEN [val |-> got[p].val, at |-> now]
                    ELSE items[x]]
    BY <1>13 DEF Store, Stamp
  <2>5. items' \in [Keys -> Entry \cup {None}]
    BY <2>1, <2>4
  <2>. QED  BY <1>13, <2>3, <2>5 DEF Store, locals
<1>14. ASSUME NEW p \in Procs, Finish(p) PROVE TypeOK'
  <2>1. got[p] \in Result
    BY <1>14 DEF Finish
  <2>2. \A r \in Readers : Outcome(r, got[p]) \in Reply
    BY <2>1 DEF Outcome
  <2>3. reply' \in [Readers -> Reply]
    BY <1>14, <2>2 DEF Finish
  <2>4. pc' \in [Procs -> {"idle", "lookup", "stale", "do", "waiting", "cleanup"} \cup InFlight]
    BY <1>14 DEF Finish
  <2>5. sf' \in [Keys -> Procs \cup {None}]
    BY <1>14 DEF Finish
  <2>. QED  BY <1>14, <2>3, <2>4, <2>5, DiscardType DEF Finish
<1>15. CASE UNCHANGED vars
  BY <1>15 DEF vars, shared, locals
<1>. QED  BY <1>1, <1>2, <1>3, <1>4, <1>5, <1>6, <1>7, <1>8, <1>9, <1>10, <1>11, <1>12, <1>13, <1>14, <1>15
     DEF Next, Work, Fetch, Serve

LEMMA RoleStep == TypeOK /\ Role /\ [Next]_vars => Role'
<1>. SUFFICES ASSUME TypeOK, Role, [Next]_vars PROVE Role'
  OBVIOUS
<1>. USE CacheAssumption DEF TypeOK, Role, Result, InFlight, Procs
<1>1. CASE Tick
  BY <1>1 DEF Tick, shared, locals
<1>2. ASSUME NEW r \in Readers, NEW k \in Keys, Begin(r, k) PROVE Role'
  BY <1>2 DEF Begin, shared
<1>3. ASSUME NEW r \in Readers, HitFresh(r) PROVE Role'
  BY <1>3 DEF HitFresh, shared, Discard
<1>4. ASSUME NEW r \in Readers, HitStale(r) PROVE Role'
  BY <1>4 DEF HitStale, shared
<1>5. ASSUME NEW r \in Readers, MustFetch(r) PROVE Role'
  BY <1>5 DEF MustFetch, shared
<1>6. ASSUME NEW r \in Readers, NEW g \in Refreshers, SpawnRefresh(r, g) PROVE Role'
  BY <1>6 DEF SpawnRefresh, ReplyStale, Discard
<1>7. ASSUME NEW r \in Readers, SkipRefresh(r) PROVE Role'
  BY <1>7 DEF SkipRefresh, ReplyStale, shared, Discard
<1>8. ASSUME NEW g \in Refreshers, CleanUp(g) PROVE Role'
  BY <1>8 DEF CleanUp, locals
<1>9. ASSUME NEW p \in Procs, Lead(p) PROVE Role'
  BY <1>9 DEF Lead
<1>10. ASSUME NEW p \in Procs, Follow(p) PROVE Role'
  BY <1>10 DEF Follow, shared
<1>11. ASSUME NEW p \in Procs, UpstreamServes(p) PROVE Role'
  BY <1>11 DEF UpstreamServes, shared
<1>12. ASSUME NEW p \in Procs, UpstreamFails(p) PROVE Role'
  BY <1>12 DEF UpstreamFails, shared
<1>13. ASSUME NEW p \in Procs, Store(p) PROVE Role'
  BY <1>13 DEF Store, locals
<1>14. ASSUME NEW p \in Procs, Finish(p) PROVE Role'
  BY <1>14 DEF Finish, Discard, Woken
<1>15. CASE UNCHANGED vars
  BY <1>15 DEF vars, shared, locals
<1>. QED
  BY <1>1, <1>2, <1>3, <1>4, <1>5, <1>6, <1>7, <1>8,
     <1>9, <1>10, <1>11, <1>12, <1>13, <1>14, <1>15
     DEF Next, Work, Fetch, Serve

LEMMA SFStep == TypeOK /\ Role /\ SFInv /\ [Next]_vars => SFInv'
<1>. SUFFICES ASSUME TypeOK, Role, SFInv, [Next]_vars PROVE SFInv'
  OBVIOUS
<1>. USE CacheAssumption DEF TypeOK, Role, SFInv, InFlight
<1>1. CASE Tick
  BY <1>1 DEF Tick, shared, locals
<1>2. ASSUME NEW r \in Readers, NEW k \in Keys, Begin(r, k) PROVE SFInv'
  BY <1>2 DEF Begin, shared
<1>3. ASSUME NEW r \in Readers, HitFresh(r) PROVE SFInv'
  BY <1>3 DEF HitFresh, shared, Discard
<1>4. ASSUME NEW r \in Readers, HitStale(r) PROVE SFInv'
  BY <1>4 DEF HitStale, shared
<1>5. ASSUME NEW r \in Readers, MustFetch(r) PROVE SFInv'
  BY <1>5 DEF MustFetch, shared
<1>6. ASSUME NEW r \in Readers, NEW g \in Refreshers, SpawnRefresh(r, g) PROVE SFInv'
  <2>1. pc[r] = "stale" /\ pc[g] = "idle"
    BY <1>6 DEF SpawnRefresh, ReplyStale
  <2>2. \A p \in Procs : pc[p] \in InFlight \cup {"waiting"} =>
            pc'[p] = pc[p] /\ key'[p] = key[p] /\ leader'[p] = leader[p]
    BY <1>6, <2>1 DEF SpawnRefresh, ReplyStale, Discard
  <2>3. \A p \in Procs : pc'[p] \in InFlight \cup {"waiting"} => pc'[p] = pc[p]
    BY <1>6, <2>1 DEF SpawnRefresh
  <2>4. UNCHANGED sf
    BY <1>6 DEF SpawnRefresh
  <2>. QED  BY <2>2, <2>3, <2>4
<1>7. ASSUME NEW r \in Readers, SkipRefresh(r) PROVE SFInv'
  BY <1>7 DEF SkipRefresh, ReplyStale, shared, Discard
<1>8. ASSUME NEW g \in Refreshers, CleanUp(g) PROVE SFInv'
  BY <1>8 DEF CleanUp, locals
<1>9. ASSUME NEW p \in Procs, Lead(p) PROVE SFInv'
  BY <1>9 DEF Lead
<1>10. ASSUME NEW p \in Procs, Follow(p) PROVE SFInv'
  BY <1>10 DEF Follow, shared
<1>11. ASSUME NEW p \in Procs, UpstreamServes(p) PROVE SFInv'
  BY <1>11 DEF UpstreamServes, shared
<1>12. ASSUME NEW p \in Procs, UpstreamFails(p) PROVE SFInv'
  BY <1>12 DEF UpstreamFails, shared
<1>13. ASSUME NEW p \in Procs, Store(p) PROVE SFInv'
  BY <1>13 DEF Store, locals
<1>14. ASSUME NEW p \in Procs, Finish(p) PROVE SFInv'
  BY <1>14 DEF Finish, Discard, Woken
<1>15. CASE UNCHANGED vars
  BY <1>15 DEF vars, shared, locals
<1>. QED
  BY <1>1, <1>2, <1>3, <1>4, <1>5, <1>6, <1>7, <1>8,
     <1>9, <1>10, <1>11, <1>12, <1>13, <1>14, <1>15
     DEF Next, Work, Fetch, Serve

LEMMA RefreshStep == TypeOK /\ Role /\ RefreshInv /\ [Next]_vars => RefreshInv'
<1>. SUFFICES ASSUME TypeOK, Role, RefreshInv, [Next]_vars PROVE RefreshInv'
  OBVIOUS
<1>. USE CacheAssumption DEF TypeOK, Role, RefreshInv, Refresh, Procs
<1>1. CASE Tick
  BY <1>1 DEF Tick, shared, locals
<1>2. ASSUME NEW r \in Readers, NEW k \in Keys, Begin(r, k) PROVE RefreshInv'
  BY <1>2 DEF Begin, shared
<1>3. ASSUME NEW r \in Readers, HitFresh(r) PROVE RefreshInv'
  BY <1>3 DEF HitFresh, shared, Discard
<1>4. ASSUME NEW r \in Readers, HitStale(r) PROVE RefreshInv'
  BY <1>4 DEF HitStale, shared
<1>5. ASSUME NEW r \in Readers, MustFetch(r) PROVE RefreshInv'
  BY <1>5 DEF MustFetch, shared
<1>6. ASSUME NEW r \in Readers, NEW g \in Refreshers, SpawnRefresh(r, g) PROVE RefreshInv'
  BY <1>6 DEF SpawnRefresh, ReplyStale, Discard
<1>7. ASSUME NEW r \in Readers, SkipRefresh(r) PROVE RefreshInv'
  BY <1>7 DEF SkipRefresh, ReplyStale, shared, Discard
<1>8. ASSUME NEW g \in Refreshers, CleanUp(g) PROVE RefreshInv'
  BY <1>8 DEF CleanUp, locals
<1>9. ASSUME NEW p \in Procs, Lead(p) PROVE RefreshInv'
  BY <1>9 DEF Lead
<1>10. ASSUME NEW p \in Procs, Follow(p) PROVE RefreshInv'
  BY <1>10 DEF Follow, shared
<1>11. ASSUME NEW p \in Procs, UpstreamServes(p) PROVE RefreshInv'
  BY <1>11 DEF UpstreamServes, shared
<1>12. ASSUME NEW p \in Procs, UpstreamFails(p) PROVE RefreshInv'
  BY <1>12 DEF UpstreamFails, shared
<1>13. ASSUME NEW p \in Procs, Store(p) PROVE RefreshInv'
  BY <1>13 DEF Store, locals
<1>14. ASSUME NEW p \in Procs, Finish(p) PROVE RefreshInv'
  BY <1>14 DEF Finish, Discard, Woken
<1>15. CASE UNCHANGED vars
  BY <1>15 DEF vars, shared, locals
<1>. QED
  BY <1>1, <1>2, <1>3, <1>4, <1>5, <1>6, <1>7, <1>8,
     <1>9, <1>10, <1>11, <1>12, <1>13, <1>14, <1>15
     DEF Next, Work, Fetch, Serve

LEMMA TimeStep == TypeOK /\ Role /\ SFInv /\ TimeInv /\ [Next]_vars => TimeInv'
<1>. SUFFICES ASSUME TypeOK, Role, SFInv, TimeInv, [Next]_vars PROVE TimeInv'
  OBVIOUS
<1>. USE CacheAssumption DEF TypeOK, Role, SFInv, TimeInv, InFlight
<1>1. CASE Tick
  <2>1. now' = now + 1 /\ UNCHANGED <<items, pc, key, started, got>>
    BY <1>1 DEF Tick, shared, locals
  <2>2. \A p \in Procs : pc[p] \in InFlight => now - started[p] < UpstreamTimeout
    BY <1>1 DEF Tick
  <2>3. \A k \in Keys : items[k] # None => items[k].val \in Nat /\ items[k].at \in Nat
    BY DEF Entry
  <2>. QED  BY <2>1, <2>2, <2>3 DEF Result
<1>2. ASSUME NEW r \in Readers, NEW k \in Keys, Begin(r, k) PROVE TimeInv'
  BY <1>2 DEF Begin, shared
<1>3. ASSUME NEW r \in Readers, HitFresh(r) PROVE TimeInv'
  BY <1>3 DEF HitFresh, shared, Discard
<1>4. ASSUME NEW r \in Readers, HitStale(r) PROVE TimeInv'
  BY <1>4 DEF HitStale, shared
<1>5. ASSUME NEW r \in Readers, MustFetch(r) PROVE TimeInv'
  BY <1>5 DEF MustFetch, shared
<1>6. ASSUME NEW r \in Readers, NEW g \in Refreshers, SpawnRefresh(r, g) PROVE TimeInv'
  BY <1>6 DEF SpawnRefresh, ReplyStale, Discard
<1>7. ASSUME NEW r \in Readers, SkipRefresh(r) PROVE TimeInv'
  BY <1>7 DEF SkipRefresh, ReplyStale, shared, Discard
<1>8. ASSUME NEW g \in Refreshers, CleanUp(g) PROVE TimeInv'
  BY <1>8 DEF CleanUp, locals
<1>9. ASSUME NEW p \in Procs, Lead(p) PROVE TimeInv'
  BY <1>9 DEF Lead
<1>10. ASSUME NEW p \in Procs, Follow(p) PROVE TimeInv'
  BY <1>10 DEF Follow, shared
<1>11. ASSUME NEW p \in Procs, UpstreamServes(p) PROVE TimeInv'
  <2>1. /\ pc[p] = "asking" /\ key[p] \in Keys
        /\ pc' = [pc EXCEPT ![p] = "answered"]
        /\ got' = [got EXCEPT ![p] = [val |-> now, err |-> "none"]]
        /\ UNCHANGED <<now, items, key, started>>
    BY <1>11 DEF UpstreamServes, shared
  <2>2. got'[p].val = now
    BY <2>1
  <2>3. items[key[p]] # None => items[key[p]].val <= now
    BY <2>1 DEF Entry
  <2>. QED  BY <2>1, <2>2, <2>3
<1>12. ASSUME NEW p \in Procs, UpstreamFails(p) PROVE TimeInv'
  BY <1>12 DEF UpstreamFails, shared
<1>13. ASSUME NEW p \in Procs, Store(p) PROVE TimeInv'
  <2>1. /\ pc[p] = "answered" /\ key[p] \in Keys /\ got[p] \in Result
        /\ pc' = [pc EXCEPT ![p] = "finishing"]
        /\ UNCHANGED <<now, key, started, got>>
    BY <1>13 DEF Store, locals
  <2>2. \A k \in Keys :
            \/ items'[k] = None
            \/ items'[k] = items[k] /\ k # key[p]
            \/ items'[k] = [val |-> got[p].val, at |-> now] /\ k = key[p]
    BY <1>13 DEF Store, Stamp
  <2>3. started[p] <= got[p].val /\ got[p].val <= now /\ now - started[p] <= UpstreamTimeout
    BY <2>1
  <2>4. \A k \in Keys : items'[k] # None =>
            items'[k].val <= items'[k].at /\ items'[k].at <= now
            /\ items'[k].at - items'[k].val <= UpstreamTimeout
    <3>. SUFFICES ASSUME NEW k \in Keys, items'[k] # None
                  PROVE  /\ items'[k].val <= items'[k].at /\ items'[k].at <= now
                         /\ items'[k].at - items'[k].val <= UpstreamTimeout
      OBVIOUS
    <3>1. CASE items'[k] = items[k]
      BY <3>1
    <3>2. CASE items'[k] = [val |-> got[p].val, at |-> now]
      <4>1. got[p].val \in Nat /\ started[p] \in Nat
        BY <2>1 DEF Result
      <4>2. items'[k].val = got[p].val /\ items'[k].at = now
        BY <3>2
      <4>. QED  BY <2>3, <4>1, <4>2
    <3>. QED  BY <2>2, <3>1, <3>2
  <2>5. \A q \in Procs : pc'[q] = "answered" =>
            q # p /\ pc[q] = "answered" /\ key[q] # key[p]
    BY <2>1
  <2>6. \A q \in Procs : pc'[q] = "answered" /\ items'[key[q]] # None =>
            items'[key[q]] = items[key[q]]
    BY <2>2, <2>5
  <2>7. \A q \in Procs : pc'[q] \in InFlight => pc[q] \in InFlight
    BY <2>1
  <2>8. \A q \in Procs : pc'[q] = "answered" =>
            /\ started[q] <= got[q].val /\ got[q].val <= now
            /\ items'[key[q]] # None => items'[key[q]].val <= got[q].val
    <3>. SUFFICES ASSUME NEW q \in Procs, pc'[q] = "answered"
                  PROVE  /\ started[q] <= got[q].val /\ got[q].val <= now
                         /\ items'[key[q]] # None => items'[key[q]].val <= got[q].val
      OBVIOUS
    <3>1. /\ started[q] <= got[q].val /\ got[q].val <= now
          /\ items[key[q]] # None => items[key[q]].val <= got[q].val
      BY <2>5
    <3>. QED  BY <2>6, <3>1
  <2>. QED  BY <2>1, <2>4, <2>7, <2>8
<1>14. ASSUME NEW p \in Procs, Finish(p) PROVE TimeInv'
  BY <1>14 DEF Finish, Discard, Woken
<1>15. CASE UNCHANGED vars
  BY <1>15 DEF vars, shared, locals
<1>. QED
  BY <1>1, <1>2, <1>3, <1>4, <1>5, <1>6, <1>7, <1>8,
     <1>9, <1>10, <1>11, <1>12, <1>13, <1>14, <1>15
     DEF Next, Work, Fetch, Serve


LEMMA IInvInit == Init => IInv
BY CacheAssumption
   DEF Init, IInv, TypeOK, SInv, Role, SFInv, RefreshInv, TimeInv, InFlight,
       Procs, Reply, Entry

LEMMA IInvStep == IInv /\ [Next]_vars => IInv'
BY TypeStep, RoleStep, SFStep, RefreshStep, TimeStep DEF IInv, SInv

(* The inductive invariant holds of every reachable state.                    *)
THEOREM Invariance == Spec => []IInv
BY IInvInit, IInvStep, PTL DEF Spec

-----------------------------------------------------------------------------
(* Every variable keeps its type.                                             *)
THEOREM TypeCorrect == Spec => []TypeOK
BY Invariance, PTL DEF IInv

(* Single-flight: no two goroutines fetch or store the same key at once, for  *)
(* any number of readers and refreshers.                                      *)
THEOREM FetchesAreSingle == Spec => []OneFetchPerKey
<1>1. IInv => OneFetchPerKey
  BY DEF IInv, SInv, SFInv, OneFetchPerKey
<1>. QED  BY <1>1, Invariance, PTL

(* The refreshing set marks exactly the keys with a live refresh goroutine,   *)
(* one each: the guard neither leaks a key nor lets a second goroutine in.    *)
THEOREM RefreshesAreSingle == Spec => []OneRefreshPerKey
<1>1. IInv => OneRefreshPerKey
  BY DEF IInv, SInv, TypeOK, RefreshInv, OneRefreshPerKey, Refresh
<1>. QED  BY <1>1, Invariance, PTL

(* The stamp of a cached entry is at most one upstream timeout younger than   *)
(* its data, whatever the timeout.                                            *)
THEOREM StampsAreNearData == Spec => []StampedNearData
<1>1. IInv => StampedNearData
  BY DEF IInv, SInv, TimeInv, StampedNearData
<1>. QED  BY <1>1, Invariance, PTL

-----------------------------------------------------------------------------
(* Nobody waits for nothing. *)

(* A follower of a singleflight call waits on a goroutine that is fetching    *)
(* or storing its own key, is the one in the group, and does not itself wait: *)
(* what every request and refresh waits for is one upstream answer away.      *)
NoneStranded ==
    \A p \in Procs : pc[p] = "waiting" =>
        /\ pc[leader[p]] \in InFlight
        /\ key[leader[p]] = key[p]
        /\ sf[key[p]] = leader[p]

THEOREM NoneEverStranded == Spec => []NoneStranded
<1>1. IInv => NoneStranded
  BY CacheAssumption DEF IInv, SInv, TypeOK, Role, SFInv, NoneStranded
<1>. QED  BY <1>1, Invariance, PTL

(* The code spawns a goroutine for a refresh, the model takes one of a pool:  *)
(* while a key has no refresh in flight there is one that is free, so that a  *)
(* pool as large as the set of keys holds nobody up.                          *)
RefresherFree == \A k \in Keys \ refreshing : \E g \in Refreshers : pc[g] = "idle"

LEMMA BusyAreFew ==
    ASSUME IInv, IsFiniteSet(Keys), NEW k \in Keys \ refreshing,
           \A g \in Refreshers : pc[g] # "idle"
    PROVE  IsFiniteSet(Refreshers) /\ Cardinality(Refreshers) < Cardinality(Keys)
<1>. DEFINE f == [g \in Refreshers |-> key[g]]
<1>1. f \in Injection(Refreshers, Keys \ {k})
  BY DEF IInv, SInv, RefreshInv, Role, Procs, Injection, IsInjective
<1>2. /\ IsFiniteSet(Keys \ {k})
      /\ Cardinality(Keys \ {k}) = Cardinality(Keys) - 1
      /\ Cardinality(Keys) \in Nat
  BY FS_RemoveElement, FS_CardinalityType
<1>3. IsFiniteSet(Refreshers) /\ Cardinality(Refreshers) <= Cardinality(Keys \ {k})
  BY <1>1, <1>2, FS_Injection
<1>4. Cardinality(Refreshers) \in Nat
  BY <1>3, FS_CardinalityType
<1>. QED  BY <1>2, <1>3, <1>4

THEOREM RefresherAlwaysFree ==
    ASSUME IsFiniteSet(Keys), IsFiniteSet(Refreshers),
           Cardinality(Refreshers) >= Cardinality(Keys)
    PROVE  Spec => []RefresherFree
<1>1. Cardinality(Keys) \in Nat /\ Cardinality(Refreshers) \in Nat
  BY FS_CardinalityType
<1>2. ASSUME IInv PROVE RefresherFree
  <2>. SUFFICES ASSUME NEW k \in Keys \ refreshing, \A g \in Refreshers : pc[g] # "idle"
                PROVE  FALSE
    BY DEF RefresherFree
  <2>1. Cardinality(Refreshers) < Cardinality(Keys)
    BY <1>2, BusyAreFew
  <2>. QED  BY <1>1, <2>1
<1>. QED  BY <1>2, Invariance, PTL

-----------------------------------------------------------------------------
(* An entry is replaced by data that is at least as new: only Store writes,   *)
(* and TimeInv relates what it writes to what it replaces.                    *)

LEMMA StoreReplaces ==
    ASSUME IInv, NEW p \in Procs, Store(p), NEW k \in Keys
    PROVE  \/ items'[k] = None
           \/ items'[k] = items[k]
           \/ k = key[p] /\ items'[k] = [val |-> got[p].val, at |-> now]
BY DEF Store, Stamp, IInv, TypeOK

LEMMA NoRegressStep ==
    ASSUME IInv, [Next]_vars, NEW k \in Keys, items[k] # None, items'[k] # None
    PROVE  items'[k].val >= items[k].val
<1>1. items[k].val \in Nat
  BY DEF IInv, TypeOK, Entry
<1>2. ASSUME NEW p \in Procs, Store(p) PROVE items'[k].val >= items[k].val
  <2>1. CASE items'[k] = items[k]
    BY <1>1, <2>1
  <2>2. CASE k = key[p] /\ items'[k] = [val |-> got[p].val, at |-> now]
    <3>1. items[key[p]].val <= got[p].val /\ got[p].val \in Nat
      BY <1>2, <2>2 DEF Store, IInv, SInv, Role, TimeInv, Result
    <3>. QED  BY <1>1, <2>2, <3>1
  <2>. QED  BY <1>2, <2>1, <2>2, StoreReplaces
<1>3. CASE UNCHANGED items
  BY <1>1, <1>3
<1>. QED
  BY <1>2, <1>3
     DEF Next, Work, Fetch, Serve, vars, shared, Tick, Begin, HitFresh, HitStale,
         MustFetch, SpawnRefresh, SkipRefresh, CleanUp, Lead, Follow,
         UpstreamServes, UpstreamFails, Finish

(* No store replaces newer data by older.                                     *)
THEOREM NoRegress == Spec => CacheNeverRegresses
<1>1. IInv /\ [Next]_vars =>
        [\A k \in Keys : items[k] # None /\ items'[k] # None =>
            items'[k].val >= items[k].val]_vars
  BY NoRegressStep
<1>. QED  BY <1>1, Invariance, PTL DEF Spec, CacheNeverRegresses
-----------------------------------------------------------------------------
Has(o, k) == \E i \in 1..Len(o) : o[i] = k

Distinct(o) == \A i, j \in 1..Len(o) : o[i] = o[j] => i = j

(* m is o with k made last: the others are as they were, in their order.      *)
MadeLast(o, k, m) ==
    /\ m \in Seq(Keys)
    /\ Len(m) \in Nat \ {0}
    /\ m[Len(m)] = k
    /\ Distinct(m)
    /\ \A x \in Keys : Has(m, x) <=> Has(o, x) \/ x = k
    /\ \A i, j \in 1..Len(m) : i < j /\ j < Len(m) =>
          \E a, b \in 1..Len(o) : a < b /\ o[a] = m[i] /\ o[b] = m[j]

(* c is m without its first n.                                                *)
CutTo(m, n, c) ==
    /\ n \in Nat /\ n < Len(m)
    /\ Len(c) = Len(m) - n /\ Len(c) <= MaxEntries
    /\ \A i \in 1..Len(c) : n + i \in 1..Len(m) /\ c[i] = m[n + i]
    /\ \A x \in Keys : Has(c, x) <=> Has(m, x) /\ x \notin {m[i] : i \in 1..n}

-----------------------------------------------------------------------------
(* A key that is not in the list is appended to it.                           *)
LEMMA AppendMakesLast ==
    ASSUME NEW o \in Seq(Keys), Distinct(o), NEW k \in Keys, ~ Has(o, k)
    PROVE  MadeLast(o, k, Append(o, k))
<1>. DEFINE m == Append(o, k)
<1>1. /\ m \in Seq(Keys) /\ Len(o) \in Nat /\ Len(m) = Len(o) + 1 /\ m[Len(o) + 1] = k
      /\ \A i \in 1..Len(o) : m[i] = o[i]
  OBVIOUS
<1>. HIDE DEF m
<1>2. Distinct(m)
  BY <1>1 DEF Distinct, Has
<1>3. \A x \in Keys : Has(m, x) <=> Has(o, x) \/ x = k
  BY <1>1 DEF Has
<1>4. ASSUME NEW i \in 1..Len(m), NEW j \in 1..Len(m), i < j, j < Len(m)
      PROVE  i \in 1..Len(o) /\ j \in 1..Len(o) /\ o[i] = m[i] /\ o[j] = m[j]
  BY <1>1, <1>4
<1>5. \A i, j \in 1..Len(m) : i < j /\ j < Len(m) =>
          \E a, b \in 1..Len(o) : a < b /\ o[a] = m[i] /\ o[b] = m[j]
  BY <1>4
<1>6. MadeLast(o, k, m)
  BY <1>1, <1>2, <1>3, <1>5 DEF MadeLast
<1>. QED  BY <1>6 DEF m

(* One that is in it is moved to the back.                                    *)
LEMMA MoveMakesLast ==
    ASSUME NEW o \in Seq(Keys), Distinct(o), NEW k \in Keys, Has(o, k)
    PROVE  MadeLast(o, k, MoveToBack(o, k))
<1>. DEFINE n == CHOOSE j \in 1..Len(o) : o[j] = k
            m == MoveToBack(o, k)
            At(i) == IF i < n THEN i ELSE i + 1
<1>1. n \in 1..Len(o) /\ o[n] = k /\ Len(o) \in Nat
  BY DEF Has
<1>2. /\ m \in Seq(Keys) /\ Len(m) = Len(o)
      /\ \A j \in 1..Len(o) : m[j] = IF j < n THEN o[j]
                                     ELSE IF j < Len(o) THEN o[j + 1] ELSE k
  BY MoveToBackType DEF MoveToBack
<1>. HIDE DEF n, m
<1>3. \A i \in 1..Len(m) : i < Len(m) => At(i) \in 1..Len(o) /\ m[i] = o[At(i)] /\ At(i) # n
  BY <1>1, <1>2
<1>4. m[Len(m)] = k
  BY <1>1, <1>2
<1>5. Distinct(m)
  <2>. SUFFICES ASSUME NEW i \in 1..Len(m), NEW j \in 1..Len(m), m[i] = m[j], i < j
                PROVE  FALSE
    BY <1>1, <1>2 DEF Distinct
  <2>1. CASE j < Len(m)
    <3>1. At(i) = At(j)
      BY <1>1, <1>2, <1>3, <2>1 DEF Distinct
    <3>. QED  BY <3>1, <1>1
  <2>2. CASE j = Len(m)
    <3>1. m[i] = o[At(i)] /\ At(i) \in 1..Len(o) /\ At(i) # n
      BY <1>1, <1>2, <1>3, <2>2
    <3>. QED  BY <1>1, <1>4, <2>2, <3>1 DEF Distinct
  <2>. QED  BY <1>1, <1>2, <2>1, <2>2
<1>6. ASSUME NEW x \in Keys, Has(m, x) PROVE Has(o, x)
  <2>1. PICK i \in 1..Len(m) : m[i] = x
    BY <1>6 DEF Has
  <2>2. CASE i < Len(m)
    BY <1>3, <2>1, <2>2 DEF Has
  <2>3. CASE i = Len(m)
    BY <1>4, <2>1, <2>3
  <2>. QED  BY <1>1, <1>2, <2>2, <2>3
<1>7. ASSUME NEW x \in Keys, Has(o, x) PROVE Has(m, x)
  <2>1. PICK i \in 1..Len(o) : o[i] = x
    BY <1>7 DEF Has
  <2>2. CASE i < n
    BY <1>1, <1>2, <2>1, <2>2 DEF Has
  <2>3. CASE i = n
    <3>1. Len(m) \in 1..Len(m)
      BY <1>1, <1>2
    <3>. QED  BY <1>1, <1>4, <2>1, <2>3, <3>1 DEF Has
  <2>4. CASE i > n
    <3>1. i - 1 \in 1..Len(m) /\ m[i - 1] = x
      BY <1>1, <1>2, <2>1, <2>4
    <3>. QED  BY <3>1 DEF Has
  <2>. QED  BY <1>1, <2>2, <2>3, <2>4
<1>8. ASSUME NEW i \in 1..Len(m), NEW j \in 1..Len(m), i < j, j < Len(m)
      PROVE  \E a, b \in 1..Len(o) : a < b /\ o[a] = m[i] /\ o[b] = m[j]
  <2>1. /\ At(i) \in 1..Len(o) /\ At(j) \in 1..Len(o) /\ At(i) < At(j)
        /\ o[At(i)] = m[i] /\ o[At(j)] = m[j]
    BY <1>1, <1>2, <1>3, <1>8
  <2>. HIDE DEF At
  <2>. QED  BY <2>1
<1>9. MadeLast(o, k, m)
  BY <1>1, <1>2, <1>4, <1>5, <1>6, <1>7, <1>8 DEF MadeLast
<1>. QED  BY <1>9 DEF m

(* A list cut from the front has lost exactly what was cut.                   *)
LEMMA CutLoses ==
    ASSUME NEW m, Len(m) \in Nat, Distinct(m), NEW n \in Nat, n < Len(m),
           NEW c, Len(c) = Len(m) - n,
           \A i \in 1..Len(c) : n + i \in 1..Len(m) /\ c[i] = m[n + i],
           NEW x
    PROVE  Has(c, x) <=> Has(m, x) /\ x \notin {m[i] : i \in 1..n}
<1>1. ASSUME Has(c, x)
      PROVE  Has(m, x) /\ x \notin {m[i] : i \in 1..n}
  <2>1. PICK i \in 1..Len(c) : c[i] = x
    BY <1>1 DEF Has
  <2>2. n + i \in 1..Len(m) /\ m[n + i] = x /\ i > 0
    BY <2>1
  <2>3. ASSUME NEW j \in 1..n, m[j] = x PROVE FALSE
    <3>1. j \in 1..Len(m) /\ j # n + i
      BY <2>1
    <3>. QED  BY <2>2, <2>3, <3>1 DEF Distinct
  <2>. QED  BY <2>2, <2>3 DEF Has
<1>2. ASSUME Has(m, x), x \notin {m[i] : i \in 1..n}
      PROVE  Has(c, x)
  <2>1. PICK i \in 1..Len(m) : m[i] = x
    BY <1>2 DEF Has
  <2>2. i > n
    BY <1>2, <2>1
  <2>3. i - n \in 1..Len(c) /\ n + (i - n) = i
    BY <2>1, <2>2
  <2>4. c[i - n] = x
    BY <2>1, <2>3
  <2>. QED  BY <2>3, <2>4 DEF Has
<1>. QED  BY <1>1, <1>2

(* What eviction leaves of the list: its last MaxEntries.                     *)
LEMMA Cut ==
    ASSUME NEW m \in Seq(Keys), Len(m) \in Nat \ {0}, Distinct(m),
           NEW n, n = Overflow(m), NEW c, c = SubSeq(m, n + 1, Len(m))
    PROVE  CutTo(m, n, c)
<1>1. n \in Nat /\ n < Len(m) /\ Len(m) - n <= MaxEntries
  BY CacheAssumption DEF Overflow
<1>2. /\ Len(c) = Len(m) - n
      /\ \A i \in 1..Len(c) : n + i \in 1..Len(m) /\ c[i] = m[n + i]
  BY <1>1, SMTT(30)
<1>3. \A x : Has(c, x) <=> Has(m, x) /\ x \notin {m[i] : i \in 1..n}
  <2>1. Len(m) \in Nat
    OBVIOUS
  <2>2. SUFFICES ASSUME NEW x PROVE Has(c, x) <=> Has(m, x) /\ x \notin {m[i] : i \in 1..n}
    OBVIOUS
  <2>. QED  BY ONLY <1>1, <1>2, <2>1, Distinct(m), CutLoses
<1>. QED  BY <1>1, <1>2, <1>3 DEF CutTo

-----------------------------------------------------------------------------
OInv == IInv /\ CacheBounded /\ OldestFirst

LEMMA StoreKeepsOrder ==
    ASSUME OInv, NEW p \in Procs, Store(p)
    PROVE  (CacheBounded /\ OldestFirst)'
<1>. DEFINE k == key[p]
            m == IF items[k] # None THEN MoveToBack(order, k) ELSE Append(order, k)
            n == Overflow(m)
            evicted == {m[i] : i \in 1..n}
<1>. USE DEF OInv
<1>1. k \in Keys /\ order \in Seq(Keys) /\ now \in Nat
  BY DEF Store, IInv, SInv, TypeOK, Role
<1>2. Distinct(order) /\ \A x \in Keys : items[x] # None <=> Has(order, x)
  BY DEF CacheBounded, Distinct, Has
<1>3. MadeLast(order, k, m)
  BY <1>1, <1>2, AppendMakesLast, MoveMakesLast
<1>4. /\ order' = SubSeq(m, n + 1, Len(m))
      /\ \A x \in Keys : items'[x] = IF x \in evicted THEN None
                                     ELSE IF x = k THEN [val |-> got[p].val, at |-> now]
                                     ELSE items[x]
  BY DEF Store, Stamp
<1>. HIDE DEF k, m
<1>5. /\ n \in Nat /\ n < Len(m) /\ Len(m) \in Nat
      /\ Len(order') = Len(m) - n /\ Len(order') <= MaxEntries
      /\ \A i \in 1..Len(order') : n + i \in 1..Len(m) /\ order'[i] = m[n + i]
      /\ \A x \in Keys : Has(order', x) <=> Has(m, x) /\ x \notin evicted
  <2>1. m \in Seq(Keys) /\ Len(m) \in Nat \ {0} /\ Distinct(m)
    BY <1>3 DEF MadeLast
  <2>. HIDE DEF n
  <2>2. n = Overflow(m)
    BY DEF n
  <2>3. CutTo(m, n, order')
    BY <1>4, <2>1, <2>2, Cut
  <2>. QED  BY <2>1, <2>3 DEF CutTo
<1>. HIDE DEF n, evicted
<1>6. Distinct(order')
  <2>. SUFFICES ASSUME NEW i \in 1..Len(order'), NEW j \in 1..Len(order'),
                       order'[i] = order'[j]
                PROVE  i = j
    BY DEF Distinct
  <2>1. n + i \in 1..Len(m) /\ n + j \in 1..Len(m) /\ m[n + i] = m[n + j]
    BY <1>5
  <2>2. n + i = n + j
    BY <1>3, <2>1 DEF MadeLast, Distinct
  <2>. QED  BY <1>5, <2>2
<1>7. [val |-> got[p].val, at |-> now] # None /\ \A x \in Keys : items[x] # None => items[x] \in Entry
  <2>1. got[p].val \in Nat
    BY DEF Store, IInv, SInv, TypeOK, Role, Result
  <2>2. [val |-> got[p].val, at |-> now] \in Entry
    BY <1>1, <2>1 DEF Entry
  <2>. QED  BY <2>2, CacheAssumption DEF IInv, SInv, TypeOK
<1>8. \A x \in Keys : items'[x] # None <=> Has(order', x)
  BY <1>1, <1>2, <1>3, <1>4, <1>5, <1>7 DEF MadeLast
<1>9. CacheBounded'
  BY <1>5, <1>6, <1>8 DEF CacheBounded, Distinct, Has
<1>10. ASSUME NEW i \in 1..Len(order'), NEW j \in 1..Len(order'), i < j
       PROVE  items'[order'[i]].at <= items'[order'[j]].at
  <2>1. /\ n + i \in 1..Len(m) /\ order'[i] = m[n + i]
        /\ n + j \in 1..Len(m) /\ order'[j] = m[n + j]
        /\ n + i < n + j /\ i < Len(order') /\ n + i < Len(m)
    BY <1>5, <1>10
  <2>2. m[n + i] # k /\ m[n + i] \in Keys /\ m[n + j] \in Keys
    BY <1>3, <1>5, <2>1 DEF MadeLast, Distinct
  <2>3. Has(order', m[n + i]) /\ Has(order', m[n + j])
    BY <1>10, <2>1 DEF Has
  <2>4. m[n + i] \notin evicted /\ m[n + j] \notin evicted /\ Has(m, m[n + i]) /\ Has(m, m[n + j])
    BY <1>5, <2>2, <2>3
  <2>5. items'[m[n + i]] = items[m[n + i]] /\ items[m[n + i]] # None
    BY <1>2, <1>3, <1>4, <2>2, <2>4 DEF MadeLast
  <2>6. items[m[n + i]].at <= now
    BY <2>2, <2>5 DEF IInv, SInv, TimeInv
  <2>7. CASE m[n + j] = k
    <3>1. items'[k].at = now
      BY <1>1, <1>4, <2>4, <2>7
    <3>. QED  BY <2>1, <2>5, <2>6, <2>7, <3>1
  <2>8. CASE m[n + j] # k
    <3>1. n + j < Len(m)
      BY <1>3, <1>5, <2>1, <2>8 DEF MadeLast
    <3>2. PICK a \in 1..Len(order), b \in 1..Len(order) :
             a < b /\ order[a] = m[n + i] /\ order[b] = m[n + j]
      BY <1>3, <2>1, <3>1 DEF MadeLast
    <3>3. items[m[n + i]].at <= items[m[n + j]].at
      BY <3>2 DEF OldestFirst
    <3>4. items'[m[n + j]] = items[m[n + j]]
      BY <1>4, <2>2, <2>4, <2>8
    <3>. QED  BY <2>1, <2>5, <3>3, <3>4
  <2>. QED  BY <2>7, <2>8
<1>. QED  BY <1>9, <1>10 DEF OldestFirst

(* Nothing else touches the map or the list.                                  *)
LEMMA OInvStep == OInv /\ [Next]_vars => (CacheBounded /\ OldestFirst)'
<1>. SUFFICES ASSUME OInv, [Next]_vars PROVE (CacheBounded /\ OldestFirst)'
  OBVIOUS
<1>1. ASSUME NEW p \in Procs, Store(p) PROVE (CacheBounded /\ OldestFirst)'
  BY <1>1, StoreKeepsOrder
<1>2. CASE UNCHANGED <<items, order>>
  BY <1>2 DEF OInv, CacheBounded, OldestFirst
<1>. QED
  BY <1>1, <1>2
     DEF Next, Work, Fetch, Serve, vars, shared, Tick, Begin, HitFresh, HitStale, MustFetch,
         SpawnRefresh, SkipRefresh, CleanUp, Lead, Follow, UpstreamServes, UpstreamFails, Finish

(* The inductive invariant.                                                   *)
THEOREM OrderInvariance == Spec => []OInv
<1>1. Init => CacheBounded /\ OldestFirst
  BY CacheAssumption DEF Init, CacheBounded, OldestFirst
<1>. QED  BY <1>1, OInvStep, Invariance, PTL DEF Spec, OInv

(* The map and the list agree and never hold more than MaxEntries keys.       *)
THEOREM CacheIsBounded == Spec => []CacheBounded
BY OrderInvariance, PTL DEF OInv

(* What is evicted is what was fetched longest ago.                           *)
THEOREM OrderIsByAge == Spec => []OldestFirst
BY OrderInvariance, PTL DEF OInv

(* What a store does to the list, and what it evicts.                         *)
LEMMA StoreEvicts ==
    ASSUME OInv, NEW p \in Procs, Store(p)
    PROVE  /\ items'[key[p]] = [val |-> got[p].val, at |-> now]
           /\ \A k \in Keys : items[k] # None /\ items'[k] = None =>
                 Len(order) = MaxEntries /\ items[key[p]] = None /\ k = order[1]
<1>. DEFINE k == key[p]
            m == IF items[k] # None THEN MoveToBack(order, k) ELSE Append(order, k)
            n == Overflow(m)
            evicted == {m[i] : i \in 1..n}
<1>1. k \in Keys /\ order \in Seq(Keys) /\ Len(order) \in Nat /\ Len(order) <= MaxEntries
  BY DEF OInv, Store, IInv, SInv, TypeOK, Role, CacheBounded
<1>2. \A x \in Keys : items[x] # None <=> Has(order, x)
  BY DEF OInv, CacheBounded, Has
<1>3. \A x \in Keys : items'[x] = IF x \in evicted THEN None
                                  ELSE IF x = k THEN [val |-> got[p].val, at |-> now]
                                  ELSE items[x]
  BY DEF Store, Stamp, OInv, IInv, TypeOK
<1>4. got[p].val \in Nat /\ now \in Nat
  BY DEF OInv, Store, IInv, SInv, TypeOK, Role, Result
<1>5. [val |-> got[p].val, at |-> now] # None
  <2>1. [val |-> got[p].val, at |-> now] \in Entry
    BY <1>4 DEF Entry
  <2>. QED  BY <2>1, CacheAssumption
<1>. HIDE DEF k
<1>6. CASE items[k] # None
  <2>1. Len(m) = Len(order)
    BY <1>1, <1>6, MoveToBackType
  <2>. HIDE DEF m
  <2>2. n = 0
    BY <1>1, <2>1, CacheAssumption DEF Overflow
  <2>3. evicted = {}
    BY <2>2
  <2>. QED  BY <1>1, <1>3, <1>5, <2>3 DEF k
<1>7. CASE items[k] = None
  <2>1. m = Append(order, k)
    BY <1>7
  <2>2. /\ Len(m) = Len(order) + 1
        /\ Len(order) > 0 => m[1] = order[1] /\ 1 \in 1..Len(order)
    BY <1>1, <2>1
  <2>3. MaxEntries \in Nat \ {0}
    BY CacheAssumption
  <2>4. CASE Len(order) = MaxEntries
    <3>1. n = 1
      BY <2>2, <2>3, <2>4 DEF Overflow
    <3>2. m[1] = order[1] /\ 1 \in 1..Len(order)
      BY <2>2, <2>3, <2>4
    <3>3. order[1] # k
      BY <1>1, <1>2, <1>7, <3>2 DEF Has
    <3>. HIDE DEF m, n
    <3>4. evicted = {order[1]}
      BY <3>1, <3>2
    <3>. HIDE DEF evicted
    <3>. QED  BY <1>1, <1>3, <1>5, <1>7, <2>4, <3>3, <3>4 DEF k
  <2>5. CASE Len(order) < MaxEntries
    <3>1. n = 0
      BY <1>1, <2>2, <2>3, <2>5 DEF Overflow
    <3>2. evicted = {}
      BY <3>1
    <3>. QED  BY <1>1, <1>3, <1>5, <3>2 DEF k
  <2>. QED  BY <1>1, <2>3, <2>4, <2>5
<1>. QED  BY <1>6, <1>7

(* A store never loses the entry it makes, not with room for one entry only;  *)
(* it evicts one at most, the oldest, and only to make room for a new key in  *)
(* a cache that is full (cache.go:250).                                       *)
EvictsForRoom ==
    [][\A p \in Procs : Store(p) =>
          /\ items'[key[p]] = [val |-> got[p].val, at |-> now]
          /\ \A k \in Keys : items[k] # None /\ items'[k] = None =>
                Len(order) = MaxEntries /\ items[key[p]] = None /\ k = order[1]]_vars

THEOREM AlwaysEvictsForRoom == Spec => EvictsForRoom
<1>1. ASSUME OInv, Next
      PROVE  \A p \in Procs : Store(p) =>
                /\ items'[key[p]] = [val |-> got[p].val, at |-> now]
                /\ \A k \in Keys : items[k] # None /\ items'[k] = None =>
                      Len(order) = MaxEntries /\ items[key[p]] = None /\ k = order[1]
  BY <1>1, StoreEvicts
<1>. QED  BY <1>1, OrderInvariance, PTL DEF Spec, EvictsForRoom
=============================================================================
