------------------------ MODULE FleetCacheReadProofs ------------------------
(***************************************************************************)
(* What the readers of FleetCache get, for every value of the constants.   *)
(*                                                                         *)
(* WindowInv follows a reader from its lookup to its reply: the copy it    *)
(* took and the call it waits on keep the age they had.  FloorInv says of  *)
(* every value anyone has read, holds or is about to return that the       *)
(* cache, and every call that has its answer, is at least as new.          *)
(***************************************************************************)
EXTENDS FleetCacheProofs

Blocked == {"do", "waiting"} \cup InFlight

WindowInv ==
    /\ \A r \in Readers : clock[r] <= now
    /\ \A r \in Readers : pc[r] = "stale" =>
            /\ seen[r].at - seen[r].val <= UpstreamTimeout
            /\ clock[r] - seen[r].at < Limit(key[r])
    /\ \A r \in Readers : pc[r] \in Blocked /\ seen[r] # None =>
            clock[r] - seen[r].at >= Limit(key[r])
    /\ \A p \in Procs : pc[p] = "finishing" /\ got[p].err = "none" =>
            started[p] <= got[p].val

(* Data from instant w is not newer than what key k has now or will get.      *)
Floor(k, w) ==
    /\ w <= now
    /\ items[k] # None => w <= items[k].val
    /\ \A p \in Procs : 
            /\ pc[p] \in {"answered", "finishing"}
            /\ key[p] = k
            /\ got[p].err = "none"
            => w <= got[p].val

Replied(r) == reply[r].how \notin {"none", "failed"}

ItemsFloor == \A k \in Keys : items[k] # None => Floor(k, items[k].val)

CallsFloor ==
    \A p \in Procs : pc[p] = "finishing" /\ got[p].err = "none" =>
        Floor(key[p], got[p].val)

CopiesFloor ==
    \A r \in Readers : pc[r] \in Blocked \cup {"stale"} /\ seen[r] # None =>
        /\ Floor(key[r], seen[r].val)
        /\ Replied(r) /\ reply[r].key = key[r] => reply[r].val <= seen[r].val

RepliesFloor ==
    \A r \in Readers : Replied(r) =>
        reply[r].key \in Keys /\ Floor(reply[r].key, reply[r].val)

FloorInv == ItemsFloor /\ CallsFloor /\ CopiesFloor /\ RepliesFloor

LEMMA WindowStep == IInv /\ WindowInv /\ [Next]_vars => WindowInv'
<1>. SUFFICES ASSUME IInv, WindowInv, [Next]_vars PROVE WindowInv'
  OBVIOUS
<1>. USE CacheAssumption DEF IInv, SInv, TypeOK, Role, TimeInv, WindowInv, Blocked, InFlight, Entry, Procs
<1>1. CASE Tick
  BY <1>1 DEF Tick, shared, locals
<1>2. ASSUME NEW r \in Readers, NEW k \in Keys, Begin(r, k) PROVE WindowInv'
  BY <1>2 DEF Begin, shared
<1>3. ASSUME NEW r \in Readers, HitFresh(r) PROVE WindowInv'
  BY <1>3 DEF HitFresh, shared, Discard
<1>4. ASSUME NEW r \in Readers, HitStale(r) PROVE WindowInv'
  BY <1>4 DEF HitStale, Age, shared
<1>5. ASSUME NEW r \in Readers, MustFetch(r) PROVE WindowInv'
  BY <1>5 DEF MustFetch, Age, shared
<1>6. ASSUME NEW r \in Readers, NEW g \in Refreshers, SpawnRefresh(r, g) PROVE WindowInv'
  BY <1>6, SMTT(30) DEF SpawnRefresh, ReplyStale, Discard
<1>7. ASSUME NEW r \in Readers, SkipRefresh(r) PROVE WindowInv'
  BY <1>7 DEF SkipRefresh, ReplyStale, shared, Discard
<1>8. ASSUME NEW g \in Refreshers, CleanUp(g) PROVE WindowInv'
  BY <1>8 DEF CleanUp, locals
<1>9. ASSUME NEW p \in Procs, Lead(p) PROVE WindowInv'
  BY <1>9 DEF Lead
<1>10. ASSUME NEW p \in Procs, Follow(p) PROVE WindowInv'
  BY <1>10 DEF Follow, shared
<1>11. ASSUME NEW p \in Procs, UpstreamServes(p) PROVE WindowInv'
  BY <1>11 DEF UpstreamServes, shared
<1>12. ASSUME NEW p \in Procs, UpstreamFails(p) PROVE WindowInv'
  BY <1>12 DEF UpstreamFails, shared
<1>13. ASSUME NEW p \in Procs, Store(p) PROVE WindowInv'
  BY <1>13 DEF Store, locals
<1>14. ASSUME NEW p \in Procs, Finish(p) PROVE WindowInv'
  BY <1>14 DEF Finish, Discard, Woken
<1>15. CASE UNCHANGED vars
  BY <1>15 DEF vars, shared, locals
<1>. QED
  BY <1>1, <1>2, <1>3, <1>4, <1>5, <1>6, <1>7, <1>8,
     <1>9, <1>10, <1>11, <1>12, <1>13, <1>14, <1>15
     DEF Next, Work, Fetch, Serve

(* A floor stays a floor: the cache and the calls only get newer data.        *)
LEMMA FloorStable ==
    ASSUME IInv, [Next]_vars, NEW k \in Keys, NEW w \in Nat, Floor(k, w)
    PROVE  Floor(k, w)'
<1>. USE DEF IInv, SInv, TypeOK, Role, Floor
<1>1. CASE Tick
  BY <1>1 DEF Tick, shared, locals
<1>2. ASSUME NEW r \in Readers, NEW x \in Keys, Begin(r, x) PROVE Floor(k, w)'
  BY <1>2 DEF Begin, shared
<1>3. ASSUME NEW r \in Readers, HitFresh(r) PROVE Floor(k, w)'
  BY <1>3 DEF HitFresh, shared, Discard
<1>4. ASSUME NEW r \in Readers, HitStale(r) PROVE Floor(k, w)'
  BY <1>4 DEF HitStale, shared
<1>5. ASSUME NEW r \in Readers, MustFetch(r) PROVE Floor(k, w)'
  BY <1>5 DEF MustFetch, shared
<1>6. ASSUME NEW r \in Readers, NEW g \in Refreshers, SpawnRefresh(r, g) PROVE Floor(k, w)'
  BY <1>6 DEF SpawnRefresh, ReplyStale, Discard
<1>7. ASSUME NEW r \in Readers, SkipRefresh(r) PROVE Floor(k, w)'
  BY <1>7 DEF SkipRefresh, ReplyStale, shared, Discard
<1>8. ASSUME NEW g \in Refreshers, CleanUp(g) PROVE Floor(k, w)'
  BY <1>8 DEF CleanUp, locals
<1>9. ASSUME NEW p \in Procs, Lead(p) PROVE Floor(k, w)'
  BY <1>9 DEF Lead
<1>10. ASSUME NEW p \in Procs, Follow(p) PROVE Floor(k, w)'
  BY <1>10 DEF Follow, shared
<1>11. ASSUME NEW p \in Procs, UpstreamServes(p) PROVE Floor(k, w)'
  BY <1>11 DEF UpstreamServes, shared
<1>12. ASSUME NEW p \in Procs, UpstreamFails(p) PROVE Floor(k, w)'
  BY <1>12 DEF UpstreamFails, shared
<1>13. ASSUME NEW p \in Procs, Store(p) PROVE Floor(k, w)'
  BY <1>13 DEF Store, locals
<1>14. ASSUME NEW p \in Procs, Finish(p) PROVE Floor(k, w)'
  BY <1>14 DEF Finish, Discard, Woken
<1>15. CASE UNCHANGED vars
  BY <1>15 DEF vars, shared, locals
<1>. QED
  BY <1>1, <1>2, <1>3, <1>4, <1>5, <1>6, <1>7, <1>8,
     <1>9, <1>10, <1>11, <1>12, <1>13, <1>14, <1>15
     DEF Next, Work, Fetch, Serve


(* The values in play are numbers.                                            *)
LEMMA ValuesTyped ==
    ASSUME IInv
    PROVE  /\ \A k \in Keys : items[k] # None => items[k].val \in Nat
           /\ \A p \in Procs : got[p] # None => got[p].val \in Nat
           /\ \A p \in Procs : seen[p] # None => seen[p].val \in Nat
           /\ \A r \in Readers : reply[r].val \in Nat
           /\ \A p \in Procs : pc[p] = "finishing" => got[p].val \in Nat
<1>. USE DEF IInv, SInv, Role, TypeOK
<1>1. \A k \in Keys : items[k] # None => items[k].val \in Nat
  BY DEF Entry
<1>2. \A p \in Procs : got[p] # None => got[p].val \in Nat
  BY DEF Result
<1>3. \A p \in Procs : seen[p] # None => seen[p].val \in Nat
  BY DEF Entry
<1>4. \A r \in Readers : reply[r].val \in Nat
  BY DEF Reply
<1>5. \A p \in Procs : pc[p] = "finishing" => got[p].val \in Nat
  BY DEF Result
<1>. QED  BY <1>1, <1>2, <1>3, <1>4, <1>5

(* What Store writes is a floor: it is the only call for its key.             *)
LEMMA StoreFloor ==
    ASSUME IInv, NEW p \in Procs, Store(p), NEW k, k = key[p],
           NEW w \in Nat, w = got[p].val
    PROVE  Floor(k, w)'
<1>1. /\ pc[p] = "answered" /\ key[p] \in Keys /\ w <= now
      /\ pc' = [pc EXCEPT ![p] = "finishing"]
      /\ UNCHANGED <<now, key, got>>
  BY DEF Store, IInv, SInv, Role, TimeInv, locals
<1>2. items'[k] # None => items'[k].val = w
  <2>1. items'[k] = None \/ items'[k] = [val |-> got[p].val, at |-> now]
    BY <1>1 DEF Store, Stamp
  <2>. QED  BY <2>1
<1>3. \A q \in Procs : pc'[q] \in {"answered", "finishing"} /\ key[q] = k => q = p
  BY <1>1 DEF IInv, SInv, SFInv, TypeOK, InFlight
<1>. QED  BY <1>1, <1>2, <1>3 DEF Floor

LEMMA ItemsFloorStep ==
    ASSUME IInv, FloorInv, [Next]_vars
    PROVE  ItemsFloor'
<1>. SUFFICES ASSUME NEW k \in Keys, items'[k] # None,
                     NEW w, w = items'[k].val
              PROVE  Floor(k, w)'
  BY DEF ItemsFloor
<1>1. CASE items'[k] = items[k]
  BY <1>1, ValuesTyped, FloorStable DEF FloorInv, ItemsFloor
<1>2. ASSUME NEW p \in Procs, Store(p) PROVE Floor(k, w)'
  <2>1. CASE k = key[p] /\ items'[k] = [val |-> got[p].val, at |-> now]
    <3>1. got[p].val \in Nat
      BY <1>2 DEF Store, IInv, SInv, Role, Result
    <3>. QED  BY <1>2, <2>1, <3>1, StoreFloor
  <2>. QED  BY <1>1, <1>2, <2>1, StoreReplaces
<1>. QED
  BY <1>1, <1>2
     DEF Next, Work, Fetch, Serve, vars, shared, Tick, Begin, HitFresh, HitStale,
         MustFetch, SpawnRefresh, SkipRefresh, CleanUp, Lead, Follow,
         UpstreamServes, UpstreamFails, Finish

(* How a goroutine comes to hold an answer.                                   *)
LEMMA CallCases ==
    ASSUME IInv, [Next]_vars, NEW c \in Procs, pc'[c] = "finishing", got'[c].err = "none"
    PROVE  /\ key'[c] = key[c] /\ got'[c] = got[c]
           /\ pc[c] = "finishing" \/ Store(c)
<1>. DEFINE Goal == /\ key'[c] = key[c] /\ got'[c] = got[c]
                    /\ pc[c] = "finishing" \/ Store(c)
<1>. SUFFICES Goal
  OBVIOUS
<1>. USE CacheAssumption DEF IInv, SInv, TypeOK, Role, Procs
<1>1. CASE Tick
  BY <1>1 DEF Tick, shared, locals
<1>2. ASSUME NEW r \in Readers, NEW k \in Keys, Begin(r, k) PROVE Goal
  BY <1>2 DEF Begin, shared
<1>3. ASSUME NEW r \in Readers, HitFresh(r) PROVE Goal
  BY <1>3 DEF HitFresh, shared, Discard
<1>4. ASSUME NEW r \in Readers, HitStale(r) PROVE Goal
  BY <1>4 DEF HitStale, shared
<1>5. ASSUME NEW r \in Readers, MustFetch(r) PROVE Goal
  BY <1>5 DEF MustFetch, shared
<1>6. ASSUME NEW r \in Readers, NEW g \in Refreshers, SpawnRefresh(r, g) PROVE Goal
  BY <1>6 DEF SpawnRefresh, ReplyStale, Discard
<1>7. ASSUME NEW r \in Readers, SkipRefresh(r) PROVE Goal
  BY <1>7 DEF SkipRefresh, ReplyStale, shared, Discard
<1>8. ASSUME NEW g \in Refreshers, CleanUp(g) PROVE Goal
  BY <1>8 DEF CleanUp, locals
<1>9. ASSUME NEW p \in Procs, Lead(p) PROVE Goal
  BY <1>9 DEF Lead
<1>10. ASSUME NEW p \in Procs, Follow(p) PROVE Goal
  BY <1>10 DEF Follow, shared
<1>11. ASSUME NEW p \in Procs, UpstreamServes(p) PROVE Goal
  BY <1>11 DEF UpstreamServes, shared
<1>12. ASSUME NEW p \in Procs, UpstreamFails(p) PROVE Goal
  BY <1>12 DEF UpstreamFails, shared
<1>13. ASSUME NEW p \in Procs, Store(p) PROVE Goal
  <2>1. UNCHANGED <<key, got>> /\ pc' = [pc EXCEPT ![p] = "finishing"]
    BY <1>13 DEF Store, locals
  <2>2. c = p \/ pc[c] = "finishing"
    BY <2>1
  <2>. QED  BY <1>13, <2>1, <2>2
<1>14. ASSUME NEW p \in Procs, Finish(p) PROVE Goal
  BY <1>14 DEF Finish, Discard, Woken
<1>15. CASE UNCHANGED vars
  BY <1>15 DEF vars, shared, locals
<1>. QED
  BY <1>1, <1>2, <1>3, <1>4, <1>5, <1>6, <1>7, <1>8,
     <1>9, <1>10, <1>11, <1>12, <1>13, <1>14, <1>15
     DEF Next, Work, Fetch, Serve

LEMMA CallsFloorStep ==
    ASSUME IInv, FloorInv, [Next]_vars
    PROVE  CallsFloor'
<1>. SUFFICES ASSUME NEW c \in Procs, pc'[c] = "finishing", got'[c].err = "none",
                     NEW k, k = key'[c], NEW w, w = got'[c].val
              PROVE  Floor(k, w)'
  BY DEF CallsFloor
<1>1. key'[c] = key[c] /\ got'[c] = got[c]
  BY CallCases
<1>2. CASE pc[c] = "finishing"
  <2>1. Floor(k, w) /\ k \in Keys /\ w \in Nat
    BY <1>1, <1>2, ValuesTyped DEF FloorInv, CallsFloor, IInv, SInv, Role
  <2>. QED  BY <2>1, FloorStable
<1>3. CASE Store(c)
  <2>1. w \in Nat
    BY <1>1, <1>3 DEF Store, IInv, SInv, Role, Result
  <2>. QED  BY <1>1, <1>3, <2>1, StoreFloor
<1>. QED  BY <1>2, <1>3, CallCases

(* The steps by which a reader comes to hold a copy, or holds on to it.       *)
LEMMA CopyCases ==
    ASSUME IInv, [Next]_vars, NEW c \in Readers,
           pc'[c] \in Blocked \cup {"stale"}, seen'[c] # None
    PROVE  /\ key'[c] = key[c] /\ reply'[c] = reply[c]
           /\ \/ pc[c] \in Blocked \cup {"stale"} /\ seen'[c] = seen[c]
              \/ seen'[c] = items[key[c]] /\ key[c] \in Keys
<1>. DEFINE Goal == /\ key'[c] = key[c] /\ reply'[c] = reply[c]
                    /\ \/ pc[c] \in Blocked \cup {"stale"} /\ seen'[c] = seen[c]
                       \/ seen'[c] = items[key[c]] /\ key[c] \in Keys
<1>. SUFFICES Goal
  OBVIOUS
<1>. USE CacheAssumption DEF IInv, SInv, TypeOK, Role, Blocked, InFlight, Procs
<1>1. CASE Tick
  BY <1>1 DEF Tick, shared, locals
<1>2. ASSUME NEW r \in Readers, NEW k \in Keys, Begin(r, k) PROVE Goal
  BY <1>2 DEF Begin, shared
<1>3. ASSUME NEW r \in Readers, HitFresh(r) PROVE Goal
  BY <1>3 DEF HitFresh, shared, Discard
<1>4. ASSUME NEW r \in Readers, HitStale(r) PROVE Goal
  BY <1>4 DEF HitStale, shared
<1>5. ASSUME NEW r \in Readers, MustFetch(r) PROVE Goal
  BY <1>5 DEF MustFetch, shared
<1>6. ASSUME NEW r \in Readers, NEW g \in Refreshers, SpawnRefresh(r, g) PROVE Goal
  BY <1>6 DEF SpawnRefresh, ReplyStale, Discard
<1>7. ASSUME NEW r \in Readers, SkipRefresh(r) PROVE Goal
  BY <1>7 DEF SkipRefresh, ReplyStale, shared, Discard
<1>8. ASSUME NEW g \in Refreshers, CleanUp(g) PROVE Goal
  BY <1>8 DEF CleanUp, locals
<1>9. ASSUME NEW p \in Procs, Lead(p) PROVE Goal
  BY <1>9 DEF Lead
<1>10. ASSUME NEW p \in Procs, Follow(p) PROVE Goal
  BY <1>10 DEF Follow, shared
<1>11. ASSUME NEW p \in Procs, UpstreamServes(p) PROVE Goal
  BY <1>11 DEF UpstreamServes, shared
<1>12. ASSUME NEW p \in Procs, UpstreamFails(p) PROVE Goal
  BY <1>12 DEF UpstreamFails, shared
<1>13. ASSUME NEW p \in Procs, Store(p) PROVE Goal
  BY <1>13 DEF Store, locals
<1>14. ASSUME NEW p \in Procs, Finish(p) PROVE Goal
  BY <1>14 DEF Finish, Discard, Woken
<1>15. CASE UNCHANGED vars
  BY <1>15 DEF vars, shared, locals
<1>. QED
  BY <1>1, <1>2, <1>3, <1>4, <1>5, <1>6, <1>7, <1>8,
     <1>9, <1>10, <1>11, <1>12, <1>13, <1>14, <1>15
     DEF Next, Work, Fetch, Serve

(* The steps that answer a reader.                                            *)
LEMMA AnswerCases ==
    ASSUME IInv, [Next]_vars, NEW c \in Readers
    PROVE  \/ reply'[c] = reply[c] /\ ~ Answered(c)
           \/ /\ pc[c] = "lookup" /\ items[key[c]] # None /\ Age(c) < Ttl(key[c])
              /\ reply'[c] = [how |-> "fresh", key |-> key[c], val |-> items[key[c]].val]
           \/ /\ pc[c] = "stale"
              /\ reply'[c] = [how |-> "stale", key |-> key[c], val |-> seen[c].val]
           \/ \E p \in Procs :
                 /\ pc[p] = "finishing" /\ key[p] = key[c]
                 /\ pc[c] = "waiting" \/ c = p
                 /\ Finish(p)
                 /\ reply'[c] = Outcome(c, got[p])
<1>. DEFINE Goal ==
           \/ reply'[c] = reply[c] /\ ~ Answered(c)
           \/ /\ pc[c] = "lookup" /\ items[key[c]] # None /\ Age(c) < Ttl(key[c])
              /\ reply'[c] = [how |-> "fresh", key |-> key[c], val |-> items[key[c]].val]
           \/ /\ pc[c] = "stale"
              /\ reply'[c] = [how |-> "stale", key |-> key[c], val |-> seen[c].val]
           \/ \E p \in Procs :
                 /\ pc[p] = "finishing" /\ key[p] = key[c]
                 /\ pc[c] = "waiting" \/ c = p
                 /\ Finish(p)
                 /\ reply'[c] = Outcome(c, got[p])
<1>. SUFFICES Goal
  OBVIOUS
<1>. USE CacheAssumption DEF IInv, SInv, TypeOK, Role, Answered, Procs
<1>1. CASE Tick
  BY <1>1 DEF Tick, shared, locals
<1>2. ASSUME NEW r \in Readers, NEW k \in Keys, Begin(r, k) PROVE Goal
  BY <1>2 DEF Begin, shared
<1>3. ASSUME NEW r \in Readers, HitFresh(r) PROVE Goal
  BY <1>3 DEF HitFresh, shared, Discard
<1>4. ASSUME NEW r \in Readers, HitStale(r) PROVE Goal
  BY <1>4 DEF HitStale, shared
<1>5. ASSUME NEW r \in Readers, MustFetch(r) PROVE Goal
  BY <1>5 DEF MustFetch, shared
<1>6. ASSUME NEW r \in Readers, NEW g \in Refreshers, SpawnRefresh(r, g) PROVE Goal
  BY <1>6 DEF SpawnRefresh, ReplyStale, Discard
<1>7. ASSUME NEW r \in Readers, SkipRefresh(r) PROVE Goal
  BY <1>7 DEF SkipRefresh, ReplyStale, shared, Discard
<1>8. ASSUME NEW g \in Refreshers, CleanUp(g) PROVE Goal
  BY <1>8 DEF CleanUp, locals
<1>9. ASSUME NEW p \in Procs, Lead(p) PROVE Goal
  BY <1>9 DEF Lead
<1>10. ASSUME NEW p \in Procs, Follow(p) PROVE Goal
  BY <1>10 DEF Follow, shared
<1>11. ASSUME NEW p \in Procs, UpstreamServes(p) PROVE Goal
  BY <1>11 DEF UpstreamServes, shared
<1>12. ASSUME NEW p \in Procs, UpstreamFails(p) PROVE Goal
  BY <1>12 DEF UpstreamFails, shared
<1>13. ASSUME NEW p \in Procs, Store(p) PROVE Goal
  BY <1>13 DEF Store, locals
<1>14. ASSUME NEW p \in Procs, Finish(p) PROVE Goal
  <2>1. CASE c \notin Woken(p)
    BY <1>14, <2>1 DEF Finish
  <2>2. CASE c \in Woken(p)
    <3>1. pc[p] = "finishing" /\ reply'[c] = Outcome(c, got[p])
      BY <1>14, <2>2 DEF Finish
    <3>2. c = p \/ (pc[c] = "waiting" /\ leader[c] = p)
      BY <2>2 DEF Woken
    <3>3. key[p] = key[c]
      BY <3>2 DEF SFInv
    <3>. QED  BY <1>14, <3>1, <3>2, <3>3
  <2>. QED  BY <2>1, <2>2
<1>15. CASE UNCHANGED vars
  BY <1>15 DEF vars, shared, locals
<1>. QED
  BY <1>1, <1>2, <1>3, <1>4, <1>5, <1>6, <1>7, <1>8,
     <1>9, <1>10, <1>11, <1>12, <1>13, <1>14, <1>15
     DEF Next, Work, Fetch, Serve


LEMMA CopiesFloorStep ==
    ASSUME IInv, FloorInv, [Next]_vars
    PROVE  CopiesFloor'
<1>. SUFFICES ASSUME NEW c \in Readers, pc'[c] \in Blocked \cup {"stale"}, seen'[c] # None,
                     NEW k, k = key'[c], NEW w, w = seen'[c].val
              PROVE  /\ Floor(k, w)'
                     /\ Replied(c)' /\ reply'[c].key = k => reply'[c].val <= w
  BY DEF CopiesFloor
<1>1. key'[c] = key[c] /\ reply'[c] = reply[c]
  BY CopyCases
<1>2. CASE pc[c] \in Blocked \cup {"stale"} /\ seen'[c] = seen[c]
  <2>1. k \in Keys
    BY <1>1, <1>2 DEF IInv, SInv, Role, Blocked, InFlight, Procs
  <2>2. w \in Nat
    BY <1>2, ValuesTyped DEF Procs
  <2>3. Floor(k, w) /\ (Replied(c) /\ reply[c].key = k => reply[c].val <= w)
    BY <1>1, <1>2 DEF FloorInv, CopiesFloor
  <2>. QED  BY <1>1, <2>1, <2>2, <2>3, FloorStable DEF Replied
<1>3. CASE seen'[c] = items[key[c]] /\ key[c] \in Keys
  <2>1. k \in Keys /\ items[k] # None /\ w = items[k].val /\ w \in Nat
    BY <1>1, <1>3, ValuesTyped
  <2>2. Floor(k, w)
    BY <2>1 DEF FloorInv, ItemsFloor
  <2>3. Replied(c) /\ reply[c].key = k => reply[c].val <= w
    BY <2>1 DEF FloorInv, RepliesFloor, Floor
  <2>. QED  BY <1>1, <2>1, <2>2, <2>3, FloorStable DEF Replied
<1>. QED  BY <1>2, <1>3, CopyCases

(* Whatever answers a reader is a floor for its key.                          *)
LEMMA OutcomeFloor ==
    ASSUME IInv, FloorInv, NEW c \in Readers, NEW p \in Procs,
           pc[p] = "finishing", key[p] = key[c], pc[c] = "waiting" \/ c = p,
           Outcome(c, got[p]).how # "failed"
    PROVE  /\ Floor(key[c], Outcome(c, got[p]).val)
           /\ Outcome(c, got[p]).key = key[c]
           /\ Replied(c) /\ reply[c].key = key[c] => reply[c].val <= Outcome(c, got[p]).val
<1>1. CASE got[p].err = "none"
  BY <1>1 DEF Outcome, FloorInv, CallsFloor, RepliesFloor, Floor
<1>2. CASE got[p].err # "none"
  <2>1. seen[c] # None /\ Outcome(c, got[p]) = [how |-> "degraded", key |-> key[c], val |-> seen[c].val]
    BY <1>2 DEF Outcome
  <2>2. pc[c] \in Blocked
    BY DEF Blocked, InFlight
  <2>. QED  BY <2>1, <2>2 DEF FloorInv, CopiesFloor
<1>. QED  BY <1>1, <1>2

LEMMA RepliesFloorStep ==
    ASSUME IInv, FloorInv, [Next]_vars
    PROVE  RepliesFloor'
<1>. SUFFICES ASSUME NEW c \in Readers, Replied(c)',
                     NEW k, k = reply'[c].key, NEW w, w = reply'[c].val
              PROVE  k \in Keys /\ Floor(k, w)'
  BY DEF RepliesFloor
<1>. USE DEF Procs
<1>1. pc[c] # "idle" => key[c] \in Keys
  BY DEF IInv, SInv, Role
<1>2. CASE reply'[c] = reply[c]
  <2>1. k \in Keys /\ Floor(k, w) /\ w \in Nat
    BY <1>2, ValuesTyped DEF FloorInv, RepliesFloor, Replied
  <2>. QED  BY <2>1, FloorStable
<1>3. CASE /\ pc[c] = "lookup" /\ items[key[c]] # None
           /\ reply'[c] = [how |-> "fresh", key |-> key[c], val |-> items[key[c]].val]
  <2>1. k \in Keys /\ Floor(k, w) /\ w \in Nat
    BY <1>1, <1>3, ValuesTyped DEF FloorInv, ItemsFloor
  <2>. QED  BY <2>1, FloorStable
<1>4. CASE /\ pc[c] = "stale"
           /\ reply'[c] = [how |-> "stale", key |-> key[c], val |-> seen[c].val]
  <2>1. seen[c] # None
    BY <1>4 DEF IInv, SInv, Role
  <2>2. k \in Keys /\ Floor(k, w) /\ w \in Nat
    BY <1>1, <1>4, <2>1, ValuesTyped DEF FloorInv, CopiesFloor
  <2>. QED  BY <2>2, FloorStable
<1>5. ASSUME NEW p \in Procs, pc[p] = "finishing", key[p] = key[c], pc[c] = "waiting" \/ c = p,
             reply'[c] = Outcome(c, got[p])
      PROVE  k \in Keys /\ Floor(k, w)'
  <2>1. Outcome(c, got[p]).how # "failed"
    BY <1>5 DEF Replied
  <2>2. Floor(k, w) /\ k = key[c]
    BY <1>5, <2>1, OutcomeFloor
  <2>3. w \in Nat
    BY <1>5, <2>1, ValuesTyped DEF Outcome
  <2>. QED  BY <1>1, <1>5, <2>2, <2>3, FloorStable
<1>. QED  BY <1>2, <1>3, <1>4, <1>5, AnswerCases

-----------------------------------------------------------------------------
RInv == IInv /\ WindowInv /\ FloorInv

LEMMA RInvInit == Init => RInv
<1>1. Init => WindowInv
  BY DEF Init, WindowInv, Blocked, InFlight, Procs
<1>2. Init => FloorInv
  BY DEF Init, FloorInv, ItemsFloor, CallsFloor, CopiesFloor, RepliesFloor, Replied,
         Blocked, InFlight, Procs
<1>. QED  BY <1>1, <1>2, IInvInit DEF RInv

LEMMA RInvStep == RInv /\ [Next]_vars => RInv'
BY IInvStep, WindowStep, ItemsFloorStep, CallsFloorStep, CopiesFloorStep, RepliesFloorStep
   DEF RInv, FloorInv

(* The inductive invariant of the readers holds of every reachable state.     *)
THEOREM ReadInvariance == Spec => []RInv
BY RInvInit, RInvStep, PTL DEF Spec

-----------------------------------------------------------------------------
LEMMA MonotonicStep ==
    ASSUME RInv, [Next]_vars, NEW r \in Readers, Answered(r),
           reply'[r].key = reply[r].key,
           reply[r].how \notin {"none", "failed"}, reply'[r].how # "failed"
    PROVE  reply'[r].val >= reply[r].val
<1>. USE DEF RInv, Procs
<1>1. Replied(r) /\ reply[r].val \in Nat
  BY ValuesTyped DEF Replied
<1>2. CASE /\ pc[r] = "lookup" /\ items[key[r]] # None
           /\ reply'[r] = [how |-> "fresh", key |-> key[r], val |-> items[key[r]].val]
  <2>1. key[r] \in Keys
    BY <1>2 DEF IInv, SInv, Role
  <2>2. items[key[r]].val \in Nat
    BY <1>2, <2>1, ValuesTyped
  <2>. QED  BY <1>1, <1>2, <2>2 DEF FloorInv, RepliesFloor, Floor
<1>3. CASE /\ pc[r] = "stale"
           /\ reply'[r] = [how |-> "stale", key |-> key[r], val |-> seen[r].val]
  <2>1. seen[r] # None /\ seen[r].val \in Nat
    BY <1>3, ValuesTyped DEF IInv, SInv, Role
  <2>. QED  BY <1>1, <1>3, <2>1 DEF FloorInv, CopiesFloor
<1>4. ASSUME NEW p \in Procs, pc[p] = "finishing", key[p] = key[r], pc[r] = "waiting" \/ r = p,
             reply'[r] = Outcome(r, got[p])
      PROVE  reply'[r].val >= reply[r].val
  <2>1. reply[r].val <= Outcome(r, got[p]).val
    BY <1>1, <1>4, OutcomeFloor
  <2>2. Outcome(r, got[p]).val \in Nat
    BY <1>4, ValuesTyped DEF Outcome
  <2>. QED  BY <1>1, <1>4, <2>1, <2>2
<1>. QED  BY <1>2, <1>3, <1>4, AnswerCases

(* A reader's successive answers for one key never go back in time, however   *)
(* many readers, refreshers and evictions come between.                       *)
THEOREM ReadsAreMonotonic == Spec => MonotonicReads
<1>1. RInv /\ [Next]_vars =>
        [\A r \in Readers :
            /\ Answered(r)
            /\ reply'[r].key = reply[r].key
            /\ reply[r].how \notin {"none", "failed"}
            /\ reply'[r].how # "failed"
            => reply'[r].val >= reply[r].val]_vars
  BY MonotonicStep
<1>. QED  BY <1>1, ReadInvariance, PTL DEF Spec, MonotonicReads

-----------------------------------------------------------------------------
WithinWindow(r) ==
    CASE reply'[r].how = "fresh" ->
           clock[r] - reply'[r].val < Ttl(key[r]) + UpstreamTimeout
      [] reply'[r].how = "stale" ->
           clock[r] - reply'[r].val < Limit(key[r]) + UpstreamTimeout
      [] reply'[r].how = "fetched" ->
           clock[r] - reply'[r].val <= UpstreamTimeout
      [] OTHER -> reply'[r].how = "degraded" =>
           clock[r] - seen[r].at >= Limit(key[r])

LEMMA WindowTyped == \A k \in Keys : Ttl(k) \in Nat /\ Limit(k) \in Nat
BY CacheAssumption, SMT DEF Ttl, Limit, Scale

LEMMA WithinWindowStep ==
    ASSUME RInv, [Next]_vars, NEW r \in Readers, Answered(r)
    PROVE  WithinWindow(r)
<1>. USE CacheAssumption DEF RInv, Procs, WithinWindow
<1>1. key[r] \in Keys /\ clock[r] \in Nat /\ Ttl(key[r]) \in Nat /\ Limit(key[r]) \in Nat
  BY WindowTyped DEF Answered, IInv, SInv, Role, TypeOK
<1>2. CASE /\ pc[r] = "lookup" /\ items[key[r]] # None /\ Age(r) < Ttl(key[r])
           /\ reply'[r] = [how |-> "fresh", key |-> key[r], val |-> items[key[r]].val]
  <2>1. items[key[r]].at \in Nat /\ items[key[r]].val \in Nat
    BY <1>1, <1>2 DEF IInv, TypeOK, Entry
  <2>2. items[key[r]].at - items[key[r]].val <= UpstreamTimeout
    BY <1>1, <1>2 DEF IInv, SInv, TimeInv
  <2>. QED  BY <1>1, <1>2, <2>1, <2>2 DEF Age
<1>3. CASE /\ pc[r] = "stale"
           /\ reply'[r] = [how |-> "stale", key |-> key[r], val |-> seen[r].val]
  <2>1. seen[r].at \in Nat /\ seen[r].val \in Nat
    BY <1>3 DEF IInv, SInv, Role, TypeOK, Entry
  <2>2. seen[r].at - seen[r].val <= UpstreamTimeout /\ clock[r] - seen[r].at < Limit(key[r])
    BY <1>3 DEF WindowInv
  <2>. QED  BY <1>1, <1>3, <2>1, <2>2
<1>4. ASSUME NEW p \in Procs, pc[p] = "finishing", key[p] = key[r], pc[r] = "waiting" \/ r = p,
             reply'[r] = Outcome(r, got[p])
      PROVE  WithinWindow(r)
  <2>1. CASE got[p].err = "none"
    <3>1. started[p] <= got[p].val /\ got[p].val \in Nat /\ started[p] \in Nat /\ now \in Nat
      BY <1>4, <2>1, ValuesTyped DEF WindowInv, IInv, TypeOK
    <3>2. clock[r] <= now /\ now - started[p] <= UpstreamTimeout
      BY <1>4 DEF WindowInv, IInv, SInv, TimeInv, InFlight
    <3>. QED  BY <1>1, <1>4, <2>1, <3>1, <3>2 DEF Outcome
  <2>2. CASE got[p].err # "none"
    BY <1>4, <2>2 DEF Outcome, WindowInv, Blocked, InFlight
  <2>. QED  BY <2>1, <2>2
<1>. QED  BY <1>2, <1>3, <1>4, AnswerCases

(* Whatever the windows and the timeout are, an answer that is not degraded   *)
(* is at most one upstream timeout older than its window allows, and an       *)
(* answer is degraded only beyond the window.                                 *)
THEOREM ServedInTime == Spec => ServedWithinWindow
<1>1. RInv /\ [Next]_vars => [\A r \in Readers : Answered(r) => WithinWindow(r)]_vars
  BY WithinWindowStep
<1>. QED  BY <1>1, ReadInvariance, PTL DEF Spec, ServedWithinWindow, WithinWindow

-----------------------------------------------------------------------------
LEMMA TerminalStep ==
    ASSUME RInv, [Next]_vars, NEW p \in Procs, NEW r \in Readers,
           pc[p] = "finishing", got[p].err = "terminal", Answered(r), key[r] = key[p],
           r = p \/ pc[r] = "waiting"
    PROVE  reply'[r].how = "failed"
<1>. USE DEF RInv, Procs
<1>1. ASSUME NEW q \in Procs, pc[q] = "finishing", key[q] = key[r], reply'[r] = Outcome(r, got[q])
      PROVE  reply'[r].how = "failed"
  <2>1. q = p
    BY <1>1 DEF IInv, SInv, SFInv, InFlight
  <2>. QED  BY <1>1, <2>1 DEF Outcome
<1>2. pc[r] # "lookup" /\ pc[r] # "stale"
  OBVIOUS
<1>. QED  BY <1>1, <1>2, AnswerCases

(* A terminal error reaches every reader that shared the call.                *)
THEOREM TerminalErrorsReachAll == Spec => TerminalErrorsSurface
<1>1. RInv /\ [Next]_vars =>
        [\A p \in Procs, r \in Readers :
            /\ pc[p] = "finishing" /\ got[p].err = "terminal" /\ pc'[p] # "finishing"
            /\ Answered(r) /\ key[r] = key[p]
            /\ r = p \/ pc[r] = "waiting"
            => reply'[r].how = "failed"]_vars
  BY TerminalStep
<1>. QED  BY <1>1, ReadInvariance, PTL DEF Spec, TerminalErrorsSurface
====
