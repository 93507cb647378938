-------------------------- MODULE PagedFleetProofs --------------------------
(***************************************************************************)
(* Proofs about the paged list and the pages that show it, for any number  *)
(* of keys, any page size and any filters: the pages do nothing to a list  *)
(* that its hook does not do, a list that says it has ended is complete,   *)
(* a page that says it has nothing to show has nothing, the table is in    *)
(* the order asked for and j and k go by it, and loading comes to an end.  *)
(***************************************************************************)
EXTENDS FleetPages, FiniteSetTheorems, TLAPS

(* The rows of a walk.                                                       *)
RowsOf(ps) == UNION {ps[i].rows : i \in DOMAIN ps}

(* The cursors of a walk go down, until one is repeated.                     *)
Chain(ps) ==
    ps # << >> =>
    /\ \A i \in DOMAIN ps : ps[i].param >= LastOf(ps).param
    /\ \/ LastOf(ps).next < LastOf(ps).param
       \/ \E i \in DOMAIN ps : ps[i].param = LastOf(ps).next

(* What a walk has not met of S is below its last cursor.                    *)
Covers(ps, S) ==
    ps # << >> => \A k \in S \cap alive : k \in RowsOf(ps) \/ k < LastOf(ps).next

EventsInv ==
    /\ alive \subseteq 1..newest
    /\ start \subseteq 1..newest
    /\ fetch.start \subseteq 1..newest
    /\ Chain(pages) /\ Chain(fetch.got)
    /\ Covers(pages, start) /\ Covers(fetch.got, fetch.start)

FetchInv ==
    /\ fetch.mode = "more" => HasMore
    /\ fetch.mode = "walk" /\ fetch.got # << >> => GetNextPageParam(fetch.got) # 0

FeedInv ==
    /\ FeedTypeOK
    /\ FetchInv
    /\ kind = "events" => EventsInv

-----------------------------------------------------------------------------
(* The page at the end of a walk. *)

LEMMA LastOfAppend ==
    ASSUME NEW S, NEW ps \in Seq(S), NEW p \in S
    PROVE  /\ Append(ps, p) \in Seq(S) /\ Append(ps, p) # << >>
           /\ LastOf(Append(ps, p)) = p
           /\ \A i \in DOMAIN Append(ps, p) :
                 Append(ps, p)[i] = p \/ (i \in DOMAIN ps /\ Append(ps, p)[i] = ps[i])
           /\ \A i \in DOMAIN ps : i \in DOMAIN Append(ps, p) /\ Append(ps, p)[i] = ps[i]
           /\ \E i \in DOMAIN Append(ps, p) : Append(ps, p)[i] = p
BY DEF LastOf

LEMMA LastIsPage ==
    ASSUME NEW ps \in Seq(Page), ps # << >>
    PROVE  /\ LastOf(ps) \in Page
           /\ \E i \in DOMAIN ps : ps[i] = LastOf(ps)
           /\ \A i \in DOMAIN ps : ps[i] \in Page
BY DEF LastOf

(* The parameters of the model are numbers.                                  *)
LEMMA Bounds == MaxKey \in Nat /\ Top \in Nat /\ Top = MaxKey + 1
BY PagedAssumption DEF Top

(* A cursor that is asked for was not asked for before.                      *)
LEMMA NextParam ==
    ASSUME NEW ps \in Seq(Page), ps # << >>, GetNextPageParam(ps) # 0
    PROVE  /\ GetNextPageParam(ps) = LastOf(ps).next
           /\ GetNextPageParam(ps) \in 1..Top
           /\ \A i \in DOMAIN ps : ps[i].param # LastOf(ps).next
<1>1. /\ GetNextPageParam(ps) = LastOf(ps).next
      /\ \A i \in DOMAIN ps : ps[i].param # LastOf(ps).next
  BY DEF GetNextPageParam
<1>2. LastOf(ps).next \in 0..MaxKey
  BY LastIsPage DEF Page
<1> QED BY <1>1, <1>2, Bounds

(* What the server may answer is a page.                                     *)
LEMMA AnswerIsPage ==
    ASSUME alive \subseteq Keys, NEW ps \in Seq(Page), NEW param \in 1..Top,
           NEW rows \in RowsFor(param), NEW next \in NextFor(param, rows, ps)
    PROVE  [param |-> param, rows |-> rows, next |-> next] \in Page
<1>1. rows \subseteq Keys
  BY DEF RowsFor, Below
<1>2. \A i \in DOMAIN ps : ps[i] \in Page
  OBVIOUS
<1>3. \A i \in DOMAIN ps : ps[i].param \in 1..Top
  BY <1>2 DEF Page
<1>4. next = 0 \/ next \in rows \/ next \in (1..Top) \ {Top}
  BY <1>3 DEF NextFor
<1>5. next = 0 \/ next \in 1..MaxKey
  <2>1. (1..Top) \ {Top} \subseteq 1..MaxKey
    BY Bounds
  <2> QED BY <1>1, <1>4, <2>1 DEF Keys
<1>6. next \in 0..MaxKey
  BY <1>5, Bounds
<1> QED BY <1>1, <1>6 DEF Page

(* A page added to a walk.                                                   *)
LEMMA PageTyped ==
    ASSUME alive \subseteq Keys, NEW ps \in Seq(Page), NEW param \in 1..Top,
           NEW rows \in RowsFor(param), NEW next \in NextFor(param, rows, ps)
    PROVE  Append(ps, [param |-> param, rows |-> rows, next |-> next]) \in Seq(Page)
<1> DEFINE p == [param |-> param, rows |-> rows, next |-> next]
<1>1. p \in Page
  BY AnswerIsPage
<1> HIDE DEF p
<1>2. Append(ps, p) \in Seq(Page)
  BY <1>1
<1> QED BY <1>2 DEF p

(* On the server's list of events, a page added to a walk keeps its cursors  *)
(* going down, and leaves nothing between two pages.                         *)
LEMMA PageCovers ==
    ASSUME kind = "events", alive \subseteq Keys,
           NEW ps \in Seq(Page), NEW param \in 1..Top,
           NEW rows \in RowsFor(param), NEW next \in NextFor(param, rows, ps),
           ps = << >> => param = Top,
           ps # << >> => GetNextPageParam(ps) # 0 /\ param = GetNextPageParam(ps),
           Chain(ps), NEW S \in SUBSET Keys, Covers(ps, S)
    PROVE  LET qs == Append(ps, [param |-> param, rows |-> rows, next |-> next])
           IN  Chain(qs) /\ Covers(qs, S)
<1> DEFINE p == [param |-> param, rows |-> rows, next |-> next]
           qs == Append(ps, p)
<1>1. p \in Page /\ p.param = param /\ p.rows = rows /\ p.next = next
  BY AnswerIsPage
<1>2. rows \subseteq Below(param) /\ (Below(param) # {} => rows # {})
      /\ \A k \in rows, j \in Below(param) \ rows : j < k
  BY DEF RowsFor
<1>3. /\ next \in 0..MaxKey /\ param \in 1..Top /\ MaxKey \in Nat
      /\ \A i \in DOMAIN ps : ps[i] \in Page /\ ps[i].param \in 1..Top
  <2>1. p.next \in 0..MaxKey
    BY <1>1 DEF Page
  <2>2. \A i \in DOMAIN ps : ps[i] \in Page
    OBVIOUS
  <2>3. \A i \in DOMAIN ps : ps[i].param \in 1..Top
    BY <2>2 DEF Page
  <2> HIDE DEF p
  <2> QED BY <1>1, <2>1, <2>2, <2>3, Bounds
<1>4. \/ next = 0 /\ rows \in {{}, Below(param)}
      \/ next \in rows /\ \A j \in rows : next <= j
      \/ next # Top /\ next = param
      \/ next # Top /\ \E i \in DOMAIN ps : next = ps[i].param
  BY DEF NextFor
<1>5. /\ qs \in Seq(Page) /\ qs # << >> /\ LastOf(qs) = p
      /\ \A i \in DOMAIN qs : qs[i] = p \/ (i \in DOMAIN ps /\ qs[i] = ps[i])
      /\ \A i \in DOMAIN ps : i \in DOMAIN qs /\ qs[i] = ps[i]
      /\ \E i \in DOMAIN qs : qs[i] = p
  <2> HIDE DEF p
  <2> QED BY ONLY <1>1, LastOfAppend, ps \in Seq(Page) DEF qs
<1> HIDE DEF p, qs
<1>6. \A i \in DOMAIN ps : ps[i].param > param
  <2> SUFFICES ASSUME NEW i \in DOMAIN ps PROVE ps[i].param > param
      OBVIOUS
  <2>1. ps # << >>
    OBVIOUS
  <2>2. param = LastOf(ps).next /\ \A j \in DOMAIN ps : ps[j].param # param
    BY <2>1, NextParam
  <2>3. LastOf(ps).next < LastOf(ps).param /\ ps[i].param >= LastOf(ps).param
    BY <2>1, <2>2 DEF Chain
  <2>4. LastOf(ps).param \in 1..Top
    BY <2>1, LastIsPage DEF Page
  <2> QED BY <1>3, <2>2, <2>3, <2>4
<1>7. Chain(qs)
  <2>1. \A i \in DOMAIN qs : qs[i].param >= param
    BY <1>1, <1>3, <1>5, <1>6
  <2>2. next < param \/ \E i \in DOMAIN qs : qs[i].param = next
    <3>1. CASE next \in rows
      BY <1>2, <1>3, <3>1 DEF Below
    <3>2. CASE next = 0
      BY <1>3, <3>2
    <3>3. CASE next = param
      BY <1>1, <1>5, <3>3
    <3>4. CASE \E i \in DOMAIN ps : next = ps[i].param
      BY <1>5, <3>4
    <3> QED BY <1>4, <3>1, <3>2, <3>3, <3>4
  <2> QED BY <1>1, <1>5, <2>1, <2>2 DEF Chain
<1>8. Covers(qs, S)
  <2> SUFFICES ASSUME NEW k \in S \cap alive, k \notin RowsOf(qs)
               PROVE  k < next
      BY <1>1, <1>5 DEF Covers
  <2>1. k \notin rows /\ k \notin RowsOf(ps)
    BY <1>1, <1>5 DEF RowsOf
  <2>2. k \in 1..MaxKey
    BY DEF Keys
  <2>3. k < param
    <3>1. CASE ps = << >>
      BY <1>3, <2>2, <3>1, Bounds
    <3>2. CASE ps # << >>
      BY <2>1, <3>2, NextParam DEF Covers
    <3> QED BY <3>1, <3>2
  <2>4. k \in Below(param)
    BY <2>3 DEF Below
  <2>5. CASE next = 0 /\ rows \in {{}, Below(param)}
    BY <1>2, <2>1, <2>4, <2>5
  <2>6. CASE next \in rows
    BY <1>2, <2>1, <2>4, <2>6
  <2>7. CASE next = param
    BY <2>3, <2>7
  <2>8. CASE \E i \in DOMAIN ps : next = ps[i].param
    BY <1>3, <1>6, <2>2, <2>3, <2>8
  <2> QED BY <1>4, <2>5, <2>6, <2>7, <2>8
<1> QED BY <1>7, <1>8 DEF qs, p
-----------------------------------------------------------------------------
(* The steps. *)

Fetches == [mode : {"idle", "walk", "more"}, n : Nat, got : Seq(Page), start : SUBSET Keys]

(* The fetches that are begun have got no page yet.                          *)
LEMMA FetchesTyped ==
    /\ Idle \in Fetches /\ Idle.mode = "idle" /\ Idle.got = << >> /\ Idle.start = {}
    /\ \A n \in Nat : /\ Walk(n) \in Fetches /\ Walk(n).mode = "walk"
                      /\ Walk(n).got = << >> /\ Walk(n).start = {}
    /\ [Idle EXCEPT !.mode = "more"] \in Fetches
    /\ [Idle EXCEPT !.mode = "more"].mode = "more"
    /\ [Idle EXCEPT !.mode = "more"].got = << >>
    /\ [Idle EXCEPT !.mode = "more"].start = {}
<1>1. << >> \in Seq(Page) /\ 0 \in Nat
  OBVIOUS
<1> QED BY <1>1 DEF Idle, Walk, Fetches

LEMMA InitInv == FeedInit => FeedInv
<1> SUFFICES ASSUME FeedInit PROVE FeedInv
    OBVIOUS
<1>1. /\ pages = << >> /\ fetch = Walk(1) /\ start = {} /\ error = FALSE
      /\ pages \in Seq(Page) /\ fetch.got = << >> /\ fetch.start = {} /\ fetch.mode = "walk"
  BY FetchesTyped DEF FeedInit
<1>2. fetch \in Fetches
  BY <1>1, FetchesTyped
<1>3. FeedTypeOK
  BY <1>1, <1>2 DEF FeedInit, FeedTypeOK, Fetches
<1>4. FetchInv
  BY <1>1 DEF FetchInv
<1>5. kind = "events" => EventsInv
  BY <1>1 DEF FeedInit, EventsInv, Chain, Covers
<1> QED BY <1>3, <1>4, <1>5 DEF FeedInv

(* A step that only starts another fetch, or none, of the pages there are.   *)
LEMMA BeginKeeps ==
    ASSUME FeedInv, UNCHANGED <<kind, alive, newest>>,
           (pages' = pages /\ start' = start) \/ (pages' = << >> /\ start' = {}),
           error' \in BOOLEAN,
           fetch' \in Fetches,
           fetch'.got = << >>, fetch'.start = {},
           fetch'.mode = "more" => pages' = pages /\ HasMore
    PROVE  FeedInv'
<1>1. pages' \in Seq(Page) /\ start' \subseteq Keys
  <2>1. << >> \in Seq(Page)
    OBVIOUS
  <2> QED BY <2>1 DEF FeedInv, FeedTypeOK
<1>2. FeedTypeOK'
  BY <1>1 DEF FeedInv, FeedTypeOK, Fetches
<1>3. FetchInv'
  BY DEF FetchInv, HasMore
<1>4. kind' = "events" => EventsInv'
  BY DEF FeedInv, EventsInv, Chain, Covers, RowsOf
<1> QED BY <1>2, <1>3, <1>4 DEF FeedInv

LEMMA StartWalkKeeps ==
    ASSUME FeedInv, StartWalk, UNCHANGED <<kind, alive, newest, pages, start>>
    PROVE  FeedInv'
<1> DEFINE n == IF pages = << >> THEN 1 ELSE Len(pages)
<1>1. n \in Nat
  BY DEF FeedInv, FeedTypeOK
<1>2. fetch' = Walk(n) /\ error' \in BOOLEAN
  BY DEF StartWalk, FeedInv, FeedTypeOK
<1> HIDE DEF n
<1>3. fetch' \in Fetches /\ fetch'.got = << >> /\ fetch'.start = {} /\ fetch'.mode = "walk"
  BY <1>1, <1>2, FetchesTyped
<1>4. fetch'.mode # "more"
  BY <1>3
<1>5. pages' = pages /\ start' = start
  OBVIOUS
<1>6. UNCHANGED <<kind, alive, newest>>
  OBVIOUS
<1> QED BY ONLY FeedInv, <1>2, <1>3, <1>4, <1>5, <1>6, BeginKeeps

LEMMA ServerKeeps ==
    ASSUME FeedInv, NEW k \in Keys, Arrive(k) \/ Evict(k)
    PROVE  FeedInv'
<1>1. /\ UNCHANGED <<kind, pages, error, fetch, start>>
      /\ \/ alive' = alive \cup {k} /\ k \notin alive
         \/ alive' = alive \ {k} /\ newest' = newest
  BY DEF Arrive, Evict
<1>2. /\ newest' \in 0..MaxKey /\ newest \in 0..MaxKey
      /\ kind = "events" => \/ newest' = newest /\ alive' = alive \ {k}
                            \/ (newest' = newest + 1 /\ newest' = k /\ alive' = alive \cup {k})
  BY Bounds DEF Arrive, Evict, FeedInv, FeedTypeOK, Keys
<1>3. FeedTypeOK'
  BY <1>1, <1>2 DEF FeedInv, FeedTypeOK
<1>4. FetchInv'
  BY <1>1 DEF FeedInv, FetchInv, HasMore, GetNextPageParam, LastOf
<1>5. ASSUME kind = "events" PROVE EventsInv'
  <2>1. alive' \subseteq 1..newest' /\ start \subseteq 1..newest' /\ fetch.start \subseteq 1..newest'
    <3>1. 1..newest \subseteq 1..newest' /\ (newest' = k => k \in 1..newest')
      BY <1>2, <1>5, Bounds DEF Keys
    <3>2. alive \subseteq 1..newest /\ start \subseteq 1..newest /\ fetch.start \subseteq 1..newest
      BY <1>5 DEF FeedInv, EventsInv
    <3>3. alive' \subseteq alive \/ (newest' = k /\ alive' = alive \cup {k})
      BY <1>1, <1>2, <1>5
    <3> QED BY <3>1, <3>2, <3>3
  <2>2. \A S : S \subseteq 1..newest => S \cap alive' \subseteq S \cap alive
    BY <1>1, <1>2, <1>5, Bounds DEF Arrive, Evict
  <2>3. Covers(pages, start)' /\ Covers(fetch.got, fetch.start)'
    BY <1>1, <1>5, <2>2 DEF FeedInv, EventsInv, Covers, RowsOf, LastOf
  <2>4. Chain(pages)' /\ Chain(fetch.got)'
    BY <1>1, <1>5 DEF FeedInv, EventsInv, Chain, LastOf
  <2> QED BY <1>1, <2>1, <2>3, <2>4 DEF EventsInv
<1> QED BY <1>1, <1>3, <1>4, <1>5 DEF FeedInv

LEMMA LoadMoreKeeps ==
    ASSUME FeedInv, LoadMore
    PROVE  FeedInv'
<1>1. /\ fetch' = [Idle EXCEPT !.mode = "more"] /\ HasMore
      /\ pages' = pages /\ start' = start /\ error' = error
  BY DEF LoadMore
<1>2. fetch' \in Fetches /\ fetch'.got = << >> /\ fetch'.start = {}
  BY <1>1, FetchesTyped
<1>3. UNCHANGED <<kind, alive, newest>>
  BY DEF LoadMore
<1>4. error' \in BOOLEAN
  BY <1>1 DEF FeedInv, FeedTypeOK
<1> QED BY ONLY FeedInv, <1>1, <1>2, <1>3, <1>4, BeginKeeps

LEMMA ResetKeeps ==
    ASSUME FeedInv, Reset
    PROVE  FeedInv'
<1>1. fetch' = Walk(1) /\ pages' = << >> /\ start' = {} /\ error' \in BOOLEAN
  BY DEF Reset
<1>2. fetch' \in Fetches /\ fetch'.got = << >> /\ fetch'.start = {} /\ fetch'.mode # "more"
  BY <1>1, FetchesTyped
<1>3. UNCHANGED <<kind, alive, newest>>
  BY DEF Reset
<1> QED BY ONLY FeedInv, <1>1, <1>2, <1>3, BeginKeeps

(* A fetch that ends leaves nothing in flight.                               *)
LEMMA EndKeeps ==
    ASSUME FeedInv, UNCHANGED <<kind, alive, newest>>, fetch' = Idle, error' \in BOOLEAN,
           pages' \in Seq(Page), start' \subseteq Keys,
           kind = "events" => Chain(pages') /\ Covers(pages', start') /\ start' \subseteq 1..newest
    PROVE  FeedInv'
<1>1. fetch' \in Fetches /\ fetch'.got = << >> /\ fetch'.start = {} /\ fetch'.mode = "idle"
  BY FetchesTyped
<1>2. FeedTypeOK'
  BY <1>1 DEF FeedInv, FeedTypeOK, Fetches
<1>3. FetchInv'
  BY <1>1 DEF FetchInv
<1>4. kind' = "events" => EventsInv'
  BY <1>1 DEF FeedInv, EventsInv, Chain, Covers
<1> QED BY <1>2, <1>3, <1>4 DEF FeedInv

LEMMA ReceiveFailureKeeps ==
    ASSUME FeedInv, ReceiveFailure
    PROVE  FeedInv'
<1>1. /\ UNCHANGED <<kind, alive, newest>> /\ fetch' = Idle /\ error' = TRUE
      /\ pages' = pages /\ start' = start
  BY DEF ReceiveFailure
<1>2. pages \in Seq(Page) /\ start \subseteq Keys
  BY DEF FeedInv, FeedTypeOK
<1>3. kind = "events" => Chain(pages) /\ Covers(pages, start) /\ start \subseteq 1..newest
  BY DEF FeedInv, EventsInv
<1> QED BY <1>1, <1>2, <1>3, EndKeeps

LEMMA ReceiveMorePageKeeps ==
    ASSUME FeedInv, ReceiveMorePage
    PROVE  FeedInv'
<1> DEFINE param == GetNextPageParam(pages)
<1>1. pages \in Seq(Page) /\ pages # << >> /\ param # 0 /\ alive \subseteq Keys /\ start \subseteq Keys
  BY DEF ReceiveMorePage, FeedInv, FeedTypeOK, FetchInv, HasMore
<1>2. param \in 1..Top
  BY <1>1, NextParam
<1>3. PICK rows \in RowsFor(param) : \E next \in NextFor(param, rows, pages) :
         pages' = Append(pages, [param |-> param, rows |-> rows, next |-> next])
  BY DEF ReceiveMorePage
<1>4. PICK next \in NextFor(param, rows, pages) :
         pages' = Append(pages, [param |-> param, rows |-> rows, next |-> next])
  BY <1>3
<1>5. pages' \in Seq(Page)
  BY ONLY <1>1, <1>2, <1>4, PageTyped
<1>6. ASSUME kind = "events" PROVE Chain(pages') /\ Covers(pages', start') /\ start' \subseteq 1..newest
  <2>1. Chain(pages) /\ Covers(pages, start) /\ start \subseteq 1..newest /\ start' = start
    BY <1>6 DEF FeedInv, EventsInv, ReceiveMorePage
  <2>2. param = GetNextPageParam(pages)
    BY DEF param
  <2> HIDE DEF param
  <2>3. Chain(pages') /\ Covers(pages', start)
    BY ONLY <1>1, <1>2, <1>4, <1>6, <2>1, <2>2, PageCovers
  <2> QED BY <2>1, <2>3
<1>7. UNCHANGED <<kind, alive, newest>> /\ fetch' = Idle /\ error' \in BOOLEAN /\ start' = start
  BY DEF ReceiveMorePage
<1> HIDE DEF param
<1> QED BY <1>1, <1>5, <1>6, <1>7, EndKeeps

LEMMA ReceiveWalkPageKeeps ==
    ASSUME FeedInv, ReceiveWalkPage
    PROVE  FeedInv'
<1> DEFINE param == WalkParam
           ps    == fetch.got
           S     == WalkStart
<1>1. ps \in Seq(Page) /\ alive \subseteq Keys /\ S \subseteq Keys /\ fetch \in Fetches /\ fetch.mode = "walk"
  BY DEF ReceiveWalkPage, FeedInv, FeedTypeOK, Fetches, WalkStart
<1>2. /\ ps = << >> => param = Top
      /\ ps # << >> => GetNextPageParam(ps) # 0 /\ param = GetNextPageParam(ps)
  BY <1>1 DEF FeedInv, FetchInv, WalkParam
<1>3. param \in 1..Top
  BY <1>1, <1>2, NextParam, Bounds
<1>4. PICK rows \in RowsFor(param) : \E next \in NextFor(param, rows, ps) :
         LET got == Got(param, rows, next) IN
         IF Len(got) < fetch.n /\ GetNextPageParam(got) # 0
         THEN /\ fetch' = [fetch EXCEPT !.got = got, !.start = S]
              /\ UNCHANGED <<pages, error, start>>
         ELSE fetch' = Idle /\ pages' = got /\ start' = S /\ error' = FALSE
  BY DEF ReceiveWalkPage
<1>5. PICK next \in NextFor(param, rows, ps) :
         LET got == Got(param, rows, next) IN
         IF Len(got) < fetch.n /\ GetNextPageParam(got) # 0
         THEN /\ fetch' = [fetch EXCEPT !.got = got, !.start = S]
              /\ UNCHANGED <<pages, error, start>>
         ELSE fetch' = Idle /\ pages' = got /\ start' = S /\ error' = FALSE
  BY <1>4
<1> DEFINE qs == Append(ps, [param |-> param, rows |-> rows, next |-> next])
<1>6. \/ /\ fetch' = [fetch EXCEPT !.got = qs, !.start = S]
         /\ GetNextPageParam(qs) # 0
         /\ UNCHANGED <<pages, error, start>>
      \/ fetch' = Idle /\ pages' = qs /\ start' = S /\ error' = FALSE
  BY <1>5 DEF Got
<1>7. UNCHANGED <<kind, alive, newest>>
  BY DEF ReceiveWalkPage
<1>8. kind = "events" => S \subseteq 1..newest /\ Chain(ps) /\ Covers(ps, S)
  BY DEF FeedInv, EventsInv, WalkStart, Covers
<1> HIDE DEF param, S, ps
<1>9. qs \in Seq(Page)
  BY ONLY <1>1, <1>3, PageTyped, rows \in RowsFor(param), next \in NextFor(param, rows, ps)
<1>10. kind = "events" => Chain(qs) /\ Covers(qs, S)
  BY ONLY <1>1, <1>2, <1>3, <1>8, PageCovers, rows \in RowsFor(param), next \in NextFor(param, rows, ps)
<1> HIDE DEF qs
<1>11. CASE fetch' = Idle /\ pages' = qs /\ start' = S /\ error' = FALSE
  BY <1>1, <1>7, <1>8, <1>9, <1>10, <1>11, EndKeeps
<1>12. CASE /\ fetch' = [fetch EXCEPT !.got = qs, !.start = S]
            /\ GetNextPageParam(qs) # 0
            /\ UNCHANGED <<pages, error, start>>
  <2>1. fetch' \in Fetches /\ fetch'.got = qs /\ fetch'.start = S /\ fetch'.mode = "walk"
    BY <1>1, <1>9, <1>12 DEF Fetches
  <2>2. FeedTypeOK'
    BY <1>7, <1>12, <2>1 DEF FeedInv, FeedTypeOK, Fetches
  <2>3. FetchInv'
    BY <1>12, <2>1 DEF FetchInv, GetNextPageParam, LastOf
  <2>4. kind' = "events" => EventsInv'
    BY <1>7, <1>8, <1>10, <1>12, <2>1 DEF FeedInv, EventsInv, Chain, Covers, RowsOf, LastOf
  <2> QED BY <2>2, <2>3, <2>4 DEF FeedInv
<1> QED BY <1>6, <1>11, <1>12

LEMMA NextInv == FeedInv /\ [FeedNext]_feedVars => FeedInv'
<1> SUFFICES ASSUME FeedInv, [FeedNext]_feedVars PROVE FeedInv'
    OBVIOUS
<1>1. CASE \E k \in Keys : Arrive(k) \/ Evict(k)
  BY <1>1, ServerKeeps
<1>2. CASE Refetch \/ InvalidateFeed \/ Return
  <2>1. StartWalk /\ UNCHANGED <<kind, alive, newest, pages, start>>
    BY <1>2 DEF Refetch, InvalidateFeed, Return
  <2> QED BY <2>1, StartWalkKeeps
<1>3. CASE LoadMore \/ Reset
  BY <1>3, LoadMoreKeeps, ResetKeeps
<1>4. CASE Answer
  BY <1>4, ReceiveWalkPageKeeps, ReceiveMorePageKeeps, ReceiveFailureKeeps DEF Answer
<1>5. CASE UNCHANGED feedVars
  BY <1>5 DEF feedVars, FeedInv, FeedTypeOK, FetchInv, HasMore, GetNextPageParam, LastOf,
              EventsInv, Chain, Covers, RowsOf
<1> QED BY <1>1, <1>2, <1>3, <1>4, <1>5 DEF FeedNext

LEMMA FeedAlwaysInv == FeedSpec => []FeedInv
BY InitInv, NextInv, PTL DEF FeedSpec

(* The pages, the cursors and the fetch in flight are always what the hook   *)
(* can hold, on both of the server's lists.                                  *)
THEOREM FeedTypeCorrect == FeedSpec => []FeedTypeOK
<1>1. FeedInv => FeedTypeOK
  BY DEF FeedInv
<1> QED BY <1>1, FeedAlwaysInv, PTL

-----------------------------------------------------------------------------
(* The pages. *)

LEMMA PagesBegin == Init => FeedInit
BY DEF Init

(* Whatever a page does to its list is a step of the list's hook.            *)
LEMMA PagesStep == [Next]_vars => [FeedNext]_feedVars
<1> SUFFICES ASSUME [Next]_vars PROVE [FeedNext]_feedVars
    OBVIOUS
<1>1. CASE UNCHANGED vars \/ SameQuery
  BY <1>1 DEF vars, feedVars, SameQuery
<1>2. CASE OtherQuery \/ Refetch \/ LoadMore \/ InvalidateFeed
  BY <1>2 DEF FeedNext, OtherQuery
<1>3. CASE AlertsPage
  <2>1. \A k : OnSelect(k) => SameQuery
    BY DEF OnSelect
  <2>2. \A sort : OnSortChange(sort) => SameQuery
    BY DEF OnSortChange
  <2>3. \A status : ToggleStatus(status) => OtherQuery
    BY DEF ToggleStatus
  <2>4. \A text : FilterAlerts(text) => OtherQuery
    BY DEF FilterAlerts
  <2>5. Click => SameQuery \/ OtherQuery
    BY <2>1, <2>2, <2>3, <2>4 DEF Click, ResetFilters
  <2>6. \A delta : MoveCursor(delta) => SameQuery
    BY DEF MoveCursor
  <2>7. PressEnter \/ PressEscape => SameQuery
    BY DEF PressEnter, PressEscape
  <2>8. PressGA \/ PressI => SameQuery \/ OtherQuery
    BY <2>3 DEF PressGA, PressI
  <2>9. Shortcut => SameQuery \/ OtherQuery
    BY <2>6, <2>7, <2>8 DEF Shortcut
  <2> QED BY <1>1, <1>2, <1>3, <2>5, <2>9 DEF AlertsPage, FetchDetail, ReceiveEvent
<1>4. CASE TimelinePage
  BY <1>1, <1>2, <1>4 DEF TimelinePage, FilterTimeline, OnSelect, CloseEvent, FetchDetail, ReceiveEvent
<1>5. CASE DevicesPage \/ RiskPage \/ CompliancePage
  BY <1>1, <1>2, <1>5 DEF DevicesPage, SearchDevices, RiskPage, SetBucket, CompliancePage, ComplianceFeed
<1>6. CASE HostPage
  BY <1>1, <1>2, <1>6 DEF HostPage, LookUp, FetchHost, ReceiveHost, VisitHost
<1>7. CASE Server
  BY <1>7 DEF Server, FeedNext
<1>8. CASE Answered
  BY <1>8 DEF Answered, FeedNext
<1> QED BY <1>1, <1>3, <1>4, <1>5, <1>6, <1>7, <1>8 DEF Next

(* The pages implement the hook's list: all that is proved of it holds on    *)
(* every one of them.                                                        *)
THEOREM PagesImplementFeed == Spec => FeedSpec
BY PagesBegin, PagesStep, PTL DEF Spec, FeedSpec

LEMMA PagesFeedInv == Spec => []FeedInv
BY PagesImplementFeed, FeedAlwaysInv, PTL

(* When nothing is left to load, nothing that was there is missing.          *)
LEMMA NoMoreIsComplete ==
    ASSUME FeedInv, kind = "events", pages # << >>, ~ HasMore, ~ CursorRepeated,
           NEW k \in start \cap alive
    PROVE  k \in Loaded
<1>1. LastOf(pages).next = 0
  BY DEF HasMore, CursorRepeated, GetNextPageParam
<1>2. k \in RowsOf(pages) \/ k < 0
  BY <1>1 DEF FeedInv, EventsInv, Covers
<1>3. k \in 1..MaxKey
  BY DEF FeedInv, FeedTypeOK, Keys
<1> QED BY <1>2, <1>3, Bounds DEF RowsOf, Loaded

(* A list of events that says it has ended holds every event that was there  *)
(* when its first page was read and still is: for any number of events, page *)
(* size and number of pages, on the alerts page and on the timeline.         *)
THEOREM EndAlwaysComplete == Spec => []EndIsComplete
<1>1. FeedInv => EndIsComplete
  <2> SUFFICES ASSUME FeedInv, kind = "events", SaysEnd, NEW k \in start \cap alive
               PROVE  k \in Loaded
      BY DEF EndIsComplete
  <2>1. pages # << >> /\ ~ HasMore /\ ~ CursorRepeated
    BY DEF SaysEnd, IsPending
  <2> QED BY <2>1, NoMoreIsComplete
<1> QED BY <1>1, PagesFeedInv, PTL
-----------------------------------------------------------------------------
(* What the pages say when they have nothing to show. *)

(* A walk whose first page is empty began when there was nothing.            *)
FirstEmpty(ps, S) == ps # << >> /\ ps[1].rows = {} => S = {}

FirstInv == FirstEmpty(pages, start) /\ FirstEmpty(fetch.got, fetch.start)

PageInv ==
    /\ page \in PagesShown
    /\ (page \in AlertPages) = (kind = "events")
    /\ page \in {"risk", "compliance"} => search.text = ""

LEMMA FirstOfAppend ==
    ASSUME NEW ps \in Seq(Page), NEW p
    PROVE  /\ ps = << >> => Append(ps, p)[1] = p
           /\ ps # << >> => Append(ps, p)[1] = ps[1]
OBVIOUS

(* Only an empty list has an empty first page.                               *)
LEMMA TopIsWhole ==
    ASSUME FeedInv, NEW rows \in RowsFor(Top), rows = {}
    PROVE  alive = {}
<1>1. Below(Top) = {}
  BY DEF RowsFor
<1>2. \A k \in alive : k < Top
  BY Bounds DEF FeedInv, FeedTypeOK, Keys
<1> QED BY <1>1, <1>2 DEF Below

LEMMA FirstKept ==
    ASSUME FeedInv, FirstInv, [FeedNext]_feedVars
    PROVE  FirstInv'
<1>1. CASE UNCHANGED <<pages, start>> /\ fetch'.got = << >>
  BY <1>1 DEF FirstInv, FirstEmpty
<1>2. CASE UNCHANGED <<pages, start, fetch>>
  BY <1>2 DEF FirstInv, FirstEmpty
<1>3. CASE Refetch \/ LoadMore \/ InvalidateFeed \/ Return
  <2>1. StartWalk => fetch'.got = << >>
    BY DEF StartWalk, Walk
  <2>2. LoadMore => fetch'.got = << >>
    BY FetchesTyped DEF LoadMore
  <2> QED BY <1>1, <1>3, <2>1, <2>2 DEF Refetch, LoadMore, InvalidateFeed, Return
<1>4. CASE Reset
  <2>1. pages' = << >> /\ fetch'.got = << >>
    BY <1>4 DEF Reset, Walk
  <2> QED BY <2>1 DEF FirstInv, FirstEmpty
<1>5. CASE ReceiveWalkPage
  <2> DEFINE ps == fetch.got
             S  == WalkStart
  <2>1. ps \in Seq(Page) /\ fetch \in Fetches
    BY DEF FeedInv, FeedTypeOK, Fetches
  <2>2. PICK rows \in RowsFor(WalkParam) : \E next \in NextFor(WalkParam, rows, ps) :
           LET got == Got(WalkParam, rows, next) IN
           IF Len(got) < fetch.n /\ GetNextPageParam(got) # 0
           THEN /\ fetch' = [fetch EXCEPT !.got = got, !.start = S]
                /\ UNCHANGED <<pages, error, start>>
           ELSE fetch' = Idle /\ pages' = got /\ start' = S /\ error' = FALSE
    BY <1>5 DEF ReceiveWalkPage
  <2>3. PICK next : LET got == Got(WalkParam, rows, next) IN
           \/ fetch' = [fetch EXCEPT !.got = got, !.start = S] /\ UNCHANGED <<pages, start>>
           \/ fetch' = Idle /\ pages' = got /\ start' = S
    BY <2>2
  <2> DEFINE p  == [param |-> WalkParam, rows |-> rows, next |-> next]
             qs == Append(ps, p)
  <2>4. FirstEmpty(qs, S)
    <3>1. p.rows = rows
      OBVIOUS
    <3>2. CASE ps = << >>
      <4>1. WalkParam = Top /\ S = alive
        BY <3>2 DEF WalkParam, WalkStart
      <4>2. qs[1] = p
        BY ONLY <2>1, <3>2, FirstOfAppend
      <4> QED BY <3>1, <4>1, <4>2, <2>2, TopIsWhole DEF FirstEmpty
    <3>3. CASE ps # << >>
      <4>1. S = fetch.start
        BY <3>3 DEF WalkStart
      <4>2. qs[1] = ps[1]
        BY ONLY <2>1, <3>3, FirstOfAppend
      <4> QED BY <3>3, <4>1, <4>2 DEF FirstInv, FirstEmpty
    <3> QED BY <3>2, <3>3
  <2>5. \/ fetch' = [fetch EXCEPT !.got = qs, !.start = S] /\ UNCHANGED <<pages, start>>
        \/ fetch' = Idle /\ pages' = qs /\ start' = S
    BY <2>3 DEF Got
  <2> HIDE DEF qs, S
  <2>6. CASE fetch' = [fetch EXCEPT !.got = qs, !.start = S] /\ UNCHANGED <<pages, start>>
    <3>1. fetch'.got = qs /\ fetch'.start = S
      BY <2>1, <2>6 DEF Fetches
    <3> QED BY <2>4, <2>6, <3>1 DEF FirstInv, FirstEmpty
  <2>7. CASE fetch' = Idle /\ pages' = qs /\ start' = S
    BY <2>4, <2>7, FetchesTyped DEF FirstInv, FirstEmpty
  <2> QED BY <2>5, <2>6, <2>7
<1>6. CASE ReceiveMorePage
  <2>1. pages \in Seq(Page) /\ pages # << >>
    BY <1>6 DEF ReceiveMorePage, FeedInv, FeedTypeOK, FetchInv, HasMore
  <2>2. PICK p : pages' = Append(pages, p)
    BY <1>6 DEF ReceiveMorePage
  <2>3. pages'[1] = pages[1]
    BY ONLY <2>1, <2>2, FirstOfAppend
  <2>4. fetch'.got = << >> /\ start' = start
    BY <1>6, FetchesTyped DEF ReceiveMorePage
  <2> QED BY <2>1, <2>3, <2>4 DEF FirstInv, FirstEmpty
<1>7. CASE ReceiveFailure
  BY <1>1, <1>7, FetchesTyped DEF ReceiveFailure
<1>8. CASE (\E k \in Keys : Arrive(k) \/ Evict(k)) \/ UNCHANGED feedVars
  BY <1>2, <1>8 DEF Arrive, Evict, feedVars
<1> QED BY <1>3, <1>4, <1>5, <1>6, <1>7, <1>8 DEF FeedNext, Answer

LEMMA KindKept == [FeedNext]_feedVars => kind' = kind
BY DEF FeedNext, feedVars, Arrive, Evict, Refetch, LoadMore, InvalidateFeed, Reset, Return,
       Answer, ReceiveWalkPage, ReceiveMorePage, ReceiveFailure

(* One page is mounted, and the risk and the compliance have no local text.  *)
LEMMA PageKept ==
    ASSUME [Next]_vars
    PROVE  page' = page /\ (page \in {"risk", "compliance"} => search' = search)
<1>1. CASE UNCHANGED <<page, search>>
  BY <1>1
<1>2. CASE page' = page /\ page \in {"alerts", "timeline", "devices"}
  BY <1>2
<1>3. CASE AlertsPage
  <2>1. UNCHANGED route => page' = page
    BY DEF route
  <2>2. \A status : ToggleStatus(status) => page' = page
    BY <2>1 DEF ToggleStatus
  <2>3. Click => page' = page
    BY <2>1, <2>2 DEF Click, OnSelect, OnSortChange, FilterAlerts, ResetFilters
  <2>4. Shortcut => page' = page
    BY <2>1, <2>2 DEF Shortcut, MoveCursor, PressEnter, PressEscape, PressGA, PressI
  <2>5. FetchDetail \/ ReceiveEvent => page' = page
    BY <2>1 DEF FetchDetail, ReceiveEvent
  <2> QED BY <1>2, <1>3, <2>3, <2>4, <2>5 DEF AlertsPage
<1>4. CASE TimelinePage
  BY <1>2, <1>4 DEF TimelinePage, FilterTimeline, OnSelect, CloseEvent, FetchDetail, ReceiveEvent, route
<1>5. CASE DevicesPage
  BY <1>2, <1>5 DEF DevicesPage, SearchDevices, route
<1>6. CASE RiskPage \/ CompliancePage \/ Server \/ Answered \/ UNCHANGED vars
  BY <1>1, <1>6 DEF RiskPage, CompliancePage, Server, Answered, vars, ui
<1>7. CASE HostPage
  BY <1>1, <1>7 DEF HostPage, FetchHost, ReceiveHost, VisitHost, ui
<1> QED BY <1>3, <1>4, <1>5, <1>6, <1>7 DEF Next

LEMMA PagesInv == Spec => [](FeedInv /\ FirstInv /\ PageInv)
<1>1. Init => FirstInv /\ PageInv
  <2>1. Init => FirstInv
    <3>1. FeedInit => pages = << >> /\ fetch = Walk(1)
      BY DEF FeedInit
    <3>2. Walk(1).got = << >>
      BY FetchesTyped
    <3> QED BY <3>1, <3>2, PagesBegin DEF FirstInv, FirstEmpty
  <2>2. Init => PageInv
    <3>1. Init /\ page \in {"risk", "compliance"} => search = DefaultSearch
      BY DEF Init
    <3>2. DefaultSearch.text = ""
      BY DEF DefaultSearch
    <3> QED BY <3>1, <3>2 DEF Init, PageInv
  <2> QED BY <2>1, <2>2
<1>2. FeedInv /\ FirstInv /\ PageInv /\ [Next]_vars => FirstInv' /\ PageInv'
  <2> SUFFICES ASSUME FeedInv, FirstInv, PageInv, [Next]_vars
               PROVE  FirstInv' /\ PageInv'
      OBVIOUS
  <2>1. FirstInv'
    BY PagesStep, FirstKept
  <2>2. PageInv'
    BY PagesStep, KindKept, PageKept DEF PageInv
  <2> QED BY <2>1, <2>2
<1> QED BY <1>1, <1>2, PagesFeedInv, PTL DEF Spec

(* That there is nothing to show, or to match, is only said of a list that   *)
(* has nothing to show: on every page, for any filters and any fleet.        *)
THEOREM EmptyAlwaysHonest == Spec => []EmptyIsHonest
<1>1. FeedInv /\ FirstInv /\ PageInv => EmptyIsHonest
  <2> SUFFICES ASSUME FeedInv, FirstInv, PageInv, SaysNone, NEW k \in start \cap alive, Passes(k)
               PROVE  FALSE
      BY DEF EmptyIsHonest
  <2>1. ASSUME Loaded = {}, pages # << >> PROVE FALSE
    <3>1. 1 \in DOMAIN pages
      BY <2>1 DEF FeedInv, FeedTypeOK
    <3>2. pages[1].rows = {}
      BY <2>1, <3>1 DEF Loaded
    <3>3. start = {}
      BY <2>1, <3>2 DEF FirstInv, FirstEmpty
    <3> QED BY <3>3
  <2>2. ASSUME k \in Loaded, Visible = {} PROVE FALSE
    BY <2>2 DEF Visible
  <2>3. CASE page = "alerts"
    <3>1. QueueView \in {"no match", "no alerts"}
      BY <2>3 DEF SaysNone
    <3>2. Visible = {} /\ ~ PartialResults /\ ~ IsPending /\ ~ (error /\ Loaded = {})
      BY <3>1 DEF QueueView
    <3>3. pages # << >>
      BY <3>2 DEF IsPending, Loaded
    <3>4. kind = "events"
      BY <2>3 DEF PageInv, AlertPages
    <3> QED BY <2>2, <3>2, <3>3, <3>4, NoMoreIsComplete DEF PartialResults
  <2>4. CASE page = "timeline"
    <3>1. TableView = "none" /\ SaysEnd
      BY <2>4 DEF SaysNone
    <3>2. Visible = {} /\ pages # << >> /\ ~ HasMore /\ ~ CursorRepeated
      BY <3>1 DEF TableView, SaysEnd, IsPending
    <3>3. kind = "events"
      BY <2>4 DEF PageInv, AlertPages
    <3> QED BY <2>2, <3>2, <3>3, NoMoreIsComplete
  <2>5. CASE page = "devices"
    <3>1. DevicesView = "no devices"
      BY <2>5 DEF SaysNone
    <3>2. ~ IsPending /\ Loaded = {} /\ ~ error
      BY <3>1 DEF DevicesView
    <3> QED BY <2>1, <3>2 DEF IsPending
  <2>6. CASE page \in {"risk", "compliance"}
    <3>1. TableView = "none" /\ SaysEnd
      BY <2>6 DEF SaysNone
    <3>2. Visible = {} /\ pages # << >>
      BY <3>1 DEF TableView, SaysEnd, IsPending
    <3>3. \A j : Passes(j)
      BY <2>6 DEF PageInv, Passes, PassesText
    <3>4. Loaded = {}
      BY <3>2, <3>3 DEF Visible
    <3> QED BY <2>1, <3>2, <3>4
  <2>7. CASE page = "host"
    BY <2>7 DEF SaysNone
  <2>8. page \in PagesShown
    BY DEF PageInv
  <2> QED BY <2>3, <2>4, <2>5, <2>6, <2>7, <2>8 DEF PagesShown, AlertPages
<1> QED BY <1>1, PagesInv, PTL
-----------------------------------------------------------------------------
(* The order of the rows. *)

(* The elements of a finite set, each with those that come before it: when   *)
(* that is an order, their numbers are the positions 0, 1, 2... of a list.   *)
LEMMA Positions ==
    ASSUME NEW V, IsFiniteSet(V), NEW A \in [V -> SUBSET V],
           \A x \in V : x \notin A[x],
           \A x, y \in V : x # y => x \in A[y] \/ y \in A[x],
           \A x, y \in V : x \in A[y] => A[x] \subseteq A[y]
    PROVE  /\ \A x \in V : Cardinality(A[x]) + 1 \in 1..Cardinality(V)
           /\ \A x, y \in V : Cardinality(A[x]) = Cardinality(A[y]) => x = y
           /\ \A x, y \in V : Cardinality(A[x]) < Cardinality(A[y]) => x \in A[y]
           /\ \A i \in 1..Cardinality(V) : \E x \in V : Cardinality(A[x]) = i - 1
<1>. DEFINE N == Cardinality(V)
            f == [x \in V |-> Cardinality(A[x]) + 1]
<1>1. N \in Nat
  BY FS_CardinalityType
<1>2. ASSUME NEW x \in V
      PROVE  /\ IsFiniteSet(A[x]) /\ Cardinality(A[x]) \in Nat
             /\ Cardinality(A[x]) < N
  <2>1. A[x] \in SUBSET V /\ A[x] # V
    OBVIOUS
  <2>2. IsFiniteSet(A[x]) /\ Cardinality(A[x]) <= N /\ N # Cardinality(A[x])
    BY <2>1, FS_Subset
  <2>3. Cardinality(A[x]) \in Nat
    BY <2>2, FS_CardinalityType
  <2>. QED  BY <1>1, <2>2, <2>3
<1>3. ASSUME NEW x \in V, NEW y \in V, x \in A[y]
      PROVE  Cardinality(A[x]) < Cardinality(A[y])
  <2>1. A[x] \in SUBSET A[y] /\ A[x] # A[y]
    BY <1>3
  <2>2. Cardinality(A[x]) <= Cardinality(A[y]) /\ Cardinality(A[y]) # Cardinality(A[x])
    BY <1>2, <2>1, FS_Subset
  <2>. QED  BY <1>2, <2>2
<1>4. \A x, y \in V : Cardinality(A[x]) = Cardinality(A[y]) => x = y
  BY <1>2, <1>3
<1>5. \A x, y \in V : Cardinality(A[x]) < Cardinality(A[y]) => x \in A[y]
  BY <1>2, <1>3
<1>6. \A x \in V : f[x] \in 1..N
  BY <1>1, <1>2
<1>7. f \in Injection(V, 1..N)
  <2>1. f \in [V -> 1..N]
    BY <1>6
  <2>2. \A x, y \in V : f[x] = f[y] => x = y
    BY <1>2, <1>4
  <2>. QED  BY <2>1, <2>2 DEF Injection, IsInjective
<1>8. f \in Surjection(V, 1..N)
  <2>1. IsFiniteSet(1..N) /\ Cardinality(1..N) = N
    <3>1. IsFiniteSet(1..N) /\ Cardinality(1..N) = IF 1 > N THEN 0 ELSE N - 1 + 1
      BY <1>1, FS_Interval
    <3>. QED  BY <1>1, <3>1
  <2>. QED  BY <1>7, <2>1, FS_Injection
<1>9. ASSUME NEW i \in 1..N PROVE \E x \in V : Cardinality(A[x]) = i - 1
  <2>1. PICK x \in V : f[x] = i
    BY <1>8 DEF Surjection
  <2>2. Cardinality(A[x]) \in Nat /\ Cardinality(A[x]) + 1 = i
    BY <1>2, <2>1
  <2>. QED  BY ONLY <2>2, x \in V
<1>. QED  BY <1>4, <1>5, <1>6, <1>9

RowsTyped ==
    /\ search.sort \in Sorts
    /\ Visible \subseteq Keys

(* The rows that pass the filters are some of the server's.                   *)
LEMMA VisibleFinite ==
    ASSUME Visible \subseteq Keys
    PROVE  IsFiniteSet(Visible) /\ Cardinality(Visible) \in Nat
<1>1. IsFiniteSet(Keys)
  BY Bounds, FS_Interval DEF Keys
<1>. QED  BY <1>1, FS_Subset, FS_CardinalityType

(* Before is a strict order of the rows, and it is total: no two rows tie.    *)
LEMMA BeforeOrders ==
    ASSUME RowsTyped, NEW rank \in [Visible -> Nat],
           NEW a \in Visible, NEW b \in Visible, NEW c \in Visible
    PROVE  /\ ~ Before(rank, a, a)
           /\ a # b => Before(rank, a, b) \/ Before(rank, b, a)
           /\ Before(rank, a, b) /\ Before(rank, b, c) => Before(rank, a, c)
<1>1. {a, b, c, Ts[a], Ts[b], Ts[c], rank[a], rank[b], rank[c]} \subseteq Nat
  <2>1. \A k \in Visible : k \in Nat /\ k \in Keys /\ rank[k] \in Nat
    BY Bounds DEF RowsTyped, Keys
  <2>2. \A k \in Keys : Ts[k] \in Nat
    BY PagesAssumption DEF PagesAssumption
  <2>. QED  BY <2>1, <2>2
<1>2. search.sort \in {"severity_desc", "age_desc", "age_asc"}
  BY DEF RowsTyped, Sorts
<1>3. CASE search.sort = "severity_desc"
  BY <1>1, <1>3 DEF Before
<1>4. CASE search.sort = "age_desc"
  BY <1>1, <1>4 DEF Before
<1>5. CASE search.sort = "age_asc"
  BY <1>1, <1>5 DEF Before
<1>. QED  BY <1>2, <1>3, <1>4, <1>5

(* Each visible row has one place in the list, after those before it.         *)
LEMMA ListInOrder ==
    ASSUME RowsTyped, NEW rank \in [Visible -> Nat]
    PROVE  LET rows == InOrder(rank) IN
           /\ rows \in [1..Cardinality(Visible) -> Visible]
           /\ \A k \in Visible : \E i \in DOMAIN rows : rows[i] = k
           /\ \A i, j \in DOMAIN rows : i < j => Before(rank, rows[i], rows[j])
<1>. DEFINE A == [k \in Visible |-> Ahead(rank, k)]
            N == Cardinality(Visible)
            rows == InOrder(rank)
<1>1. IsFiniteSet(Visible) /\ N \in Nat
  BY VisibleFinite DEF RowsTyped
<1>2. A \in [Visible -> SUBSET Visible]
  BY DEF Ahead
<1>3. \A x, y \in Visible : x \in A[y] <=> Before(rank, x, y)
  BY DEF Ahead
<1>. HIDE DEF A
<1>4. /\ \A x \in Visible : x \notin A[x]
      /\ \A x, y \in Visible : x # y => x \in A[y] \/ y \in A[x]
      /\ \A x, y \in Visible : x \in A[y] => A[x] \subseteq A[y]
  BY <1>2, <1>3, BeforeOrders
<1>5. /\ \A x \in Visible : Cardinality(A[x]) + 1 \in 1..N
      /\ \A x, y \in Visible : Cardinality(A[x]) = Cardinality(A[y]) => x = y
      /\ \A x, y \in Visible : Cardinality(A[x]) < Cardinality(A[y]) => x \in A[y]
      /\ \A i \in 1..N : \E x \in Visible : Cardinality(A[x]) = i - 1
  BY <1>1, <1>2, <1>4, Positions
<1>6. rows = [i \in 1..N |-> CHOOSE k \in Visible : Cardinality(A[k]) = i - 1]
  BY DEF InOrder, A
<1>. HIDE DEF rows, N
<1>7. DOMAIN rows = 1..N
  BY <1>6
<1>8. ASSUME NEW i \in 1..N PROVE rows[i] \in Visible /\ Cardinality(A[rows[i]]) = i - 1
  BY <1>5, <1>6
<1>9. rows \in [1..N -> Visible]
  BY <1>6, <1>8
<1>10. ASSUME NEW k \in Visible PROVE \E i \in DOMAIN rows : rows[i] = k
  <2>1. IsFiniteSet(A[k])
    BY <1>1, <1>2, FS_Subset
  <2>2. Cardinality(A[k]) \in Nat /\ Cardinality(A[k]) + 1 \in 1..N
    BY <1>5, <2>1, FS_CardinalityType
  <2>. DEFINE i == Cardinality(A[k]) + 1
  <2>3. rows[i] \in Visible /\ Cardinality(A[rows[i]]) = i - 1
    BY <1>8, <2>2
  <2>4. rows[i] = k
    BY <1>5, <2>2, <2>3
  <2>. QED  BY <1>7, <2>2, <2>4
<1>11. ASSUME NEW i \in DOMAIN rows, NEW j \in DOMAIN rows, i < j
       PROVE  Before(rank, rows[i], rows[j])
  <2>1. i \in 1..N /\ j \in 1..N /\ i - 1 < j - 1
    BY <1>1, <1>7, <1>11
  <2>2. /\ rows[i] \in Visible /\ Cardinality(A[rows[i]]) = i - 1
        /\ rows[j] \in Visible /\ Cardinality(A[rows[j]]) = j - 1
    BY <1>8, <2>1
  <2>3. rows[i] \in A[rows[j]]
    BY <1>5, <2>1, <2>2
  <2>. QED  BY <1>3, <2>2, <2>3
<1>12. /\ rows \in [1..Cardinality(Visible) -> Visible]
       /\ \A k \in Visible : \E i \in DOMAIN rows : rows[i] = k
       /\ \A i, j \in DOMAIN rows : i < j => Before(rank, rows[i], rows[j])
  BY <1>9, <1>10, <1>11 DEF N
<1>. QED  BY <1>12 DEF rows

(* The list has a row for every place.                                        *)
LEMMA RowsOfTable ==
    ASSUME TypeOK
    PROVE  /\ RowsTyped
           /\ [k \in Visible |-> BucketRankFor(k)] \in [Visible -> Nat]
           /\ VisibleRows = Screen
<1>1. search.sort \in Sorts
  BY DEF TypeOK, AlertsSearch
<1>2. Visible \subseteq Keys
  <2>1. \A i \in DOMAIN pages : pages[i] \in Page
    BY DEF TypeOK, FeedTypeOK
  <2>. QED  BY <2>1 DEF Visible, Loaded, Page
<1>3. \A k : BucketRankFor(k) \in Nat /\ BucketRank(k) = BucketRankFor(k)
  BY DEF BucketRankFor, BucketRank, RankOf
<1>. HIDE DEF BucketRank
<1>4. [k \in Visible |-> BucketRank(k)] = [k \in Visible |-> BucketRankFor(k)]
  BY <1>3
<1>5. VisibleRows = Screen
  BY <1>4 DEF VisibleRows, Screen
<1>. QED  BY <1>1, <1>2, <1>3, <1>5 DEF RowsTyped

(* The alert of every place of the list is one of the server's keys.          *)
LEMMA RowIsKey ==
    ASSUME TypeOK, NEW i \in DOMAIN VisibleRows
    PROVE  VisibleRows[i] \in Visible /\ VisibleRows[i] \in 0..MaxKey
<1>1. VisibleRows \in [1..Cardinality(Visible) -> Visible]
  BY RowsOfTable, ListInOrder DEF Screen
<1>2. VisibleRows[i] \in Visible
  BY <1>1
<1>. QED  BY <1>2, RowsOfTable, Bounds DEF RowsTyped, Keys

(* A list with n places is a sequence of length n.                            *)
LEMMA ListIsSeq ==
    ASSUME NEW S, NEW n \in Nat, NEW rows \in [1..n -> S]
    PROVE  /\ DOMAIN rows = 1..n /\ Len(rows) = n
           /\ rows # << >> => 1 \in DOMAIN rows /\ n \in DOMAIN rows /\ n # 0
<1>1. rows \in Seq(S)
  OBVIOUS
<1>2. Len(rows) = n
  BY <1>1
<1>. QED  BY <1>1, <1>2

(* One row is picked by j and k, by the arrows or by Enter.                   *)
LEMMA MoveIsRow ==
    ASSUME TypeOK, NEW delta \in {1, -1}, MoveCursor(delta)
    PROVE  \E i \in DOMAIN VisibleRows : Select(VisibleRows[i])
<1>. DEFINE n == Cardinality(Visible)
            i == CursorIndex(VisibleRows)
<1>1. VisibleRows \in [1..n -> Visible] /\ n \in Nat
  BY RowsOfTable, ListInOrder, VisibleFinite DEF Screen, RowsTyped
<1>2. DOMAIN VisibleRows = 1..n /\ Len(VisibleRows) = n /\ n # 0
  <2>1. VisibleRows # << >>
    BY DEF MoveCursor
  <2>. QED  BY <1>1, <2>1, ListIsSeq
<1>3. i \in 0..n
  BY <1>1, <1>2 DEF CursorIndex
<1>4. Clamp(i + delta, n) \in 1..n
  BY <1>1, <1>2, <1>3 DEF Clamp
<1>. HIDE DEF n, i
<1>5. CASE i # 0
  <2>1. Select(VisibleRows[Clamp(i + delta, n)])
    BY <1>2, <1>5 DEF MoveCursor, i
  <2>. QED  BY <1>2, <1>4, <2>1
<1>6. CASE i = 0
  <2>1. Select(VisibleRows[1]) \/ Select(VisibleRows[n])
    BY <1>2, <1>6 DEF MoveCursor, i
  <2>2. 1 \in DOMAIN VisibleRows /\ n \in DOMAIN VisibleRows
    BY <1>1, <1>2 DEF n
  <2>. QED  BY <2>1, <2>2
<1>. QED  BY <1>5, <1>6
-----------------------------------------------------------------------------
(* The types of the pages: the host's page always has a host.                 *)

TypesInv == TypeOK /\ (page = "host" => host \in HostQuery)

LEMMA DefaultTyped == DefaultSearch \in AlertsSearch
<1>1. 0 \in 0..MaxKey
  BY Bounds
<1>. QED  BY <1>1 DEF DefaultSearch, AlertsSearch, Sorts

LEMMA SelectTyped ==
    ASSUME TypeOK, NEW k \in 0..MaxKey, Select(k)
    PROVE  /\ search' \in AlertsSearch
           /\ detail' \in {"none", "loading", "event", "gone", "failed"}
BY DEF Select, TypeOK, AlertsSearch

(* What is chosen on the page keeps the types of its search and its alert.    *)
LEMMA ClickTyped ==
    ASSUME TypeOK, Click \/ Shortcut \/ CloseEvent \/ FetchDetail \/ ReceiveEvent
                   \/ (\E text \in Locals \cup {""} : FilterTimeline(text) \/ SearchDevices(text))
                   \/ (\E k \in Keys : OnSelect(k))
    PROVE  /\ search' \in AlertsSearch
           /\ detail' \in {"none", "loading", "event", "gone", "failed"}
           /\ UNCHANGED page /\ UNCHANGED host
<1>1. /\ search \in AlertsSearch
      /\ detail \in {"none", "loading", "event", "gone", "failed"}
  BY DEF TypeOK
<1>2. 0 \in 0..MaxKey /\ \A k \in Keys : k \in 0..MaxKey
  <2>1. MaxKey \in Nat
    BY Bounds
  <2>. QED  BY ONLY <2>1 DEF Keys
<1>3. ASSUME NEW k \in Keys, OnSelect(k)
      PROVE  /\ search' \in AlertsSearch
             /\ detail' \in {"none", "loading", "event", "gone", "failed"}
             /\ UNCHANGED route
  BY <1>2, <1>3, SelectTyped DEF OnSelect
<1>4. ASSUME NEW sort \in Sorts, OnSortChange(sort)
      PROVE  search' \in AlertsSearch /\ UNCHANGED detail /\ UNCHANGED route
  BY <1>1, <1>4 DEF OnSortChange, AlertsSearch
<1>5. ASSUME NEW status \in Chips, ToggleStatus(status)
      PROVE  search' \in AlertsSearch /\ UNCHANGED detail /\ UNCHANGED route
  <2>1. PICK statuses \in SUBSET Chips : search' = [search EXCEPT !.statuses = statuses]
    BY <1>1, <1>5 DEF ToggleStatus, AlertsSearch
  <2>. QED  BY <1>1, <1>5, <2>1 DEF ToggleStatus, AlertsSearch
<1>6. ASSUME NEW text \in Locals \cup {""},
             FilterAlerts(text) \/ FilterTimeline(text) \/ SearchDevices(text)
      PROVE  search' \in AlertsSearch /\ UNCHANGED detail /\ UNCHANGED route
  <2>1. search' = [search EXCEPT !.text = text] /\ UNCHANGED detail /\ UNCHANGED route
    BY <1>6 DEF FilterAlerts, FilterTimeline, SearchDevices
  <2>. QED  BY <1>1, <2>1 DEF AlertsSearch
<1>7. ASSUME ResetFilters
      PROVE  search' \in AlertsSearch /\ UNCHANGED detail /\ UNCHANGED route
  BY <1>1, <1>7 DEF ResetFilters, AlertsSearch
<1>8. ASSUME MoveCursor(1) \/ MoveCursor(-1)
      PROVE  /\ search' \in AlertsSearch
             /\ detail' \in {"none", "loading", "event", "gone", "failed"}
             /\ UNCHANGED route
  <2>1. PICK i \in DOMAIN VisibleRows : Select(VisibleRows[i])
    BY <1>8, MoveIsRow
  <2>2. VisibleRows[i] \in 0..MaxKey
    BY RowIsKey
  <2>. QED  BY <1>8, <2>1, <2>2, SelectTyped DEF MoveCursor
<1>9. ASSUME PressEnter
      PROVE  /\ search' \in AlertsSearch
             /\ detail' \in {"none", "loading", "event", "gone", "failed"}
             /\ UNCHANGED route
  <2>1. VisibleRows # << >> /\ Select(VisibleRows[1]) /\ UNCHANGED route
    BY <1>9 DEF PressEnter
  <2>2. VisibleRows \in [1..Cardinality(Visible) -> Visible] /\ Cardinality(Visible) \in Nat
    BY RowsOfTable, ListInOrder, VisibleFinite DEF Screen, RowsTyped
  <2>3. 1 \in DOMAIN VisibleRows
    BY <2>1, <2>2, ListIsSeq
  <2>. QED  BY <2>1, <2>3, RowIsKey, SelectTyped
<1>10. ASSUME PressEscape \/ CloseEvent
       PROVE  /\ search' \in AlertsSearch
              /\ detail' \in {"none", "loading", "event", "gone", "failed"}
              /\ UNCHANGED route
  BY <1>2, <1>10, SelectTyped DEF PressEscape, CloseEvent
<1>11. ASSUME PressGA
       PROVE  /\ search' \in AlertsSearch
              /\ detail' \in {"none", "loading", "event", "gone", "failed"}
              /\ UNCHANGED route
  BY <1>1, <1>11, DefaultTyped DEF PressGA
<1>12. ASSUME FetchDetail \/ ReceiveEvent
       PROVE  /\ search' \in AlertsSearch
              /\ detail' \in {"none", "loading", "event", "gone", "failed"}
              /\ UNCHANGED route
  BY <1>1, <1>12 DEF FetchDetail, ReceiveEvent
<1>13. Click \/ Shortcut =>
          \/ \E k \in Keys : OnSelect(k)
          \/ \E sort \in Sorts : OnSortChange(sort)
          \/ \E status \in Chips : ToggleStatus(status)
          \/ \E text \in Locals \cup {""} : FilterAlerts(text)
          \/ ResetFilters \/ MoveCursor(1) \/ MoveCursor(-1)
          \/ PressEnter \/ PressEscape \/ PressGA
  BY DEF Click, Shortcut, PressI
<1>. QED
  BY <1>1, <1>3, <1>4, <1>5, <1>6, <1>7, <1>8, <1>9, <1>10, <1>11, <1>12, <1>13 DEF route

(* The query by host is always for a host, and its data are of one.           *)
LEMMA HostTyped ==
    ASSUME TypesInv, page = "host", FetchHost \/ ReceiveHost \/ \E h \in Hosts : VisitHost(h)
    PROVE  /\ host' \in HostQuery
           /\ UNCHANGED page /\ UNCHANGED search /\ UNCHANGED detail
<1>1. host \in HostQuery
  BY DEF TypesInv
<1>2. CASE FetchHost
  BY <1>1, <1>2 DEF FetchHost, HostQuery
<1>3. CASE ReceiveHost
  BY <1>1, <1>3 DEF ReceiveHost, HostQuery
<1>4. ASSUME NEW h \in Hosts, VisitHost(h)
      PROVE  host' \in HostQuery
  <2>1. CASE host' = [host EXCEPT !.id = h, !.error = "none", !.fetching = TRUE]
    BY <1>1, <2>1 DEF HostQuery
  <2>2. CASE host' \in [id : {h}, last : {h}, error : {"none", "not found", "failed"},
                        fetching : BOOLEAN]
    BY <2>2 DEF HostQuery
  <2>. QED  BY <1>4, <2>1, <2>2 DEF VisitHost
<1>. QED  BY <1>2, <1>3, <1>4 DEF FetchHost, ReceiveHost, VisitHost

LEMMA TypesBegin == Init => TypesInv
<1> SUFFICES ASSUME Init PROVE TypesInv
    OBVIOUS
<1>1. FeedTypeOK
  BY PagesBegin, InitInv DEF FeedInv
<1>2. search \in AlertsSearch
  <2>1. CASE page = "alerts"
    BY <2>1 DEF Init
  <2>2. CASE page = "timeline"
    <3>1. search \in TimelineSearch
      BY <2>2 DEF Init
    <3>. QED  BY <3>1 DEF TimelineSearch, AlertsSearch, Sorts
  <2>3. CASE page \notin {"alerts", "timeline"}
    BY <2>3, DefaultTyped DEF Init
  <2>. QED  BY <2>1, <2>2, <2>3
<1>3. page = "host" => host \in HostQuery
  <2> SUFFICES ASSUME page = "host" PROVE host \in HostQuery
      OBVIOUS
  <2>1. PICK h \in Hosts : host = [NoHost EXCEPT !.id = h, !.fetching = TRUE]
    BY DEF Init
  <2>. QED  BY <2>1 DEF NoHost, HostQuery
<1>4. page # "host" => host = NoHost
  BY DEF Init
<1>. QED  BY <1>1, <1>2, <1>3, <1>4 DEF Init, TypesInv, TypeOK

LEMMA TypesStep == ASSUME TypesInv, FeedInv', [Next]_vars PROVE TypesInv'
<1>1. FeedTypeOK' /\ TypeOK
  BY DEF FeedInv, TypesInv
<1>2. CASE UNCHANGED <<page, ui>>
  BY <1>1, <1>2 DEF TypesInv, TypeOK, ui
<1>3. CASE /\ search' \in AlertsSearch
           /\ detail' \in {"none", "loading", "event", "gone", "failed"}
           /\ UNCHANGED page /\ UNCHANGED host
  BY <1>1, <1>3 DEF TypesInv, TypeOK
<1>4. CASE page = "host" /\ (FetchHost \/ ReceiveHost \/ \E h \in Hosts : VisitHost(h))
  BY <1>1, <1>4, HostTyped DEF TypesInv, TypeOK
<1>5. CASE AlertsPage
  BY <1>1, <1>2, <1>3, <1>5, ClickTyped DEF AlertsPage
<1>6. CASE TimelinePage
  BY <1>1, <1>2, <1>3, <1>6, ClickTyped DEF TimelinePage
<1>7. CASE DevicesPage
  BY <1>1, <1>2, <1>3, <1>7, ClickTyped DEF DevicesPage
<1>8. CASE HostPage
  BY <1>2, <1>4, <1>8 DEF HostPage
<1>9. CASE RiskPage \/ CompliancePage \/ Server \/ Answered \/ UNCHANGED vars
  BY <1>2, <1>9 DEF RiskPage, CompliancePage, Server, Answered, vars, ui
<1>. QED  BY <1>5, <1>6, <1>7, <1>8, <1>9 DEF Next

LEMMA TypesAlways == Spec => []TypesInv
BY TypesBegin, TypesStep, PagesFeedInv, PTL DEF Spec

(* The types of the pages that show a list.                                   *)
THEOREM PagesTypeCorrect == Spec => []TypeOK
BY TypesAlways, PTL DEF TypesInv

(* The table shows every row that passes the filters once, in the order that  *)
(* was asked for (QueueTable.tsx:205), and the page goes by the same list.    *)
TableInOrder ==
    LET rank == [k \in Visible |-> BucketRankFor(k)] IN
    /\ Screen \in [1..Cardinality(Visible) -> Visible]
    /\ \A k \in Visible : \E i \in DOMAIN Screen : Screen[i] = k
    /\ \A i, j \in DOMAIN Screen : i < j => Before(rank, Screen[i], Screen[j])
    /\ VisibleRows = Screen

THEOREM TableAlwaysInOrder == Spec => []TableInOrder
<1>1. TypeOK => TableInOrder
  <2> SUFFICES ASSUME TypeOK PROVE TableInOrder
      OBVIOUS
  <2>. DEFINE rank == [k \in Visible |-> BucketRankFor(k)]
  <2>1. RowsTyped /\ rank \in [Visible -> Nat] /\ Screen = InOrder(rank) /\ VisibleRows = Screen
    BY RowsOfTable DEF Screen
  <2>. HIDE DEF rank
  <2>2. /\ Screen \in [1..Cardinality(Visible) -> Visible]
        /\ \A k \in Visible : \E i \in DOMAIN Screen : Screen[i] = k
        /\ \A i, j \in DOMAIN Screen : i < j => Before(rank, Screen[i], Screen[j])
    BY <2>1, ListInOrder
  <2>. QED  BY <2>1, <2>2 DEF TableInOrder, rank
<1>. QED  BY <1>1, PagesTypeCorrect, PTL

(* j and k go to the row below and the row above, whatever the list, its      *)
(* order and its filters.                                                     *)
THEOREM JKAlwaysFollowsScreen == Spec => JKFollowsScreen
<1>1. ASSUME TypeOK, NEW delta \in {1, -1}, search.alert \in Visible,
             search'.alert # search.alert, MoveCursor(delta)
      PROVE  \E i \in DOMAIN Screen :
                /\ Screen[i] = search.alert
                /\ i + delta \in DOMAIN Screen /\ Screen[i + delta] = search'.alert
  <2>. DEFINE n == Cardinality(Visible)
              i == CursorIndex(Screen)
  <2>1. /\ Screen \in [1..n -> Visible] /\ n \in Nat
        /\ \A k \in Visible : \E j \in DOMAIN Screen : Screen[j] = k
        /\ VisibleRows = Screen
    BY <1>1, RowsOfTable, ListInOrder, VisibleFinite DEF Screen, RowsTyped
  <2>2. DOMAIN Screen = 1..n /\ Len(Screen) = n
    BY <2>1, ListIsSeq
  <2>3. i \in 1..n /\ Screen[i] = search.alert
    BY <1>1, <2>1, <2>2 DEF CursorIndex
  <2>4. i # 0 /\ Select(Screen[Clamp(i + delta, n)])
    <3>1. i # 0
      BY <2>1, <2>3
    <3>. QED  BY <1>1, <2>1, <2>2, <3>1 DEF MoveCursor
  <2>5. search'.alert = Screen[Clamp(i + delta, n)]
    BY <1>1, <2>4 DEF Select, TypeOK, AlertsSearch
  <2>. HIDE DEF n, i
  <2>6. Clamp(i + delta, n) = i \/ (i + delta \in 1..n /\ Clamp(i + delta, n) = i + delta)
    BY <2>1, <2>3 DEF Clamp
  <2>. QED  BY <1>1, <2>2, <2>3, <2>5, <2>6
<1>2. ASSUME TypeOK, Next
      PROVE  \A delta \in {1, -1} :
                search.alert \in Visible /\ search'.alert # search.alert /\ MoveCursor(delta)
                => \E i \in DOMAIN Screen :
                      /\ Screen[i] = search.alert
                      /\ i + delta \in DOMAIN Screen /\ Screen[i + delta] = search'.alert
  BY <1>1, <1>2
<1>. QED  BY <1>2, PagesTypeCorrect, PTL DEF Spec, JKFollowsScreen
-----------------------------------------------------------------------------
(* Loading ends. *)

(* No cursor of the walk was asked for twice.                                *)
AskedOnce(ps) == \A i, j \in DOMAIN ps : ps[i].param = ps[j].param => i = j

LoadInv ==
    /\ AskedOnce(pages) /\ AskedOnce(fetch.got)
    /\ IsPending => IsFetching

LEMMA AskedOnceMore ==
    ASSUME NEW ps \in Seq(Page), NEW p \in Page, AskedOnce(ps),
           \A i \in DOMAIN ps : ps[i].param # p.param
    PROVE  AskedOnce(Append(ps, p))
<1>1. \A i \in DOMAIN Append(ps, p) :
         \/ i \in DOMAIN ps /\ Append(ps, p)[i] = ps[i]
         \/ i = Len(ps) + 1 /\ Append(ps, p)[i] = p
  OBVIOUS
<1>. QED  BY <1>1 DEF AskedOnce

(* There are no more cursors than keys and the start, so that a walk with    *)
(* cursors of its own is no longer, and is shorter while one is left.        *)
LEMMA FewCursors ==
    ASSUME NEW ps \in Seq(Page), AskedOnce(ps)
    PROVE  /\ Len(ps) <= Top
           /\ \A c \in 1..Top : (\A i \in DOMAIN ps : ps[i].param # c) => Len(ps) < Top
<1>. DEFINE f == [i \in 1..Len(ps) |-> ps[i].param]
<1>1. Len(ps) \in Nat /\ DOMAIN ps = 1..Len(ps) /\ \A i \in 1..Len(ps) : ps[i].param \in 1..Top
  <2>1. \A i \in 1..Len(ps) : ps[i] \in Page
    OBVIOUS
  <2>. QED  BY <2>1 DEF Page
<1>2. IsFiniteSet(1..Len(ps)) /\ Cardinality(1..Len(ps)) = Len(ps)
  <2>1. 1 \in Int /\ Len(ps) \in Int
    BY <1>1
  <2>2. ASSUME NEW n \in Nat, Cardinality(1..n) = IF 1 > n THEN 0 ELSE n - 1 + 1
        PROVE  Cardinality(1..n) = n
    BY ONLY <2>2
  <2>. QED  BY ONLY <1>1, <2>1, <2>2, FS_Interval
<1>3. IsFiniteSet(1..Top) /\ Cardinality(1..Top) = Top
  <2>1. 1 \in Int /\ Top \in Int /\ Top >= 1
    BY Bounds
  <2>. QED  BY <2>1, FS_Interval
<1>4. ASSUME NEW T \in SUBSET (1..Top), \A i \in 1..Len(ps) : ps[i].param \in T
      PROVE  IsFiniteSet(T) /\ Len(ps) <= Cardinality(T)
  <2>1. f \in Injection(1..Len(ps), T)
    BY <1>1, <1>4 DEF AskedOnce, Injection, IsInjective
  <2>2. IsFiniteSet(T)
    BY <1>3, FS_Subset
  <2>. QED  BY <1>2, <2>1, <2>2, FS_Injection
<1>5. Len(ps) <= Top
  BY <1>1, <1>3, <1>4
<1>6. ASSUME NEW c \in 1..Top, \A i \in DOMAIN ps : ps[i].param # c PROVE Len(ps) < Top
  <2>1. Len(ps) <= Cardinality((1..Top) \ {c})
    BY <1>1, <1>4, <1>6
  <2>2. Cardinality((1..Top) \ {c}) = Top - 1
    BY <1>3, FS_RemoveElement
  <2>. QED  BY <1>1, <2>1, <2>2, Bounds
<1>. QED  BY <1>5, <1>6

(* What a page that is received does to the walk.                            *)
LEMMA WalkGrows ==
    ASSUME FeedInv, ReceiveWalkPage
    PROVE  \E p \in Page :
              /\ \A i \in DOMAIN fetch.got : fetch.got[i].param # p.param
              /\ \/ /\ fetch'.got = Append(fetch.got, p) /\ fetch'.mode = "walk"
                    /\ UNCHANGED <<pages, error>>
                 \/ fetch' = Idle /\ pages' = Append(fetch.got, p) /\ error' = FALSE
<1>. DEFINE ps == fetch.got
<1>1. fetch \in Fetches /\ ps \in Seq(Page) /\ alive \subseteq Keys /\ fetch.mode = "walk"
  BY DEF ReceiveWalkPage, FeedInv, FeedTypeOK, Fetches
<1>2. WalkParam \in 1..Top /\ \A i \in DOMAIN ps : ps[i].param # WalkParam
  <2>1. CASE ps = << >>
    <3>1. WalkParam = Top /\ DOMAIN ps = {}
      BY <2>1 DEF WalkParam
    <3>. QED  BY <3>1, Bounds
  <2>2. CASE ps # << >>
    <3>1. GetNextPageParam(ps) # 0 /\ WalkParam = GetNextPageParam(ps)
      BY <1>1, <2>2 DEF FeedInv, FetchInv, WalkParam
    <3>. QED  BY <1>1, <2>2, <3>1, NextParam
  <2>. QED  BY <2>1, <2>2
<1>3. PICK rows \in RowsFor(WalkParam) : \E next \in NextFor(WalkParam, rows, ps) :
         LET got == Got(WalkParam, rows, next) IN
         IF Len(got) < fetch.n /\ GetNextPageParam(got) # 0
         THEN /\ fetch' = [fetch EXCEPT !.got = got, !.start = WalkStart]
              /\ UNCHANGED <<pages, error, start>>
         ELSE fetch' = Idle /\ pages' = got /\ start' = WalkStart /\ error' = FALSE
  BY DEF ReceiveWalkPage
<1>4. PICK next \in NextFor(WalkParam, rows, ps) :
         LET got == Got(WalkParam, rows, next) IN
         \/ /\ fetch' = [fetch EXCEPT !.got = got, !.start = WalkStart]
            /\ UNCHANGED <<pages, error>>
         \/ fetch' = Idle /\ pages' = got /\ error' = FALSE
  BY <1>3
<1>. DEFINE p == [param |-> WalkParam, rows |-> rows, next |-> next]
<1>5. p \in Page /\ p.param = WalkParam
  BY ONLY <1>1, <1>2, AnswerIsPage, rows \in RowsFor(WalkParam),
          next \in NextFor(WalkParam, rows, ps)
<1>6. Got(WalkParam, rows, next) = Append(ps, p)
  BY DEF Got
<1>. HIDE DEF p
<1>7. \/ /\ fetch'.got = Append(ps, p) /\ fetch'.mode = "walk"
         /\ UNCHANGED <<pages, error>>
      \/ fetch' = Idle /\ pages' = Append(ps, p) /\ error' = FALSE
  BY <1>1, <1>4, <1>6 DEF Fetches
<1>. QED  BY <1>2, <1>5, <1>7

LEMMA MoreGrows ==
    ASSUME FeedInv, ReceiveMorePage
    PROVE  \E p \in Page :
              /\ \A i \in DOMAIN pages : pages[i].param # p.param
              /\ fetch' = Idle /\ pages' = Append(pages, p) /\ error' = FALSE
<1>. DEFINE param == GetNextPageParam(pages)
<1>1. pages \in Seq(Page) /\ pages # << >> /\ param # 0 /\ alive \subseteq Keys
  BY DEF ReceiveMorePage, FeedInv, FeedTypeOK, FetchInv, HasMore
<1>2. param \in 1..Top /\ \A i \in DOMAIN pages : pages[i].param # param
  BY <1>1, NextParam
<1>3. PICK rows \in RowsFor(param) : \E next \in NextFor(param, rows, pages) :
         pages' = Append(pages, [param |-> param, rows |-> rows, next |-> next])
  BY DEF ReceiveMorePage
<1>4. PICK next \in NextFor(param, rows, pages) :
         pages' = Append(pages, [param |-> param, rows |-> rows, next |-> next])
  BY <1>3
<1>. DEFINE p == [param |-> param, rows |-> rows, next |-> next]
<1>5. p \in Page /\ p.param = param
  BY ONLY <1>1, <1>2, AnswerIsPage, rows \in RowsFor(param), next \in NextFor(param, rows, pages)
<1>6. fetch' = Idle /\ error' = FALSE
  BY DEF ReceiveMorePage
<1>. QED  BY <1>2, <1>4, <1>5, <1>6

LEMMA LoadBegins == FeedInit => LoadInv
<1>. SUFFICES ASSUME FeedInit PROVE LoadInv
  OBVIOUS
<1>1. pages = << >> /\ fetch.got = << >> /\ fetch.mode = "walk"
  BY FetchesTyped DEF FeedInit
<1>. QED  BY <1>1 DEF LoadInv, AskedOnce, IsFetching

LEMMA LoadKept ==
    ASSUME FeedInv, LoadInv, [FeedNext]_feedVars
    PROVE  LoadInv'
<1>1. CASE UNCHANGED <<pages, error, fetch>>
  BY <1>1 DEF LoadInv, AskedOnce, IsPending, IsFetching
<1>2. CASE /\ pages' \in {pages, << >>} /\ fetch'.got = << >>
           /\ fetch'.mode # "idle" \/ (error' = TRUE)
  BY <1>2 DEF LoadInv, AskedOnce, IsPending, IsFetching
<1>3. CASE Refetch \/ LoadMore \/ InvalidateFeed \/ Reset \/ Return
  <2>1. \A n : Walk(n).got = << >> /\ Walk(n).mode = "walk"
    BY DEF Walk
  <2>2. StartWalk => fetch'.got = << >> /\ fetch'.mode = "walk"
    BY <2>1 DEF StartWalk
  <2>3. LoadMore => pages' = pages /\ fetch'.got = << >> /\ fetch'.mode = "more"
    BY FetchesTyped DEF LoadMore
  <2>4. Reset => pages' = << >> /\ fetch'.got = << >> /\ fetch'.mode = "walk"
    BY <2>1 DEF Reset
  <2>. QED  BY <1>2, <1>3, <2>2, <2>3, <2>4 DEF Refetch, InvalidateFeed, Return
<1>4. CASE ReceiveWalkPage
  <2>1. PICK p \in Page :
              /\ \A i \in DOMAIN fetch.got : fetch.got[i].param # p.param
              /\ \/ /\ fetch'.got = Append(fetch.got, p) /\ fetch'.mode = "walk"
                    /\ UNCHANGED <<pages, error>>
                 \/ fetch' = Idle /\ pages' = Append(fetch.got, p) /\ error' = FALSE
    BY <1>4, WalkGrows
  <2>2. fetch.got \in Seq(Page)
    BY DEF FeedInv, FeedTypeOK
  <2>3. AskedOnce(Append(fetch.got, p)) /\ Append(fetch.got, p) # << >>
    BY <2>1, <2>2, AskedOnceMore, LastOfAppend DEF LoadInv
  <2>4. fetch' = Idle => fetch'.got = << >>
    BY FetchesTyped
  <2>5. AskedOnce(<< >>)
    BY DEF AskedOnce
  <2>. QED  BY <2>1, <2>3, <2>4, <2>5 DEF LoadInv, AskedOnce, IsPending, IsFetching
<1>5. CASE ReceiveMorePage
  <2>1. PICK p \in Page :
              /\ \A i \in DOMAIN pages : pages[i].param # p.param
              /\ fetch' = Idle /\ pages' = Append(pages, p) /\ error' = FALSE
    BY <1>5, MoreGrows
  <2>2. pages \in Seq(Page)
    BY DEF FeedInv, FeedTypeOK
  <2>3. AskedOnce(Append(pages, p)) /\ Append(pages, p) # << >>
    BY <2>1, <2>2, AskedOnceMore, LastOfAppend DEF LoadInv
  <2>4. fetch'.got = << >>
    BY <2>1, FetchesTyped
  <2>. QED  BY <2>1, <2>3, <2>4 DEF LoadInv, AskedOnce, IsPending
<1>6. CASE ReceiveFailure
  BY <1>2, <1>6, FetchesTyped DEF ReceiveFailure
<1>7. CASE (\E k \in Keys : Arrive(k) \/ Evict(k)) \/ UNCHANGED feedVars
  BY <1>1, <1>7 DEF Arrive, Evict, feedVars
<1>. QED  BY <1>3, <1>4, <1>5, <1>6, <1>7 DEF FeedNext, Answer

LEMMA LoadAlways == FeedSpec => []LoadInv
<1>1. FeedInv /\ LoadInv /\ [FeedNext]_feedVars => LoadInv'
  BY LoadKept
<1>. QED  BY <1>1, LoadBegins, FeedAlwaysInv, PTL DEF FeedSpec

(* A server that repeats its cursors does not keep the list loading (the     *)
(* guard of usePagedFleet.ts:19): a list never has more pages than the       *)
(* server has cursors, and one that has them all has no more to load.        *)
LoadingBounded ==
    /\ Len(pages) <= MaxPages /\ Len(fetch.got) <= MaxPages
    /\ HasMore => Len(pages) < MaxPages

THEOREM LoadingAlwaysBounded == FeedSpec => []LoadingBounded
<1>1. FeedInv /\ LoadInv => LoadingBounded
  <2>. SUFFICES ASSUME FeedInv, LoadInv PROVE LoadingBounded
    OBVIOUS
  <2>1. pages \in Seq(Page) /\ fetch.got \in Seq(Page) /\ AskedOnce(pages) /\ AskedOnce(fetch.got)
    BY DEF FeedInv, FeedTypeOK, LoadInv
  <2>2. Len(pages) <= Top /\ Len(fetch.got) <= Top
    BY <2>1, FewCursors
  <2>3. ASSUME HasMore PROVE Len(pages) < Top
    <3>1. /\ GetNextPageParam(pages) \in 1..Top
          /\ \A i \in DOMAIN pages : pages[i].param # GetNextPageParam(pages)
      BY <2>1, <2>3, NextParam DEF HasMore
    <3>. QED  BY <2>1, <3>1, FewCursors
  <2>. QED  BY <2>2, <2>3, Bounds DEF LoadingBounded, MaxPages
<1>. QED  BY <1>1, FeedAlwaysInv, LoadAlways, PTL

(* The host page that says it is looking for the policy status of its host   *)
(* has a request in flight, or an effect due that sends the next             *)
(* ($hostId.tsx:33): none is left waiting for nothing.                       *)
LookUpDue == ~ IsFetching /\ host.id \notin Loaded /\ ~ error /\ HasMore /\ Len(pages) < MaxPages

HostLookupGoesOn == PolicyStatus = "looking" => IsFetching \/ LookUpDue

THEOREM HostLookupAlwaysGoesOn == Spec => []HostLookupGoesOn
<1>1. LoadInv /\ LoadingBounded => HostLookupGoesOn
  <2>. SUFFICES ASSUME LoadInv, LoadingBounded, PolicyStatus = "looking", ~ IsFetching
                PROVE  LookUpDue
    BY DEF HostLookupGoesOn
  <2>1. host.id \notin Loaded /\ ~ (error \/ CursorRepeated)
    BY DEF PolicyStatus
  <2>2. IsPending \/ HasMore
    BY <2>1 DEF PolicyStatus
  <2>3. HasMore
    BY <2>2 DEF LoadInv
  <2>. QED  BY <2>1, <2>3 DEF LoadingBounded, LookUpDue
<1>. QED  BY <1>1, PagesImplementFeed, LoadAlways, LoadingAlwaysBounded, PTL

(* Only the pages that have a panel have an alert selected.                   *)
AlertHome == search.alert # 0 => page \in AlertPages

LEMMA AlertHomeStep == TypeOK /\ AlertHome /\ [Next]_vars => AlertHome'
<1>. SUFFICES ASSUME TypeOK, AlertHome, [Next]_vars PROVE AlertHome'
  OBVIOUS
<1>1. page' = page
  BY PageKept
<1>2. CASE AlertsPage \/ TimelinePage
  BY <1>1, <1>2 DEF AlertsPage, TimelinePage, AlertPages, AlertHome
<1>3. CASE UNCHANGED search
  BY <1>1, <1>3 DEF AlertHome
<1>4. CASE DevicesPage
  <2>1. ASSUME NEW text, SearchDevices(text) PROVE search'.alert = search.alert
    BY <2>1 DEF SearchDevices, TypeOK, AlertsSearch
  <2>. QED  BY <1>1, <1>3, <1>4, <2>1 DEF DevicesPage, ui, AlertHome
<1>5. CASE RiskPage \/ CompliancePage \/ HostPage \/ Server \/ Answered \/ UNCHANGED vars
  BY <1>3, <1>5 DEF RiskPage, CompliancePage, HostPage, FetchHost, ReceiveHost, VisitHost,
                    Server, Answered, vars, ui
<1>. QED  BY <1>2, <1>4, <1>5 DEF Next

(* A panel that says it is loading its alert has a query that is in flight or *)
(* due, on a page that sends it: an alert that is neither among the rows nor  *)
(* asked for by id is never waited for (EventDetails.tsx:23).                 *)
PanelGoesOn ==
    PanelView = "loading" =>
        page \in AlertPages /\ DetailEnabled /\ detail \in {"none", "loading"}

THEOREM PanelAlwaysGoesOn == Spec => []PanelGoesOn
<1>1. Init => AlertHome
  <2>1. Init /\ page \notin AlertPages => search = DefaultSearch
    BY DEF Init, AlertPages
  <2>2. DefaultSearch.alert = 0
    BY DEF DefaultSearch
  <2>. QED  BY <2>1, <2>2 DEF AlertHome
<1>2. TypeOK /\ AlertHome => PanelGoesOn
  <2>. SUFFICES ASSUME TypeOK, AlertHome, PanelView = "loading"
                PROVE  page \in AlertPages /\ DetailEnabled /\ detail \in {"none", "loading"}
    BY DEF PanelGoesOn
  <2>1. search.alert # 0 /\ search.alert \notin Visible /\ detail \notin {"event", "gone", "failed"}
    BY DEF PanelView
  <2>. QED  BY <2>1 DEF AlertHome, DetailEnabled, TypeOK
<1>. QED  BY <1>1, <1>2, AlertHomeStep, PagesTypeCorrect, PTL DEF Spec
=============================================================================
