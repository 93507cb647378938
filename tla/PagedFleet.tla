----------------------------- MODULE PagedFleet -----------------------------
(***************************************************************************)
(* usePagedFleet.ts: a list that is loaded page by page and polled whole,  *)
(* from a server whose list changes under it.                              *)
(*                                                                         *)
(* A key is a position in the server's order, the highest first: an event  *)
(* (kind "events": keys are given in order of arrival and retention takes  *)
(* the oldest) or a host (kind "fleet": hosts join and are evicted         *)
(* anywhere).  A cursor is the last key of the page before; Top stands for *)
(* no cursor, 0 for next_cursor null.  A page is read and received in one  *)
(* step.  The server may repeat a cursor of the walk.                      *)
(***************************************************************************)
EXTENDS Integers, Sequences, FiniteSets

CONSTANTS
    MaxKey,          (* bound: keys                                          *)
    PageSize         (* limit                                                *)

ASSUME PagedAssumption == MaxKey \in Nat /\ PageSize \in Nat \ {0}

VARIABLES
    kind,            (* which of the server's lists this is                  *)
    alive,           (* the keys the server has                              *)
    newest,          (* the last key given to an event                       *)
    pages,           (* q.data: the pages and the params they were read with *)
    error,           (* q.error                                              *)
    fetch,           (* the fetch in flight: a walk over n pages, or one more
                        page, and the pages it has got                       *)
    start            (* what the server had when the first page was read     *)

feedVars == <<kind, alive, newest, pages, error, fetch, start>>

Keys == 1..MaxKey
Top  == MaxKey + 1
MaxPages == MaxKey + 1   (* bound: no list has more, each with a cursor of its own *)

Page == [param : 1..Top, rows : SUBSET Keys, next : 0..MaxKey]

Idle == [mode |-> "idle", n |-> 0, got |-> << >>, start |-> {}]

FeedTypeOK ==
    /\ kind \in {"events", "fleet"}
    /\ alive \subseteq Keys
    /\ newest \in 0..MaxKey
    /\ pages \in Seq(Page)
    /\ error \in BOOLEAN
    /\ fetch \in [mode : {"idle", "walk", "more"}, n : Nat, got : Seq(Page), start : SUBSET Keys]
    /\ start \subseteq Keys

-----------------------------------------------------------------------------
(* The server. *)

Below(param) == {k \in alive : k < param}

(* A page: the highest keys below the cursor, as many as the server likes.   *)
(* A cursor that names a host it no longer has gets an empty page.           *)
RowsFor(param) ==
    IF kind = "fleet" /\ param \notin alive \cup {Top}
    THEN {{}}
    ELSE {rows \in SUBSET Below(param) :
            /\ Cardinality(rows) <= PageSize
            /\ Below(param) # {} => rows # {}
            /\ \A k \in rows, j \in Below(param) \ rows : j < k}

(* The cursor after it, if anything is left, or one of the walk again.       *)
NextFor(param, rows, walk) ==
    (IF rows \in {{}, Below(param)} THEN {0}
     ELSE {k \in rows : \A j \in rows : k <= j})
    \cup (({param} \cup {walk[i].param : i \in DOMAIN walk}) \ {Top})

Arrive(k) ==
    /\ kind = "events" => k = newest + 1
    /\ k \in Keys \ alive
    /\ alive' = alive \cup {k}
    /\ newest' = IF kind = "events" THEN k ELSE newest
    /\ UNCHANGED <<kind, pages, error, fetch, start>>

Evict(k) ==
    /\ k \in alive
    /\ kind = "events" => \A j \in alive : k <= j
    /\ alive' = alive \ {k}
    /\ UNCHANGED <<kind, newest, pages, error, fetch, start>>
-----------------------------------------------------------------------------
(* The query, and what the hook returns of it. *)

LastOf(walk) == walk[Len(walk)]

(* getNextPageParam; 0 is undefined.                                         *)
GetNextPageParam(walk) ==
    IF \E i \in DOMAIN walk : walk[i].param = LastOf(walk).next
    THEN 0 ELSE LastOf(walk).next

IsFetching == fetch.mode # "idle"
IsPending  == pages = << >> /\ ~ error
HasMore    == pages # << >> /\ GetNextPageParam(pages) # 0

CursorRepeated ==
    /\ pages # << >> /\ LastOf(pages).next # 0
    /\ \E i \in DOMAIN pages : pages[i].param = LastOf(pages).next

(* rows: one for each identity.                                              *)
Loaded == UNION {pages[i].rows : i \in DOMAIN pages}

Walk(n) == [mode |-> "walk", n |-> n, got |-> << >>, start |-> {}]

(* A fetch of all the pages there are, or of the first.                      *)
StartWalk ==
    /\ fetch' = Walk(IF pages = << >> THEN 1 ELSE Len(pages))
    /\ error' = (error /\ pages # << >>)

FeedInit ==
    /\ kind \in {"events", "fleet"}
    /\ newest \in 0..MaxKey
    /\ alive \in SUBSET Keys
    /\ kind = "events" => alive = 1..newest
    /\ kind = "fleet" => newest = 0
    /\ pages = << >>
    /\ error = FALSE
    /\ fetch = Walk(1)
    /\ start = {}

(* The interval, and Refresh; neither does anything while a fetch is under   *)
(* way.                                                                      *)
Refetch ==
    /\ ~ IsFetching
    /\ StartWalk
    /\ UNCHANGED <<kind, alive, newest, pages, start>>

LoadMore ==
    /\ ~ IsFetching
    /\ HasMore
    /\ Len(pages) < MaxPages
    /\ fetch' = [Idle EXCEPT !.mode = "more"]
    /\ UNCHANGED <<kind, alive, newest, pages, error, start>>

(* invalidateQueries after a triage write: a fetch in flight is cancelled,   *)
(* unless it is the first.                                                   *)
InvalidateFeed ==
    /\ pages # << >> \/ ~ IsFetching
    /\ StartWalk
    /\ UNCHANGED <<kind, alive, newest, pages, start>>

(* Other parameters are another query, with nothing in the cache.            *)
Reset ==
    /\ pages' = << >>
    /\ error' = FALSE
    /\ fetch' = Walk(1)
    /\ start' = {}
    /\ UNCHANGED <<kind, alive, newest>>

(* Other parameters and back again: the fetch was aborted, the data is still *)
(* in the cache and is fetched again.                                        *)
Return ==
    /\ StartWalk
    /\ UNCHANGED <<kind, alive, newest, pages, start>>
-----------------------------------------------------------------------------
(* Variant: a walk uses the cursors the pages were read with before.         *)
WalkParamOld ==
    IF Len(fetch.got) < Len(pages) THEN pages[Len(fetch.got) + 1].param ELSE Top

(* Variant: the first page is asked for with the cursor null.                *)
WalkParamNull == IF fetch.got = << >> THEN 0 ELSE GetNextPageParam(fetch.got)

WalkParam == IF fetch.got = << >> THEN Top ELSE GetNextPageParam(fetch.got)

Got(param, rows, next) == Append(fetch.got, [param |-> param, rows |-> rows, next |-> next])

WalkStart == IF fetch.got = << >> THEN alive ELSE fetch.start

(* The walk goes on with the cursor of the page it has got, as far as there  *)
(* were pages before, and is shown when it is over.                          *)
ReceiveWalkPage ==
    /\ fetch.mode = "walk"
    /\ \E rows \in RowsFor(WalkParam) : \E next \in NextFor(WalkParam, rows, fetch.got) :
          LET got == Got(WalkParam, rows, next) IN
          IF Len(got) < fetch.n /\ GetNextPageParam(got) # 0
          THEN /\ fetch' = [fetch EXCEPT !.got = got, !.start = WalkStart]
               /\ UNCHANGED <<pages, error, start>>
          ELSE /\ fetch' = Idle
               /\ pages' = got
               /\ start' = WalkStart
               /\ error' = FALSE
    /\ UNCHANGED <<kind, alive, newest>>

ReceiveMorePage ==
    /\ fetch.mode = "more"
    /\ LET param == GetNextPageParam(pages) IN
       \E rows \in RowsFor(param) : \E next \in NextFor(param, rows, pages) :
          pages' = Append(pages, [param |-> param, rows |-> rows, next |-> next])
    /\ fetch' = Idle
    /\ error' = FALSE
    /\ UNCHANGED <<kind, alive, newest, start>>

(* No page is retried; the data there was is kept.                           *)
ReceiveFailure ==
    /\ IsFetching
    /\ fetch' = Idle
    /\ error' = TRUE
    /\ UNCHANGED <<kind, alive, newest, pages, start>>

Answer == ReceiveWalkPage \/ ReceiveMorePage \/ ReceiveFailure

FeedNext ==
    \/ \E k \in Keys : Arrive(k) \/ Evict(k)
    \/ Refetch \/ LoadMore \/ InvalidateFeed \/ Reset \/ Return
    \/ Answer

FeedSpec == FeedInit /\ [][FeedNext]_feedVars
-----------------------------------------------------------------------------
(* Pagination.tsx: "end of results" rather than "partial results".           *)
SaysEnd == ~ IsPending /\ ~ HasMore /\ ~ CursorRepeated /\ ~ error

(* When the list says it has ended, it holds every event that was there when *)
(* its first page was read and that still is: a refresh rebuilds the cursors *)
(* and leaves no gap for what arrived in between (usePagedFleet.ts:9), and a *)
(* repeated cursor is not taken for the end.                                 *)
EndIsComplete == kind = "events" /\ SaysEnd => (start \cap alive) \subseteq Loaded
=============================================================================
