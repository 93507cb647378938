----------------------------- MODULE FleetPages -----------------------------
(***************************************************************************)
(* The pages of the console that show a paged list (module PagedFleet):    *)
(* the alerts queue with its filters, its order, its selection and its     *)
(* shortcuts, the tabs of the fleet (the timeline of its events, its       *)
(* devices, their risk and their compliance), and a host's page, which     *)
(* loads the compliance page by page until it has met its host.            *)
(*                                                                         *)
(* One page is mounted.  A change of the URL is one step (the guard it     *)
(* passes is module ConsoleSession's), 0 is no alert selected.  The keys   *)
(* are what the filters that the server applies let through.               *)
(***************************************************************************)
EXTENDS PagedFleet

CONSTANTS
    Hosts,           (* the hosts whose pages are visited                    *)
    Bucket,          (* key -> an event's AI Guard bucket, or "none"         *)
    Severity,        (* key -> its severity                                  *)
    Ts,              (* key -> its timestamp, by the agent's clock           *)
    Status,          (* key -> its triage status                             *)
    Chips,           (* the status filters used                              *)
    Locals,          (* the texts searched for in what is loaded             *)
    Match            (* a text -> the keys it matches                        *)

VARIABLES
    page,            (* the page that is mounted                             *)
    search,          (* its filters, its order and the alert it shows        *)
    detail,          (* the query by id for the selected alert               *)
    host             (* the query of the host page                           *)

route == <<page, host>>
ui    == <<search, detail, host>>
vars  == <<feedVars, page, ui>>

AlertPages == {"alerts", "timeline"}
PagesShown == AlertPages \cup {"devices", "risk", "compliance", "host"}

Buckets == {"none", "info", "low", "medium", "high", "critical"}
Sorts   == {"severity_desc", "age_desc", "age_asc"}

ASSUME PagesAssumption ==
    /\ Hosts \subseteq Keys /\ Hosts # {}
    /\ Bucket \in [Keys -> Buckets]
    /\ Severity \in [Keys -> {"info", "warn"}]
    /\ Ts \in [Keys -> Nat]
    /\ Status \in [Keys -> {"open", "acknowledged", "investigating", "resolved"}]
    /\ Chips \subseteq {"open", "acknowledged", "investigating", "resolved"}
    /\ "" \notin Locals
    /\ Match \in [Locals -> SUBSET Keys]

DefaultSearch == [statuses |-> {}, text |-> "", sort |-> "severity_desc", alert |-> 0]

(* What the alerts page's validateSearch lets through.                       *)
AlertsSearch ==
    [statuses : SUBSET Chips, text : Locals \cup {""}, sort : Sorts, alert : 0..MaxKey]

(* The timeline's: the tool it is narrowed to, and an event.                 *)
TimelineSearch ==
    [statuses : {{}}, text : Locals \cup {""}, sort : {"severity_desc"}, alert : 0..MaxKey]

(* The query by host: its host, the one that its data are of, or were of     *)
(* before it had any (keepPreviousData), and how it ended last.              *)
HostQuery ==
    [id : Hosts, last : Hosts \cup {0}, error : {"none", "not found", "failed"},
     fetching : BOOLEAN]

NoHost == [id |-> 0, last |-> 0, error |-> "none", fetching |-> FALSE]

TypeOK ==
    /\ FeedTypeOK
    /\ page \in PagesShown
    /\ search \in AlertsSearch
    /\ detail \in {"none", "loading", "event", "gone", "failed"}
    /\ host \in HostQuery \cup {NoHost}

Init ==
    /\ FeedInit
    /\ page \in PagesShown
    /\ (page \in AlertPages) = (kind = "events")
    /\ search \in (CASE page = "alerts"   -> AlertsSearch
                     [] page = "timeline" -> TimelineSearch
                     [] OTHER             -> {DefaultSearch})
    /\ detail = "none"
    /\ host \in (IF page = "host" THEN {[NoHost EXCEPT !.id = h, !.fetching = TRUE] : h \in Hosts}
                 ELSE {NoHost})

-----------------------------------------------------------------------------
(* What the pages show. *)

(* applyClientFilter *)
PassesFilter(k) ==
    /\ search.statuses = {} \/ Status[k] \in search.statuses
    /\ search.text = "" \/ k \in Match[search.text]

(* The timeline by its tool, the devices by the text searched for.           *)
PassesText(k) == search.text = "" \/ k \in Match[search.text]

Passes(k) == IF page = "alerts" THEN PassesFilter(k) ELSE PassesText(k)
Visible   == {k \in Loaded : Passes(k)}

RankOf(bucket) ==
    CASE bucket = "critical" -> 4 [] bucket = "high" -> 3 [] bucket = "medium" -> 2
      [] bucket = "low" -> 1 [] OTHER -> 0

(* By ranks and times.  The sort is stable, and the list comes with the      *)
(* highest key first.                                                        *)
Before(rank, a, b) ==
    LET older == Ts[a] < Ts[b]
        newer == Ts[a] > Ts[b]
    IN CASE search.sort = "severity_desc" ->
              \/ rank[a] > rank[b]
              \/ rank[a] = rank[b] /\ (newer \/ (~ older /\ a > b))
         [] search.sort = "age_desc" -> newer \/ (~ older /\ a > b)
         [] search.sort = "age_asc"  -> older \/ (~ newer /\ a > b)

(* The rows that come before k, and the row that i - 1 others come before.   *)
Ahead(rank, k) == {j \in Visible : Before(rank, j, k)}

InOrder(rank) ==
    [i \in 1..Cardinality(Visible) |->
        CHOOSE k \in Visible : Cardinality(Ahead(rank, k)) = i - 1]

(* QueueTable's order, of the rows on screen. *)
BucketRankFor(k) ==
    IF Bucket[k] # "none" THEN RankOf(Bucket[k]) ELSE IF Severity[k] = "warn" THEN 2 ELSE 0

Screen == InOrder([k \in Visible |-> BucketRankFor(k)])

(* Variant: without the rank of a warning.                                   *)
BucketRankAiOnly(k) == RankOf(Bucket[k])

(* The order of the alerts page, which j and k go by.                        *)
BucketRank(k) ==
    IF Bucket[k] # "none" THEN RankOf(Bucket[k]) ELSE IF Severity[k] = "warn" THEN 2 ELSE 0

VisibleRows == InOrder([k \in Visible |-> BucketRank(k)])

(* isFilterActive *)
FiltersActive == search.statuses # {} \/ search.text # ""

(* Variant: a repeated cursor is not partial.                                *)
PartialIfMore == HasMore

PartialResults == HasMore \/ CursorRepeated

(* The queue: QueueTable with its empty states, or the error in its place.   *)
QueueView ==
    CASE error /\ Loaded = {}          -> "failed"
      [] IsPending                     -> "skeleton"
      [] ~ IsPending /\ Visible # {}   -> "rows"
      [] OTHER -> IF PartialResults THEN "partial"
                  ELSE IF FiltersActive THEN "no match" ELSE "no alerts"

(* Variant: only an empty list asks for the event.                           *)
DetailEnabledIfEmpty == search.alert # 0 /\ Visible = {}

(* EventDetails: the event is asked for by id when it is not among the rows. *)
DetailEnabled == search.alert # 0 /\ search.alert \notin Visible

PanelView ==
    CASE search.alert = 0                                  -> "closed"
      [] search.alert \in Visible \/ (search.alert # 0 /\ detail = "event") -> "slideover"
      [] OTHER -> IF detail = "gone" THEN "unavailable"
                  ELSE IF detail = "failed" THEN "failed" ELSE "loading"
-----------------------------------------------------------------------------
(* What the alerts page does. *)

(* setSearch with another alert: another query by id.                        *)
Select(k) ==
    /\ search' = [search EXCEPT !.alert = k]
    /\ detail' = IF k = search.alert THEN detail ELSE "none"

SameQuery == UNCHANGED <<kind, alive, newest, pages, error, fetch, start>>

(* Other filters: a query that is not in the cache, or one that still is.    *)
OtherQuery == Reset \/ Return

OnSelect(k) ==
    /\ k \in Visible
    /\ Select(k)
    /\ SameQuery /\ UNCHANGED route

OnSortChange(sort) ==
    /\ sort # search.sort
    /\ search' = [search EXCEPT !.sort = sort]
    /\ SameQuery /\ UNCHANGED <<route, detail>>

ToggleStatus(status) ==
    /\ search' = [search EXCEPT !.statuses =
                    IF status \in @ THEN @ \ {status} ELSE @ \cup {status}]
    /\ OtherQuery
    /\ UNCHANGED <<route, detail>>

(* The search box; the severity and the range, which change the list.        *)
FilterAlerts(text) ==
    /\ search' = [search EXCEPT !.text = text]
    /\ OtherQuery
    /\ UNCHANGED <<route, detail>>

ResetFilters ==
    /\ QueueView = "no match"
    /\ search' = [search EXCEPT !.statuses = {}, !.text = ""]
    /\ OtherQuery
    /\ UNCHANGED <<route, detail>>

CursorIndex(rows) ==
    IF \E i \in DOMAIN rows : rows[i] = search.alert
    THEN CHOOSE i \in DOMAIN rows : rows[i] = search.alert
    ELSE 0

Clamp(i, n) == IF i < 1 THEN 1 ELSE IF i > n THEN n ELSE i

(* j and k, and the arrows. *)
MoveCursor(delta) ==
    LET rows == VisibleRows
        i    == CursorIndex(rows)
    IN
    /\ rows # << >>
    /\ Select(IF i # 0 THEN rows[Clamp(i + delta, Len(rows))]
              ELSE IF delta > 0 THEN rows[1] ELSE rows[Len(rows)])
    /\ SameQuery /\ UNCHANGED route

PressEnter ==
    /\ VisibleRows # << >> /\ CursorIndex(VisibleRows) = 0
    /\ Select(VisibleRows[1])
    /\ SameQuery /\ UNCHANGED route

(* With the list of shortcuts open, Escape closes that instead. *)
PressEscape ==
    /\ search.alert # 0
    /\ Select(0)
    /\ SameQuery /\ UNCHANGED route

(* g and, within a second, a: a link to the page without a search.           *)
PressGA ==
    /\ search' = DefaultSearch
    /\ detail' = IF search.alert = 0 THEN detail ELSE "none"
    /\ IF FiltersActive THEN OtherQuery ELSE SameQuery
    /\ UNCHANGED route

(* triggerStatusButton("Investigating"): the first button of the document    *)
(* with that text is the chip of the filter row.                             *)
PressI ==
    /\ "investigating" \in Chips
    /\ ToggleStatus("investigating")

Click ==
    \/ \E k \in Keys : OnSelect(k)
    \/ \E sort \in Sorts : OnSortChange(sort)
    \/ \E status \in Chips : ToggleStatus(status)
    \/ \E text \in Locals \cup {""} : FilterAlerts(text)
    \/ ResetFilters

Shortcut ==
    \/ MoveCursor(1) \/ MoveCursor(-1)
    \/ PressEnter \/ PressEscape
    \/ PressGA \/ PressI

(* The query by id: when it is enabled, when it is again, and by Retry.      *)
FetchDetail ==
    /\ DetailEnabled
    /\ detail \in {"none", "gone", "failed"}
    /\ detail' = "loading"
    /\ SameQuery /\ UNCHANGED <<route, search>>

ReceiveEvent ==
    /\ detail = "loading"
    /\ detail' \in {"failed", IF search.alert \in alive THEN "event" ELSE "gone"}
    /\ SameQuery /\ UNCHANGED <<route, search>>
-----------------------------------------------------------------------------
(* The tabs of the fleet. *)

(* EventsTable, RiskTable and ComplianceTable: what is said in their place.  *)
TableView ==
    IF IsPending THEN "skeleton" ELSE IF Visible = {} THEN "none" ELSE "rows"

DevicesView ==
    CASE IsPending                      -> "skeleton"
      [] ~ IsPending /\ Visible # {}    -> "table"
      [] OTHER -> IF error THEN "unavailable"
                  ELSE IF Loaded # {} \/ HasMore THEN "no match" ELSE "no devices"

(* The chips and the form: the tool is part of the query's key.              *)
FilterTimeline(text) ==
    /\ search' = [search EXCEPT !.text = text]
    /\ OtherQuery
    /\ UNCHANGED <<route, detail>>

CloseEvent ==
    /\ search.alert # 0
    /\ Select(0)
    /\ SameQuery /\ UNCHANGED route

(* A triage write invalidates the queue (['fleet', 'events']), not this.     *)
TimelinePage ==
    /\ page = "timeline"
    /\ \/ (Refetch \/ LoadMore) /\ UNCHANGED <<page, ui>>
       \/ \E text \in Locals \cup {""} : FilterTimeline(text)
       \/ \E k \in Keys : OnSelect(k)
       \/ CloseEvent
       \/ FetchDetail \/ ReceiveEvent

(* The status goes to the server, the text stays in the page.                *)
SearchDevices(text) ==
    /\ search' = [search EXCEPT !.text = text]
    /\ SameQuery /\ UNCHANGED <<route, detail>>

DevicesPage ==
    /\ page = "devices"
    /\ \/ (Refetch \/ LoadMore \/ OtherQuery) /\ UNCHANGED <<page, ui>>
       \/ \E text \in Locals \cup {""} : SearchDevices(text)

(* The bucket is part of the query's key.                                    *)
SetBucket == OtherQuery

RiskPage ==
    /\ page = "risk"
    /\ Refetch \/ LoadMore \/ SetBucket
    /\ UNCHANGED <<page, ui>>

(* The query of the compliance has no filters.                               *)
ComplianceFeed == Refetch \/ LoadMore

CompliancePage ==
    /\ page = "compliance"
    /\ ComplianceFeed
    /\ UNCHANGED <<page, ui>>
-----------------------------------------------------------------------------
(* The host's page. *)

(* Variant: the data there are come before the error.                        *)
HostViewDataFirst ==
    CASE host.last # 0 -> "host"
      [] OTHER -> IF host.error = "none" THEN "skeleton" ELSE host.error

(* The error comes before the data; without data of its own the query shows  *)
(* those of the host before, if there was one.                               *)
HostView ==
    CASE host.error # "none" -> host.error
      [] OTHER -> IF host.last = 0 THEN "skeleton" ELSE "host"

PolicyStatus ==
    CASE host.id \in Loaded                                         -> "known"
      [] host.id \notin Loaded /\ (error \/ CursorRepeated)         -> "failed"
      [] OTHER -> IF IsPending \/ HasMore \/ IsFetching THEN "looking" ELSE "not reported"

(* Variant: the effect is not run again after a second page.                 *)
LookUpOnce ==
    /\ host.id \notin Loaded /\ ~ error /\ Len(pages) = 1
    /\ LoadMore

(* The effect of the host page: on to the next page until the host is found. *)
LookUp ==
    /\ host.id \notin Loaded /\ ~ error
    /\ LoadMore

(* The interval.  Without data of its own the query forgets its error.       *)
FetchHost ==
    /\ ~ host.fetching
    /\ host' = [host EXCEPT !.fetching = TRUE,
                            !.error = IF host.last = host.id THEN @ ELSE "none"]
    /\ SameQuery /\ UNCHANGED <<page, search, detail>>

(* A host that the server does not have is not asked for again, any other    *)
(* failure is retried twice, here in the same step.                          *)
ReceiveHost ==
    /\ host.fetching
    /\ host' \in {[host EXCEPT !.fetching = FALSE, !.error = "failed"],
                  IF host.id \in alive
                  THEN [host EXCEPT !.fetching = FALSE, !.error = "none", !.last = host.id]
                  ELSE [host EXCEPT !.fetching = FALSE, !.error = "not found"]}
    /\ SameQuery /\ UNCHANGED <<page, search, detail>>

(* Back or forward to the page of another host.  Its query starts over, or   *)
(* it is the one the data are of and is as it was left, or fetched again.    *)
VisitHost(h) ==
    /\ h # host.id
    /\ host' \in {[host EXCEPT !.id = h, !.error = "none", !.fetching = TRUE]}
               \cup (IF h = host.last
                     THEN [id : {h}, last : {h}, error : {"none", "not found", "failed"},
                           fetching : BOOLEAN]
                     ELSE {})
    /\ SameQuery /\ UNCHANGED <<page, search, detail>>

HostPage ==
    /\ page = "host"
    /\ \/ (Refetch \/ LookUp) /\ UNCHANGED <<page, ui>>
       \/ FetchHost \/ ReceiveHost
       \/ \E h \in Hosts : VisitHost(h)
-----------------------------------------------------------------------------
AlertsPage ==
    /\ page = "alerts"
    /\ \/ (Refetch \/ LoadMore \/ InvalidateFeed) /\ UNCHANGED <<page, ui>>
       \/ Click \/ Shortcut
       \/ FetchDetail \/ ReceiveEvent

Server ==
    /\ \E k \in Keys : Arrive(k) \/ Evict(k)
    /\ UNCHANGED <<page, ui>>

Answered == Answer /\ UNCHANGED <<page, ui>>

Next ==
    \/ AlertsPage \/ TimelinePage \/ DevicesPage \/ RiskPage \/ CompliancePage \/ HostPage
    \/ Server \/ Answered

(* A request ends (client.ts has no timeout, the browser's network has); an  *)
(* effect runs after the render of what it depends on, long before the next  *)
(* interval, so that being due again and again it does run.                  *)
Fairness ==
    /\ WF_vars(Answered)
    /\ SF_vars(page = "host" /\ LookUp /\ UNCHANGED <<page, ui>>)
    /\ WF_vars(page \in AlertPages /\ detail = "none" /\ FetchDetail)
    /\ WF_vars(page \in AlertPages /\ ReceiveEvent)
    /\ WF_vars(page = "host" /\ FetchHost)
    /\ WF_vars(page = "host" /\ ReceiveHost)

Spec == Init /\ [][Next]_vars /\ Fairness
-----------------------------------------------------------------------------
(* j selects the row below the selected one, k the row above: the page's     *)
(* order is the table's, "kept in sync manually" (alerts.tsx:290).           *)
JKFollowsScreen ==
    [][\A delta \in {1, -1} :
          search.alert \in Visible /\ search'.alert # search.alert /\ MoveCursor(delta)
          => \E i \in DOMAIN Screen :
                /\ Screen[i] = search.alert
                /\ i + delta \in DOMAIN Screen /\ Screen[i + delta] = search'.alert]_vars

SaysNone ==
    CASE page = "alerts"  -> QueueView \in {"no match", "no alerts"}
      [] page = "devices" -> DevicesView = "no devices"
      [] page = "host"    -> FALSE
      [] OTHER            -> TableView = "none" /\ SaysEnd

(* That there is nothing to show, or nothing to match, is only said when     *)
(* nothing that was there when the list was read, and still is, would be     *)
(* shown; below a table of the timeline, the risk or the compliance it is    *)
(* said together with "end of results" (QueueTable.tsx:145, devices.tsx:103).*)
EmptyIsHonest == SaysNone => \A k \in start \cap alive : ~ Passes(k)

(* The host page does not look for its policy status for ever, whatever the  *)
(* server answers and however the fleet changes ($hostId.tsx:33).            *)
HostLookupEnds == []<>(page = "host" => PolicyStatus # "looking")

(* The page of the one host that was visited does not go on showing a host   *)
(* that the server has no more (useFleetHost.ts:7).                          *)
EvictedIsSaid ==
    \A h \in Hosts :
        <>[](host.id = h /\ host.last \in {0, h} /\ h \notin alive) => <>[](HostView # "host")

(* A link to an alert opens it, or says why not, even when the event is      *)
(* outside the loaded pages (EventDetails.tsx:23).                           *)
AlertLinkOpens ==
    <>[][search' = search]_vars => []<>(PanelView # "loading")
=============================================================================
