# Verification of lodeline-manager

TLA+ models of lodeline-manager (a Go server and a React console for triaging
the alerts of a lodeline fleet), TLC configurations that check them on small
instances, and TLAPS proofs that hold for every value of the constants.

Source paths below are relative to `src/`. `PROJECT.json` maps every definition
of the models to the lines it stands for.

## 1. The system

```
browser console (web/src)            lodeline-manager (Go)                     outside
  alert queue  -- polls --------->  fleet handlers -> retry -> read cache -> HTTP client -> lodeline-server
  slide-over   -- reads, writes ->  triage handlers ------------> triage store -> SQLite
  login        ----------------->  password / OIDC login, sessions, rate limit -> identity provider
```

| component | state it keeps | operations | how it interacts |
|---|---|---|---|
| read cache, `internal/fleet/cache.go` | items map, eviction list, refreshing set, singleflight group, all shared by goroutines | `getCached` for seven endpoints, background refresh, `store` | called by every fleet handler; calls the HTTP client |
| retry, `internal/fleet/retry.go` | none; a loop per request | `Do`, `isRetryable`, `backoffFor` | wraps the cached reads; the cache uses its error classes |
| HTTP client, `internal/fleet/http.go` | none | a GET per endpoint, status codes to errors | calls lodeline-server under a 5 s timeout |
| triage store, `internal/triage` | tables `triage`, `triage_notes`, `triage_log` in SQLite; one pooled connection | `Upsert`, `AppendNote`, `GetByEventKey`, `ListNotes`, `ListLog`, `ListByStatus` | called by the triage handlers and by the join of the event handlers |
| triage handlers, `internal/api/v1/triage.go` | none | upsert, note, detail | one goroutine per request, cancelled with its client |
| fleet handlers, `internal/api/v1/fleet.go` | none | eight reads, the triage join, the error mapping | cache, retry, store |
| rate limiter, `internal/api/v1/ratelimit.go` | a fixed window per client address | `allow` | in front of the login routes |
| login and sessions, `internal/auth`, `internal/api/v1/auth.go`, `oidc.go`, `middleware.go` | OIDC attempts in memory; sessions only in the browser's cookie | begin, callback, login, logout, me | identity provider; every API route is guarded |
| process, `cmd/lodeline-manager/main.go` | listener, database handle | boot, signal, drain, close | orders the shutdown of all of the above |
| console, `web/src` | react-query cache, drafts, selection, URL filters | polling, paging, mutations, shortcuts | the HTTP API |
| configuration, mock fleet, routing, views | constants | pure functions, fixtures, rendering | |

### What is hard in it, and what makes each part correct

* **Read cache.** Readers and background refreshes interleave between the read
  lock, the refreshing set, singleflight and the write lock, and hold copies
  across waits of seconds. Correct means: one fetch and one refresh per key at a
  time, data never goes back in time in the cache or for a reader, what is served
  is inside its window, terminal errors reach everyone, the two structures behind
  the lock agree and stay bounded, nobody waits forever.
* **Triage store and handlers.** An upsert is several statements on a connection
  that all requests share; a detail is three transactions; clients go away,
  statements fail, the process dies. Correct means: upserts are atomic and lose no
  one's update, the log is the history of the row, an acknowledged write stays and
  is shown, a retry changes no field and logs nothing, the connection always comes back.
* **Triage panel.** Mutations and GETs overlap, are lost and overtake each other,
  while the user types, moves to another alert, or closes the panel. Correct means:
  a note reaches the alert it was written for, requests find the row they need, the
  panel catches up with what it was acknowledged, typing is left alone.
* **Queue, fleet tabs, host page.** Pages are refetched one after another from lists
  that change between the fetches, while filters, order, selection and shortcuts work on
  what is loaded. Correct means: "end of results" and "nothing here" are only said when
  they are true, the shortcuts follow the screen, nothing is looked for without end.
* **Console session.** Guards, polls, sign-in and logout overlap with each other, with
  other tabs and with failures. Correct means: the page asked for survives, nothing of
  an ended session stays cached behind the form, every path ends at a page or the form,
  a server that rejects the manager is reported as such.
* **Login.** Callbacks race on single-use attempts in a bounded table, from tabs that
  share one binding cookie, behind a limiter with fixed windows; a restart forgets all
  of it. Correct means: one session per attempt and in the right browser, a pending
  login is refused or ended only for cause, the limit holds over any window.

`PROJECT.json` lists every hazard at its line, with the properties that cover it,
or why none does.

## 2. Modules

| module | role |
|---|---|
| `FleetCache` | the read cache: one action per access to state that goroutines share |
| `MCFleetCache` | its TLC instance, with the symmetry of readers, refreshers and keys of the live tier |
| `FleetCacheProofs` | types, single fetch, single refresh, nobody stranded, stamps, no regress; the map, the eviction list, its bound and what is evicted |
| `FleetCacheReadProofs` | monotonic reads, windows, terminal errors |
| `TriageData` | rows, log entries, requests; what an upsert computes |
| `Triage` | the abstract API: every request takes effect at one instant or not at all |
| `TriageStore` | handlers, transactions, the one connection; implements `Triage` |
| `MCTriageStore` | its TLC instance, with the symmetry of clients |
| `TriageStoreProofs` | types, isolation, the connection, the log, the refinement of `Triage` |
| `TriageAnswerProofs` | what clients are told, lost updates, retries |
| `SlideOver` | the triage panel of the console over the promise of `Triage` |
| `MCSlideOver` | its TLC instance, with the symmetry of mutations and alerts |
| `SlideOverProofs` | types, notes, refusals, freshness, typing |
| `PagedFleet` | one paged, polled query over a list that changes |
| `FleetPages` | the seven views over it: queue, timeline, devices, risk, compliance, host, and the panel's query by id |
| `MCFleetPages` | its TLC instance: three keys of different severity |
| `PagedFleetProofs` | types, `FleetPages` implements `PagedFleet`, the end of a list, its emptiness, the order of the table, j and k, the end of loading |
| `ConsoleSession` | guards, form, logout, cache and the signs of the connection |
| `ConsoleSessionProofs` | types, the target, what is left behind, the banner, what is rendered |
| `Login` | OIDC attempts, binding cookies, callbacks, password login, sessions, the limiter |
| `MCLogin` | its TLC instance: two browsers behind one address |
| `LoginProofs` | types, one session per attempt, fairness and bound of the table, the limit |

Definitions named `...Always`, `...Late`, `...Unchecked` and the like, marked
*Variant*, are plausible mistakes: each property of a passing run is violated when
one of them takes the place of the definition beside it (`mutants` in
`PROJECT.json`). No specification uses them.

`SlideOver` takes its rows and what an upsert computes from `TriageData`, as `TriageStore`
does, and assumes of the server what `KeepsPromise` shows of it. `FleetPages` extends
`PagedFleet`: a page is a state of the query with a view on top, and
`PagesImplementFeed` proves that the views do nothing else to it.

### 2.1 FleetCache

State: `items` and `order` are the map and the list under `mu`; `refreshing` is the
`sync.Map`; `sf` the singleflight group; `now` the clock. A process is a goroutine: a
*reader* is a connection that sends one request after another, a *refresher* one of
the goroutines a stale hit spawns. `pc`, `key`, `clock`, `seen`, `leader`, `started`
and `got` are its locals.

| action | code in `cache.go` |
|---|---|
| `Begin` | a wrapper (260-312) calls `getCached`, which reads the clock (175) before the lock |
| `HitFresh`, `HitStale`, `MustFetch` | the copy under the read lock and the branch on its age (179-225) |
| `SpawnRefresh`, `SkipRefresh`, `CleanUp` | `refreshing.LoadOrStore`, the goroutine, its deferred `Delete` (200-207) |
| `Lead`, `Follow`, `Finish` | `singleflight.Group.Do` (external): run the function, or wait for it; the result goes to all |
| `UpstreamServes`, `UpstreamFails` | `fetch` (167): data of this instant, a retryable or a terminal error |
| `Store` | `store` (236-258): stamp, move to the back, evict from the front |
| `Tick` | time; bounded, for a call in flight, by the HTTP client's timeout |

Abstractions. A cached value is the instant whose fleet it describes, so that
"newer" can be said of it. The two error classes are those of `isRetryable`. A
handler's retry of a failed read is another request for the same key.
`context.WithoutCancel` makes the caller's cancellation invisible to a fetch, and a
reader whose client is gone computes an answer nobody reads, so cancellation is left
out. `Healthz` is not cached. A panic in a fetch is left out.

`Refreshers` stands for goroutines created at will. The pool must be as large as
`Keys` so that a spawn never finds it empty; each configuration has at least as many.
`RefresherAlwaysFree` proves that no more are ever needed.

`Tick` assumes that what follows an upstream answer in the process (decode, lock,
store, wake) takes no time the windows would notice: the code compares seconds with
microseconds. It is what `StampedNearData` and `ServedWithinWindow` rest on.

### 2.2 TriageData, Triage, TriageStore

`row`, `log`, `notes` are the committed tables by event; `conn` is who holds the
connection (`SetMaxOpenConns(1)`); `tx` what a transaction has written and not
committed; `pc`, `req`, `existing`, `view`, `status` a handler's locals; `reply` and
`shown` what its client was told.

| action | code |
|---|---|
| `Arrive` | the handler decodes a request (`triage.go` 70-137) |
| `RefuseUpsert` | validation (`repo.go` 77-82), and the missing snapshot inside the transaction (98-100) |
| `Begin`, `Read`, `Write`, `AppendLog`, `Commit` | the statements of `Upsert` (84-160) |
| `CheckRow`, `InsertNote`, `NotFound` | `AppendNote` (253-270), `ErrNotFound` |
| `GetRow`, `ListNotes`, `ListLog` | the three reads of `handleTriageGet` (132-153) |
| `Respond`, `Fail` | the answer, or `mapTriageErr` |
| `Disconnect` | the client goes away: `database/sql` rolls its transaction back, or the answer is lost |
| `Crash` | the process dies and opens the database again |

Abstractions. An event is its key `(host_id, event_id)`. Actors, bodies and timestamps
are left out. A row therefore stands for its status, assignee and evidence: `updated_at`
is set by every update, also by one that changes nothing else (`repo.go:131`), so that a
row that is unchanged here is not unchanged in the table. The log is in order of id,
which is the order of `at` as long as the wall clock is not set back (a hazard, see
`PROJECT.json`). A malformed upsert is one with status `"invalid"`; a malformed note or
detail request never reaches the store. The row checks that `ListNotes` and `ListLog`
repeat see what `GetByEventKey` saw, since no code deletes a row; they are one step with
the query. A statement that fails has had no effect, and a `COMMIT` that fails has
rolled back: that is SQLite's promise, taken as given. So is durability of what was
committed.

`Triage` states the promise without connection or transactions: a client's call is
performed at one instant between its submission and its answer; one that was answered
with an error was not performed; a lost one may or may not have been. `KeepsPromise`
is the refinement: `done` is "the handler has reached its answer", and the instant is
the commit of an upsert, the insert of a note, the last read of a detail.

### 2.3 SlideOver

State: `row`, `notes`, `ver` are the server's (`ver` counts the writes to an event);
`shown`, `focus`, `assigneeDraft`, `noteDraft` the mounted panel; `detail` and `fetch` the
query `['triage', host, event]` and its GET in flight; `call` the mutations, `upsert` and
`append` the two mutation observers; `owed` is history: the last write acknowledged while
its loaded alert was on screen.

| action | code |
|---|---|
| `Open`, `Switch`, `Close` | mount, another alert in the same component, unmount (`SlideOver.tsx` 45-100) |
| `Focus`, `TypeAssignee`, `TypeNote` | the two fields (250-309) |
| `SetStatus`, `Assign` | the status buttons and keys, the assignee form (117-136) |
| `SubmitNote`, `SubmitFirstNote` | `onSubmitNote` with and without a detail (138-167) |
| `Perform`, `ServeDetail`, `ForeignUpsert` | the API at its one instant; other users (external) |
| `ReceiveDetail`, `ReceiveDetailError` | `useTriageDetailOrNull`, with the assignee effect (102-108) |
| `ReceiveUpsert`, `ReceiveNote`, `ReceiveError` | the hooks' `onSuccess` with its invalidations, then the panel's own |

Abstractions. The react-query rules the code relies on are modelled where it relies on
them: `mutate` moves its observer to the latest mutation and a callback given to `mutate`
runs only for that one while mounted; an invalidation cancels a GET when there is data and
joins it when there is none; a query off screen waits for its next mount. A draft is there
or not (the assignee's is a member of `Assignees`), a note is named after the alert its
author had on screen. The retries of a GET are one fetch. `owed` counts only writes
acknowledged while the panel had data: without data the invalidation joins the GET in
flight, which may have been answered before the write (see section 4).

### 2.4 PagedFleet, FleetPages

`alive` and `newest` are lodeline-server's list; `pages`, `error`, `fetch` the infinite
query; `start` is history, what the server had when the first page was read. `page` is the
route mounted, `search` its URL, `detail` the query by id, `host` the host page's query.

| action | code |
|---|---|
| `Refetch`, `LoadMore`, `InvalidateFeed`, `Reset`, `Return` | the interval and Refresh, the button, a triage write, other parameters (`usePagedFleet.ts`, `useTriage.ts` 37-42) |
| `ReceiveWalkPage`, `ReceiveMorePage`, `ReceiveFailure` | a page of a refetch, one more page, an error |
| `Arrive`, `Evict` | the list changes (external) |
| `OnSelect`, `OnSortChange`, `ToggleStatus`, `FilterAlerts`, `ResetFilters` | clicks on the queue (`alerts.tsx`, `QueueTable.tsx`, `FilterRow.tsx`) |
| `MoveCursor`, `PressEnter`, `PressEscape`, `PressGA`, `PressI` | the shortcuts (`alerts.tsx` 131-276, `useShortcuts.ts`) |
| `FetchDetail`, `ReceiveEvent` | `EventDetails.tsx` 32-38 |
| `TimelinePage`, `DevicesPage`, `RiskPage`, `CompliancePage` | the tabs, with their filters |
| `LookUp`, `FetchHost`, `ReceiveHost`, `VisitHost` | the effect and the query of `hosts/$hostId.tsx` |

`QueueView`, `PanelView`, `TableView`, `DevicesView`, `HostView`, `PolicyStatus` are what
the components render in each state, by their own order of tests. `Screen` is the table's
sort, `VisibleRows` the page's second copy of it, translated separately; each is the list
whose row `i` has `i - 1` rows ahead of it by that copy's ranks (`InOrder`).

Abstractions. A key is a position in the server's order and stands for its row; the keys
are those the server's own filters let through, and `Match` says which a search text
matches. A page is read and received in one step, with as many rows as the server likes
and possibly with a cursor of the walk again. One page is mounted, and its list is the
only query. A change of filters meets an empty cache or the data the same filters had. The
cache of the query by id is not kept from one selection to another. The retries of
the host query are one step. A host that is in the fleet is taken to report a policy. The
browser's tab is visible. Left out: the pause of polling under the mouse, the cheat sheet,
the flash of fresh rows, the host page's own list of events.

### 2.5 ConsoleSession

`session` is the cookie tabs share, numbered so that "of an earlier session" can be said;
`accepted` whether lodeline-server takes the manager's token; `screen`, `thrown`, `nav`
the router; `form`, `signin`, `logout` the form and the two mutations; `meta`, `health`
the cache. `asked` and `away` are history: the page the user wants, and that the user has
stopped asking (it lets liveness speak of what happens when nothing more is asked).

| action | code |
|---|---|
| `Load`, `Follow`, `Travel` | a load, a link of the bar, back and forward (`main.tsx`, `TopNav.tsx`) |
| `ReceiveMe` with `AuthedGuard`, `LoginGuard`, `IndexGuard` | the three `beforeLoad` on the answer of `me()` |
| `SubmitSignIn`, `ReceiveSignIn`, `SubmitLogout`, `ReceiveLogout` | the two mutations |
| `FetchMeta`, `PollHealth` | the queries of the layout and the settings |
| `SessionEnds`, `SignInElsewhere`, `TokenChanges` | other tabs, expiry, lodeline-server (external) |

`Pill`, `Banner`, `Liveness`, `ReadAPI`, `Metadata` are the rules by which the bar, the
banner and the settings judge an answer. Abstractions: a question and its answer are one
step; one sign-in at a time; a superseded guard clears the cache at once if it does; ages
of data (30 s for the pill, 5 min before metadata are refetched at a mount) and the texts
of errors are left out. What an upstream 401 becomes on its way through
`internal/api/v1/fleet.go` is taken over as its code, `upstream_unauthorized`.

### 2.6 Login

`attempts` is the table of `oidc.go`, `hits` the limiter, `call` the callbacks the server
is at work on, `cookie` and `session` what each browser holds, `redirects` the answers of
`start` on their way. `begun`, `issued` and `passed` are history; `passed` holds the times
at which an address's requests were let through. A fixed window lets a client spend two
windows' requests around one reset, so that `LimitHolds` is what the code can promise: less
than twice `MaxHits` in any stretch as long as a window.

| action | code |
|---|---|
| `Begin`, `Refuse`, `ReceiveRedirect` | `OIDC.Begin` and `handleOIDCStart` |
| `Callback`, `Complete`, `Grant`, `Deny`, `ReceiveAnswer` | `handleOIDCCallback`: the cookie, `consume` under the lock, the provider, `SignUntil`, the answer |
| `Disconnect` | the browser goes away: a call is cancelled or its answer lost (external) |
| `PasswordLogin`, `Logout` | `auth.go` |
| `Tick`, `Restart` | time, and a process that starts with nothing |

Each of `Begin`, `Refuse`, `Callback` and `PasswordLogin` passes the limiter first
(`Allow`), as the routes of `server.go` do. Abstractions: state, nonce, verifier and binding
of an attempt are random and named after the attempt, so that none is guessed; a callback
carries the state of one attempt, in whichever browser; the provider's exchange and all
checks on its token are one decision; rejected requests change nothing and are left out,
with the exemption of loopback; the limiter's purge forgets windows that count as none
anyway; the binding cookie outlives no attempt it could serve, so its age is left out; the
expiry of a session is not cut to whole seconds.

## 3. Runs

| run | instance | question |
|---|---|---|
| `cache_one_key` | 1 key, 2 readers, 2 refreshers, TTL 1, MaxStale 2, timeout 1, time to 4 | the safety of readers and refreshes racing on one key |
| `cache_keys` | 3 keys (1 slow), 1 reader, 3 refreshers, 2 entries, time to 2 | eviction and its order while fetches for several keys overlap |
| `cache_live` | 1 key, 2 readers, 1 refresher, time to 2 | everybody is answered, every refresh ends |
| `cache_degrade` | as above, time to 3 | violation: see finding 1 |
| `triage_store` | 2 clients, 1 event, 2 statuses, log to 2, notes to 1 | history, answers, refinement |
| `triage_fields` | 2 clients, 1 event, 2 statuses, 1 assignee, 2 snapshots, log to 2, no notes | every combination of an upsert's optional fields |
| `triage_live` | 2 clients, 1 event, log and notes to 1 | every request ends |
| `slideover` | 2 mutations, 2 alerts, 2 statuses, 1 assignee, 1 foreign write, 2 openings | the panel's safety |
| `slideover_note` | as above, 1 alert | violation: see finding 2 |
| `fleet_pages` | 3 keys, pages of at most 1, 2 hosts, 1 status chip, 1 search text | every view of a changing paged list, with liveness |
| `console_session` | 2 pages, 1 fault, 2 sessions | guards, form, logout, cache, signs, with liveness |
| `login` | 2 browsers behind 1 address, 2 attempts in a table of 1, 2 callbacks at once, limit 2 in 2 ticks, attempts and sessions for 2 ticks, time to 3 | single use, the table, the limiter |

Bounds, and why they are enough:

* Cache: `MaxTime` is the last tick. With TTL 1 and MaxStale 2 an entry is fresh, stale and
  expired within three ticks, and the fourth leaves room for a refresh of an expired
  entry that itself ages. Two readers suffice for a leader and a follower, with a refresh
  as a third party; two refreshers for a second refresh of a key, were there one. Three
  keys overflow a cache of two, with one of them of the slow tier.
* Triage: `MaxLog` and `MaxNotes` stop requests from *arriving* for an event that has as
  many entries; those in flight still finish, so that both sides of the bound are visited.
  An opening and a transition are enough to break a chain. `TriageFields` has no notes
  because its properties do not read them. Events share nothing but the connection, which
  two clients contend for on one event already.
* Panel: a first note takes both mutations, with a foreign write between; two alerts and
  two openings are a switch under way, or a closing and an opening. A mutation that is over
  does not come back, so that two bound the writes too; a third and a third opening are
  covered by the proofs, which hold for any number.
* Pages: three keys with one row a page are a first page, one more and a gap in the middle;
  their severities, times and statuses (`MCFleetPages`) make every order differ from every
  other. Two hosts are a host's page and another's. `MaxPages` bounds a walk by the number
  of cursors there are; that
  `LoadMore` never meets it is proved (`LoadingAlwaysBounded`), as `getNextPageParam` stops
  first.
* Session: the first session may end and a second begin, here or in another tab, which is
  what "left behind" needs. A fault with a code of its own and no answer at all are two
  kinds of failure beside the three of a session.
* Login: a table of one is full with one attempt, and the second begins when the first has
  expired, was consumed or forgotten. Three ticks hold a window, its reset instant, and a
  window after it. Two calls are two callbacks with one state, or with two.
* Readers, refreshers, live keys, clients, mutations, alerts, browsers, attempts and calls
  are symmetric; the runs with liveness use no symmetry.

Fairness. `FleetCache`: weak fairness of each goroutine's own steps; goroutines are
scheduled, and an upstream call always returns because the HTTP client has a timeout.
Nothing makes a request arrive or time pass. `TriageStore`: strong fairness of each
request's steps, because a waiter for the connection is enabled only while it is free;
`database/sql` hands a returned connection to a waiting request and does not pass over
the same one forever. No fairness is given to failures, disconnections or crashes, and
none is needed: they only end requests. `FleetPages`: weak fairness of answers (the browser
ends every request) and of the queries the views mount; strong fairness of the host page's
effect, which runs at the render after its dependencies change, long before the next
interval, but which a poll may disable in between. `ConsoleSession`: weak fairness of the
answers of `me()` and of the logout, and of the metadata's interval where a mounted page has
one; the sign-in, the user and other tabs have none. `SlideOver` and `Login` state no
liveness: what their answers cannot promise (a lost write, a provider that does not answer)
is the user's to try again.

Deadlock is checked in every run but `slideover` and `slideover_note`: a new request can
always arrive, an interval run out, the process crash or restart. A panel that is closed,
with its openings and its mutations used up, really rests.

## 4. Findings

1. **A degraded answer can be older than the cache** (`cache_degrade`). A reader of an
   expired entry copies it, and leads or joins a fetch of its own. If another fetch fills
   the key in between and this one then fails transiently, the reader is given the
   expired copy (`cache.go:216`) although the cache holds a newer value, against "degrade
   to the last-known value" (`cache.go:209`).
2. **A note can reopen a resolved alert** (`slideover_note`). Without a loaded detail
   `onSubmitNote` first sends an upsert with status `open` (`SlideOver.tsx:144`). The detail
   is also missing while it loads, after it failed, and when another user has acted since it
   answered 404: the comment above it means "an un-actioned alert".
3. **Timeouts are not retried and do not degrade** (`retry.go:71`). `http.Client`'s timeout
   satisfies `errors.Is(err, context.DeadlineExceeded)`, so that `isRetryable` is false
   before it asks for `Timeout()`, against `retry.go:13` and `cache_test.go:504`. Read off
   the code and the standard library; the cache's model leaves the class of a failure open.
4. `cache.go:146` says that concurrent misses collapse into one upstream call. The miss is
   decided before singleflight is entered and not looked at again (`cache.go:225`): a second
   call is made when the first has just finished.
5. `MaxStale` is documented as a time *past* the TTL (`cache.go:18`) and compared with
   the whole age (`cache.go:196`).
6. `triage.go:16` and `types.go:75` call the status required on insert; the code opens
   such a row as `open` (`repo.go:102`).

Seen while modelling, with no run of their own (paths under `web/src` unless Go):

* The key `i` is meant to press the status button *Investigating*, and presses the first
  button with that text, which is the filter chip (`alerts.tsx:262`, `FilterRow.tsx:27`);
  `PressI` models what it does.
* An upsert that names an assignee and clears it keeps the assignee when it opens the row
  (`internal/triage/repo.go:104-112`) and clears it when the row is there (138): such a request
  is not idempotent. The console never sends one.
* Another login in the same browser replaces the binding, and the answer to *any* callback
  deletes it (`internal/api/v1/oidc.go:46`): when the older tab comes back first, the
  latest flow, which `docs/operations/oidc.md:69` says to retry, fails as well, and a new
  one must be started. `ReceiveAnswer` models it.
* The metadata are polled on the settings only (`settings.tsx:11`): elsewhere a rejected
  token shows after five minutes and a mount. `RejectedIsSaid` is stated for the settings.
* The banner and the pill test for `UnauthorizedError` only, so that an expired session is
  called a lost connection until the next navigation.
* Back to `/login` from history, and the redirect of `/`, do not clear the cache; the next
  sign-in of the same browser may see it. `NothingLeftBehind` is about forms that a guard or
  a logout led to.
* A write acknowledged while the detail had no data and its GET was in flight is not
  fetched again: the invalidation joins that GET. The timeline's query is not invalidated by
  triage writes.
* Drafts go along to another alert; Enter sends a note again while the first is in flight;
  its success clears what was typed since; an assignee changed by others while the field has
  the focus is not taken over when it loses it.
* A poll in flight when the mouse comes over the queue still reorders it; `hoverDepth`
  (`useAlerts.ts:43`) stays up when a hovered row goes away, and polling with it.
* A cursor whose host was evicted gives an empty last page: a list of hosts may say "end of
  results" too early, until the next poll. `EndIsComplete` is about events, whose cursors
  only ever age out at the end.
* `EventsTable`, `RiskTable` and `ComplianceTable` say that there is nothing whenever what is
  loaded is empty, also with more pages to come; only the pagination below is honest, which is
  how `EmptyIsHonest` reads it. `devices.tsx:101` does not look at a repeated cursor.
* The host page shows the host before for a moment (`keepPreviousData`).
* An unknown severity is `warn` for one part of the console and `info` for another
  (`api/fleet.ts:73`, `QueueRow.tsx:116`).

## 5. Proofs

Every theorem is proved for arbitrary sets of keys, readers, clients, events, pages,
browsers and calls, and for every value of the bounds, from the named assumption of each
module alone.

**Cache.** None of the properties is inductive. `FleetCacheProofs` proves `IInv`, the
type invariant with

* `Role`: where a reader or a refresher can be, and what it has when it is there;
* `SFInv`: the singleflight map names exactly the goroutines inside a call, and a
  follower's leader is inside one for the same key;
* `RefreshInv`: the refreshing set is exactly the keys of live refreshers;
* `TimeInv`: an entry is stamped after its data and at most one timeout later; a call
  that has its answer carries data no older than what the cache holds for its key. This
  follows because it is the only call for that key (`SFInv`) and asked after the entry
  was stored.

Single fetch, single refresh, stamps and no regress are then consequences; the same module
proves that the map and the list agree, that the list has no duplicates, is bounded, and is
in order of stamps, from what `MoveToBack`, `Append` and the cut from the front do to a list
without duplicates. The same facts say what a store may remove: the oldest entry, for a new
key, when the cache is full, and never the entry it makes (`AlwaysEvictsForRoom`). Two more
theorems are the safety under the liveness that TLC checks. `NoneEverStranded`: whoever waits
in singleflight waits for a goroutine that is at work on its key and does not itself wait, so
that there is no chain of waiters. `RefresherAlwaysFree`: live refreshers have different keys
and so a goroutine that spawns one always finds one free in a pool as large as `Keys`, by
counting; it is where the model's finite pool is shown to stand for `go`.

`FleetCacheReadProofs` adds `WindowInv` (how old a held copy is when its holder decides to
serve it or to wait) and `FloorInv`: whatever a reader was last given, holds a copy of, or is about to be given is no newer than anything that key's next answer
can carry, whether it comes from the cache, from a call in flight or from a later one. That
is monotonic reads, and it needs no help from eviction: an evicted key is fetched anew, from
a later instant.

**Triage.** `TriageStoreProofs` proves `IInv`: types, `Phase` (what kind of request is
where), `Standing` (a row that was found stays), and `Isolation`: whoever is inside a
transaction holds the connection, so nobody else commits and what the upsert has read is
still in the table when it commits. With it the log grows by chained entries
(`LogIsHistory`), and every step maps to a step of `Triage` or to a stutter
(`StoreKeepsPromise`): a commit performs the upsert on the row as it is then, a refusal
is one `Triage` allows in that state. `ConnectionAlwaysReturned` is the other side of
isolation: the connection is free or held by a request that is inside its transaction, never
by one that has ended, however it ended.

`TriageAnswerProofs` proves that tables only grow, and from that `AInv`: what an answer shows,
or one in the making, is in the tables. Acknowledged writes are shown, details are explained by
their logs, no update is lost. `UpsertMeetsItself` says that what an upsert has written is what
it asks for, but for the case noted in section 4; `RetriesAreHarmless` that an upsert whose
wishes are met changes no status, assignee or evidence and adds no log entry. Together they are
the retry of an upsert whose answer was lost, while no other client has written in between; the
retry still moves `updated_at`, which the models leave out.

**Panel.** `IInv` adds to the types `CallOK` (a mutation was made for the alert on screen,
finds the row it needs, and when done has written no more than the server has) and
`EventOK` (what is cached or on its way exists at the server; a GET that was answered is as
new as anything owed, because an acknowledgement restarts it; a settled cache likewise).
Rows are never deleted, so what was seen to exist still does when the request arrives:
that is `NeverEverRefused`.

**Pages.** `PagesImplementFeed` maps every step of `FleetPages` to one of `PagedFleet` or a
stutter, so that `FeedInv` carries over: the cursors of a walk over events descend until one
is repeated (`Chain`), and what a walk has not met of the list it started from is below its
last cursor (`Covers`), since events only leave at the old end. A walk that ended without a
repeated cursor has therefore met all of it (`EndAlwaysComplete`). `FirstInv` says that
an empty first page is that of a list that was empty, which is all a list of hosts can be
held to, and `PageInv` which kind of list a page shows (`EmptyAlwaysHonest`).

The table (`TableAlwaysInOrder`) rests on `Before` being a strict total order on the rows that
pass the filters: the number of rows ahead then gives each row a place of its own, every place
a row, and the `CHOOSE` in `InOrder` a value. The two copies of the order agree because their
ranks agree on every row, which is all `Before` looks at; `JKAlwaysFollowsScreen` follows.
Loading ends: `AskedOnce`, no cursor is in a walk twice, because `getNextPageParam` stops at a
repeated one; there are no more cursors than keys, so that by counting a list never has more
than `MaxPages` pages and one that has them all has nothing more to load
(`LoadingAlwaysBounded`). With `IsPending => IsFetching` it gives what the liveness of the host
page and of the panel stand on: a page that says it is looking, or loading, has a request in
flight or one due (`HostLookupAlwaysGoesOn`, `PanelAlwaysGoesOn`).

**Session.** `NavFresh`: a navigation to the form carries the number of sessions that had
been issued when the cache was cleared, and neither the current session nor cached data is
older. With it the two invariants are inductive. `ScreenAlwaysAnswer`: a blank screen has a
guard waiting for its answer, and an error on screen is never that of a missing session.
`BannerAlwaysBacked` compares three rules over one answer, case by case.

**Login.** `Bound` says whose a binding is in each place it is kept (cookie, call,
session); `Spent` that an attempt is in the table, or with exactly one call at the provider,
or done for good. One session per attempt in the browser that began it follows;
`PendingAlwaysFair` is proved step by step from `Bound`.

`LimitHolds` counts requests over any stretch of time, while the limiter remembers one window.
`Paced` is the bridge, for one address: the last `count` requests are those of the window; the
first of them opened it; whatever is `MaxHits` or more before them came more than a window's
length before it opened; and of any `2 * MaxHits` in a row the last came more than a window's
length after the first. The third part is what a new window needs of the one before it, and it
is kept because a window opens only when the one before is over. A stretch with `2 * MaxHits`
requests would hold the first and last of such a row (`PacedWithin`, from the least index in
it). TLC reaches `2 * MaxHits - 1`, so the limit is not too low by one.

Every invariant and action property the passing runs check is a theorem. Only model-checked
are the nine liveness properties, since fairness and `ENABLED` are out of the provers' reach.
The part of them that is about single states is proved where there is one, so that what is left
to fairness is that a step which is due is taken:

| liveness, by TLC | its safety, by TLAPS |
|---|---|
| `EveryRequestAnswered`, `EveryRefreshEnds` | `NoneEverStranded`, `FetchesAreSingle`, `RefreshesAreSingle` |
| `EveryRequestEnds` | `ConnectionAlwaysReturned` |
| `HostLookupEnds` | `HostLookupAlwaysGoesOn`, `LoadingAlwaysBounded` |
| `EvictedIsSaid`, `AlertLinkOpens` | `PanelAlwaysGoesOn` |
| `EndsAtForm`, `LogoutLeaves` | `ScreenAlwaysAnswer` |
| `RejectedIsSaid` | |

The violated properties of the two finding runs are refuted by TLC.

## 6. Not modelled

* `ListByStatus` of the store has no caller outside the tests. Timestamps are left out with
  it: elsewhere they are stored, returned, and used for an order that the models take from ids.
  With them goes what an update does to `updated_at`: it is set, written and returned as now on
  every one (`repo.go:131`, `145-148`), a repeated one included. What is said here of a row is
  said of its status, assignee and evidence, and it does not follow that `updated_at` stays.
* The delays of the retry loop, and its `Retry-After`: one goroutine, no shared state. What
  it changes for the cache, more requests for a key, is in the model.
* The fleet handlers and the HTTP client: a table of errors to answers, a join that reads,
  decoding. They keep no state.
* The mock fleet, configuration, routing, headers, static files, boot and shutdown: fixtures,
  pure functions and sequences around `net/http`. A shutdown is, to a request, a failure or a
  lost answer, which the models have at every step.
* Cryptography of tokens and passwords, the provider's protocol, the whole-second truncation
  of a session's expiry.
* Rendering and wording, except where a property is about what is said.
* SQLite, `database/sql`, singleflight, react-query and the router themselves: they are
  modelled as the code uses them, and marked external in `PROJECT.json`.
