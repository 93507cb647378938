--------------------------- MODULE ConsoleSession ---------------------------
(***************************************************************************)
(* The console and its session: the guards of the routes, the sign-in      *)
(* form, the logout button, the cache of the queries, and what the         *)
(* navigation bar and the settings say of the connection.                  *)
(*                                                                         *)
(* The session is a cookie that the tabs of the browser share; sessions    *)
(* are numbered.  A question to the server and its answer are one step: a  *)
(* navigation that is superseded drops the answer, and so does a query     *)
(* that is cleared.  The metadata stand for everything in the cache.       *)
(***************************************************************************)
EXTENDS Integers

CONSTANTS
    Pages,           (* the routes under _authed                             *)
    Faults,          (* the answers lodeline-server's faults lead to         *)
    MaxSessions      (* bound: sessions                                      *)

ASSUME ConsoleAssumption ==
    /\ {"alerts", "settings"} \subseteq Pages
    /\ {"none", "login", "index", "blank", "error"} \cap Pages = {}
    /\ Faults \subseteq {"service_unavailable", "no answer"}
    /\ MaxSessions \in Nat

VARIABLES
    session,         (* the session the cookie is good for, or 0             *)
    issued,          (* the sessions there have been                         *)
    accepted,        (* lodeline-server accepts the manager's token          *)
    screen,          (* the route that is rendered                           *)
    thrown,          (* the error its boundary shows                         *)
    nav,             (* the navigation whose guard waits for me()            *)
    form,            (* the sign-in form, while it is rendered or awaited    *)
    signin,          (* its mutation                                         *)
    logout,          (* the mutation of the logout button                    *)
    meta,            (* the query of the metadata: the session its data were
                        read in, 0 if there are none, and its error          *)
    health,          (* the query of the liveness, by its last answer        *)
    asked,           (* history: the page the user wants                     *)
    away             (* history: the user asks for nothing any more          *)

cookie  == <<session, issued>>
routing == <<screen, thrown, nav, form, asked>>
cache   == <<meta, health>>
vars    == <<cookie, accepted, routing, signin, logout, cache, away>>

Sessions == 0..MaxSessions

(* What may come back: a code of the server's, or no answer it gave.         *)
Codes == {"ok", "unauthorized", "session_expired",
          "upstream_unauthorized", "service_unavailable", "no answer"}

(* The class of the error that api() throws.                                 *)
ErrorClass(code) ==
    CASE code = "unauthorized"        -> "UnauthorizedError"
      [] code = "session_expired"     -> "SessionExpiredError"
      [] code = "service_unavailable" -> "ServiceUnavailableError"
      [] OTHER                        -> "UnknownApiError"

(* login's validateSearch keeps a path of this site, or nothing.             *)
Redirects == Pages \cup {"none"}

(* Variant: nowhere to go without a redirect.                                *)
TargetAsGiven(redirect) == redirect

Target(redirect) == IF redirect = "none" THEN "alerts" ELSE redirect

NoForm == [redirect |-> "none", ended |-> 0]
NoNav  == [to |-> "none", redirect |-> "none", ended |-> 0]
NoMeta == [data |-> 0, error |-> "none"]

TypeOK ==
    /\ session \in Sessions /\ issued \in Sessions
    /\ accepted \in BOOLEAN
    /\ screen \in Pages \cup {"blank", "login", "error"}
    /\ thrown \in Codes \cup {"none"}
    /\ nav \in [to : Pages \cup {"none", "login", "index"}, redirect : Redirects, ended : Sessions]
    /\ form \in [redirect : Redirects, ended : Sessions]
    /\ signin \in {"idle", "sent"}
    /\ logout \in {"idle", "sent"}
    /\ meta \in [data : Sessions, error : Codes \cup {"none"}]
    /\ health \in Codes \cup {"pending"}
    /\ asked \in Pages
    /\ away \in BOOLEAN

-----------------------------------------------------------------------------
(* The server. *)

(* RequireAuth; the browser may have dropped an expired cookie already.      *)
NoSession == {"unauthorized", "session_expired"}

Me == {"no answer"} \cup (IF session # 0 THEN {"ok"} ELSE NoSession)

FleetHealthz == IF session # 0 THEN {"ok"} \cup Faults ELSE NoSession

(* A 401 of the upstream's arrives as a 502.                                 *)
FleetMeta ==
    IF session = 0 THEN NoSession
    ELSE {IF accepted THEN "ok" ELSE "upstream_unauthorized"} \cup Faults

NewSession ==
    /\ issued < MaxSessions
    /\ issued' = issued + 1
    /\ session' = issued + 1

(* It expires, or is logged out of in another tab.                           *)
SessionEnds ==
    /\ session # 0
    /\ session' = 0
    /\ UNCHANGED <<issued, accepted, routing, signin, logout, cache>>

(* Another tab, or the organization's sign-in, which comes back by a load.   *)
SignInElsewhere ==
    /\ NewSession
    /\ UNCHANGED <<accepted, routing, signin, logout, cache>>

TokenChanges ==
    /\ accepted' = ~ accepted
    /\ UNCHANGED <<cookie, routing, signin, logout, cache>>
-----------------------------------------------------------------------------
(* Navigation. *)

To(page) == [NoNav EXCEPT !.to = page]
ToLogin(redirect, ended) == [to |-> "login", redirect |-> redirect, ended |-> ended]

(* The page a navigation is on its way to, if the session is good.           *)
Goal(n) ==
    IF n.to \in Pages THEN n.to ELSE IF n.to = "index" THEN "alerts" ELSE Target(n.redirect)

(* queryClient.clear(): what is in flight is cancelled.                      *)
Clear == meta' = NoMeta /\ health' = "pending"

(* The latest navigation counts; a guard it supersedes may clear the cache   *)
(* all the same, here at once.                                               *)
Supersede ==
    \/ nav.to \in Pages /\ session = 0 /\ Clear
    \/ UNCHANGED cache

Navigate(n) ==
    /\ nav' = n
    /\ asked' = Goal(n)
    /\ UNCHANGED <<screen, thrown>>

Inputs ==
    {To(page) : page \in Pages} \cup {To("index")}
    \cup {ToLogin(redirect, 0) : redirect \in Redirects}

Init ==
    /\ session \in Sessions /\ issued = session
    /\ accepted \in BOOLEAN
    /\ screen = "blank" /\ thrown = "none"
    /\ nav \in Inputs
    /\ form = NoForm
    /\ signin = "idle" /\ logout = "idle"
    /\ meta = NoMeta /\ health = "pending"
    /\ asked = Goal(nav)
    /\ away = FALSE

(* A load of the page: nothing of the client is left.                        *)
Load ==
    \E n \in Inputs :
        /\ screen' = "blank" /\ thrown' = "none"
        /\ nav' = n /\ asked' = Goal(n)
        /\ form' = NoForm
        /\ signin' = "idle" /\ logout' = "idle"
        /\ Clear
        /\ UNCHANGED <<cookie, accepted>>

(* A link of the bar, or another search of the same page.                    *)
Follow ==
    \E page \in Pages :
        /\ screen \in Pages
        /\ Navigate(To(page)) /\ Supersede
        /\ UNCHANGED <<cookie, accepted, form, signin, logout>>

(* Back and forward, also to a form that was left.                           *)
Travel ==
    \E n \in Inputs \ {To("index")} :
        /\ screen # "blank"
        /\ Navigate(n) /\ Supersede
        /\ UNCHANGED <<cookie, accepted, form, signin, logout>>

Render(route, error) ==
    /\ screen' = route /\ thrown' = error
    /\ nav' = NoNav
    /\ form' = IF route = "login" THEN [redirect |-> nav.redirect, ended |-> nav.ended]
               ELSE IF signin = "sent" THEN form ELSE NoForm
    /\ UNCHANGED asked

Redirect(n) ==
    /\ nav' = n
    /\ UNCHANGED <<screen, thrown, form, asked>>

(* Variant: the cache is kept.                                               *)
BounceKeeping == Redirect(ToLogin(nav.to, issued)) /\ UNCHANGED cache

(* Variant: the address is not carried along.                                *)
BounceBare == Redirect(ToLogin("none", issued)) /\ Clear

(* The guard of _authed finds no session.                                    *)
Bounce == Redirect(ToLogin(nav.to, issued)) /\ Clear

IsNoSession(code) == ErrorClass(code) \in {"UnauthorizedError", "SessionExpiredError"}

AuthedGuard(code) ==
    /\ nav.to \in Pages
    /\ \/ code = "ok" /\ Render(nav.to, "none") /\ UNCHANGED cache
       \/ IsNoSession(code) /\ Bounce
       \/ code # "ok" /\ ~ IsNoSession(code) /\ Render("error", code) /\ UNCHANGED cache

(* Variant: an expired session is an error.                                  *)
LoginGuardUnauthorizedOnly(code) ==
    /\ nav.to = "login"
    /\ UNCHANGED cache
    /\ \/ code = "ok" /\ Redirect(To(Target(nav.redirect)))
       \/ ErrorClass(code) = "UnauthorizedError" /\ Render("login", "none")
       \/ code # "ok" /\ ErrorClass(code) # "UnauthorizedError" /\ Render("error", code)

LoginGuard(code) ==
    /\ nav.to = "login"
    /\ UNCHANGED cache
    /\ \/ code = "ok" /\ Redirect(To(Target(nav.redirect)))
       \/ IsNoSession(code) /\ Render("login", "none")
       \/ code # "ok" /\ ~ IsNoSession(code) /\ Render("error", code)

IndexGuard(code) ==
    /\ nav.to = "index"
    /\ UNCHANGED cache
    /\ \/ code = "ok" /\ Redirect(To("alerts"))
       \/ IsNoSession(code) /\ Redirect(ToLogin("none", 0))
       \/ code # "ok" /\ ~ IsNoSession(code) /\ Render("error", code)

ReceiveMe ==
    /\ nav # NoNav
    /\ \E code \in Me : AuthedGuard(code) \/ LoginGuard(code) \/ IndexGuard(code)
    /\ UNCHANGED <<cookie, accepted, signin, logout>>
-----------------------------------------------------------------------------
(* Signing in and out. *)

(* The button is disabled while the mutation is pending; one at a time.      *)
SubmitSignIn ==
    /\ screen = "login"
    /\ signin # "sent"
    /\ signin' = "sent"
    /\ UNCHANGED <<cookie, accepted, routing, logout, cache>>

(* onSuccess goes where the form was last told to, mounted or not.  The      *)
(* cookie may be set by an answer whose body is lost.                        *)
ReceiveSignIn ==
    /\ signin = "sent"
    /\ signin' = "idle"
    /\ \/ /\ NewSession
          /\ Navigate(To(Target(form.redirect))) /\ Supersede
       \/ /\ NewSession \/ UNCHANGED cookie
          /\ UNCHANGED <<screen, thrown, nav, asked, cache>>
    /\ form' = IF screen = "login" THEN form ELSE NoForm
    /\ UNCHANGED <<accepted, logout>>

SubmitLogout ==
    /\ screen \in Pages
    /\ logout = "idle"
    /\ logout' = "sent"
    /\ UNCHANGED <<cookie, accepted, routing, signin, cache>>

(* Variant: only a success counts.                                           *)
SettledIfOk(code) ==
    IF code = "ok" THEN Clear /\ Navigate(ToLogin("none", issued))
    ELSE UNCHANGED <<screen, thrown, nav, asked, cache>>

(* onSettled, whatever came back: the cache is cleared, then the form asked  *)
(* for.                                                                      *)
Settled(code) ==
    /\ Clear
    /\ Navigate(ToLogin("none", IF session' = 0 THEN issued ELSE 0))

(* The server wants a session to end it; a lost answer may have ended it.    *)
ReceiveLogout ==
    /\ logout = "sent"
    /\ logout' = "idle"
    /\ \E code \in Me :
          /\ session' \in (IF code = "ok" THEN {0} ELSE {0, session})
          /\ Settled(code)
    /\ UNCHANGED <<issued, accepted, form, signin>>
-----------------------------------------------------------------------------
(* The queries of the layout and of the settings. *)

Mounted == screen \in Pages

(* The data there were outlive an error.                                     *)
FetchMeta ==
    /\ Mounted
    /\ \E code \in FleetMeta :
          meta' = IF code = "ok" THEN [data |-> session, error |-> "none"]
                  ELSE [meta EXCEPT !.error = code]
    /\ UNCHANGED <<cookie, accepted, routing, signin, logout, health>>

(* Every 10 s.                                                               *)
PollHealth ==
    /\ Mounted
    /\ health' \in FleetHealthz
    /\ UNCHANGED <<cookie, accepted, routing, signin, logout, meta>>

(* Variant: the settings share the layout's query, which is not polled.      *)
MetaNeverPolled == FALSE

(* Elsewhere the metadata are fetched when there are none, when they are     *)
(* five minutes old at a mount, and by Retry.                                *)
MetaPolled == screen = "settings"

MetaIsError   == meta.error # "none"
MetaIsPending == meta = NoMeta

ConnectionState ==
    CASE health = "pending"             -> "unknown"
      [] health = "ok"                  -> "connected"
      [] health = "service_unavailable" -> "stale"
      [] ErrorClass(health) = "UnauthorizedError" -> "unknown"
      [] OTHER                          -> "disconnected"

(* The pill of the bar.                                                      *)
Pill ==
    CASE health \notin {"pending", "ok"} -> ConnectionState
      [] health \in {"pending", "ok"} /\ MetaIsError -> "read_error"
      [] OTHER -> IF MetaIsPending THEN "unknown" ELSE ConnectionState

(* readAPIError *)
ReadAPIError(code) ==
    CASE code = "service_unavailable"   -> "rebuilding"
      [] code = "upstream_unauthorized" -> "token rejected"
      [] IsNoSession(code)              -> "sign in again"
      [] OTHER                          -> "unavailable"

ReadAPI ==
    IF MetaIsError THEN ReadAPIError(meta.error)
    ELSE IF MetaIsPending THEN "checking" ELSE "connected"

(* The settings' row of the liveness, and the metadata below.                *)
Liveness ==
    CASE health = "pending" -> "checking"
      [] health = "ok"      -> "reachable"
      [] OTHER              -> "unreachable"

Metadata ==
    IF meta.data = 0
    THEN IF MetaIsPending THEN "loading" ELSE "unavailable"
    ELSE IF MetaIsError THEN "cached" ELSE "shown"

(* ConnectionBanner *)
Banner ==
    CASE health \in {"pending", "ok"} \/ ErrorClass(health) = "UnauthorizedError" -> "none"
      [] health = "service_unavailable" -> "rebuilding"
      [] OTHER                          -> "lost connection"

-----------------------------------------------------------------------------
User      == Load \/ Follow \/ Travel \/ SubmitSignIn \/ SubmitLogout
Elsewhere == SessionEnds \/ SignInElsewhere \/ TokenChanges
Answered  == ReceiveMe \/ ReceiveSignIn \/ ReceiveLogout
Polled    == FetchMeta \/ PollHealth

(* The user stops asking. *)
Rest == ~ away /\ away' = TRUE /\ UNCHANGED <<cookie, accepted, routing, signin, logout, cache>>

Next ==
    \/ ~ away /\ User /\ UNCHANGED away
    \/ Rest
    \/ (Elsewhere \/ Answered \/ Polled) /\ UNCHANGED away

(* A request ends, and an interval of a mounted page runs out.               *)
Fairness ==
    /\ WF_vars(ReceiveMe /\ UNCHANGED away)
    /\ WF_vars(ReceiveLogout /\ UNCHANGED away)
    /\ WF_vars(MetaPolled /\ FetchMeta /\ UNCHANGED away)

Spec == Init /\ [][Next]_vars /\ Fairness
-----------------------------------------------------------------------------
(* The page the user asked for last is kept through the guards, the form and *)
(* the sign-in, however they overlap (_authed/route.tsx:14): at rest it is   *)
(* the page on screen, or the one the form leads to.                         *)
TargetKept ==
    /\ nav # NoNav => Goal(nav) = asked
    /\ nav = NoNav /\ screen \in Pages => screen = asked
    /\ nav = NoNav /\ screen = "login" => Target(form.redirect) = asked

(* A form that a guard or a logout led to has nothing of an ended session    *)
(* behind it that the next one could show (_authed/route.tsx:26).            *)
NothingLeftBehind == screen = "login" => meta.data = 0 \/ meta.data > form.ended

(* Without a session, a page that is asked for gives way to the form, or to  *)
(* the error of a server that did not answer (_authed/route.tsx:12).         *)
EndsAtForm ==
    away /\ session = 0 /\ nav.to \in Pages
    ~> session # 0 \/ screen = "login" \/ (screen = "error" /\ ~ IsNoSession(thrown))

(* Log out leaves the page when the session is over, also when it was over   *)
(* before or the answer is lost (TopNav.tsx:35).                             *)
LogoutLeaves == away /\ logout = "sent" ~> session # 0 \/ ~ Mounted

(* While the settings are open, a token that is rejected for good does not   *)
(* go on being called connected, there and in the bar, nor are the metadata  *)
(* shown as the server's own (TopNav.tsx:16, settings.tsx:65).               *)
RejectedIsSaid ==
    <>[](screen = "settings" /\ ~ accepted)
    => <>[](ReadAPI # "connected" /\ Pill # "connected" /\ Metadata # "shown")

(* The banner, the pill and the settings judge the same answer, each by its  *)
(* own rule: while the banner is up the pill says as much and the server is  *)
(* not called reachable (ConnectionBanner.tsx:16).                           *)
BannerIsBacked ==
    /\ Banner = "lost connection" => Pill = "disconnected" /\ Liveness = "unreachable"
    /\ Banner = "rebuilding" => Pill = "stale" /\ Liveness = "unreachable"
=============================================================================
