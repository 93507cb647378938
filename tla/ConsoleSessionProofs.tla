------------------------ MODULE ConsoleSessionProofs ------------------------
(***************************************************************************)
(* Proofs about the console's session, for any pages and any number of     *)
(* sessions: the page asked for is kept, nothing of an ended session stays *)
(* behind, the banner has a reason, and what is rendered is what the       *)
(* router was last answered.                                               *)
(***************************************************************************)
EXTENDS ConsoleSession, TLAPS

NavType == [to : Pages \cup {"none", "login", "index"}, redirect : Redirects, ended : Sessions]

(* A navigation knows which sessions are over: one that is good now is a     *)
(* later one, and so is the one the cached data were read in.                *)
NavFresh ==
    /\ nav.ended <= issued
    /\ session # 0 => session > nav.ended
    /\ nav.ended # 0 => meta.data = 0 \/ meta.data > nav.ended

IInv ==
    /\ TypeOK
    /\ session <= issued
    /\ NavFresh
    /\ TargetKept
    /\ NothingLeftBehind

(* What RequireAuth refuses had no session.                                  *)
LEMMA RefusedIsNoSession ==
    ASSUME NEW code \in Me, IsNoSession(code)
    PROVE  session = 0 /\ code # "ok"
BY DEF Me, IsNoSession, ErrorClass, NoSession

(* Before any session, and without a redirect.                               *)
LEMMA Defaults == 0 \in Sessions /\ "none" \in Redirects /\ "none" \notin Pages
<1>1. MaxSessions \in Nat /\ "none" \notin Pages
  BY ConsoleAssumption
<1>2. 0 \in 0..MaxSessions
  BY <1>1
<1> QED BY <1>1, <1>2 DEF Sessions, Redirects

(* Where a sign-in leads is a page.                                          *)
LEMMA TargetIsPage ==
    ASSUME NEW redirect \in Redirects
    PROVE  Target(redirect) \in Pages
BY ConsoleAssumption DEF Redirects, Target

(* Where a navigation leads is a page.                                       *)
LEMMA GoalIsPage ==
    ASSUME NEW n \in NavType
    PROVE  Goal(n) \in Pages
BY TargetIsPage, ConsoleAssumption DEF NavType, Goal

(* A navigation to a page is one, and leads there.                           *)
LEMMA ToIsNav ==
    ASSUME NEW page \in Pages
    PROVE  /\ To(page) \in NavType /\ To(page) # NoNav
           /\ To(page).ended = 0 /\ Goal(To(page)) = page
<1>1. To(page) = [to |-> page, redirect |-> "none", ended |-> 0]
  BY DEF To, NoNav
<1> QED BY <1>1, Defaults DEF NavType, NoNav, Goal

(* A navigation to the form is one, and leads to the form's redirect.        *)
LEMMA ToLoginIsNav ==
    ASSUME NEW redirect \in Redirects, NEW ended \in Sessions
    PROVE  /\ ToLogin(redirect, ended) \in NavType /\ ToLogin(redirect, ended) # NoNav
           /\ ToLogin(redirect, ended).ended = ended
           /\ ToLogin(redirect, ended).redirect = redirect
           /\ Goal(ToLogin(redirect, ended)) = Target(redirect)
BY ConsoleAssumption DEF ToLogin, NavType, NoNav, Goal

(* What a user may ask for says nothing of an ended session.                 *)
LEMMA InputIsNav ==
    ASSUME NEW n \in Inputs
    PROVE  n \in NavType /\ n # NoNav /\ n.ended = 0
<1>1. CASE n \in {To(page) : page \in Pages}
  BY <1>1, ToIsNav
<1>2. CASE n = To("index")
  <2>1. n = [to |-> "index", redirect |-> "none", ended |-> 0]
    BY <1>2 DEF To, NoNav
  <2> QED BY <2>1, Defaults DEF NavType, NoNav
<1>3. CASE n \in {ToLogin(redirect, 0) : redirect \in Redirects}
  <2> QED BY <1>3, Defaults, ToLoginIsNav
<1> QED BY <1>1, <1>2, <1>3 DEF Inputs

LEMMA InitIInv == Init => IInv
<1> SUFFICES ASSUME Init PROVE IInv
    OBVIOUS
<1>1. nav \in NavType /\ nav # NoNav /\ nav.ended = 0 /\ Goal(nav) \in Pages
  BY InputIsNav, GoalIsPage DEF Init
<1>2. NoForm \in [redirect : Redirects, ended : Sessions] /\ NoMeta \in [data : Sessions, error : {"none"}]
  BY Defaults DEF NoForm, NoMeta
<1>3. TypeOK
  BY <1>1, <1>2 DEF Init, TypeOK, NavType
<1>4. NavFresh /\ session <= issued
  <2>1. MaxSessions \in Nat
    BY ConsoleAssumption
  <2> QED BY <1>1, <1>3, <2>1 DEF Init, NavFresh, TypeOK, Sessions
<1>5. NothingLeftBehind /\ TargetKept
  BY <1>1 DEF Init, NothingLeftBehind, TargetKept
<1> QED BY <1>3, <1>4, <1>5 DEF IInv

(* Clearing the cache takes everything.                                      *)
LEMMA ClearIsFresh ==
    ASSUME Clear
    PROVE  /\ meta' \in [data : Sessions, error : Codes \cup {"none"}]
           /\ health' \in Codes \cup {"pending"}
           /\ meta'.data = 0
BY Defaults DEF Clear, NoMeta

(* So does superseding a guard, at most.                                     *)
LEMMA SupersedeIsFresh ==
    ASSUME TypeOK, Supersede
    PROVE  /\ meta' \in [data : Sessions, error : Codes \cup {"none"}]
           /\ health' \in Codes \cup {"pending"}
           /\ meta'.data = 0 \/ meta' = meta
<1>1. CASE Clear
  BY <1>1, ClearIsFresh
<1>2. CASE UNCHANGED cache
  BY <1>2 DEF TypeOK, cache
<1> QED BY <1>1, <1>2 DEF Supersede

(* A navigation that a user asks for.                                        *)
LEMMA NavigateKeeps ==
    ASSUME IInv, NEW n \in NavType, n # NoNav, n.ended = 0,
           Navigate(n), Supersede, UNCHANGED <<accepted, logout, away>>,
           form' = form \/ (form' = NoForm /\ screen # "login"),
           signin' \in {"idle", "sent"},
           session' \in Sessions, issued' \in Sessions, session' <= issued'
    PROVE  IInv'
<1>1. /\ nav' = n /\ asked' = Goal(n) /\ asked' \in Pages
      /\ screen' = screen /\ thrown' = thrown
  BY GoalIsPage DEF Navigate
<1>2. form' \in [redirect : Redirects, ended : Sessions]
  BY Defaults DEF IInv, TypeOK, NoForm
<1>3. TypeOK'
  BY <1>1, <1>2, SupersedeIsFresh DEF IInv, TypeOK, NavType
<1>4. NavFresh'
  <2>1. MaxSessions \in Nat
    BY ConsoleAssumption
  <2> QED BY <1>1, <1>3, <2>1 DEF NavFresh, TypeOK, Sessions
<1>5. TargetKept'
  BY <1>1 DEF TargetKept, Goal, Target
<1>6. NothingLeftBehind'
  BY <1>1, SupersedeIsFresh DEF IInv, NothingLeftBehind
<1> QED BY <1>3, <1>4, <1>5, <1>6 DEF IInv

(* A step of the session or of a query, that leaves the routing alone.       *)
LEMMA RoutingKept ==
    ASSUME IInv, UNCHANGED routing, TypeOK', session' <= issued', NavFresh',
           screen = "login" => meta'.data = meta.data
    PROVE  IInv'
<1>1. TargetKept'
  BY DEF IInv, TargetKept, routing, Goal, Target
<1>2. NothingLeftBehind'
  BY DEF IInv, NothingLeftBehind, routing
<1> QED BY <1>1, <1>2 DEF IInv

(* The sessions are numbers.                                                 *)
LEMMA SessionNumbers ==
    ASSUME TypeOK
    PROVE  /\ session \in Nat /\ issued \in Nat /\ nav.ended \in Nat /\ form.ended \in Nat
           /\ meta.data \in Nat /\ MaxSessions \in Nat
<1>1. MaxSessions \in Nat
  BY ConsoleAssumption
<1> QED BY <1>1 DEF TypeOK, Sessions

(* A new session is later than any there was.                                *)
LEMMA NewIsLater ==
    ASSUME TypeOK, NewSession
    PROVE  /\ session' \in Sessions /\ issued' \in Sessions /\ session' = issued'
           /\ issued' = issued + 1
<1>1. issued + 1 \in 0..MaxSessions
  BY SessionNumbers DEF NewSession
<1> QED BY <1>1 DEF NewSession, Sessions

LEMMA LoadKeeps ==
    ASSUME IInv, Load, UNCHANGED away
    PROVE  IInv'
<1>1. PICK n \in Inputs :
         /\ screen' = "blank" /\ thrown' = "none" /\ nav' = n /\ asked' = Goal(n)
         /\ form' = NoForm /\ signin' = "idle" /\ logout' = "idle"
         /\ Clear /\ UNCHANGED <<cookie, accepted>>
  BY DEF Load
<1>2. nav' \in NavType /\ nav' # NoNav /\ nav'.ended = 0 /\ asked' \in Pages
  BY <1>1, InputIsNav, GoalIsPage
<1>3. form' \in [redirect : Redirects, ended : Sessions]
  BY <1>1, Defaults DEF NoForm
<1>4. TypeOK'
  BY <1>1, <1>2, <1>3, ClearIsFresh DEF IInv, TypeOK, NavType, cookie
<1>5. session' <= issued' /\ NavFresh'
  BY <1>1, <1>2, <1>4, SessionNumbers DEF IInv, NavFresh, cookie
<1>6. TargetKept' /\ NothingLeftBehind'
  BY <1>1, <1>2 DEF TargetKept, NothingLeftBehind, Goal, Target
<1> QED BY <1>4, <1>5, <1>6 DEF IInv

LEMMA UserKeeps ==
    ASSUME IInv, User, UNCHANGED away
    PROVE  IInv'
<1>1. CASE Load
  BY <1>1, LoadKeeps
<1>2. CASE Follow
  <2>1. PICK page \in Pages :
           Navigate(To(page)) /\ Supersede /\ UNCHANGED <<cookie, accepted, form, signin, logout>>
    BY <1>2 DEF Follow
  <2> QED BY <2>1, ToIsNav, NavigateKeeps DEF IInv, TypeOK, cookie
<1>3. CASE Travel
  <2>1. PICK n \in Inputs :
           Navigate(n) /\ Supersede /\ UNCHANGED <<cookie, accepted, form, signin, logout>>
    BY <1>3 DEF Travel
  <2> QED BY <2>1, InputIsNav, NavigateKeeps DEF IInv, TypeOK, cookie
<1>4. CASE SubmitSignIn \/ SubmitLogout
  <2>1. UNCHANGED <<cookie, routing, cache>> /\ TypeOK'
    BY <1>4 DEF SubmitSignIn, SubmitLogout, IInv, TypeOK, cookie, routing, cache
  <2> QED BY <2>1, RoutingKept DEF IInv, NavFresh, cookie, routing, cache
<1> QED BY <1>1, <1>2, <1>3, <1>4 DEF User

LEMMA ElsewhereKeeps ==
    ASSUME IInv, Elsewhere, UNCHANGED away
    PROVE  IInv'
<1>1. CASE SessionEnds
  <2>1. TypeOK' /\ UNCHANGED <<routing, cache>>
    BY <1>1, Defaults DEF SessionEnds, IInv, TypeOK, routing, cache
  <2>2. session' <= issued' /\ NavFresh'
    BY <1>1, SessionNumbers DEF SessionEnds, IInv, NavFresh, routing, cache
  <2> QED BY <2>1, <2>2, RoutingKept DEF cache
<1>2. CASE SignInElsewhere
  <2>1. TypeOK' /\ UNCHANGED <<routing, cache>>
    BY <1>2, NewIsLater DEF SignInElsewhere, IInv, TypeOK, routing, cache
  <2>2. session' <= issued' /\ NavFresh'
    BY <1>2, NewIsLater, SessionNumbers DEF SignInElsewhere, IInv, NavFresh, routing, cache
  <2> QED BY <2>1, <2>2, RoutingKept DEF cache
<1>3. CASE TokenChanges
  <2>1. UNCHANGED <<cookie, routing, cache>> /\ TypeOK'
    BY <1>3 DEF TokenChanges, IInv, TypeOK, cookie, routing, cache
  <2> QED BY <2>1, RoutingKept DEF IInv, NavFresh, cookie, routing, cache
<1> QED BY <1>1, <1>2, <1>3 DEF Elsewhere

LEMMA PolledKeeps ==
    ASSUME IInv, Polled, UNCHANGED away
    PROVE  IInv'
<1>1. CASE FetchMeta
  <2>1. PICK code \in FleetMeta :
           meta' = IF code = "ok" THEN [data |-> session, error |-> "none"]
                   ELSE [meta EXCEPT !.error = code]
    BY <1>1 DEF FetchMeta
  <2>2. code \in Codes /\ (code = "ok" => session # 0)
    BY ConsoleAssumption DEF FleetMeta, NoSession, Codes
  <2>3. /\ meta' \in [data : Sessions, error : Codes \cup {"none"}]
        /\ meta'.data = meta.data \/ (session # 0 /\ meta'.data = session)
    BY <2>1, <2>2 DEF IInv, TypeOK
  <2>4. UNCHANGED <<cookie, routing>> /\ TypeOK'
    BY <1>1, <2>3 DEF FetchMeta, IInv, TypeOK, cookie, routing
  <2>5. session' <= issued' /\ NavFresh'
    BY <2>3, <2>4 DEF IInv, NavFresh, cookie, routing
  <2>6. screen # "login"
    BY <1>1, ConsoleAssumption DEF FetchMeta, Mounted
  <2> QED BY <2>4, <2>5, <2>6, RoutingKept
<1>2. CASE PollHealth
  <2>1. health' \in Codes
    BY <1>2, ConsoleAssumption DEF PollHealth, FleetHealthz, NoSession, Codes
  <2>2. UNCHANGED <<cookie, routing, meta>> /\ TypeOK'
    BY <1>2, <2>1 DEF PollHealth, IInv, TypeOK, cookie, routing
  <2> QED BY <2>2, RoutingKept DEF IInv, NavFresh, cookie, routing
<1> QED BY <1>1, <1>2 DEF Polled

(* A guard that redirects: the target stays.                                 *)
LEMMA RedirectKeeps ==
    ASSUME IInv, NEW n \in NavType, n # NoNav, Goal(n) = asked, Redirect(n),
           UNCHANGED <<cookie, accepted, signin, logout, away>>,
           \/ n.ended = 0 /\ UNCHANGED cache
           \/ n.ended = issued /\ session = 0 /\ Clear
    PROVE  IInv'
<1>1. nav' = n /\ UNCHANGED <<screen, thrown, form, asked, cookie>>
  BY DEF Redirect
<1>2. /\ meta' \in [data : Sessions, error : Codes \cup {"none"}]
      /\ health' \in Codes \cup {"pending"}
      /\ meta'.data = 0 \/ meta' = meta
      /\ n.ended # 0 => meta'.data = 0
  BY ClearIsFresh, SessionNumbers DEF IInv, TypeOK, cache
<1>3. TypeOK'
  BY <1>1, <1>2 DEF IInv, TypeOK, NavType, cookie
<1>4. session' <= issued' /\ NavFresh'
  BY <1>1, <1>2, SessionNumbers DEF IInv, NavFresh, cookie
<1>5. TargetKept'
  BY <1>1 DEF TargetKept, Goal, Target
<1>6. NothingLeftBehind'
  BY <1>1, <1>2 DEF IInv, NothingLeftBehind
<1> QED BY <1>3, <1>4, <1>5, <1>6 DEF IInv

(* A guard that lets a route be rendered, or its error.                      *)
LEMMA RenderKeeps ==
    ASSUME IInv, NEW route \in Pages \cup {"login", "error"}, NEW error \in Codes \cup {"none"},
           nav # NoNav, Render(route, error),
           UNCHANGED <<cookie, accepted, signin, logout, cache, away>>,
           route \in Pages => nav.to = route,
           route = "login" => nav.to = "login"
    PROVE  IInv'
<1>1. /\ screen' = route /\ thrown' = error /\ nav' = NoNav /\ asked' = asked
      /\ form' = IF route = "login" THEN [redirect |-> nav.redirect, ended |-> nav.ended]
                 ELSE IF signin = "sent" THEN form ELSE NoForm
  BY DEF Render
<1>2. NoNav \in NavType /\ NoNav.ended = 0
  BY Defaults DEF NoNav, NavType
<1>3. form' \in [redirect : Redirects, ended : Sessions]
  BY <1>1, Defaults DEF IInv, TypeOK, NoForm
<1>4. TypeOK'
  BY <1>1, <1>2, <1>3 DEF IInv, TypeOK, NavType, cookie, cache
<1>5. session' <= issued' /\ NavFresh'
  BY <1>1, <1>2, SessionNumbers DEF IInv, NavFresh, cookie
<1>6. Goal(nav) = asked
  BY DEF IInv, TargetKept
<1>7. TargetKept'
  <2>1. CASE route \in Pages
    <3>1. asked = route /\ route # "login"
      BY <1>6, <2>1, ConsoleAssumption DEF Goal
    <3> QED BY <1>1, <3>1 DEF TargetKept
  <2>2. CASE route = "login"
    <3>1. asked = Target(nav.redirect) /\ route \notin Pages
      BY <1>6, <2>2, ConsoleAssumption DEF Goal
    <3>2. form'.redirect = nav.redirect
      BY <1>1, <2>2
    <3> QED BY <1>1, <2>2, <3>1, <3>2 DEF TargetKept, Target
  <2>3. CASE route = "error"
    <3>1. route \notin Pages /\ route # "login"
      BY <2>3, ConsoleAssumption
    <3> QED BY <1>1, <3>1 DEF TargetKept
  <2> QED BY <2>1, <2>2, <2>3
<1>8. NothingLeftBehind'
  <2>1. CASE route = "login"
    <3>1. form'.ended = nav.ended /\ meta' = meta
      BY <1>1, <2>1 DEF cache
    <3>2. meta.data = 0 \/ meta.data > nav.ended
      BY SessionNumbers DEF IInv, NavFresh
    <3> QED BY <3>1, <3>2 DEF NothingLeftBehind
  <2>2. CASE route # "login"
    BY <1>1, <2>2 DEF NothingLeftBehind
  <2> QED BY <2>1, <2>2
<1> QED BY <1>4, <1>5, <1>7, <1>8 DEF IInv

LEMMA ReceiveMeKeeps ==
    ASSUME IInv, ReceiveMe, UNCHANGED away
    PROVE  IInv'
<1>1. PICK code \in Me : AuthedGuard(code) \/ LoginGuard(code) \/ IndexGuard(code)
  BY DEF ReceiveMe
<1>2. nav # NoNav /\ UNCHANGED <<cookie, accepted, signin, logout, away>>
  BY DEF ReceiveMe
<1>3. code \in Codes /\ nav.redirect \in Redirects /\ issued \in Sessions
  BY DEF Me, NoSession, Codes, IInv, TypeOK
<1>4. Goal(nav) = asked
  BY <1>2 DEF IInv, TargetKept
<1>5. IsNoSession(code) => session = 0
  BY RefusedIsNoSession
<1>6. ASSUME Render("error", code), UNCHANGED cache PROVE IInv'
  BY <1>2, <1>3, <1>6, RenderKeeps, ConsoleAssumption
<1>7. CASE AuthedGuard(code)
  <2>1. nav.to \in Pages /\ asked = nav.to
    BY <1>4, <1>7 DEF AuthedGuard, Goal
  <2>2. CASE Render(nav.to, "none") /\ UNCHANGED cache
    BY <1>2, <2>1, <2>2, RenderKeeps, ConsoleAssumption
  <2>3. CASE IsNoSession(code) /\ Bounce
    <3>1. nav.to \in Redirects /\ Target(nav.to) = nav.to
      BY <2>1, Defaults DEF Redirects, Target
    <3> DEFINE n == ToLogin(nav.to, issued)
    <3>2. n \in NavType /\ n # NoNav /\ n.ended = issued /\ Goal(n) = asked
      BY <1>3, <2>1, <3>1, ToLoginIsNav
    <3>3. Redirect(n) /\ Clear /\ session = 0
      BY <1>5, <2>3 DEF Bounce
    <3> HIDE DEF n
    <3> QED BY <1>2, <3>2, <3>3, RedirectKeeps
  <2> QED BY <1>6, <1>7, <2>2, <2>3 DEF AuthedGuard
<1>8. CASE LoginGuard(code)
  <2>1. nav.to = "login" /\ UNCHANGED cache /\ asked = Target(nav.redirect)
    BY <1>4, <1>8, ConsoleAssumption DEF LoginGuard, Goal
  <2>2. CASE Redirect(To(Target(nav.redirect)))
    <3> DEFINE n == To(Target(nav.redirect))
    <3>1. n \in NavType /\ n # NoNav /\ n.ended = 0 /\ Goal(n) = asked
      BY <1>3, <2>1, TargetIsPage, ToIsNav
    <3>2. Redirect(n)
      BY <2>2
    <3> HIDE DEF n
    <3> QED BY <1>2, <2>1, <3>1, <3>2, RedirectKeeps
  <2>3. CASE Render("login", "none")
    BY <1>2, <2>1, <2>3, RenderKeeps, ConsoleAssumption
  <2> QED BY <1>6, <1>8, <2>1, <2>2, <2>3 DEF LoginGuard
<1>9. CASE IndexGuard(code)
  <2>1. nav.to = "index" /\ UNCHANGED cache /\ asked = "alerts" /\ "alerts" \in Pages
    BY <1>4, <1>9, ConsoleAssumption DEF IndexGuard, Goal
  <2>2. CASE Redirect(To("alerts"))
    <3> DEFINE n == To("alerts")
    <3>1. n \in NavType /\ n # NoNav /\ n.ended = 0 /\ Goal(n) = asked
      BY <2>1, ToIsNav
    <3>2. Redirect(n)
      BY <2>2
    <3> HIDE DEF n
    <3> QED BY <1>2, <2>1, <3>1, <3>2, RedirectKeeps
  <2>3. CASE Redirect(ToLogin("none", 0))
    <3> DEFINE n == ToLogin("none", 0)
    <3>1. n \in NavType /\ n # NoNav /\ n.ended = 0 /\ Goal(n) = asked
      BY <2>1, Defaults, ToLoginIsNav DEF Target
    <3>2. Redirect(n)
      BY <2>3
    <3> HIDE DEF n
    <3> QED BY <1>2, <2>1, <3>1, <3>2, RedirectKeeps
  <2> QED BY <1>6, <1>9, <2>1, <2>2, <2>3 DEF IndexGuard
<1> QED BY <1>1, <1>7, <1>8, <1>9

LEMMA ReceiveSignInKeeps ==
    ASSUME IInv, ReceiveSignIn, UNCHANGED away
    PROVE  IInv'
<1>1. /\ signin' = "idle" /\ UNCHANGED <<accepted, logout>>
      /\ form' = IF screen = "login" THEN form ELSE NoForm
  BY DEF ReceiveSignIn
<1>2. form' = form \/ (form' = NoForm /\ screen # "login")
  BY <1>1
<1>3. CASE NewSession /\ Navigate(To(Target(form.redirect))) /\ Supersede
  <2> DEFINE n == To(Target(form.redirect))
  <2>1. n \in NavType /\ n # NoNav /\ n.ended = 0
    BY TargetIsPage, ToIsNav DEF IInv, TypeOK
  <2>2. session' \in Sessions /\ issued' \in Sessions /\ session' <= issued'
    BY <1>3, NewIsLater, SessionNumbers DEF IInv, NewSession
  <2>3. Navigate(n) /\ Supersede
    BY <1>3
  <2> HIDE DEF n
  <2> QED BY <1>1, <1>2, <2>1, <2>2, <2>3, NavigateKeeps
<1>4. CASE (NewSession \/ UNCHANGED cookie) /\ UNCHANGED <<screen, thrown, nav, asked, cache>>
  <2>1. form' \in [redirect : Redirects, ended : Sessions]
    BY <1>2, Defaults DEF IInv, TypeOK, NoForm
  <2>2. /\ session' \in Sessions /\ issued' \in Sessions /\ session' <= issued' /\ issued <= issued'
        /\ session' = session \/ session' > issued
    BY <1>4, NewIsLater, SessionNumbers DEF IInv, TypeOK, cookie, NewSession
  <2>3. TypeOK'
    BY <1>1, <1>4, <2>1, <2>2 DEF IInv, TypeOK, cache
  <2>4. NavFresh'
    BY <1>4, <2>2, SessionNumbers, <2>3 DEF IInv, NavFresh, cache, TypeOK, Sessions
  <2>5. TargetKept' /\ NothingLeftBehind'
    BY <1>2, <1>4 DEF IInv, TargetKept, NothingLeftBehind, cache, Goal, Target
  <2> QED BY <2>2, <2>3, <2>4, <2>5 DEF IInv
<1> QED BY <1>3, <1>4 DEF ReceiveSignIn

LEMMA ReceiveLogoutKeeps ==
    ASSUME IInv, ReceiveLogout, UNCHANGED away
    PROVE  IInv'
<1>1. /\ session' \in {0, session} /\ logout' = "idle"
      /\ UNCHANGED <<issued, accepted, form, signin>>
      /\ Clear /\ Navigate(ToLogin("none", IF session' = 0 THEN issued ELSE 0))
  BY DEF ReceiveLogout, Settled
<1> DEFINE ended == IF session' = 0 THEN issued ELSE 0
           n     == ToLogin("none", ended)
<1>2. ended \in Sessions /\ ended <= issued /\ (session' # 0 => ended = 0)
  BY Defaults, SessionNumbers DEF IInv, TypeOK
<1> HIDE DEF ended
<1>3. n \in NavType /\ n.ended = ended
  BY <1>2, Defaults, ToLoginIsNav
<1>4. Navigate(n)
  BY <1>1 DEF ended
<1> HIDE DEF n
<1>5. nav' = n /\ asked' = Goal(n) /\ asked' \in Pages /\ screen' = screen /\ thrown' = thrown
  BY <1>3, <1>4, GoalIsPage DEF Navigate
<1>6. session' \in Sessions
  BY <1>1, Defaults DEF IInv, TypeOK
<1>7. TypeOK'
  BY <1>1, <1>3, <1>5, <1>6, ClearIsFresh DEF IInv, TypeOK, NavType
<1>8. session' <= issued' /\ NavFresh'
  BY <1>1, <1>2, <1>3, <1>5, ClearIsFresh, SessionNumbers DEF IInv, NavFresh
<1>9. n # NoNav
  BY <1>2, Defaults, ToLoginIsNav DEF n
<1>10. TargetKept'
  BY <1>5, <1>9 DEF TargetKept, Goal, Target
<1>11. NothingLeftBehind'
  BY <1>1, ClearIsFresh DEF NothingLeftBehind
<1> QED BY <1>7, <1>8, <1>10, <1>11 DEF IInv

LEMMA NextIInv == IInv /\ [Next]_vars => IInv'
<1> SUFFICES ASSUME IInv, [Next]_vars PROVE IInv'
    OBVIOUS
<1>1. CASE UNCHANGED vars \/ Rest
  <2>1. UNCHANGED <<cookie, routing, cache>> /\ TypeOK'
    BY <1>1 DEF vars, Rest, IInv, TypeOK, cookie, routing, cache
  <2> QED BY <2>1, RoutingKept DEF IInv, NavFresh, cookie, routing, cache
<1>2. CASE Next /\ ~ Rest
  <2>1. UNCHANGED away
    BY <1>2 DEF Next
  <2> QED BY <1>2, <2>1, UserKeeps, ElsewhereKeeps, PolledKeeps, ReceiveMeKeeps,
             ReceiveSignInKeeps, ReceiveLogoutKeeps DEF Next, Answered
<1> QED BY <1>1, <1>2

LEMMA SpecIInv == Spec => []IInv
BY InitIInv, NextIInv, PTL DEF Spec

(* The state of the console and of its queries is always what the code can   *)
(* hold.                                                                     *)
THEOREM ConsoleTypeCorrect == Spec => []TypeOK
<1>1. IInv => TypeOK
  BY DEF IInv
<1> QED BY <1>1, SpecIInv, PTL

(* Through the guards of _authed, of the form and of the index, and through  *)
(* a sign-in that overlaps them, the page the user asked for last is kept.   *)
THEOREM TargetAlwaysKept == Spec => []TargetKept
<1>1. IInv => TargetKept
  BY DEF IInv
<1> QED BY <1>1, SpecIInv, PTL

(* A form that a guard or a logout led to has nothing in the cache that was  *)
(* read in a session that is over, whatever the queries and the other tabs   *)
(* do while the form's own guard waits.                                      *)
THEOREM NothingEverLeftBehind == Spec => []NothingLeftBehind
<1>1. IInv => NothingLeftBehind
  BY DEF IInv
<1> QED BY <1>1, SpecIInv, PTL

(* While the banner is up, the pill and the settings' liveness say as much,  *)
(* whatever the metadata's query has.                                        *)
THEOREM BannerAlwaysBacked == Spec => []BannerIsBacked
<1>1. BannerIsBacked
  <2>1. CASE Banner = "lost connection"
    <3>1. health \notin {"pending", "ok", "service_unavailable"}
      BY <2>1 DEF Banner
    <3>2. ErrorClass(health) # "UnauthorizedError"
      BY <2>1 DEF Banner
    <3>3. Pill = ConnectionState /\ ConnectionState = "disconnected"
      BY <3>1, <3>2 DEF Pill, ConnectionState
    <3> QED BY <2>1, <3>1, <3>3 DEF BannerIsBacked, Liveness
  <2>2. CASE Banner = "rebuilding"
    <3>1. health = "service_unavailable"
      BY <2>2 DEF Banner
    <3>2. Pill = "stale"
      BY <3>1 DEF Pill, ConnectionState, ErrorClass
    <3> QED BY <2>2, <3>1, <3>2 DEF BannerIsBacked, Liveness
  <2>3. CASE Banner \notin {"lost connection", "rebuilding"}
    BY <2>3 DEF BannerIsBacked
  <2> QED BY <2>1, <2>2, <2>3
<1> QED BY <1>1, PTL
-----------------------------------------------------------------------------
(* Nothing ends on a blank screen. *)

(* While nothing is rendered yet, a guard waits for its answer; and what the *)
(* boundary shows is an error of the server's or of the network, never that  *)
(* there is no session, which leads to the form on every route               *)
(* (_authed/route.tsx:12, login.tsx, index.tsx).                             *)
ScreenIsAnswer ==
    /\ screen = "blank" => nav # NoNav
    /\ screen = "error" => thrown # "ok" /\ ~ IsNoSession(thrown)

LEMMA NoSuchPage == {"blank", "login", "error"} \cap Pages = {}
BY ConsoleAssumption

LEMMA InputNotNone ==
    ASSUME NEW n \in Inputs
    PROVE  n # NoNav
BY InputIsNav

LEMMA ToLoginNotNone ==
    ASSUME NEW redirect, NEW ended
    PROVE  ToLogin(redirect, ended) # NoNav
BY DEF ToLogin, NoNav

LEMMA ScreenGuards ==
    ASSUME IInv, ScreenIsAnswer, ReceiveMe
    PROVE  ScreenIsAnswer'
<1>1. nav \in NavType
  BY DEF IInv, TypeOK, NavType
<1>2. ASSUME NEW n, n # NoNav, Redirect(n) PROVE ScreenIsAnswer'
  BY <1>2 DEF Redirect, ScreenIsAnswer, IsNoSession, ErrorClass
<1>3. ASSUME NEW route, NEW error, Render(route, error), route # "blank",
             route = "error" => error # "ok" /\ ~ IsNoSession(error)
      PROVE  ScreenIsAnswer'
  BY <1>3 DEF Render, ScreenIsAnswer, IsNoSession, ErrorClass
<1>4. PICK code \in Me : AuthedGuard(code) \/ LoginGuard(code) \/ IndexGuard(code)
  BY DEF ReceiveMe
<1>5. CASE AuthedGuard(code)
  <2>1. nav.to # "blank" /\ nav.to # "error"
    BY <1>5, NoSuchPage DEF AuthedGuard
  <2>2. Bounce => ScreenIsAnswer'
    BY <1>2, ToLoginNotNone DEF Bounce
  <2>. QED  BY <1>3, <1>5, <2>1, <2>2 DEF AuthedGuard
<1>6. CASE LoginGuard(code)
  <2>1. To(Target(nav.redirect)) # NoNav
    <3>1. nav.redirect \in Redirects
      BY <1>1 DEF NavType
    <3>. QED  BY <3>1, TargetIsPage, ToIsNav
  <2>. QED  BY <1>2, <1>3, <1>6, <2>1 DEF LoginGuard
<1>7. CASE IndexGuard(code)
  <2>1. To("alerts") # NoNav /\ ToLogin("none", 0) # NoNav
    BY ConsoleAssumption, ToIsNav, ToLoginNotNone
  <2>. QED  BY <1>2, <1>3, <1>7, <2>1 DEF IndexGuard
<1>. QED  BY <1>4, <1>5, <1>6, <1>7

LEMMA ScreenStep == IInv /\ ScreenIsAnswer /\ [Next]_vars => ScreenIsAnswer'
<1>. SUFFICES ASSUME IInv, ScreenIsAnswer, [Next]_vars PROVE ScreenIsAnswer'
  OBVIOUS
<1>1. CASE UNCHANGED routing \/ UNCHANGED <<screen, thrown, nav>>
  BY <1>1 DEF ScreenIsAnswer, IsNoSession, ErrorClass, routing
<1>2. ASSUME NEW n, n # NoNav, Navigate(n) PROVE ScreenIsAnswer'
  BY <1>2 DEF Navigate, ScreenIsAnswer, IsNoSession, ErrorClass
<1>3. CASE Load
  <2>1. PICK n \in Inputs : screen' = "blank" /\ nav' = n
    BY <1>3 DEF Load
  <2>. QED  BY <2>1, InputNotNone DEF ScreenIsAnswer
<1>4. CASE Follow
  <2>1. PICK page \in Pages : Navigate(To(page))
    BY <1>4 DEF Follow
  <2>. QED  BY <1>2, <2>1, ToIsNav
<1>5. CASE Travel
  BY <1>2, <1>5, InputNotNone DEF Travel
<1>6. CASE ReceiveSignIn
  <2>1. To(Target(form.redirect)) # NoNav
    <3>1. form.redirect \in Redirects
      BY DEF IInv, TypeOK
    <3>. QED  BY <3>1, TargetIsPage, ToIsNav
  <2>. QED  BY <1>1, <1>2, <1>6, <2>1 DEF ReceiveSignIn
<1>7. CASE ReceiveLogout
  BY <1>2, <1>7, ToLoginNotNone DEF ReceiveLogout, Settled
<1>8. CASE SubmitSignIn \/ SubmitLogout \/ Elsewhere \/ Polled \/ Rest \/ UNCHANGED vars
  BY <1>1, <1>8 DEF SubmitSignIn, SubmitLogout, Elsewhere, SessionEnds, SignInElsewhere,
                    TokenChanges, Polled, FetchMeta, PollHealth, Rest, vars
<1>. QED  BY <1>3, <1>4, <1>5, <1>6, <1>7, <1>8, ScreenGuards DEF Next, User, Answered

THEOREM ScreenAlwaysAnswer == Spec => []ScreenIsAnswer
<1>1. Init => ScreenIsAnswer
  BY InputNotNone DEF Init, ScreenIsAnswer
<1>. QED  BY <1>1, ScreenStep, SpecIInv, PTL DEF Spec
=============================================================================
