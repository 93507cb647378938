------------------------------- MODULE Login --------------------------------
(***************************************************************************)
(* The ways to a session: the organization's login (internal/auth/oidc.go  *)
(* with the handlers of internal/api/v1/oidc.go), the password, and the    *)
(* limiter in front of both (ratelimit.go).                                *)
(*                                                                         *)
(* An attempt is the random state of one login; its binding is as random,  *)
(* and is named after it.  A call is a callback that the server is at work *)
(* on: it waits for the provider between the table of attempts and its     *)
(* answer.  A session is kept by the browser alone.                        *)
(*                                                                         *)
(* A request the limiter rejects changes nothing and is left out, and so   *)
(* is the exemption of loopback addresses.                                 *)
(***************************************************************************)
EXTENDS Integers, Sequences, FiniteSets, FiniteSetsExt

CONSTANTS
    Browsers, Attempts, Calls, None,
    Addresses, AddressOf,    (* browser -> the address the limiter sees      *)
    MaxAttempts,             (* maxLoginAttempts                             *)
    AttemptTTL,              (* LoginAttemptTTL                              *)
    SessionTTL,              (* JWT_TTL_HOURS                                *)
    MaxHits, Window,         (* newRateLimiter(max, window)                  *)
    MaxTime                  (* bound: the last tick                         *)

ASSUME LoginAssumption ==
    /\ {MaxAttempts, AttemptTTL, SessionTTL, MaxHits, Window} \subseteq Nat \ {0}
    /\ MaxTime \in Nat
    /\ AddressOf \in [Browsers -> Addresses]
    /\ None \notin Nat \cup Attempts \cup Browsers
    /\ None \notin [count : Nat, reset : Nat]
    /\ "password" \notin Attempts

VARIABLES
    now,
    attempts,        (* the table: an attempt -> when it expires, or None    *)
    hits,            (* the limiter: an address -> its window, or None       *)
    begun,           (* the browser each attempt was begun for, or None      *)
    redirects,       (* attempts whose redirect is on its way                *)
    cookie,          (* a browser -> the binding it holds, or None           *)
    call,            (* the callbacks at the server, or None                 *)
    session,         (* a browser -> its session, or None                    *)
    issued,          (* history: the sessions issued for each attempt        *)
    passed           (* history: when an address's requests were let through,
                        since the process started                            *)

server   == <<attempts, hits, call>>
browser  == <<redirects, cookie, session>>
history  == <<begun, issued, passed>>
vars     == <<now, server, browser, history>>

(* The browser, the state of its URL, whether that has a code, and the       *)
(* binding that came along.                                                  *)
Call ==
    [phase : {"arrived", "exchange", "granted", "failed"}, browser : Browsers,
     state : Attempts, code : BOOLEAN, binding : Attempts \cup {None}, until : Nat]

Session == [until : Nat, by : Attempts \cup {"password"}]

TypeOK ==
    /\ now \in 0..MaxTime
    /\ attempts \in [Attempts -> Nat \cup {None}]
    /\ hits \in [Addresses -> [count : 1..MaxHits, reset : Nat] \cup {None}]
    /\ begun \in [Attempts -> Browsers \cup {None}]
    /\ redirects \subseteq Attempts
    /\ cookie \in [Browsers -> Attempts \cup {None}]
    /\ call \in [Calls -> Call \cup {None}]
    /\ session \in [Browsers -> Session \cup {None}]
    /\ issued \in [Attempts -> Nat]
    /\ passed \in [Addresses -> Seq(Nat)]

Init ==
    /\ now = 0
    /\ attempts = [a \in Attempts |-> None]
    /\ hits = [i \in Addresses |-> None]
    /\ begun = [a \in Attempts |-> None]
    /\ redirects = {}
    /\ cookie = [b \in Browsers |-> None]
    /\ call = [c \in Calls |-> None]
    /\ session = [b \in Browsers |-> None]
    /\ issued = [a \in Attempts |-> 0]
    /\ passed = [i \in Addresses |-> << >>]

-----------------------------------------------------------------------------
(* The limiter. *)

(* Not after its reset.                                                      *)
WindowOpen(i) == hits[i] # None /\ now <= hits[i].reset

NewWindow == [count |-> 1, reset |-> now + Window]

(* Variant: the request that opens a window is not counted.                  *)
AllowUncounted(i) ==
    /\ \/ /\ ~ WindowOpen(i)
          /\ hits' = [hits EXCEPT ![i] = [NewWindow EXCEPT !.count = 0]]
       \/ /\ WindowOpen(i)
          /\ hits[i].count < MaxHits
          /\ hits' = [hits EXCEPT ![i].count = @ + 1]
    /\ passed' = [passed EXCEPT ![i] = Append(@, now)]

Allow(i) ==
    /\ \/ /\ ~ WindowOpen(i)
          /\ hits' = [hits EXCEPT ![i] = NewWindow]
       \/ /\ WindowOpen(i)
          /\ hits[i].count < MaxHits
          /\ hits' = [hits EXCEPT ![i].count = @ + 1]
    /\ passed' = [passed EXCEPT ![i] = Append(@, now)]

-----------------------------------------------------------------------------
(* GET /auth/oidc/start *)

Live(a) == attempts[a] # None /\ attempts[a] > now

(* Begin drops what has expired, whether it has room then or not.            *)
Purged == [a \in Attempts |-> IF Live(a) THEN attempts[a] ELSE None]

Pending == {a \in Attempts : Purged[a] # None}

Begin(b, a) ==
    /\ Allow(AddressOf[b])
    /\ Cardinality(Pending) < MaxAttempts
    /\ begun[a] = None
    /\ attempts' = [Purged EXCEPT ![a] = now + AttemptTTL]
    /\ begun' = [begun EXCEPT ![a] = b]
    /\ redirects' = redirects \cup {a}
    /\ UNCHANGED <<now, cookie, call, session, issued>>

(* "Sign-in is busy."                                                        *)
Refuse(b) ==
    /\ Allow(AddressOf[b])
    /\ Cardinality(Pending) >= MaxAttempts
    /\ attempts' = Purged
    /\ UNCHANGED <<now, begun, redirects, cookie, call, session, issued>>

(* The answer sets the binding, over that of another tab.                    *)
ReceiveRedirect(a) ==
    /\ a \in redirects
    /\ redirects' = redirects \ {a}
    /\ cookie' = [cookie EXCEPT ![begun[a]] = a]
    /\ UNCHANGED <<now, server, session, history>>
-----------------------------------------------------------------------------
(* GET /auth/oidc/callback *)

(* The provider's redirect, with a code or an error, or the same URL again,  *)
(* here or in another browser.                                               *)
Callback(c, b, a) ==
    /\ call[c] = None
    /\ begun[a] # None /\ a \notin redirects
    /\ Allow(AddressOf[b])
    /\ \E code \in BOOLEAN :
          call' = [call EXCEPT ![c] =
                     [phase |-> IF cookie[b] = None THEN "failed" ELSE "arrived",
                      browser |-> b, state |-> a, code |-> code, binding |-> cookie[b],
                      until |-> 0]]
    /\ UNCHANGED <<now, attempts, browser, begun, issued>>

(* Variant: the entry is deleted before its binding is compared.             *)
ConsumeFirst(c) ==
    LET a == call[c].state IN
    /\ attempts' = [attempts EXCEPT ![a] = None]
    /\ call' = [call EXCEPT ![c].phase =
                  IF Live(a) /\ call[c].binding = a /\ call[c].code THEN "exchange" ELSE "failed"]

(* Variant: any binding does.                                                *)
ConsumeUnbound(c) ==
    LET a == call[c].state IN
    /\ attempts' = [attempts EXCEPT ![a] = None]
    /\ call' = [call EXCEPT ![c].phase =
                  IF Live(a) /\ call[c].code THEN "exchange" ELSE "failed"]

(* Under the lock: a binding that does not match leaves the entry alone, one *)
(* that does takes it, expired or not and with a code or without.            *)
Consume(c) ==
    LET a == call[c].state IN
    /\ attempts' = IF call[c].binding = a THEN [attempts EXCEPT ![a] = None] ELSE attempts
    /\ call' = [call EXCEPT ![c].phase =
                  IF Live(a) /\ call[c].binding = a /\ call[c].code THEN "exchange" ELSE "failed"]

Complete(c) ==
    /\ call[c] # None /\ call[c].phase = "arrived"
    /\ Consume(c)
    /\ UNCHANGED <<now, hits, browser, history>>

(* SignUntil: not beyond the provider's token.                               *)
Until(deadline) == Min({deadline, now + SessionTTL})

(* The provider's token is good and its subject admitted.                    *)
Grant(c) ==
    /\ call[c] # None /\ call[c].phase = "exchange"
    /\ \E deadline \in (now + 1)..(MaxTime + 1) :
          call' = [call EXCEPT ![c].phase = "granted", ![c].until = Until(deadline)]
    /\ issued' = [issued EXCEPT ![call[c].state] = @ + 1]
    /\ UNCHANGED <<now, attempts, hits, browser, begun, passed>>

(* It is not, or the provider does not answer.                               *)
Deny(c) ==
    /\ call[c] # None /\ call[c].phase = "exchange"
    /\ call' = [call EXCEPT ![c].phase = "failed"]
    /\ UNCHANGED <<now, attempts, hits, browser, history>>

(* Every answer takes the binding away, whatever it is by then.              *)
ReceiveAnswer(c) ==
    /\ call[c] # None /\ call[c].phase \in {"granted", "failed"}
    /\ cookie' = [cookie EXCEPT ![call[c].browser] = None]
    /\ session' = IF call[c].phase = "granted"
                  THEN [session EXCEPT ![call[c].browser] =
                          [until |-> call[c].until, by |-> call[c].state]]
                  ELSE session
    /\ call' = [call EXCEPT ![c] = None]
    /\ UNCHANGED <<now, attempts, hits, redirects, history>>

(* The browser goes away: the exchange is cancelled, or the answer lost.     *)
Disconnect(c) ==
    /\ call[c] # None
    /\ call' = [call EXCEPT ![c] = None]
    /\ UNCHANGED <<now, attempts, hits, browser, history>>
-----------------------------------------------------------------------------
(* POST /auth/login and /auth/logout *)

PasswordLogin(b) ==
    /\ Allow(AddressOf[b])
    /\ \/ session' = [session EXCEPT ![b] = [until |-> now + SessionTTL, by |-> "password"]]
       \/ UNCHANGED session
    /\ UNCHANGED <<now, attempts, call, redirects, cookie, begun, issued>>

(* RequireAuth                                                               *)
SignedIn(b) == session[b] # None /\ now < session[b].until

Logout(b) ==
    /\ SignedIn(b)
    /\ session' = [session EXCEPT ![b] = None]
    /\ UNCHANGED <<now, server, redirects, cookie, history>>

Tick ==
    /\ now < MaxTime
    /\ now' = now + 1
    /\ UNCHANGED <<server, browser, history>>

(* What is kept in memory is gone: the table, the windows, the calls.        *)
Restart ==
    /\ attempts' = [a \in Attempts |-> None]
    /\ hits' = [i \in Addresses |-> None]
    /\ call' = [c \in Calls |-> None]
    /\ passed' = [i \in Addresses |-> << >>]
    /\ UNCHANGED <<now, browser, begun, issued>>

Next ==
    \/ \E b \in Browsers :
          \/ \E a \in Attempts : Begin(b, a)
          \/ Refuse(b)
          \/ PasswordLogin(b)
          \/ Logout(b)
    \/ \E a \in Attempts : ReceiveRedirect(a)
    \/ \E c \in Calls :
          \/ \E b \in Browsers, a \in Attempts : Callback(c, b, a)
          \/ Complete(c) \/ Grant(c) \/ Deny(c)
          \/ ReceiveAnswer(c) \/ Disconnect(c)
    \/ Tick \/ Restart

Spec == Init /\ [][Next]_vars
-----------------------------------------------------------------------------
(* A login ends in at most one session, in the browser it was begun in,      *)
(* however many callbacks race with its state (oidc.go:137).                 *)
OwnLoginOnce ==
    /\ \A a \in Attempts : issued[a] <= 1
    /\ \A b \in Browsers :
          session[b] # None /\ session[b].by # "password" => begun[session[b].by] = b

(* Nobody is turned away for logins that have expired, and a login that has  *)
(* not is only ended by a callback of the browser it was begun in, or by a   *)
(* restart (oidc.go:122, oidc.go:141).                                       *)
PendingIsFair ==
    [][/\ \A b \in Browsers :
             Refuse(b) => Cardinality({a \in Attempts : Live(a)}) >= MaxAttempts
       /\ \A a \in Attempts :
             Live(a) /\ attempts'[a] = None
             => \/ Restart
                \/ \E c \in Calls : /\ call[c] # None /\ call[c].phase = "arrived"
                                    /\ call[c].state = a /\ call[c].browser = begun[a]]_vars

(* Within the length of a window, wherever it lies, an address gets fewer    *)
(* than twice what a window allows (ratelimit.go:47).                        *)
LimitHolds ==
    \A i \in Addresses : \A s \in 0..MaxTime :
        Cardinality({n \in DOMAIN passed[i] : passed[i][n] \in s..(s + Window)}) < 2 * MaxHits
=============================================================================
