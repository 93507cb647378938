---------------------------- MODULE LoginProofs -----------------------------
(***************************************************************************)
(* One session at most for each login, in the browser it was begun in, a   *)
(* table of attempts that is fair and bounded, and a limiter that keeps    *)
(* its limit in every stretch of time, for any number of browsers,         *)
(* attempts and callbacks at once and every limit.                         *)
(*                                                                         *)
(* Bound says whose a binding is, wherever it is kept; Spent says that an  *)
(* attempt is in the table, or with one callback at the provider, or spent *)
(* for good; Paced relates the times at which an address was let through   *)
(* to the one window the limiter remembers of it.                          *)
(***************************************************************************)
EXTENDS Login, FiniteSetTheorems, WellFoundedInduction, TLAPS

At(c, phase) == call[c] # None /\ call[c].phase = phase

Bound ==
    /\ \A b \in Browsers : cookie[b] # None => begun[cookie[b]] = b
    /\ \A c \in Calls :
          call[c] # None /\ call[c].binding # None
          => begun[call[c].binding] = call[c].browser
    /\ \A c \in Calls :
          At(c, "exchange") \/ At(c, "granted") => begun[call[c].state] = call[c].browser
    /\ \A b \in Browsers :
          session[b] # None /\ session[b].by # "password" => begun[session[b].by] = b

Spent ==
    /\ \A a \in Attempts : issued[a] <= 1
    /\ \A a \in Attempts :
          attempts[a] # None \/ begun[a] = None
          => issued[a] = 0 /\ \A c \in Calls : At(c, "exchange") => call[c].state # a
    /\ \A a \in Attempts : attempts[a] # None => begun[a] # None
    /\ \A c \in Calls : At(c, "exchange") => issued[call[c].state] = 0
    /\ \A c, d \in Calls :
          At(c, "exchange") /\ At(d, "exchange") /\ call[c].state = call[d].state => c = d
    /\ \A a \in redirects : begun[a] # None

(* At time t: the requests let through, in order, of which the last count    *)
(* are those of the window h, the first of them when it was opened.  Whoever *)
(* is MaxHits before them came before the window by more than its length,    *)
(* and of any 2 * MaxHits in a row the last came as long after the first.    *)
Paced(p, h, t) ==
    /\ h = None => p = << >>
    /\ \A k \in DOMAIN p : p[k] <= t
    /\ \A j, k \in DOMAIN p : j <= k => p[j] <= p[k]
    /\ h # None =>
          /\ h.count <= Len(p)
          /\ p[Len(p) - h.count + 1] + Window = h.reset
          /\ \A j \in 1..(Len(p) - h.count - MaxHits + 1) : p[j] + 2 * Window < h.reset
    /\ \A n \in DOMAIN p : n >= 2 * MaxHits => p[n] > p[n - 2 * MaxHits + 1] + Window

LimiterInv == \A i \in Addresses : Paced(passed[i], hits[i], now)

(* The table of attempts, and its limit.                                     *)
Table == {a \in Attempts : attempts[a] # None}

TableBounded == IsFiniteSet(Table) /\ Cardinality(Table) <= MaxAttempts

IInv == TypeOK /\ Bound /\ Spent /\ LimiterInv /\ TableBounded
-----------------------------------------------------------------------------
(* The earlier of two times is one of them.                                   *)
LEMMA UntilNat ==
    ASSUME LoginAssumption, now \in Nat, NEW deadline \in Nat
    PROVE  Until(deadline) \in Nat
<1>1. SessionTTL \in Nat /\ now + SessionTTL \in Nat
  BY DEF LoginAssumption
<1>. DEFINE S == {deadline, now + SessionTTL}
<1>2. \E x \in S : \A y \in S : x <= y
  BY <1>1
<1>3. Min(S) \in S
  BY <1>2 DEF Min
<1>. QED  BY <1>1, <1>3 DEF Until

(* What the limiter lets through keeps its types.                             *)
LEMMA AllowTypes ==
    ASSUME LoginAssumption, TypeOK, NEW i \in Addresses, Allow(i)
    PROVE  /\ hits' \in [Addresses -> [count : 1..MaxHits, reset : Nat] \cup {None}]
           /\ passed' \in [Addresses -> Seq(Nat)]
<1>1. NewWindow \in [count : 1..MaxHits, reset : Nat]
  BY DEF LoginAssumption, TypeOK, NewWindow
<1>2. hits' \in [Addresses -> [count : 1..MaxHits, reset : Nat] \cup {None}]
  <2>1. CASE hits' = [hits EXCEPT ![i] = NewWindow]
    BY <1>1, <2>1 DEF TypeOK
  <2>2. CASE /\ WindowOpen(i) /\ hits[i].count < MaxHits
             /\ hits' = [hits EXCEPT ![i].count = @ + 1]
    <3>1. hits[i] \in [count : 1..MaxHits, reset : Nat]
      BY <2>2 DEF WindowOpen, TypeOK
    <3>2. [hits[i] EXCEPT !.count = @ + 1] \in [count : 1..MaxHits, reset : Nat]
      BY <2>2, <3>1 DEF LoginAssumption
    <3>3. hits' = [hits EXCEPT ![i] = [hits[i] EXCEPT !.count = @ + 1]]
      BY <2>2
    <3>. QED  BY <3>2, <3>3 DEF TypeOK
  <2>. QED  BY <2>1, <2>2 DEF Allow
<1>3. passed' \in [Addresses -> Seq(Nat)]
  <2>1. passed[i] \in Seq(Nat) /\ now \in Nat
    BY DEF TypeOK, LoginAssumption
  <2>2. Append(passed[i], now) \in Seq(Nat)
    BY <2>1
  <2>. QED  BY <2>2 DEF Allow, TypeOK
<1>. QED  BY <1>2, <1>3

(* The table without what has expired.                                        *)
LEMMA PurgedTable ==
    ASSUME LoginAssumption, TypeOK
    PROVE  /\ Purged \in [Attempts -> Nat \cup {None}]
           /\ \A a \in Attempts : Purged[a] # None => attempts[a] # None
           /\ \A a \in Attempts : Live(a) => Purged[a] # None
           /\ Pending = {a \in Attempts : Live(a)}
BY DEF LoginAssumption, TypeOK, Purged, Pending, Live

-----------------------------------------------------------------------------
LEMMA InitInv == LoginAssumption /\ Init => IInv
<1>1. LoginAssumption /\ Init => TypeOK
  BY DEF LoginAssumption, Init, TypeOK
<1>2. LoginAssumption /\ Init => Bound /\ Spent
  BY DEF LoginAssumption, Init, Bound, Spent, At
<1>3. Init => LimiterInv
  BY DEF Init, LimiterInv, Paced
<1>4. LoginAssumption /\ Init => TableBounded
  <2>1. Init => Table = {}
    BY DEF Init, Table
  <2>. QED  BY <2>1, FS_EmptySet DEF TableBounded, LoginAssumption
<1>. QED  BY <1>1, <1>2, <1>3, <1>4 DEF IInv

(* A callback keeps its types from phase to phase.                            *)
LEMMA CallTypes ==
    ASSUME LoginAssumption, TypeOK, NEW c \in Calls, Complete(c) \/ Deny(c) \/ Grant(c)
    PROVE  call' \in [Calls -> Call \cup {None}]
<1>1. call[c] \in Call
  BY DEF TypeOK, Complete, Deny, Grant
<1>2. CASE Complete(c) \/ Deny(c)
  <2>1. PICK phase \in {"exchange", "failed"} :
          call' = [call EXCEPT ![c] = [call[c] EXCEPT !.phase = phase]]
    BY <1>2 DEF Complete, Consume, Deny
  <2>2. [call[c] EXCEPT !.phase = phase] \in Call
    BY <1>1 DEF Call
  <2>. QED  BY <2>1, <2>2 DEF TypeOK
<1>3. CASE Grant(c)
  <2>1. PICK deadline \in (now + 1)..(MaxTime + 1) :
          call' = [call EXCEPT ![c].phase = "granted", ![c].until = Until(deadline)]
    BY <1>3 DEF Grant
  <2>2. now \in Nat /\ deadline \in Nat
    BY DEF TypeOK, LoginAssumption
  <2>3. Until(deadline) \in Nat
    BY <2>2, UntilNat
  <2>. DEFINE until == Until(deadline)
  <2>4. call' = [call EXCEPT ![c] = [call[c] EXCEPT !.phase = "granted", !.until = until]]
    BY <2>1 DEF TypeOK
  <2>. HIDE DEF until
  <2>5. [call[c] EXCEPT !.phase = "granted", !.until = until] \in Call
    BY <1>1, <2>3 DEF Call, until
  <2>. QED  BY <2>4, <2>5 DEF TypeOK
<1>. QED  BY <1>2, <1>3

LEMMA TypeStep == ASSUME LoginAssumption, TypeOK, [Next]_vars PROVE TypeOK'
<1>1. ASSUME NEW b \in Browsers PROVE AddressOf[b] \in Addresses
  BY <1>1 DEF LoginAssumption
<1>2. ASSUME NEW b \in Browsers, NEW a \in Attempts, Begin(b, a) PROVE TypeOK'
  <2>1. /\ hits' \in [Addresses -> [count : 1..MaxHits, reset : Nat] \cup {None}]
        /\ passed' \in [Addresses -> Seq(Nat)]
    BY <1>1, <1>2, AllowTypes DEF Begin
  <2>2. now + AttemptTTL \in Nat
    BY DEF TypeOK, LoginAssumption
  <2>3. attempts' \in [Attempts -> Nat \cup {None}]
    BY <1>2, <2>2, PurgedTable DEF Begin
  <2>. QED  BY <1>2, <2>1, <2>3 DEF Begin, TypeOK
<1>3. ASSUME NEW b \in Browsers, Refuse(b) PROVE TypeOK'
  <2>1. /\ hits' \in [Addresses -> [count : 1..MaxHits, reset : Nat] \cup {None}]
        /\ passed' \in [Addresses -> Seq(Nat)]
    BY <1>1, <1>3, AllowTypes DEF Refuse
  <2>. QED  BY <1>3, <2>1, PurgedTable DEF Refuse, TypeOK
<1>4. ASSUME NEW b \in Browsers, PasswordLogin(b) PROVE TypeOK'
  <2>1. /\ hits' \in [Addresses -> [count : 1..MaxHits, reset : Nat] \cup {None}]
        /\ passed' \in [Addresses -> Seq(Nat)]
    BY <1>1, <1>4, AllowTypes DEF PasswordLogin
  <2>2. [until |-> now + SessionTTL, by |-> "password"] \in Session
    BY DEF TypeOK, LoginAssumption, Session
  <2>3. session' \in [Browsers -> Session \cup {None}]
    BY <1>4, <2>2 DEF PasswordLogin, TypeOK
  <2>. QED  BY <1>4, <2>1, <2>3 DEF PasswordLogin, TypeOK
<1>5. ASSUME NEW c \in Calls, NEW b \in Browsers, NEW a \in Attempts, Callback(c, b, a)
      PROVE  TypeOK'
  <2>1. /\ hits' \in [Addresses -> [count : 1..MaxHits, reset : Nat] \cup {None}]
        /\ passed' \in [Addresses -> Seq(Nat)]
    BY <1>1, <1>5, AllowTypes DEF Callback
  <2>2. call' \in [Calls -> Call \cup {None}]
    BY <1>5 DEF Callback, TypeOK, Call
  <2>. QED  BY <1>5, <2>1, <2>2 DEF Callback, TypeOK, browser
<1>6. ASSUME NEW c \in Calls, Complete(c) PROVE TypeOK'
  <2>1. attempts' \in [Attempts -> Nat \cup {None}]
    BY <1>6 DEF Complete, Consume, TypeOK
  <2>. QED  BY <1>6, <2>1, CallTypes DEF Complete, TypeOK, browser, history
<1>7. ASSUME NEW c \in Calls, Grant(c) PROVE TypeOK'
  <2>1. call[c].state \in Attempts
    BY <1>7 DEF Grant, TypeOK, Call
  <2>2. issued' \in [Attempts -> Nat]
    BY <1>7, <2>1 DEF Grant, TypeOK
  <2>. QED  BY <1>7, <2>2, CallTypes DEF Grant, TypeOK, browser
<1>8. ASSUME NEW c \in Calls, Deny(c) PROVE TypeOK'
  BY <1>8, CallTypes DEF Deny, TypeOK, browser, history
<1>9. ASSUME NEW c \in Calls, ReceiveAnswer(c) PROVE TypeOK'
  <2>1. call[c] \in Call
    BY <1>9 DEF ReceiveAnswer, TypeOK
  <2>2. call[c].phase = "granted" =>
          [until |-> call[c].until, by |-> call[c].state] \in Session
    BY <2>1 DEF Call, Session
  <2>3. session' \in [Browsers -> Session \cup {None}]
    BY <1>9, <2>2 DEF ReceiveAnswer, TypeOK
  <2>. QED  BY <1>9, <2>3 DEF ReceiveAnswer, TypeOK, history
<1>10. ASSUME NEW c \in Calls, Disconnect(c) PROVE TypeOK'
  BY <1>10 DEF Disconnect, TypeOK, browser, history
<1>11. ASSUME NEW b \in Browsers, Logout(b) PROVE TypeOK'
  BY <1>11 DEF Logout, TypeOK, server, history
<1>12. ASSUME NEW a \in Attempts, ReceiveRedirect(a) PROVE TypeOK'
  BY <1>12 DEF ReceiveRedirect, TypeOK, server, history
<1>13. ASSUME Tick PROVE TypeOK'
  BY <1>13 DEF Tick, TypeOK, server, browser, history, LoginAssumption
<1>14. ASSUME Restart PROVE TypeOK'
  BY <1>14 DEF Restart, TypeOK, browser
<1>15. CASE UNCHANGED vars
  BY <1>15 DEF vars, TypeOK, server, browser, history
<1>. QED
  BY <1>2, <1>3, <1>4, <1>5, <1>6, <1>7, <1>8, <1>9, <1>10, <1>11, <1>12, <1>13, <1>14, <1>15
     DEF Next

-----------------------------------------------------------------------------
(* A binding, a call past the table and a session all belong to the browser   *)
(* the attempt was begun in.                                                  *)
LEMMA BoundStep == ASSUME LoginAssumption, IInv, [Next]_vars PROVE Bound'
<1>. USE DEF IInv
<1>1. ASSUME NEW b \in Browsers, NEW a \in Attempts, Begin(b, a) PROVE Bound'
  <2>1. \A x \in Attempts : begun[x] # None => begun'[x] = begun[x]
    BY <1>1 DEF Begin, TypeOK
  <2>2. None \notin Browsers /\ "password" \notin Attempts
    BY DEF LoginAssumption
  <2>3. /\ \A c \in Calls : call[c] # None => call[c] \in Call
        /\ \A x \in Browsers : session[x] # None => session[x] \in Session
    BY DEF TypeOK
  <2>. QED  BY <1>1, <2>1, <2>2, <2>3 DEF Begin, TypeOK, Bound, At, Call, Session
<1>2. ASSUME NEW b \in Browsers, Refuse(b) PROVE Bound'
  BY <1>2 DEF Refuse, Bound, At
<1>3. ASSUME NEW b \in Browsers, PasswordLogin(b) PROVE Bound'
  <2>1. UNCHANGED call /\ UNCHANGED cookie /\ UNCHANGED begun
    BY <1>3 DEF PasswordLogin
  <2>2. \A x \in Browsers : session'[x] = session[x] \/ session'[x].by = "password"
    BY <1>3 DEF PasswordLogin, TypeOK
  <2>. QED  BY <2>1, <2>2 DEF Bound, At
<1>4. ASSUME NEW c \in Calls, NEW b \in Browsers, NEW a \in Attempts, Callback(c, b, a)
      PROVE  Bound'
  BY <1>4 DEF Callback, Bound, At, browser, TypeOK
<1>5. ASSUME NEW c \in Calls, Complete(c) PROVE Bound'
  <2>1. call[c] \in Call
    BY <1>5 DEF Complete, TypeOK
  <2>2. PICK phase \in {"exchange", "failed"} :
          /\ call' = [call EXCEPT ![c] = [call[c] EXCEPT !.phase = phase]]
          /\ phase = "exchange" => call[c].binding = call[c].state
    BY <1>5 DEF Complete, Consume
  <2>3. call[c].binding = call[c].state => begun[call[c].state] = call[c].browser
    BY <1>5, <2>1 DEF Complete, Bound, Call, LoginAssumption
  <2>. QED  BY <1>5, <2>1, <2>2, <2>3 DEF Complete, Bound, At, Call, browser, history, TypeOK
<1>6. ASSUME NEW c \in Calls, Grant(c) PROVE Bound'
  <2>1. call[c] \in Call
    BY <1>6 DEF Grant, TypeOK
  <2>2. PICK until :
          call' = [call EXCEPT ![c] = [call[c] EXCEPT !.phase = "granted", !.until = until]]
    BY <1>6 DEF Grant, TypeOK
  <2>. QED  BY <1>6, <2>1, <2>2 DEF Grant, Bound, At, Call, browser, TypeOK
<1>7. ASSUME NEW c \in Calls, Deny(c) PROVE Bound'
  BY <1>7 DEF Deny, Bound, At, browser, history, TypeOK, Call
<1>8. ASSUME NEW c \in Calls, ReceiveAnswer(c) PROVE Bound'
  <2>1. call[c] \in Call /\ "password" \notin Attempts
    BY <1>8 DEF ReceiveAnswer, TypeOK, LoginAssumption
  <2>2. call[c].phase = "granted" => begun[call[c].state] = call[c].browser
    BY <1>8 DEF ReceiveAnswer, Bound, At
  <2>. QED  BY <1>8, <2>1, <2>2 DEF ReceiveAnswer, Bound, At, Call, history, TypeOK
<1>9. ASSUME NEW c \in Calls, Disconnect(c) PROVE Bound'
  BY <1>9 DEF Disconnect, Bound, At, browser, history, TypeOK
<1>10. ASSUME NEW b \in Browsers, Logout(b) PROVE Bound'
  BY <1>10 DEF Logout, Bound, At, server, history, TypeOK
<1>11. ASSUME NEW a \in Attempts, ReceiveRedirect(a) PROVE Bound'
  BY <1>11 DEF ReceiveRedirect, Bound, At, server, history, TypeOK
<1>12. ASSUME Tick PROVE Bound'
  BY <1>12 DEF Tick, Bound, At, server, browser, history
<1>13. ASSUME Restart PROVE Bound'
  BY <1>13 DEF Restart, Bound, At, browser
<1>14. CASE UNCHANGED vars
  BY <1>14 DEF vars, Bound, At, server, browser, history
<1>. QED
  BY <1>1, <1>2, <1>3, <1>4, <1>5, <1>6, <1>7, <1>8, <1>9, <1>10, <1>11, <1>12, <1>13, <1>14
     DEF Next

(* An attempt leaves the table for at most one callback, and for good.        *)
LEMMA SpentStep == ASSUME LoginAssumption, IInv, [Next]_vars PROVE Spent'
<1>. USE DEF IInv
<1>1. ASSUME NEW b \in Browsers, NEW a \in Attempts, Begin(b, a) PROVE Spent'
  <2>1. \A x \in Attempts : attempts'[x] # None => attempts[x] # None \/ x = a
    BY <1>1, PurgedTable DEF Begin
  <2>2. /\ begun[a] = None /\ None \notin Browsers
        /\ begun' = [begun EXCEPT ![a] = b] /\ redirects' = redirects \cup {a}
        /\ UNCHANGED call /\ UNCHANGED issued
    BY <1>1 DEF Begin, LoginAssumption
  <2>. QED  BY <2>1, <2>2 DEF TypeOK, Spent, At
<1>2. ASSUME NEW b \in Browsers, Refuse(b) PROVE Spent'
  <2>1. \A x \in Attempts : attempts'[x] # None => attempts[x] # None
    BY <1>2, PurgedTable DEF Refuse
  <2>. QED  BY <1>2, <2>1 DEF Refuse, Spent, At
<1>3. ASSUME NEW b \in Browsers, PasswordLogin(b) PROVE Spent'
  BY <1>3 DEF PasswordLogin, Spent, At
<1>4. ASSUME NEW c \in Calls, NEW b \in Browsers, NEW a \in Attempts, Callback(c, b, a)
      PROVE  Spent'
  <2>1. call'[c].phase # "exchange" /\ \A d \in Calls \ {c} : call'[d] = call[d]
    BY <1>4 DEF Callback, TypeOK
  <2>2. UNCHANGED attempts /\ UNCHANGED begun /\ UNCHANGED issued /\ UNCHANGED redirects
    BY <1>4 DEF Callback, browser
  <2>. QED  BY <2>1, <2>2 DEF Spent, At
<1>5. ASSUME NEW c \in Calls, Complete(c) PROVE Spent'
  <2>. DEFINE a == call[c].state
  <2>1. call[c] \in Call /\ a \in Attempts /\ ~ At(c, "exchange")
    BY <1>5 DEF Complete, TypeOK, Call, At
  <2>2. PICK phase \in {"exchange", "failed"} :
          /\ call' = [call EXCEPT ![c] = [call[c] EXCEPT !.phase = phase]]
          /\ phase = "exchange" => attempts[a] # None /\ attempts'[a] = None
    BY <1>5, <2>1 DEF Complete, Consume, Live, TypeOK
  <2>3. \A x \in Attempts : attempts'[x] # None => attempts[x] # None
    BY <1>5 DEF Complete, Consume, TypeOK
  <2>4. UNCHANGED begun /\ UNCHANGED issued /\ UNCHANGED redirects
    BY <1>5 DEF Complete, browser, history
  <2>5. \A d \in Calls :
          At(d, "exchange")'
          => \/ At(d, "exchange") /\ call'[d] = call[d]
             \/ d = c /\ phase = "exchange"
    <3>1. call'[c].phase = phase
      BY <2>1, <2>2 DEF Call, TypeOK
    <3>2. \A d \in Calls \ {c} : call'[d] = call[d]
      BY <2>2 DEF TypeOK
    <3>3. ASSUME NEW d \in Calls, At(d, "exchange")', d # c
          PROVE  At(d, "exchange") /\ call'[d] = call[d]
      BY <3>2, <3>3 DEF At
    <3>4. ASSUME NEW d \in Calls, At(d, "exchange")', d = c
          PROVE  phase = "exchange"
      BY <3>1, <3>4 DEF At
    <3>. QED  BY <3>3, <3>4
  <2>6. call'[c].state = a
    BY <2>1, <2>2 DEF Call, TypeOK
  <2>. QED  BY <2>1, <2>2, <2>3, <2>4, <2>5, <2>6 DEF Spent
<1>6. ASSUME NEW c \in Calls, Grant(c) PROVE Spent'
  <2>. DEFINE a == call[c].state
  <2>1. call[c] \in Call /\ a \in Attempts /\ At(c, "exchange")
    BY <1>6 DEF Grant, TypeOK, Call, At
  <2>2. \A d \in Calls : At(d, "exchange")' => d # c /\ At(d, "exchange") /\ call'[d] = call[d]
    BY <1>6 DEF Grant, At, TypeOK, Call
  <2>3. issued[a] = 0 /\ issued' = [issued EXCEPT ![a] = @ + 1]
    BY <1>6, <2>1 DEF Grant, Spent
  <2>4. UNCHANGED attempts /\ UNCHANGED begun /\ UNCHANGED redirects
    BY <1>6 DEF Grant, browser
  <2>5. issued'[a] = 1 /\ \A x \in Attempts \ {a} : issued'[x] = issued[x]
    BY <2>1, <2>3 DEF TypeOK
  <2>6. attempts[a] = None /\ begun[a] # None
    BY <2>1 DEF Spent
  <2>7. \A d \in Calls : At(d, "exchange")' => call[d].state # a /\ call[d].state \in Attempts
    BY <2>1, <2>2 DEF Spent, At, TypeOK, Call
  <2>. QED  BY <2>1, <2>2, <2>4, <2>5, <2>6, <2>7 DEF Spent
<1>7. ASSUME NEW c \in Calls, Deny(c) \/ ReceiveAnswer(c) \/ Disconnect(c) PROVE Spent'
  <2>1. \A d \in Calls : At(d, "exchange")' => At(d, "exchange") /\ call'[d] = call[d]
    BY <1>7 DEF Deny, ReceiveAnswer, Disconnect, At, TypeOK, Call
  <2>2. UNCHANGED attempts /\ UNCHANGED begun /\ UNCHANGED issued /\ UNCHANGED redirects
    BY <1>7 DEF Deny, ReceiveAnswer, Disconnect, browser, history
  <2>. QED  BY <2>1, <2>2 DEF Spent
<1>8. ASSUME NEW b \in Browsers, Logout(b) PROVE Spent'
  BY <1>8 DEF Logout, Spent, At, server, history
<1>9. ASSUME NEW a \in Attempts, ReceiveRedirect(a) PROVE Spent'
  BY <1>9 DEF ReceiveRedirect, Spent, At, server, history
<1>10. ASSUME Tick PROVE Spent'
  BY <1>10 DEF Tick, Spent, At, server, browser, history
<1>11. ASSUME Restart PROVE Spent'
  BY <1>11 DEF Restart, Spent, At, browser
<1>12. CASE UNCHANGED vars
  BY <1>12 DEF vars, Spent, At, server, browser, history
<1>. QED
  BY <1>1, <1>2, <1>3, <1>4, <1>5, <1>6, <1>7, <1>8, <1>9, <1>10, <1>11, <1>12 DEF Next

-----------------------------------------------------------------------------
(* The limiter. *)

(* A request that is let through is the last, and leaves the others alone.    *)
LEMMA AppendTimes ==
    ASSUME NEW p \in Seq(Nat), NEW t \in Nat
    PROVE  /\ Append(p, t) \in Seq(Nat)
           /\ Len(Append(p, t)) = Len(p) + 1
           /\ DOMAIN Append(p, t) = 1..(Len(p) + 1) /\ DOMAIN p = 1..Len(p)
           /\ Append(p, t)[Len(p) + 1] = t
           /\ \A k \in 1..Len(p) : Append(p, t)[k] = p[k]
OBVIOUS

(* A length of time added to an earlier instant ends earlier.                 *)
LEMMA EarlierEnds ==
    ASSUME NEW x \in Nat, NEW y \in Nat, NEW w \in Nat, x <= y
    PROVE  x + w <= y + w
OBVIOUS

(* A window is opened by the first request after the one before.              *)
LEMMA OpenPaced ==
    ASSUME LoginAssumption, NEW p \in Seq(Nat), NEW t \in Nat,
           NEW h \in [count : 1..MaxHits, reset : Nat] \cup {None},
           Paced(p, h, t), h # None => t > h.reset
    PROVE  Paced(Append(p, t), [count |-> 1, reset |-> t + Window], t)
<1>. DEFINE q == Append(p, t)
            L == Len(p)
            w == [count |-> 1, reset |-> t + Window]
<1>1. MaxHits \in Nat \ {0} /\ Window \in Nat \ {0} /\ L \in Nat /\ t \in Nat
  BY DEF LoginAssumption
<1>2. /\ DOMAIN p = 1..L /\ DOMAIN q = 1..(L + 1) /\ Len(q) = L + 1
      /\ q[L + 1] = t /\ \A k \in 1..L : q[k] = p[k] /\ p[k] \in Nat
  BY AppendTimes
<1>3. w # None /\ w.count = 1 /\ w.reset = t + Window
  <2>1. w \in [count : Nat, reset : Nat]
    BY <1>1
  <2>. QED  BY <2>1 DEF LoginAssumption
<1>. HIDE DEF q, L, w
<1>4. \A k \in 1..L : p[k] <= t
  BY <1>2 DEF Paced
<1>5. \A j, k \in 1..L : j <= k => p[j] <= p[k]
  BY <1>2 DEF Paced
<1>6. \A n \in 1..L : n >= 2 * MaxHits => p[n] > p[n - 2 * MaxHits + 1] + Window
  BY <1>2 DEF Paced
<1>7. ASSUME NEW j \in 1..(L - MaxHits + 1) PROVE p[j] + Window < t
  <2>1. p # << >>
    BY <1>1, <1>7 DEF L
  <2>2. h # None
    BY <2>1 DEF Paced
  <2>3. PICK c \in 1..MaxHits, r \in Nat : c = h.count /\ r = h.reset /\ t > r
    BY <2>2
  <2>4. c <= L /\ p[L - c + 1] + Window = r
    BY <2>2, <2>3 DEF Paced, L
  <2>5. L - c + 1 \in 1..L /\ j \in 1..L /\ j <= L - c + 1
    BY <1>1, <1>7, <2>4
  <2>6. p[j] <= p[L - c + 1]
    BY <1>5, <2>5
  <2>7. p[j] \in Nat /\ p[L - c + 1] \in Nat
    BY <1>2, <2>5
  <2>8. p[j] + Window <= r
    <3>1. p[j] + Window <= p[L - c + 1] + Window
      BY <1>1, <2>6, <2>7, EarlierEnds
    <3>. QED  BY ONLY <2>4, <3>1
  <2>. QED  BY ONLY <1>1, <2>3, <2>7, <2>8
<1>8. \A k \in DOMAIN q : q[k] <= t
  BY <1>1, <1>2, <1>4
<1>9. \A j, k \in DOMAIN q : j <= k => q[j] <= q[k]
  BY <1>1, <1>2, <1>4, <1>5
<1>10. ASSUME NEW n \in DOMAIN q, n >= 2 * MaxHits
       PROVE  q[n] > q[n - 2 * MaxHits + 1] + Window
  <2>. DEFINE j == n - 2 * MaxHits + 1
  <2>1. CASE n = L + 1
    <3>1. j \in 1..(L - MaxHits + 1) /\ j \in 1..L
      BY <1>1, <1>10, <2>1
    <3>. QED  BY <1>1, <1>2, <1>7, <2>1, <3>1
  <2>2. CASE n \in 1..L
    <3>1. j \in 1..L
      BY <1>1, <1>10, <2>2
    <3>. QED  BY <1>2, <1>6, <1>10, <2>2, <3>1
  <2>. QED  BY <1>1, <1>2, <2>1, <2>2
<1>11. ASSUME NEW j \in 1..(Len(q) - w.count - MaxHits + 1)
       PROVE  q[j] + 2 * Window < w.reset
  <2>1. j \in 1..(L - MaxHits + 1) /\ j \in 1..L
    BY <1>1, <1>2, <1>3, <1>11
  <2>. QED  BY <1>1, <1>2, <1>3, <1>7, <2>1
<1>12. w.count <= Len(q) /\ q[Len(q) - w.count + 1] + Window = w.reset
  BY <1>1, <1>2, <1>3
<1>13. Paced(q, w, t)
  BY <1>3, <1>8, <1>9, <1>10, <1>11, <1>12 DEF Paced
<1>. QED  BY <1>13 DEF q, w

(* The requests after it are let through until the window is full.            *)
LEMMA CountPaced ==
    ASSUME LoginAssumption, NEW p \in Seq(Nat), NEW t \in Nat,
           NEW h \in [count : 1..MaxHits, reset : Nat],
           Paced(p, h, t), h.count < MaxHits, t <= h.reset
    PROVE  Paced(Append(p, t), [h EXCEPT !.count = @ + 1], t)
<1>. DEFINE q == Append(p, t)
            L == Len(p)
            w == [h EXCEPT !.count = @ + 1]
<1>1. MaxHits \in Nat \ {0} /\ Window \in Nat \ {0} /\ L \in Nat /\ t \in Nat
  BY DEF LoginAssumption
<1>2. /\ DOMAIN p = 1..L /\ DOMAIN q = 1..(L + 1) /\ Len(q) = L + 1
      /\ q[L + 1] = t /\ \A k \in 1..L : q[k] = p[k] /\ p[k] \in Nat
  BY AppendTimes
<1>3. h # None /\ h.count \in 1..MaxHits /\ h.reset \in Nat
  <2>1. h \in [count : Nat, reset : Nat]
    BY <1>1
  <2>. QED  BY <2>1 DEF LoginAssumption
<1>4. w # None /\ w.count = h.count + 1 /\ w.reset = h.reset
  <2>1. w \in [count : Nat, reset : Nat]
    BY <1>1, <1>3
  <2>. QED  BY <2>1, <1>3 DEF LoginAssumption
<1>. HIDE DEF q, L, w
<1>5. \A k \in 1..L : p[k] <= t
  BY <1>2 DEF Paced
<1>6. \A j, k \in 1..L : j <= k => p[j] <= p[k]
  BY <1>2 DEF Paced
<1>7. \A n \in 1..L : n >= 2 * MaxHits => p[n] > p[n - 2 * MaxHits + 1] + Window
  BY <1>2 DEF Paced
<1>0. PICK c \in 1..MaxHits, r \in Nat : c = h.count /\ r = h.reset /\ c < MaxHits
  BY <1>3
<1>8. c <= L /\ p[L - c + 1] + Window = r
  BY <1>0, <1>3 DEF Paced, L
<1>9. \A j \in 1..(L - c - MaxHits + 1) : p[j] + 2 * Window < r
  BY <1>0, <1>3 DEF Paced, L
<1>10. L - c + 1 \in 1..L /\ r <= t + Window /\ c < MaxHits
  <2>1. L - c + 1 \in 1..L
    BY ONLY <1>0, <1>1, <1>8
  <2>2. p[L - c + 1] \in Nat /\ p[L - c + 1] <= t
    BY <1>2, <1>5, <2>1
  <2>3. p[L - c + 1] + Window <= t + Window
    BY <1>1, <2>2, EarlierEnds
  <2>4. r <= t + Window
    BY ONLY <1>8, <2>3
  <2>. QED  BY ONLY <1>0, <2>1, <2>4
<1>11. \A k \in DOMAIN q : q[k] <= t
  BY ONLY <1>1, <1>2, <1>5
<1>12. \A j, k \in DOMAIN q : j <= k => q[j] <= q[k]
  BY ONLY <1>1, <1>2, <1>5, <1>6
<1>13. ASSUME NEW n \in DOMAIN q, n >= 2 * MaxHits
       PROVE  q[n] > q[n - 2 * MaxHits + 1] + Window
  <2>. DEFINE j == n - 2 * MaxHits + 1
  <2>1. CASE n = L + 1
    <3>1. j \in 1..(L - c - MaxHits + 1) /\ j \in 1..L
      BY ONLY <1>0, <1>1, <1>10, <1>13, <2>1
    <3>2. p[j] + 2 * Window < r /\ p[j] \in Nat
      BY ONLY <1>2, <1>9, <3>1
    <3>3. q[n] = t /\ q[j] = p[j]
      BY ONLY <1>2, <2>1, <3>1
    <3>4. Window \in Nat /\ t \in Nat /\ r \in Nat /\ r <= t + Window
      BY ONLY <1>0, <1>1, <1>10
    <3>5. p[j] + Window < t
      BY ONLY <3>2, <3>4
    <3>. QED  BY ONLY <3>3, <3>5
  <2>2. CASE n \in 1..L
    <3>1. j \in 1..L
      BY ONLY <1>1, <1>13, <2>2
    <3>. QED  BY ONLY <1>2, <1>7, <1>13, <2>2, <3>1
  <2>. QED  BY ONLY <1>1, <1>2, <1>13, <2>1, <2>2
<1>14. ASSUME NEW j \in 1..(Len(q) - w.count - MaxHits + 1)
       PROVE  q[j] + 2 * Window < w.reset
  <2>1. j \in 1..(L - c - MaxHits + 1) /\ j \in 1..L
    BY ONLY <1>0, <1>1, <1>2, <1>4, <1>14
  <2>. QED  BY ONLY <1>0, <1>2, <1>4, <1>9, <2>1
<1>15. w.count <= Len(q) /\ q[Len(q) - w.count + 1] + Window = w.reset
  <2>1. w.count = c + 1 /\ w.reset = r /\ Len(q) - w.count + 1 = L - c + 1
    BY ONLY <1>0, <1>1, <1>2, <1>4
  <2>2. q[L - c + 1] = p[L - c + 1]
    BY ONLY <1>2, <1>10
  <2>3. w.count <= Len(q)
    BY ONLY <1>0, <1>1, <1>2, <1>8, <2>1
  <2>. QED  BY ONLY <1>8, <2>1, <2>2, <2>3
<1>16. Paced(q, w, t)
  BY <1>4, <1>11, <1>12, <1>13, <1>14, <1>15 DEF Paced
<1>. QED  BY <1>16 DEF q, w

(* Nothing but a request changes the pace, and time only passes.              *)
LEMMA LimiterStep ==
    ASSUME LoginAssumption, IInv, [Next]_vars
    PROVE  LimiterInv'
<1>. USE DEF IInv
<1>1. now \in Nat /\ None \notin Nat
  BY DEF TypeOK, LoginAssumption
<1>2. \A i \in Addresses :
         /\ passed[i] \in Seq(Nat)
         /\ hits[i] \in [count : 1..MaxHits, reset : Nat] \cup {None}
         /\ Paced(passed[i], hits[i], now)
  BY DEF TypeOK, LimiterInv
<1>3. ASSUME NEW i \in Addresses, Allow(i), UNCHANGED now PROVE LimiterInv'
  <2>1. Paced(Append(passed[i], now), hits'[i], now)
    <3>1. CASE ~ WindowOpen(i) /\ hits' = [hits EXCEPT ![i] = NewWindow]
      <4>1. hits[i] # None => now > hits[i].reset
        BY <1>1, <1>2, <3>1 DEF WindowOpen
      <4>2. hits'[i] = [count |-> 1, reset |-> now + Window]
        BY <3>1 DEF TypeOK, NewWindow
      <4>. QED  BY <1>1, <1>2, <4>1, <4>2, OpenPaced
    <3>2. CASE /\ WindowOpen(i) /\ hits[i].count < MaxHits
               /\ hits' = [hits EXCEPT ![i].count = @ + 1]
      <4>1. hits[i] \in [count : 1..MaxHits, reset : Nat] /\ now <= hits[i].reset
        BY <1>2, <3>2 DEF WindowOpen
      <4>2. hits'[i] = [hits[i] EXCEPT !.count = @ + 1]
        BY <3>2 DEF TypeOK
      <4>3. passed[i] \in Seq(Nat) /\ Paced(passed[i], hits[i], now) /\ hits[i].count < MaxHits
        BY <1>2, <3>2
      <4>4. Paced(Append(passed[i], now), [hits[i] EXCEPT !.count = @ + 1], now)
        BY ONLY LoginAssumption, <1>1, <4>1, <4>3, CountPaced
      <4>. QED  BY ONLY <4>2, <4>4
    <3>. QED  BY <1>3, <3>1, <3>2 DEF Allow
  <2>2. passed'[i] = Append(passed[i], now)
    BY <1>3 DEF Allow, TypeOK
  <2>3. \A x \in Addresses \ {i} : hits'[x] = hits[x] /\ passed'[x] = passed[x]
    BY <1>3 DEF Allow, TypeOK
  <2>. QED  BY ONLY <1>2, <1>3, <2>1, <2>2, <2>3 DEF LimiterInv
<1>4. CASE UNCHANGED <<now, hits, passed>>
  BY ONLY <1>2, <1>4 DEF LimiterInv
<1>5. ASSUME Tick PROVE LimiterInv'
  <2>1. UNCHANGED hits /\ UNCHANGED passed /\ now' = now + 1
    BY <1>5 DEF Tick, server, history
  <2>2. ASSUME NEW p \in Seq(Nat), NEW h, Paced(p, h, now) PROVE Paced(p, h, now + 1)
    <3>1. \A k \in DOMAIN p : p[k] \in Nat /\ p[k] <= now
      BY <2>2 DEF Paced
    <3>2. \A k \in DOMAIN p : p[k] <= now + 1
      BY ONLY <1>1, <3>1
    <3>. QED  BY ONLY <2>2, <3>2 DEF Paced
  <2>. QED  BY ONLY <1>2, <2>1, <2>2 DEF LimiterInv
<1>6. ASSUME Restart PROVE LimiterInv'
  <2>1. \A i \in Addresses : hits'[i] = None /\ passed'[i] = << >>
    BY <1>6 DEF Restart
  <2>2. Paced(<< >>, None, now')
    BY DEF Paced
  <2>. QED  BY ONLY <2>1, <2>2 DEF LimiterInv
<1>7. \A b \in Browsers : AddressOf[b] \in Addresses
  BY DEF LoginAssumption
<1>. QED
  BY <1>3, <1>4, <1>5, <1>6, <1>7
     DEF Next, vars, Begin, Refuse, PasswordLogin, Callback, Logout, ReceiveRedirect, Complete,
         Grant, Deny, ReceiveAnswer, Disconnect, server, browser, history

(* Only a login that begins adds to the table, when there is room for it.     *)
LEMMA TableStep ==
    ASSUME LoginAssumption, IInv, [Next]_vars
    PROVE  TableBounded'
<1>. USE DEF IInv
<1>1. IsFiniteSet(Table) /\ Cardinality(Table) \in Nat /\ Cardinality(Table) <= MaxAttempts
  BY FS_CardinalityType DEF TableBounded
<1>2. MaxAttempts \in Nat
  BY DEF LoginAssumption
<1>3. ASSUME Table' \subseteq Table PROVE TableBounded'
  <2>1. IsFiniteSet(Table') /\ Cardinality(Table') <= Cardinality(Table)
    BY <1>1, <1>3, FS_Subset
  <2>2. Cardinality(Table') \in Nat
    BY <2>1, FS_CardinalityType
  <2>. QED  BY <1>1, <1>2, <2>1, <2>2 DEF TableBounded
<1>4. ASSUME NEW b \in Browsers, NEW a \in Attempts, Begin(b, a) PROVE TableBounded'
  <2>1. Pending \subseteq Table
    BY PurgedTable DEF Pending, Table
  <2>2. IsFiniteSet(Pending) /\ Cardinality(Pending) \in Nat
    BY <1>1, <2>1, FS_Subset, FS_CardinalityType
  <2>3. /\ IsFiniteSet(Pending \cup {a})
        /\ Cardinality(Pending \cup {a}) <= Cardinality(Pending) + 1
    <3>1. Cardinality(Pending \cup {a}) =
            IF a \in Pending THEN Cardinality(Pending) ELSE Cardinality(Pending) + 1
      BY <2>2, FS_AddElement, Zenon
    <3>2. IsFiniteSet(Pending \cup {a})
      BY <2>2, FS_AddElement
    <3>. QED  BY <2>2, <3>1, <3>2
  <2>4. Cardinality(Pending) + 1 <= MaxAttempts
    BY <1>2, <1>4, <2>2 DEF Begin
  <2>5. Table' = Pending \cup {a}
    <3>1. now + AttemptTTL # None
      BY DEF TypeOK, LoginAssumption
    <3>. QED  BY <1>4, <3>1, PurgedTable DEF Begin, Table, Pending
  <2>6. Cardinality(Pending \cup {a}) \in Nat
    BY <2>3, FS_CardinalityType
  <2>. QED  BY <1>2, <2>2, <2>3, <2>4, <2>5, <2>6 DEF TableBounded
<1>5. ASSUME NEW b \in Browsers, Refuse(b) PROVE TableBounded'
  BY <1>3, <1>5, PurgedTable DEF Refuse, Table
<1>6. ASSUME NEW c \in Calls, Complete(c) PROVE TableBounded'
  BY <1>3, <1>6 DEF Complete, Consume, Table, TypeOK
<1>7. ASSUME Restart PROVE TableBounded'
  BY <1>3, <1>7 DEF Restart, Table
<1>8. ASSUME UNCHANGED attempts PROVE TableBounded'
  BY <1>3, <1>8 DEF Table
<1>. QED
  BY <1>4, <1>5, <1>6, <1>7, <1>8
     DEF Next, vars, PasswordLogin, Callback, Logout, ReceiveRedirect, Grant, Deny,
         ReceiveAnswer, Disconnect, Tick, server

-----------------------------------------------------------------------------
LEMMA Invariance == Spec => []IInv
<1>1. IInv /\ [Next]_vars => IInv'
  BY TypeStep, BoundStep, SpentStep, LimiterStep, TableStep, LoginAssumption DEF IInv
<1>. QED  BY <1>1, InitInv, LoginAssumption, PTL DEF Spec

(* The types of the logins.                                                   *)
THEOREM LoginTypeCorrect == Spec => []TypeOK
BY Invariance, PTL DEF IInv

(* Whatever callbacks race, an attempt is worth one session, to its browser.  *)
THEOREM LoginOnceAtHome == Spec => []OwnLoginOnce
<1>1. IInv => OwnLoginOnce
  BY DEF IInv, Bound, Spent, OwnLoginOnce
<1>. QED  BY <1>1, Invariance, PTL

(* Who is turned away and which attempts end, at every step.                  *)
THEOREM PendingAlwaysFair == Spec => PendingIsFair
<1>1. ASSUME IInv, Next
      PROVE  /\ \A b \in Browsers :
                   Refuse(b) => Cardinality({a \in Attempts : Live(a)}) >= MaxAttempts
             /\ \A a \in Attempts :
                   Live(a) /\ attempts'[a] = None
                   => \/ Restart
                      \/ \E c \in Calls : /\ call[c] # None /\ call[c].phase = "arrived"
                                          /\ call[c].state = a /\ call[c].browser = begun[a]
  <2>1. ASSUME NEW b \in Browsers, Refuse(b)
        PROVE  Cardinality({a \in Attempts : Live(a)}) >= MaxAttempts
    BY <1>1, <2>1, PurgedTable, LoginAssumption DEF Refuse, IInv
  <2>2. ASSUME NEW a \in Attempts, Live(a), attempts'[a] = None, ~ Restart
        PROVE  \E c \in Calls : /\ call[c] # None /\ call[c].phase = "arrived"
                                /\ call[c].state = a /\ call[c].browser = begun[a]
    <3>1. ASSUME NEW b \in Browsers, NEW x \in Attempts, Begin(b, x) PROVE FALSE
      <4>1. now + AttemptTTL # None /\ Purged[a] # None /\ Purged \in [Attempts -> Nat \cup {None}]
        <5>1. now + AttemptTTL \in Nat
          BY <1>1, LoginAssumption DEF IInv, TypeOK, LoginAssumption
        <5>2. None \notin Nat
          BY LoginAssumption DEF LoginAssumption
        <5>. QED  BY <1>1, <2>2, <5>1, <5>2, PurgedTable, LoginAssumption DEF IInv
      <4>. QED  BY <2>2, <3>1, <4>1 DEF Begin
    <3>2. ASSUME NEW b \in Browsers, Refuse(b) PROVE FALSE
      BY <1>1, <2>2, <3>2, PurgedTable, LoginAssumption DEF IInv, Refuse
    <3>3. attempts[a] # None
      BY <2>2 DEF Live
    <3>4. attempts' = attempts => FALSE
      BY <2>2, <3>3
    <3>5. PICK c \in Calls : Complete(c)
      BY <1>1, <2>2, <3>1, <3>2, <3>4
         DEF Next, PasswordLogin, Logout, ReceiveRedirect, Callback, Grant, Deny,
             ReceiveAnswer, Disconnect, Tick, server
    <3>6. call[c].state = a /\ call[c].binding = a /\ call[c] # None /\ call[c].phase = "arrived"
      BY <1>1, <2>2, <3>3, <3>5 DEF Complete, Consume, IInv, TypeOK
    <3>7. call[c].browser = begun[a]
      BY <1>1, <3>6, LoginAssumption DEF IInv, Bound, LoginAssumption
    <3>. QED  BY <3>6, <3>7
  <2>. QED  BY <2>1, <2>2
<1>. QED  BY <1>1, Invariance, PTL DEF Spec, PendingIsFair
-----------------------------------------------------------------------------
(* A set of numbers has a least one.                                          *)
LEMMA Least ==
    ASSUME NEW T \in SUBSET Nat, T # {}
    PROVE  \E m \in T : \A n \in T : m <= n
<1>. DEFINE R == OpToRel(<, Nat)
<1>1. \A m, n \in T : n < m => <<n, m>> \in R
  BY DEF OpToRel
<1>2. \E m \in T : \A n \in T : ~ (<<n, m>> \in R)
  BY NatLessThanWellFounded, WFMin, Zenon
<1>. HIDE DEF R
<1>3. PICK m \in T : \A n \in T : ~ (<<n, m>> \in R)
  BY <1>2
<1>4. \A n \in T : ~ (n < m)
  BY <1>1, <1>3
<1>. QED  BY <1>4

(* The requests within the length of a window are some 2 * MaxHits - 1 in a   *)
(* row, or fewer.                                                             *)
LEMMA PacedWithin ==
    ASSUME LoginAssumption, NEW p \in Seq(Nat), NEW h, NEW t, Paced(p, h, t), NEW s \in Nat
    PROVE  Cardinality({n \in DOMAIN p : p[n] \in s..(s + Window)}) < 2 * MaxHits
<1>. DEFINE S == {n \in DOMAIN p : p[n] \in s..(s + Window)}
<1>1. MaxHits \in Nat \ {0} /\ Window \in Nat
  BY DEF LoginAssumption
<1>2. DOMAIN p = 1..Len(p) /\ Len(p) \in Nat /\ \A n \in DOMAIN p : p[n] \in Nat
  OBVIOUS
<1>3. S \subseteq DOMAIN p /\ \A n \in S : s <= p[n] /\ p[n] <= s + Window
  BY <1>1, <1>2
<1>. HIDE DEF S
<1>. SUFFICES Cardinality(S) < 2 * MaxHits
  BY DEF S
<1>4. CASE S = {}
  BY <1>1, <1>4, FS_EmptySet
<1>5. CASE S # {}
  <2>0. S \in SUBSET Nat
    BY <1>2, <1>3
  <2>1. PICK m \in S : \A n \in S : m <= n
    BY <1>5, <2>0, Least
  <2>. DEFINE last == m + 2 * MaxHits - 2
  <2>2. m \in Nat \ {0} /\ m \in DOMAIN p /\ last \in Nat
    BY <1>1, <1>2, <1>3
  <2>3. ASSUME NEW n \in S PROVE n \in m..last
    <3>1. n \in Nat /\ m <= n /\ n \in DOMAIN p
      BY <1>2, <1>3, <2>1
    <3>2. CASE n > last
      <4>. DEFINE j == n - 2 * MaxHits + 1
      <4>1. n >= 2 * MaxHits /\ j \in DOMAIN p /\ m <= j
        <5>1. n >= 2 * MaxHits /\ m <= j /\ j <= n /\ j \in Nat \ {0}
          BY ONLY <1>1, <2>2, <3>1, <3>2
        <5>. QED  BY ONLY <1>2, <3>1, <5>1
      <4>2. p[n] > p[j] + Window /\ p[m] <= p[j]
        BY <2>2, <3>1, <4>1 DEF Paced
      <4>3. s <= p[m] /\ p[n] <= s + Window /\ {p[n], p[m], p[j]} \subseteq Nat
        BY <1>2, <1>3, <2>2, <3>1, <4>1
      <4>. HIDE DEF j
      <4>. QED  BY ONLY <1>1, <4>2, <4>3, s \in Nat
    <3>. QED  BY <2>2, <3>1, <3>2
  <2>4. IsFiniteSet(m..last) /\ Cardinality(m..last) = 2 * MaxHits - 1
    <3>1. last - m + 1 = 2 * MaxHits - 1 /\ ~ (m > last) /\ m \in Int /\ last \in Int
      BY <1>1, <2>2
    <3>. HIDE DEF last
    <3>2. IsFiniteSet(m..last) /\ Cardinality(m..last) = last - m + 1
      BY <3>1, FS_Interval
    <3>. QED  BY <3>1, <3>2
  <2>5. IsFiniteSet(S) /\ Cardinality(S) <= Cardinality(m..last)
    BY <2>3, <2>4, FS_Subset
  <2>6. Cardinality(S) \in Nat
    BY <2>5, FS_CardinalityType
  <2>. QED  BY <1>1, <2>4, <2>5, <2>6
<1>. QED  BY <1>4, <1>5

(* However requests are spaced, and however windows lie.                      *)
THEOREM LimitAlwaysHolds == Spec => []LimitHolds
<1>1. ASSUME IInv PROVE LimitHolds
  <2>. SUFFICES ASSUME NEW i \in Addresses, NEW s \in 0..MaxTime
                PROVE  Cardinality({n \in DOMAIN passed[i] : passed[i][n] \in s..(s + Window)})
                       < 2 * MaxHits
    BY DEF LimitHolds
  <2>1. passed[i] \in Seq(Nat) /\ Paced(passed[i], hits[i], now) /\ s \in Nat
    BY <1>1, LoginAssumption DEF IInv, TypeOK, LimiterInv, LoginAssumption
  <2>. QED  BY <2>1, PacedWithin, LoginAssumption
<1>. QED  BY <1>1, Invariance, PTL

(* The table of attempts never outgrows its limit (oidc.go:128).              *)
THEOREM TableAlwaysBounded == Spec => []TableBounded
BY Invariance, PTL DEF IInv
=============================================================================
