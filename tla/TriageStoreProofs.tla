------------------------- MODULE TriageStoreProofs --------------------------
(***************************************************************************)
(* Theorems about TriageStore, for every value of the constants.           *)
(*                                                                         *)
(* The argument is isolation: whoever is inside a transaction holds the    *)
(* connection, rows change by a commit only, and so what an upsert has     *)
(* read is still in the table when it commits.  From it follow the shape   *)
(* of the log and that the store implements Triage.                        *)
(***************************************************************************)
EXTENDS TriageStore, SequenceTheorems, TLAPS

(* What each place in the code knows of its request. *)
Phase ==
    \A c \in Clients :
        /\ pc[c] = "idle" <=> req[c] = None
        /\ pc[c] \in {"begin"} \cup InTx => req[c].op = "upsert"
        /\ pc[c] \in InTx => req[c].status # "invalid"
        /\ pc[c] \in {"check", "insert"} => req[c].op = "note"
        /\ pc[c] \in {"row", "notes", "logs"} => req[c].op = "get"

(* A transaction has the connection, and works on the row as it is. *)
Isolation ==
    \A c \in Clients :
        /\ pc[c] \in InTx <=> conn = c
        /\ pc[c] \in {"write", "log", "commit"} => existing[c] = row[req[c].event]
        /\ pc[c] \in {"log", "commit"} =>
              /\ ~ LacksSnapshot(existing[c], req[c])
              /\ tx[c].row = Written(existing[c], req[c])
        /\ pc[c] = "log" => tx[c].log = << >>
        /\ pc[c] = "commit" => tx[c].log = Logged(existing[c], req[c])

(* Rows are never deleted: what was found is still there. *)
Standing ==
    \A c \in Clients :
        pc[c] \in {"insert", "notes", "logs"} => row[req[c].event] # None

IInv == TypeOK /\ Phase /\ Isolation /\ Standing

-----------------------------------------------------------------------------
(* A request names an event; an upsert has the fields of one.                 *)
LEMMA RequestFields ==
    ASSUME NEW q \in Request
    PROVE  /\ q.event \in Events
           /\ q # None
           /\ q.op \in {"upsert", "note", "get"}
           /\ q.op = "upsert" => q \in UpsertInput
BY TriageAssumption DEF Request, UpsertInput

(* So does every request in flight.                                           *)
LEMMA InFlightFields ==
    ASSUME TypeOK, Phase, NEW c \in Clients, pc[c] # "idle"
    PROVE  /\ req[c] \in Request /\ req[c].event \in Events
           /\ req[c].op = "upsert" => req[c] \in UpsertInput
<1>1. req[c] \in Request
  BY DEF TypeOK, Phase
<1>. QED  BY <1>1, RequestFields

(* What an upsert writes is a row, and what it logs are log entries.          *)
LEMMA WrittenType ==
    ASSUME NEW x \in Row \cup {None}, NEW q \in UpsertInput,
           q.status # "invalid", ~ LacksSnapshot(x, q)
    PROVE  Written(x, q) \in Row /\ Logged(x, q) \in Seq(LogEntry)
<1>. USE TriageAssumption DEF UpsertInput, Row, LogEntry
<1>1. Written(x, q) \in Row
  BY DEF Written, Inserted, Updated, LacksSnapshot
<1>2. CASE x = None
  <2>1. [from |-> None, to |-> Inserted(q).status] \in LogEntry
    BY DEF Inserted
  <2>. QED  BY <1>1, <1>2, <2>1 DEF Logged
<1>3. CASE x # None /\ q.status \notin {None, x.status}
  <2>1. [from |-> x.status, to |-> q.status] \in LogEntry
    BY <1>3
  <2>. QED  BY <1>1, <1>3, <2>1 DEF Logged
<1>4. CASE x # None /\ q.status \in {None, x.status}
  BY <1>1, <1>4 DEF Logged
<1>. QED  BY <1>2, <1>3, <1>4

LEMMA TypeStep == TypeOK /\ Phase /\ Isolation /\ [Next]_vars => TypeOK'
<1>. SUFFICES ASSUME TypeOK, Phase, Isolation, [Next]_vars PROVE TypeOK'
  OBVIOUS
<1>. USE TriageAssumption, RequestFields DEF TypeOK, InTx, Shown, Nothing
<1>1. CASE Crash
  BY <1>1 DEF Crash, tables, client
<1>2. ASSUME NEW d \in Clients, NEW q \in Request, Arrive(d, q) PROVE TypeOK'
  <2>1. pc' \in [Clients -> {"idle", "begin", "check", "insert", "row", "notes", "logs",
                             "reply"} \cup InTx]
    BY <1>2, RequestFields DEF Arrive
  <2>. QED  BY <1>2, <2>1 DEF Arrive, tables, client
<1>3. ASSUME NEW d \in Clients, RefuseUpsert(d) PROVE TypeOK'
  BY <1>3 DEF RefuseUpsert, End, Release, tables
<1>4. ASSUME NEW d \in Clients, Begin(d) PROVE TypeOK'
  BY <1>4 DEF Begin, tables, locals, client
<1>5. ASSUME NEW d \in Clients, Read(d) PROVE TypeOK'
  <2>1. req[d].event \in Events
    BY <1>5, InFlightFields DEF Read
  <2>. QED  BY <1>5, <2>1 DEF Read, tables, client
<1>6. ASSUME NEW d \in Clients, Write(d) PROVE TypeOK'
  <2>1. Written(existing[d], req[d]) \in Row
    BY <1>6, InFlightFields, WrittenType DEF Write, Phase
  <2>. QED  BY <1>6, <2>1, SMTT(30) DEF Write, tables, client
<1>7. ASSUME NEW d \in Clients, AppendLog(d) PROVE TypeOK'
  <2>1. req[d] \in UpsertInput /\ req[d].status # "invalid" /\ pc[d] = "log"
    BY <1>7, InFlightFields DEF AppendLog, Phase
  <2>2. tx[d].row = Written(existing[d], req[d]) /\ ~ LacksSnapshot(existing[d], req[d])
    BY <2>1 DEF Isolation
  <2>3. existing[d] \in Row \cup {None}
    OBVIOUS
  <2>4. tx[d].row \in Row /\ Logged(existing[d], req[d]) \in Seq(LogEntry)
    BY <2>1, <2>2, <2>3, WrittenType
  <2>. QED  BY <1>7, <2>4 DEF AppendLog, tables, client
<1>8. ASSUME NEW d \in Clients, Commit(d) PROVE TypeOK'
  <2>1. req[d] \in UpsertInput /\ req[d].event \in Events /\ req[d].status # "invalid"
    BY <1>8, InFlightFields DEF Commit, Phase
  <2>2. tx[d].row \in Row /\ tx[d].log \in Seq(LogEntry)
    <3>1. existing[d] \in Row \cup {None}
      OBVIOUS
    <3>2. /\ tx[d].row = Written(existing[d], req[d]) /\ ~ LacksSnapshot(existing[d], req[d])
          /\ tx[d].log = Logged(existing[d], req[d])
      BY <1>8 DEF Commit, Isolation
    <3>. QED  BY <2>1, <3>1, <3>2, WrittenType
  <2>3. log[req[d].event] \o tx[d].log \in Seq(LogEntry)
    BY <2>1, <2>2, ConcatProperties
  <2>4. Len(log[req[d].event] \o tx[d].log) \in Nat
    BY <2>3, LenProperties
  <2>5. row' \in [Events -> Row \cup {None}] /\ log' \in [Events -> Seq(LogEntry)]
    BY <1>8, <2>1, <2>2, <2>3 DEF Commit
  <2>6. view' \in [Clients -> Shown]
    BY <1>8, <2>1, <2>4 DEF Commit
  <2>. QED  BY <1>8, <2>5, <2>6 DEF Commit, Release, client
<1>9. ASSUME NEW d \in Clients, NotFound(d) PROVE TypeOK'
  BY <1>9 DEF NotFound, End, Release, tables
<1>10. ASSUME NEW d \in Clients, CheckRow(d) PROVE TypeOK'
  BY <1>10 DEF CheckRow, tables, locals, client
<1>11. ASSUME NEW d \in Clients, InsertNote(d) PROVE TypeOK'
  <2>1. req[d].event \in Events
    BY <1>11, InFlightFields DEF InsertNote
  <2>2. notes' \in [Events -> Seq(Clients)]
    <3>1. Append(notes[req[d].event], d) \in Seq(Clients)
      BY <2>1
    <3>. QED  BY <1>11, <2>1, <3>1 DEF InsertNote
  <2>3. view' \in [Clients -> Shown]
    <3>1. Len(notes[req[d].event]) + 1 \in Nat
      BY <2>1
    <3>. QED  BY <1>11, <2>1, <3>1 DEF InsertNote
  <2>. QED  BY <1>11, <2>2, <2>3 DEF InsertNote, client
<1>12. ASSUME NEW d \in Clients, GetRow(d) PROVE TypeOK'
  <2>1. row[req[d].event] \in Row
    BY <1>12, InFlightFields DEF GetRow
  <2>2. row[req[d].event].status \in Statuses
    BY <2>1 DEF Row
  <2>. QED  BY <1>12, <2>2 DEF GetRow, tables, client
<1>13. ASSUME NEW d \in Clients, ListNotes(d) PROVE TypeOK'
  <2>1. req[d].event \in Events
    BY <1>13, InFlightFields DEF ListNotes
  <2>. QED  BY <1>13, <2>1 DEF ListNotes, tables, client
<1>14. ASSUME NEW d \in Clients, ListLog(d) PROVE TypeOK'
  <2>1. req[d].event \in Events
    BY <1>14, InFlightFields DEF ListLog
  <2>. QED  BY <1>14, <2>1, SMTT(30) DEF ListLog, tables, client
<1>15. ASSUME NEW d \in Clients, Respond(d) PROVE TypeOK'
  BY <1>15 DEF Respond, End, Release, tables
<1>16. ASSUME NEW d \in Clients, Fail(d) PROVE TypeOK'
  BY <1>16 DEF Fail, End, Release, tables
<1>17. ASSUME NEW d \in Clients, Disconnect(d) PROVE TypeOK'
  BY <1>17 DEF Disconnect, End, Release, tables, client
<1>18. CASE UNCHANGED vars
  BY <1>18 DEF vars, tables, locals, client
<1>. QED
  BY <1>1, <1>2, <1>3, <1>4, <1>5, <1>6, <1>7, <1>8, <1>9,
     <1>10, <1>11, <1>12, <1>13, <1>14, <1>15, <1>16, <1>17, <1>18
     DEF Next, Progress

LEMMA PhaseStep == TypeOK /\ Phase /\ [Next]_vars => Phase'
<1>. SUFFICES ASSUME TypeOK, Phase, [Next]_vars PROVE Phase'
  OBVIOUS
<1>. USE TriageAssumption DEF TypeOK, Phase, InTx
<1>1. CASE Crash
  BY <1>1 DEF Crash, tables, client
<1>2. ASSUME NEW d \in Clients, NEW q \in Request, Arrive(d, q) PROVE Phase'
  <2>1. q # None /\ q.op \in {"upsert", "note", "get"}
    BY RequestFields
  <2>2. pc' = [pc EXCEPT ![d] = IF q.op = "upsert" THEN "begin"
                                ELSE IF q.op = "note" THEN "check" ELSE "row"]
    BY <1>2, <2>1 DEF Arrive
  <2>. QED  BY <1>2, <2>1, <2>2 DEF Arrive
<1>3. ASSUME NEW d \in Clients, RefuseUpsert(d) PROVE Phase'
  BY <1>3 DEF RefuseUpsert, End, Release, tables
<1>4. ASSUME NEW d \in Clients, Begin(d) PROVE Phase'
  BY <1>4 DEF Begin, tables, locals, client
<1>5. ASSUME NEW d \in Clients, Read(d) PROVE Phase'
  BY <1>5 DEF Read, tables, client
<1>6. ASSUME NEW d \in Clients, Write(d) PROVE Phase'
  BY <1>6 DEF Write, tables, client
<1>7. ASSUME NEW d \in Clients, AppendLog(d) PROVE Phase'
  BY <1>7 DEF AppendLog, tables, client
<1>8. ASSUME NEW d \in Clients, Commit(d) PROVE Phase'
  BY <1>8 DEF Commit, Release, client
<1>9. ASSUME NEW d \in Clients, NotFound(d) PROVE Phase'
  BY <1>9 DEF NotFound, End, Release, tables
<1>10. ASSUME NEW d \in Clients, CheckRow(d) PROVE Phase'
  BY <1>10 DEF CheckRow, tables, locals, client
<1>11. ASSUME NEW d \in Clients, InsertNote(d) PROVE Phase'
  BY <1>11 DEF InsertNote, client
<1>12. ASSUME NEW d \in Clients, GetRow(d) PROVE Phase'
  BY <1>12 DEF GetRow, tables, client
<1>13. ASSUME NEW d \in Clients, ListNotes(d) PROVE Phase'
  BY <1>13 DEF ListNotes, tables, client
<1>14. ASSUME NEW d \in Clients, ListLog(d) PROVE Phase'
  BY <1>14 DEF ListLog, tables, client
<1>15. ASSUME NEW d \in Clients, Respond(d) PROVE Phase'
  BY <1>15 DEF Respond, End, Release, tables
<1>16. ASSUME NEW d \in Clients, Fail(d) PROVE Phase'
  BY <1>16 DEF Fail, End, Release, tables
<1>17. ASSUME NEW d \in Clients, Disconnect(d) PROVE Phase'
  BY <1>17 DEF Disconnect, End, Release, tables, client
<1>18. CASE UNCHANGED vars
  BY <1>18 DEF vars, tables, locals, client
<1>. QED
  BY <1>1, <1>2, <1>3, <1>4, <1>5, <1>6, <1>7, <1>8, <1>9,
     <1>10, <1>11, <1>12, <1>13, <1>14, <1>15, <1>16, <1>17, <1>18
     DEF Next, Progress

LEMMA IsolationStep == TypeOK /\ Phase /\ Isolation /\ [Next]_vars => Isolation'
<1>. SUFFICES ASSUME TypeOK, Phase, Isolation, [Next]_vars PROVE Isolation'
  OBVIOUS
<1>. USE TriageAssumption DEF TypeOK, Phase, Isolation, InTx
<1>1. CASE Crash
  BY <1>1 DEF Crash, tables, client
<1>2. ASSUME NEW d \in Clients, NEW q \in Request, Arrive(d, q) PROVE Isolation'
  <2>1. pc' = [pc EXCEPT ![d] = IF q.op = "upsert" THEN "begin"
                                ELSE IF q.op = "note" THEN "check" ELSE "row"]
    BY <1>2, RequestFields DEF Arrive
  <2>2. pc'[d] \in {"begin", "check", "row"}
    BY <2>1
  <2>3. \A c \in Clients : c # d => pc'[c] = pc[c] /\ req'[c] = req[c]
    BY <1>2, <2>1 DEF Arrive
  <2>4. pc[d] = "idle" /\ UNCHANGED <<row, conn, existing, tx>>
    BY <1>2 DEF Arrive, tables
  <2>. QED  BY <2>2, <2>3, <2>4
<1>3. ASSUME NEW d \in Clients, RefuseUpsert(d) PROVE Isolation'
  BY <1>3 DEF RefuseUpsert, End, Release, tables
<1>4. ASSUME NEW d \in Clients, Begin(d) PROVE Isolation'
  BY <1>4 DEF Begin, tables, locals, client
<1>5. ASSUME NEW d \in Clients, Read(d) PROVE Isolation'
  BY <1>5 DEF Read, tables, client
<1>6. ASSUME NEW d \in Clients, Write(d) PROVE Isolation'
  <2>1. pc' = [pc EXCEPT ![d] = IF Logged(existing[d], req[d]) = << >> THEN "commit" ELSE "log"]
    BY <1>6 DEF Write
  <2>2. tx'[d] = [row |-> Written(existing[d], req[d]), log |-> << >>]
    BY <1>6 DEF Write
  <2>. QED  BY <1>6, <2>1, <2>2 DEF Write, tables
<1>7. ASSUME NEW d \in Clients, AppendLog(d) PROVE Isolation'
  BY <1>7 DEF AppendLog, tables, client
<1>8. ASSUME NEW d \in Clients, Commit(d) PROVE Isolation'
  BY <1>8 DEF Commit, Release, client
<1>9. ASSUME NEW d \in Clients, NotFound(d) PROVE Isolation'
  BY <1>9 DEF NotFound, End, Release, tables
<1>10. ASSUME NEW d \in Clients, CheckRow(d) PROVE Isolation'
  BY <1>10 DEF CheckRow, tables, locals, client
<1>11. ASSUME NEW d \in Clients, InsertNote(d) PROVE Isolation'
  BY <1>11 DEF InsertNote, client
<1>12. ASSUME NEW d \in Clients, GetRow(d) PROVE Isolation'
  BY <1>12 DEF GetRow, tables, client
<1>13. ASSUME NEW d \in Clients, ListNotes(d) PROVE Isolation'
  BY <1>13 DEF ListNotes, tables, client
<1>14. ASSUME NEW d \in Clients, ListLog(d) PROVE Isolation'
  BY <1>14 DEF ListLog, tables, client
<1>15. ASSUME NEW d \in Clients, Respond(d) PROVE Isolation'
  BY <1>15 DEF Respond, End, Release, tables
<1>16. ASSUME NEW d \in Clients, Fail(d) PROVE Isolation'
  BY <1>16 DEF Fail, End, Release, tables
<1>17. ASSUME NEW d \in Clients, Disconnect(d) PROVE Isolation'
  BY <1>17 DEF Disconnect, End, Release, tables, client
<1>18. CASE UNCHANGED vars
  BY <1>18 DEF vars, tables, locals, client
<1>. QED
  BY <1>1, <1>2, <1>3, <1>4, <1>5, <1>6, <1>7, <1>8, <1>9,
     <1>10, <1>11, <1>12, <1>13, <1>14, <1>15, <1>16, <1>17, <1>18
     DEF Next, Progress

LEMMA StandingStep == TypeOK /\ Phase /\ Isolation /\ Standing /\ [Next]_vars => Standing'
<1>. SUFFICES ASSUME TypeOK, Phase, Isolation, Standing, [Next]_vars PROVE Standing'
  OBVIOUS
<1>. USE TriageAssumption DEF TypeOK, Phase, InTx, Standing
<1>1. CASE Crash
  BY <1>1 DEF Crash, tables, client
<1>2. ASSUME NEW d \in Clients, NEW q \in Request, Arrive(d, q) PROVE Standing'
  <2>1. pc' = [pc EXCEPT ![d] = IF q.op = "upsert" THEN "begin"
                                ELSE IF q.op = "note" THEN "check" ELSE "row"]
    BY <1>2, RequestFields DEF Arrive
  <2>2. pc'[d] \in {"begin", "check", "row"}
    BY <2>1
  <2>3. \A c \in Clients : c # d => pc'[c] = pc[c] /\ req'[c] = req[c]
    BY <1>2, <2>1 DEF Arrive
  <2>. QED  BY <1>2, <2>2, <2>3 DEF Arrive, tables
<1>3. ASSUME NEW d \in Clients, RefuseUpsert(d) PROVE Standing'
  BY <1>3 DEF RefuseUpsert, End, Release, tables
<1>4. ASSUME NEW d \in Clients, Begin(d) PROVE Standing'
  BY <1>4 DEF Begin, tables, locals, client
<1>5. ASSUME NEW d \in Clients, Read(d) PROVE Standing'
  BY <1>5 DEF Read, tables, client
<1>6. ASSUME NEW d \in Clients, Write(d) PROVE Standing'
  BY <1>6 DEF Write, tables, client
<1>7. ASSUME NEW d \in Clients, AppendLog(d) PROVE Standing'
  BY <1>7 DEF AppendLog, tables, client
<1>8. ASSUME NEW d \in Clients, Commit(d) PROVE Standing'
  <2>1. tx[d].row \in Row
    <3>1. existing[d] \in Row \cup {None}
      OBVIOUS
    <3>2. tx[d].row = Written(existing[d], req[d]) /\ ~ LacksSnapshot(existing[d], req[d])
      BY <1>8 DEF Commit, Isolation
    <3>3. req[d] \in UpsertInput /\ req[d].status # "invalid"
      BY <1>8, InFlightFields DEF Commit
    <3>. QED  BY <3>1, <3>2, <3>3, WrittenType
  <2>. QED  BY <1>8, <2>1 DEF Commit, Release, client
<1>9. ASSUME NEW d \in Clients, NotFound(d) PROVE Standing'
  BY <1>9 DEF NotFound, End, Release, tables
<1>10. ASSUME NEW d \in Clients, CheckRow(d) PROVE Standing'
  BY <1>10 DEF CheckRow, tables, locals, client
<1>11. ASSUME NEW d \in Clients, InsertNote(d) PROVE Standing'
  BY <1>11 DEF InsertNote, client
<1>12. ASSUME NEW d \in Clients, GetRow(d) PROVE Standing'
  BY <1>12 DEF GetRow, tables, client
<1>13. ASSUME NEW d \in Clients, ListNotes(d) PROVE Standing'
  BY <1>13 DEF ListNotes, tables, client
<1>14. ASSUME NEW d \in Clients, ListLog(d) PROVE Standing'
  BY <1>14 DEF ListLog, tables, client
<1>15. ASSUME NEW d \in Clients, Respond(d) PROVE Standing'
  BY <1>15 DEF Respond, End, Release, tables
<1>16. ASSUME NEW d \in Clients, Fail(d) PROVE Standing'
  BY <1>16 DEF Fail, End, Release, tables
<1>17. ASSUME NEW d \in Clients, Disconnect(d) PROVE Standing'
  BY <1>17 DEF Disconnect, End, Release, tables, client
<1>18. CASE UNCHANGED vars
  BY <1>18 DEF vars, tables, locals, client
<1>. QED
  BY <1>1, <1>2, <1>3, <1>4, <1>5, <1>6, <1>7, <1>8, <1>9,
     <1>10, <1>11, <1>12, <1>13, <1>14, <1>15, <1>16, <1>17, <1>18
     DEF Next, Progress

LEMMA IInvInit == Init => IInv
BY TriageAssumption DEF Init, IInv, TypeOK, Phase, Isolation, Standing, InTx, Shown, Nothing

LEMMA IInvStep == IInv /\ [Next]_vars => IInv'
BY TypeStep, PhaseStep, IsolationStep, StandingStep DEF IInv

(* The inductive invariant holds of every reachable state.                    *)
THEOREM Invariance == Spec => []IInv
BY IInvInit, IInvStep, PTL DEF Spec

(* Every variable keeps its type.                                             *)
THEOREM TypeCorrect == Spec => []TypeOK
BY Invariance, PTL DEF IInv

-----------------------------------------------------------------------------
(* The connection. *)

(* The one connection is held by a request that is inside its transaction,    *)
(* and by no other: however a request ends, refused, failed, abandoned by its *)
(* client or killed, it leaves the connection to those that wait for it       *)
(* (Upsert's deferred Rollback, repo.go).  What an open request has found of  *)
(* an event is still there, so that neither the foreign key of a note nor the *)
(* existence checks of ListNotes and ListLog refuse it halfway.               *)
NothingHeldBack ==
    /\ conn # None => conn \in Clients /\ pc[conn] \in InTx
    /\ \A c \in Clients :
          pc[c] \in {"insert", "notes", "logs"} => row[req[c].event] # None

THEOREM ConnectionAlwaysReturned == Spec => []NothingHeldBack
<1>1. IInv => NothingHeldBack
  BY DEF IInv, TypeOK, Isolation, Standing, NothingHeldBack
<1>. QED  BY <1>1, Invariance, PTL

-----------------------------------------------------------------------------
(* The log. *)

Chained(x, s) ==
    /\ x = None <=> s = << >>
    /\ x # None => s[Len(s)].to = x.status
    /\ \A i \in 1..Len(s) :
          /\ s[i].from = IF i = 1 THEN None ELSE s[i - 1].to
          /\ s[i].from # s[i].to

(* An upsert logs nothing when the status stays, and else one entry that goes *)
(* from the old status to the new.                                            *)
LEMMA LoggedCases ==
    ASSUME NEW x \in Row \cup {None}, NEW q \in UpsertInput,
           q.status # "invalid", ~ LacksSnapshot(x, q)
    PROVE  \/ x # None /\ Logged(x, q) = << >> /\ Written(x, q).status = x.status
           \/ \E m \in LogEntry :
                 /\ Logged(x, q) = <<m>>
                 /\ m.from = IF x = None THEN None ELSE x.status
                 /\ m.to = Written(x, q).status
                 /\ m.from # m.to
<1>. USE TriageAssumption DEF UpsertInput, Row, LogEntry
<1>1. CASE x = None
  <2>. DEFINE m == [from |-> None, to |-> Inserted(q).status]
  <2>1. m \in LogEntry /\ Logged(x, q) = <<m>> /\ m.to = Written(x, q).status
    BY <1>1 DEF Logged, Inserted, Written
  <2>2. m.from = None /\ m.from # m.to
    BY DEF Inserted
  <2>. QED  BY <1>1, <2>1, <2>2
<1>2. CASE x # None /\ q.status \notin {None, x.status}
  <2>. DEFINE m == [from |-> x.status, to |-> q.status]
  <2>1. m \in LogEntry /\ Logged(x, q) = <<m>> /\ m.to = Written(x, q).status
    BY <1>2 DEF Logged, Updated, Written
  <2>2. m.from = x.status /\ m.from # m.to
    BY <1>2
  <2>. QED  BY <1>2, <2>1, <2>2
<1>3. CASE x # None /\ q.status \in {None, x.status}
  BY <1>3 DEF Logged, Updated, Written
<1>. QED  BY <1>1, <1>2, <1>3

LEMMA ChainGrows ==
    ASSUME NEW x \in Row \cup {None}, NEW s \in Seq(LogEntry), Chained(x, s),
           NEW y \in Row, NEW m \in LogEntry,
           m.from = IF x = None THEN None ELSE x.status, m.to = y.status, m.from # m.to
    PROVE  Chained(y, s \o <<m>>)
<1>. DEFINE t == s \o <<m>>
<1>1. t = Append(s, m)
  BY AppendIsConcat
<1>2. /\ t # << >> /\ Len(t) = Len(s) + 1 /\ Len(s) \in Nat
      /\ \A i \in 1..Len(s) : t[i] = s[i]
      /\ t[Len(s) + 1] = m
  BY <1>1, AppendProperties, LenProperties
<1>3. y # None
  BY TriageAssumption
<1>4. t[Len(t)].to = y.status
  BY <1>2
<1>5. \A i \in 1..Len(s) : /\ t[i].from = IF i = 1 THEN None ELSE t[i - 1].to
                           /\ t[i].from # t[i].to
  BY <1>2 DEF Chained
<1>6. m.from = IF Len(s) + 1 = 1 THEN None ELSE t[Len(s)].to
  <2>1. CASE s = << >>
    BY <2>1 DEF Chained
  <2>2. CASE s # << >>
    <3>1. Len(s) # 0
      BY <2>2, EmptySeq
    <3>. QED  BY <1>2, <2>2, <3>1 DEF Chained
  <2>. QED  BY <2>1, <2>2
<1>7. \A i \in 1..Len(t) : /\ t[i].from = IF i = 1 THEN None ELSE t[i - 1].to
                           /\ t[i].from # t[i].to
  <2>. SUFFICES ASSUME NEW i \in 1..Len(t)
                PROVE  /\ t[i].from = IF i = 1 THEN None ELSE t[i - 1].to
                       /\ t[i].from # t[i].to
    OBVIOUS
  <2>1. CASE i \in 1..Len(s)
    BY <1>5, <2>1
  <2>2. CASE i = Len(s) + 1
    BY <1>2, <1>6, <2>2
  <2>. QED  BY <1>2, <2>1, <2>2
<1>. QED  BY <1>2, <1>3, <1>4, <1>7 DEF Chained

(* What a transaction is about to commit. *)
LEMMA CommitFacts ==
    ASSUME IInv, NEW c \in Clients, pc[c] = "commit", NEW e, e = req[c].event
    PROVE  /\ e \in Events /\ req[c] \in UpsertInput /\ req[c].status # "invalid"
           /\ row[e] \in Row \cup {None} /\ ~ LacksSnapshot(row[e], req[c])
           /\ tx[c].row = Written(row[e], req[c]) /\ tx[c].row \in Row
           /\ tx[c].log = Logged(row[e], req[c])
<1>1. req[c] \in UpsertInput /\ req[c].status # "invalid" /\ e \in Events
  BY InFlightFields DEF IInv, Phase, InTx
<1>2. row[e] \in Row \cup {None}
  BY <1>1 DEF IInv, TypeOK
<1>3. /\ ~ LacksSnapshot(row[e], req[c])
      /\ tx[c].row = Written(row[e], req[c])
      /\ tx[c].log = Logged(row[e], req[c])
  BY DEF IInv, Isolation
<1>. QED  BY <1>1, <1>2, <1>3, WrittenType

LEMMA ChainStep ==
    ASSUME IInv, LogChains, [Next]_vars
    PROVE  LogChains'
<1>. SUFFICES ASSUME NEW e \in Events, Chained(row[e], log[e])
              PROVE  Chained(row'[e], log'[e])
  BY DEF LogChains, Chained
<1>1. ASSUME NEW d \in Clients, Commit(d) PROVE Chained(row'[e], log'[e])
  <2>. DEFINE x == row[e]  q == req[d]
  <2>1. CASE e # q.event
    BY <1>1, <2>1 DEF Commit, IInv, TypeOK
  <2>2. CASE e = q.event
    <3>1. /\ q \in UpsertInput /\ q.status # "invalid"
          /\ x \in Row \cup {None} /\ ~ LacksSnapshot(x, q)
          /\ tx[d].row = Written(x, q) /\ tx[d].row \in Row
          /\ tx[d].log = Logged(x, q)
      BY <1>1, <2>2, CommitFacts DEF Commit
    <3>2. log[e] \in Seq(LogEntry) /\ row'[e] = Written(x, q) /\ log'[e] = log[e] \o Logged(x, q)
      BY <1>1, <2>2, <3>1 DEF Commit, IInv, TypeOK
    <3>3. CASE x # None /\ Logged(x, q) = << >> /\ Written(x, q).status = x.status
      <4>1. log'[e] = log[e]
        BY <3>2, <3>3, ConcatEmptySeq
      <4>2. Written(x, q) # None
        BY <3>1, TriageAssumption
      <4>. QED  BY <3>2, <3>3, <4>1, <4>2 DEF Chained
    <3>4. ASSUME NEW m \in LogEntry, Logged(x, q) = <<m>>,
                 m.from = IF x = None THEN None ELSE x.status,
                 m.to = Written(x, q).status, m.from # m.to
          PROVE  Chained(row'[e], log'[e])
      BY <3>1, <3>2, <3>4, ChainGrows
    <3>. QED  BY <3>1, <3>3, <3>4, LoggedCases
  <2>. QED  BY <2>1, <2>2
<1>2. CASE UNCHANGED <<row, log>>
  BY <1>2
<1>. QED
  BY <1>1, <1>2
     DEF Next, Progress, vars, tables, Crash, Arrive, RefuseUpsert, Begin, Read, Write,
         AppendLog, NotFound, CheckRow, InsertNote, GetRow, ListNotes, ListLog,
         Respond, Fail, Disconnect

(* The log of an event is the history of its row, in every reachable state.   *)
THEOREM LogIsHistory == Spec => []LogChains
<1>1. Init => LogChains
  BY DEF Init, LogChains
<1>. QED  BY <1>1, ChainStep, Invariance, PTL DEF Spec

-----------------------------------------------------------------------------
(* The store implements Triage.  A transaction takes effect where it commits; *)
(* by Isolation that is on the row it has read.                               *)

performed == [c \in Clients |-> pc[c] = "reply"]

(* The two modules compute with the same data.                                *)
LEMMA SameData ==
    /\ Promise!Request = Request
    /\ \A x, q : /\ Promise!Written(x, q) = Written(x, q)
                 /\ Promise!Logged(x, q) = Logged(x, q)
                 /\ Promise!LacksSnapshot(x, q) = LacksSnapshot(x, q)
BY DEF Promise!Request, Request, Promise!UpsertInput, UpsertInput,
       Promise!Written, Written, Promise!Inserted, Inserted, Promise!Updated, Updated,
       Promise!Logged, Logged, Promise!LacksSnapshot, LacksSnapshot

LEMMA PromiseInit == Init => Promise!Init
BY DEF Init, Promise!Init

LEMMA CommitPerforms ==
    ASSUME IInv, NEW d \in Clients, Commit(d)
    PROVE  Promise!Perform(d)
<1>. DEFINE q == req[d]  e == req[d].event
<1>1. /\ e \in Events /\ q \in UpsertInput /\ q.status # "invalid"
      /\ ~ LacksSnapshot(row[e], q)
      /\ tx[d].row = Written(row[e], q) /\ tx[d].log = Logged(row[e], q)
  BY CommitFacts DEF Commit
<1>2. q # None /\ q.op = "upsert"
  BY InFlightFields DEF Commit, IInv, Phase, InTx
<1>3. Promise!Upsert(d, q)
  BY <1>1, <1>2, SameData DEF Commit, Promise!Upsert
<1>4. performed' = [performed EXCEPT ![d] = TRUE]
  BY DEF Commit, performed, IInv, TypeOK
<1>. QED  BY <1>2, <1>3, <1>4 DEF Commit, client, performed, Promise!Perform

LEMMA NotePerforms ==
    ASSUME IInv, NEW d \in Clients, InsertNote(d)
    PROVE  Promise!Perform(d)
<1>1. req[d] # None /\ req[d].op = "note"
  BY DEF InsertNote, IInv, Phase
<1>2. Promise!AppendNote(d, req[d])
  BY <1>1 DEF InsertNote, Promise!AppendNote
<1>3. performed' = [performed EXCEPT ![d] = TRUE]
  BY DEF InsertNote, performed, IInv, TypeOK
<1>. QED  BY <1>1, <1>2, <1>3 DEF InsertNote, client, performed, Promise!Perform

LEMMA GetPerforms ==
    ASSUME IInv, NEW d \in Clients, ListLog(d)
    PROVE  Promise!Perform(d)
<1>1. req[d] # None /\ req[d].op = "get" /\ row[req[d].event] # None
  BY DEF ListLog, IInv, Phase, Standing
<1>2. Promise!Get(req[d])
  BY <1>1 DEF ListLog, tables, Promise!Get, Promise!store
<1>3. performed' = [performed EXCEPT ![d] = TRUE]
  BY DEF ListLog, performed, IInv, TypeOK
<1>. QED  BY <1>1, <1>2, <1>3 DEF ListLog, client, performed, Promise!Perform

(* A request that ends without having been performed, with an error or none.  *)
LEMMA RefusalRefuses ==
    ASSUME IInv, NEW d \in Clients, pc[d] \notin {"idle", "reply"},
           End(d), UNCHANGED tables,
           NEW how \in Promise!Errors(req[d]), reply' = [reply EXCEPT ![d] = how]
    PROVE  Promise!Refuse(d)
<1>1. performed' = performed
  BY DEF End, performed, IInv, TypeOK
<1>2. req[d] # None
  BY DEF IInv, Phase
<1>. QED  BY <1>1, <1>2 DEF End, tables, performed, Promise!Refuse, Promise!store

LEMMA PromiseStep ==
    ASSUME IInv, [Next]_vars
    PROVE  [Promise!Next]_Promise!vars
<1>. USE DEF Promise!Next
<1>1. CASE Crash
  BY <1>1 DEF Crash, tables, client, Promise!Crash, Promise!store
<1>2. ASSUME NEW d \in Clients, NEW q \in Request, Arrive(d, q) PROVE Promise!Next
  <2>1. req[d] = None
    BY <1>2 DEF Arrive, IInv, Phase
  <2>2. pc' = [pc EXCEPT ![d] = IF q.op = "upsert" THEN "begin"
                                ELSE IF q.op = "note" THEN "check" ELSE "row"]
    BY <1>2, RequestFields DEF Arrive
  <2>3. performed' = performed
    BY <1>2, <2>2 DEF Arrive, performed, IInv, TypeOK
  <2>4. Promise!Submit(d, q)
    BY <1>2, <2>1, <2>3 DEF Arrive, tables, performed, Promise!Submit, Promise!store
  <2>. QED  BY <2>4, SameData
<1>3. ASSUME NEW d \in Clients, RefuseUpsert(d) PROVE Promise!Next
  <2>1. pc[d] \in {"begin", "write"} /\ req[d].op = "upsert"
    BY <1>3 DEF RefuseUpsert, IInv, Phase, InTx
  <2>2. req[d].status = "invalid" \/ LacksSnapshot(row[req[d].event], req[d])
    BY <1>3 DEF RefuseUpsert, IInv, Isolation
  <2>3. "invalid" \in Promise!Errors(req[d])
    BY <2>1, <2>2, SameData DEF Promise!Errors
  <2>4. Promise!Refuse(d)
    BY <1>3, <2>1, <2>3, RefusalRefuses DEF RefuseUpsert
  <2>. QED  BY <2>4
<1>4. ASSUME NEW d \in Clients, NotFound(d) PROVE Promise!Next
  <2>1. pc[d] \in {"check", "row"} /\ req[d].op # "upsert" /\ row[req[d].event] = None
    BY <1>4 DEF NotFound, IInv, Phase
  <2>2. "notfound" \in Promise!Errors(req[d])
    BY <2>1 DEF Promise!Errors
  <2>3. Promise!Refuse(d)
    BY <1>4, <2>1, <2>2, RefusalRefuses DEF NotFound
  <2>. QED  BY <2>3
<1>5. ASSUME NEW d \in Clients, Fail(d) PROVE Promise!Next
  <2>1. "error" \in Promise!Errors(req[d])
    BY DEF Promise!Errors
  <2>2. Promise!Refuse(d)
    BY <1>5, <2>1, RefusalRefuses DEF Fail
  <2>. QED  BY <2>2
<1>6. ASSUME NEW d \in Clients, Commit(d) PROVE Promise!Next
  BY <1>6, CommitPerforms
<1>7. ASSUME NEW d \in Clients, InsertNote(d) PROVE Promise!Next
  BY <1>7, NotePerforms
<1>8. ASSUME NEW d \in Clients, ListLog(d) PROVE Promise!Next
  BY <1>8, GetPerforms
<1>9. ASSUME NEW d \in Clients, Respond(d) PROVE Promise!Next
  <2>1. performed[d] /\ performed' = [performed EXCEPT ![d] = FALSE]
    BY <1>9 DEF Respond, End, performed, IInv, TypeOK
  <2>2. Promise!Answer(d)
    BY <1>9, <2>1 DEF Respond, End, tables, performed, Promise!Answer, Promise!store
  <2>. QED  BY <2>2
<1>10. ASSUME NEW d \in Clients, Disconnect(d) PROVE Promise!Next
  <2>1. req[d] # None
    BY <1>10 DEF Disconnect, IInv, Phase
  <2>2. performed' = [performed EXCEPT ![d] = FALSE]
    BY <1>10 DEF Disconnect, End, performed, IInv, TypeOK
  <2>3. Promise!Lose(d)
    BY <1>10, <2>1, <2>2 DEF Disconnect, End, tables, client, performed, Promise!Lose, Promise!store
  <2>. QED  BY <2>3
<1>11. ASSUME NEW d \in Clients,
              Begin(d) \/ Read(d) \/ Write(d) \/ AppendLog(d) \/ CheckRow(d) \/ GetRow(d) \/ ListNotes(d)
       PROVE  UNCHANGED Promise!vars
  <2>1. UNCHANGED <<row, log, notes, req, reply>>
    BY <1>11 DEF Begin, Read, Write, AppendLog, CheckRow, GetRow, ListNotes, tables, locals, client
  <2>2. performed' = performed
    <3>1. \E s \in InTx \cup {"insert", "notes", "logs"} : pc' = [pc EXCEPT ![d] = s]
      BY <1>11 DEF Begin, Read, Write, AppendLog, CheckRow, GetRow, ListNotes, InTx
    <3>2. pc[d] # "reply"
      BY <1>11 DEF Begin, Read, Write, AppendLog, CheckRow, GetRow, ListNotes
    <3>. QED  BY <3>1, <3>2 DEF performed, InTx, IInv, TypeOK
  <2>. QED  BY <2>1, <2>2 DEF performed, Promise!vars
<1>12. CASE UNCHANGED vars
  <2>1. performed' = performed
    BY <1>12 DEF vars, performed
  <2>. QED  BY <1>12, <2>1 DEF vars, tables, locals, client, performed, Promise!vars
<1>. QED
  BY <1>1, <1>2, <1>3, <1>4, <1>5, <1>6, <1>7, <1>8, <1>9, <1>10, <1>11, <1>12
     DEF Next, Progress

(* The store implements what the API promises: every request takes effect at  *)
(* one instant or not at all, for any number of clients and events.           *)
THEOREM StoreKeepsPromise == Spec => KeepsPromise
BY PromiseInit, PromiseStep, Invariance, PTL DEF Spec, KeepsPromise, Promise!Spec
=============================================================================
