------------------------- MODULE TriageAnswerProofs -------------------------
(***************************************************************************)
(* What the clients of TriageStore are told, for every value of the        *)
(* constants.  The tables only grow: what an answer, or an answer in the   *)
(* making, shows of an event is in them from then on.                      *)
(***************************************************************************)
EXTENDS TriageStoreProofs

(* The log of event e explains status s within its first n entries. *)
Explains(e, n, s) == \E i \in 1..n : log[e][i].to = s

(* What v shows is in the tables. *)
InTables(v) ==
    v.event # None =>
        /\ row[v.event] # None
        /\ v.log <= Len(log[v.event])
        /\ v.notes <= Len(notes[v.event])

Explained ==
    \A c \in Clients :
        LET e == req[c].event
        IN  /\ pc[c] \in {"notes", "logs"} => Explains(e, Len(log[e]), status[c])
            /\ pc[c] = "reply" /\ req[c].op = "get" =>
                  view[c].log <= Len(log[e]) /\ Explains(e, view[c].log, status[c])

AnswersAt(c) ==
    /\ pc[c] # "idle" => reply[c] = "none"
    /\ InTables(shown[c])
    /\ pc[c] = "reply" => view[c].event = req[c].event /\ InTables(view[c])
    /\ pc[c] = "logs" => view[c].notes <= Len(notes[req[c].event])
    /\ shown[c].event = req[c].event /\ req[c].op = "get" =>
          /\ pc[c] \in {"logs", "reply"} => shown[c].notes <= view[c].notes
          /\ pc[c] = "reply" => shown[c].log <= view[c].log

Answers == \A c \in Clients : AnswersAt(c)

AInv == IInv /\ LogChains /\ Explained /\ Answers

-----------------------------------------------------------------------------
Extends(s, u) ==
    /\ Len(s) \in Nat /\ Len(u) \in Nat /\ Len(s) <= Len(u)
    /\ \A i \in 1..Len(s) : u[i] = s[i]

LEMMA ConcatExtends ==
    ASSUME NEW s \in Seq(LogEntry), NEW t \in Seq(LogEntry)
    PROVE  Extends(s, s \o t)
<1>1. Len(s) \in Nat /\ Len(t) \in Nat /\ Len(s \o t) = Len(s) + Len(t)
  BY LenProperties, ConcatProperties
<1>2. \A i \in 1..Len(s) : (s \o t)[i] = s[i]
  BY <1>1, ConcatProperties
<1>. QED  BY <1>1, <1>2 DEF Extends

(* Nothing is ever removed from the tables, and the log keeps its entries.    *)
LEMMA TablesGrow ==
    ASSUME IInv, [Next]_vars, NEW e \in Events
    PROVE  /\ row[e] # None => row'[e] # None
           /\ Len(log[e]) \in Nat /\ Len(log'[e]) \in Nat /\ Len(log[e]) <= Len(log'[e])
           /\ \A i \in 1..Len(log[e]) : log'[e][i] = log[e][i]
           /\ Len(notes[e]) \in Nat /\ Len(notes'[e]) \in Nat /\ Len(notes[e]) <= Len(notes'[e])
<1>. DEFINE Goal == /\ row[e] # None => row'[e] # None
                    /\ Len(log[e]) \in Nat /\ Len(log'[e]) \in Nat /\ Len(log[e]) <= Len(log'[e])
                    /\ \A i \in 1..Len(log[e]) : log'[e][i] = log[e][i]
                    /\ Len(notes[e]) \in Nat /\ Len(notes'[e]) \in Nat
                    /\ Len(notes[e]) <= Len(notes'[e])
<1>. SUFFICES Goal
  OBVIOUS
<1>1. log[e] \in Seq(LogEntry) /\ notes[e] \in Seq(Clients)
  BY DEF IInv, TypeOK
<1>2. Len(log[e]) \in Nat /\ Len(notes[e]) \in Nat
  BY <1>1, LenProperties
<1>3. CASE UNCHANGED tables
  BY <1>2, <1>3 DEF tables
<1>4. ASSUME NEW d \in Clients, Commit(d) PROVE Goal
  <2>1. CASE e # req[d].event
    <3>1. row'[e] = row[e] /\ log'[e] = log[e] /\ notes' = notes
      BY <1>4, <2>1 DEF Commit, IInv, TypeOK
    <3>. QED  BY <1>2, <3>1
  <2>2. CASE e = req[d].event
    <3>1. tx[d].row \in Row /\ tx[d].log \in Seq(LogEntry)
      <4>1. pc[d] = "commit"
        BY <1>4 DEF Commit
      <4>2. /\ req[d] \in UpsertInput /\ req[d].status # "invalid"
            /\ row[e] \in Row \cup {None} /\ ~ LacksSnapshot(row[e], req[d])
            /\ tx[d].row = Written(row[e], req[d])
            /\ tx[d].log = Logged(row[e], req[d])
        BY <2>2, <4>1, CommitFacts
      <4>. QED  BY <4>2, WrittenType
    <3>2. row'[e] = tx[d].row /\ log'[e] = log[e] \o tx[d].log /\ notes' = notes
      BY <1>4, <2>2 DEF Commit, IInv, TypeOK
    <3>3. Extends(log[e], log'[e])
      BY <1>1, <3>1, <3>2, ConcatExtends
    <3>4. row'[e] # None
      BY <3>1, <3>2, TriageAssumption
    <3>5. notes'[e] = notes[e]
      BY <3>2
    <3>6. /\ Len(log[e]) \in Nat /\ Len(log'[e]) \in Nat /\ Len(log[e]) <= Len(log'[e])
          /\ \A i \in 1..Len(log[e]) : log'[e][i] = log[e][i]
      BY <3>3 DEF Extends
    <3>. QED  BY <1>2, <3>4, <3>5, <3>6
  <2>. QED  BY <2>1, <2>2
<1>5. ASSUME NEW d \in Clients, InsertNote(d) PROVE Goal
  <2>1. UNCHANGED <<row, log>>
    BY <1>5 DEF InsertNote
  <2>2. notes'[e] = notes[e] \/ notes'[e] = Append(notes[e], d)
    BY <1>5 DEF InsertNote, IInv, TypeOK
  <2>3. Len(Append(notes[e], d)) = Len(notes[e]) + 1
    BY <1>1, AppendProperties
  <2>. QED  BY <1>2, <2>1, <2>2, <2>3
<1>. QED
  BY <1>3, <1>4, <1>5
     DEF Next, Progress, vars, Crash, Arrive, RefuseUpsert, Begin, Read, Write,
         AppendLog, NotFound, CheckRow, GetRow, ListNotes, ListLog, Respond, Fail, Disconnect

LEMMA ExplainsGrows ==
    ASSUME IInv, [Next]_vars, NEW e \in Events, NEW n \in Nat, n <= Len(log[e]),
           NEW s, Explains(e, n, s)
    PROVE  \A k \in Nat : n <= k => Explains(e, k, s)'
<1>1. \A i \in 1..n : log'[e][i] = log[e][i]
  BY TablesGrow
<1>. QED  BY <1>1 DEF Explains

LEMMA InTablesGrows ==
    ASSUME IInv, [Next]_vars, NEW v \in Shown, InTables(v)
    PROVE  InTables(v)'
BY TablesGrow DEF InTables, Shown

-----------------------------------------------------------------------------
(* What another client's step leaves to c, and the ways c's request ends.     *)
Stays(c) ==
    /\ pc'[c] = pc[c] /\ req'[c] = req[c]
    /\ view'[c] = view[c] /\ status'[c] = status[c]
    /\ reply'[c] = reply[c] /\ shown'[c] = shown[c]

Ends(c) == RefuseUpsert(c) \/ NotFound(c) \/ Respond(c) \/ Fail(c) \/ Disconnect(c)

Works(c) ==
    \/ Begin(c) \/ Read(c) \/ Write(c) \/ AppendLog(c) \/ Commit(c)
    \/ CheckRow(c) \/ InsertNote(c) \/ GetRow(c) \/ ListNotes(c) \/ ListLog(c)

(* A step is c's own, or a crash, or leaves c alone.                          *)
LEMMA Locality ==
    ASSUME IInv, [Next]_vars, NEW c \in Clients
    PROVE  \/ Stays(c) \/ Crash \/ Ends(c) \/ Works(c)
           \/ \E q \in Request : Arrive(c, q)
<1>1. ASSUME NEW d \in Clients, NEW q \in Request, Arrive(d, q), d # c PROVE Stays(c)
  BY <1>1 DEF Arrive, Stays, IInv, TypeOK
<1>2. ASSUME NEW d \in Clients, Ends(d), d # c PROVE Stays(c)
  <2>1. End(d)
    BY <1>2 DEF Ends, RefuseUpsert, NotFound, Respond, Fail, Disconnect
  <2>2. pc'[c] = pc[c] /\ req'[c] = req[c] /\ view'[c] = view[c] /\ status'[c] = status[c]
    BY <1>2, <2>1 DEF End, IInv, TypeOK
  <2>3. reply'[c] = reply[c]
    BY <1>2 DEF Ends, RefuseUpsert, NotFound, Respond, Fail, Disconnect, client, IInv, TypeOK
  <2>4. shown'[c] = shown[c]
    BY <1>2 DEF Ends, RefuseUpsert, NotFound, Respond, Fail, Disconnect, client, IInv, TypeOK
  <2>. QED  BY <2>2, <2>3, <2>4 DEF Stays
<1>3. ASSUME NEW d \in Clients, Works(d), d # c PROVE Stays(c)
  <2>1. UNCHANGED <<req, reply, shown>>
    BY <1>3 DEF Works, Begin, Read, Write, AppendLog, Commit, CheckRow, InsertNote,
                GetRow, ListNotes, ListLog, locals, client
  <2>2. pc'[c] = pc[c]
    BY <1>3 DEF Works, Begin, Read, Write, AppendLog, Commit, CheckRow, InsertNote,
                GetRow, ListNotes, ListLog, IInv, TypeOK
  <2>3. view'[c] = view[c]
    BY <1>3 DEF Works, Begin, Read, Write, AppendLog, Commit, CheckRow, InsertNote,
                GetRow, ListNotes, ListLog, locals, IInv, TypeOK
  <2>4. status'[c] = status[c]
    BY <1>3 DEF Works, Begin, Read, Write, AppendLog, Commit, CheckRow, InsertNote,
                GetRow, ListNotes, ListLog, locals, IInv, TypeOK
  <2>. QED  BY <2>1, <2>2, <2>3, <2>4 DEF Stays
<1>4. CASE UNCHANGED vars
  BY <1>4 DEF vars, locals, client, Stays
<1>. QED  BY <1>1, <1>2, <1>3, <1>4 DEF Next, Progress, Ends, Works

(* Where a request has ended, nothing is held against it.                     *)
LEMMA EndedIdle ==
    ASSUME IInv, NEW c \in Clients, Crash \/ Ends(c)
    PROVE  pc'[c] = "idle"
BY DEF Crash, Ends, RefuseUpsert, NotFound, Respond, Fail, Disconnect, End, IInv, TypeOK

LEMMA ExplainedStep ==
    ASSUME IInv, LogChains, Explained, [Next]_vars
    PROVE  Explained'
<1>. SUFFICES ASSUME NEW c \in Clients
              PROVE  /\ pc'[c] \in {"notes", "logs"} =>
                           Explains(req[c].event, Len(log[req[c].event]), status[c])'
                     /\ pc'[c] = "reply" /\ req'[c].op = "get" =>
                           /\ view'[c].log <= Len(log'[req'[c].event])
                           /\ Explains(req[c].event, view[c].log, status[c])'
  BY DEF Explained
<1>. DEFINE e == req[c].event
            Goal == /\ pc'[c] \in {"notes", "logs"} =>
                          Explains(req[c].event, Len(log[req[c].event]), status[c])'
                    /\ pc'[c] = "reply" /\ req'[c].op = "get" =>
                          /\ view'[c].log <= Len(log'[req'[c].event])
                          /\ Explains(req[c].event, view[c].log, status[c])'
<1>1. CASE Stays(c) /\ pc[c] # "idle"
  <2>1. e \in Events /\ view[c].log \in Nat
    BY <1>1, InFlightFields DEF IInv, TypeOK, Shown
  <2>2. Extends(log[e], log'[e])
    BY <2>1, TablesGrow DEF Extends
  <2>3. pc[c] \in {"notes", "logs"} => \E i \in 1..Len(log'[e]) : log'[e][i].to = status[c]
    BY <2>2 DEF Explained, Explains, Extends
  <2>4. pc[c] = "reply" /\ req[c].op = "get" =>
           /\ view[c].log <= Len(log'[e])
           /\ \E i \in 1..view[c].log : log'[e][i].to = status[c]
    <3>. HAVE pc[c] = "reply" /\ req[c].op = "get"
    <3>1. view[c].log <= Len(log[e]) /\ \E i \in 1..view[c].log : log[e][i].to = status[c]
      BY DEF Explained, Explains
    <3>. QED  BY <2>1, <2>2, <3>1 DEF Extends
  <2>. QED  BY <1>1, <2>3, <2>4 DEF Stays, Explains
<1>2. CASE GetRow(c)
  <2>1. e \in Events /\ row[e] # None
    BY <1>2, InFlightFields DEF GetRow, IInv
  <2>2. log[e] # << >> /\ log[e] \in Seq(LogEntry) /\ log[e][Len(log[e])].to = row[e].status
    BY <2>1 DEF LogChains, IInv, TypeOK
  <2>3. Len(log[e]) \in 1..Len(log[e])
    BY <2>2, LenProperties, EmptySeq
  <2>4. /\ pc'[c] = "notes" /\ status'[c] = row[e].status
        /\ UNCHANGED <<log, req>>
    BY <1>2 DEF GetRow, tables, IInv, TypeOK
  <2>. QED  BY <2>2, <2>3, <2>4 DEF Explains
<1>3. CASE ListNotes(c)
  <2>1. pc[c] = "notes" /\ pc'[c] = "logs" /\ UNCHANGED <<log, req, status>>
    BY <1>3 DEF ListNotes, tables, IInv, TypeOK
  <2>. QED  BY <2>1 DEF Explained, Explains
<1>4. CASE ListLog(c)
  <2>1. pc[c] = "logs" /\ pc'[c] = "reply" /\ UNCHANGED <<log, req, status>>
        /\ view'[c].log = Len(log[e])
    BY <1>4 DEF ListLog, tables, IInv, TypeOK
  <2>2. e \in Events /\ Len(log[e]) \in Nat
    BY <2>1, InFlightFields, LenProperties DEF IInv, TypeOK
  <2>. QED  BY <2>1, <2>2 DEF Explained, Explains
<1>5. ASSUME \/ Begin(c) \/ Read(c) \/ Write(c) \/ AppendLog(c) \/ CheckRow(c)
             \/ Commit(c) \/ InsertNote(c)
      PROVE Goal
  <2>1. pc'[c] \notin {"notes", "logs"} /\ req' = req
    BY <1>5 DEF Begin, Read, Write, AppendLog, CheckRow, Commit, InsertNote, locals, IInv, TypeOK
  <2>2. CASE Commit(c) \/ InsertNote(c)
    <3>1. req[c].op # "get"
      BY <2>2 DEF Commit, InsertNote, IInv, Phase, InTx
    <3>. QED  BY <2>1, <3>1
  <2>3. CASE Begin(c) \/ Read(c) \/ Write(c) \/ AppendLog(c) \/ CheckRow(c)
    <3>1. pc'[c] # "reply"
      BY <2>3 DEF Begin, Read, Write, AppendLog, CheckRow, IInv, TypeOK
    <3>. QED  BY <2>1, <3>1
  <2>. QED  BY <1>5, <2>2, <2>3
<1>6. ASSUME pc'[c] \in {"idle", "begin", "check", "row"} PROVE Goal
  BY <1>6
<1>7. ASSUME NEW q \in Request, Arrive(c, q) PROVE Goal
  <2>1. pc'[c] \in {"begin", "check", "row"}
    BY <1>7, RequestFields DEF Arrive, IInv, TypeOK
  <2>. QED  BY <1>6, <2>1
<1>8. CASE Crash \/ Ends(c)
  BY <1>6, <1>8, EndedIdle
<1>9. CASE Stays(c) /\ pc[c] = "idle"
  BY <1>6, <1>9 DEF Stays
<1>. QED  BY <1>1, <1>2, <1>3, <1>4, <1>5, <1>7, <1>8, <1>9, Locality DEF Works

LEMMA AnswersStep ==
    ASSUME IInv, Answers, [Next]_vars
    PROVE  Answers'
<1>. SUFFICES ASSUME NEW c \in Clients, AnswersAt(c)
              PROVE  AnswersAt(c)'
  BY DEF Answers
<1>. DEFINE e == req[c].event
<1>1. shown[c] \in Shown /\ view[c] \in Shown /\ InTables(shown[c])
  BY DEF IInv, TypeOK, AnswersAt
<1>2. CASE Stays(c)
  <2>1. InTables(shown[c])'
    <3>1. shown'[c] = shown[c]
      BY <1>2 DEF Stays
    <3>. QED  BY <1>1, <3>1, InTablesGrows DEF InTables
  <2>2. pc[c] = "reply" => InTables(view[c])'
    <3>1. view'[c] = view[c]
      BY <1>2 DEF Stays
    <3>. QED  BY <1>1, <3>1, InTablesGrows DEF InTables, AnswersAt
  <2>3. pc[c] = "logs" => view[c].notes <= Len(notes'[e])
    <3>. HAVE pc[c] = "logs"
    <3>1. e \in Events /\ view[c].notes \in Nat
      BY <1>1, InFlightFields DEF IInv, Shown
    <3>2. Len(notes[e]) \in Nat /\ Len(notes'[e]) \in Nat /\ Len(notes[e]) <= Len(notes'[e])
      BY <3>1, TablesGrow
    <3>. QED  BY <3>1, <3>2 DEF AnswersAt
  <2>. QED  BY <1>2, <2>1, <2>2, <2>3 DEF Stays, AnswersAt
<1>3. ASSUME pc'[c] \in {"idle", "begin", "check", "row"}, shown'[c] = shown[c],
             pc'[c] # "idle" => reply'[c] = "none"
      PROVE  AnswersAt(c)'
  <2>1. InTables(shown[c])'
    BY <1>1, <1>3, InTablesGrows DEF InTables
  <2>. QED  BY <1>3, <2>1 DEF AnswersAt
<1>4. ASSUME NEW q \in Request, Arrive(c, q) PROVE AnswersAt(c)'
  <2>1. pc'[c] \in {"begin", "check", "row"} /\ reply'[c] = "none" /\ shown' = shown
    BY <1>4, RequestFields DEF Arrive, IInv, TypeOK
  <2>. QED  BY <1>3, <2>1
<1>5. CASE Crash \/ RefuseUpsert(c) \/ NotFound(c) \/ Fail(c) \/ Disconnect(c)
  <2>1. shown' = shown
    BY <1>5 DEF Crash, RefuseUpsert, NotFound, Fail, Disconnect, client
  <2>. QED  BY <1>3, <1>5, <2>1, EndedIdle DEF Ends
<1>6. CASE Respond(c)
  <2>1. pc'[c] = "idle" /\ shown'[c] = view[c] /\ pc[c] = "reply"
    BY <1>6, EndedIdle DEF Ends, Respond, IInv, TypeOK
  <2>2. InTables(shown[c])'
    BY <1>1, <2>1, InTablesGrows DEF InTables, AnswersAt
  <2>. QED  BY <2>1, <2>2 DEF AnswersAt
<1>7. CASE Works(c)
  <2>1. e \in Events /\ e # None
    BY <1>7, InFlightFields, TriageAssumption
       DEF Works, Begin, Read, Write, AppendLog, Commit, CheckRow, InsertNote,
           GetRow, ListNotes, ListLog, IInv
  <2>2. UNCHANGED <<req, reply, shown>> /\ reply[c] = "none"
    BY <1>7 DEF Works, Begin, Read, Write, AppendLog, Commit, CheckRow, InsertNote,
                GetRow, ListNotes, ListLog, locals, client, AnswersAt
  <2>3. InTables(shown[c])'
    BY <1>1, <2>2, InTablesGrows DEF InTables
  <2>4. /\ Len(log[e]) \in Nat /\ Len(notes[e]) \in Nat
        /\ shown[c].event = e => shown[c].log <= Len(log[e]) /\ shown[c].notes <= Len(notes[e])
    BY <1>1, <2>1, TablesGrow DEF InTables
  <2>5. CASE Commit(c)
    <3>1. req[c].op # "get" /\ pc[c] = "commit" /\ pc'[c] = "reply"
      BY <2>5 DEF Commit, IInv, TypeOK, Phase, InTx
    <3>2. row'[e] \in Row
      BY <2>1, <2>5, <3>1, CommitFacts DEF Commit, IInv, TypeOK
    <3>3. view'[c] = [event |-> e, notes |-> 0, log |-> Len(log'[e])]
      BY <2>1, <2>5 DEF Commit, IInv, TypeOK
    <3>4. Len(log'[e]) \in Nat /\ Len(notes'[e]) \in Nat
      BY <2>1, TablesGrow
    <3>5. InTables(view[c])'
      BY <3>2, <3>3, <3>4, TriageAssumption DEF InTables
    <3>. QED  BY <2>2, <2>3, <3>1, <3>3, <3>5 DEF AnswersAt
  <2>6. CASE InsertNote(c)
    <3>1. req[c].op # "get" /\ pc'[c] = "reply" /\ row[e] # None /\ row' = row
      BY <2>6 DEF InsertNote, IInv, TypeOK, Phase
    <3>2. notes[e] \in Seq(Clients) /\ notes'[e] = Append(notes[e], c)
      BY <2>1, <2>6 DEF InsertNote, IInv, TypeOK
    <3>3. Len(Append(notes[e], c)) = Len(notes[e]) + 1
      BY <3>2, AppendProperties
    <3>4. view'[c] = [event |-> e, log |-> 0, notes |-> Len(notes[e]) + 1]
      BY <2>6 DEF InsertNote, IInv, TypeOK
    <3>5. Len(log'[e]) \in Nat
      BY <2>1, TablesGrow
    <3>6. InTables(view[c])'
      BY <2>4, <3>1, <3>2, <3>3, <3>4, <3>5 DEF InTables
    <3>. QED  BY <2>2, <2>3, <3>1, <3>4, <3>6 DEF AnswersAt
  <2>7. CASE ListNotes(c)
    <3>1. pc'[c] = "logs" /\ view'[c].notes = Len(notes[e]) /\ notes' = notes
      BY <2>7 DEF ListNotes, tables, IInv, TypeOK
    <3>. QED  BY <2>2, <2>3, <2>4, <3>1 DEF AnswersAt
  <2>8. CASE ListLog(c)
    <3>1. /\ pc[c] = "logs" /\ pc'[c] = "reply" /\ UNCHANGED tables
          /\ view'[c] = [event |-> e, log |-> Len(log[e]), notes |-> view[c].notes]
      BY <2>8 DEF ListLog, IInv, TypeOK
    <3>2. row[e] # None /\ view[c].notes <= Len(notes[e])
      BY <3>1 DEF IInv, Standing, AnswersAt
    <3>3. InTables(view[c])'
      BY <2>4, <3>1, <3>2 DEF InTables, tables
    <3>4. shown[c].event = e /\ req[c].op = "get" =>
             shown[c].notes <= view[c].notes /\ shown[c].log <= Len(log[e])
      BY <2>4, <3>1 DEF AnswersAt
    <3>. QED  BY <2>2, <2>3, <3>1, <3>3, <3>4 DEF AnswersAt
  <2>9. CASE \/ Begin(c) \/ Read(c) \/ Write(c) \/ AppendLog(c) \/ CheckRow(c) \/ GetRow(c)
    <3>1. pc'[c] \notin {"logs", "reply"}
      BY <2>9 DEF Begin, Read, Write, AppendLog, CheckRow, GetRow, IInv, TypeOK
    <3>. QED  BY <2>2, <2>3, <3>1 DEF AnswersAt
  <2>. QED  BY <1>7, <2>5, <2>6, <2>7, <2>8, <2>9 DEF Works
<1>. QED  BY <1>2, <1>4, <1>5, <1>6, <1>7, Locality DEF Ends

-----------------------------------------------------------------------------
LEMMA AInvInit == Init => Explained /\ Answers
BY DEF Init, Explained, Answers, AnswersAt, InTables, Nothing

(* The inductive invariant.                                                   *)
THEOREM AnswerInvariance == Spec => []AInv
<1>1. AInv /\ [Next]_vars => Explained' /\ Answers'
  BY ExplainedStep, AnswersStep DEF AInv
<1>. QED  BY <1>1, AInvInit, Invariance, LogIsHistory, PTL DEF Spec, AInv

(* A detail's status is explained by the log it shows.                        *)
THEOREM DetailIsExplained == Spec => []LogExplainsDetail
<1>1. AInv => LogExplainsDetail
  BY DEF AInv, Explained, Explains, LogExplainsDetail
<1>. QED  BY <1>1, AnswerInvariance, PTL

(* What a client was told is there when it looks again.                       *)
THEOREM AcknowledgedIsShown == Spec => AckedIsShown
<1>. DEFINE Shows(c) ==
         /\ pc[c] # "idle" /\ pc'[c] = "idle"
         /\ req[c].op = "get" /\ shown[c].event = req[c].event
         => /\ reply'[c] # "notfound"
            /\ reply'[c] = "ok" =>
                  shown'[c].log >= shown[c].log /\ shown'[c].notes >= shown[c].notes
<1>1. ASSUME AInv, [Next]_vars, NEW c \in Clients PROVE Shows(c)
  <2>. SUFFICES ASSUME pc[c] # "idle", pc'[c] = "idle",
                       req[c].op = "get", shown[c].event = req[c].event
                PROVE  /\ reply'[c] # "notfound"
                       /\ reply'[c] = "ok" => /\ shown'[c].log >= shown[c].log
                                              /\ shown'[c].notes >= shown[c].notes
    OBVIOUS
  <2>. USE DEF AInv, Answers, AnswersAt
  <2>1. reply[c] = "none" /\ IInv
    BY <1>1
  <2>2. row[req[c].event] # None
    <3>1. req[c].event \in Events
      BY <2>1, InFlightFields DEF IInv
    <3>. QED  BY <1>1, <3>1, TriageAssumption DEF InTables
  <2>3. CASE Respond(c)
    <3>1. pc[c] = "reply" /\ reply'[c] = "ok" /\ shown'[c] = view[c]
      BY <2>1, <2>3 DEF Respond, IInv, TypeOK
    <3>2. shown[c].log <= view[c].log /\ shown[c].notes <= view[c].notes
      BY <1>1, <3>1
    <3>3. shown[c] \in Shown /\ view[c] \in Shown
      BY <2>1 DEF IInv, TypeOK
    <3>. QED  BY <3>1, <3>2, <3>3 DEF Shown
  <2>4. CASE Crash \/ RefuseUpsert(c) \/ NotFound(c) \/ Fail(c) \/ Disconnect(c)
    BY <2>1, <2>2, <2>4 DEF Crash, RefuseUpsert, NotFound, Fail, Disconnect, client, IInv, TypeOK
  <2>5. CASE Stays(c) \/ Works(c)
    BY <2>1, <2>5 DEF Stays, Works, Begin, Read, Write, AppendLog, Commit, CheckRow, InsertNote,
                GetRow, ListNotes, ListLog, IInv, TypeOK
  <2>6. ASSUME NEW q \in Request, Arrive(c, q) PROVE FALSE
    BY <2>6 DEF Arrive
  <2>. QED  BY <1>1, <2>1, <2>3, <2>4, <2>5, <2>6, Locality DEF Ends
<1>2. AInv /\ [Next]_vars => [\A c \in Clients : Shows(c)]_vars
  BY <1>1
<1>. QED  BY <1>2, AnswerInvariance, PTL DEF Spec, AckedIsShown

-----------------------------------------------------------------------------
(* A commit changes its event's row as Written says and logs what Logged says. *)
LEMMA CommittingCommits ==
    ASSUME IInv, [Next]_vars, NEW c \in Clients, Committing(c)
    PROVE  Commit(c)
<1>1. pc[c] = "commit" /\ pc'[c] = "reply"
  BY DEF Committing
<1>2. ~ Stays(c) /\ ~ Crash /\ ~ Ends(c)
  BY <1>1, EndedIdle DEF Stays
<1>3. ASSUME NEW q \in Request, Arrive(c, q) PROVE FALSE
  BY <1>1, <1>3 DEF Arrive
<1>4. Works(c)
  BY <1>2, <1>3, Locality
<1>. QED
  BY <1>1, <1>4 DEF Works, Begin, Read, Write, AppendLog, CheckRow, InsertNote,
                    GetRow, ListNotes, ListLog

LEMMA CommitEffect ==
    ASSUME IInv, [Next]_vars, NEW c \in Clients, Committing(c), NEW e, e = req[c].event
    PROVE  /\ row'[e] = Written(row[e], req[c])
           /\ log'[e] = log[e] \o Logged(row[e], req[c])
           /\ log[e] \in Seq(LogEntry) /\ row[e] \in Row \cup {None}
           /\ req[c] \in UpsertInput
<1>1. Commit(c) /\ pc[c] = "commit"
  BY CommittingCommits DEF Committing
<1>2. /\ e \in Events /\ req[c] \in UpsertInput /\ row[e] \in Row \cup {None}
      /\ tx[c].row = Written(row[e], req[c])
      /\ tx[c].log = Logged(row[e], req[c])
  BY <1>1, CommitFacts
<1>3. log[e] \in Seq(LogEntry)
  BY <1>2 DEF IInv, TypeOK
<1>4. row'[e] = tx[c].row /\ log'[e] = log[e] \o tx[c].log
  BY <1>1, <1>2 DEF Commit, IInv, TypeOK
<1>. QED  BY <1>2, <1>3, <1>4

(* No update is lost: a field a request leaves out keeps its value.           *)
THEOREM NoLostUpdates == Spec => OnlyNamedFieldsChange
<1>. DEFINE Keeps(c) ==
         Committing(c) /\ row[req[c].event] # None =>
            LET q == req[c]  x == row[q.event]  y == row'[q.event]
            IN  /\ q.status = None => y.status = x.status
                /\ q.assignee = None /\ ~ q.clear => y.assignee = x.assignee
                /\ y.snapshot = x.snapshot
<1>1. ASSUME IInv, [Next]_vars, NEW c \in Clients PROVE Keeps(c)
  <2>. SUFFICES ASSUME NEW e, e = req[c].event, Committing(c), row[e] # None
                PROVE  /\ req[c].status = None => row'[e].status = row[e].status
                       /\ req[c].assignee = None /\ ~ req[c].clear =>
                             row'[e].assignee = row[e].assignee
                       /\ row'[e].snapshot = row[e].snapshot
    OBVIOUS
  <2>1. row'[e] = Updated(row[e], req[c])
    BY <1>1, CommitEffect DEF Written
  <2>. QED  BY <2>1 DEF Updated
<1>2. IInv /\ [Next]_vars => [\A c \in Clients : Keeps(c)]_vars
  BY <1>1
<1>. QED  BY <1>2, Invariance, PTL DEF Spec, OnlyNamedFieldsChange

(* What an upsert has written is what it asks for, so that the same request   *)
(* sent again, with no other in between, finds itself satisfied and logs      *)
(* nothing.  The exception is a request to open a row that names an assignee  *)
(* and clears it too: the insert path does not look at clear (repo.go:96-119) *)
(* and the update path prefers it (repo.go:138), so that the second changes   *)
(* what the first wrote.                                                      *)
THEOREM UpsertMeetsItself ==
    ASSUME NEW x \in Row \cup {None}, NEW q \in UpsertInput,
           q.status # "invalid", ~ LacksSnapshot(x, q),
           x = None => q.assignee = None \/ ~ q.clear
    PROVE  /\ Satisfied(Written(x, q), q)
           /\ Logged(Written(x, q), q) = << >>
<1>1. None \notin Row /\ "open" \in Statuses /\ None \notin Statuses
  BY TriageAssumption
<1>2. Written(x, q).status = IF q.status # None THEN q.status
                             ELSE IF x = None THEN "open" ELSE x.status
  BY DEF Written, Inserted, Updated
<1>3. IF q.clear THEN Written(x, q).assignee = None
      ELSE q.assignee \in {None, Written(x, q).assignee}
  BY DEF Written, Inserted, Updated
<1>4. Written(x, q) # None
  <2>1. Written(x, q) \in Row
    BY WrittenType
  <2>. QED  BY <1>1, <2>1
<1>5. q.status \in {None, Written(x, q).status}
  BY <1>2
<1>. QED  BY <1>3, <1>4, <1>5 DEF Satisfied, Logged

(* An upsert whose wishes are already met changes no status, assignee or      *)
(* evidence, and adds no log entry.                                           *)
THEOREM RetriesAreHarmless == Spec => RetryIsHarmless
<1>. DEFINE Same(c) ==
         LET e == req[c].event
         IN  Committing(c) /\ Satisfied(row[e], req[c]) =>
                 /\ row'[e].status = row[e].status
                 /\ row'[e].assignee = row[e].assignee
                 /\ row'[e].snapshot = row[e].snapshot
                 /\ log'[e] = log[e]
<1>1. ASSUME IInv, [Next]_vars, NEW c \in Clients PROVE Same(c)
  <2>. SUFFICES ASSUME NEW e, e = req[c].event, Committing(c), Satisfied(row[e], req[c])
                PROVE  /\ row'[e].status = row[e].status
                       /\ row'[e].assignee = row[e].assignee
                       /\ row'[e].snapshot = row[e].snapshot
                       /\ log'[e] = log[e]
    OBVIOUS
  <2>1. /\ row'[e] = Written(row[e], req[c]) /\ log'[e] = log[e] \o Logged(row[e], req[c])
        /\ log[e] \in Seq(LogEntry) /\ row[e] \in Row /\ row[e] # None
    BY <1>1, CommitEffect DEF Satisfied
  <2>2. Logged(row[e], req[c]) = << >>
    BY <2>1 DEF Satisfied, Logged
  <2>3. row'[e] = Updated(row[e], req[c])
    BY <2>1 DEF Written
  <2>4. /\ row'[e].status = row[e].status
        /\ row'[e].assignee = row[e].assignee
        /\ row'[e].snapshot = row[e].snapshot
    BY <2>3 DEF Satisfied, Updated
  <2>. QED  BY <2>1, <2>2, <2>4, ConcatEmptySeq
<1>2. IInv /\ [Next]_vars => [\A c \in Clients : Same(c)]_vars
  BY <1>1
<1>. QED  BY <1>2, Invariance, PTL DEF Spec, RetryIsHarmless
=============================================================================
