--------------------------- MODULE SlideOverProofs --------------------------
(***************************************************************************)
(* Proofs about the triage panel, for any alerts, any number of calls and  *)
(* of writes by other users.                                               *)
(***************************************************************************)
EXTENDS SlideOver, TLAPS

Req == UpsertInput \cup [op : {"note"}, event : Events]

(* A call is made for the alert on screen; what it needs is there when it is *)
(* sent, and what it wrote when it is done.                                  *)
CallOK(c) ==
    InFlight(c) =>
        /\ call[c].from = call[c].req.event
        /\ call[c].req.op = "note" \/ call[c].req.snapshot = None => row[call[c].req.event] # None
        /\ call[c].req.op = "upsert" => call[c].req.status # "invalid"
        /\ call[c].phase = "done" => /\ row[call[c].req.event] # None
                                     /\ call[c].ver <= ver[call[c].req.event]

(* What is cached or on its way was there, and is as new as is owed.         *)
EventOK(e) ==
    /\ detail[e].data # None => row[e] # None
    /\ fetch[e] # None /\ fetch[e].phase = "found" => row[e] # None /\ fetch[e].data.ver >= owed[e]
    /\ owed[e] <= ver[e]
    /\ fetch[e] = None /\ ~ detail[e].failed /\ detail[e].data # None => detail[e].data.ver >= owed[e]

IInv ==
    /\ TypeOK
    /\ \A c \in Clients : CallOK(c)
    /\ \A e \in Events : EventOK(e)
    /\ NotesStayHome

-----------------------------------------------------------------------------
(* Data. *)

LEMMA SentType ==
    ASSUME NEW req \in Req, NEW then \in Clients \cup {None}, shown \in Events
    PROVE  /\ Sent(req, then) \in Call
           /\ Sent(req, then).req = req /\ Sent(req, then).then = then
           /\ Sent(req, then).from = shown
           /\ Sent(req, then).phase = "sent" /\ Sent(req, then).ver = 0
BY DEF Sent, Call, Req

LEMMA OverType == Over \in Call /\ Over.phase = "over"
BY DEF Over, Call

(* A call that is not over.                                                  *)
LEMMA CallFields ==
    ASSUME NEW x \in Call, x.phase # "over"
    PROVE  /\ x \in [req : Req, then : Clients \cup {None}, from : Events, ver : Nat,
                     phase : {"sent", "done"}]
           /\ x.req \in Req /\ x.req.event \in Events /\ x.then \in Clients \cup {None}
           /\ x.from \in Events /\ x.ver \in Nat
<1>1. x \in [req : Req, then : Clients \cup {None}, from : Events, ver : Nat, phase : {"sent", "done"}]
  BY DEF Call, Req
<1> QED BY <1>1 DEF Req, UpsertInput

LEMMA DoneType ==
    ASSUME NEW x \in Call, x.phase # "over", NEW v \in Nat
    PROVE  LET y == [x EXCEPT !.phase = "done", !.ver = v]
           IN  /\ y \in Call /\ y.phase = "done" /\ y.ver = v
               /\ y.req = x.req /\ y.from = x.from /\ y.then = x.then
<1>1. x \in [req : Req, then : Clients \cup {None}, from : Events, ver : Nat, phase : {"sent", "done"}]
  BY CallFields
<1> HIDE DEF Req
<1> DEFINE y == [x EXCEPT !.phase = "done", !.ver = v]
<1>2. /\ y \in [req : Req, then : Clients \cup {None}, from : Events, ver : Nat, phase : {"sent", "done"}]
      /\ y.phase = "done" /\ y.ver = v /\ y.req = x.req /\ y.from = x.from /\ y.then = x.then
  BY <1>1
<1>3. y \in Call
  BY <1>2 DEF Call, Req
<1> QED BY <1>2, <1>3

(* An upsert of a row that is there, or with evidence, leaves a row.         *)
LEMMA WrittenIsRow ==
    ASSUME NEW x \in Row \cup {None}, NEW q \in UpsertInput, q.status # "invalid",
           ~ LacksSnapshot(x, q)
    PROVE  Written(x, q) \in Row /\ Written(x, q) # None
<1>1. Written(x, q) \in Row
  BY TriageAssumption DEF Written, Inserted, Updated, LacksSnapshot, UpsertInput, Row
<1> QED BY <1>1, TriageAssumption

(* The assignee that a cache shows is a text.                                *)
LEMMA AssignedIsText ==
    ASSUME NEW cache \in [Events -> Cached], NEW e \in Events \cup {None}
    PROVE  Text(Assigned(cache, e)) \in Assignees \cup {None}
<1>1. CASE e = None \/ cache[e].data = None
  BY <1>1 DEF Assigned, Text
<1>2. CASE e # None /\ cache[e].data # None
  <2>1. cache[e].data \in Detail
    BY <1>2 DEF Cached
  <2>2. cache[e].data.row.assignee \in Assignees \cup {None}
    BY <2>1 DEF Detail, Row
  <2> QED BY <1>2, <2>2 DEF Assigned, Text
<1> QED BY <1>1, <1>2

-----------------------------------------------------------------------------
(* What steps have in common. *)

(* Rows stay, and writes are counted.                                        *)
RowsKept ==
    \A e \in Events : /\ row[e] # None => row'[e] # None
                      /\ ver'[e] \in Nat /\ ver[e] <= ver'[e]

LEMMA VersNat ==
    ASSUME TypeOK, NEW e \in Events
    PROVE  ver[e] \in Nat /\ owed[e] \in Nat
BY DEF TypeOK

LEMMA RowsUnchanged ==
    ASSUME TypeOK, UNCHANGED server
    PROVE  RowsKept
BY VersNat DEF RowsKept, server

(* A call that nothing happens to.                                           *)
LEMMA CallKept ==
    ASSUME IInv, RowsKept, NEW c \in Clients, call'[c] = call[c]
    PROVE  CallOK(c)'
<1> SUFFICES ASSUME InFlight(c)'
             PROVE  /\ call[c].from = call[c].req.event
                    /\ call[c].req.op = "note" \/ call[c].req.snapshot = None => row'[call[c].req.event] # None
                    /\ call[c].req.op = "upsert" => call[c].req.status # "invalid"
                    /\ call[c].phase = "done" => /\ row'[call[c].req.event] # None
                                                 /\ call[c].ver <= ver'[call[c].req.event]
    BY DEF CallOK, InFlight
<1>1. InFlight(c) /\ CallOK(c)
  BY DEF InFlight, IInv
<1>2. call[c] \in Call /\ call[c].phase # "over"
  BY <1>1 DEF InFlight, IInv, TypeOK
<1>3. call[c].req.event \in Events /\ call[c].ver \in Nat
  BY <1>2, CallFields
<1>4. ver[call[c].req.event] \in Nat
  BY <1>3, VersNat DEF IInv
<1> QED BY <1>1, <1>3, <1>4 DEF CallOK, RowsKept

(* An alert whose query nothing happens to.                                  *)
LEMMA EventKept ==
    ASSUME IInv, RowsKept, NEW e \in Events,
           detail'[e] = detail[e], fetch'[e] = fetch[e], owed'[e] = owed[e]
    PROVE  EventOK(e)'
<1>1. EventOK(e) /\ ver[e] \in Nat /\ owed[e] \in Nat
  BY VersNat DEF IInv
<1>2. (row[e] # None => row'[e] # None) /\ ver'[e] \in Nat /\ ver[e] <= ver'[e]
  BY DEF RowsKept
<1> QED BY <1>1, <1>2 DEF EventOK

LEMMA SentFetch ==
    /\ [phase |-> "sent"] \in Fetch
    /\ [phase |-> "sent"] # None
BY FetchAssumption DEF Fetch

(* An alert whose query is fetched again.                                    *)
LEMMA EventStarted ==
    ASSUME IInv, RowsKept, NEW e \in Events,
           detail'[e] = detail[e], fetch'[e] = [phase |-> "sent"], owed'[e] <= ver'[e]
    PROVE  EventOK(e)'
<1>1. EventOK(e)
  BY DEF IInv
<1>2. row[e] # None => row'[e] # None
  BY DEF RowsKept
<1>3. fetch'[e] # None /\ fetch'[e].phase # "found"
  BY SentFetch
<1> QED BY <1>1, <1>2, <1>3 DEF EventOK

LEMMA StartType ==
    ASSUME TypeOK, NEW e \in Events
    PROVE  /\ Start(e) \in [Events -> Fetch \cup {None}]
           /\ Start(e)[e] = [phase |-> "sent"]
           /\ \A f \in Events : f # e => Start(e)[f] = fetch[f]
BY SentFetch DEF Start, TypeOK

(* The server, the cache and the calls stay; a query may be fetched.         *)
LEMMA PanelStep ==
    ASSUME IInv, UNCHANGED <<server, foreign, detail, call, owed>>,
           fetch' = fetch \/ \E e \in Events : fetch' = Start(e),
           opens' \in 0..MaxOpens, shown' \in Events \cup {None},
           focus' \in {"none", "assignee", "note"}, assigneeDraft' \in Assignees \cup {None},
           noteDraft' \in BOOLEAN, upsert' \in Clients \cup {None}, append' \in Clients \cup {None}
    PROVE  IInv'
<1>1. TypeOK /\ RowsKept
  BY RowsUnchanged DEF IInv
<1>2. fetch' \in [Events -> Fetch \cup {None}]
  BY <1>1, StartType DEF TypeOK
<1>3. TypeOK'
  BY <1>1, <1>2 DEF TypeOK, server
<1>4. \A c \in Clients : CallOK(c)'
  BY <1>1, CallKept
<1>5. ASSUME NEW e \in Events PROVE EventOK(e)'
  <2>1. fetch'[e] = fetch[e] \/ fetch'[e] = [phase |-> "sent"]
    BY <1>1, StartType
  <2>2. owed'[e] <= ver'[e]
    BY <1>5 DEF IInv, EventOK, server
  <2> QED BY <1>1, <2>1, <2>2, EventKept, EventStarted
<1>6. NotesStayHome'
  BY DEF IInv, NotesStayHome, server
<1> QED BY <1>3, <1>4, <1>5, <1>6 DEF IInv

(* The call of c is replaced by one that is as it should be.                 *)
LEMMA SendKeeps ==
    ASSUME IInv, NEW c \in Clients, NEW req \in Req, NEW then \in Clients \cup {None},
           shown \in Events, req.event = shown,
           req.op = "note" \/ req.snapshot = None => row[shown] # None,
           req.op = "upsert" => req.status # "invalid",
           call' = [call EXCEPT ![c] = Sent(req, then)],
           upsert' \in Clients \cup {None}, append' \in Clients \cup {None},
           UNCHANGED <<server, foreign, panel, detail, fetch, owed>>
    PROVE  IInv'
<1>1. TypeOK /\ RowsKept
  BY RowsUnchanged DEF IInv
<1>2. /\ Sent(req, then) \in Call
      /\ Sent(req, then).req = req /\ Sent(req, then).from = shown
      /\ Sent(req, then).phase = "sent"
  BY SentType
<1>3. /\ call \in [Clients -> Call \cup {None}]
      /\ call' \in [Clients -> Call \cup {None}]
      /\ call'[c] = Sent(req, then)
      /\ \A d \in Clients : d # c => call'[d] = call[d]
  BY <1>1, <1>2 DEF TypeOK
<1>4. TypeOK'
  BY <1>1, <1>3 DEF TypeOK, server, panel
<1>5. ASSUME NEW d \in Clients PROVE CallOK(d)'
  <2>1. CASE d = c
    BY <1>2, <1>3, <2>1 DEF CallOK, server
  <2>2. CASE d # c
    BY <1>1, <1>3, <2>2, CallKept
  <2> QED BY <2>1, <2>2
<1>6. \A e \in Events : EventOK(e)'
  BY <1>1, EventKept
<1>7. NotesStayHome'
  BY DEF IInv, NotesStayHome, server
<1> QED BY <1>4, <1>5, <1>6, <1>7 DEF IInv

(* A loaded detail is of a row that is there.                                *)
LEMMA LoadedRow ==
    ASSUME IInv, shown \in Events, Loaded
    PROVE  row[shown] # None
BY DEF IInv, EventOK, Loaded

LEMMA NoneApart ==
    /\ \A x \in Snapshots \cup Statuses \cup Events \cup Clients : x # None
    /\ "invalid" \notin Statuses /\ "open" \in Statuses /\ "invalid" # None
BY TriageAssumption

-----------------------------------------------------------------------------
(* The user. *)

LEMMA OpenKeeps ==
    ASSUME IInv, NEW e \in Events, Open(e)
    PROVE  IInv'
<1>1. TypeOK
  BY DEF IInv
<1>2. Text(Assigned(detail, e)) \in Assignees \cup {None}
  BY <1>1, AssignedIsText DEF TypeOK
<1>3. fetch' = fetch \/ fetch' = Start(e)
  BY DEF Open, Mounted
<1>4. opens' \in 0..MaxOpens
  BY <1>1, PanelAssumption DEF Open, TypeOK
<1>5. /\ shown' \in Events \cup {None}
      /\ focus' \in {"none", "assignee", "note"} /\ noteDraft' \in BOOLEAN
      /\ upsert' \in Clients \cup {None} /\ append' \in Clients \cup {None}
      /\ assigneeDraft' \in Assignees \cup {None}
  BY <1>1, <1>2 DEF Open, TypeOK
<1>6. UNCHANGED <<server, foreign, detail, call, owed>>
  BY DEF Open
<1> QED BY <1>3, <1>4, <1>5, <1>6, PanelStep

LEMMA SwitchKeeps ==
    ASSUME IInv, NEW e \in Events, Switch(e)
    PROVE  IInv'
<1>1. TypeOK
  BY DEF IInv
<1>2. Text(Assigned(detail, e)) \in Assignees \cup {None}
  BY <1>1, AssignedIsText DEF TypeOK
<1>3. fetch' = fetch \/ fetch' = Start(e)
  BY DEF Switch, Mounted
<1>4. opens' \in 0..MaxOpens
  BY <1>1, PanelAssumption DEF Switch, TypeOK
<1>5. /\ shown' \in Events \cup {None}
      /\ focus' \in {"none", "assignee", "note"} /\ noteDraft' \in BOOLEAN
      /\ upsert' \in Clients \cup {None} /\ append' \in Clients \cup {None}
      /\ assigneeDraft' \in Assignees \cup {None}
  BY <1>1, <1>2 DEF Switch, SyncAssignee, TypeOK
<1>6. UNCHANGED <<server, foreign, detail, call, owed>>
  BY DEF Switch
<1> QED BY <1>3, <1>4, <1>5, <1>6, PanelStep

LEMMA FieldsKeep ==
    ASSUME IInv,
           \/ Close
           \/ \E field \in {"none", "assignee"} : Focus(field)
           \/ \E text \in Assignees \cup {None} : TypeAssignee(text)
           \/ TypeNote
    PROVE  IInv'
<1>1. TypeOK
  BY DEF IInv
<1>2. UNCHANGED <<server, foreign, detail, call, owed, fetch, opens>>
  BY DEF Close, Focus, TypeAssignee, TypeNote
<1>3. /\ shown' \in Events \cup {None}
      /\ focus' \in {"none", "assignee", "note"} /\ noteDraft' \in BOOLEAN
      /\ upsert' \in Clients \cup {None} /\ append' \in Clients \cup {None}
      /\ assigneeDraft' \in Assignees \cup {None}
  BY <1>1 DEF Close, Focus, TypeAssignee, TypeNote, TypeOK
<1>4. opens' \in 0..MaxOpens /\ fetch' = fetch
  BY <1>1, <1>2 DEF TypeOK
<1> QED BY <1>2, <1>3, <1>4, PanelStep

(* The request of a status button, the assignee form or a first note.        *)
LEMMA UpsertRequest ==
    ASSUME shown \in Events, NEW status \in Statuses \cup {None},
           NEW assignee \in Assignees \cup {None}, NEW clear \in BOOLEAN,
           NEW snapshot \in Snapshots \cup {None}
    PROVE  LET q == [op |-> "upsert", event |-> shown, status |-> status, assignee |-> assignee,
                     clear |-> clear, snapshot |-> snapshot]
           IN  q \in Req /\ q.op = "upsert" /\ q.event = shown /\ q.status # "invalid"
               /\ q.snapshot = snapshot
BY NoneApart DEF Req, UpsertInput

LEMMA EvidenceOrRow ==
    ASSUME IInv, shown \in Events, NEW snapshot \in EnsureSnapshot
    PROVE  snapshot \in Snapshots \cup {None} /\ (snapshot = None => row[shown] # None)
BY LoadedRow, NoneApart DEF EnsureSnapshot

LEMMA SetStatusKeeps ==
    ASSUME IInv, NEW c \in Clients, NEW status \in Statuses, SetStatus(c, status)
    PROVE  IInv'
<1>1. TypeOK /\ shown \in Events
  BY DEF IInv, TypeOK, SetStatus
<1>2. PICK snapshot \in EnsureSnapshot :
         Mutate(c, [op |-> "upsert", event |-> shown, status |-> status, assignee |-> None,
                    clear |-> FALSE, snapshot |-> snapshot], None)
  BY DEF SetStatus
<1> DEFINE q == [op |-> "upsert", event |-> shown, status |-> status, assignee |-> None,
                 clear |-> FALSE, snapshot |-> snapshot]
<1>3. snapshot \in Snapshots \cup {None} /\ (snapshot = None => row[shown] # None)
  BY <1>1, EvidenceOrRow
<1>4. /\ q \in Req /\ q.op = "upsert" /\ q.event = shown /\ q.status # "invalid"
      /\ q.snapshot = snapshot
  BY <1>1, <1>3, UpsertRequest
<1>5. call' = [call EXCEPT ![c] = Sent(q, None)]
  BY <1>2 DEF Mutate
<1>6. /\ UNCHANGED <<server, foreign, panel, detail, fetch, owed>>
      /\ upsert' \in Clients \cup {None} /\ append' \in Clients \cup {None}
  BY <1>1 DEF SetStatus, TypeOK
<1> HIDE DEF q
<1>7. q.op = "note" \/ q.snapshot = None => row[shown] # None
  BY <1>3, <1>4
<1> QED BY <1>1, <1>4, <1>5, <1>6, <1>7, SendKeeps

LEMMA AssignKeeps ==
    ASSUME IInv, NEW c \in Clients, Assign(c)
    PROVE  IInv'
<1>1. TypeOK /\ shown \in Events /\ assigneeDraft \in Assignees \cup {None}
  BY DEF IInv, TypeOK, Assign
<1>2. PICK snapshot \in EnsureSnapshot :
         Mutate(c, [op |-> "upsert", event |-> shown, status |-> None,
                    assignee |-> assigneeDraft, clear |-> assigneeDraft = None,
                    snapshot |-> snapshot], None)
  BY DEF Assign
<1> DEFINE q == [op |-> "upsert", event |-> shown, status |-> None,
                 assignee |-> assigneeDraft, clear |-> assigneeDraft = None,
                 snapshot |-> snapshot]
<1>3. snapshot \in Snapshots \cup {None} /\ (snapshot = None => row[shown] # None)
  BY <1>1, EvidenceOrRow
<1>4. /\ q \in Req /\ q.op = "upsert" /\ q.event = shown /\ q.status # "invalid"
      /\ q.snapshot = snapshot
  <2>1. (assigneeDraft = None) \in BOOLEAN
    OBVIOUS
  <2> QED BY <1>1, <1>3, <2>1, UpsertRequest
<1>5. call' = [call EXCEPT ![c] = Sent(q, None)]
  BY <1>2 DEF Mutate
<1>6. /\ UNCHANGED <<server, foreign, panel, detail, fetch, owed>>
      /\ upsert' \in Clients \cup {None} /\ append' \in Clients \cup {None}
  BY <1>1 DEF Assign, TypeOK
<1> HIDE DEF q
<1>7. q.op = "note" \/ q.snapshot = None => row[shown] # None
  BY <1>3, <1>4
<1> QED BY <1>1, <1>4, <1>5, <1>6, <1>7, SendKeeps

LEMMA SubmitNoteKeeps ==
    ASSUME IInv, NEW c \in Clients, SubmitNote(c)
    PROVE  IInv'
<1>1. TypeOK /\ shown \in Events
  BY DEF IInv, TypeOK, SubmitNote, CanSubmitNote
<1>2. row[shown] # None
  BY <1>1, LoadedRow DEF SubmitNote
<1> DEFINE q == AppendRequest(shown)
<1>3. q \in Req /\ q.op = "note" /\ q.event = shown
  BY <1>1 DEF Req, AppendRequest
<1>4. call' = [call EXCEPT ![c] = Sent(q, None)]
  BY DEF SubmitNote, Mutate
<1>5. /\ UNCHANGED <<server, foreign, panel, detail, fetch, owed>>
      /\ upsert' \in Clients \cup {None} /\ append' \in Clients \cup {None}
  BY <1>1 DEF SubmitNote, TypeOK
<1> HIDE DEF q
<1> QED BY <1>1, <1>2, <1>3, <1>4, <1>5, SendKeeps

LEMMA SubmitFirstNoteKeeps ==
    ASSUME IInv, NEW c \in Clients, NEW then \in Clients, SubmitFirstNote(c, then)
    PROVE  IInv'
<1>1. TypeOK /\ shown \in Events
  BY DEF IInv, TypeOK, SubmitFirstNote, CanSubmitNote
<1>2. PICK snapshot \in Snapshots :
         Mutate(c, [op |-> "upsert", event |-> shown, status |-> "open", assignee |-> None,
                    clear |-> FALSE, snapshot |-> snapshot], then)
  BY DEF SubmitFirstNote
<1> DEFINE q == [op |-> "upsert", event |-> shown, status |-> "open", assignee |-> None,
                 clear |-> FALSE, snapshot |-> snapshot]
<1>3. snapshot # None
  BY NoneApart
<1>4. /\ q \in Req /\ q.op = "upsert" /\ q.event = shown /\ q.status # "invalid"
      /\ q.snapshot = snapshot
  BY <1>1, UpsertRequest, NoneApart
<1>5. call' = [call EXCEPT ![c] = Sent(q, then)]
  BY <1>2 DEF Mutate
<1>6. /\ UNCHANGED <<server, foreign, panel, detail, fetch, owed>>
      /\ upsert' \in Clients \cup {None} /\ append' \in Clients \cup {None}
  BY <1>1 DEF SubmitFirstNote, TypeOK
<1> HIDE DEF q
<1>7. q.op = "note" \/ q.snapshot = None => row[shown] # None
  BY <1>3, <1>4
<1> QED BY <1>1, <1>4, <1>5, <1>6, <1>7, SendKeeps

-----------------------------------------------------------------------------
(* The server. *)

(* A request in flight, and the row it finds.                                *)
LEMMA InFlightCall ==
    ASSUME IInv, NEW c \in Clients, InFlight(c)
    PROVE  /\ CallOK(c)
           /\ call[c] \in Call /\ call[c].phase # "over"
           /\ call[c].req \in Req /\ call[c].req.event \in Events
           /\ call[c].then \in Clients \cup {None} /\ call[c].from \in Events /\ call[c].ver \in Nat
           /\ row[call[c].req.event] \in Row \cup {None}
           /\ call[c].from = call[c].req.event
<1>1. /\ CallOK(c)
      /\ call[c] \in Call /\ call[c].phase # "over"
  BY DEF InFlight, IInv, TypeOK
<1>2. /\ call[c].req \in Req /\ call[c].req.event \in Events
      /\ call[c].then \in Clients \cup {None} /\ call[c].from \in Events /\ call[c].ver \in Nat
  BY <1>1, CallFields
<1>3. row[call[c].req.event] \in Row \cup {None}
  BY <1>2 DEF IInv, TypeOK
<1> QED BY <1>1, <1>2, <1>3 DEF CallOK

LEMMA UpsertOrNote ==
    ASSUME NEW q \in Req
    PROVE  (q.op = "upsert" => q \in UpsertInput) /\ q.op \in {"upsert", "note"}
BY DEF Req, UpsertInput

(* A write is done: one more, and its row is there.                          *)
LEMMA PerformCounts ==
    ASSUME IInv, NEW c \in Clients, Perform(c)
    PROVE  /\ row' \in [Events -> Row \cup {None}]
           /\ row'[call[c].req.event] # None
           /\ \A e \in Events : row[e] # None => row'[e] # None
<1> DEFINE q == call[c].req
<1>1. CallOK(c) /\ q \in Req /\ q.event \in Events /\ row[q.event] \in Row \cup {None} /\ InFlight(c)
  BY InFlightCall DEF Perform
<1>2. row \in [Events -> Row \cup {None}]
  BY DEF IInv, TypeOK
<1>3. CASE q.op = "upsert"
  <2>1. q \in UpsertInput /\ q.status # "invalid"
    BY <1>1, <1>3, UpsertOrNote DEF CallOK
  <2>2. ~ LacksSnapshot(row[q.event], q) /\ row' = [row EXCEPT ![q.event] = Written(row[q.event], q)]
    BY <1>3 DEF Perform
  <2>3. Written(row[q.event], q) \in Row /\ Written(row[q.event], q) # None
    BY <1>1, <2>1, <2>2, WrittenIsRow
  <2> HIDE DEF q
  <2>4. row' \in [Events -> Row \cup {None}] /\ row'[q.event] # None
    BY <1>1, <1>2, <2>2, <2>3
  <2>5. \A e \in Events : row[e] # None => row'[e] # None
    BY <1>1, <1>2, <2>2, <2>3
  <2> QED BY <2>4, <2>5 DEF q
<1>4. CASE q.op # "upsert"
  BY <1>1, <1>2, <1>4 DEF Perform
<1> QED BY <1>3, <1>4

LEMMA PerformKeeps ==
    ASSUME IInv, NEW c \in Clients, Perform(c)
    PROVE  IInv'
<1> DEFINE q == call[c].req
<1> DEFINE e == q.event
<1> DEFINE done == [call[c] EXCEPT !.phase = "done", !.ver = ver[e] + 1]
<1>1. /\ CallOK(c) /\ q \in Req /\ e \in Events /\ InFlight(c)
      /\ call[c] \in Call /\ call[c].phase # "over" /\ call[c].from = e
  BY InFlightCall DEF Perform
<1>2. TypeOK
  BY DEF IInv
<1>3. /\ row' \in [Events -> Row \cup {None}] /\ row'[e] # None
      /\ \A f \in Events : row[f] # None => row'[f] # None
  BY PerformCounts
<1>4. /\ ver \in [Events -> Nat] /\ ver[e] \in Nat
      /\ ver' = [ver EXCEPT ![e] = @ + 1]
  BY <1>1, <1>2 DEF TypeOK, Perform
<1>5. ver' \in [Events -> Nat] /\ ver'[e] = ver[e] + 1
  <2> HIDE DEF e
  <2> QED BY <1>1, <1>4
<1>6. RowsKept
  <2> SUFFICES ASSUME NEW f \in Events
               PROVE  (row[f] # None => row'[f] # None) /\ ver'[f] \in Nat /\ ver[f] <= ver'[f]
    BY DEF RowsKept
  <2> HIDE DEF e
  <2>1. ver[f] \in Nat /\ (f # e => ver'[f] = ver[f])
    BY <1>4
  <2> QED BY <1>3, <1>4, <1>5, <2>1
<1>7. call \in [Clients -> Call \cup {None}]
  BY <1>2 DEF TypeOK
<1>8. call' = [call EXCEPT ![c].phase = "done", ![c].ver = ver[e] + 1]
  BY DEF Perform
<1>9. /\ done \in Call /\ done.phase = "done" /\ done.ver = ver[e] + 1
      /\ done.req = q /\ done.from = call[c].from
  <2>1. ver[e] + 1 \in Nat
    BY <1>4
  <2> QED BY <1>1, <2>1, DoneType
<1>10. call'[c] = done /\ \A d \in Clients : d # c => call'[d] = call[d]
  BY <1>7, <1>8
<1>11. call' \in [Clients -> Call \cup {None}]
  <2>1. DOMAIN call' = Clients /\ call' = [d \in Clients |-> call'[d]]
    BY <1>7, <1>8
  <2>2. ASSUME NEW d \in Clients PROVE call'[d] \in Call \cup {None}
    BY <1>7, <1>9, <1>10
  <2> QED BY <2>1, <2>2
<1>12. /\ notes' \in [Events -> Seq(Events)]
       /\ NotesStayHome'
  <2>1. notes \in [Events -> Seq(Events)] /\ NotesStayHome
    BY <1>2 DEF TypeOK, IInv
  <2>2. notes' = notes \/ notes' = [notes EXCEPT ![e] = Append(notes[e], e)]
    BY <1>1 DEF Perform
  <2> HIDE DEF e
  <2>3. CASE notes' = notes
    BY <2>1, <2>3 DEF NotesStayHome
  <2>4. CASE notes' = [notes EXCEPT ![e] = Append(notes[e], e)]
    <3>1. notes[e] \in Seq(Events) /\ Append(notes[e], e) \in Seq(Events)
      BY <1>1, <2>1
    <3>2. notes' \in [Events -> Seq(Events)]
      BY <2>1, <2>4, <3>1
    <3>3. ASSUME NEW f \in Events, NEW i \in DOMAIN notes'[f] PROVE notes'[f][i] = f
      <4>1. CASE f # e
        BY <2>1, <2>4, <4>1, <3>3 DEF NotesStayHome
      <4>2. CASE f = e
        <5>1. notes'[f] = Append(notes[e], e)
          BY <1>1, <2>1, <2>4, <4>2
        <5>2. i \in 1..Len(notes[e]) + 1
          BY <3>1, <3>3, <5>1
        <5>3. CASE i = Len(notes[e]) + 1
          BY <3>1, <4>2, <5>1, <5>3
        <5>4. CASE i \in 1..Len(notes[e])
          BY <1>1, <2>1, <3>1, <4>2, <5>1, <5>4 DEF NotesStayHome
        <5> QED BY <3>1, <5>2, <5>3, <5>4
      <4> QED BY <4>1, <4>2
    <3> QED BY <3>2, <3>3 DEF NotesStayHome
  <2> QED BY <2>2, <2>3, <2>4
<1>13. UNCHANGED <<foreign, panel, detail, fetch, upsert, append, owed>>
  BY DEF Perform
<1>14. TypeOK'
  BY <1>2, <1>3, <1>5, <1>11, <1>12, <1>13 DEF TypeOK, panel
<1>15. ASSUME NEW d \in Clients PROVE CallOK(d)'
  <2>1. CASE d = c
    <3> HIDE DEF done
    <3>1. call'[d].req = q /\ call'[d].from = e /\ call'[d].ver = ver[e] + 1
      BY <1>1, <1>9, <1>10, <2>1
    <3>2. q.op = "upsert" => q.status # "invalid"
      BY <1>1 DEF CallOK
    <3>3. call'[d].ver <= ver'[e]
      BY <1>4, <1>5, <3>1
    <3> QED BY <1>3, <3>1, <3>2, <3>3 DEF CallOK
  <2>2. CASE d # c
    BY <1>6, <1>10, <2>2, CallKept
  <2> QED BY <2>1, <2>2
<1>16. \A f \in Events : EventOK(f)'
  BY <1>6, <1>13, EventKept
<1> QED BY <1>12, <1>14, <1>15, <1>16 DEF IInv

LEMMA ForeignUpsertKeeps ==
    ASSUME IInv, NEW e \in Events, NEW status \in Statuses, ForeignUpsert(e, status)
    PROVE  IInv'
<1>1. PICK snapshot \in Snapshots :
         row' = [row EXCEPT ![e] = Written(row[e],
                   [op |-> "upsert", event |-> e, status |-> status, assignee |-> None,
                    clear |-> FALSE, snapshot |-> snapshot])]
  BY DEF ForeignUpsert
<1> DEFINE q == [op |-> "upsert", event |-> e, status |-> status, assignee |-> None,
                 clear |-> FALSE, snapshot |-> snapshot]
<1>2. TypeOK /\ row \in [Events -> Row \cup {None}] /\ row[e] \in Row \cup {None}
  BY DEF IInv, TypeOK
<1>3. q \in UpsertInput /\ q.status # "invalid" /\ ~ LacksSnapshot(row[e], q)
  BY NoneApart DEF UpsertInput, LacksSnapshot
<1>4. Written(row[e], q) \in Row /\ Written(row[e], q) # None
  BY <1>2, <1>3, WrittenIsRow
<1>5. row' = [row EXCEPT ![e] = Written(row[e], q)]
  BY <1>1
<1> HIDE DEF q
<1>6. /\ row' \in [Events -> Row \cup {None}]
      /\ \A f \in Events : row[f] # None => row'[f] # None
  BY <1>2, <1>4, <1>5
<1>7. ver \in [Events -> Nat] /\ ver' = [ver EXCEPT ![e] = @ + 1]
  BY <1>2 DEF TypeOK, ForeignUpsert
<1>8. ver' \in [Events -> Nat] /\ \A f \in Events : ver'[f] \in Nat /\ ver[f] <= ver'[f]
  BY <1>7
<1>9. RowsKept
  BY <1>6, <1>8 DEF RowsKept
<1>10. UNCHANGED <<notes, panel, detail, fetch, call, upsert, append, owed>>
  BY DEF ForeignUpsert
<1>11. foreign' \in 0..MaxForeign
  BY <1>2, PanelAssumption DEF ForeignUpsert, TypeOK
<1>12. TypeOK'
  BY <1>2, <1>6, <1>8, <1>10, <1>11 DEF TypeOK, panel
<1>13. (\A c \in Clients : CallOK(c)') /\ (\A f \in Events : EventOK(f)')
  BY <1>9, <1>10, CallKept, EventKept
<1>14. NotesStayHome'
  BY <1>10 DEF IInv, NotesStayHome
<1> QED BY <1>12, <1>13, <1>14 DEF IInv

LEMMA ServeDetailKeeps ==
    ASSUME IInv, NEW e \in Events, ServeDetail(e)
    PROVE  IInv'
<1>1. TypeOK /\ RowsKept
  BY RowsUnchanged DEF IInv, ServeDetail
<1> DEFINE answer == IF row[e] = None THEN [phase |-> "notfound"]
                     ELSE [phase |-> "found", data |-> CurrentDetail(e)]
<1>2. /\ answer \in Fetch
      /\ answer.phase # "sent"
      /\ answer.phase = "found" => row[e] # None /\ answer.data.ver = ver[e]
  <2>1. row[e] # None => CurrentDetail(e) \in Detail /\ CurrentDetail(e).ver = ver[e]
    BY <1>1 DEF TypeOK, CurrentDetail, Detail
  <2>2. CASE row[e] = None
    BY <2>2 DEF Fetch
  <2>3. CASE row[e] # None
    <3> HIDE DEF Detail
    <3> QED BY <2>1, <2>3 DEF Fetch
  <2> QED BY <2>2, <2>3
<1>3. fetch' = [fetch EXCEPT ![e] = answer]
  BY DEF ServeDetail
<1>4. UNCHANGED <<server, foreign, panel, detail, call, upsert, append, owed>>
  BY DEF ServeDetail
<1> HIDE DEF answer
<1>5. /\ fetch' \in [Events -> Fetch \cup {None}] /\ fetch'[e] = answer
      /\ \A f \in Events : f # e => fetch'[f] = fetch[f]
  BY <1>1, <1>2, <1>3 DEF TypeOK
<1>6. TypeOK'
  BY <1>1, <1>4, <1>5 DEF TypeOK, server, panel
<1>7. \A c \in Clients : CallOK(c)'
  BY <1>1, <1>4, CallKept
<1>8. ASSUME NEW f \in Events PROVE EventOK(f)'
  <2>1. CASE f # e
    BY <1>1, <1>4, <1>5, <2>1, EventKept
  <2>2. CASE f = e
    <3>1. EventOK(e) /\ row' = row /\ ver' = ver /\ owed' = owed /\ detail' = detail
      BY <1>4 DEF IInv, server
    <3>2. fetch'[e] # None
      BY <1>2, <1>5, FetchAssumption
    <3>3. ver[e] \in Nat /\ owed[e] \in Nat
      BY <1>1, VersNat
    <3> QED BY <1>2, <1>5, <2>2, <3>1, <3>2, <3>3 DEF EventOK
  <2> QED BY <2>1, <2>2
<1>9. NotesStayHome'
  BY <1>4 DEF IInv, NotesStayHome, server
<1> QED BY <1>6, <1>7, <1>8, <1>9 DEF IInv

-----------------------------------------------------------------------------
(* The answers. *)

LEMMA FetchFields ==
    ASSUME NEW x \in Fetch, x.phase = "found"
    PROVE  x.data \in Detail
<1> HIDE DEF Detail
<1> QED BY DEF Fetch

LEMMA ReceiveDetailKeeps ==
    ASSUME IInv, NEW e \in Events, ReceiveDetail(e)
    PROVE  IInv'
<1>1. TypeOK /\ RowsKept
  BY RowsUnchanged DEF IInv, ReceiveDetail
<1> DEFINE cached == [data   |-> IF fetch[e].phase = "found" THEN fetch[e].data ELSE None,
                      failed |-> FALSE]
<1>2. fetch[e] \in Fetch /\ fetch[e] # None
  BY <1>1 DEF TypeOK, ReceiveDetail
<1>3. /\ cached \in Cached /\ cached.failed = FALSE
      /\ cached.data # None => fetch[e].phase = "found" /\ cached.data = fetch[e].data
  <2>1. fetch[e].phase = "found" => fetch[e].data \in Detail
    BY <1>2, FetchFields
  <2> HIDE DEF Detail
  <2> QED BY <2>1 DEF Cached
<1>4. detail' = [detail EXCEPT ![e] = cached] /\ fetch' = [fetch EXCEPT ![e] = None]
  BY DEF ReceiveDetail
<1> HIDE DEF cached
<1>5. /\ detail' \in [Events -> Cached] /\ detail'[e] = cached
      /\ fetch' \in [Events -> Fetch \cup {None}] /\ fetch'[e] = None
      /\ \A f \in Events : f # e => detail'[f] = detail[f] /\ fetch'[f] = fetch[f]
  BY <1>1, <1>3, <1>4 DEF TypeOK
<1>6. assigneeDraft' \in Assignees \cup {None}
  <2>1. Text(Assigned(detail', shown)) \in Assignees \cup {None}
    BY <1>1, <1>5, AssignedIsText DEF TypeOK
  <2> QED BY <1>1, <2>1 DEF ReceiveDetail, SyncAssignee, TypeOK
<1>7. UNCHANGED <<server, foreign, opens, shown, focus, noteDraft, call, upsert, append, owed>>
  BY DEF ReceiveDetail
<1>8. TypeOK'
  BY <1>1, <1>5, <1>6, <1>7 DEF TypeOK, server
<1>9. \A c \in Clients : CallOK(c)'
  BY <1>1, <1>7, CallKept
<1>10. ASSUME NEW f \in Events PROVE EventOK(f)'
  <2>1. CASE f # e
    BY <1>1, <1>5, <1>7, <2>1, EventKept
  <2>2. CASE f = e
    <3>1. EventOK(e) /\ row' = row /\ ver' = ver /\ owed' = owed
      BY <1>7 DEF IInv, server
    <3>2. cached.data # None => row[e] # None /\ cached.data.ver >= owed[e]
      BY <1>2, <1>3, <3>1 DEF EventOK
    <3>3. owed[e] <= ver[e]
      BY <3>1 DEF EventOK
    <3> QED BY <1>3, <1>5, <2>2, <3>1, <3>2, <3>3 DEF EventOK
  <2> QED BY <2>1, <2>2
<1>11. NotesStayHome'
  BY <1>7 DEF IInv, NotesStayHome, server
<1> QED BY <1>8, <1>9, <1>10, <1>11 DEF IInv

LEMMA ReceiveDetailErrorKeeps ==
    ASSUME IInv, NEW e \in Events, ReceiveDetailError(e)
    PROVE  IInv'
<1>1. TypeOK /\ RowsKept
  BY RowsUnchanged DEF IInv, ReceiveDetailError
<1>2. detail \in [Events -> Cached] /\ fetch \in [Events -> Fetch \cup {None}]
  BY <1>1 DEF TypeOK
<1>3. detail' = [detail EXCEPT ![e] = [detail[e] EXCEPT !.failed = TRUE]] /\ fetch' = [fetch EXCEPT ![e] = None]
  BY <1>2 DEF ReceiveDetailError
<1> DEFINE cached == [detail[e] EXCEPT !.failed = TRUE]
<1>4. cached \in Cached /\ cached.failed = TRUE /\ cached.data = detail[e].data
  <2>1. detail[e] \in Cached
    BY <1>2
  <2> HIDE DEF Detail
  <2> QED BY <2>1 DEF Cached
<1> HIDE DEF cached
<1>5. /\ detail' \in [Events -> Cached] /\ detail'[e] = cached
      /\ fetch' \in [Events -> Fetch \cup {None}] /\ fetch'[e] = None
      /\ \A f \in Events : f # e => detail'[f] = detail[f] /\ fetch'[f] = fetch[f]
  BY <1>2, <1>3, <1>4 DEF cached
<1>6. UNCHANGED <<server, foreign, panel, call, upsert, append, owed>>
  BY DEF ReceiveDetailError
<1>7. TypeOK'
  BY <1>1, <1>5, <1>6 DEF TypeOK, server, panel
<1>8. \A c \in Clients : CallOK(c)'
  BY <1>1, <1>6, CallKept
<1>9. ASSUME NEW f \in Events PROVE EventOK(f)'
  <2>1. CASE f # e
    BY <1>1, <1>5, <1>6, <2>1, EventKept
  <2>2. CASE f = e
    <3>1. EventOK(e) /\ row' = row /\ ver' = ver /\ owed' = owed
      BY <1>6 DEF IInv, server
    <3> QED BY <1>4, <1>5, <2>2, <3>1 DEF EventOK
  <2> QED BY <2>1, <2>2
<1>10. NotesStayHome'
  BY <1>6 DEF IInv, NotesStayHome, server
<1> QED BY <1>7, <1>8, <1>9, <1>10 DEF IInv

(* What an acknowledged write does to the queries.                           *)
LEMMA AcknowledgeKeeps ==
    ASSUME IInv, NEW c \in Clients, InFlight(c), call[c].phase = "done", Acknowledge(c),
           UNCHANGED <<server, detail>>
    PROVE  /\ fetch' \in [Events -> Fetch \cup {None}]
           /\ owed' \in [Events -> Nat]
           /\ \A f \in Events : EventOK(f)'
<1> DEFINE e == call[c].req.event
<1>1. /\ e \in Events /\ call[c].ver \in Nat /\ CallOK(c)
  BY InFlightCall
<1>2. TypeOK /\ RowsKept
  BY RowsUnchanged DEF IInv
<1>3. row[e] # None /\ call[c].ver <= ver[e] /\ ver[e] \in Nat /\ owed[e] \in Nat /\ EventOK(e)
  BY <1>1, <1>2, VersNat DEF CallOK, IInv
<1>4. /\ fetch' = Invalidate(e)
      /\ owed' = IF shown = e /\ detail[e].data # None
                 THEN [owed EXCEPT ![e] = IF call[c].ver > @ THEN call[c].ver ELSE @]
                 ELSE owed
  BY DEF Acknowledge
<1>5. owed \in [Events -> Nat] /\ fetch \in [Events -> Fetch \cup {None}]
  BY <1>2 DEF TypeOK
<1>6. fetch' \in [Events -> Fetch \cup {None}]
  BY <1>1, <1>2, <1>4, <1>5, StartType DEF Invalidate
<1> HIDE DEF e
<1>7. /\ owed' \in [Events -> Nat] /\ owed'[e] <= ver[e]
      /\ \A f \in Events : f # e => owed'[f] = owed[f]
  BY <1>1, <1>3, <1>4, <1>5 DEF EventOK
<1>8. /\ \A f \in Events : f # e => fetch'[f] = fetch[f]
      /\ fetch'[e] = fetch[e] \/ fetch'[e] = [phase |-> "sent"]
  BY <1>1, <1>2, <1>4, StartType DEF Invalidate
<1>9. ver' = ver /\ detail' = detail
  BY DEF server
<1>10. ASSUME NEW f \in Events PROVE EventOK(f)'
  <2>1. CASE f # e
    BY <1>2, <1>7, <1>8, <1>9, <2>1, EventKept
  <2>2. CASE shown = e /\ detail[e].data # None
    <3>1. fetch'[e] = [phase |-> "sent"]
      BY <1>1, <1>2, <1>4, <2>2, StartType DEF Invalidate
    <3> QED BY <1>1, <1>2, <1>7, <1>9, <2>1, <3>1, EventStarted
  <2>3. CASE ~ (shown = e /\ detail[e].data # None)
    <3>1. owed' = owed
      BY <1>4, <2>3
    <3>2. CASE fetch'[e] = fetch[e]
      BY <1>1, <1>2, <1>9, <2>1, <3>1, <3>2, EventKept
    <3>3. CASE fetch'[e] = [phase |-> "sent"]
      BY <1>1, <1>2, <1>7, <1>9, <2>1, <3>3, EventStarted
    <3> QED BY <1>8, <3>2, <3>3
  <2> QED BY <2>2, <2>3
<1> QED BY <1>6, <1>7, <1>10

(* A call that is over has nothing left to be right about.                   *)
LEMMA OverOK ==
    ASSUME NEW c \in Clients, call'[c] = Over
    PROVE  CallOK(c)'
BY OverType DEF CallOK, InFlight

(* The note that follows an upsert goes to the alert of the upsert.          *)
LEMMA FollowUpType ==
    ASSUME IInv, NEW c \in Clients, InFlight(c)
    PROVE  /\ FollowUp(c) \in Call
           /\ FollowUp(c).req = AppendRequest(call[c].req.event)
           /\ FollowUp(c).from = call[c].req.event
           /\ FollowUp(c).phase = "sent"
<1>1. call[c].req.event \in Events /\ call[c].from \in Events /\ call[c].from = call[c].req.event
  BY InFlightCall
<1>2. FollowUp(c) = [req |-> AppendRequest(call[c].req.event), then |-> None,
                     from |-> call[c].from, ver |-> 0, phase |-> "sent"]
  BY DEF FollowUp, Sent
<1>3. AppendRequest(call[c].req.event) \in [op : {"note"}, event : Events]
  BY <1>1 DEF AppendRequest
<1> HIDE DEF AppendRequest
<1> QED BY <1>1, <1>2, <1>3 DEF Call

LEMMA ReceiveUpsertKeeps ==
    ASSUME IInv, NEW c \in Clients, ReceiveUpsert(c)
    PROVE  IInv'
<1>1. /\ InFlight(c) /\ call[c].phase = "done" /\ Acknowledge(c) /\ UpsertSucceeded(c)
      /\ UNCHANGED <<server, foreign, panel, detail, upsert>>
  BY DEF ReceiveUpsert
<1>2. /\ fetch' \in [Events -> Fetch \cup {None}]
      /\ owed' \in [Events -> Nat]
      /\ \A f \in Events : EventOK(f)'
  BY <1>1, AcknowledgeKeeps
<1>3. TypeOK /\ RowsKept /\ call \in [Clients -> Call \cup {None}]
  BY <1>1, RowsUnchanged DEF IInv, TypeOK
<1>4. /\ call' \in [Clients -> Call \cup {None}] /\ append' \in Clients \cup {None}
      /\ \A d \in Clients : CallOK(d)'
  <2>1. CASE upsert = c /\ call[c].then # None
    <3>1. call[c].then \in Clients /\ CallOK(c)
      BY <1>1, <2>1, InFlightCall
    <3>n. PICK n \in Clients : n = call[c].then
      BY <3>1
    <3>2. call' = [call EXCEPT ![c] = Over, ![n] = FollowUp(c)] /\ append' = n
      BY <1>1, <2>1, <3>n DEF UpsertSucceeded
    <3>3. /\ FollowUp(c) \in Call
          /\ FollowUp(c).req = AppendRequest(call[c].req.event)
          /\ FollowUp(c).from = call[c].req.event
          /\ FollowUp(c).phase = "sent"
      BY <1>1, FollowUpType
    <3>4. /\ call' \in [Clients -> Call \cup {None}] /\ call'[n] = FollowUp(c)
          /\ c # n => call'[c] = Over
          /\ \A d \in Clients : d \notin {c, n} => call'[d] = call[d]
      BY <1>3, <3>1, <3>2, <3>3, OverType
    <3>5. CallOK(n)'
      <4>1. /\ call'[n].req = [op |-> "note", event |-> call[c].req.event]
            /\ call'[n].from = call[c].req.event /\ call'[n].phase = "sent"
        BY <3>3, <3>4 DEF AppendRequest
      <4>2. row'[call[c].req.event] # None
        BY <1>1, <3>1 DEF CallOK, server
      <4>3. /\ call'[n].req.event = call[c].req.event /\ call'[n].req.op = "note"
            /\ call'[n].phase = "sent" /\ call'[n].from = call'[n].req.event
        BY <4>1
      <4> QED BY <4>2, <4>3 DEF CallOK
    <3>6. ASSUME NEW d \in Clients PROVE CallOK(d)'
      <4>1. CASE d = n
        <5> QED BY ONLY <3>5, <4>1
      <4>2. CASE d = c /\ d # n
        BY <3>4, <4>2, OverOK
      <4>3. CASE d # c /\ d # n
        BY <1>3, <3>4, <4>3, CallKept
      <4> QED BY <4>1, <4>2, <4>3
    <3> QED BY <3>1, <3>2, <3>4, <3>6
  <2>2. CASE ~ (upsert = c /\ call[c].then # None)
    <3>1. call' = [call EXCEPT ![c] = Over] /\ append' = append
      BY <1>1, <2>2 DEF UpsertSucceeded
    <3>2. /\ call' \in [Clients -> Call \cup {None}] /\ call'[c] = Over
          /\ \A d \in Clients : d # c => call'[d] = call[d]
      BY <1>3, <3>1, OverType
    <3>3. \A d \in Clients : CallOK(d)'
      BY <1>3, <3>2, OverOK, CallKept
    <3> QED BY <1>3, <3>1, <3>2, <3>3 DEF TypeOK
  <2> QED BY <2>1, <2>2
<1>5. TypeOK'
  BY <1>1, <1>2, <1>3, <1>4 DEF TypeOK, server, panel
<1>6. NotesStayHome'
  BY <1>1 DEF IInv, NotesStayHome, server
<1> QED BY <1>2, <1>4, <1>5, <1>6 DEF IInv

LEMMA OneOver ==
    ASSUME IInv, RowsKept, NEW c \in Clients, call' = [call EXCEPT ![c] = Over]
    PROVE  call' \in [Clients -> Call \cup {None}] /\ \A d \in Clients : CallOK(d)'
<1>1. call \in [Clients -> Call \cup {None}]
  BY DEF IInv, TypeOK
<1>2. /\ call' \in [Clients -> Call \cup {None}] /\ call'[c] = Over
      /\ \A d \in Clients : d # c => call'[d] = call[d]
  BY <1>1, OverType
<1>3. \A d \in Clients : CallOK(d)'
  BY <1>2, OverOK, CallKept
<1> QED BY <1>2, <1>3

LEMMA ReceiveNoteKeeps ==
    ASSUME IInv, NEW c \in Clients, ReceiveNote(c)
    PROVE  IInv'
<1>1. /\ InFlight(c) /\ call[c].phase = "done" /\ Acknowledge(c)
      /\ call' = [call EXCEPT ![c] = Over] /\ noteDraft' = (noteDraft /\ append # c)
      /\ UNCHANGED <<server, foreign, opens, shown, focus, assigneeDraft, detail, upsert, append>>
  BY DEF ReceiveNote
<1>2. /\ fetch' \in [Events -> Fetch \cup {None}]
      /\ owed' \in [Events -> Nat]
      /\ \A f \in Events : EventOK(f)'
  BY <1>1, AcknowledgeKeeps
<1>3. TypeOK /\ RowsKept
  BY <1>1, RowsUnchanged DEF IInv
<1>4. call' \in [Clients -> Call \cup {None}] /\ \A d \in Clients : CallOK(d)'
  BY <1>1, <1>3, OneOver
<1>5. noteDraft' \in BOOLEAN
  BY <1>1
<1>6. TypeOK'
  BY <1>1, <1>2, <1>3, <1>4, <1>5 DEF TypeOK, server
<1>7. NotesStayHome'
  BY <1>1 DEF IInv, NotesStayHome, server
<1> QED BY <1>2, <1>4, <1>6, <1>7 DEF IInv

LEMMA ReceiveErrorKeeps ==
    ASSUME IInv, NEW c \in Clients, ReceiveError(c)
    PROVE  IInv'
<1>1. /\ call' = [call EXCEPT ![c] = Over]
      /\ UNCHANGED <<server, foreign, panel, detail, fetch, upsert, append, owed>>
  BY DEF ReceiveError
<1>2. TypeOK /\ RowsKept
  BY <1>1, RowsUnchanged DEF IInv
<1>3. call' \in [Clients -> Call \cup {None}] /\ \A d \in Clients : CallOK(d)'
  BY <1>1, <1>2, OneOver
<1>4. TypeOK'
  BY <1>1, <1>2, <1>3 DEF TypeOK, server, panel
<1>5. \A e \in Events : EventOK(e)'
  BY <1>1, <1>2, EventKept
<1>6. NotesStayHome'
  BY <1>1 DEF IInv, NotesStayHome, server
<1> QED BY <1>3, <1>4, <1>5, <1>6 DEF IInv

-----------------------------------------------------------------------------
(* The specification. *)

LEMMA InitIInv == Init => IInv
<1> SUFFICES ASSUME Init PROVE IInv
  OBVIOUS
<1>1. [data |-> None, failed |-> FALSE] \in Cached
  <2> HIDE DEF Detail
  <2> QED BY DEF Cached
<1>2. TypeOK
  <2>1. << >> \in Seq(Events) /\ 0 \in 0..MaxForeign /\ 0 \in 0..MaxOpens
    BY PanelAssumption
  <2> QED BY <1>1, <2>1 DEF Init, TypeOK
<1>3. \A c \in Clients : CallOK(c)
  BY DEF Init, CallOK, InFlight
<1>4. \A e \in Events : EventOK(e)
  BY DEF Init, EventOK
<1>5. NotesStayHome
  BY DEF Init, NotesStayHome
<1> QED BY <1>2, <1>3, <1>4, <1>5 DEF IInv

LEMMA NextIInv == IInv /\ [Next]_vars => IInv'
<1> SUFFICES ASSUME IInv, [Next]_vars PROVE IInv'
  OBVIOUS
<1>1. CASE User
  <2>1. ASSUME NEW c \in Clients,
               \/ \E status \in Statuses : SetStatus(c, status)
               \/ Assign(c)
               \/ SubmitNote(c)
               \/ \E then \in Clients : SubmitFirstNote(c, then)
        PROVE  IInv'
    BY <2>1, SetStatusKeeps, AssignKeeps, SubmitNoteKeeps, SubmitFirstNoteKeeps
  <2>2. ASSUME NEW e \in Events, Open(e) \/ Switch(e) PROVE IInv'
    BY <2>2, OpenKeeps, SwitchKeeps
  <2> QED BY <1>1, <2>1, <2>2, FieldsKeep DEF User
<1>2. CASE Server
  BY <1>2, PerformKeeps, ServeDetailKeeps, ForeignUpsertKeeps DEF Server
<1>3. CASE Browser
  BY <1>3, ReceiveDetailKeeps, ReceiveDetailErrorKeeps, ReceiveUpsertKeeps, ReceiveNoteKeeps,
     ReceiveErrorKeeps DEF Browser
<1>4. CASE UNCHANGED vars
  <2>1. UNCHANGED <<server, foreign, detail, call, owed>> /\ UNCHANGED <<fetch, panel, upsert, append>>
    BY <1>4 DEF vars
  <2>2. TypeOK
    BY DEF IInv
  <2>3. /\ opens' \in 0..MaxOpens /\ shown' \in Events \cup {None}
        /\ focus' \in {"none", "assignee", "note"} /\ assigneeDraft' \in Assignees \cup {None}
        /\ noteDraft' \in BOOLEAN /\ upsert' \in Clients \cup {None} /\ append' \in Clients \cup {None}
    BY <2>1, <2>2 DEF TypeOK, panel
  <2> QED BY <2>1, <2>3, PanelStep
<1> QED BY <1>1, <1>2, <1>3, <1>4 DEF Next

LEMMA SpecIInv == Spec => []IInv
<1> QED BY InitIInv, NextIInv, PTL DEF Spec

(* Every variable of the panel and of the server keeps its type.             *)
THEOREM PanelTypeCorrect == Spec => []TypeOK
<1>1. IInv => TypeOK
  BY DEF IInv
<1> QED BY <1>1, SpecIInv, PTL

(* A note is appended to the alert its author had on screen, however often   *)
(* the panel moves while the upsert before it is under way (onSubmitNote).   *)
THEOREM NotesAlwaysStayHome == Spec => []NotesStayHome
<1>1. IInv => NotesStayHome
  BY DEF IInv
<1> QED BY <1>1, SpecIInv, PTL

(* What the panel sends is never refused for want of the row (ensureSnapshot *)
(* and onSubmitNote).                                                        *)
THEOREM NeverEverRefused == Spec => []NeverRefused
<1>1. IInv => NeverRefused
  BY DEF IInv, CallOK, NeverRefused
<1> QED BY <1>1, SpecIInv, PTL

(* No answer to an older GET is left standing over an acknowledged write     *)
(* (the invalidations of useUpsertTriage and useAppendNote).                 *)
THEOREM ShownAlwaysCurrent == Spec => []ShownIsCurrent
<1>1. IInv => ShownIsCurrent
  BY DEF IInv, EventOK, ShownIsCurrent
<1> QED BY <1>1, SpecIInv, PTL

(* No answer changes the assignee field while the user is in it (the effect  *)
(* of SlideOver.tsx:101).                                                    *)
THEOREM TypingNeverClobbered == Spec => TypingNotClobbered
<1> DEFINE Kept == focus = "assignee" /\ focus' = "assignee" /\ shown' = shown /\ detail' # detail
                   => assigneeDraft' = assigneeDraft
<1>1. [Next]_vars => [Kept]_vars
  <2> SUFFICES ASSUME Next, focus = "assignee", detail' # detail
               PROVE  assigneeDraft' = assigneeDraft
    OBVIOUS
  <2>1. ~ User
    BY DEF User, Open, Switch, Close, Focus, TypeAssignee, TypeNote, SetStatus, Assign, SubmitNote,
           SubmitFirstNote
  <2>2. ~ Server
    BY DEF Server, Perform, ServeDetail, ForeignUpsert
  <2>3. CASE Browser
    BY <2>3 DEF Browser, ReceiveDetail, ReceiveDetailError, ReceiveUpsert, ReceiveNote, ReceiveError,
                SyncAssignee, panel
  <2> QED BY <2>1, <2>2, <2>3 DEF Next
<1> QED BY <1>1, PTL DEF Spec, TypingNotClobbered
=============================================================================
