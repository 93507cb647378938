---------------------------- MODULE TriageStore -----------------------------
(***************************************************************************)
(* The triage handlers (internal/api/v1/triage.go) and the SQLite store    *)
(* behind them (internal/triage/repo.go).                                  *)
(*                                                                         *)
(* Every handler runs in a goroutine of its own; database/sql gives them   *)
(* one connection (SetMaxOpenConns(1)).  An upsert is a transaction and    *)
(* holds the connection from BEGIN to COMMIT or ROLLBACK, its writes are   *)
(* in tx until it commits; every other statement takes the connection for  *)
(* itself, so that a note and a detail are several transactions.           *)
(*                                                                         *)
(* A statement, or the commit, may fail; a client may go away, which       *)
(* cancels its request's context; the process may crash.                   *)
(***************************************************************************)
EXTENDS TriageData

CONSTANTS
    MaxLog, MaxNotes  (* bounds: no request arrives for an event with as many *)

VARIABLES
    row, log, notes,  (* the committed tables, by event                       *)
    conn,             (* who holds the connection                             *)
    pc, req,          (* where each client's request is, and what it asks     *)
    existing,         (* the row an upsert has read, or None                  *)
    tx,               (* its writes, not yet committed                        *)
    view, status,     (* what the answer will show, and with which status     *)
    reply, shown      (* the answer to it, and what the client's last "ok" showed *)

tables == <<row, log, notes>>
locals == <<req, existing, tx, view, status>>
client == <<reply, shown>>
vars == <<tables, conn, pc, locals, client>>

(* What an answer shows of an event: how many of its log entries and notes.   *)
(* The answer to an upsert shows the log by the status it reports, the answer *)
(* to a note the notes by its id.  The status a detail shows is kept until it *)
(* is sent.                                                                   *)
Shown == [event : Events \cup {None}, log : Nat, notes : Nat]

Nothing == [event |-> None, log |-> 0, notes |-> 0]

InTx == {"read", "write", "log", "commit"}

TypeOK ==
    /\ row \in [Events -> Row \cup {None}]
    /\ log \in [Events -> Seq(LogEntry)]
    /\ notes \in [Events -> Seq(Clients)]
    /\ conn \in Clients \cup {None}
    /\ pc \in [Clients -> {"idle", "begin", "check", "insert", "row", "notes", "logs",
                           "reply"} \cup InTx]
    /\ req \in [Clients -> Request \cup {None}]
    /\ existing \in [Clients -> Row \cup {None}]
    /\ tx \in [Clients -> [row : Row, log : Seq(LogEntry)] \cup {None}]
    /\ view \in [Clients -> Shown]
    /\ status \in [Clients -> Statuses \cup {None}]
    /\ reply \in [Clients -> {"none", "ok", "error", "notfound", "invalid"}]
    /\ shown \in [Clients -> Shown]

Init ==
    /\ row = [e \in Events |-> None]
    /\ log = [e \in Events |-> << >>]
    /\ notes = [e \in Events |-> << >>]
    /\ conn = None
    /\ pc = [c \in Clients |-> "idle"]
    /\ req = [c \in Clients |-> None]
    /\ existing = [c \in Clients |-> None]
    /\ tx = [c \in Clients |-> None]
    /\ view = [c \in Clients |-> Nothing]
    /\ status = [c \in Clients |-> None]
    /\ reply = [c \in Clients |-> "none"]
    /\ shown = [c \in Clients |-> Nothing]

(* Variant: no deferred Rollback.                                             *)
ReleaseNever(c) == conn' = conn

(* A request is over: its locals die, and a transaction still open is rolled  *)
(* back (Upsert's deferred Rollback), which returns the connection.           *)
Release(c) == conn' = IF conn = c THEN None ELSE conn

End(c) ==
    /\ pc' = [pc EXCEPT ![c] = "idle"]
    /\ req' = [req EXCEPT ![c] = None]
    /\ existing' = [existing EXCEPT ![c] = None]
    /\ tx' = [tx EXCEPT ![c] = None]
    /\ view' = [view EXCEPT ![c] = Nothing]
    /\ status' = [status EXCEPT ![c] = None]
    /\ Release(c)

-----------------------------------------------------------------------------
Arrive(c, q) ==
    /\ pc[c] = "idle"
    /\ Len(log[q.event]) < MaxLog \/ q.op # "upsert"
    /\ Len(notes[q.event]) < MaxNotes \/ q.op # "note"
    /\ req' = [req EXCEPT ![c] = q]
    /\ pc' = [pc EXCEPT ![c] = CASE q.op = "upsert" -> "begin"
                                 [] q.op = "note"   -> "check"
                                 [] q.op = "get"    -> "row"]
    /\ reply' = [reply EXCEPT ![c] = "none"]
    /\ UNCHANGED <<tables, conn, existing, tx, view, status, shown>>

-----------------------------------------------------------------------------
(* handleTriageUpsert, Upsert. *)

(* A malformed request is refused before the store is touched; an insert      *)
(* without a snapshot in the middle of its transaction.                       *)
RefuseUpsert(c) ==
    /\ \/ pc[c] = "begin" /\ req[c].status = "invalid"
       \/ pc[c] = "write" /\ LacksSnapshot(existing[c], req[c])
    /\ reply' = [reply EXCEPT ![c] = "invalid"]
    /\ End(c)
    /\ UNCHANGED <<tables, shown>>

(* BeginTx waits for the connection. *)
Begin(c) ==
    /\ pc[c] = "begin"
    /\ req[c].status # "invalid"
    /\ conn = None
    /\ conn' = c
    /\ pc' = [pc EXCEPT ![c] = "read"]
    /\ UNCHANGED <<tables, locals, client>>

(* Variant: the row is read through the pool, not through the transaction.    *)
ReadOutside(c) ==
    /\ pc[c] = "read"
    /\ conn' = None
    /\ existing' = [existing EXCEPT ![c] = row[req[c].event]]
    /\ pc' = [pc EXCEPT ![c] = "write"]
    /\ UNCHANGED <<tables, req, tx, view, status, client>>

Read(c) ==
    /\ pc[c] = "read"
    /\ existing' = [existing EXCEPT ![c] = row[req[c].event]]
    /\ pc' = [pc EXCEPT ![c] = "write"]
    /\ UNCHANGED <<tables, conn, req, tx, view, status, client>>

Write(c) ==
    /\ pc[c] = "write"
    /\ ~ LacksSnapshot(existing[c], req[c])
    /\ tx' = [tx EXCEPT ![c] = [row |-> Written(existing[c], req[c]), log |-> << >>]]
    /\ pc' = [pc EXCEPT ![c] = IF Logged(existing[c], req[c]) = << >> THEN "commit" ELSE "log"]
    /\ UNCHANGED <<tables, conn, req, existing, view, status, client>>

AppendLog(c) ==
    /\ pc[c] = "log"
    /\ tx' = [tx EXCEPT ![c] = [row |-> tx[c].row, log |-> Logged(existing[c], req[c])]]
    /\ pc' = [pc EXCEPT ![c] = "commit"]
    /\ UNCHANGED <<tables, conn, req, existing, view, status, client>>

(* Variant: the transaction is answered for, and then rolled back.            *)
CommitForgotten(c) ==
    /\ pc[c] = "commit"
    /\ view' = [view EXCEPT ![c] =
                   [event |-> req[c].event, notes |-> 0,
                    log |-> Len(log[req[c].event] \o tx[c].log)]]
    /\ pc' = [pc EXCEPT ![c] = "reply"]
    /\ Release(c)
    /\ tx' = [tx EXCEPT ![c] = None]
    /\ UNCHANGED <<tables, req, existing, status, client>>

Commit(c) ==
    /\ pc[c] = "commit"
    /\ row' = [row EXCEPT ![req[c].event] = tx[c].row]
    /\ log' = [log EXCEPT ![req[c].event] = log[req[c].event] \o tx[c].log]
    /\ view' = [view EXCEPT ![c] =
                   [event |-> req[c].event, notes |-> 0,
                    log |-> Len(log[req[c].event] \o tx[c].log)]]
    /\ pc' = [pc EXCEPT ![c] = "reply"]
    /\ Release(c)
    /\ tx' = [tx EXCEPT ![c] = None]
    /\ UNCHANGED <<notes, req, existing, status, client>>

-----------------------------------------------------------------------------
(* handleTriageNote, AppendNote: the row is looked up, the note inserted.     *)

NotFound(c) ==
    /\ pc[c] \in {"check", "row"}
    /\ conn = None
    /\ row[req[c].event] = None
    /\ reply' = [reply EXCEPT ![c] = "notfound"]
    /\ End(c)
    /\ UNCHANGED <<tables, shown>>

CheckRow(c) ==
    /\ pc[c] = "check"
    /\ conn = None
    /\ row[req[c].event] # None
    /\ pc' = [pc EXCEPT ![c] = "insert"]
    /\ UNCHANGED <<tables, conn, locals, client>>

(* The foreign key holds the note to a row. *)
InsertNote(c) ==
    /\ pc[c] = "insert"
    /\ conn = None
    /\ row[req[c].event] # None
    /\ notes' = [notes EXCEPT ![req[c].event] = Append(notes[req[c].event], c)]
    /\ view' = [view EXCEPT ![c] =
                   [event |-> req[c].event, log |-> 0,
                    notes |-> Len(notes[req[c].event]) + 1]]
    /\ pc' = [pc EXCEPT ![c] = "reply"]
    /\ UNCHANGED <<row, log, conn, req, existing, tx, status, client>>

-----------------------------------------------------------------------------
(* handleTriageGet: the row, then its notes, then its log.  The existence     *)
(* checks of ListNotes and ListLog see what GetByEventKey saw.                *)

GetRow(c) ==
    /\ pc[c] = "row"
    /\ conn = None
    /\ row[req[c].event] # None
    /\ status' = [status EXCEPT ![c] = row[req[c].event].status]
    /\ pc' = [pc EXCEPT ![c] = "notes"]
    /\ UNCHANGED <<tables, conn, req, existing, tx, view, client>>

ListNotes(c) ==
    /\ pc[c] = "notes"
    /\ conn = None
    /\ view' = [view EXCEPT ![c] =
                   [event |-> req[c].event, log |-> 0,
                    notes |-> Len(notes[req[c].event])]]
    /\ pc' = [pc EXCEPT ![c] = "logs"]
    /\ UNCHANGED <<tables, conn, req, existing, tx, status, client>>

ListLog(c) ==
    /\ pc[c] = "logs"
    /\ conn = None
    /\ view' = [view EXCEPT ![c] =
                   [event |-> req[c].event, log |-> Len(log[req[c].event]),
                    notes |-> view[c].notes]]
    /\ pc' = [pc EXCEPT ![c] = "reply"]
    /\ UNCHANGED <<tables, conn, req, existing, tx, status, client>>

-----------------------------------------------------------------------------
Respond(c) ==
    /\ pc[c] = "reply"
    /\ reply' = [reply EXCEPT ![c] = "ok"]
    /\ shown' = [shown EXCEPT ![c] = view[c]]
    /\ End(c)
    /\ UNCHANGED tables

(* A statement fails before it has had an effect, and the request with it. *)
Fail(c) ==
    /\ pc[c] \notin {"idle", "reply"}
    /\ pc[c] = "begin" => req[c].status # "invalid"
    /\ reply' = [reply EXCEPT ![c] = "error"]
    /\ End(c)
    /\ UNCHANGED <<tables, shown>>

(* The client goes away: its context is cancelled, its answer is lost. *)
Disconnect(c) ==
    /\ pc[c] # "idle"
    /\ End(c)
    /\ UNCHANGED <<tables, client>>

(* The process dies and starts again; SQLite keeps what was committed. *)
Crash ==
    /\ conn' = None
    /\ pc' = [c \in Clients |-> "idle"]
    /\ req' = [c \in Clients |-> None]
    /\ existing' = [c \in Clients |-> None]
    /\ tx' = [c \in Clients |-> None]
    /\ view' = [c \in Clients |-> Nothing]
    /\ status' = [c \in Clients |-> None]
    /\ UNCHANGED <<tables, client>>

Progress(c) ==
    \/ RefuseUpsert(c) \/ Begin(c) \/ Read(c) \/ Write(c) \/ AppendLog(c) \/ Commit(c)
    \/ NotFound(c) \/ CheckRow(c) \/ InsertNote(c)
    \/ GetRow(c) \/ ListNotes(c) \/ ListLog(c)
    \/ Respond(c)

Next ==
    \/ Crash
    \/ \E c \in Clients :
          \/ \E q \in Request : Arrive(c, q)
          \/ Progress(c) \/ Fail(c) \/ Disconnect(c)

(* The pool hands a connection that is returned to one of the requests that   *)
(* wait for it, to any of them again and again but not always to the others.  *)
Fairness == \A c \in Clients : SF_vars(Progress(c))

Spec == Init /\ [][Next]_vars /\ Fairness
-----------------------------------------------------------------------------
(* Properties. *)

(* The log of an event tells the whole history of its row: it opens the row,  *)
(* each entry starts where the one before ended and changes the status, and   *)
(* the last one ends at the status of the row.  A failed, cancelled or        *)
(* crashed upsert leaves neither a row without its entry nor the reverse.     *)
LogChains ==
    \A e \in Events :
        /\ row[e] = None <=> log[e] = << >>
        /\ row[e] # None => log[e][Len(log[e])].to = row[e].status
        /\ \A i \in 1..Len(log[e]) :
              /\ log[e][i].from = IF i = 1 THEN None ELSE log[e][i - 1].to
              /\ log[e][i].from # log[e][i].to

(* A detail is read in three transactions, but the log it shows is never      *)
(* behind the row it shows: the status has an entry that explains it.         *)
LogExplainsDetail ==
    \A c \in Clients : pc[c] = "reply" /\ req[c].op = "get" =>
        \E i \in 1..view[c].log : log[req[c].event][i].to = status[c]

(* What a client was told is there when it looks: after an "ok", a detail of  *)
(* the same event finds the row and shows the transition or the note that was *)
(* acknowledged, whatever other clients, failures and crashes came between.   *)
AckedIsShown ==
    [][\A c \in Clients :
            /\ pc[c] # "idle" /\ pc'[c] = "idle"
            /\ req[c].op = "get" /\ shown[c].event = req[c].event
            => /\ reply'[c] # "notfound"
               /\ reply'[c] = "ok" =>
                     shown'[c].log >= shown[c].log /\ shown'[c].notes >= shown[c].notes]_vars

Committing(c) == pc[c] = "commit" /\ pc'[c] = "reply"

(* No lost updates: an upsert that leaves a field out keeps the value some    *)
(* other client may have given it a moment before, and none changes the       *)
(* evidence a row was opened with.                                            *)
OnlyNamedFieldsChange ==
    [][\A c \in Clients : Committing(c) /\ row[req[c].event] # None =>
          LET q == req[c]  x == row[q.event]  y == row'[q.event]
          IN  /\ q.status = None => y.status = x.status
              /\ q.assignee = None /\ ~ q.clear => y.assignee = x.assignee
              /\ y.snapshot = x.snapshot]_vars

(* The row has the status and the assignee that the request asks for.         *)
Satisfied(x, q) ==
    /\ x # None
    /\ q.status \in {None, x.status}
    /\ IF q.clear THEN x.assignee = None ELSE q.assignee \in {None, x.assignee}

(* A client whose answer was lost may send its upsert again: where what it    *)
(* asks for is already so, it changes no status, assignee or evidence and     *)
(* logs no transition.  Its commit still sets updated_at, which Row leaves    *)
(* out (repo.go:131).                                                         *)
RetryIsHarmless ==
    [][\A c \in Clients :
          LET e == req[c].event
          IN  Committing(c) /\ Satisfied(row[e], req[c]) =>
                  /\ row'[e].status = row[e].status
                  /\ row'[e].assignee = row[e].assignee
                  /\ row'[e].snapshot = row[e].snapshot
                  /\ log'[e] = log[e]]_vars

(* The store implements the API's promise: an upsert takes effect when it     *)
(* commits, a note when it is inserted, a detail when its log is read.        *)
Promise == INSTANCE Triage WITH
    call <- req,
    done <- [c \in Clients |-> pc[c] = "reply"]

KeepsPromise == Promise!Spec

(* Every request ends: no transaction keeps the connection from the others.   *)
EveryRequestEnds == \A c \in Clients : pc[c] # "idle" ~> pc[c] = "idle"
=============================================================================
