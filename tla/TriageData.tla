----------------------------- MODULE TriageData -----------------------------
(***************************************************************************)
(* The rows, log entries and requests of the triage store                  *)
(* (internal/triage) and what an upsert computes from them.                *)
(*                                                                         *)
(* An event stands for its key (host_id, event_id).  The actor of a log    *)
(* entry, the body of a note and the timestamps are left out, updated_at   *)
(* among them, which every update moves, also one that changes nothing     *)
(* else; a malformed request is one whose status is "invalid".             *)
(***************************************************************************)
EXTENDS Integers, Sequences

CONSTANTS
    Clients,    (* HTTP clients; each has one request in flight at most       *)
    Events,     (* event keys                                                 *)
    Statuses,   (* AllStatuses, or a part of it                               *)
    Assignees, Snapshots,
    None        (* SQL NULL, a field left out, no row                         *)

Row == [status : Statuses, assignee : Assignees \cup {None}, snapshot : Snapshots]

LogEntry == [from : Statuses \cup {None}, to : Statuses]

UpsertInput ==
    [op : {"upsert"}, event : Events, status : Statuses \cup {None, "invalid"},
     assignee : Assignees \cup {None}, clear : BOOLEAN, snapshot : Snapshots \cup {None}]

Request ==
    UpsertInput \cup [op : {"note"}, event : Events] \cup [op : {"get"}, event : Events]

ASSUME TriageAssumption ==
    /\ "open" \in Statuses
    /\ "invalid" \notin Statuses
    /\ None \notin Statuses \cup Assignees \cup Snapshots \cup Clients \cup Events \cup {"invalid"}
    /\ None \notin Row \cup Request

(* Variant: an insert without a status is not given one.                      *)
InsertedAsIs(q) ==
    [status |-> q.status, assignee |-> q.assignee, snapshot |-> q.snapshot]

(* The insert path of Upsert: clear is not looked at.                         *)
Inserted(q) ==
    [status   |-> IF q.status = None THEN "open" ELSE q.status,
     assignee |-> q.assignee,
     snapshot |-> q.snapshot]

(* Variant: the update takes the request's snapshot.                          *)
UpdatedSnapshot(x, q) ==
    [status   |-> IF q.status = None THEN x.status ELSE q.status,
     assignee |-> IF q.clear THEN None
                  ELSE IF q.assignee = None THEN x.assignee ELSE q.assignee,
     snapshot |-> IF q.snapshot = None THEN x.snapshot ELSE q.snapshot]

(* The update path: a field left out keeps its value, clear wins over an      *)
(* assignee, the snapshot never changes.  It also sets updated_at to now,     *)
(* whatever was asked for (repo.go:131).                                      *)
Updated(x, q) ==
    [status   |-> IF q.status = None THEN x.status ELSE q.status,
     assignee |-> IF q.clear THEN None
                  ELSE IF q.assignee = None THEN x.assignee ELSE q.assignee,
     snapshot |-> x.snapshot]

Written(x, q) == IF x = None THEN Inserted(q) ELSE Updated(x, q)

(* Variants: the opening is not logged; every update is, a transition or not. *)
LoggedUpdates(x, q) ==
    IF x # None /\ q.status \notin {None, x.status}
    THEN <<[from |-> x.status, to |-> q.status]>>
    ELSE << >>

LoggedAlways(x, q) ==
    IF x = None THEN <<[from |-> None, to |-> Inserted(q).status]>>
    ELSE <<[from |-> x.status, to |-> Updated(x, q).status]>>

(* The log entries an upsert appends: the opening, or a change of status.     *)
Logged(x, q) ==
    IF x = None THEN <<[from |-> None, to |-> Inserted(q).status]>>
    ELSE IF q.status \notin {None, x.status}
         THEN <<[from |-> x.status, to |-> q.status]>>
         ELSE << >>

(* ErrMissingFields: an insert needs the event it is about. *)
LacksSnapshot(x, q) == x = None /\ q.snapshot = None
=============================================================================
