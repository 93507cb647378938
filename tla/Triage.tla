------------------------------- MODULE Triage -------------------------------
(***************************************************************************)
(* What the triage API promises its clients: requests take effect one at a *)
(* time, each at one instant between its submission and its answer.  A     *)
(* request answered "ok" has taken effect once, one answered with an error *)
(* not at all, and one whose answer was lost either way.  A crash loses    *)
(* the requests in flight and nothing else.                                *)
(***************************************************************************)
EXTENDS TriageData

VARIABLES
    row, log, notes,  (* the store: what every answered write is found in     *)
    call,             (* a client's request in flight, or None                *)
    done,             (* whether it has taken effect                          *)
    reply             (* the answer to its last request, if it came             *)

vars == <<row, log, notes, call, done, reply>>
store == <<row, log, notes>>

Init ==
    /\ row = [e \in Events |-> None]
    /\ log = [e \in Events |-> << >>]
    /\ notes = [e \in Events |-> << >>]
    /\ call = [c \in Clients |-> None]
    /\ done = [c \in Clients |-> FALSE]
    /\ reply = [c \in Clients |-> "none"]

Submit(c, q) ==
    /\ call[c] = None
    /\ call' = [call EXCEPT ![c] = q]
    /\ reply' = [reply EXCEPT ![c] = "none"]
    /\ UNCHANGED <<store, done>>

Upsert(c, q) ==
    /\ q.op = "upsert"
    /\ q.status # "invalid"
    /\ ~ LacksSnapshot(row[q.event], q)
    /\ row' = [row EXCEPT ![q.event] = Written(row[q.event], q)]
    /\ log' = [log EXCEPT ![q.event] = log[q.event] \o Logged(row[q.event], q)]
    /\ UNCHANGED notes

AppendNote(c, q) ==
    /\ q.op = "note"
    /\ row[q.event] # None
    /\ notes' = [notes EXCEPT ![q.event] = Append(notes[q.event], c)]
    /\ UNCHANGED <<row, log>>

Get(q) ==
    /\ q.op = "get"
    /\ row[q.event] # None
    /\ UNCHANGED store

Perform(c) ==
    /\ call[c] # None
    /\ ~ done[c]
    /\ Upsert(c, call[c]) \/ AppendNote(c, call[c]) \/ Get(call[c])
    /\ done' = [done EXCEPT ![c] = TRUE]
    /\ UNCHANGED <<call, reply>>

Answer(c) ==
    /\ done[c]
    /\ reply' = [reply EXCEPT ![c] = "ok"]
    /\ call' = [call EXCEPT ![c] = None]
    /\ done' = [done EXCEPT ![c] = FALSE]
    /\ UNCHANGED store

(* The errors an unperformed request may be answered with. *)
Errors(q) ==
    {"error"}
    \cup (IF q.op # "upsert" /\ row[q.event] = None THEN {"notfound"} ELSE {})
    \cup (IF q.op = "upsert" /\ (q.status = "invalid" \/ LacksSnapshot(row[q.event], q))
          THEN {"invalid"} ELSE {})

Refuse(c) ==
    /\ call[c] # None
    /\ ~ done[c]
    /\ \E how \in Errors(call[c]) : reply' = [reply EXCEPT ![c] = how]
    /\ call' = [call EXCEPT ![c] = None]
    /\ UNCHANGED <<store, done>>

Lose(c) ==
    /\ call[c] # None
    /\ call' = [call EXCEPT ![c] = None]
    /\ done' = [done EXCEPT ![c] = FALSE]
    /\ UNCHANGED <<store, reply>>

Crash ==
    /\ call' = [c \in Clients |-> None]
    /\ done' = [c \in Clients |-> FALSE]
    /\ UNCHANGED <<store, reply>>

Next ==
    \/ Crash
    \/ \E c \in Clients :
          \/ \E q \in Request : Submit(c, q)
          \/ Perform(c) \/ Answer(c) \/ Refuse(c) \/ Lose(c)

Spec == Init /\ [][Next]_vars
=============================================================================
