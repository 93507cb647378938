------------------------------ MODULE SlideOver -----------------------------
(***************************************************************************)
(* SlideOver.tsx with the hooks of useTriage.ts: the panel that shows one  *)
(* alert at a time and writes its triage, against the API that module      *)
(* Triage promises (a request takes effect at one instant, or not at all,  *)
(* and its answer may be lost) and against the writes of other users.      *)
(*                                                                         *)
(* A client is one mutation of the console: a call, issued once, whose     *)
(* answer may come long after the panel has moved on to another alert.     *)
(* A detail in the query cache is what one GET returned: the row and the   *)
(* number of writes it reflects.  A fetch stands for all its attempts      *)
(* (useTriageDetail tries three times, unless the answer is a 404).        *)
(***************************************************************************)
EXTENDS TriageData, FiniteSets

CONSTANTS
    MaxForeign,      (* bound: writes by other users                         *)
    MaxOpens         (* bound: times an alert is brought on screen           *)

ASSUME PanelAssumption ==
    /\ MaxForeign \in Nat /\ MaxOpens \in Nat
    /\ Clients # {}
    /\ Snapshots # {}

VARIABLES
    row, notes,      (* the server: rows, and for each event its notes, each
                        named after the event its author had on screen       *)
    ver,             (* the number of writes to an event so far              *)
    foreign,         (* the number of other users' writes                    *)
    opens,           (* the number of times an alert was brought on screen   *)
    shown,           (* the event of the mounted SlideOverBody, or None      *)
    focus,           (* the field that has the focus                         *)
    assigneeDraft,   (* None is the empty string                             *)
    noteDraft,       (* whether there is text in the note field              *)
    detail,          (* ['triage', host, event] in the query cache           *)
    fetch,           (* its GET in flight, or None                           *)
    call,            (* the mutations issued                                 *)
    upsert, append,  (* the mutation each observer follows, or None          *)
    owed             (* ver as of the last write acknowledged while its
                        loaded detail was on screen                          *)

server == <<row, notes, ver>>
panel  == <<opens, shown, focus, assigneeDraft, noteDraft>>
vars   == <<server, foreign, panel, detail, fetch, call, upsert, append, owed>>

Detail == [row : Row, ver : Nat]

(* No data is shown as the 404 of an alert that nobody has acted on.        *)
Cached == [data : Detail \cup {None}, failed : BOOLEAN]

Fetch ==
    [phase : {"sent"}] \cup [phase : {"found"}, data : Detail]
    \cup [phase : {"notfound"}]

ASSUME FetchAssumption == None \notin Fetch

(* A mutation: then is the call its onSuccess appends a note with, from the
   alert on screen when the user acted, ver the write it made.  Nothing is
   kept of one that is over.                                                 *)
Call ==
    [req : UpsertInput \cup [op : {"note"}, event : Events],
     then : Clients \cup {None}, from : Events, ver : Nat, phase : {"sent", "done"}]
    \cup [phase : {"over"}]

TypeOK ==
    /\ row \in [Events -> Row \cup {None}]
    /\ notes \in [Events -> Seq(Events)]
    /\ ver \in [Events -> Nat]
    /\ foreign \in 0..MaxForeign
    /\ opens \in 0..MaxOpens
    /\ shown \in Events \cup {None}
    /\ focus \in {"none", "assignee", "note"}
    /\ assigneeDraft \in Assignees \cup {None}
    /\ noteDraft \in BOOLEAN
    /\ detail \in [Events -> Cached]
    /\ fetch \in [Events -> Fetch \cup {None}]
    /\ call \in [Clients -> Call \cup {None}]
    /\ upsert \in Clients \cup {None}
    /\ append \in Clients \cup {None}
    /\ owed \in [Events -> Nat]

Init ==
    /\ row = [e \in Events |-> None]
    /\ notes = [e \in Events |-> << >>]
    /\ ver = [e \in Events |-> 0]
    /\ foreign = 0
    /\ opens = 0
    /\ shown = None
    /\ focus = "none"
    /\ assigneeDraft = None
    /\ noteDraft = FALSE
    /\ detail = [e \in Events |-> [data |-> None, failed |-> FALSE]]
    /\ fetch = [e \in Events |-> None]
    /\ call = [c \in Clients |-> None]
    /\ upsert = None
    /\ append = None
    /\ owed = [e \in Events |-> 0]

-----------------------------------------------------------------------------
(* useMutation and the query cache. *)

InFlight(c) == call[c] # None /\ call[c].phase # "over"
IsPending(observer) == observer # None /\ InFlight(observer)

(* A call no observer and no onSuccess has taken yet.                        *)
Free(c) == call[c] = None /\ \A d \in Clients : InFlight(d) => call[d].then # c

Over == [phase |-> "over"]

Sent(req, then) ==
    [req |-> req, then |-> then, from |-> shown, ver |-> 0, phase |-> "sent"]

Start(e) == [fetch EXCEPT ![e] = [phase |-> "sent"]]

(* Variant: an invalidation leaves a fetch in flight alone.                  *)
InvalidateIdle(e) ==
    IF shown = e /\ fetch[e] = None THEN Start(e) ELSE fetch

(* qc.invalidateQueries: a query on screen is fetched again.  What is in     *)
(* flight for it is cancelled when the cache holds data, and joined when it  *)
(* does not; a query that is not on screen waits for its next mount.         *)
Invalidate(e) ==
    IF shown = e /\ (detail[e].data # None \/ fetch[e] = None) THEN Start(e) ELSE fetch

(* The dependency of the assignee effect: unloaded and unassigned differ.    *)
Assigned(cache, e) ==
    IF e = None \/ cache[e].data = None THEN "unloaded" ELSE cache[e].data.row.assignee

Text(assigned) == IF assigned = "unloaded" THEN None ELSE assigned

(* Variant: whether the user is editing the field or not.                    *)
SyncAlways(before, after) ==
    assigneeDraft' = IF after # before THEN Text(after) ELSE assigneeDraft

(* The assignee effect: runs when the assignee on the server is seen to      *)
(* change, and leaves the field alone while it has the focus.                *)
SyncAssignee(before, after) ==
    assigneeDraft' = IF after # before /\ focus # "assignee" THEN Text(after) ELSE assigneeDraft
-----------------------------------------------------------------------------
(* The panel: opening, moving to another alert, closing.                     *)

(* A mount fetches its query unless that is already in flight.               *)
Mounted(e) == IF fetch[e] = None THEN Start(e) ELSE fetch

Open(e) ==
    /\ shown = None
    /\ opens < MaxOpens
    /\ opens' = opens + 1
    /\ shown' = e
    /\ assigneeDraft' = Text(Assigned(detail, e))
    /\ fetch' = Mounted(e)
    /\ UNCHANGED <<server, foreign, focus, noteDraft, detail, call, upsert, append, owed>>

(* Another alert is selected with j or k, which fields swallow: the same     *)
(* component, with its drafts and mutations.                                 *)
Switch(e) ==
    /\ shown \notin {None, e}
    /\ focus = "none"
    /\ opens < MaxOpens
    /\ opens' = opens + 1
    /\ shown' = e
    /\ SyncAssignee(Assigned(detail, shown), Assigned(detail, e))
    /\ fetch' = Mounted(e)
    /\ UNCHANGED <<server, foreign, focus, noteDraft, detail, call, upsert, append, owed>>

(* The panel is closed, or its event is no longer loaded: the body unmounts, *)
(* its drafts are gone and nobody follows its mutations any more.            *)
Close ==
    /\ shown # None
    /\ shown' = None
    /\ focus' = "none"
    /\ assigneeDraft' = None
    /\ noteDraft' = FALSE
    /\ upsert' = None
    /\ append' = None
    /\ UNCHANGED <<server, foreign, opens, detail, fetch, call, owed>>

Focus(field) ==
    /\ shown # None
    /\ focus # field
    /\ focus' = field
    /\ UNCHANGED <<server, foreign, opens, shown, assigneeDraft, noteDraft, detail, fetch, call,
                   upsert, append, owed>>

TypeAssignee(text) ==
    /\ focus = "assignee"
    /\ assigneeDraft' = text
    /\ UNCHANGED <<server, foreign, opens, shown, focus, noteDraft, detail, fetch, call,
                   upsert, append, owed>>

TypeNote ==
    /\ shown # None
    /\ focus' = "note"
    /\ noteDraft' = TRUE
    /\ UNCHANGED <<server, foreign, opens, shown, assigneeDraft, detail, fetch, call,
                   upsert, append, owed>>
-----------------------------------------------------------------------------
(* What the user sends. *)

Loaded == detail[shown].data # None

(* ensureSnapshot: the evidence goes along until the row is known to exist.  *)
EnsureSnapshot == IF Loaded THEN {None} ELSE Snapshots

Status == IF Loaded THEN detail[shown].data.row.status ELSE "open"

Mutate(c, req, then) ==
    /\ Free(c)
    /\ call' = [call EXCEPT ![c] = Sent(req, then)]

(* The status buttons, and the keys c and r, which press them.               *)
SetStatus(c, status) ==
    /\ shown # None /\ focus = "none"
    /\ ~ IsPending(upsert)
    /\ status = "open" => Status # "open"
    /\ \E snapshot \in EnsureSnapshot :
          Mutate(c, [op |-> "upsert", event |-> shown, status |-> status, assignee |-> None,
                     clear |-> FALSE, snapshot |-> snapshot], None)
    /\ upsert' = c
    /\ UNCHANGED <<server, foreign, panel, detail, fetch, append, owed>>

(* The assignee form; an empty field clears the assignee.                    *)
Assign(c) ==
    /\ shown # None /\ focus # "note"
    /\ ~ IsPending(upsert)
    /\ \E snapshot \in EnsureSnapshot :
          Mutate(c, [op |-> "upsert", event |-> shown, status |-> None,
                     assignee |-> assigneeDraft, clear |-> assigneeDraft = None,
                     snapshot |-> snapshot], None)
    /\ upsert' = c
    /\ UNCHANGED <<server, foreign, panel, detail, fetch, append, owed>>

AppendRequest(e) == [op |-> "note", event |-> e]

(* Enter in the field submits it whether or not the button is disabled.      *)
CanSubmitNote ==
    /\ shown # None /\ noteDraft
    /\ focus = "note" \/ (focus = "none" /\ ~ IsPending(append))

(* Variant: the row is taken to exist.                                       *)
SubmitNoteAtOnce(c) ==
    /\ CanSubmitNote
    /\ Mutate(c, AppendRequest(shown), None)
    /\ append' = c
    /\ UNCHANGED <<server, foreign, panel, detail, fetch, upsert, owed>>

(* onSubmitNote, once the detail is loaded.                                  *)
SubmitNote(c) ==
    /\ CanSubmitNote
    /\ Loaded
    /\ Mutate(c, AppendRequest(shown), None)
    /\ append' = c
    /\ UNCHANGED <<server, foreign, panel, detail, fetch, upsert, owed>>

(* onSubmitNote without a detail: the row is upserted first, and the note is *)
(* appended by that mutation's onSuccess.                                    *)
SubmitFirstNote(c, then) ==
    /\ CanSubmitNote
    /\ ~ Loaded
    /\ c # then /\ Free(then)
    /\ \E snapshot \in Snapshots :
          Mutate(c, [op |-> "upsert", event |-> shown, status |-> "open", assignee |-> None,
                     clear |-> FALSE, snapshot |-> snapshot], then)
    /\ upsert' = c
    /\ UNCHANGED <<server, foreign, panel, detail, fetch, append, owed>>

-----------------------------------------------------------------------------
(* The triage API, as module Triage promises it. *)

CurrentDetail(e) == [row |-> row[e], ver |-> ver[e]]

Perform(c) ==
    LET q == call[c].req
        e == q.event
    IN
    /\ InFlight(c) /\ call[c].phase = "sent"
    /\ IF q.op = "upsert"
       THEN /\ ~ LacksSnapshot(row[e], q)
            /\ row' = [row EXCEPT ![e] = Written(row[e], q)]
            /\ UNCHANGED notes
       ELSE /\ row[e] # None
            /\ notes' = [notes EXCEPT ![e] = Append(notes[e], call[c].from)]
            /\ UNCHANGED row
    /\ ver' = [ver EXCEPT ![e] = @ + 1]
    /\ call' = [call EXCEPT ![c].phase = "done", ![c].ver = ver[e] + 1]
    /\ UNCHANGED <<foreign, panel, detail, fetch, upsert, append, owed>>

(* Another user changes a row, or makes it.                                  *)
ForeignUpsert(e, status) ==
    /\ foreign < MaxForeign
    /\ foreign' = foreign + 1
    /\ \E snapshot \in Snapshots :
          row' = [row EXCEPT ![e] = Written(row[e],
                     [op |-> "upsert", event |-> e, status |-> status, assignee |-> None,
                      clear |-> FALSE, snapshot |-> snapshot])]
    /\ ver' = [ver EXCEPT ![e] = @ + 1]
    /\ UNCHANGED <<notes, panel, detail, fetch, call, upsert, append, owed>>

(* GET /triage/{host}/{event}: read at one instant.                          *)
ServeDetail(e) ==
    /\ fetch[e] # None /\ fetch[e].phase = "sent"
    /\ fetch' = [fetch EXCEPT ![e] =
                   IF row[e] = None THEN [phase |-> "notfound"]
                   ELSE [phase |-> "found", data |-> CurrentDetail(e)]]
    /\ UNCHANGED <<server, foreign, panel, detail, call, upsert, append, owed>>
-----------------------------------------------------------------------------
(* Answers. *)

ReceiveDetail(e) ==
    /\ fetch[e] # None /\ fetch[e].phase # "sent"
    /\ detail' = [detail EXCEPT ![e] =
                    [data   |-> IF fetch[e].phase = "found" THEN fetch[e].data ELSE None,
                     failed |-> FALSE]]
    /\ fetch' = [fetch EXCEPT ![e] = None]
    /\ SyncAssignee(Assigned(detail, shown), Assigned(detail', shown))
    /\ UNCHANGED <<server, foreign, opens, shown, focus, noteDraft, call, upsert, append, owed>>

(* The last attempt has failed: what is cached stays.                        *)
ReceiveDetailError(e) ==
    /\ fetch[e] # None
    /\ detail' = [detail EXCEPT ![e].failed = TRUE]
    /\ fetch' = [fetch EXCEPT ![e] = None]
    /\ UNCHANGED <<server, foreign, panel, call, upsert, append, owed>>

(* Variant: the note goes to the alert on screen when the row is there.      *)
FollowUpOnScreen(c) ==
    [Sent(AppendRequest(IF shown = None THEN call[c].req.event ELSE shown), None)
        EXCEPT !.from = call[c].from]

(* The note that a first note's upsert appends: to the alert it was meant    *)
(* for, whatever is on screen by now.                                        *)
FollowUp(c) ==
    [Sent(AppendRequest(call[c].req.event), None) EXCEPT !.from = call[c].from]

(* The onSuccess given to mutate runs only if no later mutate has taken its  *)
(* observer over and the panel is still mounted.                             *)
UpsertSucceeded(c) ==
    IF upsert = c /\ call[c].then # None
    THEN /\ call' = [call EXCEPT ![c] = Over, ![call[c].then] = FollowUp(c)]
         /\ append' = call[c].then
    ELSE /\ call' = [call EXCEPT ![c] = Over]
         /\ UNCHANGED append

Acknowledge(c) ==
    LET e == call[c].req.event IN
    /\ fetch' = Invalidate(e)
    /\ owed' = IF shown = e /\ detail[e].data # None
               THEN [owed EXCEPT ![e] = IF call[c].ver > @ THEN call[c].ver ELSE @]
               ELSE owed

ReceiveUpsert(c) ==
    /\ InFlight(c) /\ call[c].phase = "done" /\ call[c].req.op = "upsert"
    /\ Acknowledge(c)
    /\ UpsertSucceeded(c)
    /\ UNCHANGED <<server, foreign, panel, detail, upsert>>

ReceiveNote(c) ==
    /\ InFlight(c) /\ call[c].phase = "done" /\ call[c].req.op = "note"
    /\ Acknowledge(c)
    /\ call' = [call EXCEPT ![c] = Over]
    /\ noteDraft' = (noteDraft /\ append # c)
    /\ UNCHANGED <<server, foreign, opens, shown, focus, assigneeDraft, detail, upsert, append>>

(* The call had no effect, or it had one and its answer is lost.             *)
ReceiveError(c) ==
    /\ InFlight(c)
    /\ call' = [call EXCEPT ![c] = Over]
    /\ UNCHANGED <<server, foreign, panel, detail, fetch, upsert, append, owed>>
-----------------------------------------------------------------------------
User ==
    \/ \E e \in Events : Open(e) \/ Switch(e)
    \/ Close
    \/ \E field \in {"none", "assignee"} : Focus(field)
    \/ \E text \in Assignees \cup {None} : TypeAssignee(text)
    \/ TypeNote
    \/ \E c \in Clients :
          \/ \E status \in Statuses : SetStatus(c, status)
          \/ Assign(c)
          \/ SubmitNote(c)
          \/ \E then \in Clients : SubmitFirstNote(c, then)

Server ==
    \/ \E c \in Clients : Perform(c)
    \/ \E e \in Events : ServeDetail(e)
    \/ \E e \in Events, status \in Statuses : ForeignUpsert(e, status)

Browser ==
    \/ \E e \in Events : ReceiveDetail(e) \/ ReceiveDetailError(e)
    \/ \E c \in Clients : ReceiveUpsert(c) \/ ReceiveNote(c) \/ ReceiveError(c)

Next == User \/ Server \/ Browser

Spec == Init /\ [][Next]_vars
-----------------------------------------------------------------------------
(* A note is appended to the alert its author had on screen, however long    *)
(* the upsert before it took and wherever the panel has moved since          *)
(* (onSubmitNote closes over the event, SlideOver.tsx:156).                  *)
NotesStayHome == \A e \in Events : \A i \in DOMAIN notes[e] : notes[e][i] = e

(* A request that needs the row to exist is only sent when it does: the      *)
(* server's 404 for a note and 409 for a first upsert without evidence never *)
(* meet a user whose requests arrive (SlideOver.tsx:122, 142).               *)
NeverRefused ==
    \A c \in Clients :
        InFlight(c) /\ call[c].phase = "sent" =>
            LET q == call[c].req IN
            q.op = "note" \/ q.snapshot = None => row[q.event] # None

(* When nothing is being loaded and the last load did not fail, the panel    *)
(* shows at least every write that was acknowledged while it showed the      *)
(* loaded alert: no answer to an older GET is left standing over it (the     *)
(* invalidations of useTriage.ts:38, 51).                                    *)
ShownIsCurrent ==
    \A e \in Events :
        fetch[e] = None /\ ~ detail[e].failed /\ detail[e].data # None
        => detail[e].data.ver >= owed[e]

(* No answer changes the assignee field while the user is in it              *)
(* (SlideOver.tsx:102, "we don't clobber their typing").                     *)
TypingNotClobbered ==
    [][focus = "assignee" /\ focus' = "assignee" /\ shown' = shown /\ detail' # detail
       => assigneeDraft' = assigneeDraft]_vars

(* A note with its upsert "create it first when this is an un-actioned       *)
(* alert" (SlideOver.tsx:142) leaves the status of an alert that has been    *)
(* acted on alone.                                                           *)
NoteKeepsStatus ==
    [][\A c \in Clients :
          InFlight(c) /\ call[c].phase = "sent" /\ call[c].then # None
          => LET e == call[c].req.event IN
             InFlight(c)' /\ call'[c].phase = "done" /\ row[e] # None
             => row'[e].status = row[e].status]_vars
=============================================================================
