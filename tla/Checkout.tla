------------------------------- MODULE Checkout -------------------------------
(***************************************************************************)
(* Checking a request out, saving it and checking it in, by the Apache     *)
(* children that serve the browser windows of several users.               *)
(*                                                                         *)
(* A handler runs its SQL statements one by one, each committed by itself: *)
(* nothing in the code opens a transaction.  One action of this module is  *)
(* one statement that changes a table or whose result is used later, so    *)
(* the statements of different handlers interleave freely.                 *)
(*                                                                         *)
(* Left out: the comment of a save (an insert nobody reads here), the      *)
(* e-mail of a change of status (module Lifecycle), and a window's session *)
(* (module Sessions): UserOf says who is logged in at a window.            *)
(***************************************************************************)
EXTENDS StatusRules, FiniteSets

CONSTANTS
  User,          \* user_oids
  Window,        \* browser windows; one handler at a time serves a window
  Request,       \* request_oids the sequence will yield
  Content,       \* values of the editable columns of a request but its status
  UserOf,        \* the user logged in at each window
  CheckoutTime,  \* CHECKOUT_TIME, in ticks of the clock
  Chosen,        \* the statuses users pick from the list box (a bound)
  MayDie         \* whether a child may be lost between two statements

ASSUME CheckoutAssumption ==
  /\ UserOf \in [Window -> User]
  /\ CheckoutTime \in Nat
  /\ Chosen \subseteq Status
  /\ MayDie \in BOOLEAN

VARIABLES
  requests,  \* table requests: the rows there are, by request_oid
  history,   \* table status_history: the status of each request's last row
  locks,     \* table request_locks
  qa_mgr,    \* system.qa_mgr_oid
  page,      \* the request form each window can submit, by Back if need be
  job,       \* the handler at work for each window
  orderly    \* a history variable: see UpdateRequest

vars == <<requests, history, locks, qa_mgr, page, job, orderly>>

-----------------------------------------------------------------------------
(* Rows, forms and handlers.                                               *)

Record == [status : Status, content : Content]

(***************************************************************************)
(* A row of request_locks.  ttl is expiration - now(): -1 is any time in   *)
(* the past.  window and fresh are history columns: the window whose       *)
(* handler inserted the row, and whether its form then showed the record   *)
(* as it was in the table, until the form is saved.                        *)
(***************************************************************************)
LockRow == [request : Request, user : User, ttl : -1 .. CheckoutTime,
            window : Window, fresh : BOOLEAN]

\* No form was shown yet; and the form of h_sh_request.  The hidden field
\* starting_status is the status of record.  editable: it has a Save button.
NoForm == [kind |-> "none"]
Form == [kind : {"form"}, request : Request, record : Record,
         editable : BOOLEAN, status_box : BOOLEAN, controls : BOOLEAN]

Idle == [pc |-> "idle"]
OpenJob == [pc : {"purge", "insert", "roles"}, request : Request,
            record : Record, is_checked_out : BOOLEAN]
SaveJob == [pc : {"extend", "update", "history", "checkin"}, request : Request,
            new : Record, controls : BOOLEAN, quoted : BOOLEAN]

At(w, pc) == job[w].pc = pc
Goto(w, pc) == job' = [job EXCEPT ![w].pc = pc]
Finish(w) == job' = [job EXCEPT ![w] = Idle]

RowsOf(r) == {l \in locks : l.request = r}
Granted(w, r) == {l \in RowsOf(r) : l.window = w}

\* The form the row was granted for is saved, or will never be shown.
Spent(l) == [l EXCEPT !.fresh = FALSE]

\* The handlers that updated r and have its status_history row to insert.
Logging(r) == {w \in Window : At(w, "history") /\ job[w].request = r}

TypeOK ==
  /\ DOMAIN requests \subseteq Request
  /\ \A r \in DOMAIN requests : requests[r] \in Record
  /\ history \in [Request -> Status]
  /\ locks \subseteq LockRow
  /\ qa_mgr \in User
  /\ page \in [Window -> {NoForm} \cup Form]
  /\ job \in [Window -> {Idle} \cup OpenJob \cup SaveJob]
  /\ orderly \subseteq Request

Init ==
  /\ requests = [r \in {} |-> [status |-> New]]
  /\ history = [r \in Request |-> New]
  /\ locks = {}
  /\ qa_mgr \in User
  /\ page = [w \in Window |-> NoForm]
  /\ job = [w \in Window |-> Idle]
  /\ orderly = Request

-----------------------------------------------------------------------------
(* New requests.                                                           *)

\* h_ph_save_new_request: the next request_oid, then the row, whose status
\* takes the default of the column.  Nobody knows the oid in between.
SaveNewRequest(w) ==
  /\ At(w, "idle")
  /\ \E r \in Request \ DOMAIN requests, c \in Content :
       requests' = [x \in DOMAIN requests \cup {r} |->
                      IF x = r THEN [status |-> New, content |-> c] ELSE requests[x]]
  /\ UNCHANGED <<history, locks, qa_mgr, page, job, orderly>>

-----------------------------------------------------------------------------
(* Opening a request: h_sh_request with a requested_oid, and db_checkout.  *)

\* The record is fetched before it is checked out; without one there is
\* nothing to check out and nothing changes.
OpenRequest(w, r) ==
  /\ At(w, "idle")
  /\ r \in DOMAIN requests
  /\ job' = [job EXCEPT ![w] = [pc |-> "purge", request |-> r,
                                record |-> requests[r], is_checked_out |-> FALSE]]
  /\ UNCHANGED <<requests, history, locks, qa_mgr, page, orderly>>

PurgeDueLocks(w) ==
  /\ At(w, "purge")
  /\ locks' = {l \in locks : l.ttl > 0}
  /\ Goto(w, "insert")
  /\ UNCHANGED <<requests, history, qa_mgr, page, orderly>>

\* delete from request_locks where expiration < now()
DeleteOldLocks(w) ==
  /\ At(w, "purge")
  /\ locks' = {l \in locks : l.ttl >= 0}
  /\ Goto(w, "insert")
  /\ UNCHANGED <<requests, history, qa_mgr, page, orderly>>

NewRow(w) ==
  [request |-> job[w].request, user |-> UserOf[w], ttl |-> CheckoutTime,
   window |-> w, fresh |-> requests[job[w].request] = job[w].record]

InsertAnyway(w) ==
  /\ At(w, "insert")
  /\ locks' = locks \cup {NewRow(w)}
  /\ job' = [job EXCEPT ![w].pc = "roles", ![w].is_checked_out = TRUE]
  /\ UNCHANGED <<requests, history, qa_mgr, page, orderly>>

InsertOrReplace(w) ==
  /\ At(w, "insert")
  /\ locks' = (locks \ RowsOf(job[w].request)) \cup {NewRow(w)}
  /\ job' = [job EXCEPT ![w].pc = "roles", ![w].is_checked_out = TRUE]
  /\ UNCHANGED <<requests, history, qa_mgr, page, orderly>>

InsertOrRenew(w) ==
  /\ At(w, "insert")
  /\ LET there == RowsOf(job[w].request) IN
       /\ locks' = IF there = {} THEN locks \cup {NewRow(w)}
                   ELSE (locks \ there) \cup {[l EXCEPT !.ttl = CheckoutTime] : l \in there}
       /\ job' = [job EXCEPT ![w].pc = "roles", ![w].is_checked_out = there = {}]
  /\ UNCHANGED <<requests, history, qa_mgr, page, orderly>>

\* The insert succeeds unless request_oid, which is UNIQUE, is there already:
\* in anybody's name, the user's own included.
InsertLock(w) ==
  /\ At(w, "insert")
  /\ LET free == RowsOf(job[w].request) = {} IN
       /\ locks' = IF free THEN locks \cup {NewRow(w)} ELSE locks
       /\ job' = [job EXCEPT ![w].pc = "roles", ![w].is_checked_out = free]
  /\ UNCHANGED <<requests, history, qa_mgr, page, orderly>>

\* The system users are fetched and the form is made.  Only the QA manager
\* flag decides about the controls of a form, so only it is kept of ut.
Ut(w) == IF UserOf[w] = qa_mgr THEN {"qa_mgr"} ELSE {}

ShowForm(w) ==
  /\ At(w, "roles")
  /\ LET j == job[w] IN
       page' = [page EXCEPT ![w] =
         [kind |-> "form", request |-> j.request, record |-> j.record,
          editable |-> j.is_checked_out,
          status_box |-> j.is_checked_out /\ create_status(j.record.status, Ut(w)),
          controls |-> j.is_checked_out /\ create_controls(j.record.status, Ut(w))]]
  /\ Finish(w)
  /\ UNCHANGED <<requests, history, locks, qa_mgr, orderly>>

CanSubmit(w) == At(w, "idle") /\ page[w].kind = "form" /\ page[w].editable

\* Picking another component or product submits the form to h_sh_request with
\* a request_oid: is_checked_out is 1 without a look at request_locks, the
\* record is fetched again and what the form holds is laid over it.
ReprocessRequest(w) ==
  /\ CanSubmit(w)
  /\ page[w].controls
  /\ LET status == page[w].record.status IN
       page' = [page EXCEPT ![w].status_box = create_status(status, Ut(w)),
                            ![w].controls = create_controls(status, Ut(w))]
  /\ UNCHANGED <<requests, history, locks, qa_mgr, job, orderly>>

-----------------------------------------------------------------------------
(* Saving a request: h_ph_save_request.                                    *)

\* What the form lets the user choose: a status from its list box, if there is
\* one, and the contents if it has the controls.
Statuses(w) ==
  IF page[w].status_box
  THEN Chosen \cap db_fetch_status_list({"qa_mgr"}, page[w].record.status)
  ELSE {page[w].record.status}

Contents(w) == IF page[w].controls THEN Content ELSE {page[w].record.content}

\* The parameters of the form.  quoted: a text field holds a quote, of which
\* escape_single_quotes makes a text that is not a literal of SQL.
SubmitSave(w) ==
  /\ CanSubmit(w)
  /\ \E s \in Statuses(w), c \in Contents(w), quoted \in BOOLEAN :
       /\ quoted => page[w].controls
       /\ job' = [job EXCEPT ![w] =
                    [pc |-> "extend", request |-> page[w].request,
                     new |-> [status |-> s, content |-> c],
                     controls |-> page[w].controls, quoted |-> quoted]]
  /\ UNCHANGED <<requests, history, locks, qa_mgr, page, orderly>>

Extended(l, w) ==
  IF l.request = job[w].request /\ l.user = UserOf[w]
  THEN [l EXCEPT !.ttl = CheckoutTime] ELSE l

ProlongedCheckout(w) ==
  /\ At(w, "extend")
  /\ locks' = {IF l.user = UserOf[w] THEN [l EXCEPT !.ttl = @ + CheckoutTime] ELSE l : l \in locks}
  /\ Goto(w, "update")
  /\ UNCHANGED <<requests, history, qa_mgr, page, orderly>>

\* db_extend_checkout.  An UPDATE of no row is PGRES_COMMAND_OK as well, so
\* the save goes on whether or not there was a row to extend.
ExtendCheckout(w) ==
  /\ At(w, "extend")
  /\ locks' = {Extended(l, w) : l \in locks}
  /\ Goto(w, "update")
  /\ UNCHANGED <<requests, history, qa_mgr, page, orderly>>

\* db_save takes strlen of the level of effort, which a form without the
\* controls does not send: the child dies, its lock row stays.
SaveCrashes(w) ==
  /\ At(w, "update")
  /\ ~ job[w].controls
  /\ Finish(w)
  /\ UNCHANGED <<requests, history, locks, qa_mgr, page, orderly>>

RetryUpdate(w) ==
  /\ At(w, "update")
  /\ job[w].controls /\ job[w].quoted
  /\ Goto(w, "extend")
  /\ UNCHANGED <<requests, history, locks, qa_mgr, page, orderly>>

\* The UPDATE is refused: the handler returns without checking in.
UpdateFails(w) ==
  /\ At(w, "update")
  /\ job[w].controls /\ job[w].quoted
  /\ Finish(w)
  /\ UNCHANGED <<requests, history, locks, qa_mgr, page, orderly>>

NeverChanged(w) == FALSE

\* strcmp(starting_status, ru.status_oid): the starting status is the form's.
StatusChanged(w) == page[w].record.status # job[w].new.status

(***************************************************************************)
(* db_save of CL_REQUEST: every control of the form overwrites its column. *)
(*                                                                         *)
(* orderly keeps the requests of which every update so far was made from a *)
(* form that was granted the checkout on the record it shows, still has    *)
(* its row and was not saved before, with no other save's history pending. *)
(***************************************************************************)
UpdateRequest(w) ==
  /\ At(w, "update")
  /\ job[w].controls /\ ~ job[w].quoted
  /\ LET r == job[w].request
         proper == (\E l \in Granted(w, r) : l.fresh) /\ Logging(r) = {}
     IN
       /\ requests' = [requests EXCEPT ![r] = job[w].new]
       /\ locks' = {IF l \in Granted(w, r) THEN Spent(l) ELSE l : l \in locks}
       /\ orderly' = IF proper THEN orderly ELSE orderly \ {r}
  /\ Goto(w, IF StatusChanged(w) THEN "history" ELSE "checkin")
  /\ UNCHANGED <<history, qa_mgr, page>>

InsertStartingStatus(w) ==
  /\ At(w, "history")
  /\ history' = [history EXCEPT ![job[w].request] = page[w].record.status]
  /\ Goto(w, "checkin")
  /\ UNCHANGED <<requests, locks, qa_mgr, page, orderly>>

InsertHistory(w) ==
  /\ At(w, "history")
  /\ history' = [history EXCEPT ![job[w].request] = job[w].new.status]
  /\ Goto(w, "checkin")
  /\ UNCHANGED <<requests, locks, qa_mgr, page, orderly>>

\* db_save of CL_STATUS_HISTORY fails; that is logged and the save goes on.
HistoryFails(w) ==
  /\ MayDie
  /\ At(w, "history")
  /\ orderly' = orderly \ {job[w].request}
  /\ Goto(w, "checkin")
  /\ UNCHANGED <<requests, history, locks, qa_mgr, page>>

\* delete from request_locks where request_oid= and user_oid=
WithoutRow(w, r) == {l \in locks : ~ (l.request = r /\ l.user = UserOf[w])}

\* db_checkin at the end of a save.
CheckinAfterSave(w) ==
  /\ At(w, "checkin")
  /\ locks' = WithoutRow(w, job[w].request)
  /\ Finish(w)
  /\ UNCHANGED <<requests, history, qa_mgr, page, orderly>>

\* The Cancel button of an editable form: h_ph_checkin_request.
CheckinRequest(w) ==
  /\ CanSubmit(w)
  /\ locks' = WithoutRow(w, page[w].request)
  /\ UNCHANGED <<requests, history, qa_mgr, page, job, orderly>>

-----------------------------------------------------------------------------
(* The administration menu, the clock, and a child that is lost.           *)

ClearAllLocks ==
  /\ locks # {}
  /\ locks' = {}
  /\ UNCHANGED <<requests, history, qa_mgr, page, job, orderly>>

\* h_ph_save_system_users; the other two system users play no part here.
SaveSystemUsers ==
  /\ \E u \in User : qa_mgr' = u
  /\ UNCHANGED <<requests, history, locks, page, job, orderly>>

Aged(l) == IF l.ttl >= 0 THEN [l EXCEPT !.ttl = l.ttl - 1] ELSE l

Tick ==
  /\ \E l \in locks : l.ttl >= 0
  /\ locks' = {Aged(l) : l \in locks}
  /\ UNCHANGED <<requests, history, qa_mgr, page, job, orderly>>

\* The child or its connection is lost between two statements (also what a
\* failed fetch does to h_sh_request): what is done stays done.  A grant
\* whose form never arrived vouches for no form, and a history row that was
\* not inserted is missing.
HandlerDies(w) ==
  /\ MayDie
  /\ ~ At(w, "idle")
  /\ locks' = {IF At(w, "roles") /\ l \in Granted(w, job[w].request)
               THEN Spent(l) ELSE l : l \in locks}
  /\ orderly' = IF At(w, "history") THEN orderly \ {job[w].request} ELSE orderly
  /\ Finish(w)
  /\ UNCHANGED <<requests, history, qa_mgr, page>>

-----------------------------------------------------------------------------
\* The next statement of the handler that serves w.
Step(w) ==
  \/ DeleteOldLocks(w)
  \/ InsertLock(w)
  \/ ShowForm(w)
  \/ ExtendCheckout(w)
  \/ SaveCrashes(w)
  \/ UpdateFails(w)
  \/ UpdateRequest(w)
  \/ InsertHistory(w)
  \/ HistoryFails(w)
  \/ CheckinAfterSave(w)

\* What the user of w may ask for.
Ask(w) ==
  \/ SaveNewRequest(w)
  \/ \E r \in Request : OpenRequest(w, r)
  \/ ReprocessRequest(w)
  \/ SubmitSave(w)
  \/ CheckinRequest(w)

Next ==
  \/ \E w \in Window : Ask(w) \/ Step(w) \/ HandlerDies(w)
  \/ ClearAllLocks
  \/ SaveSystemUsers
  \/ Tick

Spec == Init /\ [][Next]_vars

\* Apache runs a handler to its end and the database answers; time passes.
\* Users, the administrator and a loss owe nothing.
Fairness == WF_vars(Tick) /\ \A w \in Window : WF_vars(Step(w))

FairSpec == Spec /\ Fairness

-----------------------------------------------------------------------------
(* What the checkout is for.                                               *)

\* A request is checked out once: request_oid is UNIQUE in request_locks, and
\* the insert of db_checkout is the only way in.
UniqueLocks == \A l1, l2 \in locks : l1.request = l2.request => l1 = l2

\* w has been granted r and its form is not shown yet.
Granting(w, r) == At(w, "roles") /\ job[w].request = r /\ job[w].is_checked_out

\* w can save r: its form for r has a Save button.
Editing(w, r) == page[w].kind = "form" /\ page[w].request = r /\ page[w].editable

(***************************************************************************)
(* A checkout that was granted on the current record protects it: until    *)
(* the form is saved, the window that holds the row sees the record as it  *)
(* is in the table, whoever else works on the request, as long as every    *)
(* update of it was proper.                                                *)
(***************************************************************************)
GrantsAreFresh ==
  \A l \in locks : l.fresh /\ l.request \in orderly =>
    LET w == l.window  r == l.request IN
      /\ r \in DOMAIN requests
      /\ Granting(w, r) => job[w].record = requests[r]
      /\ ~ Granting(w, r) /\ Editing(w, r) => page[w].record = requests[r]

(***************************************************************************)
(* What keeps a handler and its form together: rows, forms and handlers    *)
(* are about requests that exist, a handler that saves does it for the     *)
(* form its window shows, and the form of a closed request has no          *)
(* controls.  With it, what follows holds by induction.                    *)
(***************************************************************************)
Saving(w) == job[w].pc \in {"extend", "update", "history", "checkin"}

HandlerFits(w) ==
  /\ ~ At(w, "idle") => job[w].request \in DOMAIN requests
  /\ Saving(w) => Editing(w, job[w].request) /\ (job[w].controls => page[w].controls)

FormFits(w) ==
  page[w].kind = "form" => /\ page[w].request \in DOMAIN requests
                           /\ page[w].controls => page[w].record.status # Closed

FormsFit ==
  /\ \A l \in locks : l.request \in DOMAIN requests
  /\ \A r \in Request \ DOMAIN requests : history[r] = New
  /\ \A w \in Window : HandlerFits(w) /\ FormFits(w)

\* No lost update: a save that overwrites a record other than the one its
\* form showed is a save without a proper checkout.
NoLostUpdate ==
  [][\A w \in Window :
       UpdateRequest(w) /\ page[w].record # requests[job[w].request]
         => job[w].request \notin orderly']_vars

\* The last row of status_history tells the status of a request, or the
\* handler that is to insert it does: comparing with the status the form was
\* opened with is enough while every update is proper.
LogMatchesStatus ==
  \A r \in orderly \cap DOMAIN requests :
    /\ Logging(r) = {} => history[r] = requests[r].status
    /\ \A w \in Logging(r) : job[w].new.status = requests[r].status

\* A closed request stays as it is, while every update of it is proper: its
\* form has no controls and no status but Closed to offer, not even to the QA
\* manager, whom a footnote of shrs_help.html lets "change status to any value".
ClosedIsFinal ==
  [][\A r \in DOMAIN requests :
       requests[r].status = Closed /\ r \in orderly' => requests'[r] = requests[r]]_vars

\* A checkout whose time has not come is taken from its user by nobody else's
\* save, cancel, opening or loss; only the administrator may clear it.
LiveCheckoutKept ==
  [][\A l \in locks :
       l.ttl >= 0 /\ ~ (\E m \in locks' : m.request = l.request /\ m.user = l.user)
         => \/ ClearAllLocks
            \/ \E w \in Window : /\ UserOf[w] = l.user
                                 /\ CheckinAfterSave(w) \/ CheckinRequest(w)]_vars

(***************************************************************************)
(* To whoever only asks who holds what, request_locks is a table of        *)
(* leases.                                                                 *)
(***************************************************************************)
HoldersOf(r) == {l.user : l \in RowsOf(r)}

Expired == {r \in Request : \E l \in RowsOf(r) : l.ttl < 0}

Leases == INSTANCE Lease WITH
  Resource <- Request, Client <- User,
  holders <- [r \in Request |-> HoldersOf(r)], expired <- Expired

\* Every statement on request_locks acquires, renews, returns or collects a
\* lease: nobody is put in another holder's place.
ImplementsLease == Leases!Spec

\* A request is free again, or can be had by the next one who opens it, if
\* at last nobody saves it: a row left by a lost child, a failed save, a
\* logout or a closed browser expires.
AbandonedLockFrees ==
  \A r \in Request :
    <>[](\A w \in Window : ~ (At(w, "extend") /\ job[w].request = r))
      => []<>(\A l \in RowsOf(r) : l.ttl < 0)

\* Every handler ends, whatever the others do to the tables meanwhile.
HandlersFinish == \A w \in Window : ~ At(w, "idle") ~> At(w, "idle")

-----------------------------------------------------------------------------
(* What the texts of the program say of it, and what it does not do.       *)

\* "Your checkout time expired.  The record is currently checked out by":
\* while another user has the request checked out, a save is refused that
\* would overwrite it.
SaveNeedsCheckout ==
  [][\A w \in Window : ExtendCheckout(w) /\ job[w].controls /\ At(w, "update")'
       => \A l \in RowsOf(job[w].request) : l.ttl >= 0 => l.user = UserOf[w]]_vars

\* A change of status by the window that holds the checkout is seen by the
\* comparison that decides about the history and the e-mail.
ChangesStatus(w) ==
  /\ UpdateRequest(w)
  /\ requests'[job[w].request].status # requests[job[w].request].status

StatusChangeLogged ==
  [][\A w \in Window : ChangesStatus(w) /\ Granted(w, job[w].request) # {}
       => StatusChanged(w)]_vars
=============================================================================
