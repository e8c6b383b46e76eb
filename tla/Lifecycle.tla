------------------------------ MODULE Lifecycle ------------------------------
(***************************************************************************)
(* A request through the cycle of its statuses: what the form offers to    *)
(* the people who have a part in it, and whom a change of status is        *)
(* announced to, while the parts themselves change hands.                  *)
(*                                                                         *)
(* Left out: the locks of module Checkout.  A checkout decides whether a   *)
(* form is shown with its buttons and the administrator may clear all of   *)
(* them at any time, so here every form has them.  A save that fails or    *)
(* kills its child changes nothing here and is left out too.  send_email   *)
(* itself is empty in the code: told is the list it is called with.        *)
(***************************************************************************)
EXTENDS StatusRules

CONSTANTS
  User,       \* user_oids
  Window,     \* browser windows; one handler at a time serves a window
  UserOf,     \* the user logged in at each window
  Component,  \* component_oids
  None,       \* user 1, to whom nobody is assigned
  Officers,   \* the system users an administrator may appoint (a bound)
  Chosen,     \* the statuses users pick from the list box (a bound)
  MayDie      \* whether a child may be lost between two statements

System == [qa_mgr : User, comp_super : User, market_mgr : User]

ASSUME LifecycleAssumption ==
  /\ None \in User
  /\ Officers \subseteq System
  /\ UserOf \in [Window -> User]
  /\ Chosen \subseteq Status
  /\ MayDie \in BOOLEAN

VARIABLES
  record,   \* the row of the request in requests
  system,   \* the row of system
  manager,  \* components.user_oid
  page,     \* the form of the request at each window, by Back if need be
  job,      \* the handler at work for each window
  told,     \* whom the last change of status was announced to
  managed   \* a history variable: who has ever been the QA manager

vars == <<record, system, manager, page, job, told, managed>>

-----------------------------------------------------------------------------
Record == [status : Status, submitter : User, assigned_to : User,
           verified_by : User, component : Component]

\* What h_sh_request shows: statuses is its list box of statuses, empty where
\* there is none.
NoForm == [kind |-> "none"]
Form == [kind : {"form"}, starting_status : Status,
         statuses : SUBSET Status, controls : BOOLEAN]

\* ut: what the session's user is to the record that was fetched.
Idle == [pc |-> "idle"]
Unknown == [qa_mgr |-> {}]
ShowJob == [pc : {"system users"}, starting_status : Status, ut : SUBSET Roles]

People == [qa_mgr : User, comp_super : User, market_mgr : User, submitter : User,
           assigned_to : User, verified_by : User, comp_mgr : User]

\* A save that changed the status and is to announce it.  people is a history
\* column: who had a part in the request as it was saved, until somebody else
\* saves something that decides about that.
MailJob == [pc : {"candidates", "finalists"}, from : Status, to : Status,
            people : People \cup {Unknown}, system : System \cup {Unknown}]

At(w, pc) == job[w].pc = pc
Finish(w) == job' = [job EXCEPT ![w] = Idle]

Disturbed(j) ==
  IF j.pc \in {"candidates", "finalists"} THEN [j EXCEPT !.people = Unknown] ELSE j

TypeOK ==
  /\ record \in Record
  /\ system \in System
  /\ manager \in [Component -> User]
  /\ page \in [Window -> {NoForm} \cup Form]
  /\ job \in [Window -> {Idle} \cup ShowJob \cup MailJob]
  /\ told \subseteq User
  /\ managed \subseteq User

NewRequestWithoutStatus(submitter, component) ==
  [status |-> 0, submitter |-> submitter, assigned_to |-> None,
   verified_by |-> None, component |-> component]

\* A new request: the columns the insert does not name take their defaults.
NewRequest(submitter, component) ==
  [status |-> New, submitter |-> submitter, assigned_to |-> None,
   verified_by |-> None, component |-> component]

Init ==
  /\ \E u \in User, c \in Component : record = NewRequest(u, c)
  /\ system \in Officers
  /\ manager \in [Component -> User]
  /\ page = [w \in Window |-> NoForm]
  /\ job = [w \in Window |-> Idle]
  /\ told = {}
  /\ managed = {system.qa_mgr}

-----------------------------------------------------------------------------
(* The form of the request.                                                *)

\* The parts of the request itself, of which the component's manager is one.
OwnRoles == {"submitter", "assigned_to", "verified_by", "comp_mgr"}

PeopleOf(req) == RoleHolders(system, req, manager[req.component])

ToShow(w, req, starting_status) ==
  job' = [job EXCEPT ![w] =
            [pc |-> "system users", starting_status |-> starting_status,
             ut |-> UserType(UserOf[w], PeopleOf(req)) \cap OwnRoles]]

OpenRequest(w) ==
  /\ At(w, "idle")
  /\ ToShow(w, record, record.status)
  /\ UNCHANGED <<record, system, manager, page, told, managed>>

\* Another component or product was picked: what the form holds is laid over
\* the record, which is fetched again, but the manager of its component.
ReprocessRequest(w) ==
  /\ At(w, "idle")
  /\ page[w].kind = "form" /\ page[w].controls
  /\ \E a, v \in User :
       ToShow(w, [record EXCEPT !.assigned_to = a, !.verified_by = v], page[w].starting_status)
  /\ UNCHANGED <<record, system, manager, page, told, managed>>

\* The system users are fetched and the form is made.
ShowForm(w) ==
  /\ At(w, "system users")
  /\ LET s == job[w].starting_status
         ut == job[w].ut \cup {role \in DOMAIN system : system[role] = UserOf[w]}
     IN page' = [page EXCEPT ![w] =
          [kind |-> "form", starting_status |-> s, controls |-> create_controls(s, ut),
           statuses |-> IF create_status(s, ut) THEN db_fetch_status_list(ut, s) ELSE {}]]
  /\ Finish(w)
  /\ UNCHANGED <<record, system, manager, told, managed>>

-----------------------------------------------------------------------------
(* Saving the request, and telling the people it concerns.                 *)

Statuses(w) ==
  IF page[w].statuses = {} THEN {page[w].starting_status} ELSE page[w].statuses \cap Chosen

\* The update, the history and the check-in; then the e-mail, if the status is
\* another than the form's.
SaveRequest(w) ==
  /\ At(w, "idle")
  /\ page[w].kind = "form" /\ page[w].controls
  /\ \E s \in Statuses(w), a, v \in User, c \in Component :
       /\ record' = [record EXCEPT !.status = s, !.assigned_to = a,
                                   !.verified_by = v, !.component = c]
       /\ job' = [x \in Window |->
                    IF x # w THEN Disturbed(job[x])
                    ELSE IF s = page[w].starting_status THEN Idle
                    ELSE [pc |-> "candidates", from |-> page[w].starting_status, to |-> s,
                          people |-> PeopleOf(record'), system |-> Unknown]]
  /\ UNCHANGED <<system, manager, page, told, managed>>

\* fetch_email_canidates, its first statement.
FetchSystem(w) ==
  /\ At(w, "candidates")
  /\ job' = [job EXCEPT ![w].pc = "finalists", ![w].system = system]
  /\ UNCHANGED <<record, system, manager, page, told, managed>>

HoldersAsFetchedInOtherOrder(w) ==
  RoleHoldersInOtherOrder(job[w].system, record, manager[record.component])

HoldersAsFetched(w) == RoleHolders(job[w].system, record, manager[record.component])

\* Its second statement, which reads the row of the request as it is by now,
\* the choice among the candidates, and the addresses.
Announce(w) ==
  /\ At(w, "finalists")
  /\ told' = db_fetch_email_finalists(select_email_finalists(job[w].from, job[w].to),
                                      HoldersAsFetched(w), UserOf[w])
  /\ Finish(w)
  /\ UNCHANGED <<record, system, manager, page, managed>>

-----------------------------------------------------------------------------
(* The parts change hands.                                                 *)

SaveSystemUsers ==
  /\ \E s \in Officers : s # system /\ system' = s
  /\ managed' = managed \cup {system'.qa_mgr}
  /\ job' = [w \in Window |-> Disturbed(job[w])]
  /\ UNCHANGED <<record, manager, page, told>>

SaveComponent ==
  /\ \E c \in Component, u \in User :
       u # manager[c] /\ manager' = [manager EXCEPT ![c] = u]
  /\ job' = [w \in Window |-> Disturbed(job[w])]
  /\ UNCHANGED <<record, system, page, told, managed>>

\* The child or its connection is lost; what is done stays done.
HandlerDies(w) ==
  /\ MayDie
  /\ ~ At(w, "idle")
  /\ Finish(w)
  /\ UNCHANGED <<record, system, manager, page, told, managed>>

Step(w) == ShowForm(w) \/ FetchSystem(w) \/ Announce(w)

Next ==
  \/ \E w \in Window :
       OpenRequest(w) \/ ReprocessRequest(w) \/ SaveRequest(w) \/ Step(w) \/ HandlerDies(w)
  \/ SaveSystemUsers
  \/ SaveComponent

Spec == Init /\ [][Next]_vars

-----------------------------------------------------------------------------
(* "Status Change Authorization And Notification Table" of shrs_help.html, *)
(* row by row but for None to New, which is no change of a request.        *)

Row(from, to, by, tell) == [from |-> from, to |-> to, by |-> by, tell |-> tell]

HelpTable ==
  { Row(New, Assigned, {"comp_mgr"}, {"assigned_to"}),
    Row(New, Withdrawn, {"submitter"}, {"comp_mgr", "submitter", "qa_mgr"}),
    Row(New, Open, {"comp_mgr"}, {}),
    Row(New, RequestInfo, {"comp_mgr"}, {"submitter"}),
    Row(New, Declined, {"comp_mgr"}, {"qa_mgr", "submitter"}),
    Row(Withdrawn, Closed, {"submitter"}, {"qa_mgr"}),
    Row(RequestInfo, Open, {"comp_mgr", "submitter"}, {"comp_mgr"}),
    Row(Open, Assigned, {"comp_mgr"}, {"assigned_to"}),
    Row(Open, Declined, {"comp_mgr"}, {"qa_mgr", "submitter"}),
    Row(Open, RequestInfo, {"comp_mgr"}, {"submitter"}),
    Row(Declined, Open, {"submitter"}, {"comp_mgr", "qa_mgr"}),
    Row(Declined, Closed, {}, {"qa_mgr"}),
    Row(Assigned, Open, {"comp_mgr"}, {"assigned_to"}),
    Row(Assigned, Fixed, {"comp_mgr", "assigned_to"}, {"comp_mgr"}),
    Row(Fixed, InTest, {}, {"comp_mgr", "qa_mgr", "verified_by"}),
    Row(Fixed, Assigned, {"comp_mgr", "assigned_to"}, {"comp_mgr", "assigned_to", "qa_mgr"}),
    Row(InTest, Assigned, {"verified_by"}, {"comp_mgr", "qa_mgr", "assigned_to"}),
    Row(InTest, Verified, {"verified_by"}, {"comp_mgr", "assigned_to", "qa_mgr"}),
    Row(Verified, InTest, {"verified_by"},
        {"verified_by", "qa_mgr", "comp_mgr", "assigned_to"}),
    Row(Verified, Closed, {}, {"qa_mgr", "comp_mgr"}) }

\* Whom the table names and select_email_finalists leaves out.
Omitted(row) ==
  CASE row.from = Withdrawn /\ row.to = Closed -> {"qa_mgr"}
    [] row.from = Declined /\ row.to = Closed -> {"qa_mgr"}
    [] row.from = Fixed /\ row.to = InTest -> {"comp_mgr"}
    [] row.from = InTest /\ row.to = Assigned -> {"assigned_to"}
    [] row.from = InTest /\ row.to = Verified -> {"comp_mgr", "assigned_to"}
    [] row.from = Verified /\ row.to = Closed -> {"qa_mgr", "comp_mgr"}
    [] OTHER -> {}

\* The rows about the change a mail is to announce, while it is known whom it
\* concerns.
RowsToTell(w) ==
  IF job[w].people = Unknown THEN {}
  ELSE {row \in HelpTable : row.from = job[w].from /\ row.to = job[w].to}

Told(w, roles) == {job[w].people[role] : role \in roles} \subseteq told' \cup {UserOf[w]}

-----------------------------------------------------------------------------
(* What the cycle is for.                                                  *)

\* "Person Authorized to Change Status", and "The QA Manager is authorized to
\* change status to any value": the status of the request is changed only by
\* whom the table authorizes or by one who has been the QA manager, through
\* every change of hands and whatever forms are still open from before it.
ChangesAuthorized ==
  [][record'.status # record.status =>
       \E w \in Window : SaveRequest(w) /\
         \/ UserOf[w] \in managed
         \/ \E row \in HelpTable :
              /\ row.from = record.status /\ row.to = record'.status
              /\ UserType(UserOf[w], PeopleOf(record)) \cap row.by # {}]_vars


\* "Individuals Notified by Email", but for those the code omits: the people
\* of the roles the table names, as they were when the change was saved, are
\* told of it, but the one who made it.  This is about the changes that have a
\* row (Request Info to Assigned has none, and tells nobody), and about mails
\* nobody's save overtakes between the check-in and the fetch of the people.
PromisedAreTold ==
  [][\A w \in Window : Announce(w) =>
       \A row \in RowsToTell(w) : Told(w, row.tell \ Omitted(row))]_vars

\* "Individuals Notified by Email": all of them are told.
ToldAsDocumented ==
  [][\A w \in Window : Announce(w) => \A row \in RowsToTell(w) : Told(w, row.tell)]_vars
=============================================================================
