--------------------------- MODULE LifecycleProofs ---------------------------
(***************************************************************************)
(* Theorems about Lifecycle, for any users, windows and components, any    *)
(* system users that may be appointed and any statuses picked.             *)
(***************************************************************************)
EXTENDS Lifecycle, TLAPS

-----------------------------------------------------------------------------
(* The invariants.                                                         *)

\* A mail whose finalists are to be chosen has the system users.
SystemFetched == \A w \in Window : At(w, "finalists") => job[w].system \in System

LifecycleInv == TypeOK /\ SystemFetched

\* Controls are on the forms of those who have been QA manager only; what a
\* handler knows of its user before it fetches the system users does not make
\* him one.
Controlled ==
  /\ system.qa_mgr \in managed
  /\ \A w \in Window : page[w].kind = "form" /\ page[w].controls => UserOf[w] \in managed
  /\ \A w \in Window : At(w, "system users") => job[w].ut \subseteq OwnRoles

\* While nobody saves anything the people are those of the save that is to be
\* announced, by the row of the request and by the system users fetched.
Undisturbed ==
  \A w \in Window :
    job[w].pc \in {"candidates", "finalists"} /\ job[w].people # Unknown
      => /\ job[w].people = PeopleOf(record)
         /\ At(w, "finalists") => job[w].system = system

-----------------------------------------------------------------------------
(* The rules about statuses.                                               *)

LEMMA Numbers ==
  /\ Status \subseteq Int
  /\ {New, Open, Assigned, Fixed, InTest, Verified, RequestInfo, Declined, Withdrawn, Closed}
       = Status
BY DEF Status, New, Open, Assigned, Fixed, InTest, Verified, RequestInfo, Declined, Withdrawn,
       Closed

LEMMA OffersAreStatuses ==
  ASSUME NEW ut, NEW status \in Status, NEW roles, NEW more \in SUBSET Status
  PROVE  Offer(ut, status, roles, more) \subseteq Status
BY DEF Offer, status_all

\* A form offers statuses.
LEMMA ListsAreStatuses ==
  ASSUME NEW ut, NEW status \in Status
  PROVE  db_fetch_status_list(ut, status) \subseteq Status
<1>1. status_new(ut) \subseteq Status
  BY Numbers, OffersAreStatuses DEF status_new
<1>2. status_open(ut) \subseteq Status /\ status_assigned(ut) \subseteq Status
  BY Numbers, OffersAreStatuses DEF status_open, status_assigned
<1>3. status_fixed(ut) \subseteq Status /\ status_in_test(ut) \subseteq Status
  BY Numbers, OffersAreStatuses DEF status_fixed, status_in_test
<1>4. status_verified(ut) \subseteq Status /\ status_request_info(ut) \subseteq Status
  BY Numbers, OffersAreStatuses DEF status_verified, status_request_info
<1>5. status_declined(ut) \subseteq Status /\ status_withdrawn(ut) \subseteq Status
  BY Numbers, OffersAreStatuses DEF status_declined, status_withdrawn
<1>6. status_closed(ut) \subseteq Status
  BY Numbers DEF status_closed
<1>7. QED
  BY <1>1, <1>2, <1>3, <1>4, <1>5, <1>6, Numbers DEF db_fetch_status_list

\* Who is told has a role.
LEMMA FinalistsAreRoles ==
  ASSUME NEW from, NEW to
  PROVE  select_email_finalists(from, to) \subseteq Roles
BY DEF select_email_finalists, Roles

\* Whom the help page promises to tell of a change is among the finalists, but
\* for those omitted.
Kept(row) == row.tell \ Omitted(row) \subseteq select_email_finalists(row.from, row.to)

LEMMA PromisedAreFinalists == \A row \in HelpTable : Kept(row)
<1> USE DEF Kept, Row, Omitted, select_email_finalists, New, Open, Assigned, Fixed, InTest,
        Verified, RequestInfo, Declined, Withdrawn, Closed
<1>1. Kept(Row(New, Assigned, {"comp_mgr"}, {"assigned_to"}))
  OBVIOUS
<1>2. Kept(Row(New, Withdrawn, {"submitter"}, {"comp_mgr", "submitter", "qa_mgr"}))
  OBVIOUS
<1>3. Kept(Row(New, Open, {"comp_mgr"}, {}))
  OBVIOUS
<1>4. Kept(Row(New, RequestInfo, {"comp_mgr"}, {"submitter"}))
  OBVIOUS
<1>5. Kept(Row(New, Declined, {"comp_mgr"}, {"qa_mgr", "submitter"}))
  OBVIOUS
<1>6. Kept(Row(Withdrawn, Closed, {"submitter"}, {"qa_mgr"}))
  OBVIOUS
<1>7. Kept(Row(RequestInfo, Open, {"comp_mgr", "submitter"}, {"comp_mgr"}))
  OBVIOUS
<1>8. Kept(Row(Open, Assigned, {"comp_mgr"}, {"assigned_to"}))
  OBVIOUS
<1>9. Kept(Row(Open, Declined, {"comp_mgr"}, {"qa_mgr", "submitter"}))
  OBVIOUS
<1>10. Kept(Row(Open, RequestInfo, {"comp_mgr"}, {"submitter"}))
  OBVIOUS
<1>11. Kept(Row(Declined, Open, {"submitter"}, {"comp_mgr", "qa_mgr"}))
  OBVIOUS
<1>12. Kept(Row(Declined, Closed, {}, {"qa_mgr"}))
  OBVIOUS
<1>13. Kept(Row(Assigned, Open, {"comp_mgr"}, {"assigned_to"}))
  OBVIOUS
<1>14. Kept(Row(Assigned, Fixed, {"comp_mgr", "assigned_to"}, {"comp_mgr"}))
  OBVIOUS
<1>15. Kept(Row(Fixed, InTest, {}, {"comp_mgr", "qa_mgr", "verified_by"}))
  OBVIOUS
<1>16. Kept(Row(Fixed, Assigned, {"comp_mgr", "assigned_to"}, {"comp_mgr", "assigned_to", "qa_mgr"}))
  OBVIOUS
<1>17. Kept(Row(InTest, Assigned, {"verified_by"}, {"comp_mgr", "qa_mgr", "assigned_to"}))
  OBVIOUS
<1>18. Kept(Row(InTest, Verified, {"verified_by"}, {"comp_mgr", "assigned_to", "qa_mgr"}))
  OBVIOUS
<1>19. Kept(Row(Verified, InTest, {"verified_by"}, {"verified_by", "qa_mgr", "comp_mgr", "assigned_to"}))
  OBVIOUS
<1>20. Kept(Row(Verified, Closed, {}, {"qa_mgr", "comp_mgr"}))
  OBVIOUS
<1>21. QED
  BY <1>1, <1>2, <1>3, <1>4, <1>5, <1>6, <1>7, <1>8, <1>9, <1>10, <1>11, <1>12, <1>13, <1>14, <1>15, <1>16, <1>17, <1>18, <1>19, <1>20 DEF HelpTable

LEMMA HoldersAreUsers ==
  ASSUME NEW s \in System, NEW req \in Record, NEW m \in User
  PROVE  /\ \A role \in Roles : RoleHolders(s, req, m)[role] \in User
         /\ RoleHolders(s, req, m) \in People
BY DEF People, System, Record, RoleHolders, Roles

-----------------------------------------------------------------------------
(* Types.                                                                  *)

\* Where a handler is tells which of the two it is.
LEMMA JobKinds ==
  ASSUME NEW j \in {Idle} \cup ShowJob \cup MailJob
  PROVE  /\ j.pc = "system users" => j \in ShowJob
         /\ j.pc \in {"candidates", "finalists"} => j \in MailJob
<1>1. CASE j = Idle
  <2>1. j.pc = "idle"
    BY <1>1 DEF Idle
  <2>2. QED
    BY <2>1
<1>2. CASE j \in ShowJob
  <2>1. j.pc = "system users"
    BY <1>2 DEF ShowJob
  <2>2. QED
    BY <1>2, <2>1
<1>3. CASE j \in MailJob
  <2>1. j.pc \in {"candidates", "finalists"}
    BY <1>3 DEF MailJob
  <2>2. QED
    BY <1>3, <2>1
<1>4. QED
  BY <1>1, <1>2, <1>3

\* Saving disturbs the mails under way and changes nothing else of a handler.
LEMMA DisturbedJob ==
  ASSUME NEW j \in {Idle} \cup ShowJob \cup MailJob
  PROVE  /\ Disturbed(j) \in {Idle} \cup ShowJob \cup MailJob
         /\ Disturbed(j).pc = j.pc
         /\ j.pc = "finalists" => Disturbed(j).system = j.system
         /\ j.pc = "system users" => Disturbed(j) = j
         /\ j.pc \in {"candidates", "finalists"} => Disturbed(j).people = Unknown
<1>1. CASE j.pc \in {"candidates", "finalists"}
  <2>1. j \in MailJob
    BY <1>1, JobKinds
  <2>2. QED
    BY <1>1, <2>1 DEF Disturbed, MailJob
<1>2. CASE j.pc \notin {"candidates", "finalists"}
  BY <1>2 DEF Disturbed
<1>3. QED
  BY <1>1, <1>2

\* A handler of one window goes on.
LEMMA JobChange ==
  ASSUME LifecycleInv, NEW w \in Window, NEW j \in {Idle} \cup ShowJob \cup MailJob,
         j.pc = "finalists" => j.system \in System,
         job' = [job EXCEPT ![w] = j]
  PROVE  /\ job' \in [Window -> {Idle} \cup ShowJob \cup MailJob]
         /\ SystemFetched'
BY DEF LifecycleInv, TypeOK, SystemFetched, At

\* All mails under way are disturbed.
LEMMA AllDisturbed ==
  ASSUME LifecycleInv, job' = [w \in Window |-> Disturbed(job[w])]
  PROVE  /\ job' \in [Window -> {Idle} \cup ShowJob \cup MailJob]
         /\ SystemFetched'
BY DisturbedJob DEF LifecycleInv, TypeOK, SystemFetched, At

LEMMA ToShowJob ==
  ASSUME LifecycleInv, NEW w \in Window, NEW req, NEW s \in Status, ToShow(w, req, s)
  PROVE  /\ job' \in [Window -> {Idle} \cup ShowJob \cup MailJob]
         /\ SystemFetched'
<1> DEFINE j == [pc |-> "system users", starting_status |-> s,
                 ut |-> UserType(UserOf[w], PeopleOf(req)) \cap OwnRoles]
<1>1. j \in ShowJob
  BY DEF ShowJob, OwnRoles, Roles
<1>2. job' = [job EXCEPT ![w] = j]
  BY DEF ToShow
<1>3. QED
  BY <1>1, <1>2, JobChange

LEMMA IdleJob ==
  ASSUME LifecycleInv, NEW w \in Window, Finish(w)
  PROVE  /\ job' \in [Window -> {Idle} \cup ShowJob \cup MailJob]
         /\ SystemFetched'
BY JobChange DEF Finish, Idle

LEMMA ShowFormTypes ==
  ASSUME LifecycleInv, NEW w \in Window, ShowForm(w)
  PROVE  LifecycleInv'
<1> DEFINE s == job[w].starting_status
           ut == job[w].ut \cup {role \in DOMAIN system : system[role] = UserOf[w]}
           f == [kind |-> "form", starting_status |-> s, controls |-> create_controls(s, ut),
                 statuses |-> IF create_status(s, ut) THEN db_fetch_status_list(ut, s) ELSE {}]
<1>1. job[w] \in ShowJob
  BY JobKinds DEF LifecycleInv, TypeOK, ShowForm, At
<1>2. s \in Status
  BY <1>1 DEF ShowJob
<1>3. f \in Form
  BY <1>2, ListsAreStatuses DEF Form, create_controls
<1>4. page' = [page EXCEPT ![w] = f]
  BY DEF ShowForm
<1>5. page' \in [Window -> {NoForm} \cup Form]
  BY <1>3, <1>4 DEF LifecycleInv, TypeOK
<1>6. QED
  BY <1>5, IdleJob DEF LifecycleInv, TypeOK, ShowForm

LEMMA SaveRequestTypes ==
  ASSUME LifecycleInv, NEW w \in Window, SaveRequest(w)
  PROVE  LifecycleInv'
<1> USE DEF LifecycleInv, TypeOK
<1>1. PICK s \in Statuses(w), a \in User, v \in User, c \in Component :
        /\ record' = [record EXCEPT !.status = s, !.assigned_to = a,
                                    !.verified_by = v, !.component = c]
        /\ job' = [x \in Window |->
                     IF x # w THEN Disturbed(job[x])
                     ELSE IF s = page[w].starting_status THEN Idle
                     ELSE [pc |-> "candidates", from |-> page[w].starting_status, to |-> s,
                           people |-> PeopleOf(record'), system |-> Unknown]]
  BY DEF SaveRequest
<1>2. page[w] \in Form
  BY DEF SaveRequest, NoForm
<1>3. page[w].starting_status \in Status /\ s \in Status
  BY <1>1, <1>2 DEF Form, Statuses
<1>4. record' \in Record
  BY <1>1, <1>3 DEF Record
<1> DEFINE m == [pc |-> "candidates", from |-> page[w].starting_status, to |-> s,
                 people |-> PeopleOf(record'), system |-> Unknown]
<1>5. m \in MailJob
  <2>1. manager[record'.component] \in User
    BY <1>4 DEF Record
  <2>2. PeopleOf(record') \in People
    BY <1>4, <2>1, HoldersAreUsers DEF PeopleOf
  <2> HIDE DEF LifecycleInv, TypeOK
  <2>3. QED
    BY <1>3, <2>2 DEF MailJob
<1>6. \A x \in Window \ {w} : job'[x] = Disturbed(job[x])
  BY <1>1
<1>7. job'[w] \in {Idle, m}
  BY <1>1
<1>8. \A x \in Window : job'[x] \in {Idle} \cup ShowJob \cup MailJob
  BY <1>5, <1>6, <1>7, DisturbedJob
<1>9. job' \in [Window -> {Idle} \cup ShowJob \cup MailJob]
  BY <1>1, <1>8
<1>10. SystemFetched'
  <2>1. job'[w].pc # "finalists"
    BY <1>7 DEF Idle
  <2>2. ASSUME NEW x \in Window \ {w}, job'[x].pc = "finalists"
        PROVE  job'[x].system \in System
    <3>1. job[x] \in {Idle} \cup ShowJob \cup MailJob
      OBVIOUS
    <3>2. job[x].pc = "finalists" /\ job'[x].system = job[x].system
      BY <1>6, <2>2, <3>1, DisturbedJob
    <3>3. QED
      BY <3>2 DEF SystemFetched, At
  <2>3. QED
    BY <2>1, <2>2 DEF SystemFetched, At
<1>11. QED
  BY <1>4, <1>9, <1>10 DEF SaveRequest

LEMMA AnnounceTypes ==
  ASSUME LifecycleInv, NEW w \in Window, Announce(w)
  PROVE  LifecycleInv'
<1>1. job[w].system \in System /\ record \in Record /\ manager[record.component] \in User
  BY DEF LifecycleInv, TypeOK, SystemFetched, Announce, Record
<1>2. \A role \in Roles : HoldersAsFetched(w)[role] \in User
  BY <1>1, HoldersAreUsers DEF HoldersAsFetched
<1>3. told' \subseteq User
  BY <1>2, FinalistsAreRoles DEF Announce, db_fetch_email_finalists
<1>4. QED
  BY <1>3, IdleJob DEF LifecycleInv, TypeOK, Announce

LEMMA FetchSystemTypes ==
  ASSUME LifecycleInv, NEW w \in Window, FetchSystem(w)
  PROVE  LifecycleInv'
<1> DEFINE j == [job[w] EXCEPT !.pc = "finalists", !.system = system]
<1>1. job[w] \in MailJob
  BY JobKinds DEF LifecycleInv, TypeOK, FetchSystem, At
<1>2. system \in System
  BY DEF LifecycleInv, TypeOK
<1>3. j \in MailJob /\ j.system \in System
  BY <1>1, <1>2 DEF MailJob
<1>4. job' = [job EXCEPT ![w] = j]
  BY DEF FetchSystem, LifecycleInv, TypeOK
<1>5. QED
  BY <1>3, <1>4, JobChange DEF LifecycleInv, TypeOK, FetchSystem

LEMMA LifecycleInit == Init => LifecycleInv
<1> SUFFICES ASSUME Init PROVE LifecycleInv
  OBVIOUS
<1>1. record \in Record
  BY LifecycleAssumption, Numbers DEF Init, NewRequest, Record
<1>2. system \in System /\ system.qa_mgr \in User
  BY LifecycleAssumption DEF Init, System
<1>3. QED
  BY <1>1, <1>2 DEF Init, LifecycleInv, TypeOK, SystemFetched, At, Idle

LEMMA LifecycleNext == LifecycleInv /\ [Next]_vars => LifecycleInv'
<1> SUFFICES ASSUME LifecycleInv, [Next]_vars PROVE LifecycleInv'
  OBVIOUS
<1> USE DEF LifecycleInv, TypeOK
<1>1. ASSUME NEW w \in Window, OpenRequest(w)
      PROVE  LifecycleInv'
  <2>1. record.status \in Status
    BY DEF Record
  <2>2. QED
    BY <1>1, <2>1, ToShowJob DEF OpenRequest
<1>2. ASSUME NEW w \in Window, ReprocessRequest(w)
      PROVE  LifecycleInv'
  <2>1. page[w].starting_status \in Status
    BY <1>2 DEF ReprocessRequest, NoForm, Form
  <2>2. QED
    BY <1>2, <2>1, ToShowJob DEF ReprocessRequest
<1>3. ASSUME NEW w \in Window, SaveRequest(w)
      PROVE  LifecycleInv'
  BY <1>3, SaveRequestTypes
<1>4. ASSUME NEW w \in Window, ShowForm(w)
      PROVE  LifecycleInv'
  BY <1>4, ShowFormTypes
<1>5. ASSUME NEW w \in Window, FetchSystem(w)
      PROVE  LifecycleInv'
  BY <1>5, FetchSystemTypes
<1>6. ASSUME NEW w \in Window, Announce(w)
      PROVE  LifecycleInv'
  BY <1>6, AnnounceTypes
<1>7. ASSUME NEW w \in Window, HandlerDies(w)
      PROVE  LifecycleInv'
  BY <1>7, IdleJob DEF HandlerDies
<1>8. CASE SaveSystemUsers
  <2>1. system' \in System /\ system'.qa_mgr \in User
    BY <1>8, LifecycleAssumption DEF SaveSystemUsers, System
  <2>2. QED
    BY <1>8, <2>1, AllDisturbed DEF SaveSystemUsers
<1>9. CASE SaveComponent
  <2>1. manager' \in [Component -> User]
    BY <1>9 DEF SaveComponent
  <2>2. QED
    BY <1>9, <2>1, AllDisturbed DEF SaveComponent
<1>10. CASE UNCHANGED vars
  BY <1>10 DEF vars, SystemFetched, At
<1>11. QED
  BY <1>1, <1>2, <1>3, <1>4, <1>5, <1>6, <1>7, <1>8, <1>9, <1>10 DEF Next, Step

\* The row of the request, forms and handlers are what the code knows,
\* through every save and reprocessing, and who is told is a user.
THEOREM Typing == Spec => []TypeOK
<1>1. Init => LifecycleInv
  BY LifecycleInit
<1>2. LifecycleInv /\ [Next]_vars => LifecycleInv'
  BY LifecycleNext
<1>3. LifecycleInv => TypeOK
  BY DEF LifecycleInv
<1>4. QED
  BY <1>1, <1>2, <1>3, PTL DEF Spec
-----------------------------------------------------------------------------
(* Who changes the request.                                                *)

\* A form has its controls for the QA manager only, since what its handler
\* knew of the user before the system users were fetched is no system role.
LEMMA ShowFormControlled ==
  ASSUME LifecycleInv, Controlled, NEW w \in Window, ShowForm(w)
  PROVE  Controlled'
<1> DEFINE s == job[w].starting_status
           ut == job[w].ut \cup {role \in DOMAIN system : system[role] = UserOf[w]}
<1>1. system' = system /\ managed' = managed
  BY DEF ShowForm
<1>2. job[w].ut \subseteq OwnRoles
  BY DEF Controlled, ShowForm
<1>3. create_controls(s, ut) => UserOf[w] \in managed
  <2>1. "qa_mgr" \notin OwnRoles
    BY DEF OwnRoles
  <2>2. create_controls(s, ut) => "qa_mgr" \in ut
    BY DEF create_controls
  <2>3. QED
    BY <1>2, <2>1, <2>2 DEF Controlled
<1>4. ASSUME NEW x \in Window, page'[x].kind = "form" /\ page'[x].controls
      PROVE  UserOf[x] \in managed
  <2>1. CASE x = w
    <3>1. page'[w].controls = create_controls(s, ut)
      BY DEF ShowForm, LifecycleInv, TypeOK
    <3>2. QED
      BY <1>3, <1>4, <2>1, <3>1
  <2>2. CASE x # w
    BY <1>4, <2>2 DEF ShowForm, LifecycleInv, TypeOK, Controlled
  <2>3. QED
    BY <2>1, <2>2
<1>5. ASSUME NEW x \in Window, At(x, "system users")'
      PROVE  job'[x].ut \subseteq OwnRoles
  BY <1>5 DEF ShowForm, Finish, At, Idle, LifecycleInv, TypeOK, Controlled
<1>6. QED
  BY <1>1, <1>4, <1>5 DEF Controlled

\* Everything else leaves the forms and who has managed alone, or adds to it.
LEMMA StillControlled ==
  ASSUME Controlled, page' = page, managed \subseteq managed', system'.qa_mgr \in managed',
         \A w \in Window : At(w, "system users")' => job'[w].ut \subseteq OwnRoles
  PROVE  Controlled'
BY DEF Controlled

\* Handlers that get no further than another statement.
LEMMA JobControlled ==
  ASSUME LifecycleInv, Controlled, NEW w \in Window, NEW j,
         j.pc = "system users" => j.ut \subseteq OwnRoles,
         job' = [job EXCEPT ![w] = j]
  PROVE  \A x \in Window : At(x, "system users")' => job'[x].ut \subseteq OwnRoles
BY DEF LifecycleInv, TypeOK, Controlled, At

LEMMA DisturbedControlled ==
  ASSUME LifecycleInv, Controlled, NEW x \in Window, job'[x] = Disturbed(job[x]),
         At(x, "system users")'
  PROVE  job'[x].ut \subseteq OwnRoles
<1>1. job[x] \in {Idle} \cup ShowJob \cup MailJob
  BY DEF LifecycleInv, TypeOK
<1>2. job'[x].pc = job[x].pc
  BY <1>1, DisturbedJob
<1>3. job[x].pc = "system users"
  BY <1>2 DEF At
<1>4. job'[x] = job[x]
  BY <1>1, <1>3, DisturbedJob
<1>5. QED
  BY <1>3, <1>4 DEF Controlled, At

LEMMA ControlledInit == Init => Controlled
<1> SUFFICES ASSUME Init PROVE Controlled
  OBVIOUS
<1>1. system.qa_mgr \in managed
  BY DEF Init
<1>2. \A w \in Window : page[w].kind # "form"
  BY DEF Init, NoForm
<1>3. \A w \in Window : job[w].pc # "system users"
  BY DEF Init, Idle
<1>4. QED
  BY <1>1, <1>2, <1>3 DEF Controlled, At

LEMMA ControlledNext == LifecycleInv /\ Controlled /\ [Next]_vars => Controlled'
<1> SUFFICES ASSUME LifecycleInv, Controlled, [Next]_vars PROVE Controlled'
  OBVIOUS
<1>0. system.qa_mgr \in managed
  BY DEF Controlled
<1>1. ASSUME NEW w \in Window, OpenRequest(w) \/ ReprocessRequest(w)
      PROVE  Controlled'
  <2>1. PICK req, s : ToShow(w, req, s)
    BY <1>1 DEF OpenRequest, ReprocessRequest
  <2>2. UserType(UserOf[w], PeopleOf(req)) \cap OwnRoles \subseteq OwnRoles
    OBVIOUS
  <2>3. \A x \in Window : At(x, "system users")' => job'[x].ut \subseteq OwnRoles
    BY <2>1, <2>2, JobControlled DEF ToShow
  <2>4. page' = page /\ managed' = managed /\ system' = system
    BY <1>1 DEF OpenRequest, ReprocessRequest
  <2>5. QED
    BY <1>0, <2>3, <2>4, StillControlled
<1>2. ASSUME NEW w \in Window, SaveRequest(w)
      PROVE  Controlled'
  <2>1. page' = page /\ managed' = managed /\ system' = system
    BY <1>2 DEF SaveRequest
  <2>2. job'[w].pc # "system users"
    BY <1>2 DEF SaveRequest, Idle
  <2>3. \A x \in Window \ {w} : job'[x] = Disturbed(job[x])
    BY <1>2 DEF SaveRequest
  <2>4. \A x \in Window : At(x, "system users")' => job'[x].ut \subseteq OwnRoles
    BY <2>2, <2>3, DisturbedControlled DEF At
  <2>5. QED
    BY <1>0, <2>1, <2>4, StillControlled
<1>3. ASSUME NEW w \in Window, ShowForm(w)
      PROVE  Controlled'
  BY <1>3, ShowFormControlled
<1>4. ASSUME NEW w \in Window, FetchSystem(w)
      PROVE  Controlled'
  <2> DEFINE j == [job[w] EXCEPT !.pc = "finalists", !.system = system]
  <2>1. job[w] \in MailJob
    BY <1>4, JobKinds DEF LifecycleInv, TypeOK, FetchSystem, At
  <2>2. j.pc # "system users"
    BY <2>1 DEF MailJob
  <2>3. job' = [job EXCEPT ![w] = j]
    BY <1>4 DEF FetchSystem, LifecycleInv, TypeOK
  <2>4. page' = page /\ managed' = managed /\ system' = system
    BY <1>4 DEF FetchSystem
  <2>5. QED
    BY <1>0, <2>2, <2>3, <2>4, JobControlled, StillControlled
<1>5. ASSUME NEW w \in Window, Announce(w) \/ HandlerDies(w)
      PROVE  Controlled'
  <2>1. Finish(w) /\ page' = page /\ managed' = managed /\ system' = system
    BY <1>5 DEF Announce, HandlerDies
  <2>2. QED
    BY <1>0, <2>1, JobControlled, StillControlled DEF Finish, Idle
<1>6. CASE SaveSystemUsers \/ SaveComponent
  <2>1. page' = page /\ managed \subseteq managed' /\ system'.qa_mgr \in managed'
    BY <1>0, <1>6 DEF SaveSystemUsers, SaveComponent
  <2>2. \A x \in Window : job'[x] = Disturbed(job[x])
    BY <1>6 DEF SaveSystemUsers, SaveComponent
  <2>3. QED
    BY <2>1, <2>2, DisturbedControlled, StillControlled
<1>7. CASE UNCHANGED vars
  BY <1>7 DEF vars, Controlled, At
<1>8. QED
  BY <1>1, <1>2, <1>3, <1>4, <1>5, <1>6, <1>7 DEF Next, Step

\* Whatever becomes of the parts while forms are open, the status is changed
\* only from the form of one who has been the QA manager, whom the help page
\* authorizes to make any change.
THEOREM OnlyAuthorizedChange == Spec => ChangesAuthorized
<1> DEFINE Authorized(w) ==
      \/ UserOf[w] \in managed
      \/ \E row \in HelpTable :
           /\ row.from = record.status /\ row.to = record'.status
           /\ UserType(UserOf[w], PeopleOf(record)) \cap row.by # {}
<1>1. Init => LifecycleInv /\ Controlled
  BY LifecycleInit, ControlledInit
<1>2. LifecycleInv /\ Controlled /\ [Next]_vars => (LifecycleInv /\ Controlled)'
  BY LifecycleNext, ControlledNext
<1>3. LifecycleInv /\ Controlled /\ [Next]_vars
        => [record'.status # record.status
              => \E w \in Window : SaveRequest(w) /\ Authorized(w)]_vars
  <2> SUFFICES ASSUME Controlled, [Next]_vars, record'.status # record.status
               PROVE  \E w \in Window : SaveRequest(w) /\ Authorized(w)
    OBVIOUS
  <2>1. PICK w \in Window : SaveRequest(w)
    BY DEF Next, Step, OpenRequest, ReprocessRequest, ShowForm, FetchSystem, Announce,
           HandlerDies, SaveSystemUsers, SaveComponent, vars
  <2>2. UserOf[w] \in managed
    BY <2>1 DEF SaveRequest, Controlled
  <2>3. QED
    BY <2>1, <2>2
<1>4. QED
  BY <1>1, <1>2, <1>3, PTL DEF Spec, ChangesAuthorized

-----------------------------------------------------------------------------
(* Who is told.                                                            *)

\* Handlers that announce nothing are none of those it concerns.
LEMMA JobUndisturbed ==
  ASSUME LifecycleInv, Undisturbed, UNCHANGED <<record, system, manager>>,
         NEW w \in Window, NEW j, j.pc \notin {"candidates", "finalists"},
         job' = [job EXCEPT ![w] = j]
  PROVE  Undisturbed'
BY DEF LifecycleInv, TypeOK, Undisturbed, PeopleOf, At

\* Of a mail that somebody's save overtakes it is not known whom it concerns.
LEMMA OvertakenIsUnknown ==
  ASSUME LifecycleInv, NEW x \in Window, job'[x] = Disturbed(job[x])
  PROVE  ~ (job'[x].pc \in {"candidates", "finalists"} /\ job'[x].people # Unknown)
<1>1. job[x] \in {Idle} \cup ShowJob \cup MailJob
  BY DEF LifecycleInv, TypeOK
<1>2. job'[x].pc = job[x].pc
  BY <1>1, DisturbedJob
<1>3. job[x].pc \in {"candidates", "finalists"} => job'[x].people = Unknown
  BY <1>1, DisturbedJob
<1>4. QED
  BY <1>2, <1>3

LEMMA UndisturbedInit == Init => Undisturbed
BY DEF Init, Undisturbed, Idle

LEMMA UndisturbedNext == LifecycleInv /\ Undisturbed /\ [Next]_vars => Undisturbed'
<1> SUFFICES ASSUME LifecycleInv, Undisturbed, [Next]_vars PROVE Undisturbed'
  OBVIOUS
<1>1. ASSUME NEW w \in Window, OpenRequest(w) \/ ReprocessRequest(w)
      PROVE  Undisturbed'
  <2>1. PICK req, s : ToShow(w, req, s)
    BY <1>1 DEF OpenRequest, ReprocessRequest
  <2>2. UNCHANGED <<record, system, manager>>
    BY <1>1 DEF OpenRequest, ReprocessRequest
  <2>3. QED
    BY <2>1, <2>2, JobUndisturbed DEF ToShow
<1>2. ASSUME NEW w \in Window, SaveRequest(w)
      PROVE  Undisturbed'
  <2>1. PICK s \in Statuses(w) :
          job' = [x \in Window |->
                    IF x # w THEN Disturbed(job[x])
                    ELSE IF s = page[w].starting_status THEN Idle
                    ELSE [pc |-> "candidates", from |-> page[w].starting_status, to |-> s,
                          people |-> PeopleOf(record'), system |-> Unknown]]
    BY <1>2 DEF SaveRequest
  <2>2. system' = system /\ manager' = manager
    BY <1>2 DEF SaveRequest
  <2>3. \/ job'[w].pc = "idle"
        \/ job'[w].pc = "candidates" /\ job'[w].people = PeopleOf(record')
    BY <2>1 DEF Idle
  <2>4. \A x \in Window \ {w} : job'[x] = Disturbed(job[x])
    BY <2>1
  <2>5. QED
    BY <2>2, <2>3, <2>4, OvertakenIsUnknown DEF Undisturbed, PeopleOf, At
<1>3. ASSUME NEW w \in Window, ShowForm(w) \/ Announce(w) \/ HandlerDies(w)
      PROVE  Undisturbed'
  BY <1>3, JobUndisturbed DEF ShowForm, Announce, HandlerDies, Finish, Idle
<1>4. ASSUME NEW w \in Window, FetchSystem(w)
      PROVE  Undisturbed'
  <2>1. job[w] \in MailJob
    BY <1>4, JobKinds DEF LifecycleInv, TypeOK, FetchSystem, At
  <2>2. job'[w] = [job[w] EXCEPT !.pc = "finalists", !.system = system]
    BY <1>4 DEF FetchSystem, LifecycleInv, TypeOK
  <2>3. job[w].pc = "candidates"
    BY <1>4 DEF FetchSystem, At
  <2>4. job'[w].people = job[w].people /\ job'[w].system = system
    BY <2>1, <2>2 DEF MailJob
  <2>5. \A x \in Window \ {w} : job'[x] = job[x]
    BY <1>4 DEF FetchSystem, LifecycleInv, TypeOK
  <2>6. UNCHANGED <<record, system, manager>>
    BY <1>4 DEF FetchSystem
  <2>7. QED
    BY <2>3, <2>4, <2>5, <2>6 DEF Undisturbed, PeopleOf, At
<1>5. CASE SaveSystemUsers \/ SaveComponent
  <2>1. \A x \in Window : job'[x] = Disturbed(job[x])
    BY <1>5 DEF SaveSystemUsers, SaveComponent
  <2>2. QED
    BY <2>1, OvertakenIsUnknown DEF Undisturbed
<1>6. CASE UNCHANGED vars
  BY <1>6 DEF vars, Undisturbed, PeopleOf, At
<1>7. QED
  BY <1>1, <1>2, <1>3, <1>4, <1>5, <1>6 DEF Next, Step

\* The holders a mail finds are the people of its save.
LEMMA TellsItsPeople ==
  ASSUME Undisturbed, NEW w \in Window, Announce(w), job[w].people # Unknown,
         NEW roles, roles \subseteq select_email_finalists(job[w].from, job[w].to)
  PROVE  Told(w, roles)
<1>1. job[w].people = PeopleOf(record) /\ job[w].system = system
  BY DEF Undisturbed, Announce, At
<1>2. HoldersAsFetched(w) = job[w].people
  BY <1>1 DEF HoldersAsFetched, PeopleOf
<1>3. QED
  BY <1>2 DEF Announce, Told, db_fetch_email_finalists

\* For every row of the help page's table: whom it promises to tell and the
\* code does not omit is told, though the people are fetched after the check-in
\* by two statements, whoever they are and in any number of windows.
THEOREM PromisedAreAlwaysTold == Spec => PromisedAreTold
<1>1. Init => LifecycleInv /\ Undisturbed
  BY LifecycleInit, UndisturbedInit
<1>2. LifecycleInv /\ Undisturbed /\ [Next]_vars => (LifecycleInv /\ Undisturbed)'
  BY LifecycleNext, UndisturbedNext
<1>3. LifecycleInv /\ Undisturbed
        => \A w \in Window : Announce(w) =>
             \A row \in RowsToTell(w) : Told(w, row.tell \ Omitted(row))
  <2> SUFFICES ASSUME Undisturbed, NEW w \in Window, Announce(w), NEW row \in RowsToTell(w)
               PROVE  Told(w, row.tell \ Omitted(row))
    OBVIOUS
  <2>1. job[w].people # Unknown /\ row \in HelpTable
        /\ row.from = job[w].from /\ row.to = job[w].to
    BY DEF RowsToTell
  <2>2. row.tell \ Omitted(row) \subseteq select_email_finalists(job[w].from, job[w].to)
    BY <2>1, PromisedAreFinalists DEF Kept
  <2>3. QED
    BY <2>1, <2>2, TellsItsPeople
<1>4. QED
  BY <1>1, <1>2, <1>3, PTL DEF Spec, PromisedAreTold
=============================================================================
