----------------------------- MODULE StatusRules -----------------------------
(***************************************************************************)
(* The rules about the status of a request: which statuses a form offers   *)
(* (db_shrs.c), which controls it shows (form_request.c) and which people  *)
(* a change of status is announced to.  Everything here is a constant      *)
(* operator; Checkout and Lifecycle are built on it.                       *)
(*                                                                         *)
(* A status is its number, as in the enum STATUS.  A user_type, seven int  *)
(* flags in C, is the set of the flags that are 1.  A list box is the set  *)
(* of the numbers it offers; its order and its captions are left out.      *)
(***************************************************************************)
EXTENDS Integers

New         == 1
Open        == 2
Assigned    == 3
Fixed       == 4
InTest      == 5
Verified    == 6
RequestInfo == 7
Declined    == 8
Withdrawn   == 9
Closed      == 10

Status == New .. Closed

\* The flags of user_type: what the session's user is to a request.
Roles == {"qa_mgr", "comp_super", "comp_mgr", "market_mgr",
          "submitter", "assigned_to", "verified_by"}

(***************************************************************************)
(* The person behind each role: three come from the table system, three    *)
(* from the request, and the component manager from its component.         *)
(***************************************************************************)
RoleHoldersInOtherOrder(system, request, manager) ==
  [qa_mgr |-> system.qa_mgr, comp_super |-> system.comp_super,
   market_mgr |-> system.market_mgr, submitter |-> request.submitter,
   assigned_to |-> request.verified_by, verified_by |-> request.assigned_to,
   comp_mgr |-> manager]

RoleHolders(system, request, manager) ==
  [qa_mgr |-> system.qa_mgr, comp_super |-> system.comp_super,
   market_mgr |-> system.market_mgr, submitter |-> request.submitter,
   assigned_to |-> request.assigned_to, verified_by |-> request.verified_by,
   comp_mgr |-> manager]

UserType(user, holders) == {role \in Roles : holders[role] = user}

-----------------------------------------------------------------------------
(* The list of statuses a form offers, by the status the record had when   *)
(* the form was opened.                                                    *)

status_all == Status

\* The shape all lists but one share: everything for the QA manager, more
\* than the status itself for some roles, the status alone for the others.
Offer(ut, status, roles, more) ==
  IF "qa_mgr" \in ut THEN status_all
  ELSE {status} \cup (IF ut \cap roles # {} THEN more ELSE {})

status_new(ut) ==
  IF "comp_mgr" \in ut
  THEN Offer(ut, New, {"comp_mgr"}, {Open, Assigned, RequestInfo, Declined})
  ELSE Offer(ut, New, {"submitter"}, {Withdrawn})

status_open(ut) ==
  Offer(ut, Open, {"comp_mgr"}, {Assigned, RequestInfo, Declined})

status_assigned(ut) ==
  Offer(ut, Assigned, {"comp_mgr", "assigned_to"}, {Open, Fixed})

status_fixed(ut) == Offer(ut, Fixed, {"comp_mgr"}, {InTest})

status_in_test(ut) ==
  Offer(ut, InTest, {"verified_by"}, {Assigned, Verified})

status_verified(ut) == Offer(ut, Verified, {"verified_by"}, {InTest})

status_request_info(ut) ==
  Offer(ut, RequestInfo, {"submitter", "comp_mgr"}, {Open})

status_declined(ut) == Offer(ut, Declined, {"submitter"}, {Open})

status_withdrawn(ut) == Offer(ut, Withdrawn, {"submitter"}, {Closed})

\* status_closed alone does not look at the flags.
status_closed(ut) == {Closed}

db_fetch_status_list(ut, status) ==
  CASE status = New         -> status_new(ut)
    [] status = Open        -> status_open(ut)
    [] status = Assigned    -> status_assigned(ut)
    [] status = Fixed       -> status_fixed(ut)
    [] status = InTest      -> status_in_test(ut)
    [] status = Verified    -> status_verified(ut)
    [] status = RequestInfo -> status_request_info(ut)
    [] status = Declined    -> status_declined(ut)
    [] status = Withdrawn   -> status_withdrawn(ut)
    [] status = Closed      -> status_closed(ut)

-----------------------------------------------------------------------------
(* The controls of the form.  create_status makes the status list box; the *)
(* other twenty-five create_ functions are one rule, create_controls: list *)
(* boxes, level of effort, release date and the three descriptions.        *)

create_status(status, ut) == "qa_mgr" \in ut

create_controls_even_closed(status, ut) == "qa_mgr" \in ut

create_controls_for_all(status, ut) == status # Closed

create_controls(status, ut) == status # Closed /\ "qa_mgr" \in ut

-----------------------------------------------------------------------------
(* Who is told of a change of status.                                      *)

\* The candidates select_email_finalists keeps, as roles.
select_email_finalists(from, to) ==
  CASE from = New /\ to = Assigned    -> {"assigned_to"}
    [] from = New /\ to = Withdrawn   -> {"qa_mgr", "comp_super", "comp_mgr", "submitter"}
    [] from = New /\ to = RequestInfo -> {"submitter"}
    [] from = New /\ to = Declined    -> {"qa_mgr", "submitter"}
    [] from = Open /\ to = Declined    -> {"qa_mgr", "submitter"}
    [] from = Open /\ to = Assigned    -> {"assigned_to"}
    [] from = Open /\ to = RequestInfo -> {"submitter"}
    [] from = Assigned /\ to = Open  -> {"comp_super", "comp_mgr", "assigned_to"}
    [] from = Assigned /\ to = Fixed -> {"comp_super", "comp_mgr"}
    [] from = Fixed /\ to = InTest   -> {"qa_mgr", "verified_by"}
    [] from = Fixed /\ to = Assigned -> {"qa_mgr", "comp_super", "comp_mgr", "assigned_to"}
    [] from = InTest /\ to = Assigned -> {"qa_mgr", "comp_super", "comp_mgr"}
    [] from = InTest /\ to = Verified -> {"qa_mgr"}
    [] from = Verified /\ to = InTest ->
         {"qa_mgr", "comp_super", "comp_mgr", "assigned_to", "verified_by"}
    [] from = RequestInfo /\ to = Open -> {"comp_super", "comp_mgr"}
    [] from = Declined /\ to = Open    -> {"qa_mgr", "comp_super", "comp_mgr"}
    [] OTHER -> {}

\* The addresses fetched: the session's user is left out, and with no role
\* kept the statement is cut in the wrong place, fails and yields nobody.
db_fetch_email_finalists(roles, holders, session_user) ==
  {holders[role] : role \in roles} \ {session_user}
=============================================================================
