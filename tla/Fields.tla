------------------------------- MODULE Fields -------------------------------
(***************************************************************************)
(* The controls of the forms and the columns they are of.                  *)
(*                                                                         *)
(* A form knows a control by its name, and so does the handler the form is *)
(* sent to: a value arrives when the two agree about the name.  They are   *)
(* written down apart from each other, in the code as in this module.      *)
(*                                                                         *)
(* Left out: lengths, blanks that trim removes, and the hidden fields,     *)
(* which module Pages has.                                                 *)
(***************************************************************************)
EXTENDS Integers, Sequences

CONSTANTS
  Items,   \* the entries of a list; the first is selected when nothing else is
  Words    \* the texts without a single quote in them

\* What the browser does not send, and a column no row has yet.
NoValue == "no_value"

Empty == "empty"   \* the text of no characters

\* "quote" stands for the texts with a single quote in them.
Texts == {Empty, "quote"} \cup Words

\* An entry is a number: neither it nor a word is what stands for something else.
ASSUME FieldsAssumption ==
  /\ "Unspecified" \in Items
  /\ (Items \cup Words) \cap {"quote", "on", "off", NoValue, "Untouched"} = {}

TextNames ==
  {"title", "name", "value", "account", "first_name", "last_name", "initials", "email",
   "password", "level_of_effort", "release_date"}
AreaNames == {"request", "resolution", "verification", "comment"}

Choices(name) ==
  CASE name = "is_active"                -> {"on", "off"}
    [] name \in TextNames \cup AreaNames -> Texts
    [] OTHER                             -> Items

\* A text with a quote in it is cut there when it is shown, and sh_password
\* shows the null pointer of an empty box.
Value == Items \cup Texts \cup {"on", "off", "cut", "(null)", NoValue}

-----------------------------------------------------------------------------
(* The forms: the names of their controls.                                 *)

\* List boxes of h_sh_request that are fetched whole.
RequestLists ==
  {"status_oid", "feature_oid", "component_oid", "product_oid", "assigned_to_oid",
   "verified_by_oid", "platform_oid", "originator_oid", "resolution_oid", "request_type_oid",
   "priority_oid", "severity_oid", "reproducibility_oid", "finding_mode_oid",
   "affects_doc_oid", "finding_act_oid"}

\* Those that show what belongs to the product or the component of the form.
DependentLists == {"marketing_oid", "pam_release_oid", "fixed_in_comp_rev_oid", "comp_rev_oid"}

RequestTexts ==
  {"level_of_effort", "release_date", "request", "resolution", "verification", "comment"}

RequestControls == RequestLists \cup DependentLists \cup RequestTexts

FirstPageControls == {"component_oid", "product_oid"}
SecondPageControls == {"comp_rev_oid", "pam_release_oid"}
ThirdPageControls ==
  {"feature_oid", "finding_act_oid", "platform_oid", "originator_oid", "request_type_oid",
   "severity_oid", "reproducibility_oid", "finding_mode_oid", "affects_doc_oid",
   "market_rev_oid", "title", "request"}

NewRequestControls == FirstPageControls \cup SecondPageControls \cup ThirdPageControls

UserControls == {"account", "first_name", "last_name", "initials", "email", "is_active"}
ComponentControls == {"name", "comp_type_oid", "comp_mgr_oid"}
ProductControls == {"value"}
SystemControls == {"qa_mgr_oid", "comp_super_oid", "market_mgr_oid"}
LookupControls == {"value"}

-----------------------------------------------------------------------------
(* The handlers: the names they look for.                                  *)

ReprocessReads ==
  {"status_oid", "feature_oid", "assigned_to_oid", "verified_by_oid", "finding_activity_oid",
   "platform_oid", "originator_oid", "resolution_oid", "request_type_oid", "priority_oid",
   "severity_oid", "reproducibility_oid", "finding_mode_oid", "affects_doc_oid",
   "marketing_rev_oid", "product_oid", "pam_release_oid", "component_oid", "comp_rev_oid",
   "fixed_in_comp_rev_oid", "level_of_effort", "release_date", "desc_request",
   "desc_resolution", "desc_verification"}

SaveReads ==
  {"feature_oid", "request_type_oid", "assigned_to_oid", "verified_by_oid", "status_oid",
   "severity_oid", "priority_oid", "reproducibility_oid", "platform_oid", "product_oid",
   "originator_oid", "component_oid", "comp_rev_oid", "fixed_in_comp_rev_oid",
   "finding_activity_oid", "finding_mode_oid", "marketing_rev_oid", "level_of_effort",
   "pam_release_oid", "affects_doc_oid", "resolution_oid", "desc_resolution",
   "release_date", "desc_request", "desc_verification", "comment"}

\* The release date is read and left out of the statement.
Updated == SaveReads \ {"release_date"}

Inserted ==
  {"title", "request", "feature_oid", "request_type_oid", "severity_oid",
   "reproducibility_oid", "platform_oid", "product_oid", "originator_oid", "component_oid",
   "comp_rev_oid", "finding_act_oid", "finding_mode_oid", "affects_doc_oid"}

UserReads ==
  {"account", "password", "last_name", "first_name", "initials", "email", "is_active"}

SystemReads == {"qa_mgr_oid", "comp_super_oid", "market_mgr_oid"}
ComponentReads == {"name", "comp_type_oid", "comp_mgr_oid"}

\* The names of a form whose values reach the statement its handler makes.
Saves ==
  [request |-> Updated, new_request |-> Inserted, user |-> UserReads, system |-> SystemReads,
   component |-> ComponentReads, product |-> {"value"}, lookup |-> {"value"}]

-----------------------------------------------------------------------------
(* The queries: a row is read by position, far from the query.             *)

RequestQuery ==
  <<"request_oid", "date_submitted", "last_modified", "release_date", "title",
    "feature_oid", "submitter_oid", "assigned_to_oid", "verified_by_oid",
    "platform_oid", "platform", "originator_oid", "originator",
    "resolution_oid", "resolution_name", "request_type_oid", "request_type",
    "finding_act_oid", "finding_activity", "product_oid", "product",
    "pam_release_oid", "pam_release", "marketing_oid", "marketing_rev",
    "component_oid", "component", "comp_type", "comp_mgr_oid",
    "comp_rev_oid", "comp_rev", "fixed_in_comp_rev_oid", "fixedin",
    "status_oid", "priority_oid", "severity_oid", "reproducibility_oid",
    "finding_mode_oid", "affects_doc_oid", "level_of_effort",
    "request", "resolution", "verification">>

SummaryQuery ==
  <<"request_oid", "status_oid", "severity_oid", "priority_oid", "assigned_to_oid",
    "component", "comp_rev", "title", "request">>

UserQuery == <<"account", "first_name", "last_name", "initials", "email", "is_active">>
ComponentQuery == <<"name", "comp_type_oid", "comp_mgr_oid">>
SystemQuery == <<"comp_super_oid", "qa_mgr_oid", "market_mgr_oid">>
EntryQuery == <<"value">>

\* The column with the name of what a number stands for.  Users, statuses and
\* the lists that are in the program are looked up by the number itself.
NameColumn ==
  [platform_oid |-> "platform", originator_oid |-> "originator",
   resolution_oid |-> "resolution_name", request_type_oid |-> "request_type",
   finding_act_oid |-> "finding_activity", product_oid |-> "product",
   pam_release_oid |-> "pam_release", marketing_oid |-> "marketing_rev",
   component_oid |-> "component", comp_rev_oid |-> "comp_rev",
   fixed_in_comp_rev_oid |-> "fixedin"]
TextColumn(name) == IF name \in DOMAIN NameColumn THEN NameColumn[name] ELSE name

\* Where each field is read from, counted from 0 as td_get_val does.
RequestAt ==
  [release_date |-> 3, feature_oid |-> 5, assigned_to_oid |-> 7, verified_by_oid |-> 8,
   platform_oid |-> 9, platform |-> 10, originator_oid |-> 11, originator |-> 12,
   resolution_oid |-> 13, request_type_oid |-> 15, request_type |-> 16,
   finding_act_oid |-> 17, finding_activity |-> 18, product_oid |-> 19, product |-> 20,
   pam_release_oid |-> 21, pam_release |-> 22, marketing_oid |-> 23, marketing_rev |-> 24,
   component_oid |-> 25, component |-> 26, comp_rev_oid |-> 29, comp_rev |-> 30,
   fixed_in_comp_rev_oid |-> 31, fixedin |-> 32, status_oid |-> 33, priority_oid |-> 34,
   severity_oid |-> 35, reproducibility_oid |-> 36, finding_mode_oid |-> 37,
   affects_doc_oid |-> 38, level_of_effort |-> 39, request |-> 40, resolution |-> 41,
   verification |-> 42, title |-> 4, resolution_name |-> 14]

SummaryAt ==
  [status_oid |-> 1, severity_oid |-> 2, priority_oid |-> 3, assigned_to_oid |-> 4,
   component |-> 5, comp_rev |-> 6, title |-> 7, request |-> 8]

UserAt == [account |-> 0, first_name |-> 1, last_name |-> 2, initials |-> 3, email |-> 4,
           is_active |-> 5]
ComponentAt == [name |-> 0, comp_type_oid |-> 1, comp_mgr_oid |-> 2]
SystemAt == [comp_super_oid |-> 0, qa_mgr_oid |-> 1, market_mgr_oid |-> 2]

Query == [request |-> RequestQuery, summary |-> SummaryQuery, user |-> UserQuery,
          component |-> ComponentQuery, system |-> SystemQuery, product |-> EntryQuery]
ReadAt == [request |-> RequestAt, summary |-> SummaryAt, user |-> UserAt,
           component |-> ComponentAt, system |-> SystemAt, product |-> [value |-> 0]]

\* No statement writes these columns of a request.
NeverWritten == {"marketing_oid", "resolution", "verification", "release_date"}

\* What the column of a row may be.
InRow(name) ==
  IF name \in NeverWritten
    THEN {IF name = "marketing_oid" THEN "Unspecified" ELSE Empty}
    ELSE Choices(name) \ {"quote"}

\* format_date skips five characters of a date that is empty, and copies what
\* happens to be there.
format_date(stored) == IF stored = Empty THEN Words \cup {"cut"} ELSE {stored}

\* How many columns recordset is told that a query has.
Declared == [request |-> 42, summary |-> 9, user |-> 6, component |-> 3, system |-> 3,
             product |-> 1]

WidthAsDeclared(query) == Declared[query]

\* It makes room for those there are, if they are more.
Width(query) ==
  IF Declared[query] < Len(Query[query]) THEN Len(Query[query]) ELSE Declared[query]

\* What is read for a column: its value, that of another, or a null pointer.
Read(query, column, name, stored) ==
  LET at == ReadAt[query][column] IN
  IF at >= Width(query) THEN {NoValue}
  ELSE IF Query[query][at + 1] # column THEN Choices(name) \ {"quote"}
  ELSE IF column = "release_date" THEN format_date(stored)
  ELSE {stored}

-----------------------------------------------------------------------------
(* From a column to its control, or to a text on a page.                   *)

\* What a form for a new row shows.
Blank(name) ==
  CASE name = "is_active" -> "on"
    [] name = "password"  -> "(null)"
    [] name \in (TextNames \cup AreaNames) \ {"password"} -> Empty
    [] OTHER -> "Unspecified"

SelectedFirst(form, name, stored) == {Blank(name)}

\* The list boxes of the system users are shown without a look at whether
\* they could be fetched.  A list of what belongs to a product or a component
\* need not have the entry stored, and the browser then shows another.
SelectedOf(form, name, stored) ==
  CASE name \in DependentLists -> Items
    [] form = "system"         -> Read(form, name, name, stored) \cup {NoValue}
    [] OTHER                   -> Read(form, name, name, stored)

\* A checkbox is made checked, and nothing unchecks it; the box for the new
\* value of a lookup entry is made empty.
Shown(form, name, stored) ==
  IF stored = NoValue \/ name = "is_active" \/ form = "lookup"
    THEN {Blank(name)}
    ELSE SelectedOf(form, name, stored)

ShownAgainAsStored(name, stored, sent) == Shown("request", name, stored)

\* A reprocessed form: what was sent is laid over the record.
ShownAgain(name, stored, sent) ==
  CASE name \notin ReprocessReads -> Shown("request", name, stored)
    [] name \in ReprocessReads \cap DependentLists -> Items
    [] name \in ReprocessReads \ DependentLists -> {IF sent = "quote" THEN "cut" ELSE sent}

\* The two revisions a request names.
RevisionNames == {"comp_rev_oid", "fixed_in_comp_rev_oid"}

JoinedByFirst(first, second) == {first}

\* One join has both revisions in its condition: it finds an entry when they
\* are the same, and the name of that is shown for both.
JoinedByBoth(first, second) == IF first = second THEN {first} ELSE {NoValue}

\* The text of a column on a form without its control.
ViewNames == (RequestControls \ {"comment"}) \cup {"title"}
ViewOf(name, stored, other) ==
  CASE name = "comp_rev_oid"          -> JoinedByBoth(stored, other)
    [] name = "fixed_in_comp_rev_oid" -> JoinedByBoth(other, stored)
    [] OTHER                          -> Read("request", TextColumn(name), name, stored)

\* The text of a column in the summary.
SummaryNames ==
  {"status_oid", "severity_oid", "priority_oid", "assigned_to_oid", "component_oid",
   "comp_rev_oid", "title", "request"}
SummaryOf(name, stored) == Read("summary", TextColumn(name), name, stored)

-----------------------------------------------------------------------------
(* From a control to its column.                                           *)

\* escape_single_quotes does not make a literal of a text with a quote, and
\* a statement put together from a null pointer ends at it.
Breaks(form, name, sent) ==
  /\ name \in Saves[form]
  /\ \/ sent = "quote" /\ name # "comment"
     \/ sent = NoValue /\ name # "is_active"

\* The column after a save that succeeded.  A level of effort that is empty
\* does not get into the statement, a comment gets into one of its own.
Stored(form, name, stored, sent) ==
  CASE name \notin Saves[form] /\ stored # NoValue -> stored
    [] name \notin Saves[form] /\ stored = NoValue -> Blank(name)
    [] name \in Saves[form] ->
         IF name = "is_active" THEN (IF sent = NoValue THEN "off" ELSE "on")
         ELSE IF \/ name = "level_of_effort" /\ sent = Empty
                 \/ name = "comment" /\ sent \in {Empty, "quote"} THEN stored
         ELSE sent
=============================================================================
