------------------------------- MODULE Pages -------------------------------
(***************************************************************************)
(* The pages of one browser window: what each handler of the main switch   *)
(* shows, the buttons on it, and what travels from a page to the next.     *)
(*                                                                         *)
(* Most pages are of two forms.  A button of the first sends its controls  *)
(* and hidden fields; Cancel and Close send the second, which has the next *)
(* formaction and nothing else.  A handler knows a record by what it gets: *)
(* with an oid a form edits, without one it adds.                          *)
(*                                                                         *)
(* Of the controls of a form the window follows one, which any may be: the *)
(* column it is of, what it shows, and what the user last made it.         *)
(*                                                                         *)
(* Left out: whose session it is (Sessions), the locks (Checkout), what a  *)
(* user may change (StatusRules: all controls or none), and which          *)
(* revisions are whose (Catalog).                                          *)
(***************************************************************************)
EXTENDS Fields

VARIABLES
  page,     \* what the window shows
  post,     \* what was sent and is not answered, or NoPost
  entry,    \* the control that is followed, or NoEntry
  leaving   \* the user wants to be done, and only closes what is open

vars == <<page, post, entry, leaving>>

-----------------------------------------------------------------------------
(* Formactions are pairs: what is done, and to what.                       *)

None == "none"

Entities == {"USER", "COMP", "PRODUCT"}
OfComponents == {"COMP_REV", "COMP_TYPE"}
OfProducts == {"MARKETING_REV", "PAM_RELEASE"}
Keyed == OfComponents \cup OfProducts
Tags == {"PLATFORM", "ORIGINATOR", "RESOLUTION", "FINDING_ACT", "REQUEST_TYPE"}
Lookups == Keyed \cup Tags
Above(f) == IF f \in OfComponents THEN "COMP" ELSE "PRODUCT"

\* Whose lists db_fetch_list makes for a parent only.
ListedByParent == Keyed \ {"COMP_TYPE"}

A_MAIN  == <<"MENU", "MAIN">>
A_ADMIN == <<"MENU", "ADMIN">>
A_LOGIN == <<"LOGIN", None>>        \* the main switch has no case for it
A_LOGOUT == <<"LOGOUT", None>>
A_NEW_REQUEST_PAGE == <<<<"PAGE", "1">>, <<"PAGE", "2">>, <<"PAGE", "3">>>>
A_SAVE_NEW_REQUEST == <<"SAVE", "NEW_REQUEST">>
A_RECORD_REQUEST == <<"RECORD", "REQUEST">>
A_SUMMARY == <<"SUMMARY", "REQUEST">>
A_REQUEST == <<"FORM", "REQUEST">>
A_SAVE_REQUEST == <<"SAVE", "REQUEST">>
A_CHECKIN_REQUEST == <<"CHECKIN", "REQUEST">>
A_SYS_USERS == <<"FORM", "SYSTEM">>
A_SAVE_SYS_USERS == <<"SAVE", "SYSTEM">>
A_CLEAR_ALL_LOCKS == <<"CLEAR", "LOCKS">>
NotImplemented == {<<"REPORT", None>>, <<"PASSWORD", None>>}
Authenticate == <<"AUTHENTICATE", None>>   \* a post with a login and no sid

MenuAboveItself(f) == <<"MENU", f>>

\* Where Close leads from the menu of f, as the main switch has it.
MenuAbove(f) == IF f \in Keyed THEN <<"MENU", Above(f)>> ELSE A_ADMIN

-----------------------------------------------------------------------------
(* Parameters, and what a page and a post are.  The value of a parameter   *)
(* is the class of what it is the number of.                               *)

OidNames == {"oid", "fkey", "request_oid", "requested_oid", "component_oid", "product_oid",
             "comp_rev_oid", "pam_release_oid"}
Oids == Entities \cup Lookups \cup {"REQUEST"}
IsParams(p) == DOMAIN p \subseteq OidNames /\ \A n \in DOMAIN p : p[n] \in Oids

Nothing == [n \in {} |-> None]
Param(params, n) == IF n \in DOMAIN params THEN params[n] ELSE None

\* The field is written whether or not there is a value.
WithNull(n, value) == [m \in {n} |-> value]

\* A hidden field, left out when it has no value.
With(n, value) == IF value = None THEN Nothing ELSE [m \in {n} |-> value]
Both(p, q) == [n \in DOMAIN p \cup DOMAIN q |-> IF n \in DOMAIN p THEN p[n] ELSE q[n]]

NoPost == [to |-> <<None, None>>]
NoEntry == [form |-> "none"]

Page(at, params) == [at |-> at, params |-> params, next |-> A_MAIN, text |-> None]

\* sh_message_return: a text and OK.
Message(text, next) ==
  [at |-> <<"MESSAGE", None>>, params |-> Nothing, next |-> next, text |-> text]

LoginPage == Page(<<"LOGIN", "page">>, Nothing)
LoginMessage == Page(<<"LOGIN", "message">>, Nothing)
OutOfOrder == Page(<<"OUT_OF_ORDER", None>>, Nothing)
IsMessage(p) == p.at = <<"MESSAGE", None>>

-----------------------------------------------------------------------------
(* The buttons of a page.                                                  *)

SidFirst(p) == <<"sid", "controls", "hidden", "formaction">>

\* What a form sends, in the order in which it is written; a part may be empty.
Parts(p) ==
  CASE p.at[1] = "LOGIN"               -> <<"login", "password">>
    [] p.at = A_REQUEST \/ IsMessage(p) -> <<"controls", "formaction", "hidden", "sid">>
    [] OTHER                           -> <<"controls", "hidden", "formaction", "sid">>

Submit(p, to) == [to |-> to, params |-> p.params, closes |-> FALSE, parts |-> Parts(p)]
SubmitToClose(p, to) == [Submit(p, to) EXCEPT !.closes = TRUE]

CloseSendsForm(p, to) == SubmitToClose(p, to)

\* The second form of sh_end_shrs.
Close(p, to) == [SubmitToClose(p, to) EXCEPT !.params = Nothing]

MainMenuActions ==
  {A_NEW_REQUEST_PAGE[1], A_RECORD_REQUEST, A_SUMMARY, A_ADMIN} \cup NotImplemented

AdminMenuActions ==
  {A_SYS_USERS} \cup {<<"MENU", f>> : f \in Entities \cup Tags}
                \cup {<<"SELECT", f>> : f \in Keyed}

\* An entity is selected on a page of its own, an entry on its form.
AddAction(f) == IF f \in Entities THEN <<"FORM", f>> ELSE <<"ADD", f>>
EditAction(f) == IF f \in Entities THEN <<"SELECT", f>> ELSE <<"EDIT", f>>

MenuButtons(p) ==
  LET f == p.at[2] IN
  CASE f = "MAIN"  -> {Submit(p, to) : to \in MainMenuActions} \cup {SubmitToClose(p, A_LOGOUT)}
    [] f = "ADMIN" -> {Submit(p, to) : to \in AdminMenuActions} \cup {Close(p, A_MAIN)}
    [] OTHER       -> {Submit(p, AddAction(f)), Submit(p, EditAction(f)), Close(p, MenuAbove(f))}

FormButtons(p) ==
  LET f == p.at[2] IN
  CASE f = "REQUEST" ->
         IF p.text = "view" THEN {[Close(p, A_MAIN) EXCEPT !.params = p.params]}
         ELSE {[Close(p, A_CHECKIN_REQUEST) EXCEPT !.params = p.params],
               Submit(p, A_SAVE_REQUEST)}
              \cup (IF p.text = "controls" THEN {Submit(p, A_REQUEST)} ELSE {})
    [] f = "SYSTEM" ->
         {Submit(p, A_SAVE_SYS_USERS), Submit(p, A_CLEAR_ALL_LOCKS), Close(p, A_ADMIN)}
    [] f \in Entities ->
         {Submit(p, <<"SAVE", f>>), Close(p, <<"MENU", f>>)}
           \cup (IF Param(p.params, "oid") = None THEN {}
                 ELSE {Submit(p, <<"MENU", g>>) : g \in {h \in Keyed : Above(h) = f}})

Buttons(p) ==
  LET verb == p.at[1]
      f == p.at[2]
  IN
  CASE verb = "MENU"    -> MenuButtons(p)
    [] verb = "FORM"    -> FormButtons(p)
    [] verb = "MESSAGE" -> {SubmitToClose(p, p.next)}
    [] verb = "SELECT"  ->
         IF f \in Entities THEN {Submit(p, <<"FORM", f>>), Close(p, <<"MENU", f>>)}
         ELSE {Submit(p, <<"MENU", f>>), Close(p, A_ADMIN)}
    [] verb \in {"ADD", "EDIT"} ->
         {Submit(p, <<"SAVE", f>>), SubmitToClose(p, <<"MENU", f>>)}
    [] verb \in {"RECORD", "SUMMARY"} -> {Submit(p, A_REQUEST), Close(p, A_MAIN)}
    [] verb = "PAGE" ->
         {CASE f = "1" -> Submit(p, A_NEW_REQUEST_PAGE[2])
            [] f = "2" -> Submit(p, A_NEW_REQUEST_PAGE[3])
            [] f = "3" -> Submit(p, A_SAVE_NEW_REQUEST),
          Close(p, A_MAIN)}
    [] verb = "LOGIN" /\ f = "page" -> {Submit(p, Authenticate)}
    [] OTHER -> {}

\* Whether the page has the control that is followed.
HasControl(p, e) ==
  CASE p.at = A_NEW_REQUEST_PAGE[1] -> e.name \in FirstPageControls
    [] p.at = A_NEW_REQUEST_PAGE[2] -> e.name \in SecondPageControls
    [] p.at = A_NEW_REQUEST_PAGE[3] -> e.name \in ThirdPageControls
    [] OTHER                        -> e.form # "view" /\ ~IsMessage(p)

-----------------------------------------------------------------------------
(* What the user does.                                                     *)

Press(b) ==
  /\ post = NoPost
  /\ b \in Buttons(page)
  /\ leaving => b.closes
  /\ post' = b
  /\ UNCHANGED <<page, entry, leaving>>

PressClosing == leaving /\ \E b \in Buttons(page) : Press(b)

Choose(value) ==
  /\ post = NoPost
  /\ entry # NoEntry
  /\ HasControl(page, entry)
  /\ entry' = [entry EXCEPT !.control = value, !.chosen = value]
  /\ UNCHANGED <<page, post, leaving>>

Leave ==
  /\ ~leaving
  /\ leaving' = TRUE
  /\ UNCHANGED <<page, post, entry>>

\* A part of which something is missing did not arrive.
Arrived(part) == \E i \in DOMAIN post.parts : post.parts[i] = part
IsCut == post # NoPost /\ post.parts # Parts(page)

\* The connection is lost while util_read reads, which takes what came for all
\* there is; a cut in the password is a wrong password.
CutShort ==
  /\ post # NoPost
  /\ \E n \in 0 .. Len(post.parts) - 1 :
       post' = [post EXCEPT
                 !.parts = SubSeq(@, 1, n),
                 !.params = IF \E i \in 1 .. n : post.parts[i] = "hidden" THEN @ ELSE Nothing]
  /\ UNCHANGED <<page, entry, leaving>>

\* The pages with no way on but the login page.  The message about an unknown
\* request has an OK that leads to the same message.
Away(p) ==
  \/ p.at[1] \in {"LOGIN", "OUT_OF_ORDER"}
  \/ p.text = "UnknownRequest"

\* The user goes to the login page from anywhere.
Visit ==
  /\ post = NoPost
  /\ leaving => Away(page)
  /\ page' = LoginPage
  /\ entry' = NoEntry
  /\ leaving' = FALSE
  /\ UNCHANGED post

-----------------------------------------------------------------------------
(* The handlers.                                                           *)

Answer(p, e) ==
  /\ page' = p
  /\ entry' = e
  /\ post' = NoPost
  /\ UNCHANGED leaving

\* A form is shown, and one of its controls is followed from now on.
Opens(p, form, names, new) ==
  \E name \in names :
    \E stored \in IF new THEN {NoValue} ELSE InRow(name) :
      \E control \in Shown(form, name, stored) :
        Answer(p, [form |-> form, name |-> name, stored |-> stored, control |-> control,
                   chosen |-> "Untouched"])

\* A page with the text of a column, and no control for it.
Views(p, names, TextOf(_, _, _)) ==
  \E name \in names :
    \E stored, other \in InRow(name) :
      \E text \in TextOf(name, stored, other) :
        Answer(p, [form |-> "view", name |-> name, stored |-> stored, control |-> text,
                   chosen |-> "Untouched"])

SummaryText(name, stored, other) == SummaryOf(name, stored)

\* What the browser sends for the control: nothing for an empty checkbox.
Sent(e) == IF e.control = "off" THEN NoValue ELSE e.control

Saved(e) == [e EXCEPT !.stored = Stored(e.form, e.name, e.stored, Sent(e))]

\* The handler ends, and the window still shows the page it was sent from: an
\* edit was made to what it edits, what is added next is another row.
Unseen(e) == Answer(page, IF entry.stored = NoValue THEN entry ELSE e)

\* A save that succeeds, or fails, for reasons of the database too.
SaveEntry(success, failure) ==
  \/ Answer(failure, NoEntry)
  \/ /\ ~Breaks(entry.form, entry.name, Sent(entry))
     /\ Answer(success, Saved(entry)) \/ Unseen(Saved(entry))

\* Nothing is done, or nothing that the window shows, and no answer arrives.
ConnectionLost == Answer(page, entry)

\* The session is gone, or there is no database.
SessionTimesOut ==
  /\ post.to # Authenticate
  /\ \E p \in {LoginMessage, OutOfOrder} : Answer(p, NoEntry)

LogIn ==
  /\ post.to = Authenticate
  /\ \E p \in {Page(A_MAIN, Nothing), LoginMessage, OutOfOrder} : Answer(p, NoEntry)

Logout ==
  /\ post.to = A_LOGOUT
  /\ Answer(LoginPage, NoEntry)

\* A_CHECKIN_REQUEST falls through into the main menu.
ShowMainMenu ==
  /\ post.to \in {A_MAIN, A_CHECKIN_REQUEST}
  /\ Answer(Page(A_MAIN, Nothing), NoEntry)

ShowAdminMenu ==
  /\ post.to = A_ADMIN
  /\ Answer(Page(A_ADMIN, Nothing), NoEntry)

SwitchBoard ==
  \/ post.to \in NotImplemented /\ Answer(Message("NotImplemented", A_MAIN), NoEntry)
  \/ post.to \in {A_LOGIN, <<"SELECT", "COMP_TYPE">>}
     /\ Answer(Message("UnknownRequest", A_LOGIN), NoEntry)

\* The list boxes that pages 1 and 2 may come with: each tests its first list
\* twice and its second one never.
Offered ==
  <<{{"component_oid"}, {"component_oid", "product_oid"}},
    {{"comp_rev_oid"}, {"comp_rev_oid", "pam_release_oid"}},
    {{}}>>

ClassOfParam ==
  [component_oid |-> "COMP", product_oid |-> "PRODUCT", comp_rev_oid |-> "COMP_REV",
   pam_release_oid |-> "PAM_RELEASE"]

RequiredWithoutPam ==
  <<{}, {"component_oid", "product_oid"}, {"component_oid", "product_oid", "comp_rev_oid"}>>

\* What pages 2 and 3 refuse to be shown without.
Required ==
  <<{}, {"component_oid", "product_oid"},
    {"component_oid", "product_oid", "comp_rev_oid", "pam_release_oid"}>>

ShowNewRequestPage(n) ==
  /\ post.to = A_NEW_REQUEST_PAGE[n]
  /\ \/ Answer(Message("Failed", A_MAIN), NoEntry)
     \/ /\ Required[n] \subseteq DOMAIN post.params
        /\ \E offered \in Offered[n] :
             LET p == Page(post.to, Both(post.params, [m \in offered |-> ClassOfParam[m]])) IN
             IF n = 1 THEN Opens(p, "new_request", NewRequestControls, TRUE) ELSE Answer(p, entry)

SaveNewRequest ==
  /\ post.to = A_SAVE_NEW_REQUEST
  /\ SaveEntry(Message("Saved", A_MAIN), Message("Failed", A_MAIN))

\* The number typed, or the one of the record whose Open was pressed.
RecordPage == Page(A_RECORD_REQUEST, With("requested_oid", "REQUEST"))

ShowRecordAndSummary ==
  \/ post.to = A_RECORD_REQUEST /\ Answer(RecordPage, NoEntry)
  \/ post.to = A_SUMMARY
     /\ \/ Answer(Message("OutOfOrder", A_MAIN), NoEntry)
        \/ Views(Page(A_SUMMARY, With("requested_oid", "REQUEST")), SummaryNames, SummaryText)

RequestForm(text) ==
  [Page(A_REQUEST, With("request_oid", "REQUEST")) EXCEPT !.text = text]

\* A form without controls still has the comment, which is always empty.
CommentForm == Opens(RequestForm("comment"), "request", {"comment"}, TRUE)

ShowRequest ==
  /\ post.to = A_REQUEST
  /\ "requested_oid" \in DOMAIN post.params
  /\ \/ \E p \in {RecordPage, Message("Failed", A_MAIN)} : Answer(p, NoEntry)
     \/ \E text \in {"view", "comment"} : Views(RequestForm(text), ViewNames, ViewOf)
     \/ CommentForm
     \/ Opens(RequestForm("controls"), "request", RequestControls \ {"comment"}, FALSE)
     \/ Opens(RequestForm("controls"), "request", {"comment"}, TRUE)

\* A comment is lost when the form is shown again, and what was chosen from a
\* list may not be in the list of another product or component.
ShownEntry(control) ==
  [entry EXCEPT
    !.control = control,
    !.chosen = IF \/ entry.name = "comment"
                  \/ entry.name \in DependentLists /\ control # entry.control
               THEN "Untouched" ELSE @]

ReprocessRequest ==
  /\ post.to = A_REQUEST
  /\ "requested_oid" \notin DOMAIN post.params
  /\ \/ Answer(Message("Failed", A_MAIN), NoEntry)
     \/ CommentForm
     \/ \E control \in ShownAgain(entry.name, entry.stored, entry.control) :
          Answer(RequestForm("controls"), ShownEntry(control))

\* The statement for the comment is one of its own, after the update.
SaveRequest ==
  /\ post.to = A_SAVE_REQUEST
  /\ page.text = "controls"
  /\ \/ Answer(Message("Failed", A_MAIN), NoEntry)
     \/ /\ ~Breaks("request", entry.name, Sent(entry))
        /\ \/ /\ entry.name = "comment" => entry.control # "quote"
              /\ Answer(Message("Saved", A_MAIN), Saved(entry)) \/ Unseen(Saved(entry))
           \/ /\ entry.name = "comment" => entry.control # Empty
              /\ Answer(Message("SavedWithoutComment", A_MAIN),
                        IF entry.name = "comment" THEN entry ELSE Saved(entry))

\* A form that sends no level of effort kills the child.
SaveCrashes ==
  /\ post.to = A_SAVE_REQUEST
  /\ page.text # "controls"
  /\ Answer(page, entry)

MenuOidFirst(params) ==
  IF Param(params, "oid") = None THEN Param(params, "fkey") ELSE Param(params, "oid")

\* Whose entries the menu is for: what it was called with before.
MenuOid(params) ==
  IF Param(params, "fkey") = None THEN Param(params, "oid") ELSE Param(params, "fkey")

AddOrEdit(f) ==
  /\ post.to = <<"MENU", f>>
  /\ Answer(Page(post.to, With("oid", MenuOid(post.params))), NoEntry)

\* A list of revisions of components is asked for without a component.
SelectToContinue(f) ==
  /\ post.to = <<"SELECT", f>>
  /\ \/ Answer(Message("Failed", A_MAIN), NoEntry)
     \/ /\ f # "COMP_REV"
        /\ Answer(Page(post.to, With("oid", IF f \in Entities THEN f ELSE Above(f))), NoEntry)

AddLookup(f) ==
  LET fkey == Param(post.params, "oid") IN
  /\ post.to = <<"ADD", f>>
  /\ \/ Answer(Message("Failed", A_ADMIN), NoEntry)
     \/ /\ f \in ListedByParent => fkey # None
        /\ Opens(Page(post.to, With("fkey", fkey)), "lookup", LookupControls, TRUE)

EditLookup(f) ==
  LET fkey == Param(post.params, "oid") IN
  /\ post.to = <<"EDIT", f>>
  /\ \/ Answer(Message("Failed", A_MAIN), NoEntry)
     \/ /\ f \in ListedByParent => fkey # None
        /\ Opens(Page(post.to, Both(With("oid", f), With("fkey", fkey))),
                 "lookup", LookupControls, FALSE)

\* h_ph_tag and h_ph_value_key.
SaveLookup(f) ==
  LET fkey == Param(post.params, "fkey")
      menu == <<"MENU", f>>
  IN
  /\ post.to = <<"SAVE", f>>
  /\ IF f \in Tags THEN SaveEntry(Message("Saved", menu), Message("Failed", menu))
     ELSE IF fkey = None THEN Answer(Message("OutOfOrder", menu), NoEntry)
     ELSE SaveEntry([Message("Saved", menu) EXCEPT !.params = With("fkey", fkey)],
                    Message("Failed", menu))

\* The forms of the three entities: for a new one without an oid.
AdminEntity(f, form, names, namesOfNew) ==
  LET oid == Param(post.params, "oid") IN
  /\ post.to = <<"FORM", f>>
  /\ \/ /\ f = "COMP" \/ oid # None
        /\ Answer(Message("Failed", IF f = "USER" THEN A_ADMIN ELSE <<"MENU", f>>), NoEntry)
     \/ Opens(Page(post.to, With("oid", oid)), form,
              IF oid = None THEN namesOfNew ELSE names, oid = None)

AdminUser == AdminEntity("USER", "user", UserControls, UserControls \cup {"password"})
AdminComponent == AdminEntity("COMP", "component", ComponentControls, ComponentControls)
AdminProduct == AdminEntity("PRODUCT", "product", ProductControls, ProductControls)

SaveEntity(f) ==
  /\ post.to = <<"SAVE", f>>
  /\ SaveEntry(Message("Saved", <<"MENU", f>>), Message("Failed", <<"MENU", f>>))

AdminSystem ==
  /\ post.to = A_SYS_USERS
  /\ \/ Answer(OutOfOrder, NoEntry)
     \/ Opens(Page(post.to, Nothing), "system", SystemControls, FALSE)

SaveSystemUsers ==
  /\ post.to = A_SAVE_SYS_USERS
  /\ SaveEntry(Message("Saved", A_ADMIN), Message("Failed", A_ADMIN))

ClearLocks ==
  /\ post.to = A_CLEAR_ALL_LOCKS
  /\ Answer(Message("Done", A_SYS_USERS), NoEntry)

Handle ==
  \/ SessionTimesOut \/ LogIn \/ Logout \/ ShowMainMenu \/ ShowAdminMenu \/ SwitchBoard
  \/ \E n \in {1, 2, 3} : ShowNewRequestPage(n)
  \/ SaveNewRequest \/ ShowRecordAndSummary
  \/ ShowRequest \/ ReprocessRequest \/ SaveRequest \/ SaveCrashes
  \/ \E f \in Entities \cup Lookups : AddOrEdit(f)
  \/ \E f \in Entities \cup ListedByParent : SelectToContinue(f)
  \/ \E f \in Lookups : AddLookup(f) \/ EditLookup(f) \/ SaveLookup(f)
  \/ AdminUser \/ AdminComponent \/ AdminProduct
  \/ \E f \in Entities : SaveEntity(f)
  \/ AdminSystem \/ SaveSystemUsers \/ ClearLocks

\* Without a sid that names a session, or a login and a password, the handler
\* of the server does not come to the switch.
Admitted == post # NoPost /\ (Arrived("sid") \/ Arrived("password"))

Serve ==
  \/ post # NoPost /\ ConnectionLost
  \/ Admitted /\ Handle

Init ==
  /\ page = LoginPage
  /\ post = NoPost
  /\ entry = NoEntry
  /\ leaving = FALSE

Next ==
  \/ \E b \in Buttons(page) : Press(b)
  \/ entry # NoEntry /\ \E value \in Choices(entry.name) : Choose(value)
  \/ Leave
  \/ Visit
  \/ CutShort
  \/ Serve

\* Apache runs every handler to its end, and not every connection is lost; a
\* user who wants to be done goes on closing what is open.
Fairness ==
  /\ WF_vars(Serve)
  /\ SF_vars(Admitted /\ Handle)
  /\ WF_vars(PressClosing)

Spec == Init /\ [][Next]_vars /\ Fairness

-----------------------------------------------------------------------------
(* Properties.                                                             *)

\* Pages, posts and the control that is followed are what the handlers know.
TypeOK ==
  /\ IsParams(page.params)
  /\ post # NoPost => IsParams(post.params)
  /\ entry # NoEntry =>
       /\ entry.form \in DOMAIN Saves \cup {"view"}
       /\ {entry.stored, entry.control} \subseteq Value
       /\ entry.chosen \in Choices(entry.name) \cup {"Untouched"}
  /\ leaving \in BOOLEAN

\* An oid is a number and does not tell what it is of.  Over menus, forms,
\* messages and back, a handler gets the number of what it takes it for: an
\* edit the entity of its form, an add or an edit of revisions their component
\* or product (db_fetch_list would list those of another), a save its own.
OidsFit ==
  Admitted =>
    LET verb == post.to[1]
        f == post.to[2]
        oid == Param(post.params, "oid")
        fkey == Param(post.params, "fkey")
    IN
    /\ verb \in {"FORM", "SAVE"} => oid \in {None, f}
    /\ verb \in {"ADD", "EDIT"} /\ f \in ListedByParent => oid \in {None, Above(f)}
    /\ verb = "SAVE" /\ f \in ListedByParent => fkey \in {None, Above(f)}
    /\ post.to = A_REQUEST =>
         "REQUEST" \in {Param(post.params, "requested_oid"), Param(post.params, "request_oid")}

\* The menu of users, components or products has no oid left over from what
\* was edited before, or its Add would open that for a change (form_admin.c,
\* h_sh_admin_user and the like tell the two apart by nothing else).
AddsAreNew == page.at[1] = "MENU" /\ page.at[2] \in Entities => page.params = Nothing

\* "The submitter is forced to select these required entry items first": page
\* 3 and the save of a new request have a product, a component, a revision and
\* a PAM release, although pages 1 and 2 may come without two of the lists.
ItemsFirst ==
  /\ page.at = A_NEW_REQUEST_PAGE[3] => DOMAIN ClassOfParam \subseteq DOMAIN page.params
  /\ Admitted /\ post.to = A_SAVE_NEW_REQUEST => DOMAIN ClassOfParam \subseteq DOMAIN post.params

\* The names of controls that do not arrive at their columns: form and handler
\* disagree about the name, or the statement has no such column.
Astray ==
  [request |-> {"finding_act_oid", "marketing_oid", "request", "resolution", "verification",
                "release_date"},
   new_request |-> {"pam_release_oid", "market_rev_oid"}]

Arrives(e) == e.form \in DOMAIN Astray => e.name \notin Astray[e.form]

\* An empty level of effort does not erase the old one and an empty comment is
\* none.  A level of effort that was cut at a quote when the form was shown
\* again is saved as it was shown.
Excepted(e) ==
  \/ e.name \in {"level_of_effort", "comment"} /\ e.chosen = Empty
  \/ e.name = "level_of_effort" /\ e.chosen = "quote" /\ e.stored = "cut"

\* After "Saved" a column has what the user chose last, over all pages of a new
\* request and however often the form of a request was shown again for another
\* component, and a comment was not lost without a word.
SavedAsChosen ==
  page.text = "Saved" /\ entry.chosen # "Untouched" =>
    \/ entry.stored = entry.chosen
    \/ ~Arrives(entry)
    \/ Excepted(entry)

\* The same of every control of "a newly created record that the user may edit"
\* (README).
AllSavedAsChosen ==
  page.text = "Saved" /\ entry.chosen # "Untouched" =>
    \/ entry.stored = entry.chosen
    \/ Excepted(entry)

\* A form of which only a part arrives changes nothing, wherever it is cut:
\* util_read hides the loss, but the sid comes last in every form.
PartsChangeNothing == [][IsCut /\ post' = NoPost => UNCHANGED <<page, entry>>]_vars

\* A save leaves a column as it was whose control the user did not touch.
\* Excepted are the box Account Active, which is always shown checked, the
\* empty box for a new value, and the lists of what belongs to a product or a
\* component, which need not have the entry stored.
UntouchedStays ==
  [][page'.text \in {"Saved", "SavedWithoutComment"} /\ entry.chosen = "Untouched"
     /\ entry.stored # NoValue /\ entry.form # "lookup"
     /\ entry.name \notin DependentLists \cup {"is_active"}
       => entry'.stored = entry.stored]_vars

\* What a page shows of a request is what is stored, although query, row and
\* page are put together in three places; of a revision it may show nothing
\* and never the name of another.  Excepted is the release date, which no row
\* has and for which a page shows what is in the memory.
ViewsTell ==
  entry # NoEntry /\ entry.form = "view" =>
    \/ entry.control = entry.stored
    \/ entry.name \in RevisionNames /\ entry.control = NoValue
    \/ entry.name = "release_date"

\* Whoever wants to be done gets out, by the buttons that close what is open.
Leaves == leaving ~> Away(page)
=============================================================================
