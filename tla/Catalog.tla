-------------------------------- MODULE Catalog --------------------------------
(***************************************************************************)
(* The lookup tables, the administrators who edit them, and a request that *)
(* refers to them.  Entries of some tables belong to a parent: the         *)
(* revisions of a component, the PAM releases of a product.  The pages     *)
(* carry the parent in the hidden fields oid and fkey; nothing else does.  *)
(*                                                                         *)
(* An entry is its number and its parent; names are left out.  No entry is *)
(* ever deleted.  0 stands for a field that a form does not send.  Who     *)
(* gets which form, and the checkout, are in Lifecycle and Checkout: here  *)
(* anybody may save.                                                       *)
(***************************************************************************)
EXTENDS Integers, FiniteSets

CONSTANTS
  Window,     \* browser windows, of administrators and others
  Class,      \* the tables looked at
  Parent,     \* components, and products, as their sequences number them
  NumberMax   \* bounds on the numbers drawn from the sequence of each class

Unspecified == 1

ASSUME CatalogAssumption ==
  /\ Class # {} /\ Class \subseteq {"CL_COMP_REV", "CL_PAM", "CL_PLATFORM"}
  /\ IsFiniteSet(Parent) /\ Parent = 1 .. Cardinality(Parent) /\ Unspecified \in Parent
  /\ NumberMax \in [Class -> Nat]
  /\ \A c \in Class : Parent \subseteq 1 .. NumberMax[c]

VARIABLES
  table,    \* the entries of each class
  seq,      \* the last number drawn for each class
  request,  \* {} or the request there is
  page,     \* the page of each window
  job,      \* a handler between drawing a number and inserting it
  chosen    \* history variable: the parent selected last in each window

vars == <<table, seq, request, page, job, chosen>>

-----------------------------------------------------------------------------
HasParent(c) == c # "CL_PLATFORM"

Number == UNION {0 .. NumberMax[c] : c \in Class}
Carried(c) == IF HasParent(c) THEN Parent \cup {0} ELSE Number
Entry(c) == [oid : Number \ {0}, fkey : IF HasParent(c) THEN Parent ELSE {0}]
Request == [component : Parent, comp_rev : Number \ {0}, fixed_in : Number \ {0}]

\* kind: which handler wrote the page; oid, fkey: its hidden fields; list: what
\* its list box of numbers offers.
Page(kind, c, oid, fkey, list) ==
  [kind |-> kind, class |-> c, oid |-> oid, fkey |-> fkey, list |-> list]

MainMenu == [kind |-> "main"]

\* A form of a request: its component and the revisions it offers.
RequestForm(kind, component, revs) ==
  [kind |-> kind, component |-> component, list |-> revs]

NoJob == [pc |-> "idle"]
Idle(w) == job[w] = NoJob

JobOK(j) ==
  /\ j \in [pc : {"insert"}, class : Class, oid : Number \ {0}, fkey : Number]
  /\ j.fkey \in Carried(j.class)

PageOK(p) ==
  \/ p = MainMenu
  \/ /\ p.kind \in {"select", "menu", "add", "edit", "message"}
     /\ p.class \in Class
     /\ {p.oid, p.fkey} \subseteq Carried(p.class)
     /\ p.list \subseteq Number
  \/ /\ p.kind \in {"page2", "page3", "request"}
     /\ p.component \in Parent
     /\ p.list \subseteq Number \ {0}

TypeOK ==
  /\ DOMAIN table = Class /\ \A c \in Class : table[c] \subseteq Entry(c)
  /\ seq \in [Class -> Number]
  /\ request \subseteq Request
  /\ DOMAIN page = Window /\ \A w \in Window : PageOK(page[w])
  /\ DOMAIN job = Window /\ \A w \in Window : job[w] = NoJob \/ JobOK(job[w])
  /\ chosen \in [Window -> Parent \cup {0}]

-----------------------------------------------------------------------------
(* db_fetch_list and db_save.                                              *)

\* The entries of no parent are those of all.  Without a parent there is no
\* list for a class that has them.
db_fetch_list(c, oid) ==
  {e.oid : e \in {f \in table[c] : HasParent(c) => oid # 0 /\ f.fkey \in {Unspecified, oid}}}

\* The parent an UPDATE leaves an entry: update_pam_release sets it to the
\* fkey of the form, update_comp_rev does not touch it.
ParentAsItsSiblings(c, e, fkey) == IF HasParent(c) THEN fkey ELSE e.fkey
UpdatedParent(c, e, fkey) == IF c = "CL_PAM" THEN fkey ELSE e.fkey

Updated(c, e, sent) ==
  IF e.oid = sent.oid THEN [e EXCEPT !.fkey = UpdatedParent(c, e, sent.fkey)] ELSE e

NumberOfLast(c) == Cardinality(table[c]) + 1
fetch_next_sequence(c) == seq[c] + 1

\* The tables as insert_shrs_data.sql leaves them: the unspecified entry, and
\* one for each further parent.
Init ==
  /\ table = [c \in Class |-> {[oid |-> p, fkey |-> IF HasParent(c) THEN p ELSE 0] : p \in Parent}]
  /\ seq = [c \in Class |-> Cardinality(Parent)]
  /\ request = {}
  /\ page = [w \in Window |-> MainMenu]
  /\ job = [w \in Window |-> NoJob]
  /\ chosen = [w \in Window |-> 0]

-----------------------------------------------------------------------------
(* The administrator's pages.                                              *)

\* What the form on a page sends, by any of its buttons.
Sent(p) ==
  [oid : IF p.kind \in {"select", "edit"} THEN p.list ELSE {p.oid}, fkey : {p.fkey}]

\* To the list of products, to the form of a component with its hidden oid, or
\* to the main admin page, from wherever: each page has a way out.
SelectPage(w, c) ==
  /\ Idle(w)
  /\ page' = [page EXCEPT ![w] = Page("select", c, 0, 0, IF HasParent(c) THEN Parent ELSE {0})]
  /\ UNCHANGED <<table, seq, request, job, chosen>>

MenuOidOfSelection(sent) == IF sent.oid # 0 THEN sent.oid ELSE sent.fkey
MenuOid(sent) == IF sent.fkey # 0 THEN sent.fkey ELSE sent.oid

\* Reached by a selection, by Cancel on the two forms (which submits them),
\* and by OK on a message.
h_sh_add_or_edit(w) ==
  /\ Idle(w)
  /\ page[w].kind \in {"select", "add", "edit", "message"}
  /\ \E sent \in Sent(page[w]) :
       /\ page' = [page EXCEPT ![w] = Page("menu", page[w].class, MenuOid(sent), 0, {})]
       /\ chosen' = IF page[w].kind = "select" THEN [chosen EXCEPT ![w] = sent.oid] ELSE chosen
  /\ UNCHANGED <<table, seq, request, job>>

\* The form has no oid, so that its Save inserts.
h_sh_add_lookup(w) ==
  /\ Idle(w) /\ page[w].kind = "menu"
  /\ LET c == page[w].class IN
       page' = [page EXCEPT ![w] = IF db_fetch_list(c, @.oid) = {} THEN MainMenu
                                   ELSE Page("add", c, 0, @.oid, {})]
  /\ UNCHANGED <<table, seq, request, job, chosen>>

\* In this form oid is the entry selected.
h_sh_edit_lookup(w) ==
  /\ Idle(w) /\ page[w].kind = "menu"
  /\ LET c == page[w].class
         list == db_fetch_list(c, page[w].oid)
     IN page' = [page EXCEPT ![w] = IF list = {} THEN MainMenu
                                    ELSE Page("edit", c, 0, @.oid, list)]
  /\ UNCHANGED <<table, seq, request, job, chosen>>

\* "Saved" carries the parent on, "Failed" does not; nor does what h_ph_tag
\* says, but its classes have none.
Saved(c, fkey) == Page("message", c, 0, IF HasParent(c) THEN fkey ELSE 0, {})
Failed(c) == Page("message", c, 0, 0, {})

\* What h_ph_value_key asks for before it saves; h_ph_tag does not.
InOrder(p) == HasParent(p.class) => p.fkey # 0

\* h_ph_value_key and h_ph_tag with an oid, by one UPDATE.
UpdateEntry(w) ==
  /\ Idle(w) /\ page[w].kind = "edit" /\ InOrder(page[w])
  /\ LET c == page[w].class IN
       \E sent \in Sent(page[w]) :
         /\ table' = [table EXCEPT ![c] = {Updated(c, e, sent) : e \in @}]
         /\ page' = [page EXCEPT ![w] = Saved(c, sent.fkey)]
  /\ UNCHANGED <<seq, request, job, chosen>>

\* The same without an oid: the number is drawn by a statement of its own.
DrawNumber(w) ==
  /\ Idle(w) /\ page[w].kind = "add" /\ InOrder(page[w])
  /\ LET c == page[w].class
         oid == fetch_next_sequence(c)
     IN /\ oid <= NumberMax[c]
        /\ seq' = [seq EXCEPT ![c] = oid]
        /\ job' = [job EXCEPT ![w] = [pc |-> "insert", class |-> c, oid |-> oid,
                                      fkey |-> page[w].fkey]]
  /\ UNCHANGED <<table, request, page, chosen>>

\* The INSERT, in which a class without parents has no fkey.
InsertEntry(w) ==
  /\ ~ Idle(w)
  /\ LET c == job[w].class
         e == [oid |-> job[w].oid, fkey |-> IF HasParent(c) THEN job[w].fkey ELSE 0]
     IN /\ \A f \in table[c] : f.oid # e.oid
        /\ table' = [table EXCEPT ![c] = @ \cup {e}]
        /\ page' = [page EXCEPT ![w] = Saved(c, e.fkey)]
  /\ job' = [job EXCEPT ![w] = NoJob]
  /\ UNCHANGED <<seq, request, chosen>>

\* Out of order, or the UPDATE or the nextval failed.
SaveFails(w) ==
  /\ Idle(w) /\ page[w].kind \in {"edit", "add"}
  /\ page' = [page EXCEPT ![w] = Failed(@.class)]
  /\ UNCHANGED <<table, seq, request, job, chosen>>

\* A name that is taken or has a quote, or a connection that is lost.  The number
\* stays drawn.
InsertFails(w) ==
  /\ ~ Idle(w)
  /\ page' = [page EXCEPT ![w] = Failed(job[w].class)]
  /\ job' = [job EXCEPT ![w] = NoJob]
  /\ UNCHANGED <<table, seq, request, chosen>>

\* The browser keeps the form, which may be saved again.
HandlerDies(w) ==
  /\ ~ Idle(w)
  /\ job' = [job EXCEPT ![w] = NoJob]
  /\ UNCHANGED <<table, seq, request, page, chosen>>

-----------------------------------------------------------------------------
(* The pages of a request.  Its two lists of revisions, for comp_rev and   *)
(* fixed_in_comp_rev, are one here: both come from the form's component.   *)

Revisions(component) == db_fetch_list("CL_COMP_REV", component)

ShowRevisions(w, kind, component) ==
  /\ "CL_COMP_REV" \in Class
  /\ page' = [page EXCEPT ![w] = IF Revisions(component) = {} THEN MainMenu
                                 ELSE RequestForm(kind, component, Revisions(component))]
  /\ UNCHANGED <<table, seq, request, job, chosen>>

Revised(component, comp_rev, fixed_in) ==
  [component |-> component, comp_rev |-> comp_rev, fixed_in |-> fixed_in]

\* A component selected on page 1.
h_sh_new_request_page2(w) ==
  /\ Idle(w)
  /\ \E component \in Parent : ShowRevisions(w, "page2", component)

\* The revision selected on page 2 becomes a hidden field.
h_sh_new_request_page3(w) ==
  /\ Idle(w) /\ page[w].kind = "page2"
  /\ \E rev \in page[w].list :
       page' = [page EXCEPT ![w] = RequestForm("page3", @.component, {rev})]
  /\ UNCHANGED <<table, seq, request, job, chosen>>

\* fixed_in_comp_rev_oid is the column's default.
h_ph_save_new_request(w) ==
  /\ Idle(w) /\ page[w].kind = "page3"
  /\ request = {}
  /\ \E rev \in page[w].list :
       request' = {Revised(page[w].component, rev, Unspecified)}
  /\ page' = [page EXCEPT ![w] = MainMenu]
  /\ UNCHANGED <<table, seq, job, chosen>>

\* Opening the request.
h_sh_request(w) ==
  /\ Idle(w)
  /\ \E record \in request : ShowRevisions(w, "request", record.component)

\* Selecting another component submits the form at once (onchange); the answer
\* shows the component sent and not the one that is stored.
Reprocess(w) ==
  /\ Idle(w) /\ page[w].kind = "request"
  /\ \E component \in Parent : ShowRevisions(w, "request", component)

\* One UPDATE with all that the form has.
h_ph_save_request(w) ==
  /\ Idle(w) /\ page[w].kind = "request"
  /\ \E comp_rev, fixed_in \in page[w].list :
       request' = {Revised(page[w].component, comp_rev, fixed_in)}
  /\ page' = [page EXCEPT ![w] = MainMenu]
  /\ UNCHANGED <<table, seq, job, chosen>>

-----------------------------------------------------------------------------
AdminStep(w) ==
  \/ \E c \in Class : SelectPage(w, c)
  \/ h_sh_add_or_edit(w)
  \/ h_sh_add_lookup(w)
  \/ h_sh_edit_lookup(w)
  \/ UpdateEntry(w)
  \/ DrawNumber(w)
  \/ InsertEntry(w)
  \/ SaveFails(w)
  \/ InsertFails(w)
  \/ HandlerDies(w)

RequestStep(w) ==
  \/ h_sh_new_request_page2(w)
  \/ h_sh_new_request_page3(w)
  \/ h_ph_save_new_request(w)
  \/ h_sh_request(w)
  \/ Reprocess(w)
  \/ h_ph_save_request(w)

Next == \E w \in Window : AdminStep(w) \/ RequestStep(w)

Spec == Init /\ [][Next]_vars

-----------------------------------------------------------------------------
(* Properties.                                                             *)

\* The revisions a request names are of its component, or of all: those of a
\* form are listed for the component it is saved with, and nobody moves them to
\* another component in between (form_request.c, db_fetch_list, update_comp_rev).
RevisionsFit ==
  \A record \in request :
    {record.comp_rev, record.fixed_in} \subseteq Revisions(record.component)

\* A number that is drawn and not yet inserted is no entry's and no other
\* handler's, however many windows add to one table (fetch_next_sequence).
NumbersAreNew ==
  \A w \in Window : ~ Idle(w) =>
    /\ \A e \in table[job[w].class] : e.oid # job[w].oid
    /\ \A v \in Window \ {w} :
         ~ Idle(v) /\ job[v].class = job[w].class => job[v].oid # job[w].oid

\* A new entry belongs to the parent selected last in the window that adds it:
\* oid and fkey change their meaning from page to page and none confuses them
\* (h_sh_add_or_edit, h_sh_add_lookup, h_sh_edit_lookup, h_ph_value_key).
AddedUnderChosen ==
  [][\A c \in Class :
       \A e \in table'[c] :
         HasParent(c) /\ (\A f \in table[c] : f.oid # e.oid)
           => \E w \in Window : ~ Idle(w) /\ job[w].oid = e.oid /\ e.fkey = chosen[w]]_vars

\* "This function offers a lookup selection of items that may be renamed"
\* (form_admin.c:124-125): an edit changes the name of an entry, not its parent.
EditOnlyRenames ==
  [][\A c \in Class : table[c] \subseteq table'[c]]_vars
===============================================================================
