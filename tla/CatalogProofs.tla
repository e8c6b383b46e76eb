---------------------------- MODULE CatalogProofs ----------------------------
(***************************************************************************)
(* Theorems about Catalog, for any windows, any of the classes, any number *)
(* of parents and any bounds on the sequences.                             *)
(***************************************************************************)
EXTENDS Catalog, FiniteSetTheorems, TLAPS

-----------------------------------------------------------------------------
(* Where the pages carry the parent.                                       *)

\* The fields of a page in a window whose last selection was parent.
InPlace(p, parent) ==
  /\ p.kind = "select" => p.fkey = 0 /\ p.list \subseteq Parent \cup {0}
  /\ p.kind = "menu" => p.fkey = 0 /\ (HasParent(p.class) => p.oid \in {0, parent})
  /\ p.kind \in {"add", "edit", "message"} =>
       p.oid = 0 /\ (HasParent(p.class) => p.fkey \in {0, parent})
  /\ p.kind \in {"add", "edit"} /\ HasParent(p.class) => p.fkey # 0

PagesInPlace == \A w \in Window : InPlace(page[w], chosen[w])

JobsInPlace ==
  \A w \in Window : ~ Idle(w) /\ HasParent(job[w].class) => job[w].fkey = chosen[w] /\ chosen[w] # 0

AdminInv == TypeOK /\ PagesInPlace /\ JobsInPlace

LEMMA ParentCount ==
  /\ Cardinality(Parent) \in Nat
  /\ Cardinality(Parent) >= 1
  /\ Cardinality(Parent) \in Parent
  /\ 0 \notin Parent
<1>1. Cardinality(Parent) \in Nat
  BY CatalogAssumption, FS_CardinalityType
<1>2. QED
  BY <1>1, CatalogAssumption DEF Unspecified

LEMMA Numbers ==
  /\ 0 \in Number
  /\ Number \subseteq Nat
  /\ Parent \subseteq Number \ {0}
  /\ \A c \in Class : NumberMax[c] \in Nat
  /\ \A c \in Class : \A n \in Nat : n <= NumberMax[c] => n \in Number
<1>1. \A c \in Class : NumberMax[c] \in Nat /\ Parent \subseteq 1 .. NumberMax[c]
  BY CatalogAssumption
<1>2. \A c \in Class : \A n \in Nat : n <= NumberMax[c] => n \in Number
  BY <1>1 DEF Number
<1>3. PICK c \in Class : TRUE
  BY CatalogAssumption
<1>4. Number \subseteq Nat
  BY <1>1 DEF Number
<1>5. 0 \in Number
  BY <1>1, <1>2, <1>3
<1>6. Parent \subseteq Number \ {0}
  BY <1>1, <1>2, <1>3
<1>7. QED
  BY <1>1, <1>2, <1>4, <1>5, <1>6

LEMMA AdminInit == Init => AdminInv
<1> SUFFICES ASSUME Init PROVE AdminInv
  OBVIOUS
<1> USE Numbers, ParentCount DEF Init
<1>1. \A c \in Class : Cardinality(Parent) \in Number
  OBVIOUS
<1>2. \A c \in Class : table[c] \subseteq Entry(c)
  BY DEF Entry
<1>3. \A w \in Window : Idle(w) /\ PageOK(page[w]) /\ InPlace(page[w], chosen[w])
  BY DEF Idle, PageOK, InPlace, MainMenu
<1>4. TypeOK
  BY <1>1, <1>2, <1>3 DEF TypeOK, Idle
<1>5. QED
  BY <1>3, <1>4 DEF AdminInv, PagesInPlace, JobsInPlace

\* A step that changes one page and no job.
LEMMA PageChange ==
  ASSUME AdminInv, NEW w \in Window, NEW p,
         PageOK(p), InPlace(p, chosen'[w]),
         page' = [page EXCEPT ![w] = p],
         Idle(w), job' = job,
         \A v \in Window \ {w} : chosen'[v] = chosen[v],
         DOMAIN table' = Class, \A c \in Class : table'[c] \subseteq Entry(c),
         seq' \in [Class -> Number], request' \subseteq Request,
         chosen' \in [Window -> Parent \cup {0}]
  PROVE  AdminInv'
<1> USE DEF AdminInv, TypeOK
<1>1. \A v \in Window : PageOK(page'[v]) /\ InPlace(page'[v], chosen'[v])
  BY DEF PagesInPlace
<1>2. TypeOK'
  BY <1>1 DEF JobOK
<1>3. JobsInPlace'
  BY DEF JobsInPlace, Idle
<1>4. QED
  BY <1>1, <1>2, <1>3 DEF PagesInPlace

\* The same for a step of which only the page, at most, is seen here.
LEMMA OnlyPage ==
  ASSUME AdminInv, NEW w \in Window, NEW p,
         PageOK(p), InPlace(p, chosen[w]),
         page' = [page EXCEPT ![w] = p],
         Idle(w), UNCHANGED <<table, seq, job, chosen>>, request' \subseteq Request
  PROVE  AdminInv'
BY PageChange DEF AdminInv, TypeOK

LEMMA MainMenuOK == PageOK(MainMenu) /\ \A parent : InPlace(MainMenu, parent)
BY DEF PageOK, InPlace, MainMenu

LEMMA ListsOfNumbers ==
  ASSUME TypeOK, NEW c \in Class, NEW oid
  PROVE  db_fetch_list(c, oid) \subseteq Number \ {0}
BY DEF TypeOK, db_fetch_list, Entry

LEMMA NoListWithoutParent ==
  ASSUME NEW c \in Class, HasParent(c)
  PROVE  db_fetch_list(c, 0) = {}
BY DEF db_fetch_list

\* What the pages of the administrator send.
LEMMA SentFields ==
  ASSUME AdminInv, NEW w \in Window, NEW sent \in Sent(page[w]),
         page[w].kind \in {"select", "add", "edit", "message"}
  PROVE  /\ page[w].class \in Class
         /\ sent.fkey = page[w].fkey
         /\ sent.oid \in Number /\ sent.fkey \in Carried(page[w].class)
         /\ page[w].kind = "select" => sent.fkey = 0 /\ sent.oid \in Parent \cup {0}
         /\ page[w].kind \in {"add", "message"} => sent.oid = 0
<1>1. PageOK(page[w]) /\ InPlace(page[w], chosen[w])
  BY DEF AdminInv, TypeOK, PagesInPlace
<1>2. page[w].class \in Class /\ {page[w].oid, page[w].fkey} \subseteq Carried(page[w].class)
      /\ page[w].list \subseteq Number
  BY <1>1 DEF PageOK, MainMenu
<1>3. Carried(page[w].class) \subseteq Number
  BY Numbers DEF Carried
<1>4. sent.fkey = page[w].fkey
      /\ sent.oid \in IF page[w].kind \in {"select", "edit"} THEN page[w].list ELSE {page[w].oid}
  BY DEF Sent
<1>5. QED
  BY <1>1, <1>2, <1>3, <1>4 DEF InPlace

LEMMA MenuStep ==
  ASSUME AdminInv, NEW w \in Window, h_sh_add_or_edit(w)
  PROVE  AdminInv'
<1> DEFINE c == page[w].class
<1>1. PICK sent \in Sent(page[w]) :
        /\ page' = [page EXCEPT ![w] = Page("menu", c, MenuOid(sent), 0, {})]
        /\ chosen' = IF page[w].kind = "select" THEN [chosen EXCEPT ![w] = sent.oid] ELSE chosen
  BY DEF h_sh_add_or_edit
<1>2. PageOK(page[w]) /\ InPlace(page[w], chosen[w])
  BY DEF AdminInv, TypeOK, PagesInPlace
<1>3. page[w].kind \in {"select", "add", "edit", "message"}
  BY DEF h_sh_add_or_edit
<1>4. /\ c \in Class
      /\ sent.fkey = page[w].fkey
      /\ sent.oid \in Number /\ sent.fkey \in Carried(c)
      /\ page[w].kind = "select" => sent.fkey = 0 /\ sent.oid \in Parent \cup {0}
      /\ page[w].kind \in {"add", "message"} => sent.oid = 0
  BY <1>3, SentFields
<1>5. MenuOid(sent) \in Carried(c) /\ 0 \in Carried(c)
  <2>1. CASE HasParent(c)
    BY <1>2, <1>3, <1>4, <2>1 DEF MenuOid, Carried, InPlace
  <2>2. CASE ~ HasParent(c)
    BY <1>4, <2>2, Numbers DEF MenuOid, Carried
  <2>3. QED
    BY <2>1, <2>2
<1>6. PageOK(Page("menu", c, MenuOid(sent), 0, {}))
  BY <1>4, <1>5 DEF PageOK, Page
<1>7. chosen' \in [Window -> Parent \cup {0}] /\ \A v \in Window \ {w} : chosen'[v] = chosen[v]
  <2>1. chosen \in [Window -> Parent \cup {0}]
    BY DEF AdminInv, TypeOK
  <2>2. page[w].kind = "select" => sent.oid \in Parent \cup {0}
    BY <1>2, <1>4, Numbers DEF Carried
  <2>3. QED
    BY <1>1, <2>1, <2>2
<1>8. HasParent(c) => MenuOid(sent) \in {0, chosen'[w]}
  <2>1. CASE page[w].kind = "select"
    BY <1>1, <1>4, <2>1 DEF MenuOid, AdminInv, TypeOK
  <2>2. CASE page[w].kind # "select"
    BY <1>1, <1>2, <1>3, <1>4, <2>2 DEF MenuOid, InPlace
  <2>3. QED
    BY <2>1, <2>2
<1>9. InPlace(Page("menu", c, MenuOid(sent), 0, {}), chosen'[w])
  BY <1>8 DEF InPlace, Page
<1>10. Idle(w) /\ UNCHANGED <<table, seq, request, job>>
  BY DEF h_sh_add_or_edit
<1>11. QED
  BY <1>1, <1>6, <1>7, <1>9, <1>10, PageChange DEF AdminInv, TypeOK

\* Selecting, and the pages a menu leads to.
LEMMA FormStep ==
  ASSUME AdminInv, NEW w \in Window,
         \/ \E c \in Class : SelectPage(w, c)
         \/ h_sh_add_lookup(w)
         \/ h_sh_edit_lookup(w)
  PROVE  AdminInv'
<1>1. PageOK(page[w]) /\ InPlace(page[w], chosen[w]) /\ request \subseteq Request
  BY DEF AdminInv, TypeOK, PagesInPlace
<1>2. ASSUME NEW c \in Class, SelectPage(w, c) PROVE AdminInv'
  <2> DEFINE p == Page("select", c, 0, 0, IF HasParent(c) THEN Parent ELSE {0})
  <2>1. PageOK(p) /\ InPlace(p, chosen[w])
    BY <1>2, Numbers DEF PageOK, InPlace, Page, Carried
  <2>2. QED
    BY <1>1, <1>2, <2>1, OnlyPage DEF SelectPage
<1>3. ASSUME page[w].kind = "menu", NEW kind \in {"add", "edit"}, NEW list \in SUBSET Number,
             HasParent(page[w].class) => page[w].oid # 0
      PROVE  LET p == Page(kind, page[w].class, 0, page[w].oid, list)
             IN  PageOK(p) /\ InPlace(p, chosen[w])
  <2>1. page[w].class \in Class /\ page[w].oid \in Carried(page[w].class)
    BY <1>1, <1>3 DEF PageOK, MainMenu
  <2>2. 0 \in Carried(page[w].class)
    BY Numbers DEF Carried
  <2>3. PageOK(Page(kind, page[w].class, 0, page[w].oid, list))
    BY <1>3, <2>1, <2>2 DEF PageOK, Page
  <2>4. InPlace(Page(kind, page[w].class, 0, page[w].oid, list), chosen[w])
    BY <1>1, <1>3 DEF InPlace, Page
  <2>5. QED
    BY <2>3, <2>4
<1>4. ASSUME page[w].kind = "menu"
      PROVE  LET list == db_fetch_list(page[w].class, page[w].oid) IN
               /\ list \subseteq Number
               /\ list # {} => (HasParent(page[w].class) => page[w].oid # 0)
  <2>1. page[w].class \in Class
    BY <1>1, <1>4 DEF PageOK, MainMenu
  <2>2. QED
    BY <2>1, ListsOfNumbers, NoListWithoutParent DEF AdminInv
<1>5. CASE h_sh_add_lookup(w)
  <2> DEFINE p == IF db_fetch_list(page[w].class, page[w].oid) = {} THEN MainMenu
                  ELSE Page("add", page[w].class, 0, page[w].oid, {})
  <2>1. Idle(w) /\ page[w].kind = "menu" /\ page' = [page EXCEPT ![w] = p]
        /\ UNCHANGED <<table, seq, request, job, chosen>>
    BY <1>5 DEF h_sh_add_lookup
  <2>2. PageOK(p) /\ InPlace(p, chosen[w])
    BY <1>3, <1>4, <2>1, MainMenuOK
  <2>3. QED
    BY <1>1, <2>1, <2>2, OnlyPage
<1>6. CASE h_sh_edit_lookup(w)
  <2> DEFINE list == db_fetch_list(page[w].class, page[w].oid)
             p == IF list = {} THEN MainMenu
                  ELSE Page("edit", page[w].class, 0, page[w].oid, list)
  <2>1. Idle(w) /\ page[w].kind = "menu" /\ page' = [page EXCEPT ![w] = p]
        /\ UNCHANGED <<table, seq, request, job, chosen>>
    BY <1>6 DEF h_sh_edit_lookup
  <2>2. PageOK(p) /\ InPlace(p, chosen[w])
    BY <1>3, <1>4, <2>1, MainMenuOK
  <2>3. QED
    BY <1>1, <2>1, <2>2, OnlyPage
<1>7. QED
  BY <1>2, <1>5, <1>6

LEMMA MessagesOK ==
  ASSUME NEW c \in Class
  PROVE  /\ PageOK(Failed(c)) /\ \A parent : InPlace(Failed(c), parent)
         /\ \A fkey \in Carried(c) : \A parent :
              (HasParent(c) => fkey \in {0, parent})
                => PageOK(Saved(c, fkey)) /\ InPlace(Saved(c, fkey), parent)
<1>1. 0 \in Carried(c)
  BY Numbers DEF Carried
<1>2. QED
  BY <1>1 DEF PageOK, InPlace, Failed, Saved, Page

\* An entry that is updated keeps its number, and belongs to somebody if it did.
LEMMA UpdatedEntry ==
  ASSUME NEW c \in Class, NEW e \in Entry(c), NEW sent,
         HasParent(c) => sent.fkey \in Parent
  PROVE  /\ Updated(c, e, sent) \in Entry(c)
         /\ Updated(c, e, sent).oid = e.oid
         /\ c # "CL_PAM" => Updated(c, e, sent) = e
BY DEF Updated, UpdatedParent, Entry, HasParent

\* What a handler that is saving works with.
LEMMA Inserting ==
  ASSUME AdminInv, NEW w \in Window, ~ Idle(w)
  PROVE  /\ JobOK(job[w])
         /\ job[w].class \in Class /\ job[w].oid \in Number \ {0}
         /\ HasParent(job[w].class) => job[w].fkey \in Parent /\ job[w].fkey = chosen[w]
<1>1. JobOK(job[w]) /\ chosen[w] \in Parent \cup {0}
  BY DEF AdminInv, TypeOK, Idle
<1>2. QED
  BY <1>1 DEF AdminInv, JobsInPlace, JobOK

LEMMA UpdateStep ==
  ASSUME AdminInv, NEW w \in Window, UpdateEntry(w)
  PROVE  AdminInv'
<1> DEFINE c == page[w].class
<1>1. PICK sent \in Sent(page[w]) :
        /\ table' = [table EXCEPT ![c] = {Updated(c, e, sent) : e \in @}]
        /\ page' = [page EXCEPT ![w] = Saved(c, sent.fkey)]
  BY DEF UpdateEntry
<1>2. Idle(w) /\ page[w].kind = "edit" /\ InOrder(page[w])
      /\ UNCHANGED <<seq, request, job, chosen>>
  BY DEF UpdateEntry
<1>3. InPlace(page[w], chosen[w])
  BY DEF AdminInv, PagesInPlace
<1>4. c \in Class /\ sent.fkey = page[w].fkey /\ sent.fkey \in Carried(c)
  BY <1>2, SentFields
<1>5. HasParent(c) => sent.fkey \in Parent /\ sent.fkey \in {0, chosen[w]}
  BY <1>2, <1>3, <1>4 DEF InOrder, Carried, InPlace
<1>6. \A e \in table[c] : Updated(c, e, sent) \in Entry(c)
  BY <1>4, <1>5, UpdatedEntry DEF AdminInv, TypeOK
<1>7. DOMAIN table' = Class /\ \A d \in Class : table'[d] \subseteq Entry(d)
  BY <1>1, <1>4, <1>6 DEF AdminInv, TypeOK
<1>8. PageOK(Saved(c, sent.fkey)) /\ InPlace(Saved(c, sent.fkey), chosen[w])
  BY <1>4, <1>5, MessagesOK
<1>9. QED
  BY <1>1, <1>2, <1>7, <1>8, PageChange DEF AdminInv, TypeOK

LEMMA DrawStep ==
  ASSUME AdminInv, NEW w \in Window, DrawNumber(w)
  PROVE  AdminInv'
<1> DEFINE c == page[w].class
           oid == seq[c] + 1
           j == [pc |-> "insert", class |-> c, oid |-> oid, fkey |-> page[w].fkey]
<1>1. /\ Idle(w) /\ page[w].kind = "add" /\ InOrder(page[w])
      /\ oid <= NumberMax[c]
      /\ seq' = [seq EXCEPT ![c] = oid]
      /\ job' = [job EXCEPT ![w] = j]
      /\ UNCHANGED <<table, request, page, chosen>>
  BY DEF DrawNumber, fetch_next_sequence
<1>2. PageOK(page[w]) /\ InPlace(page[w], chosen[w])
  BY DEF AdminInv, TypeOK, PagesInPlace
<1>3. c \in Class /\ page[w].fkey \in Carried(c)
  BY <1>1, <1>2 DEF PageOK, MainMenu
<1>4. oid \in Number \ {0}
  <2>1. seq[c] \in Nat
    BY <1>3, Numbers DEF AdminInv, TypeOK
  <2>2. QED
    BY <1>1, <1>3, <2>1, Numbers
<1>5. page[w].fkey \in Number
  BY <1>3, Numbers DEF Carried
<1>6. JobOK(j)
  BY <1>3, <1>4, <1>5 DEF JobOK
<1>7. HasParent(c) => page[w].fkey = chosen[w] /\ chosen[w] # 0
  BY <1>1, <1>2 DEF InOrder, InPlace
<1>8. TypeOK'
  BY <1>1, <1>3, <1>4, <1>6 DEF AdminInv, TypeOK, PageOK
<1>9. \A v \in Window \ {w} : job'[v] = job[v]
  BY <1>1 DEF AdminInv, TypeOK
<1>10. job'[w] = j
  BY <1>1 DEF AdminInv, TypeOK
<1>11. JobsInPlace'
  BY <1>1, <1>7, <1>9, <1>10 DEF AdminInv, JobsInPlace, Idle
<1>12. PagesInPlace'
  BY <1>1 DEF AdminInv, PagesInPlace, InPlace
<1>13. QED
  BY <1>8, <1>11, <1>12 DEF AdminInv

\* The end of a handler, with a message or without.
LEMMA JobEnds ==
  ASSUME AdminInv, NEW w \in Window, NEW p,
         PageOK(p), InPlace(p, chosen[w]),
         page' = [page EXCEPT ![w] = p],
         job' = [job EXCEPT ![w] = NoJob],
         DOMAIN table' = Class, \A c \in Class : table'[c] \subseteq Entry(c),
         UNCHANGED <<seq, request, chosen>>
  PROVE  AdminInv'
<1> USE DEF AdminInv, TypeOK
<1>1. \A v \in Window : PageOK(page'[v]) /\ InPlace(page'[v], chosen[v])
  BY DEF PagesInPlace
<1>2. job'[w] = NoJob /\ \A v \in Window \ {w} : job'[v] = job[v]
  OBVIOUS
<1>3. TypeOK'
  BY <1>1, <1>2 DEF JobOK
<1>4. JobsInPlace'
  BY <1>2 DEF JobsInPlace, Idle
<1>5. QED
  BY <1>1, <1>3, <1>4 DEF PagesInPlace

LEMMA InsertStep ==
  ASSUME AdminInv, NEW w \in Window, InsertEntry(w)
  PROVE  AdminInv'
<1> DEFINE c == job[w].class
           fkey == IF HasParent(c) THEN job[w].fkey ELSE 0
           e == [oid |-> job[w].oid, fkey |-> fkey]
<1>1. /\ ~ Idle(w)
      /\ table' = [table EXCEPT ![c] = @ \cup {e}]
      /\ page' = [page EXCEPT ![w] = Saved(c, fkey)]
      /\ job' = [job EXCEPT ![w] = NoJob]
      /\ UNCHANGED <<seq, request, chosen>>
  BY DEF InsertEntry
<1>2. /\ c \in Class /\ job[w].oid \in Number \ {0}
      /\ HasParent(c) => job[w].fkey \in Parent /\ job[w].fkey = chosen[w]
  BY <1>1, Inserting
<1>3. e \in Entry(c)
  BY <1>2 DEF Entry
<1>4. DOMAIN table' = Class /\ \A d \in Class : table'[d] \subseteq Entry(d)
  BY <1>1, <1>3 DEF AdminInv, TypeOK
<1>5. fkey \in Carried(c)
  BY <1>2, Numbers DEF Carried
<1>6. PageOK(Saved(c, fkey)) /\ InPlace(Saved(c, fkey), chosen[w])
  BY <1>2, <1>5, MessagesOK
<1>7. QED
  BY <1>1, <1>4, <1>6, JobEnds

LEMMA FailStep ==
  ASSUME AdminInv, NEW w \in Window, SaveFails(w) \/ InsertFails(w) \/ HandlerDies(w)
  PROVE  AdminInv'
<1>1. PageOK(page[w]) /\ InPlace(page[w], chosen[w])
      /\ request \subseteq Request
      /\ DOMAIN table = Class /\ \A c \in Class : table[c] \subseteq Entry(c)
  BY DEF AdminInv, TypeOK, PagesInPlace
<1>2. CASE SaveFails(w)
  <2>1. page[w].class \in Class
    BY <1>1, <1>2 DEF SaveFails, PageOK, MainMenu
  <2>2. PageOK(Failed(page[w].class)) /\ InPlace(Failed(page[w].class), chosen[w])
    BY <2>1, MessagesOK
  <2>3. QED
    BY <1>1, <1>2, <2>2, OnlyPage DEF SaveFails
<1>3. CASE InsertFails(w)
  <2>1. job[w].class \in Class
    BY <1>3, Inserting DEF InsertFails
  <2>2. PageOK(Failed(job[w].class)) /\ InPlace(Failed(job[w].class), chosen[w])
    BY <2>1, MessagesOK
  <2>3. QED
    BY <1>1, <1>3, <2>2, JobEnds DEF InsertFails
<1>4. CASE HandlerDies(w)
  <2>1. job' = [job EXCEPT ![w] = NoJob] /\ UNCHANGED <<table, seq, request, page, chosen>>
    BY <1>4 DEF HandlerDies
  <2>2. job'[w] = NoJob /\ \A v \in Window \ {w} : job'[v] = job[v]
    BY <2>1 DEF AdminInv, TypeOK
  <2>3. TypeOK'
    BY <2>1, <2>2 DEF AdminInv, TypeOK, PageOK, JobOK
  <2>4. PagesInPlace' /\ JobsInPlace'
    BY <2>1, <2>2 DEF AdminInv, PagesInPlace, InPlace, JobsInPlace, Idle
  <2>5. QED
    BY <2>3, <2>4 DEF AdminInv
<1>5. QED
  BY <1>2, <1>3, <1>4

\* The pages of a request carry no parent.
LEMMA RequestPages ==
  ASSUME NEW kind \in {"page2", "page3", "request"}, NEW component \in Parent,
         NEW revs \in SUBSET (Number \ {0}), NEW parent
  PROVE  PageOK(RequestForm(kind, component, revs)) /\ InPlace(RequestForm(kind, component, revs), parent)
BY DEF PageOK, InPlace, RequestForm

LEMMA RequestInv ==
  ASSUME AdminInv, NEW w \in Window, RequestStep(w)
  PROVE  AdminInv'
<1>1. PageOK(page[w]) /\ request \subseteq Request
  BY DEF AdminInv, TypeOK
<1>2. ASSUME Idle(w), NEW kind \in {"page2", "request"},
             NEW component \in Parent, ShowRevisions(w, kind, component)
      PROVE  AdminInv'
  <2> DEFINE p == IF Revisions(component) = {} THEN MainMenu
                  ELSE RequestForm(kind, component, Revisions(component))
  <2>1. page' = [page EXCEPT ![w] = p] /\ UNCHANGED <<table, seq, request, job, chosen>>
    BY <1>2 DEF ShowRevisions
  <2>2. Revisions(component) \subseteq Number \ {0}
    BY <1>2, ListsOfNumbers DEF AdminInv, Revisions, ShowRevisions
  <2>3. PageOK(p) /\ InPlace(p, chosen[w])
    BY <2>2, RequestPages, MainMenuOK
  <2>4. QED
    BY <1>1, <1>2, <2>1, <2>3, OnlyPage
<1>3. ASSUME page[w].kind \in {"page2", "page3", "request"}
      PROVE  page[w].component \in Parent /\ page[w].list \subseteq Number \ {0}
  BY <1>1, <1>3 DEF PageOK, MainMenu
<1>4. CASE h_sh_new_request_page2(w)
  BY <1>2, <1>4 DEF h_sh_new_request_page2
<1>5. CASE h_sh_new_request_page3(w)
  <2>1. PICK rev \in page[w].list :
          page' = [page EXCEPT ![w] = RequestForm("page3", page[w].component, {rev})]
    BY <1>5 DEF h_sh_new_request_page3
  <2>2. Idle(w) /\ page[w].kind = "page2" /\ UNCHANGED <<table, seq, request, job, chosen>>
    BY <1>5 DEF h_sh_new_request_page3
  <2>3. {rev} \in SUBSET (Number \ {0})
    BY <1>3, <2>1, <2>2
  <2>4. PageOK(RequestForm("page3", page[w].component, {rev}))
        /\ InPlace(RequestForm("page3", page[w].component, {rev}), chosen[w])
    BY <1>3, <2>2, <2>3, RequestPages
  <2>5. QED
    BY <1>1, <2>1, <2>2, <2>4, OnlyPage
<1>6. ASSUME page[w].kind \in {"page3", "request"}, Idle(w),
             NEW comp_rev \in page[w].list, NEW fixed_in \in page[w].list \cup {Unspecified},
             request' = {Revised(page[w].component, comp_rev, fixed_in)},
             page' = [page EXCEPT ![w] = MainMenu], UNCHANGED <<table, seq, job, chosen>>
      PROVE  AdminInv'
  <2>1. Unspecified \in Number \ {0}
    BY Numbers, CatalogAssumption
  <2>2. request' \subseteq Request
    BY <1>3, <1>6, <2>1 DEF Revised, Request
  <2>3. QED
    BY <1>6, <2>2, MainMenuOK, OnlyPage
<1>7. CASE h_ph_save_new_request(w)
  BY <1>6, <1>7 DEF h_ph_save_new_request
<1>8. CASE h_sh_request(w)
  <2>1. PICK record \in request : ShowRevisions(w, "request", record.component)
    BY <1>8 DEF h_sh_request
  <2>2. record.component \in Parent
    BY <1>1 DEF Request
  <2>3. QED
    BY <1>2, <1>8, <2>1, <2>2 DEF h_sh_request
<1>9. CASE Reprocess(w)
  BY <1>2, <1>9 DEF Reprocess
<1>10. CASE h_ph_save_request(w)
  BY <1>6, <1>10 DEF h_ph_save_request
<1>11. QED
  BY <1>4, <1>5, <1>7, <1>8, <1>9, <1>10 DEF RequestStep

LEMMA AdminInvStep == AdminInv /\ [Next]_vars => AdminInv'
<1> SUFFICES ASSUME AdminInv, [Next]_vars PROVE AdminInv'
  OBVIOUS
<1>1. CASE UNCHANGED vars
  BY <1>1 DEF vars, AdminInv, TypeOK, PageOK, JobOK, PagesInPlace, InPlace, JobsInPlace, Idle
<1>2. ASSUME NEW w \in Window, AdminStep(w) PROVE AdminInv'
  BY <1>2, FormStep, MenuStep, UpdateStep, DrawStep, InsertStep, FailStep DEF AdminStep
<1>3. ASSUME NEW w \in Window, RequestStep(w) PROVE AdminInv'
  BY <1>3, RequestInv
<1>4. QED
  BY <1>1, <1>2, <1>3 DEF Next

LEMMA AdminInvariant == Spec => []AdminInv
BY AdminInit, AdminInvStep, PTL DEF Spec

\* Every table, page, handler and request is always one the database and the
\* browser can hold: whatever page an administrator comes from, the parent on a
\* menu is a parent, and a foreign key never dangles.
THEOREM Typing == Spec => []TypeOK
<1>1. AdminInv => TypeOK
  BY DEF AdminInv
<1>2. QED
  BY <1>1, AdminInvariant, PTL

-----------------------------------------------------------------------------
(* New entries go to the parent that was selected.                         *)

\* Only an INSERT brings a number a table did not have.
LEMMA NewNumbers ==
  ASSUME AdminInv, [Next]_vars, NEW c \in Class, NEW e \in table'[c],
         \A f \in table[c] : f.oid # e.oid
  PROVE  \E w \in Window :
           /\ ~ Idle(w) /\ InsertEntry(w) /\ job[w].class = c
           /\ e = [oid |-> job[w].oid, fkey |-> IF HasParent(c) THEN job[w].fkey ELSE 0]
<1>1. table' # table
  OBVIOUS
<1>2. PICK w \in Window : UpdateEntry(w) \/ InsertEntry(w)
  BY <1>1 DEF Next, AdminStep, RequestStep, vars, SelectPage, h_sh_add_or_edit,
       h_sh_add_lookup, h_sh_edit_lookup, DrawNumber, SaveFails, InsertFails, HandlerDies,
       h_sh_new_request_page2, h_sh_new_request_page3, h_ph_save_new_request,
       h_sh_request, Reprocess, h_ph_save_request, ShowRevisions
<1>3. DOMAIN table = Class /\ table[c] \subseteq Entry(c)
  BY DEF AdminInv, TypeOK
<1>4. CASE UpdateEntry(w)
  <2>1. PICK sent :
          table' = [table EXCEPT ![page[w].class] = {Updated(page[w].class, f, sent) : f \in @}]
    BY <1>4 DEF UpdateEntry
  <2>2. page[w].class = c
    BY <1>3, <2>1
  <2>3. PICK f \in table[c] : e = Updated(c, f, sent)
    BY <1>3, <2>1, <2>2
  <2>4. e.oid = f.oid
    BY <1>3, <2>3 DEF Updated, Entry
  <2>5. QED
    BY <2>3, <2>4
<1>5. CASE InsertEntry(w)
  <2> DEFINE n == [oid |-> job[w].oid,
                   fkey |-> IF HasParent(job[w].class) THEN job[w].fkey ELSE 0]
  <2>1. ~ Idle(w) /\ table' = [table EXCEPT ![job[w].class] = @ \cup {n}]
    BY <1>5 DEF InsertEntry
  <2>2. job[w].class = c /\ e = n
    BY <1>3, <2>1
  <2>3. QED
    BY <1>5, <2>1, <2>2
<1>6. QED
  BY <1>2, <1>4, <1>5

\* However a window came to the form it adds from (after a Cancel, an edit, an
\* error), its new entry belongs to the parent it selected last.
THEOREM AddsAreUnderChosen == Spec => AddedUnderChosen
<1> DEFINE Added == \A c \in Class : \A e \in table'[c] :
         HasParent(c) /\ (\A f \in table[c] : f.oid # e.oid)
           => \E w \in Window : ~ Idle(w) /\ job[w].oid = e.oid /\ e.fkey = chosen[w]
<1>1. ASSUME AdminInv, [Next]_vars PROVE Added
  <2> SUFFICES ASSUME NEW c \in Class, NEW e \in table'[c], HasParent(c),
                      \A f \in table[c] : f.oid # e.oid
               PROVE  \E w \in Window : ~ Idle(w) /\ job[w].oid = e.oid /\ e.fkey = chosen[w]
    OBVIOUS
  <2>1. PICK w \in Window :
          /\ ~ Idle(w) /\ job[w].class = c
          /\ e = [oid |-> job[w].oid, fkey |-> IF HasParent(c) THEN job[w].fkey ELSE 0]
    BY <1>1, NewNumbers
  <2>2. job[w].fkey = chosen[w]
    BY <1>1, <2>1, Inserting
  <2>3. QED
    BY <2>1, <2>2
<1>2. QED
  BY <1>1, AdminInvariant, PTL DEF Spec, AddedUnderChosen

-----------------------------------------------------------------------------
(* Numbers are drawn once.                                                 *)

NumbersDrawn ==
  /\ \A c \in Class : \A e \in table[c] : e.oid <= seq[c]
  /\ \A w \in Window : ~ Idle(w) => job[w].oid <= seq[job[w].class]

NumbersInv == NumbersDrawn /\ NumbersAreNew

\* A step draws a number for one window, or draws none and at most ends handlers.
LEMMA JobFate ==
  ASSUME AdminInv, [Next]_vars
  PROVE  \/ \E w \in Window : DrawNumber(w)
         \/ seq' = seq /\ \A w \in Window : job'[w] \in {job[w], NoJob}
<1>1. CASE UNCHANGED vars
  BY <1>1 DEF vars
<1>2. ASSUME NEW w \in Window, InsertEntry(w) \/ InsertFails(w) \/ HandlerDies(w)
      PROVE  seq' = seq /\ \A v \in Window : job'[v] \in {job[v], NoJob}
  BY <1>2 DEF InsertEntry, InsertFails, HandlerDies, AdminInv, TypeOK
<1>3. ASSUME NEW w \in Window, AdminStep(w), ~ DrawNumber(w),
             ~ (InsertEntry(w) \/ InsertFails(w) \/ HandlerDies(w))
      PROVE  seq' = seq /\ job' = job
  BY <1>3 DEF AdminStep, SelectPage, h_sh_add_or_edit, h_sh_add_lookup, h_sh_edit_lookup,
       UpdateEntry, SaveFails
<1>4. ASSUME NEW w \in Window, RequestStep(w) PROVE seq' = seq /\ job' = job
  BY <1>4 DEF RequestStep, h_sh_new_request_page2, h_sh_new_request_page3,
       h_ph_save_new_request, h_sh_request, Reprocess, h_ph_save_request, ShowRevisions
<1>5. QED
  BY <1>1, <1>2, <1>3, <1>4 DEF Next

\* What drawing does, in numbers.
LEMMA Drawn ==
  ASSUME AdminInv, NEW w \in Window, DrawNumber(w)
  PROVE  LET c == page[w].class IN
           /\ c \in Class /\ seq[c] \in Nat
           /\ seq'[c] = seq[c] + 1 /\ \A d \in Class \ {c} : seq'[d] = seq[d]
           /\ job'[w].class = c /\ job'[w].oid = seq[c] + 1
           /\ \A v \in Window \ {w} : job'[v] = job[v]
           /\ table' = table
<1>1. page[w].class \in Class
  BY DEF DrawNumber, AdminInv, TypeOK, PageOK, MainMenu
<1>2. seq[page[w].class] \in Nat
  BY <1>1, Numbers DEF AdminInv, TypeOK
<1>3. QED
  BY <1>1, <1>2 DEF DrawNumber, fetch_next_sequence, AdminInv, TypeOK

LEMMA NumberTypes ==
  ASSUME AdminInv
  PROVE  /\ \A c \in Class : seq[c] \in Nat /\ \A e \in table[c] : e.oid \in Nat
         /\ \A w \in Window : ~ Idle(w) => job[w].class \in Class /\ job[w].oid \in Nat
<1>1. \A c \in Class : seq[c] \in Nat /\ \A e \in table[c] : e.oid \in Nat
  BY Numbers DEF AdminInv, TypeOK, Entry
<1>2. \A w \in Window : ~ Idle(w) => job[w].class \in Class /\ job[w].oid \in Nat
  BY Inserting, Numbers
<1>3. QED
  BY <1>1, <1>2

LEMMA NumbersStep == AdminInv /\ NumbersInv /\ [Next]_vars => NumbersInv'
<1> SUFFICES ASSUME AdminInv, NumbersInv, [Next]_vars PROVE NumbersInv'
  OBVIOUS
<1>0. AdminInv'
  BY AdminInvStep
<1>1. CASE \E w \in Window : DrawNumber(w)
  <2>1. PICK w \in Window : DrawNumber(w)
    BY <1>1
  <2> DEFINE c == page[w].class
  <2>2. /\ c \in Class /\ seq[c] \in Nat
        /\ seq'[c] = seq[c] + 1 /\ \A d \in Class \ {c} : seq'[d] = seq[d]
        /\ job'[w].class = c /\ job'[w].oid = seq[c] + 1
        /\ \A v \in Window \ {w} : job'[v] = job[v]
        /\ table' = table
    BY <2>1, Drawn
  <2>3. \A d \in Class : seq[d] <= seq'[d]
    BY <2>2, NumberTypes
  <2>4. \A d \in Class : \A e \in table'[d] : e.oid <= seq'[d]
    BY <2>2, <2>3, NumberTypes, <1>0 DEF NumbersInv, NumbersDrawn
  <2>5. \A v \in Window \ {w} : Idle(v)' <=> Idle(v)
    BY <2>2 DEF Idle
  <2>6. \A v \in Window \ {w} : ~ Idle(v) => job[v].class \in Class /\ job[v].oid \in Nat
                                           /\ job[v].oid <= seq[job[v].class]
    BY NumberTypes DEF NumbersInv, NumbersDrawn
  <2>7. ASSUME NEW v \in Window, ~ Idle(v)' PROVE job'[v].oid <= seq'[job'[v].class]
    <3>1. CASE v = w
      BY <2>2, <3>1
    <3>2. CASE v # w
      <4>1. job[v].class \in Class /\ job[v].oid <= seq[job[v].class] /\ job'[v] = job[v]
        BY <2>2, <2>5, <2>6, <2>7, <3>2
      <4>2. seq[job[v].class] \in Nat /\ seq'[job[v].class] \in Nat /\ job[v].oid \in Nat
        BY <2>2, <2>5, <2>6, <2>7, <3>2, <4>1, NumberTypes
      <4>3. QED
        BY <2>3, <4>1, <4>2
    <3>3. QED
      BY <3>1, <3>2
  <2>8. ASSUME NEW v \in Window, ~ Idle(v)'
        PROVE  /\ \A e \in table'[job'[v].class] : e.oid # job'[v].oid
               /\ \A u \in Window \ {v} :
                    ~ Idle(u)' /\ job'[u].class = job'[v].class => job'[u].oid # job'[v].oid
    <3>1. CASE v = w
      <4>1. \A e \in table'[c] : e.oid # seq[c] + 1
        BY <2>2, NumberTypes DEF NumbersInv, NumbersDrawn
      <4>2. \A u \in Window \ {w} : ~ Idle(u)' /\ job'[u].class = c => job'[u].oid # seq[c] + 1
        BY <2>2, <2>5, <2>6
      <4>3. QED
        BY <2>2, <3>1, <4>1, <4>2
    <3>2. CASE v # w
      <4>1. ~ Idle(v) /\ job'[v] = job[v]
        BY <2>2, <2>5, <2>8, <3>2
      <4>2. \A e \in table'[job'[v].class] : e.oid # job'[v].oid
        BY <2>2, <4>1 DEF NumbersInv, NumbersAreNew
      <4>3. ASSUME job'[v].class = c PROVE job'[v].oid # seq[c] + 1
        BY <2>2, <2>6, <3>2, <4>1, <4>3
      <4>4. ASSUME NEW u \in Window \ {v}, ~ Idle(u)', job'[u].class = job'[v].class
            PROVE  job'[u].oid # job'[v].oid
        <5>1. CASE u = w
          BY <2>2, <4>3, <4>4, <5>1
        <5>2. CASE u # w
          BY <2>2, <2>5, <4>1, <4>4, <5>2 DEF NumbersInv, NumbersAreNew
        <5>3. QED
          BY <5>1, <5>2
      <4>5. QED
        BY <4>2, <4>4
    <3>3. QED
      BY <3>1, <3>2
  <2>9. NumbersDrawn'
    BY <2>4, <2>7 DEF NumbersDrawn
  <2>10. NumbersAreNew'
    BY <2>8 DEF NumbersAreNew
  <2>11. QED
    BY <2>9, <2>10 DEF NumbersInv
<1>2. CASE seq' = seq /\ \A w \in Window : job'[w] \in {job[w], NoJob}
  <2>1. \A w \in Window : ~ Idle(w)' => ~ Idle(w) /\ job'[w] = job[w]
    BY <1>2 DEF Idle
  <2>2. ASSUME NEW c \in Class, NEW e \in table'[c]
        PROVE  \/ \E f \in table[c] : f.oid = e.oid
               \/ \E w \in Window : ~ Idle(w) /\ Idle(w)' /\ job[w].class = c /\ job[w].oid = e.oid
    <3>1. SUFFICES ASSUME \A f \in table[c] : f.oid # e.oid
                   PROVE  \E w \in Window : ~ Idle(w) /\ Idle(w)' /\ job[w].class = c
                                              /\ job[w].oid = e.oid
      OBVIOUS
    <3>2. PICK w \in Window : ~ Idle(w) /\ InsertEntry(w) /\ job[w].class = c /\ job[w].oid = e.oid
      BY <2>2, <3>1, NewNumbers
    <3>3. Idle(w)'
      BY <3>2 DEF InsertEntry, Idle, AdminInv, TypeOK
    <3>4. QED
      BY <3>2, <3>3
  <2>3. \A c \in Class : \A e \in table'[c] : e.oid <= seq'[c]
    BY <1>2, <2>2 DEF NumbersInv, NumbersDrawn
  <2>4. \A w \in Window : ~ Idle(w)' => job'[w].oid <= seq'[job'[w].class]
    BY <1>2, <2>1 DEF NumbersInv, NumbersDrawn
  <2>5. ASSUME NEW w \in Window, ~ Idle(w)', NEW e \in table'[job'[w].class]
        PROVE  e.oid # job'[w].oid
    <3>1. ~ Idle(w) /\ job'[w] = job[w] /\ job[w].class \in Class
      BY <2>1, <2>5, NumberTypes
    <3>2. CASE \E f \in table[job[w].class] : f.oid = e.oid
      BY <3>1, <3>2 DEF NumbersInv, NumbersAreNew
    <3>3. CASE \E v \in Window : ~ Idle(v) /\ Idle(v)' /\ job[v].class = job[w].class
                                   /\ job[v].oid = e.oid
      BY <2>5, <3>1, <3>3 DEF NumbersInv, NumbersAreNew
    <3>4. QED
      BY <2>2, <2>5, <3>1, <3>2, <3>3
  <2>6. ASSUME NEW w \in Window, ~ Idle(w)', NEW v \in Window \ {w}, ~ Idle(v)',
               job'[v].class = job'[w].class
        PROVE  job'[v].oid # job'[w].oid
    BY <2>1, <2>6 DEF NumbersInv, NumbersAreNew
  <2>7. NumbersDrawn'
    BY <2>3, <2>4 DEF NumbersDrawn
  <2>8. NumbersAreNew'
    BY <2>5, <2>6 DEF NumbersAreNew
  <2>9. QED
    BY <2>7, <2>8 DEF NumbersInv
<1>3. QED
  BY <1>1, <1>2, JobFate

LEMMA NumbersInit == Init => NumbersInv
<1> SUFFICES ASSUME Init PROVE NumbersInv
  OBVIOUS
<1>1. \A p \in Parent : p <= Cardinality(Parent)
  BY CatalogAssumption, ParentCount
<1>2. \A c \in Class : \A e \in table[c] : e.oid <= seq[c]
  BY <1>1 DEF Init
<1>3. \A w \in Window : Idle(w)
  BY DEF Init, Idle
<1>4. QED
  BY <1>2, <1>3 DEF NumbersInv, NumbersDrawn, NumbersAreNew

\* However many handlers add to a table between each other's two statements, the
\* number one has drawn is nobody else's, so the INSERT never meets its own key.
THEOREM NumbersDrawnOnce == Spec => []NumbersAreNew
<1>1. AdminInv /\ NumbersInv /\ [Next]_vars => (AdminInv /\ NumbersInv)'
  BY AdminInvStep, NumbersStep
<1>2. Init => AdminInv /\ NumbersInv
  BY AdminInit, NumbersInit
<1>3. NumbersInv => NumbersAreNew
  BY DEF NumbersInv
<1>4. QED
  BY <1>1, <1>2, <1>3, PTL DEF Spec

-----------------------------------------------------------------------------
(* Revisions fit their component.                                          *)

Listing == {"page2", "page3", "request"}

UnspecifiedRev == [oid |-> Unspecified, fkey |-> Unspecified]

ListsFit ==
  \A w \in Window : page[w].kind \in Listing =>
    "CL_COMP_REV" \in Class /\ page[w].list \subseteq Revisions(page[w].component)

RevisionsInv ==
  /\ "CL_COMP_REV" \in Class => UnspecifiedRev \in table["CL_COMP_REV"]
  /\ request # {} => "CL_COMP_REV" \in Class
  /\ ListsFit
  /\ RevisionsFit

LEMMA RevisionsInit == Init => RevisionsInv
<1> SUFFICES ASSUME Init PROVE RevisionsInv
  OBVIOUS
<1>1. "CL_COMP_REV" \in Class => UnspecifiedRev \in table["CL_COMP_REV"]
  BY CatalogAssumption DEF Init, UnspecifiedRev, HasParent
<1>2. request = {} /\ \A w \in Window : page[w].kind \notin Listing
  BY DEF Init, MainMenu, Listing
<1>3. QED
  BY <1>1, <1>2 DEF RevisionsInv, ListsFit, RevisionsFit

\* No step takes a revision away from its component.
LEMMA RevisionsGrow ==
  ASSUME AdminInv, [Next]_vars, "CL_COMP_REV" \in Class
  PROVE  /\ table["CL_COMP_REV"] \subseteq table'["CL_COMP_REV"]
         /\ \A component : Revisions(component) \subseteq Revisions(component)'
<1> DEFINE c == "CL_COMP_REV"
<1>1. DOMAIN table = Class /\ table[c] \subseteq Entry(c)
  BY DEF AdminInv, TypeOK
<1>2. table[c] \subseteq table'[c]
  <2>1. CASE table' = table
    BY <2>1
  <2>2. CASE \E w \in Window : UpdateEntry(w)
    <3>1. PICK w \in Window : UpdateEntry(w)
      BY <2>2
    <3>2. PICK sent :
            table' = [table EXCEPT ![page[w].class] = {Updated(page[w].class, f, sent) : f \in @}]
      BY <3>1 DEF UpdateEntry
    <3>3. CASE page[w].class = c
      <4>1. \A f \in table[c] : Updated(c, f, sent) = f
        BY <1>1 DEF Updated, UpdatedParent, Entry
      <4>2. table'[c] = {Updated(c, f, sent) : f \in table[c]}
        BY <1>1, <3>2, <3>3
      <4>3. QED
        BY <4>1, <4>2
    <3>4. CASE page[w].class # c
      BY <1>1, <3>2, <3>4
    <3>5. QED
      BY <3>3, <3>4
  <2>3. CASE \E w \in Window : InsertEntry(w)
    BY <1>1, <2>3 DEF InsertEntry
  <2>4. QED
    BY <2>1, <2>2, <2>3 DEF Next, AdminStep, RequestStep, vars, SelectPage, h_sh_add_or_edit,
       h_sh_add_lookup, h_sh_edit_lookup, DrawNumber, SaveFails, InsertFails, HandlerDies,
       h_sh_new_request_page2, h_sh_new_request_page3, h_ph_save_new_request,
       h_sh_request, Reprocess, h_ph_save_request, ShowRevisions
<1>3. ASSUME NEW component PROVE Revisions(component) \subseteq Revisions(component)'
  BY <1>2 DEF Revisions, db_fetch_list
<1>4. QED
  BY <1>2, <1>3

\* A form that a step writes lists what its component has.
LEMMA PageFate ==
  ASSUME AdminInv, RevisionsInv, [Next]_vars, NEW w \in Window, page'[w].kind \in Listing
  PROVE  /\ "CL_COMP_REV" \in Class
         /\ page'[w].list \subseteq Revisions(page'[w].component)
<1>1. CASE page'[w] = page[w]
  BY <1>1 DEF RevisionsInv, ListsFit
<1>2. ASSUME NEW v \in Window, AdminStep(v), page'[w] # page[w] PROVE FALSE
  BY <1>2 DEF AdminStep, SelectPage, h_sh_add_or_edit, h_sh_add_lookup, h_sh_edit_lookup,
       UpdateEntry, DrawNumber, InsertEntry, SaveFails, InsertFails, HandlerDies,
       Page, Saved, Failed, MainMenu, Listing, AdminInv, TypeOK
<1>3. ASSUME NEW v \in Window, NEW kind, NEW component, ShowRevisions(v, kind, component),
             page'[w] # page[w]
      PROVE  /\ "CL_COMP_REV" \in Class
             /\ page'[w].list \subseteq Revisions(page'[w].component)
  BY <1>3 DEF ShowRevisions, MainMenu, RequestForm, Listing, AdminInv, TypeOK
<1>4. ASSUME NEW v \in Window, h_sh_new_request_page3(v), page'[w] # page[w]
      PROVE  /\ "CL_COMP_REV" \in Class
             /\ page'[w].list \subseteq Revisions(page'[w].component)
  <2>1. w = v /\ page[w].kind = "page2"
    BY <1>4 DEF h_sh_new_request_page3, AdminInv, TypeOK
  <2>2. PICK rev \in page[w].list : page'[w] = RequestForm("page3", page[w].component, {rev})
    BY <1>4, <2>1 DEF h_sh_new_request_page3, AdminInv, TypeOK
  <2>3. "CL_COMP_REV" \in Class /\ page[w].list \subseteq Revisions(page[w].component)
    BY <2>1 DEF RevisionsInv, ListsFit, Listing
  <2>4. QED
    BY <2>2, <2>3 DEF RequestForm
<1>5. ASSUME NEW v \in Window, h_ph_save_new_request(v) \/ h_ph_save_request(v),
             page'[w] # page[w]
      PROVE  FALSE
  BY <1>5 DEF h_ph_save_new_request, h_ph_save_request, MainMenu, Listing, AdminInv, TypeOK
<1>6. QED
  BY <1>1, <1>2, <1>3, <1>4, <1>5 DEF Next, RequestStep, vars, h_sh_new_request_page2,
       h_sh_request, Reprocess

\* A request that a step stores takes its revisions from the form's list.
LEMMA RequestFate ==
  ASSUME AdminInv, RevisionsInv, [Next]_vars, request' # request
  PROVE  /\ "CL_COMP_REV" \in Class
         /\ \A record \in request' :
              {record.comp_rev, record.fixed_in} \subseteq Revisions(record.component)
<1>1. PICK w \in Window : h_ph_save_new_request(w) \/ h_ph_save_request(w)
  BY DEF Next, AdminStep, RequestStep, vars, SelectPage, h_sh_add_or_edit, h_sh_add_lookup,
       h_sh_edit_lookup, UpdateEntry, DrawNumber, InsertEntry, SaveFails, InsertFails,
       HandlerDies, h_sh_new_request_page2, h_sh_new_request_page3, h_sh_request, Reprocess,
       ShowRevisions
<1>2. PICK comp_rev \in page[w].list, fixed_in \in page[w].list \cup {Unspecified} :
        request' = {Revised(page[w].component, comp_rev, fixed_in)}
  BY <1>1 DEF h_ph_save_new_request, h_ph_save_request
<1>3. "CL_COMP_REV" \in Class /\ page[w].list \subseteq Revisions(page[w].component)
  BY <1>1 DEF RevisionsInv, ListsFit, Listing, h_ph_save_new_request, h_ph_save_request
<1>4. Unspecified \in Revisions(page[w].component)
  <2>1. page[w].component # 0
    BY <1>1, Numbers, ParentCount DEF h_ph_save_new_request, h_ph_save_request, AdminInv,
       TypeOK, PageOK, MainMenu
  <2>2. UnspecifiedRev \in table["CL_COMP_REV"]
    BY <1>3 DEF RevisionsInv
  <2>3. QED
    BY <2>1, <2>2 DEF Revisions, db_fetch_list, UnspecifiedRev
<1>5. QED
  BY <1>2, <1>3, <1>4 DEF Revised

LEMMA RevisionsStep == AdminInv /\ RevisionsInv /\ [Next]_vars => RevisionsInv'
<1> SUFFICES ASSUME AdminInv, RevisionsInv, [Next]_vars PROVE RevisionsInv'
  OBVIOUS
<1>1. "CL_COMP_REV" \in Class => UnspecifiedRev \in table'["CL_COMP_REV"]
  BY RevisionsGrow DEF RevisionsInv
<1>2. request' # {} => "CL_COMP_REV" \in Class
  BY RequestFate DEF RevisionsInv
<1>3. ListsFit'
  BY PageFate, RevisionsGrow DEF ListsFit
<1>4. RevisionsFit'
  <2>1. SUFFICES ASSUME NEW record \in request'
                 PROVE  {record.comp_rev, record.fixed_in} \subseteq Revisions(record.component)'
    BY DEF RevisionsFit
  <2>2. "CL_COMP_REV" \in Class
    BY <1>2, <2>1
  <2>3. {record.comp_rev, record.fixed_in} \subseteq Revisions(record.component)
    BY <2>1, RequestFate DEF RevisionsInv, RevisionsFit
  <2>4. QED
    BY <2>2, <2>3, RevisionsGrow
<1>5. QED
  BY <1>1, <1>2, <1>3, <1>4 DEF RevisionsInv, UnspecifiedRev

\* Whoever edits revisions while a request is submitted, opened, reprocessed and
\* saved, the revisions it names stay those of its component.
THEOREM RevisionsAlwaysFit == Spec => []RevisionsFit
<1>1. AdminInv /\ RevisionsInv /\ [Next]_vars => (AdminInv /\ RevisionsInv)'
  BY AdminInvStep, RevisionsStep
<1>2. Init => AdminInv /\ RevisionsInv
  BY AdminInit, RevisionsInit
<1>3. RevisionsInv => RevisionsFit
  BY DEF RevisionsInv
<1>4. QED
  BY <1>1, <1>2, <1>3, PTL DEF Spec
===============================================================================
