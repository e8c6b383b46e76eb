---------------------------- MODULE ControlsProofs ----------------------------
(***************************************************************************)
(* Theorems about the control that Pages follows, for any entries of the   *)
(* lists and any words: from the row to the form, over every form that     *)
(* shows it again, and back to the row.                                    *)
(***************************************************************************)
EXTENDS PagesProofs, FieldsProofs

-----------------------------------------------------------------------------
(* What is known of the control on each kind of page.                      *)

NamesOf ==
  [request |-> RequestControls, new_request |-> NewRequestControls,
   user |-> UserControls \cup {"password"}, system |-> SystemControls,
   component |-> ComponentControls, product |-> ProductControls, lookup |-> LookupControls]

FormOf(f) ==
  CASE f = "USER" -> "user" [] f = "COMP" -> "component" [] f = "PRODUCT" -> "product"

Entry ==
  [form : DOMAIN Saves \cup {"view"},
   name : ViewNames \cup SummaryNames \cup UNION {NamesOf[f] : f \in DOMAIN Saves},
   stored : Value, control : Value, chosen : Value \cup {"Untouched"}]

IsEntry(e) ==
  /\ e \in Entry
  /\ e.form # "view" => e.name \in NamesOf[e.form]
  /\ e.stored \in InColumn(e.name)
  /\ e.control = "off" => e.name = "is_active"
  /\ e.chosen \in Choices(e.name) \cup {"Untouched"}

\* What the user made of it is what it shows, unless that was lost on the way
\* from a form to the same form, and then it is known to be lost.
ShowsChosen(e) ==
  e.chosen # "Untouched" /\ Arrives(e) =>
    \/ e.control = e.chosen
    \/ e.name = "level_of_effort" /\ e.chosen = "quote" /\ e.control = "cut"

\* Untouched it shows the column, or nothing that could be saved.
ShowsColumn(e) ==
  /\ e.chosen = "Untouched" /\ e.stored # NoValue /\ e.form # "lookup"
  /\ e.name \in Saves[e.form] \ (DependentLists \cup {"is_active"})
  => e.control \in {e.stored, NoValue}

\* A control that can be changed and saved.
IsControl(e) ==
  /\ IsEntry(e)
  /\ e.form # "view"
  /\ e.name = "comment" => e.stored = NoValue
  /\ ShowsChosen(e)
  /\ ShowsColumn(e)

\* A text that can only be read.
IsText(e) ==
  /\ IsEntry(e)
  /\ e.form = "view"
  /\ \/ e.control = e.stored
     \/ e.name \in RevisionNames /\ e.control = NoValue
     \/ e.name = "release_date"

SavedTexts == {"Saved", "SavedWithoutComment"}

\* A column after a save.
IsSaved(p, e) ==
  /\ IsEntry(e)
  /\ e.form # "view"
  /\ p.text = "Saved" /\ e.chosen # "Untouched" =>
       e.stored = e.chosen \/ ~Arrives(e) \/ Excepted(e)

\* Which form a page is of.
ControlFits(p, e) ==
  \/ p.at[1] = "PAGE" /\ e.form = "new_request"
  \/ p.at[1] \in {"ADD", "EDIT"} /\ e.form = "lookup"
  \/ p.at = A_SYS_USERS /\ e.form = "system"
  \/ \E f \in Entities : p.at = <<"FORM", f>> /\ e.form = FormOf(f)
  \/ /\ p.at = A_REQUEST /\ e.form = "request"
     /\ \/ p.text = "controls"
        \/ p.text = "comment" /\ e.name = "comment"

\* What is followed is what the page has.
Follows(p, e) ==
  \/ /\ e = NoEntry
     /\ p.at[1] \in {"LOGIN", "OUT_OF_ORDER", "MENU", "SELECT", "RECORD", "MESSAGE"}
     /\ p.text \notin SavedTexts
  \/ /\ IsText(e)
     /\ \/ p.at = A_SUMMARY
        \/ p.at = A_REQUEST /\ p.text \in {"view", "comment"}
     /\ p.text \notin SavedTexts
  \/ IsControl(e) /\ ControlFits(p, e) /\ p.text \notin SavedTexts
  \/ IsMessage(p) /\ p.text \in SavedTexts /\ IsSaved(p, e)

EntryFits == Follows(page, entry)

\* What is on a page after a save is what was there, or what was saved of it.
SaveFits ==
  page'.text \in SavedTexts =>
    \/ entry' = entry
    \/ /\ IsControl(entry) /\ ~Breaks(entry.form, entry.name, Sent(entry))
       /\ entry' = Saved(entry)

-----------------------------------------------------------------------------
(* A control when its form is shown for the first time.                    *)

LEMMA NamesOfForms ==
  /\ DOMAIN NamesOf = DOMAIN Saves
  /\ DOMAIN Saves = {"request", "new_request", "user", "system", "component", "product", "lookup"}
  /\ \A form \in DOMAIN Saves : form # "request" => "comment" \notin NamesOf[form]
BY DEF NamesOf, Saves, NewRequestControls, FirstPageControls, SecondPageControls,
   ThirdPageControls, UserControls, SystemControls, ComponentControls, ProductControls,
   LookupControls

LEMMA OpenedIsControl ==
  ASSUME NEW form \in DOMAIN Saves, NEW name \in NamesOf[form], NEW stored,
         \/ stored = NoValue
         \/ stored \in InRow(name) /\ form = "lookup"
         \/ /\ stored \in InRow(name)
            /\ form \in DOMAIN RowControls /\ name \in RowControls[form],
         NEW control \in Shown(form, name, stored)
  PROVE  IsControl([form |-> form, name |-> name, stored |-> stored, control |-> control,
                    chosen |-> "Untouched"])
<1> DEFINE e == [form |-> form, name |-> name, stored |-> stored, control |-> control,
                 chosen |-> "Untouched"]
<1>1. stored \in InColumn(name)
  <2>1. NoValue \in InColumn(name)
    BY DEF InColumn, Value, NoValue
  <2>2. QED
    BY <2>1, RowsAreColumns
<1>2. control \in InColumn(name)
  BY <1>1, ShownIsColumn
<1>3. IsEntry(e)
  BY <1>1, <1>2, NamesOfForms DEF IsEntry, Entry, InColumn
<1>4. form # "view"
  BY NamesOfForms
<1>5. name = "comment" => stored = NoValue
  BY NamesOfForms DEF RowControls
<1>6. ShowsChosen(e)
  BY DEF ShowsChosen
<1>7. ShowsColumn(e)
  <2> SUFFICES ASSUME stored # NoValue, form # "lookup",
                      name \in Saves[form] \ (DependentLists \cup {"is_active"})
               PROVE  control \in {stored, NoValue}
    BY DEF ShowsColumn
  <2>1. form \in DOMAIN RowControls /\ name \in RowControls[form] \ DependentLists
    OBVIOUS
  <2>2. name # "release_date"
    BY DEF Saves, Updated, Inserted, UserReads, SystemReads, ComponentReads
  <2>3. QED
    BY <2>1, <2>2, ShownIsStored
<1>8. QED
  BY <1>3, <1>4, <1>5, <1>6, <1>7 DEF IsControl

-----------------------------------------------------------------------------
(* A text that is shown of a column.                                       *)

LEMMA TextsHaveColumns ==
  /\ \A name \in ViewNames \ RevisionNames :
       /\ TextColumn(name) \in DOMAIN RequestAt
       /\ TextColumn(name) = "release_date" => name = "release_date"
  /\ \A name \in SummaryNames :
       TextColumn(name) \in DOMAIN SummaryAt /\ TextColumn(name) # "release_date"
<1>1. \A name \in DOMAIN NameColumn :
        NameColumn[name] \in DOMAIN RequestAt /\ NameColumn[name] # "release_date"
  BY DEF NameColumn, RequestAt
<1>2. ViewNames \ (RevisionNames \cup DOMAIN NameColumn) \subseteq DOMAIN RequestAt
  BY DEF ViewNames, RevisionNames, NameColumn, RequestAt, RequestControls, RequestLists,
     DependentLists, RequestTexts
<1>3. \A name \in SummaryNames \cap DOMAIN NameColumn : NameColumn[name] \in DOMAIN SummaryAt
  BY DEF SummaryNames, NameColumn, SummaryAt
<1>4. SummaryNames \ DOMAIN NameColumn \subseteq DOMAIN SummaryAt
  BY DEF SummaryNames, NameColumn, SummaryAt
<1>5. "release_date" \notin SummaryNames
  BY DEF SummaryNames
<1>6. QED
  BY <1>1, <1>2, <1>3, <1>4, <1>5 DEF TextColumn

\* A page and its summary show what is stored, read where its query has it.
LEMMA ShownIsText ==
  ASSUME NEW name, NEW stored \in InRow(name), NEW other \in InRow(name), NEW text,
         \/ name \in ViewNames /\ text \in ViewOf(name, stored, other)
         \/ name \in SummaryNames /\ text \in SummaryText(name, stored, other)
  PROVE  IsText([form |-> "view", name |-> name, stored |-> stored, control |-> text,
                 chosen |-> "Untouched"])
<1> DEFINE e == [form |-> "view", name |-> name, stored |-> stored, control |-> text,
                 chosen |-> "Untouched"]
<1>1. stored \in InColumn(name) /\ NoValue \in InColumn(name)
  BY RowsAreColumns DEF InColumn, Value, NoValue
<1>2. ASSUME NEW query \in {"request", "summary"}, NEW column \in DOMAIN ReadAt[query],
             column = "release_date" => name = "release_date",
             text \in Read(query, column, name, stored)
      PROVE  text \in InColumn(name) /\ (text = stored \/ name = "release_date")
  <2>1. query \in DOMAIN Query
    BY <1>2, Queries
  <2>2. text \in InColumn(name)
    BY <1>1, <1>2, <2>1, ReadIsColumn
  <2>3. text = stored \/ name = "release_date"
    BY <1>2, <2>1, ReadsTheColumn
  <2>4. QED
    BY <2>2, <2>3
<1>3. /\ text \in InColumn(name)
      /\ \/ text = stored \/ name = "release_date"
         \/ name \in RevisionNames /\ text = NoValue
  <2>1. CASE name \in ViewNames /\ text \in ViewOf(name, stored, other) /\ name \in RevisionNames
    BY <1>1, <2>1 DEF ViewOf, RevisionNames, JoinedByBoth
  <2>2. CASE name \in ViewNames /\ text \in ViewOf(name, stored, other) /\ name \notin RevisionNames
    <3>1. text \in Read("request", TextColumn(name), name, stored)
      BY <2>2 DEF ViewOf, RevisionNames
    <3>2. QED
      BY <1>2, <2>2, <3>1, TextsHaveColumns, Queries
  <2>3. CASE name \in SummaryNames /\ text \in SummaryText(name, stored, other)
    <3>1. text \in Read("summary", TextColumn(name), name, stored)
      BY <2>3 DEF SummaryText, SummaryOf
    <3>2. QED
      BY <1>2, <2>3, <3>1, TextsHaveColumns, Queries
  <2>4. QED
    BY <2>1, <2>2, <2>3
<1>4. IsEntry(e)
  BY <1>1, <1>3 DEF IsEntry, Entry, InColumn
<1>5. QED
  BY <1>3, <1>4 DEF IsText

-----------------------------------------------------------------------------
(* A control that the user changes, and one on a form that is shown again. *)

LEMMA ChosenIsControl ==
  ASSUME NEW e, IsControl(e), NEW value \in Choices(e.name)
  PROVE  IsControl([e EXCEPT !.control = value, !.chosen = value])
<1> DEFINE f == [e EXCEPT !.control = value, !.chosen = value]
<1>1. e \in Entry /\ IsEntry(e)
  BY DEF IsControl, IsEntry
<1>2. /\ f.form = e.form /\ f.name = e.name /\ f.stored = e.stored
      /\ f.control = value /\ f.chosen = value
  BY <1>1 DEF Entry
<1>3. /\ value \in Value /\ value # "Untouched"
      /\ value = "off" => e.name = "is_active"
  BY ChoicesAreValues
<1>4. f \in Entry
  BY <1>1, <1>3 DEF Entry
<1>5. IsEntry(f)
  <2> HIDE DEF f
  <2>1. QED
    BY <1>1, <1>2, <1>3, <1>4 DEF IsEntry
<1>6. ShowsChosen(f) /\ ShowsColumn(f)
  <2> HIDE DEF f
  <2>1. QED
    BY <1>2, <1>3 DEF ShowsChosen, ShowsColumn
<1>7. IsControl(f)
  <2> HIDE DEF f
  <2>1. QED
    BY <1>2, <1>5, <1>6 DEF IsControl
<1>8. QED
  BY <1>7

LEMMA ReadAgain ==
  \A name \in RequestControls \ {"comment"} :
    /\ name \notin Astray["request"] => name \in ReprocessReads
    /\ name \in Updated \ DependentLists => name \in ReprocessReads
    /\ name \notin Astray["request"] /\ name \in TextNames \cup AreaNames
         => name = "level_of_effort"
<1>1. Astray["request"] = {"finding_act_oid", "marketing_oid", "request", "resolution",
                           "verification", "release_date"}
  BY DEF Astray
<1>2. RequestControls \ ({"comment"} \cup Astray["request"]) \subseteq ReprocessReads
  BY <1>1 DEF RequestControls, RequestLists, DependentLists, RequestTexts, ReprocessReads
<1>3. (RequestControls \cap Updated) \ {"comment"} \subseteq ReprocessReads
  BY DEF RequestControls, RequestLists, DependentLists, RequestTexts, ReprocessReads, Updated,
     SaveReads
<1>4. (RequestControls \cap (TextNames \cup AreaNames)) \ Astray["request"]
        \subseteq {"level_of_effort", "comment"}
  BY <1>1 DEF RequestControls, RequestLists, DependentLists, RequestTexts, TextNames, AreaNames
<1>5. QED
  BY <1>2, <1>3, <1>4

\* A request that is shown again, for another product or component: what the
\* user made of a control is there, or known to be lost.
LEMMA ShownAgainIsControl ==
  ASSUME IsControl(entry), entry.form = "request",
         NEW control \in ShownAgain(entry.name, entry.stored, entry.control)
  PROVE  IsControl(ShownEntry(control)) /\ ShownEntry(control).form = "request"
<1> DEFINE e == ShownEntry(control)
<1>1. entry \in Entry /\ IsEntry(entry)
  BY DEF IsControl, IsEntry
<1>2. /\ e.form = "request" /\ e.name = entry.name /\ e.stored = entry.stored
      /\ e.control = control
      /\ e.chosen \in {entry.chosen, "Untouched"}
      /\ e.chosen # entry.chosen => entry.name = "comment" \/ entry.name \in DependentLists
      /\ e.chosen # "Untouched" =>
           entry.name # "comment" /\ (entry.name \in DependentLists => control = entry.control)
  BY <1>1 DEF Entry, ShownEntry
<1>3. entry.name \in RequestControls
  BY <1>1 DEF IsEntry, NamesOf
<1>4. control \in InColumn(entry.name)
  BY <1>1, <1>3, ShownAgainIsColumn DEF IsControl, IsEntry, Entry
<1>5. e \in Entry
  BY <1>1, <1>4 DEF ShownEntry, Entry, InColumn
<1> HIDE DEF e
<1>6. IsEntry(e)
  BY <1>1, <1>2, <1>4, <1>5 DEF IsEntry, InColumn
<1>7. ShowsChosen(e)
  <2> SUFFICES ASSUME e.chosen # "Untouched", Arrives(e)
               PROVE  \/ control = entry.chosen
                      \/ entry.name = "level_of_effort" /\ entry.chosen = "quote" /\ control = "cut"
    BY <1>2 DEF ShowsChosen
  <2>1. entry.name \in ReprocessReads /\ entry.name # "comment" /\ Arrives(entry)
    <3>1. entry.name \notin Astray["request"]
      BY <1>2 DEF Arrives, Astray
    <3>2. entry.name # "comment"
      BY <1>2
    <3>3. Arrives(entry)
      BY <1>2, <3>1 DEF Arrives
    <3>4. QED
      BY <1>3, <3>1, <3>2, <3>3, ReadAgain
  <2>2. \/ entry.control = entry.chosen
        \/ entry.name = "level_of_effort" /\ entry.chosen = "quote" /\ entry.control = "cut"
    BY <1>2, <2>1 DEF IsControl, ShowsChosen
  <2>3. CASE control = entry.control
    BY <2>2, <2>3
  <2>4. CASE control # entry.control
    <3>1. entry.control = "quote" /\ control = "cut"
      BY <1>2, <1>3, <2>1, <2>4, ShownAgainIs
    <3>2. entry.chosen = "quote"
      BY <2>2, <3>1
    <3>3. entry.name \in TextNames \cup AreaNames
      BY <1>1, <3>2, ChoicesAreValues DEF IsEntry
    <3>4. entry.name \notin Astray["request"]
      BY <2>1 DEF Arrives, Astray
    <3>5. entry.name = "level_of_effort"
      BY <1>3, <2>1, <3>3, <3>4, ReadAgain
    <3>6. QED
      BY <3>1, <3>2, <3>5
  <2>5. QED
    BY <2>3, <2>4
<1>8. ShowsColumn(e)
  <2> SUFFICES ASSUME e.chosen = "Untouched", e.stored # NoValue,
                      e.name \in Saves["request"] \ (DependentLists \cup {"is_active"})
               PROVE  e.control \in {e.stored, NoValue}
    BY <1>2 DEF ShowsColumn
  <2>1. entry.name # "comment"
    BY <1>2 DEF IsControl
  <2>2. entry.chosen = "Untouched"
    BY <1>2, <2>1
  <2>3. entry.control \in {entry.stored, NoValue}
    BY <1>2, <2>2 DEF IsControl, ShowsColumn
  <2>4. entry.control # "quote"
    BY <1>1, <2>3 DEF IsEntry, InColumn, NoValue
  <2>5. entry.name \in ReprocessReads \ DependentLists
    BY <1>2, <1>3, <2>1, ReadAgain DEF Saves
  <2>6. QED
    BY <1>2, <1>3, <2>3, <2>4, <2>5, ShownAgainIs
<1>9. IsControl(e)
  BY <1>2, <1>6, <1>7, <1>8 DEF IsControl
<1>10. QED
  BY <1>2, <1>9 DEF e

-----------------------------------------------------------------------------
(* A control that is saved.                                                *)

LEMMA SentIsValue ==
  ASSUME NEW e, IsEntry(e)
  PROVE  /\ Sent(e) \in Value /\ Sent(e) # "off"
         /\ e.name # "is_active" => Sent(e) = e.control
BY DEF IsEntry, Entry, Sent, Value, NoValue

LEMMA SavedFields ==
  ASSUME NEW e, e \in Entry
  PROVE  /\ Saved(e).form = e.form /\ Saved(e).name = e.name
         /\ Saved(e).control = e.control /\ Saved(e).chosen = e.chosen
         /\ Saved(e).stored = Stored(e.form, e.name, e.stored, Sent(e))
         /\ Saved(e).stored \in Value => Saved(e) \in Entry
BY DEF Saved, Entry

LEMMA SavedIsEntry ==
  ASSUME NEW e, IsControl(e), ~Breaks(e.form, e.name, Sent(e))
  PROVE  IsEntry(Saved(e))
<1>1. e \in Entry /\ IsEntry(e) /\ e.form \in DOMAIN Saves
  BY DEF IsControl, IsEntry, Entry
<1>2. Saved(e).stored \in InColumn(e.name)
  BY <1>1, SavedFields, SentIsValue, StoredIsColumn DEF IsEntry
<1>3. Saved(e) \in Entry
  BY <1>1, <1>2, SavedFields DEF InColumn
<1>4. QED
  BY <1>1, <1>2, <1>3, SavedFields DEF IsEntry

\* The controls that do not go astray are in the statement of their form.
LEMMA ArrivesIsSaved ==
  ASSUME NEW e, IsControl(e), Arrives(e)
  PROVE  e.name \in Saves[e.form]
<1>1. e.form \in DOMAIN Saves /\ e.name \in NamesOf[e.form]
  BY DEF IsControl, IsEntry, Entry
<1>2. RequestControls \ Astray["request"] \subseteq Updated
  BY DEF Astray, RequestControls, RequestLists, DependentLists, RequestTexts, Updated, SaveReads
<1>3. NewRequestControls \ Astray["new_request"] \subseteq Inserted
  BY DEF Astray, NewRequestControls, FirstPageControls, SecondPageControls, ThirdPageControls,
     Inserted
<1>4. /\ UserControls \cup {"password"} \subseteq UserReads
      /\ SystemControls \subseteq SystemReads /\ ComponentControls \subseteq ComponentReads
      /\ ProductControls = {"value"} /\ LookupControls = {"value"}
  BY DEF UserControls, UserReads, SystemControls, SystemReads, ComponentControls,
     ComponentReads, ProductControls, LookupControls
<1>5. /\ NamesOf["request"] = RequestControls /\ NamesOf["new_request"] = NewRequestControls
      /\ NamesOf["user"] = UserControls \cup {"password"} /\ NamesOf["system"] = SystemControls
      /\ NamesOf["component"] = ComponentControls /\ NamesOf["product"] = ProductControls
      /\ NamesOf["lookup"] = LookupControls
      /\ Saves["request"] = Updated /\ Saves["new_request"] = Inserted
      /\ Saves["user"] = UserReads /\ Saves["system"] = SystemReads
      /\ Saves["component"] = ComponentReads /\ Saves["product"] = {"value"}
      /\ Saves["lookup"] = {"value"}
  BY DEF NamesOf, Saves
<1>6. DOMAIN Astray = {"request", "new_request"}
  BY DEF Astray
<1>7. CASE e.form \in DOMAIN Astray
  BY <1>1, <1>2, <1>3, <1>5, <1>6, <1>7 DEF Arrives
<1>8. CASE e.form \notin DOMAIN Astray
  BY <1>1, <1>4, <1>5, <1>6, <1>8, NamesOfForms
<1>9. QED
  BY <1>7, <1>8

\* What the user chose is what a save stores, of a control that arrives.
LEMMA SavedAsItShows ==
  ASSUME NEW p, NEW e, IsControl(e), ~Breaks(e.form, e.name, Sent(e)),
         p.text = "Saved" /\ e.name = "comment" => e.control # "quote"
  PROVE  IsSaved(p, Saved(e))
<1>1. e \in Entry /\ IsEntry(e) /\ e.form \in DOMAIN Saves
  BY DEF IsControl, IsEntry, Entry
<1>2. ASSUME p.text = "Saved", e.chosen # "Untouched", Arrives(e)
      PROVE  Saved(e).stored = e.chosen \/ Excepted(Saved(e))
  <2>1. e.name \in Saves[e.form]
    BY <1>2, ArrivesIsSaved
  <2>2. \/ e.control = e.chosen
        \/ e.name = "level_of_effort" /\ e.chosen = "quote" /\ e.control = "cut"
    BY <1>2 DEF IsControl, ShowsChosen
  <2>3. CASE e.name = "is_active"
    <3>1. e.chosen \in {"on", "off"} /\ e.control = e.chosen
      <4>1. Choices("is_active") = {"on", "off"}
        BY DEF Choices, TextNames, AreaNames
      <4>2. QED
        BY <1>1, <1>2, <2>2, <2>3, <4>1 DEF IsEntry
    <3>2. Sent(e) = IF e.control = "off" THEN NoValue ELSE "on"
      BY <3>1 DEF Sent
    <3>3. Saved(e).stored = IF Sent(e) = NoValue THEN "off" ELSE "on"
      BY <1>1, <2>1, <2>3, SavedFields DEF Stored
    <3>4. QED
      BY <3>1, <3>2, <3>3 DEF NoValue
  <2>4. CASE e.name # "is_active"
    <3>1. Sent(e) = e.control
      BY <1>1, <2>4, SentIsValue
    <3>2. \/ Saved(e).stored = e.control
          \/ e.name = "level_of_effort" /\ e.control = Empty
          \/ e.name = "comment" /\ e.control \in {Empty, "quote"}
      BY <1>1, <2>1, <2>4, <3>1, SavedFields, StoredAsChosen
    <3>3. /\ Saved(e).name = e.name /\ Saved(e).chosen = e.chosen
      BY <1>1, SavedFields
    <3>4. CASE e.control = e.chosen
      BY <1>2, <3>2, <3>3, <3>4 DEF Excepted
    <3>5. CASE e.name = "level_of_effort" /\ e.chosen = "quote" /\ e.control = "cut"
      BY <3>2, <3>3, <3>5 DEF Excepted, Empty
    <3>6. QED
      BY <2>2, <3>4, <3>5
  <2>5. QED
    BY <2>3, <2>4
<1>3. Arrives(Saved(e)) <=> Arrives(e)
  BY <1>1, SavedFields DEF Arrives
<1>4. QED
  BY <1>1, <1>2, <1>3, SavedFields, SavedIsEntry DEF IsSaved, IsControl

\* A control that was not touched leaves the column as it was.
LEMMA SavedAsItWas ==
  ASSUME NEW e, IsControl(e), ~Breaks(e.form, e.name, Sent(e)),
         e.chosen = "Untouched", e.stored # NoValue, e.form # "lookup",
         e.name \notin DependentLists \cup {"is_active"}
  PROVE  Saved(e).stored = e.stored
<1>1. e \in Entry /\ IsEntry(e) /\ e.form \in DOMAIN Saves
  BY DEF IsControl, IsEntry, Entry
<1>2. e.name \in Saves[e.form] => Sent(e) \in {e.stored, NoValue}
  BY <1>1, SentIsValue DEF IsControl, ShowsColumn
<1>3. QED
  BY <1>1, <1>2, SavedFields, StoredAsShown

\* An edit that was made without an answer is still what the form edits.
LEMMA SavedIsControl ==
  ASSUME NEW e, IsControl(e), ~Breaks(e.form, e.name, Sent(e)), e.stored # NoValue
  PROVE  IsControl(Saved(e))
<1>1. e \in Entry /\ e.name # "comment"
  BY DEF IsControl, IsEntry
<1>2. ShowsChosen(Saved(e))
  BY <1>1, SavedFields DEF IsControl, ShowsChosen, Arrives
<1>3. ShowsColumn(Saved(e))
  <2> SUFFICES ASSUME e.chosen = "Untouched", e.form # "lookup",
                      e.name \in Saves[e.form] \ (DependentLists \cup {"is_active"})
               PROVE  e.control \in {Saved(e).stored, NoValue}
    BY <1>1, SavedFields DEF ShowsColumn
  <2>1. Saved(e).stored = e.stored
    BY SavedAsItWas
  <2>2. QED
    BY <2>1 DEF IsControl, ShowsColumn
<1>4. QED
  BY <1>1, <1>2, <1>3, SavedFields, SavedIsEntry DEF IsControl

-----------------------------------------------------------------------------
(* From which page a handler is reached that takes the control.            *)

\* The handlers that do not are reached from more than one page.
LeadsTo(p, b) ==
  /\ b.to = A_SAVE_NEW_REQUEST => p.at = A_NEW_REQUEST_PAGE[3]
  /\ b.to = A_NEW_REQUEST_PAGE[2] => p.at = A_NEW_REQUEST_PAGE[1]
  /\ b.to = A_NEW_REQUEST_PAGE[3] => p.at = A_NEW_REQUEST_PAGE[2]
  /\ b.to[1] = "SAVE" /\ b.to[2] \in Lookups => p.at[1] \in {"ADD", "EDIT"}
  /\ b.to[1] = "SAVE" /\ b.to[2] \in Entities => p.at = <<"FORM", b.to[2]>>
  /\ b.to = A_SAVE_SYS_USERS => p.at = A_SYS_USERS
  /\ b.to = A_SAVE_REQUEST => p.at = A_REQUEST
  /\ b.to = A_REQUEST /\ "requested_oid" \notin DOMAIN b.params =>
       p.at = A_REQUEST /\ p.text = "controls"

\* What most buttons lead to takes no control.
LEMMA LeadsElsewhere ==
  ASSUME NEW p, NEW b, b.to[1] \notin {"SAVE", "PAGE"}, b.to # A_REQUEST
  PROVE  LeadsTo(p, b)
BY DEF LeadsTo, A_SAVE_NEW_REQUEST, A_NEW_REQUEST_PAGE, A_SAVE_SYS_USERS, A_SAVE_REQUEST

LEMMA MenusLead ==
  ASSUME NEW p, MenuFits(p) \/ SelectFits(p) \/ MessageFits(p), NEW b \in Buttons(p)
  PROVE  LeadsTo(p, b)
<1> USE ButtonFields
<1>1. CASE p.at \in {A_MAIN, A_ADMIN}
  <2>1. b.to \in MainMenuActions \cup AdminMenuActions \cup {A_LOGOUT, A_MAIN}
    BY <1>1 DEF A_MAIN, A_ADMIN, Buttons, MenuButtons
  <2>2. \/ b.to = A_NEW_REQUEST_PAGE[1]
        \/ b.to[1] \notin {"SAVE", "PAGE"} /\ b.to # A_REQUEST
    BY <2>1 DEF MainMenuActions, AdminMenuActions, NotImplemented, A_NEW_REQUEST_PAGE,
       A_RECORD_REQUEST, A_SUMMARY, A_ADMIN, A_LOGOUT, A_MAIN, A_SYS_USERS, A_REQUEST
  <2>3. b.to = A_NEW_REQUEST_PAGE[1] => LeadsTo(p, b)
    BY DEF LeadsTo, A_SAVE_NEW_REQUEST, A_NEW_REQUEST_PAGE, A_SAVE_SYS_USERS, A_SAVE_REQUEST,
       A_REQUEST
  <2>4. QED
    BY <2>2, <2>3, LeadsElsewhere
<1>2. ASSUME NEW f \in Entities \cup Lookups, p.at = <<"MENU", f>> PROVE LeadsTo(p, b)
  <2>1. b.to \in {AddAction(f), EditAction(f), MenuAbove(f)}
    BY <1>2, FormActions DEF Buttons, MenuButtons
  <2>2. b.to[1] \notin {"SAVE", "PAGE"} /\ b.to # A_REQUEST
    BY <2>1, FormActions DEF AddAction, EditAction, MenuAbove, A_ADMIN, A_REQUEST
  <2>3. QED
    BY <2>2, LeadsElsewhere
<1>3. ASSUME NEW f \in Entities \cup ListedByParent, p.at = <<"SELECT", f>> PROVE LeadsTo(p, b)
  <2>1. b.to \in {<<"FORM", f>>, <<"MENU", f>>, A_ADMIN}
    BY <1>3 DEF Buttons
  <2>2. b.to[1] \notin {"SAVE", "PAGE"} /\ b.to # A_REQUEST
    BY <2>1, FormActions DEF ListedByParent, Lookups, A_ADMIN, A_REQUEST
  <2>3. QED
    BY <2>2, LeadsElsewhere
<1>4. CASE MessageFits(p)
  <2>1. b.to = p.next
    BY <1>4 DEF MessageFits, IsMessage, Buttons
  <2>2. b.to[1] \notin {"SAVE", "PAGE"} /\ b.to # A_REQUEST
    BY <1>4, <2>1 DEF MessageFits, A_MAIN, A_ADMIN, A_LOGIN, A_SYS_USERS, A_REQUEST
  <2>3. QED
    BY <2>2, LeadsElsewhere
<1>5. QED
  BY <1>1, <1>2, <1>3, <1>4 DEF MenuFits, SelectFits

LEMMA FormsLead ==
  ASSUME NEW p, FormFits(p), NEW b \in Buttons(p)
  PROVE  LeadsTo(p, b)
<1> USE ButtonFields
<1>1. ASSUME NEW f \in Entities, p.at = <<"FORM", f>> PROVE LeadsTo(p, b)
  <2>1. p.at[1] = "FORM" /\ p.at[2] = f
    BY <1>1
  <2>2. \/ b \in {Submit(p, <<"SAVE", f>>), Close(p, <<"MENU", f>>)}
        \/ \E g \in Keyed : b = Submit(p, <<"MENU", g>>)
    BY <2>1, ButtonsOfForm
  <2>3. b.to = <<"SAVE", f>> \/ \E g : b.to = <<"MENU", g>>
    <3>1. CASE b \in {Submit(p, <<"SAVE", f>>), Close(p, <<"MENU", f>>)}
      BY <3>1
    <3>2. CASE \E g \in Keyed : b = Submit(p, <<"MENU", g>>)
      BY <3>2
    <3>3. QED
      BY <2>2, <3>1, <3>2
  <2>4. CASE b.to = <<"SAVE", f>>
    BY <1>1, <2>4, FormActions DEF LeadsTo, A_SAVE_NEW_REQUEST, A_NEW_REQUEST_PAGE,
       A_SAVE_SYS_USERS, A_SAVE_REQUEST, A_REQUEST
  <2>5. CASE \E g : b.to = <<"MENU", g>>
    BY <2>5, LeadsElsewhere DEF A_REQUEST
  <2>6. QED
    BY <2>3, <2>4, <2>5
<1>2. CASE p.at = A_SYS_USERS
  <2>1. p.at[1] = "FORM" /\ p.at[2] = "SYSTEM"
    BY <1>2 DEF A_SYS_USERS
  <2>2. b.to \in {A_SAVE_SYS_USERS, A_CLEAR_ALL_LOCKS, A_ADMIN}
    <3>1. b \in {Submit(p, A_SAVE_SYS_USERS), Submit(p, A_CLEAR_ALL_LOCKS), Close(p, A_ADMIN)}
      BY <2>1, ButtonsOfForm
    <3>2. QED
      BY <3>1
  <2>3. QED
    BY <1>2, <2>2, LeadsElsewhere, FormActions DEF LeadsTo, A_SAVE_SYS_USERS, A_CLEAR_ALL_LOCKS,
       A_ADMIN, A_SAVE_NEW_REQUEST, A_NEW_REQUEST_PAGE, A_SAVE_REQUEST, A_REQUEST
<1>3. CASE p.at = A_REQUEST /\ p.text \in {"view", "comment", "controls"}
  <2>1. p.at[1] = "FORM" /\ p.at[2] = "REQUEST"
    BY <1>3 DEF A_REQUEST
  <2>2. b \in {[Close(p, A_MAIN) EXCEPT !.params = p.params],
               [Close(p, A_CHECKIN_REQUEST) EXCEPT !.params = p.params],
               Submit(p, A_SAVE_REQUEST), Submit(p, A_REQUEST)}
    BY <2>1, ButtonsOfForm
  <2>3. ASSUME NEW to, b = [Close(p, to) EXCEPT !.params = p.params] PROVE b.to = to
    BY <2>3 DEF Close, SubmitToClose, Submit
  <2>4. b.to \in {A_MAIN, A_CHECKIN_REQUEST, A_SAVE_REQUEST, A_REQUEST}
    BY <2>2, <2>3
  <2>5. b.to = A_REQUEST => p.text = "controls"
    <3>1. CASE p.text = "comment"
      <4>1. b \in {[Close(p, A_CHECKIN_REQUEST) EXCEPT !.params = p.params],
                   Submit(p, A_SAVE_REQUEST)}
        BY <2>1, <3>1, ButtonsOfForm
      <4>2. QED
        BY <2>3, <4>1 DEF A_CHECKIN_REQUEST, A_SAVE_REQUEST, A_REQUEST
    <3>2. CASE p.text = "view"
      <4>1. b = [Close(p, A_MAIN) EXCEPT !.params = p.params]
        <5>1. b \in FormButtons(p)
          BY <2>1 DEF Buttons
        <5>2. QED
          BY <2>1, <3>2, <5>1 DEF FormButtons, Entities
      <4>2. QED
        BY <2>3, <4>1 DEF A_MAIN, A_REQUEST
    <3>3. QED
      BY <1>3, <3>1, <3>2
  <2>6. QED
    BY <1>3, <2>4, <2>5, LeadsElsewhere, FormActions DEF LeadsTo, A_MAIN, A_CHECKIN_REQUEST,
       A_SAVE_REQUEST, A_REQUEST, A_SAVE_NEW_REQUEST, A_NEW_REQUEST_PAGE, A_SAVE_SYS_USERS
<1>4. QED
  BY <1>1, <1>2, <1>3 DEF FormFits

LEMMA ButtonsLead ==
  ASSUME NEW p, Fits(p), NEW b \in Buttons(p)
  PROVE  LeadsTo(p, b)
<1> USE ButtonFields
<1>1. CASE AddFits(p) \/ EditFits(p)
  <2>1. PICK f \in Lookups : p.at \in {<<"ADD", f>>, <<"EDIT", f>>}
    BY <1>1 DEF AddFits, EditFits
  <2>2. b.to \in {<<"SAVE", f>>, <<"MENU", f>>}
    BY <2>1 DEF Buttons
  <2>3. QED
    BY <2>1, <2>2, LeadsElsewhere, FormActions DEF LeadsTo, A_SAVE_NEW_REQUEST,
       A_NEW_REQUEST_PAGE, A_SAVE_SYS_USERS, A_SAVE_REQUEST, A_REQUEST
<1>2. CASE NewRequestFits(p)
  <2>1. p.at \in {<<"PAGE", "1">>, <<"PAGE", "2">>, <<"PAGE", "3">>}
    BY <1>2 DEF NewRequestFits, A_NEW_REQUEST_PAGE
  <2>2. \/ b.to = A_MAIN
        \/ p.at = <<"PAGE", "1">> /\ b.to = <<"PAGE", "2">>
        \/ p.at = <<"PAGE", "2">> /\ b.to = <<"PAGE", "3">>
        \/ p.at = <<"PAGE", "3">> /\ b.to = A_SAVE_NEW_REQUEST
    BY <2>1 DEF Buttons, A_NEW_REQUEST_PAGE
  <2>3. QED
    BY <2>2, LeadsElsewhere, FormActions DEF LeadsTo, A_MAIN, A_SAVE_NEW_REQUEST,
       A_NEW_REQUEST_PAGE, A_SAVE_SYS_USERS, A_SAVE_REQUEST, A_REQUEST
<1>3. CASE OtherFits(p)
  <2>1. \/ b.to \in {Authenticate, A_MAIN}
        \/ b.to = A_REQUEST /\ b.params = With("requested_oid", "REQUEST")
    BY <1>3 DEF OtherFits, Buttons, A_RECORD_REQUEST, A_SUMMARY
  <2>2. "requested_oid" \in DOMAIN With("requested_oid", "REQUEST")
    BY DEF With, None
  <2>3. QED
    BY <2>1, <2>2, LeadsElsewhere DEF LeadsTo, Authenticate, A_MAIN, A_SAVE_NEW_REQUEST,
       A_NEW_REQUEST_PAGE, A_SAVE_SYS_USERS, A_SAVE_REQUEST, A_REQUEST
<1>4. QED
  BY <1>1, <1>2, <1>3, MenusLead, FormsLead DEF Fits

LEMMA AdmittedLeads ==
  ASSUME PageFits, PostFits, Admitted
  PROVE  LeadsTo(page, post)
<1>1. PICK b \in Buttons(page) : post.to = b.to /\ post.params = b.params
  BY AdmittedWhole
<1>2. LeadsTo(page, b)
  BY ButtonsLead DEF PageFits
<1>3. QED
  BY <1>1, <1>2 DEF LeadsTo

-----------------------------------------------------------------------------
(* What a handler does with the control.                                   *)

LEMMA PlainFollows ==
  ASSUME NEW p, p.at[1] \in {"LOGIN", "OUT_OF_ORDER", "MENU", "SELECT", "RECORD", "MESSAGE"},
         p.text \notin SavedTexts, Answer(p, NoEntry)
  PROVE  EntryFits' /\ SaveFits
BY DEF Answer, EntryFits, Follows, SaveFits

LEMMA PlainTexts ==
  /\ \A at, params : /\ Page(at, params).at = at
                     /\ Page(at, params).text \notin SavedTexts
  /\ \A text, next : /\ IsMessage(Message(text, next)) /\ Message(text, next).at[1] = "MESSAGE"
                     /\ Message(text, next).text = text
  /\ \A text : RequestForm(text).at = A_REQUEST /\ RequestForm(text).text = text
  /\ \A text \in {"view", "comment", "controls"} : text \notin SavedTexts
BY DEF Page, Message, IsMessage, RequestForm, SavedTexts, None

LEMMA OpenedFollows ==
  ASSUME NEW p, NEW form \in DOMAIN Saves, NEW names \in SUBSET NamesOf[form],
         NEW new \in BOOLEAN, Opens(p, form, names, new),
         \/ new \/ form = "lookup"
         \/ form \in DOMAIN RowControls /\ names \subseteq RowControls[form],
         \A e : e.form = form /\ e.name \in names => ControlFits(p, e),
         p.text \notin SavedTexts
  PROVE  EntryFits' /\ SaveFits
<1> DEFINE e(name, stored, control) ==
      [form |-> form, name |-> name, stored |-> stored, control |-> control,
       chosen |-> "Untouched"]
<1>1. PICK name \in names :
        \E stored \in IF new THEN {NoValue} ELSE InRow(name) :
          \E control \in Shown(form, name, stored) : Answer(p, e(name, stored, control))
  BY DEF Opens
<1>2. PICK stored \in IF new THEN {NoValue} ELSE InRow(name) :
        \E control \in Shown(form, name, stored) : Answer(p, e(name, stored, control))
  BY <1>1
<1>3. PICK control \in Shown(form, name, stored) : Answer(p, e(name, stored, control))
  BY <1>2
<1>4. IsControl(e(name, stored, control))
  <2>1. name \in NamesOf[form]
    OBVIOUS
  <2>2. \/ stored = NoValue
        \/ stored \in InRow(name) /\ form = "lookup"
        \/ stored \in InRow(name) /\ form \in DOMAIN RowControls /\ name \in RowControls[form]
    OBVIOUS
  <2>3. QED
    BY <2>1, <2>2, OpenedIsControl
<1>5. ControlFits(p, e(name, stored, control))
  OBVIOUS
<1>6. page' = p /\ entry' = e(name, stored, control)
  BY <1>3 DEF Answer
<1>7. QED
  <2> HIDE DEF e
  <2>1. QED
    BY <1>4, <1>5, <1>6 DEF EntryFits, Follows, SaveFits

LEMMA ViewedFollows ==
  ASSUME NEW p, p.text \notin SavedTexts,
         \/ p.at = A_SUMMARY /\ Views(p, SummaryNames, SummaryText)
         \/ p.at = A_REQUEST /\ p.text \in {"view", "comment"} /\ Views(p, ViewNames, ViewOf)
  PROVE  EntryFits' /\ SaveFits
<1> DEFINE e(name, stored, text) ==
      [form |-> "view", name |-> name, stored |-> stored, control |-> text,
       chosen |-> "Untouched"]
<1>1. \E name : \E stored, other \in InRow(name) : \E text :
        /\ \/ name \in ViewNames /\ text \in ViewOf(name, stored, other)
           \/ name \in SummaryNames /\ text \in SummaryText(name, stored, other)
        /\ Answer(p, e(name, stored, text))
  BY DEF Views
<1>2. PICK name : \E stored, other \in InRow(name) : \E text :
        /\ \/ name \in ViewNames /\ text \in ViewOf(name, stored, other)
           \/ name \in SummaryNames /\ text \in SummaryText(name, stored, other)
        /\ Answer(p, e(name, stored, text))
  BY <1>1
<1>3. PICK stored \in InRow(name), other \in InRow(name) : \E text :
        /\ \/ name \in ViewNames /\ text \in ViewOf(name, stored, other)
           \/ name \in SummaryNames /\ text \in SummaryText(name, stored, other)
        /\ Answer(p, e(name, stored, text))
  BY <1>2
<1>4. PICK text :
        /\ \/ name \in ViewNames /\ text \in ViewOf(name, stored, other)
           \/ name \in SummaryNames /\ text \in SummaryText(name, stored, other)
        /\ Answer(p, e(name, stored, text))
  BY <1>3
<1>5. IsText(e(name, stored, text))
  BY <1>4, ShownIsText
<1>6. page' = p /\ entry' = e(name, stored, text)
  BY <1>4 DEF Answer
<1>7. QED
  <2> HIDE DEF e
  <2>1. QED
    BY <1>5, <1>6 DEF EntryFits, Follows, SaveFits

\* Which control a form has, when it is sent.
LEMMA FormHasControl ==
  ASSUME EntryFits, page.at[1] \in {"PAGE", "ADD", "EDIT", "FORM"},
         page.at = A_REQUEST => page.text = "controls"
  PROVE  /\ IsControl(entry) /\ ControlFits(page, entry) /\ page.text \notin SavedTexts
         /\ entry \in Entry
         /\ page.at # A_REQUEST => entry.name # "comment"
         /\ page.at = A_REQUEST => entry.form = "request"
         /\ page.at[1] = "PAGE" => entry.form = "new_request"
<1>1. IsControl(entry) /\ ControlFits(page, entry) /\ page.text \notin SavedTexts
  BY DEF EntryFits, Follows, IsMessage, A_SUMMARY, A_REQUEST
<1>2. entry \in Entry /\ entry.form \in DOMAIN Saves /\ entry.name \in NamesOf[entry.form]
  BY <1>1 DEF IsControl, IsEntry, Entry
<1>3. page.at = A_REQUEST <=> entry.form = "request"
  BY <1>1, FormActions DEF ControlFits, A_REQUEST, A_SYS_USERS, Entities, FormOf
<1>4. page.at[1] = "PAGE" => entry.form = "new_request"
  BY <1>1 DEF ControlFits, A_REQUEST, A_SYS_USERS
<1>5. QED
  BY <1>1, <1>2, <1>3, <1>4, NamesOfForms

\* A form that is saved without an answer still has its control.
LEMMA UnseenFollows ==
  ASSUME IsControl(entry), ControlFits(page, entry), page.text \notin SavedTexts,
         ~Breaks(entry.form, entry.name, Sent(entry)), Unseen(Saved(entry))
  PROVE  EntryFits' /\ SaveFits
<1>1. page' = page /\ entry' = IF entry.stored = NoValue THEN entry ELSE Saved(entry)
  BY DEF Unseen, Answer
<1>2. entry.stored # NoValue => IsControl(Saved(entry)) /\ ControlFits(page, Saved(entry))
  <2>1. entry \in Entry
    BY DEF IsControl, IsEntry
  <2>2. QED
    BY <2>1, SavedIsControl, SavedFields DEF ControlFits
<1>3. QED
  BY <1>1, <1>2 DEF EntryFits, Follows, SaveFits

LEMMA SavedFollows ==
  ASSUME IsControl(entry), NEW p, IsMessage(p), p.text \in SavedTexts,
         ~Breaks(entry.form, entry.name, Sent(entry)), Answer(p, Saved(entry)),
         p.text = "Saved" /\ entry.name = "comment" => entry.control # "quote"
  PROVE  EntryFits' /\ SaveFits
<1>1. page' = p /\ entry' = Saved(entry)
  BY DEF Answer
<1>2. IsSaved(p, Saved(entry))
  BY SavedAsItShows
<1>3. QED
  BY <1>1, <1>2 DEF EntryFits, Follows, SaveFits

LEMMA SaveEntryFollows ==
  ASSUME EntryFits, page.at[1] \in {"PAGE", "ADD", "EDIT", "FORM"}, page.at # A_REQUEST,
         NEW success, IsMessage(success), success.text = "Saved",
         NEW failure, IsMessage(failure), failure.text = "Failed",
         SaveEntry(success, failure)
  PROVE  EntryFits' /\ SaveFits
<1>1. /\ IsControl(entry) /\ ControlFits(page, entry) /\ page.text \notin SavedTexts
      /\ entry.name # "comment"
  BY FormHasControl
<1>2. CASE Answer(failure, NoEntry)
  BY <1>2, PlainFollows DEF IsMessage, SavedTexts
<1>3. CASE ~Breaks(entry.form, entry.name, Sent(entry)) /\ Answer(success, Saved(entry))
  BY <1>1, <1>3, SavedFollows DEF SavedTexts
<1>4. CASE ~Breaks(entry.form, entry.name, Sent(entry)) /\ Unseen(Saved(entry))
  BY <1>1, <1>4, UnseenFollows
<1>5. QED
  BY <1>2, <1>3, <1>4 DEF SaveEntry

\* The handlers that show no control.
LEMMA PlainHandlersFollow ==
  ASSUME \/ SessionTimesOut \/ LogIn \/ Logout \/ ShowMainMenu \/ ShowAdminMenu \/ SwitchBoard
         \/ ClearLocks
         \/ \E f \in Entities \cup Lookups : AddOrEdit(f)
         \/ \E f \in Entities \cup ListedByParent : SelectToContinue(f)
  PROVE  EntryFits' /\ SaveFits
<1> USE PlainTexts, PlainFollows
<1>1. CASE SessionTimesOut \/ LogIn \/ Logout
  BY <1>1 DEF SessionTimesOut, LogIn, Logout, LoginPage, LoginMessage, OutOfOrder, A_MAIN
<1>2. CASE ShowMainMenu \/ ShowAdminMenu
  BY <1>2 DEF ShowMainMenu, ShowAdminMenu, A_MAIN, A_ADMIN
<1>3. CASE SwitchBoard \/ ClearLocks
  BY <1>3 DEF SwitchBoard, ClearLocks, SavedTexts
<1>4. ASSUME NEW f \in Entities \cup Lookups, AddOrEdit(f) PROVE EntryFits' /\ SaveFits
  <2>1. /\ post.to = <<"MENU", f>>
        /\ Answer(Page(post.to, With("oid", MenuOid(post.params))), NoEntry)
    BY <1>4 DEF AddOrEdit
  <2>2. QED
    BY <2>1
<1>5. ASSUME NEW f \in Entities \cup ListedByParent, SelectToContinue(f)
      PROVE  EntryFits' /\ SaveFits
  <2>1. CASE Answer(Message("Failed", A_MAIN), NoEntry)
    BY <2>1 DEF SavedTexts
  <2>2. CASE /\ post.to = <<"SELECT", f>>
             /\ Answer(Page(post.to, With("oid", IF f \in Entities THEN f ELSE Above(f))), NoEntry)
    BY <2>2
  <2>3. QED
    BY <1>5, <2>1, <2>2 DEF SelectToContinue
<1>6. QED
  BY <1>1, <1>2, <1>3, <1>4, <1>5

LEMMA FailureFollows ==
  ASSUME NEW text \in {"Failed", "OutOfOrder"}, NEW next, Answer(Message(text, next), NoEntry)
  PROVE  EntryFits' /\ SaveFits
BY PlainTexts, PlainFollows DEF SavedTexts

LEMMA NewRequestFollows ==
  ASSUME PageFits, PostFits, Admitted, EntryFits,
         (\E n \in {1, 2, 3} : ShowNewRequestPage(n)) \/ SaveNewRequest
  PROVE  EntryFits' /\ SaveFits
<1>1. LeadsTo(page, post)
  BY AdmittedLeads
<1>2. ASSUME NEW n \in {1, 2, 3}, ShowNewRequestPage(n) PROVE EntryFits' /\ SaveFits
  <2> DEFINE p(offered) == Page(post.to, Both(post.params, [m \in offered |-> ClassOfParam[m]]))
  <2>1. /\ post.to = A_NEW_REQUEST_PAGE[n]
        /\ \/ Answer(Message("Failed", A_MAIN), NoEntry)
           \/ \E offered \in Offered[n] :
                IF n = 1 THEN Opens(p(offered), "new_request", NewRequestControls, TRUE)
                ELSE Answer(p(offered), entry)
    BY <1>2 DEF ShowNewRequestPage
  <2>2. \A offered : p(offered).at = post.to /\ p(offered).text \notin SavedTexts
    BY PlainTexts
  <2> HIDE DEF p
  <2>3. post.to[1] = "PAGE"
    BY <2>1 DEF A_NEW_REQUEST_PAGE
  <2>4. ASSUME NEW offered, Opens(p(offered), "new_request", NewRequestControls, TRUE)
        PROVE  EntryFits' /\ SaveFits
    <3>1. "new_request" \in DOMAIN Saves /\ NewRequestControls \in SUBSET NamesOf["new_request"]
      BY DEF Saves, NamesOf
    <3>2. \A e : e.form = "new_request" => ControlFits(p(offered), e)
      BY <2>2, <2>3 DEF ControlFits
    <3>3. QED
      BY <2>2, <2>4, <3>1, <3>2, OpenedFollows
  <2>5. ASSUME NEW offered, n # 1, Answer(p(offered), entry)
        PROVE  EntryFits' /\ SaveFits
    <3>1. page.at[1] = "PAGE" /\ page.at # A_REQUEST
      BY <1>1, <2>1, <2>5 DEF LeadsTo, A_NEW_REQUEST_PAGE, A_REQUEST
    <3>2. IsControl(entry) /\ entry.form = "new_request"
      BY <3>1, FormHasControl
    <3>3. ControlFits(p(offered), entry)
      BY <2>2, <2>3, <3>2 DEF ControlFits
    <3>4. page' = p(offered) /\ entry' = entry
      BY <2>5 DEF Answer
    <3>5. QED
      BY <2>2, <3>2, <3>3, <3>4 DEF EntryFits, Follows, SaveFits
  <2>6. QED
    BY <2>1, <2>4, <2>5, FailureFollows
<1>3. CASE SaveNewRequest
  <2>1. page.at[1] = "PAGE" /\ page.at # A_REQUEST
    BY <1>1, <1>3 DEF SaveNewRequest, LeadsTo, A_NEW_REQUEST_PAGE, A_REQUEST
  <2>2. QED
    BY <1>3, <2>1, PlainTexts, SaveEntryFollows DEF SaveNewRequest
<1>4. QED
  BY <1>2, <1>3

LEMMA RecordFollows ==
  ASSUME ShowRecordAndSummary \/ ShowRequest
  PROVE  EntryFits' /\ SaveFits
<1> USE PlainTexts
<1>1. ASSUME Answer(RecordPage, NoEntry) PROVE EntryFits' /\ SaveFits
  BY <1>1, PlainFollows DEF RecordPage, A_RECORD_REQUEST
<1>2. CASE ShowRecordAndSummary
  BY <1>1, <1>2, FailureFollows, ViewedFollows DEF ShowRecordAndSummary
<1>3. ASSUME NEW text \in {"view", "comment"}, Views(RequestForm(text), ViewNames, ViewOf)
      PROVE  EntryFits' /\ SaveFits
  BY <1>3, ViewedFollows
<1>4. ASSUME NEW text, NEW names, NEW new \in BOOLEAN,
             \/ text = "comment" /\ names = {"comment"} /\ new
             \/ text = "controls" /\ names = {"comment"} /\ new
             \/ text = "controls" /\ names = RequestControls \ {"comment"},
             Opens(RequestForm(text), "request", names, new)
      PROVE  EntryFits' /\ SaveFits
  <2>1. "request" \in DOMAIN Saves /\ names \in SUBSET NamesOf["request"]
    BY <1>4 DEF Saves, NamesOf, RequestControls, RequestTexts
  <2>2. /\ "request" \in DOMAIN RowControls
        /\ new \/ names \subseteq RowControls["request"]
    BY <1>4 DEF RowControls
  <2>3. \A e : e.form = "request" /\ e.name \in names => ControlFits(RequestForm(text), e)
    BY <1>4 DEF ControlFits
  <2>4. RequestForm(text).text \notin SavedTexts
    BY <1>4
  <2>5. QED
    BY <1>4, <2>1, <2>2, <2>3, <2>4, OpenedFollows
<1>5. CASE ShowRequest
  BY <1>1, <1>3, <1>4, <1>5, FailureFollows DEF ShowRequest, CommentForm
<1>6. QED
  BY <1>2, <1>5

LEMMA RequestFollows ==
  ASSUME PageFits, PostFits, Admitted, EntryFits,
         ReprocessRequest \/ SaveRequest \/ SaveCrashes
  PROVE  EntryFits' /\ SaveFits
<1>1. LeadsTo(page, post)
  BY AdmittedLeads
<1>2. CASE ReprocessRequest
  <2>1. page.at = A_REQUEST /\ page.text = "controls"
    BY <1>1, <1>2 DEF ReprocessRequest, LeadsTo
  <2>2. IsControl(entry) /\ entry.form = "request"
    BY <2>1, FormHasControl DEF A_REQUEST
  <2>3. ASSUME CommentForm PROVE EntryFits' /\ SaveFits
    <3>1. /\ "request" \in DOMAIN Saves /\ {"comment"} \in SUBSET NamesOf["request"]
          /\ "request" \in DOMAIN RowControls
      BY DEF Saves, NamesOf, RequestControls, RequestTexts, RowControls
    <3>2. \A e : e.form = "request" /\ e.name \in {"comment"} =>
            ControlFits(RequestForm("comment"), e)
      BY PlainTexts DEF ControlFits
    <3>3. RequestForm("comment").text \notin SavedTexts
      BY PlainTexts
    <3>4. Opens(RequestForm("comment"), "request", {"comment"}, TRUE)
      BY <2>3 DEF CommentForm
    <3>5. QED
      BY <3>1, <3>2, <3>3, <3>4, OpenedFollows
  <2>4. ASSUME NEW control \in ShownAgain(entry.name, entry.stored, entry.control),
               Answer(RequestForm("controls"), ShownEntry(control))
        PROVE  EntryFits' /\ SaveFits
    <3>1. IsControl(ShownEntry(control)) /\ ShownEntry(control).form = "request"
      BY <2>2, ShownAgainIsControl
    <3>2. ControlFits(RequestForm("controls"), ShownEntry(control))
      BY <3>1, PlainTexts DEF ControlFits
    <3>3. page' = RequestForm("controls") /\ entry' = ShownEntry(control)
      BY <2>4 DEF Answer
    <3>4. QED
      BY <3>1, <3>2, <3>3, PlainTexts DEF EntryFits, Follows, SaveFits
  <2>5. QED
    BY <1>2, <2>3, <2>4, FailureFollows DEF ReprocessRequest
<1>3. CASE SaveRequest
  <2>1. page.at = A_REQUEST /\ page.text = "controls"
    BY <1>1, <1>3 DEF SaveRequest, LeadsTo
  <2>2. /\ IsControl(entry) /\ ControlFits(page, entry) /\ page.text \notin SavedTexts
        /\ entry.form = "request"
    BY <2>1, FormHasControl DEF A_REQUEST
  <2>3. ASSUME ~Breaks("request", entry.name, Sent(entry)),
               entry.name = "comment" => entry.control # "quote",
               Answer(Message("Saved", A_MAIN), Saved(entry)) \/ Unseen(Saved(entry))
        PROVE  EntryFits' /\ SaveFits
    BY <2>2, <2>3, PlainTexts, SavedFollows, UnseenFollows DEF SavedTexts
  <2>4. ASSUME ~Breaks("request", entry.name, Sent(entry)),
               Answer(Message("SavedWithoutComment", A_MAIN),
                      IF entry.name = "comment" THEN entry ELSE Saved(entry))
        PROVE  EntryFits' /\ SaveFits
    <3> DEFINE p == Message("SavedWithoutComment", A_MAIN)
    <3>1. IsMessage(p) /\ p.text \in SavedTexts /\ p.text # "Saved"
      BY PlainTexts DEF SavedTexts
    <3> HIDE DEF p
    <3>2. CASE entry.name = "comment"
      <4>1. page' = p /\ entry' = entry
        BY <2>4, <3>2 DEF Answer, p
      <4>2. IsSaved(p, entry)
        BY <2>2, <3>1 DEF IsSaved, IsControl
      <4>3. QED
        BY <3>1, <4>1, <4>2 DEF EntryFits, Follows, SaveFits
    <3>3. CASE entry.name # "comment"
      <4>1. Answer(p, Saved(entry))
        BY <2>4, <3>3 DEF p
      <4>2. QED
        BY <2>2, <2>4, <3>1, <3>3, <4>1, SavedFollows
    <3>4. QED
      BY <3>2, <3>3
  <2>5. QED
    BY <1>3, <2>3, <2>4, FailureFollows DEF SaveRequest
<1>4. CASE SaveCrashes
  BY <1>4 DEF SaveCrashes, Answer, EntryFits, SaveFits
<1>5. QED
  BY <1>2, <1>3, <1>4

LEMMA LookupFollows ==
  ASSUME PageFits, PostFits, Admitted, EntryFits,
         NEW f \in Lookups, AddLookup(f) \/ EditLookup(f) \/ SaveLookup(f)
  PROVE  EntryFits' /\ SaveFits
<1> USE PlainTexts
<1>1. ASSUME NEW verb \in {"ADD", "EDIT"}, NEW params, NEW new \in BOOLEAN,
             Opens(Page(<<verb, f>>, params), "lookup", LookupControls, new)
      PROVE  EntryFits' /\ SaveFits
  <2>1. "lookup" \in DOMAIN Saves /\ LookupControls \in SUBSET NamesOf["lookup"]
    BY DEF Saves, NamesOf
  <2>2. \A e : e.form = "lookup" => ControlFits(Page(<<verb, f>>, params), e)
    BY DEF ControlFits
  <2>3. QED
    BY <1>1, <2>1, <2>2, OpenedFollows
<1>2. CASE AddLookup(f)
  BY <1>1, <1>2, FailureFollows DEF AddLookup
<1>3. CASE EditLookup(f)
  BY <1>1, <1>3, FailureFollows DEF EditLookup
<1>4. CASE SaveLookup(f)
  <2> DEFINE menu == <<"MENU", f>>
  <2> DEFINE fkey == Param(post.params, "fkey")
  <2>1. page.at[1] \in {"ADD", "EDIT"}
    BY <1>4, AdmittedLeads DEF SaveLookup, LeadsTo
  <2>2. page.at[1] \in {"PAGE", "ADD", "EDIT", "FORM"} /\ page.at # A_REQUEST
    BY <2>1 DEF A_REQUEST
  <2>3. ASSUME NEW success \in {Message("Saved", menu),
                                [Message("Saved", menu) EXCEPT !.params = With("fkey", fkey)]},
               SaveEntry(success, Message("Failed", menu))
        PROVE  EntryFits' /\ SaveFits
    <3>1. IsMessage(success) /\ success.text = "Saved"
      BY DEF Message, IsMessage
    <3>2. QED
      BY <2>2, <2>3, <3>1, SaveEntryFollows
  <2>4. QED
    BY <1>4, <2>3, FailureFollows DEF SaveLookup
<1>5. QED
  BY <1>2, <1>3, <1>4

LEMMA EntityFollows ==
  ASSUME PageFits, PostFits, Admitted, EntryFits,
         AdminUser \/ AdminComponent \/ AdminProduct \/ \E f \in Entities : SaveEntity(f)
  PROVE  EntryFits' /\ SaveFits
<1> USE PlainTexts
<1>1. ASSUME NEW f \in Entities, NEW form \in DOMAIN RowControls \cap DOMAIN Saves,
             form = FormOf(f), NEW names, names \subseteq RowControls[form] \cap NamesOf[form],
             NEW namesOfNew, namesOfNew \subseteq NamesOf[form],
             AdminEntity(f, form, names, namesOfNew)
      PROVE  EntryFits' /\ SaveFits
  <2> DEFINE oid == Param(post.params, "oid")
  <2> DEFINE shown == IF oid = None THEN namesOfNew ELSE names
  <2> DEFINE p == Page(post.to, With("oid", oid))
  <2>1. CASE Opens(p, form, shown, oid = None)
    <3>1. p.at = <<"FORM", f>> /\ p.text \notin SavedTexts
      BY <1>1 DEF AdminEntity
    <3>2. \A e : e.form = form => ControlFits(p, e)
      BY <1>1, <3>1 DEF ControlFits
    <3>3. /\ shown \in SUBSET NamesOf[form]
          /\ (oid = None) \/ shown \subseteq RowControls[form]
      BY <1>1
    <3> HIDE DEF p, shown
    <3>4. QED
      BY <2>1, <3>1, <3>2, <3>3, OpenedFollows
  <2>2. QED
    BY <1>1, <2>1, FailureFollows DEF AdminEntity
<1>2. CASE AdminUser
  <2>1. /\ "USER" \in Entities /\ "user" = FormOf("USER")
        /\ "user" \in DOMAIN RowControls \cap DOMAIN Saves
        /\ RowControls["user"] = UserControls /\ NamesOf["user"] = UserControls \cup {"password"}
    BY DEF Entities, FormOf, RowControls, NamesOf, Saves
  <2>2. QED
    BY <1>1, <1>2, <2>1 DEF AdminUser
<1>3. CASE AdminComponent
  <2>1. /\ "COMP" \in Entities /\ "component" = FormOf("COMP")
        /\ "component" \in DOMAIN RowControls \cap DOMAIN Saves
        /\ RowControls["component"] = ComponentControls
        /\ NamesOf["component"] = ComponentControls
    BY DEF Entities, FormOf, RowControls, NamesOf, Saves
  <2>2. QED
    BY <1>1, <1>3, <2>1 DEF AdminComponent
<1>4. CASE AdminProduct
  <2>1. /\ "PRODUCT" \in Entities /\ "product" = FormOf("PRODUCT")
        /\ "product" \in DOMAIN RowControls \cap DOMAIN Saves
        /\ RowControls["product"] = ProductControls /\ NamesOf["product"] = ProductControls
    BY DEF Entities, FormOf, RowControls, NamesOf, Saves
  <2>2. QED
    BY <1>1, <1>4, <2>1 DEF AdminProduct
<1>5. ASSUME NEW f \in Entities, SaveEntity(f) PROVE EntryFits' /\ SaveFits
  <2>1. page.at = <<"FORM", f>>
    BY <1>5, AdmittedLeads DEF SaveEntity, LeadsTo
  <2>2. page.at[1] = "FORM" /\ page.at # A_REQUEST
    BY <2>1, FormActions DEF A_REQUEST
  <2>3. QED
    BY <1>5, <2>2, SaveEntryFollows DEF SaveEntity
<1>6. QED
  BY <1>2, <1>3, <1>4, <1>5

LEMMA SystemFollows ==
  ASSUME PageFits, PostFits, Admitted, EntryFits, AdminSystem \/ SaveSystemUsers
  PROVE  EntryFits' /\ SaveFits
<1> USE PlainTexts
<1>1. CASE AdminSystem
  <2>1. ASSUME Answer(OutOfOrder, NoEntry) PROVE EntryFits' /\ SaveFits
    BY <2>1, PlainFollows DEF OutOfOrder
  <2>2. ASSUME Opens(Page(A_SYS_USERS, Nothing), "system", SystemControls, FALSE)
        PROVE  EntryFits' /\ SaveFits
    <3>1. /\ "system" \in DOMAIN Saves /\ SystemControls \in SUBSET NamesOf["system"]
          /\ "system" \in DOMAIN RowControls /\ SystemControls \subseteq RowControls["system"]
      BY DEF Saves, NamesOf, RowControls
    <3>2. \A e : e.form = "system" => ControlFits(Page(A_SYS_USERS, Nothing), e)
      BY DEF ControlFits
    <3>3. QED
      BY <2>2, <3>1, <3>2, OpenedFollows
  <2>3. QED
    BY <1>1, <2>1, <2>2 DEF AdminSystem
<1>2. CASE SaveSystemUsers
  <2>1. page.at = A_SYS_USERS
    BY <1>2, AdmittedLeads DEF SaveSystemUsers, LeadsTo
  <2>2. page.at[1] = "FORM" /\ page.at # A_REQUEST
    BY <2>1 DEF A_SYS_USERS, A_REQUEST
  <2>3. QED
    BY <1>2, <2>2, SaveEntryFollows DEF SaveSystemUsers
<1>3. QED
  BY <1>1, <1>2

LEMMA HandlersFollow ==
  ASSUME PageFits, PostFits, Admitted, EntryFits, Handle
  PROVE  EntryFits' /\ SaveFits
BY PlainHandlersFollow, NewRequestFollows, RecordFollows, RequestFollows, LookupFollows,
   EntityFollows, SystemFollows DEF Handle

-----------------------------------------------------------------------------
(* Every step keeps it so.                                                 *)

LEMMA EntryInit == Init => EntryFits
BY PlainTexts DEF Init, EntryFits, Follows, LoginPage

LEMMA EntryStep ==
  PageFits /\ PostFits /\ EntryFits /\ [Next]_vars => EntryFits' /\ SaveFits
<1> SUFFICES ASSUME PageFits, PostFits, EntryFits, [Next]_vars PROVE EntryFits' /\ SaveFits
  OBVIOUS
<1>1. ASSUME UNCHANGED <<page, entry>> PROVE EntryFits' /\ SaveFits
  BY <1>1 DEF EntryFits, SaveFits
<1>2. CASE \/ \E b \in Buttons(page) : Press(b)
           \/ Leave \/ CutShort \/ UNCHANGED vars
  BY <1>1, <1>2 DEF Press, Leave, CutShort, vars
<1>3. ASSUME NEW value \in Choices(entry.name), entry # NoEntry, Choose(value)
      PROVE  EntryFits' /\ SaveFits
  <2>1. ~IsText(entry) \/ page.at \notin {A_SUMMARY, A_REQUEST}
    BY <1>3 DEF Choose, HasControl, IsText, A_SUMMARY, A_REQUEST, A_NEW_REQUEST_PAGE
  <2>2. ~IsMessage(page)
    BY <1>3 DEF Choose, HasControl, IsMessage, A_NEW_REQUEST_PAGE
  <2>3. IsControl(entry) /\ ControlFits(page, entry) /\ page.text \notin SavedTexts
    BY <1>3, <2>1, <2>2 DEF EntryFits, Follows
  <2> DEFINE e == [entry EXCEPT !.control = value, !.chosen = value]
  <2>4. IsControl(e)
    BY <2>3, ChosenIsControl
  <2>5. e.form = entry.form /\ e.name = entry.name
    BY <2>3 DEF IsControl, IsEntry, Entry
  <2>6. page' = page /\ entry' = e
    BY <1>3 DEF Choose
  <2> HIDE DEF e
  <2>7. ControlFits(page, e)
    BY <2>3, <2>5 DEF ControlFits
  <2>8. QED
    BY <2>3, <2>4, <2>6, <2>7 DEF EntryFits, Follows, SaveFits
<1>4. CASE Visit
  BY <1>4, PlainTexts DEF Visit, EntryFits, Follows, SaveFits, LoginPage
<1>5. CASE Serve
  <2>1. CASE ConnectionLost
    BY <1>1, <2>1 DEF ConnectionLost, Answer
  <2>2. CASE Admitted /\ Handle
    BY <2>2, HandlersFollow
  <2>3. QED
    BY <1>5, <2>1, <2>2 DEF Serve
<1>6. QED
  BY <1>2, <1>3, <1>4, <1>5 DEF Next

LEMMA AlwaysFollows == Spec => [](PageFits /\ PostFits /\ EntryFits)
<1>1. Init => PageFits /\ PostFits /\ EntryFits
  BY FitsInit, EntryInit
<1>2. PageFits /\ PostFits /\ EntryFits /\ [Next]_vars => (PageFits /\ PostFits /\ EntryFits)'
  BY FitsStep, EntryStep
<1>3. QED
  BY <1>1, <1>2, PTL DEF Spec

\* A handler never changes whether the user wants to be done.
LEMMA HandlersLeave == Serve => UNCHANGED leaving
<1> SUFFICES ASSUME Serve PROVE UNCHANGED leaving
  OBVIOUS
<1>1. ASSUME NEW p, NEW e, Answer(p, e) PROVE UNCHANGED leaving
  BY <1>1 DEF Answer
<1>2. ASSUME NEW p, NEW form, NEW names, NEW new, Opens(p, form, names, new)
      PROVE  UNCHANGED leaving
  BY <1>1, <1>2 DEF Opens
<1>3. ASSUME NEW success, NEW failure, SaveEntry(success, failure) PROVE UNCHANGED leaving
  BY <1>1, <1>3 DEF SaveEntry, Unseen
<1>4. CASE ConnectionLost
  BY <1>1, <1>4 DEF ConnectionLost
<1>5. CASE \/ SessionTimesOut \/ LogIn \/ Logout \/ ShowMainMenu \/ ShowAdminMenu \/ SwitchBoard
           \/ \E f \in Entities \cup Lookups : AddOrEdit(f)
           \/ \E f \in Entities \cup ListedByParent : SelectToContinue(f)
           \/ ClearLocks
  BY <1>1, <1>5 DEF SessionTimesOut, LogIn, Logout, ShowMainMenu, ShowAdminMenu, SwitchBoard,
     AddOrEdit, SelectToContinue, ClearLocks
<1>6. CASE (\E n \in {1, 2, 3} : ShowNewRequestPage(n)) \/ SaveNewRequest
  BY <1>1, <1>2, <1>3, <1>6 DEF ShowNewRequestPage, SaveNewRequest
<1>7. CASE ShowRecordAndSummary \/ ShowRequest
  BY <1>1, <1>2, <1>7 DEF ShowRecordAndSummary, ShowRequest, CommentForm, Views
<1>8. CASE ReprocessRequest \/ SaveRequest \/ SaveCrashes
  BY <1>1, <1>2, <1>8 DEF ReprocessRequest, CommentForm, SaveRequest, SaveCrashes, Unseen
<1>9. CASE \E f \in Lookups : AddLookup(f) \/ EditLookup(f) \/ SaveLookup(f)
  BY <1>1, <1>2, <1>3, <1>9 DEF AddLookup, EditLookup, SaveLookup
<1>10. CASE \/ AdminUser \/ AdminComponent \/ AdminProduct
            \/ \E f \in Entities : SaveEntity(f)
            \/ AdminSystem \/ SaveSystemUsers
  BY <1>1, <1>2, <1>3, <1>10 DEF AdminUser, AdminComponent, AdminProduct, AdminEntity, SaveEntity,
     AdminSystem, SaveSystemUsers
<1>11. QED
  BY <1>4, <1>5, <1>6, <1>7, <1>8, <1>9, <1>10 DEF Serve, Handle

LeavingFits == leaving \in BOOLEAN

LEMMA LeavingIsFlag == Spec => []LeavingFits
<1>1. Init => LeavingFits
  BY DEF Init, LeavingFits
<1>2. LeavingFits /\ [Next]_vars => LeavingFits'
  BY HandlersLeave DEF LeavingFits, Next, Press, Choose, Leave, Visit, CutShort, vars
<1>3. QED
  BY <1>1, <1>2, PTL DEF Spec

\* Pages, posts and the control are what the handlers know, over every chain of
\* pages (form.c, form_menus.c, form_admin.c and form_request.c).
THEOREM Typing == Spec => []TypeOK
<1>1. PageFits /\ PostFits /\ EntryFits /\ LeavingFits => TypeOK
  <2> SUFFICES ASSUME PageFits, PostFits, EntryFits, LeavingFits PROVE TypeOK
    OBVIOUS
  <2>1. IsParams(page.params) /\ (post # NoPost => IsParams(post.params))
    BY PageHasParams, PostHasParams
  <2>2. entry # NoEntry => IsEntry(entry)
    BY DEF EntryFits, Follows, IsText, IsControl, IsSaved
  <2>3. QED
    BY <2>1, <2>2 DEF TypeOK, IsEntry, Entry, LeavingFits
<1>2. QED
  BY <1>1, AlwaysFollows, LeavingIsFlag, PTL

\* What the user chose last is in the column after "Saved", for every control
\* of every form that arrives, and however often a request was shown again
\* (h_sh_request and h_ph_request of form_request.c, save_request of db_shrs.c).
THEOREM ChosenIsSaved == Spec => []SavedAsChosen
<1>1. EntryFits => SavedAsChosen
  BY DEF EntryFits, Follows, SavedTexts, IsSaved, SavedAsChosen
<1>2. QED
  BY <1>1, AlwaysFollows, PTL

\* What a page shows of a request is what is stored: every column is read where
\* its query has it, and a revision is named as itself or not at all.
THEOREM ViewsAlwaysTell == Spec => []ViewsTell
<1>1. EntryFits => ViewsTell
  BY DEF EntryFits, Follows, IsText, IsControl, IsSaved, ViewsTell
<1>2. QED
  BY <1>1, AlwaysFollows, PTL

\* No save changes a column whose control the user did not touch, apart from
\* the checkbox, the box for a new value and the lists of what belongs to
\* something else.
THEOREM UntouchedIsKept == Spec => UntouchedStays
<1>1. PageFits /\ PostFits /\ EntryFits /\ [Next]_vars
        => [page'.text \in {"Saved", "SavedWithoutComment"} /\ entry.chosen = "Untouched"
            /\ entry.stored # NoValue /\ entry.form # "lookup"
            /\ entry.name \notin DependentLists \cup {"is_active"}
              => entry'.stored = entry.stored]_vars
  BY EntryStep, SavedAsItWas DEF SaveFits, SavedTexts
<1>2. QED
  BY <1>1, AlwaysFollows, PTL DEF Spec, UntouchedStays
=============================================================================
