----------------------------- MODULE FieldsProofs -----------------------------
(***************************************************************************)
(* Theorems about the operators of Fields, for any entries of the lists    *)
(* and any words: where a column is read, what a control shows of it and   *)
(* what a save makes of the control.                                       *)
(***************************************************************************)
EXTENDS Fields, TLAPS

-----------------------------------------------------------------------------
(* Where a column is read.                                                 *)

LEMMA RequestPositions ==
  \A column \in DOMAIN RequestAt :
    RequestQuery[RequestAt[column] + 1] = column /\ RequestAt[column] \in 0 .. 42
BY DEF RequestQuery, RequestAt

LEMMA SummaryPositions ==
  \A column \in DOMAIN SummaryAt :
    SummaryQuery[SummaryAt[column] + 1] = column /\ SummaryAt[column] \in 0 .. 8
BY DEF SummaryQuery, SummaryAt

LEMMA UserPositions ==
  \A column \in DOMAIN UserAt :
    UserQuery[UserAt[column] + 1] = column /\ UserAt[column] \in 0 .. 5
BY DEF UserQuery, UserAt

LEMMA ComponentPositions ==
  \A column \in DOMAIN ComponentAt :
    ComponentQuery[ComponentAt[column] + 1] = column /\ ComponentAt[column] \in 0 .. 2
BY DEF ComponentQuery, ComponentAt

LEMMA SystemPositions ==
  \A column \in DOMAIN SystemAt :
    SystemQuery[SystemAt[column] + 1] = column /\ SystemAt[column] \in 0 .. 2
BY DEF SystemQuery, SystemAt

LEMMA Lengths ==
  /\ Len(RequestQuery) = 43 /\ Len(SummaryQuery) = 9 /\ Len(UserQuery) = 6
  /\ Len(ComponentQuery) = 3 /\ Len(SystemQuery) = 3 /\ Len(EntryQuery) = 1
BY DEF RequestQuery, SummaryQuery, UserQuery, ComponentQuery, SystemQuery, EntryQuery

LEMMA Queries ==
  /\ DOMAIN Query = {"request", "summary", "user", "component", "system", "product"}
  /\ Query["request"] = RequestQuery /\ Query["summary"] = SummaryQuery
  /\ Query["user"] = UserQuery /\ Query["component"] = ComponentQuery
  /\ Query["system"] = SystemQuery /\ Query["product"] = EntryQuery
  /\ ReadAt["request"] = RequestAt /\ ReadAt["summary"] = SummaryAt
  /\ ReadAt["user"] = UserAt /\ ReadAt["component"] = ComponentAt
  /\ ReadAt["system"] = SystemAt /\ ReadAt["product"] = [value |-> 0]
BY DEF Query, ReadAt

LEMMA Widths ==
  /\ Width("request") = 43 /\ Width("summary") = 9 /\ Width("user") = 6
  /\ Width("component") = 3 /\ Width("system") = 3 /\ Width("product") = 1
<1>1. /\ Declared["request"] = 42 /\ Declared["summary"] = 9 /\ Declared["user"] = 6
      /\ Declared["component"] = 3 /\ Declared["system"] = 3 /\ Declared["product"] = 1
  BY DEF Declared
<1>2. ASSUME NEW query, NEW declared \in Nat, NEW length \in Nat,
             Declared[query] = declared, Len(Query[query]) = length
      PROVE  Width(query) = IF declared < length THEN length ELSE declared
  BY <1>2 DEF Width
<1>3. /\ Len(Query["request"]) = 43 /\ Len(Query["summary"]) = 9 /\ Len(Query["user"]) = 6
      /\ Len(Query["component"]) = 3 /\ Len(Query["system"]) = 3 /\ Len(Query["product"]) = 1
  BY Lengths, Queries
<1>4. Width("request") = IF 42 < 43 THEN 43 ELSE 42
  BY <1>1, <1>2, <1>3
<1>5. ASSUME NEW query, NEW n \in Nat, Declared[query] = n, Len(Query[query]) = n
      PROVE  Width(query) = n
  BY <1>5, <1>2
<1>6. 9 \in Nat /\ 6 \in Nat /\ 3 \in Nat /\ 1 \in Nat
  OBVIOUS
<1>7. Width("summary") = 9 /\ Width("user") = 6
  BY <1>1, <1>3, <1>5, <1>6
<1>8. Width("component") = 3 /\ Width("system") = 3 /\ Width("product") = 1
  BY <1>1, <1>3, <1>5, <1>6
<1>9. QED
  BY <1>4, <1>7, <1>8

\* Every column is read where its query has it, and no row is too narrow for
\* it, although queries and positions are written down apart from each other
\* (db_shrs.c, form_request.c, form_summary.c, form_admin.c).
THEOREM ReadWhereItStands ==
  \A query \in DOMAIN Query : \A column \in DOMAIN ReadAt[query] :
    /\ Query[query][ReadAt[query][column] + 1] = column
    /\ ReadAt[query][column] \in 0 .. Width(query) - 1
<1>1. ASSUME NEW column \in DOMAIN [value |-> 0]
      PROVE  EntryQuery[[value |-> 0][column] + 1] = column /\ [value |-> 0][column] \in 0 .. 0
  BY DEF EntryQuery
<1>2. QED
  BY <1>1, Queries, Widths, RequestPositions, SummaryPositions, UserPositions,
     ComponentPositions, SystemPositions

LEMMA ReadsTheColumn ==
  ASSUME NEW query \in DOMAIN Query, NEW column \in DOMAIN ReadAt[query], NEW name, NEW stored
  PROVE  Read(query, column, name, stored) =
           IF column = "release_date" THEN format_date(stored) ELSE {stored}
<1> DEFINE at == ReadAt[query][column]
<1>1. Query[query][at + 1] = column /\ at \in 0 .. Width(query) - 1
  BY ReadWhereItStands
<1>2. Width(query) \in Nat
  BY Queries, Widths
<1>3. ~(at >= Width(query))
  BY <1>1, <1>2
<1>4. QED
  BY <1>1, <1>3 DEF Read

-----------------------------------------------------------------------------
(* What a control can be, and what a column.                               *)

\* No column has a quote, and only the flag has what a checkbox sends.
InColumn(name) == {v \in Value \ {"quote"} : v = "off" => name = "is_active"}

LEMMA ChoicesAreValues ==
  ASSUME NEW name
  PROVE  /\ Choices(name) \subseteq Value
         /\ "off" \in Choices(name) => name = "is_active"
         /\ "quote" \in Choices(name) => name \in TextNames \cup AreaNames
         /\ "Untouched" \notin Choices(name) /\ NoValue \notin Choices(name)
         /\ Choices(name) \ {"quote"} \subseteq InColumn(name)
BY FieldsAssumption DEF Choices, Value, Texts, Empty, NoValue, InColumn

LEMMA RowsAreColumns ==
  ASSUME NEW name
  PROVE  InRow(name) \subseteq InColumn(name) /\ NoValue \notin InRow(name)
BY FieldsAssumption, ChoicesAreValues
   DEF InRow, InColumn, Value, Texts, Empty, NoValue

LEMMA BlankIsColumn ==
  ASSUME NEW name
  PROVE  Blank(name) \in InColumn(name)
BY FieldsAssumption DEF Blank, InColumn, Value, Texts, Empty, NoValue

LEMMA ReadIsColumn ==
  ASSUME NEW query \in DOMAIN Query, NEW column \in DOMAIN ReadAt[query],
         NEW name, NEW stored \in InColumn(name)
  PROVE  Read(query, column, name, stored) \subseteq InColumn(name)
BY ReadsTheColumn, FieldsAssumption DEF format_date, InColumn, Value, Texts, Empty, NoValue

-----------------------------------------------------------------------------
(* What a form shows of a column.                                          *)

\* The controls of the forms that are shown for a row.
RowControls ==
  [request |-> RequestControls \ {"comment"}, user |-> UserControls,
   component |-> ComponentControls, system |-> SystemControls, product |-> ProductControls]

LEMMA FormsHaveColumns ==
  ASSUME NEW form \in DOMAIN RowControls, NEW name \in RowControls[form] \ DependentLists
  PROVE  form \in DOMAIN Query /\ name \in DOMAIN ReadAt[form]
<1>1. RequestControls \ ({"comment"} \cup DependentLists) \subseteq DOMAIN RequestAt
  BY DEF RequestControls, RequestLists, RequestTexts, RequestAt
<1>2. UserControls \subseteq DOMAIN UserAt
  BY DEF UserControls, UserAt
<1>3. ComponentControls \subseteq DOMAIN ComponentAt
  BY DEF ComponentControls, ComponentAt
<1>4. SystemControls \subseteq DOMAIN SystemAt
  BY DEF SystemControls, SystemAt
<1>5. ProductControls \subseteq DOMAIN [value |-> 0]
  BY DEF ProductControls
<1>6. QED
  BY <1>1, <1>2, <1>3, <1>4, <1>5, Queries DEF RowControls

LEMMA ShownIsColumn ==
  ASSUME NEW form, NEW name, NEW stored \in InColumn(name),
         \/ stored = NoValue \/ form = "lookup"
         \/ form \in DOMAIN RowControls /\ name \in RowControls[form]
  PROVE  Shown(form, name, stored) \subseteq InColumn(name)
<1>1. CASE stored = NoValue \/ name = "is_active" \/ form = "lookup"
  BY <1>1, BlankIsColumn DEF Shown
<1>2. CASE ~(stored = NoValue \/ name = "is_active" \/ form = "lookup")
  <2>1. Shown(form, name, stored) = SelectedOf(form, name, stored)
    BY <1>2 DEF Shown
  <2>2. CASE name \in DependentLists
    <3>0. form # "system"
      BY <1>2, <2>2 DEF RowControls, SystemControls, DependentLists
    <3>1. SelectedOf(form, name, stored) = Items
      BY <2>2, <3>0 DEF SelectedOf
    <3>2. Items \subseteq InColumn(name)
      BY FieldsAssumption DEF InColumn, Value
    <3>3. QED
      BY <2>1, <3>1, <3>2
  <2>3. CASE name \notin DependentLists
    <3>1. Read(form, name, name, stored) \subseteq InColumn(name)
      BY <1>2, <2>3, FormsHaveColumns, ReadIsColumn
    <3>2. NoValue \in InColumn(name)
      BY DEF InColumn, Value, NoValue
    <3>3. SelectedOf(form, name, stored) \subseteq Read(form, name, name, stored) \cup {NoValue}
      BY <2>3 DEF SelectedOf
    <3>4. QED
      BY <2>1, <3>1, <3>2, <3>3
  <2>4. QED
    BY <2>2, <2>3
<1>3. QED
  BY <1>1, <1>2

\* Apart from the lists of what belongs to something else, the checkbox and the
\* date, a form shows the column, or nothing.
LEMMA ShownIsStored ==
  ASSUME NEW form \in DOMAIN RowControls, NEW name \in RowControls[form] \ DependentLists,
         name \notin {"is_active", "release_date"}, NEW stored, stored # NoValue
  PROVE  Shown(form, name, stored) \subseteq {stored, NoValue}
<1>1. Read(form, name, name, stored) = {stored}
  BY FormsHaveColumns, ReadsTheColumn
<1>2. form # "lookup"
  BY DEF RowControls
<1>3. QED
  BY <1>1, <1>2 DEF Shown, SelectedOf

\* A form that is shown again has of a control what was sent of it.
LEMMA ShownAgainIs ==
  ASSUME NEW name \in RequestControls, NEW stored, NEW sent, NEW c \in ShownAgain(name, stored, sent)
  PROVE  \/ name \notin ReprocessReads /\ c \in Shown("request", name, stored)
         \/ name \in ReprocessReads \cap DependentLists /\ c \in Items
         \/ name \in ReprocessReads \ DependentLists /\ sent = "quote" /\ c = "cut"
         \/ name \in ReprocessReads \ DependentLists /\ sent # "quote" /\ c = sent
BY DEF ShownAgain

LEMMA ShownAgainIsColumn ==
  ASSUME NEW name \in RequestControls, NEW stored \in InColumn(name),
         name = "comment" => stored = NoValue,
         NEW sent \in Value, sent = "off" => name = "is_active"
  PROVE  ShownAgain(name, stored, sent) \subseteq InColumn(name)
<1>1. Shown("request", name, stored) \subseteq InColumn(name)
  <2>1. name # "comment" => "request" \in DOMAIN RowControls /\ name \in RowControls["request"]
    BY DEF RowControls
  <2>2. QED
    BY <2>1, ShownIsColumn
<1>2. Items \cup {"cut"} \subseteq InColumn(name)
  BY FieldsAssumption DEF InColumn, Value
<1>3. sent # "quote" => sent \in InColumn(name)
  BY DEF InColumn
<1>4. QED
  BY <1>1, <1>2, <1>3, ShownAgainIs

-----------------------------------------------------------------------------
(* What a save makes of a control.                                         *)

LEMMA StoredIsColumn ==
  ASSUME NEW form \in DOMAIN Saves, NEW name, NEW stored \in InColumn(name),
         NEW sent \in Value, sent # "off", ~Breaks(form, name, sent)
  PROVE  Stored(form, name, stored, sent) \in InColumn(name)
<1>1. CASE name \notin Saves[form]
  BY <1>1, BlankIsColumn DEF Stored
<1>2. CASE name \in Saves[form] /\ name = "is_active"
  <2>1. {"on", "off"} \subseteq InColumn(name)
    BY <1>2 DEF InColumn, Value
  <2>2. QED
    BY <1>2, <2>1 DEF Stored
<1>3. CASE name \in Saves[form] /\ name # "is_active"
  <2>1. Stored(form, name, stored, sent) \in {stored, sent}
    BY <1>3 DEF Stored
  <2>2. name # "comment" => sent # "quote"
    BY <1>3 DEF Breaks
  <2>3. name = "comment" /\ sent = "quote" => Stored(form, name, stored, sent) = stored
    BY <1>3 DEF Stored
  <2>4. sent # "quote" => sent \in InColumn(name)
    BY DEF InColumn
  <2>5. QED
    BY <2>1, <2>2, <2>3, <2>4
<1>4. QED
  BY <1>1, <1>2, <1>3

\* A control that shows the column, or nothing, leaves the column as it was.
LEMMA StoredAsShown ==
  ASSUME NEW form \in DOMAIN Saves, NEW name, name # "is_active", NEW stored, stored # NoValue,
         NEW sent, name \in Saves[form] => sent \in {stored, NoValue}, ~Breaks(form, name, sent)
  PROVE  Stored(form, name, stored, sent) = stored
BY DEF Stored, Breaks

\* A control that is of the column, and shows what was chosen, saves it, but
\* for an empty level of effort and a comment that is none.
LEMMA StoredAsChosen ==
  ASSUME NEW form \in DOMAIN Saves, NEW name \in Saves[form], name # "is_active", NEW stored,
         NEW sent, ~Breaks(form, name, sent)
  PROVE  \/ Stored(form, name, stored, sent) = sent
         \/ name = "level_of_effort" /\ sent = Empty
         \/ name = "comment" /\ sent \in {Empty, "quote"}
BY DEF Stored, Breaks
=============================================================================
