----------------------------- MODULE PagesProofs -----------------------------
(***************************************************************************)
(* Theorems about Pages, for any entries of the lists and any words.       *)
(*                                                                         *)
(* First what travels: the parameters of each kind of page, and with them  *)
(* what may be sent to each handler.                                       *)
(***************************************************************************)
EXTENDS Pages, TLAPS

-----------------------------------------------------------------------------
(* What each kind of page carries.                                         *)

\* What a number is of that comes with the menu of f, or with a form of it.  A
\* list that is shown whole asks for none, and may have one left over.
Fitting(f) == IF f \in ListedByParent THEN {None, Above(f)} ELSE Oids \cup {None}

MenuFits(p) ==
  \/ /\ p.at \in {A_MAIN, A_ADMIN} \cup {<<"MENU", f>> : f \in Entities}
     /\ p.params = Nothing
  \/ \E f \in Lookups : \E oid \in Fitting(f) :
       p.at = <<"MENU", f>> /\ p.params = With("oid", oid)

SelectFits(p) ==
  \/ \E f \in Entities : p.at = <<"SELECT", f>> /\ p.params = With("oid", f)
  \/ \E f \in ListedByParent : p.at = <<"SELECT", f>> /\ p.params = With("oid", Above(f))

AddFits(p) ==
  \E f \in Lookups : \E fkey \in Fitting(f) :
    p.at = <<"ADD", f>> /\ p.params = With("fkey", fkey)

EditFits(p) ==
  \E f \in Lookups : \E fkey \in Fitting(f) :
    /\ p.at = <<"EDIT", f>>
    /\ p.params = Both(With("oid", f), With("fkey", fkey))
    /\ f \in ListedByParent => fkey # None

FormFits(p) ==
  \/ \E f \in Entities : \E oid \in {None, f} :
       p.at = <<"FORM", f>> /\ p.params = With("oid", oid)
  \/ p.at = A_SYS_USERS /\ p.params = Nothing
  \/ /\ p.at = A_REQUEST
     /\ p.params = With("request_oid", "REQUEST")
     /\ p.text \in {"view", "comment", "controls"}

\* A page of a new request has what the pages before it required.
NewRequestFits(p) ==
  \E n \in 1 .. 3 :
    /\ p.at = A_NEW_REQUEST_PAGE[n]
    /\ DOMAIN p.params \subseteq DOMAIN ClassOfParam
    /\ Required[n] \subseteq DOMAIN p.params
    /\ \A m \in DOMAIN p.params : p.params[m] = ClassOfParam[m]

MessageFits(p) ==
  /\ IsMessage(p)
  /\ \/ /\ p.params = Nothing
        /\ p.next \in {A_MAIN, A_ADMIN, A_LOGIN, A_SYS_USERS}
                       \cup {<<"MENU", f>> : f \in Entities \cup Lookups}
     \/ \E f \in Keyed : \E fkey \in Fitting(f) \ {None} :
          p.next = <<"MENU", f>> /\ p.params = With("fkey", fkey)

OtherFits(p) ==
  \/ p.at \in {<<"LOGIN", "page">>, <<"LOGIN", "message">>, <<"OUT_OF_ORDER", None>>}
     /\ p.params = Nothing
  \/ p.at \in {A_RECORD_REQUEST, A_SUMMARY} /\ p.params = With("requested_oid", "REQUEST")

\* Every page is of a kind that a handler shows, and has what that kind has.
Fits(p) ==
  \/ MenuFits(p) \/ SelectFits(p) \/ AddFits(p) \/ EditFits(p)
  \/ FormFits(p) \/ NewRequestFits(p) \/ MessageFits(p) \/ OtherFits(p)

PageFits == Fits(page)

\* What is sent is what a button of the page sends, or the first parts of it.
Part(p, b, n) ==
  [to |-> b.to, closes |-> b.closes, parts |-> SubSeq(Parts(p), 1, n),
   params |-> IF \E i \in 1 .. n : Parts(p)[i] = "hidden" THEN b.params ELSE Nothing]

PostFits ==
  post # NoPost => \E b \in Buttons(page), n \in 0 .. Len(Parts(page)) : post = Part(page, b, n)

\* What is sent to a handler when all of it arrives.
Sends(to, params) ==
  /\ IsParams(params)
  /\ to[1] \in {"FORM", "SAVE"} => Param(params, "oid") \in {None, to[2]}
  /\ to[1] = "MENU" /\ to[2] \in Entities => params = Nothing
  /\ to[2] \in Lookups =>
       /\ to[1] = "MENU" => MenuOid(params) \in Fitting(to[2])
       /\ to[1] \in {"ADD", "EDIT"} => Param(params, "oid") \in Fitting(to[2])
       /\ to[1] = "SAVE" => Param(params, "fkey") \in Fitting(to[2])
  /\ to = A_REQUEST =>
       "REQUEST" \in {Param(params, "requested_oid"), Param(params, "request_oid")}
  /\ \A n \in 1 .. 3 : to = A_NEW_REQUEST_PAGE[n] =>
       DOMAIN params \subseteq DOMAIN ClassOfParam /\ \A m \in DOMAIN params : params[m] = ClassOfParam[m]
  /\ to = A_SAVE_NEW_REQUEST => DOMAIN ClassOfParam \subseteq DOMAIN params

-----------------------------------------------------------------------------
(* The operators on parameters.                                            *)

LEMMA OidsAreSome == None \notin Oids
BY DEF None, Oids, Entities, Lookups, Keyed, OfComponents, OfProducts, Tags

LEMMA ParamOfNothing ==
  /\ IsParams(Nothing) /\ DOMAIN Nothing = {}
  /\ \A n : Param(Nothing, n) = None
BY DEF IsParams, Nothing, Param

LEMMA ParamOfWith ==
  ASSUME NEW n \in OidNames, NEW value \in Oids \cup {None}
  PROVE  /\ IsParams(With(n, value))
         /\ \A m : Param(With(n, value), m) = IF m = n THEN value ELSE None
BY OidsAreSome, ParamOfNothing DEF IsParams, With, Param, Nothing

LEMMA ParamOfBoth ==
  ASSUME NEW p, NEW q, IsParams(p), IsParams(q)
  PROVE  /\ IsParams(Both(p, q))
         /\ \A m : Param(Both(p, q), m) = IF m \in DOMAIN p THEN p[m] ELSE Param(q, m)
BY DEF IsParams, Both, Param

LEMMA FittingOids ==
  ASSUME NEW f \in Lookups
  PROVE  Fitting(f) \subseteq Oids \cup {None} /\ f \in Oids /\ None \in Fitting(f)
BY DEF Fitting, Above, Oids, Entities, Lookups, Keyed, ListedByParent, OfComponents, OfProducts

-----------------------------------------------------------------------------
(* What the buttons of a page of each kind send.                           *)

LEMMA ButtonFields ==
  ASSUME NEW p, NEW to
  PROVE  /\ Submit(p, to).to = to /\ Submit(p, to).params = p.params
         /\ SubmitToClose(p, to).to = to /\ SubmitToClose(p, to).params = p.params
         /\ Close(p, to).to = to /\ Close(p, to).params = Nothing
BY DEF Submit, SubmitToClose, Close

LEMMA FormActions ==
  ASSUME NEW f \in Lookups \cup Entities
  PROVE  /\ f \notin {"MAIN", "ADMIN", "REQUEST", "NEW_REQUEST", "SYSTEM", "LOCKS", None, "page"}
         /\ f \in Lookups <=> f \notin Entities
         /\ f \in Entities <=> f \in {"USER", "COMP", "PRODUCT"}
BY DEF None, Entities, Lookups, Keyed, Tags, OfComponents, OfProducts

\* What has no parameters can be sent to any handler but two.
LEMMA NothingSent ==
  ASSUME NEW to, to \notin {A_REQUEST, A_SAVE_NEW_REQUEST}
  PROVE  Sends(to, Nothing)
BY ParamOfNothing, FittingOids DEF Sends, MenuOid

LEMMA MenuSends ==
  ASSUME NEW p, MenuFits(p), NEW b \in Buttons(p)
  PROVE  Sends(b.to, b.params)
<1> USE ButtonFields
<1>1. CASE p.at = A_MAIN /\ p.params = Nothing
  <2>1. b.params = Nothing /\ b.to \in MainMenuActions \cup {A_LOGOUT}
    BY <1>1 DEF A_MAIN, Buttons, MenuButtons
  <2>2. b.to \notin {A_REQUEST, A_SAVE_NEW_REQUEST}
    BY <2>1 DEF MainMenuActions, NotImplemented, A_NEW_REQUEST_PAGE, A_RECORD_REQUEST,
       A_SUMMARY, A_ADMIN, A_LOGOUT, A_REQUEST, A_SAVE_NEW_REQUEST
  <2>3. QED
    BY <2>1, <2>2, NothingSent
<1>2. CASE p.at = A_ADMIN /\ p.params = Nothing
  <2>1. b.params = Nothing /\ b.to \in AdminMenuActions \cup {A_MAIN}
    BY <1>2 DEF A_ADMIN, Buttons, MenuButtons
  <2>2. b.to \notin {A_REQUEST, A_SAVE_NEW_REQUEST}
    BY <2>1 DEF AdminMenuActions, A_SYS_USERS, A_MAIN, A_REQUEST, A_SAVE_NEW_REQUEST
  <2>3. QED
    BY <2>1, <2>2, NothingSent
<1>3. ASSUME NEW f \in Entities, p.at = <<"MENU", f>>, p.params = Nothing
      PROVE  Sends(b.to, b.params)
  <2>1. /\ b.params = Nothing
        /\ b.to \in {<<"FORM", f>>, <<"SELECT", f>>, MenuAbove(f)}
    BY <1>3, FormActions DEF Buttons, MenuButtons, AddAction, EditAction
  <2>2. b.to \notin {A_REQUEST, A_SAVE_NEW_REQUEST}
    BY <2>1, FormActions DEF MenuAbove, Above, A_ADMIN, A_REQUEST, A_SAVE_NEW_REQUEST
  <2>3. QED
    BY <2>1, <2>2, NothingSent
<1>4. ASSUME NEW f \in Lookups, NEW oid \in Fitting(f),
             p.at = <<"MENU", f>>, p.params = With("oid", oid)
      PROVE  Sends(b.to, b.params)
  <2>1. \/ b.to = MenuAbove(f) /\ b.params = Nothing
        \/ b.to \in {<<"ADD", f>>, <<"EDIT", f>>} /\ b.params = With("oid", oid)
    BY <1>4, FormActions DEF Buttons, MenuButtons, AddAction, EditAction
  <2>2. MenuAbove(f) \notin {A_REQUEST, A_SAVE_NEW_REQUEST}
    BY DEF MenuAbove, Above, A_ADMIN, A_REQUEST, A_SAVE_NEW_REQUEST
  <2>3. ASSUME NEW verb \in {"ADD", "EDIT"} PROVE Sends(<<verb, f>>, With("oid", oid))
    <3>1. "oid" \in OidNames /\ oid \in Oids \cup {None}
      BY FittingOids DEF OidNames
    <3>2. QED
      BY <3>1, ParamOfWith DEF Sends, A_SYS_USERS, A_SAVE_SYS_USERS, A_SAVE_REQUEST, A_REQUEST,
         A_SAVE_NEW_REQUEST, A_NEW_REQUEST_PAGE
  <2>4. QED
    BY <2>1, <2>2, <2>3, NothingSent
<1>5. QED
  BY <1>1, <1>2, <1>3, <1>4 DEF MenuFits

LEMMA SelectSends ==
  ASSUME NEW p, SelectFits(p), NEW b \in Buttons(p)
  PROVE  Sends(b.to, b.params)
<1> USE ButtonFields
<1>1. ASSUME NEW f \in Entities, p.at = <<"SELECT", f>>, p.params = With("oid", f)
      PROVE  Sends(b.to, b.params)
  <2>1. \/ b.to = <<"MENU", f>> /\ b.params = Nothing
        \/ b.to = <<"FORM", f>> /\ b.params = With("oid", f)
    BY <1>1 DEF Buttons
  <2>2. Sends(<<"FORM", f>>, With("oid", f))
    <3>1. "oid" \in OidNames /\ f \in Oids
      BY DEF OidNames, Oids
    <3>2. QED
      BY <3>1, ParamOfWith, FormActions DEF Sends, A_SYS_USERS, A_SAVE_SYS_USERS,
         A_SAVE_REQUEST, A_REQUEST, A_SAVE_NEW_REQUEST, A_NEW_REQUEST_PAGE
  <2>3. QED
    BY <2>1, <2>2, NothingSent, FormActions DEF A_REQUEST, A_SAVE_NEW_REQUEST
<1>2. ASSUME NEW f \in ListedByParent, p.at = <<"SELECT", f>>, p.params = With("oid", Above(f))
      PROVE  Sends(b.to, b.params)
  <2>0. f \in Lookups /\ f \notin Entities
    BY FormActions DEF Lookups, ListedByParent
  <2>1. \/ b.to = A_ADMIN /\ b.params = Nothing
        \/ b.to = <<"MENU", f>> /\ b.params = With("oid", Above(f))
    BY <1>2, <2>0 DEF Buttons
  <2>2. Sends(<<"MENU", f>>, With("oid", Above(f)))
    <3>1. "oid" \in OidNames /\ Above(f) \in Oids /\ Above(f) \in Fitting(f)
      BY DEF OidNames, Oids, Above, Entities, Fitting
    <3>2. MenuOid(With("oid", Above(f))) = Above(f)
      BY <3>1, ParamOfWith DEF MenuOid
    <3>3. QED
      BY <2>0, <3>1, <3>2, ParamOfWith, FormActions DEF Sends, A_SYS_USERS, A_SAVE_SYS_USERS,
         A_SAVE_REQUEST, A_REQUEST, A_SAVE_NEW_REQUEST, A_NEW_REQUEST_PAGE
  <2>3. QED
    BY <2>1, <2>2, NothingSent DEF A_ADMIN, A_REQUEST, A_SAVE_NEW_REQUEST
<1>3. QED
  BY <1>1, <1>2 DEF SelectFits

\* The forms of an entry close by a button that sends what they have.
LEMMA AddSends ==
  ASSUME NEW p, AddFits(p), NEW b \in Buttons(p)
  PROVE  Sends(b.to, b.params)
<1> SUFFICES ASSUME NEW f \in Lookups, NEW fkey \in Fitting(f),
                    p.at = <<"ADD", f>>, p.params = With("fkey", fkey)
             PROVE  Sends(b.to, b.params)
  BY DEF AddFits
<1>1. b.to \in {<<"SAVE", f>>, <<"MENU", f>>} /\ b.params = With("fkey", fkey)
  BY ButtonFields DEF Buttons
<1>2. "fkey" \in OidNames /\ fkey \in Oids \cup {None}
  BY FittingOids DEF OidNames
<1>3. MenuOid(With("fkey", fkey)) = fkey
  BY <1>2, ParamOfWith DEF MenuOid
<1>4. QED
  BY <1>1, <1>2, <1>3, ParamOfWith, FormActions DEF Sends, A_SYS_USERS, A_SAVE_SYS_USERS,
     A_SAVE_REQUEST, A_REQUEST, A_SAVE_NEW_REQUEST, A_NEW_REQUEST_PAGE

LEMMA ParamsOfEdit ==
  ASSUME NEW f \in Lookups, NEW fkey \in Fitting(f)
  PROVE  LET params == Both(With("oid", f), With("fkey", fkey)) IN
         /\ IsParams(params)
         /\ Param(params, "oid") = f /\ Param(params, "fkey") = fkey
         /\ \A m : m \notin {"oid", "fkey"} => Param(params, m) = None
<1>1. {"oid", "fkey"} \subseteq OidNames /\ fkey \in Oids \cup {None} /\ f \in Oids
  BY FittingOids DEF OidNames
<1>2. /\ IsParams(With("oid", f)) /\ IsParams(With("fkey", fkey))
      /\ \A m : Param(With("fkey", fkey), m) = IF m = "fkey" THEN fkey ELSE None
  BY <1>1, ParamOfWith
<1>3. DOMAIN With("oid", f) = {"oid"} /\ With("oid", f)["oid"] = f
  BY <1>1, OidsAreSome DEF With
<1>4. QED
  BY <1>2, <1>3, ParamOfBoth

LEMMA EditSends ==
  ASSUME NEW p, EditFits(p), NEW b \in Buttons(p)
  PROVE  Sends(b.to, b.params)
<1> DEFINE params(f, fkey) == Both(With("oid", f), With("fkey", fkey))
<1> SUFFICES ASSUME NEW f \in Lookups, NEW fkey \in Fitting(f),
                    p.at = <<"EDIT", f>>, p.params = params(f, fkey),
                    f \in ListedByParent => fkey # None
             PROVE  Sends(b.to, b.params)
  BY DEF EditFits
<1>1. b.to \in {<<"SAVE", f>>, <<"MENU", f>>} /\ b.params = params(f, fkey)
  BY ButtonFields DEF Buttons
<1>2. MenuOid(params(f, fkey)) \in Fitting(f)
  BY ParamsOfEdit, FittingOids DEF MenuOid, Fitting
<1>3. QED
  <2> HIDE DEF params
  <2>1. /\ IsParams(params(f, fkey))
        /\ Param(params(f, fkey), "oid") = f /\ Param(params(f, fkey), "fkey") = fkey
    BY ParamsOfEdit DEF params
  <2>2. QED
    BY <1>1, <1>2, <2>1, FormActions DEF Sends, A_SYS_USERS, A_SAVE_SYS_USERS, A_SAVE_REQUEST,
       A_REQUEST, A_SAVE_NEW_REQUEST, A_NEW_REQUEST_PAGE

LEMMA OneRequestSent ==
  ASSUME NEW n \in {"request_oid", "requested_oid"}, NEW to, to # A_SAVE_NEW_REQUEST,
         to[1] = "MENU" => to[2] \notin Entities \cup Lookups,
         \A i \in 1 .. 3 : to # A_NEW_REQUEST_PAGE[i]
  PROVE  Sends(to, With(n, "REQUEST"))
<1>1. n \in OidNames /\ "REQUEST" \in Oids
  BY DEF OidNames, Oids
<1>2. QED
  BY <1>1, ParamOfWith, FittingOids DEF Sends

LEMMA ButtonsOfForm ==
  ASSUME NEW p, p.at[1] = "FORM"
  PROVE  /\ p.at[2] = "SYSTEM" => Buttons(p) =
              {Submit(p, A_SAVE_SYS_USERS), Submit(p, A_CLEAR_ALL_LOCKS), Close(p, A_ADMIN)}
         /\ p.at[2] = "REQUEST" => Buttons(p) \subseteq
              {[Close(p, A_MAIN) EXCEPT !.params = p.params],
               [Close(p, A_CHECKIN_REQUEST) EXCEPT !.params = p.params],
               Submit(p, A_SAVE_REQUEST), Submit(p, A_REQUEST)}
         /\ p.at[2] = "REQUEST" /\ p.text = "controls" => Buttons(p) =
              {[Close(p, A_CHECKIN_REQUEST) EXCEPT !.params = p.params],
               Submit(p, A_SAVE_REQUEST), Submit(p, A_REQUEST)}
         /\ p.at[2] = "REQUEST" /\ p.text \notin {"controls", "view"} => Buttons(p) =
              {[Close(p, A_CHECKIN_REQUEST) EXCEPT !.params = p.params],
               Submit(p, A_SAVE_REQUEST)}
         /\ p.at[2] \in Entities => \A b \in Buttons(p) :
              \/ b \in {Submit(p, <<"SAVE", p.at[2]>>), Close(p, <<"MENU", p.at[2]>>)}
              \/ /\ Param(p.params, "oid") # None
                 /\ \E g \in Keyed : Above(g) = p.at[2] /\ b = Submit(p, <<"MENU", g>>)
<1>1. Buttons(p) = FormButtons(p)
  BY DEF Buttons
<1>2. CASE p.at[2] = "SYSTEM"
  BY <1>1, <1>2 DEF FormButtons, Entities
<1>3. CASE p.at[2] = "REQUEST"
  BY <1>1, <1>3 DEF FormButtons, Entities
<1>4. CASE p.at[2] \in Entities
  BY <1>1, <1>4 DEF FormButtons, Entities
<1>5. QED
  BY <1>2, <1>3, <1>4

LEMMA FormSends ==
  ASSUME NEW p, FormFits(p), NEW b \in Buttons(p)
  PROVE  Sends(b.to, b.params)
<1> USE ButtonFields
<1>1. ASSUME NEW f \in Entities, NEW oid \in {None, f},
             p.at = <<"FORM", f>>, p.params = With("oid", oid)
      PROVE  Sends(b.to, b.params)
  <2>1. /\ oid \in Oids \cup {None} /\ "oid" \in OidNames
        /\ IsParams(p.params) /\ Param(p.params, "oid") = oid
        /\ MenuOid(p.params) = oid
    BY <1>1, ParamOfWith DEF OidNames, Oids, MenuOid
  <2>2. \/ b.to = <<"MENU", f>> /\ b.params = Nothing
        \/ b.to = <<"SAVE", f>> /\ b.params = p.params
        \/ oid # None /\ \E g \in Keyed : Above(g) = f /\ b.to = <<"MENU", g>> /\ b.params = p.params
    <3>1. p.at[1] = "FORM" /\ p.at[2] = f
      BY <1>1
    <3>2. \/ b \in {Submit(p, <<"SAVE", f>>), Close(p, <<"MENU", f>>)}
          \/ oid # None /\ \E g \in Keyed : Above(g) = f /\ b = Submit(p, <<"MENU", g>>)
      BY <2>1, <3>1, ButtonsOfForm
    <3>3. CASE b \in {Submit(p, <<"SAVE", f>>), Close(p, <<"MENU", f>>)}
      BY <3>3
    <3>4. CASE oid # None /\ \E g \in Keyed : Above(g) = f /\ b = Submit(p, <<"MENU", g>>)
      BY <3>4
    <3>5. QED
      BY <3>2, <3>3, <3>4
  <2>3. Sends(<<"SAVE", f>>, p.params)
    BY <2>1, FormActions DEF Sends, A_SYS_USERS, A_SAVE_SYS_USERS, A_SAVE_REQUEST, A_REQUEST,
       A_SAVE_NEW_REQUEST, A_NEW_REQUEST_PAGE
  <2>4. ASSUME NEW g \in Keyed, Above(g) = f, oid # None
        PROVE  Sends(<<"MENU", g>>, p.params)
    <3>1. g \in Lookups /\ oid \in Fitting(g)
      BY <2>1, <2>4 DEF Fitting, Lookups
    <3>2. QED
      BY <2>1, <3>1, FormActions DEF Sends, A_SYS_USERS, A_SAVE_SYS_USERS, A_SAVE_REQUEST,
         A_REQUEST, A_SAVE_NEW_REQUEST, A_NEW_REQUEST_PAGE
  <2>5. <<"MENU", f>> \notin {A_REQUEST, A_SAVE_NEW_REQUEST}
    BY DEF A_REQUEST, A_SAVE_NEW_REQUEST
  <2>6. QED
    BY <2>2, <2>3, <2>4, <2>5, NothingSent
<1>2. CASE p.at = A_SYS_USERS /\ p.params = Nothing
  <2>1. b.to \in {A_SAVE_SYS_USERS, A_CLEAR_ALL_LOCKS, A_ADMIN} /\ b.params = Nothing
    <3>1. p.at[1] = "FORM" /\ p.at[2] = "SYSTEM"
      BY <1>2 DEF A_SYS_USERS
    <3>2. b \in {Submit(p, A_SAVE_SYS_USERS), Submit(p, A_CLEAR_ALL_LOCKS), Close(p, A_ADMIN)}
      BY <3>1, ButtonsOfForm
    <3>3. QED
      BY <1>2, <3>2
  <2>2. QED
    BY <2>1, NothingSent DEF A_SAVE_SYS_USERS, A_CLEAR_ALL_LOCKS, A_ADMIN, A_REQUEST,
       A_SAVE_NEW_REQUEST
<1>3. CASE p.at = A_REQUEST /\ p.params = With("request_oid", "REQUEST")
  <2>1. /\ b.to \in {A_MAIN, A_CHECKIN_REQUEST, A_SAVE_REQUEST, A_REQUEST}
        /\ b.params = p.params
    <3>1. p.at[1] = "FORM" /\ p.at[2] = "REQUEST"
      BY <1>3 DEF A_REQUEST
    <3>2. b \in {[Close(p, A_MAIN) EXCEPT !.params = p.params],
                 [Close(p, A_CHECKIN_REQUEST) EXCEPT !.params = p.params],
                 Submit(p, A_SAVE_REQUEST), Submit(p, A_REQUEST)}
      BY <3>1, ButtonsOfForm
    <3>3. ASSUME NEW to, b = [Close(p, to) EXCEPT !.params = p.params]
          PROVE  b.to = to /\ b.params = p.params
      BY <3>3 DEF Close, SubmitToClose, Submit
    <3>4. QED
      BY <3>2, <3>3
  <2>2. /\ b.to[1] = "MENU" => b.to[2] \notin Entities \cup Lookups
        /\ \A i \in 1 .. 3 : b.to # A_NEW_REQUEST_PAGE[i]
        /\ b.to # A_SAVE_NEW_REQUEST
    BY <2>1, FormActions DEF A_MAIN, A_CHECKIN_REQUEST, A_SAVE_REQUEST, A_REQUEST,
       A_NEW_REQUEST_PAGE, A_SAVE_NEW_REQUEST
  <2>3. QED
    BY <1>3, <2>1, <2>2, OneRequestSent
<1>4. QED
  BY <1>1, <1>2, <1>3 DEF FormFits

LEMMA NewRequestSends ==
  ASSUME NEW p, NewRequestFits(p), NEW b \in Buttons(p)
  PROVE  Sends(b.to, b.params)
<1> PICK n \in 1 .. 3 :
      /\ p.at = A_NEW_REQUEST_PAGE[n]
      /\ DOMAIN p.params \subseteq DOMAIN ClassOfParam
      /\ Required[n] \subseteq DOMAIN p.params
      /\ \A m \in DOMAIN p.params : p.params[m] = ClassOfParam[m]
  BY DEF NewRequestFits
<1>1. /\ p.at \in {<<"PAGE", "1">>, <<"PAGE", "2">>, <<"PAGE", "3">>}
      /\ p.at = <<"PAGE", "3">> => n = 3
  BY DEF A_NEW_REQUEST_PAGE
<1>2. \/ b.to = A_MAIN /\ b.params = Nothing
      \/ b.to \in {<<"PAGE", "2">>, <<"PAGE", "3">>} /\ b.params = p.params
      \/ b.to = A_SAVE_NEW_REQUEST /\ b.params = p.params /\ n = 3
  BY <1>1, ButtonFields DEF Buttons, A_NEW_REQUEST_PAGE
<1>3. IsParams(p.params) /\ Param(p.params, "oid") = None
  <2>1. DOMAIN ClassOfParam = {"component_oid", "product_oid", "comp_rev_oid", "pam_release_oid"}
    BY DEF ClassOfParam
  <2>2. \A m \in DOMAIN ClassOfParam : ClassOfParam[m] \in Oids
    BY DEF ClassOfParam, Oids, Entities, Lookups, Keyed, OfComponents, OfProducts
  <2>3. QED
    BY <2>1, <2>2 DEF IsParams, OidNames, Param
<1>4. n = 3 => DOMAIN ClassOfParam \subseteq DOMAIN p.params
  BY DEF Required, ClassOfParam
<1>5. \A f : b.to \in {<<"PAGE", "2">>, <<"PAGE", "3">>, A_SAVE_NEW_REQUEST} =>
        /\ b.to \notin {<<"MENU", f>>, <<"FORM", f>>, <<"ADD", f>>, <<"EDIT", f>>, A_REQUEST}
        /\ f \in Lookups => b.to # <<"SAVE", f>>
  BY FormActions DEF A_SAVE_NEW_REQUEST, A_REQUEST
<1>6. b.params = p.params /\ b.to # A_MAIN => Sends(b.to, b.params)
  BY <1>2, <1>3, <1>4, <1>5 DEF Sends, A_SAVE_NEW_REQUEST, A_SYS_USERS, A_SAVE_SYS_USERS, A_SAVE_REQUEST
<1>7. A_MAIN \notin {A_REQUEST, A_SAVE_NEW_REQUEST}
  BY DEF A_MAIN, A_REQUEST, A_SAVE_NEW_REQUEST
<1>8. QED
  BY <1>2, <1>6, <1>7, NothingSent DEF A_MAIN, A_SAVE_NEW_REQUEST

LEMMA MessageSends ==
  ASSUME NEW p, MessageFits(p), NEW b \in Buttons(p)
  PROVE  Sends(b.to, b.params)
<1>1. b.to = p.next /\ b.params = p.params
  BY ButtonFields DEF MessageFits, IsMessage, Buttons
<1>2. CASE /\ p.params = Nothing
           /\ p.next \in {A_MAIN, A_ADMIN, A_LOGIN, A_SYS_USERS}
                          \cup {<<"MENU", f>> : f \in Entities \cup Lookups}
  <2>1. p.next \notin {A_REQUEST, A_SAVE_NEW_REQUEST}
    BY <1>2 DEF A_MAIN, A_ADMIN, A_LOGIN, A_SYS_USERS, A_REQUEST, A_SAVE_NEW_REQUEST
  <2>2. QED
    BY <1>1, <1>2, <2>1, NothingSent
<1>3. ASSUME NEW f \in Keyed, NEW fkey \in Fitting(f) \ {None},
             p.next = <<"MENU", f>>, p.params = With("fkey", fkey)
      PROVE  Sends(b.to, b.params)
  <2>1. f \in Lookups /\ fkey \in Oids \cup {None} /\ "fkey" \in OidNames
    BY FittingOids DEF Lookups, OidNames
  <2>2. /\ IsParams(p.params) /\ MenuOid(p.params) = fkey
    BY <1>3, <2>1, ParamOfWith DEF MenuOid
  <2>3. QED
    BY <1>1, <1>3, <2>1, <2>2, FormActions DEF Sends, A_SYS_USERS, A_SAVE_SYS_USERS,
       A_SAVE_REQUEST, A_REQUEST, A_SAVE_NEW_REQUEST, A_NEW_REQUEST_PAGE
<1>4. QED
  BY <1>2, <1>3 DEF MessageFits

LEMMA OtherSends ==
  ASSUME NEW p, OtherFits(p), NEW b \in Buttons(p)
  PROVE  Sends(b.to, b.params)
<1>1. \/ b.to \in {Authenticate, A_MAIN} /\ b.params = Nothing
      \/ b.to = A_REQUEST /\ b.params = With("requested_oid", "REQUEST")
  BY ButtonFields DEF OtherFits, Buttons, A_RECORD_REQUEST, A_SUMMARY
<1>2. /\ A_REQUEST[1] # "MENU"
      /\ A_REQUEST # A_SAVE_NEW_REQUEST /\ \A i \in 1 .. 3 : A_REQUEST # A_NEW_REQUEST_PAGE[i]
      /\ {Authenticate, A_MAIN} \cap {A_REQUEST, A_SAVE_NEW_REQUEST} = {}
  BY DEF Authenticate, A_MAIN, A_REQUEST, A_SAVE_NEW_REQUEST, A_NEW_REQUEST_PAGE
<1>3. QED
  BY <1>1, <1>2, NothingSent, OneRequestSent

-----------------------------------------------------------------------------
(* Parts that arrive and parts that do not.                                *)

PartNames == {"login", "password", "controls", "formaction", "hidden", "sid"}

LEMMA Tuples ==
  /\ \A a, b \in PartNames : <<a, b>> \in Seq(PartNames)
  /\ \A a, b, c, d \in PartNames : <<a, b, c, d>> \in Seq(PartNames)
OBVIOUS

\* The sid is the last part of every form, and the password of the login.
LEMMA LastPart ==
  ASSUME NEW p
  PROVE  /\ Len(Parts(p)) \in {2, 4} /\ Parts(p) \in Seq(PartNames)
         /\ \A i \in 1 .. Len(Parts(p)) : Parts(p)[i] \in {"sid", "password"} => i = Len(Parts(p))
         /\ Len(Parts(p)) = 4 => Parts(p)[2] = "hidden" \/ Parts(p)[3] = "hidden"
         /\ Len(Parts(p)) = 2 => p.at[1] = "LOGIN" /\ \A i \in 1 .. 2 : Parts(p)[i] # "hidden"
<1>1. \/ p.at[1] = "LOGIN" /\ Parts(p) = <<"login", "password">>
      \/ Parts(p) = <<"controls", "formaction", "hidden", "sid">>
      \/ Parts(p) = <<"controls", "hidden", "formaction", "sid">>
  BY DEF Parts
<1>2. ASSUME p.at[1] = "LOGIN", Parts(p) = <<"login", "password">>
      PROVE  /\ Len(Parts(p)) = 2 /\ Parts(p) \in Seq(PartNames)
             /\ Parts(p)[1] = "login" /\ Parts(p)[2] = "password"
  BY <1>2, Tuples DEF PartNames
<1>3. ASSUME Parts(p) = <<"controls", "formaction", "hidden", "sid">>
      PROVE  /\ Len(Parts(p)) = 4 /\ Parts(p) \in Seq(PartNames)
             /\ Parts(p)[1] = "controls" /\ Parts(p)[2] = "formaction"
             /\ Parts(p)[3] = "hidden" /\ Parts(p)[4] = "sid"
  BY <1>3, Tuples DEF PartNames
<1>4. ASSUME Parts(p) = <<"controls", "hidden", "formaction", "sid">>
      PROVE  /\ Len(Parts(p)) = 4 /\ Parts(p) \in Seq(PartNames)
             /\ Parts(p)[1] = "controls" /\ Parts(p)[2] = "hidden"
             /\ Parts(p)[3] = "formaction" /\ Parts(p)[4] = "sid"
  BY <1>4, Tuples DEF PartNames
<1>5. \A i \in 1 .. 4 : i = 1 \/ i = 2 \/ i = 3 \/ i = 4
  OBVIOUS
<1>6. QED
  <2>1. CASE p.at[1] = "LOGIN" /\ Parts(p) = <<"login", "password">>
    <3>1. \A i \in 1 .. 2 : i = 1 \/ i = 2
      OBVIOUS
    <3>2. QED
      BY <1>2, <2>1, <3>1
  <2>2. CASE Parts(p) = <<"controls", "formaction", "hidden", "sid">>
    BY <1>3, <1>5, <2>2
  <2>3. CASE Parts(p) = <<"controls", "hidden", "formaction", "sid">>
    BY <1>4, <1>5, <2>3
  <2>4. QED
    BY <1>1, <2>1, <2>2, <2>3

\* The first parts of the first parts are the first parts.
LEMMA CutParts ==
  ASSUME NEW s \in Seq(PartNames), NEW n \in 0 .. Len(s)
  PROVE  /\ Len(SubSeq(s, 1, n)) = n
         /\ \A i \in 1 .. n : SubSeq(s, 1, n)[i] = s[i]
         /\ \A m \in 0 .. n : SubSeq(SubSeq(s, 1, n), 1, m) = SubSeq(s, 1, m)
         /\ n = Len(s) => SubSeq(s, 1, n) = s
OBVIOUS

\* Every button is one of four kinds, and sends all parts of its page.
ButtonTo(p, to) ==
  {Submit(p, to), SubmitToClose(p, to), Close(p, to), [Close(p, to) EXCEPT !.params = p.params]}

LEMMA ButtonKinds ==
  ASSUME NEW p, Fits(p), NEW b \in Buttons(p)
  PROVE  \E to : b \in ButtonTo(p, to)
<1>1. CASE MenuFits(p)
  <2>1. b \in MenuButtons(p)
    BY <1>1 DEF MenuFits, Buttons, A_MAIN, A_ADMIN
  <2>2. QED
    BY <2>1 DEF MenuButtons, ButtonTo
<1>2. CASE SelectFits(p) \/ AddFits(p) \/ EditFits(p)
  BY <1>2 DEF SelectFits, AddFits, EditFits, Buttons, ButtonTo
<1>3. CASE FormFits(p)
  <2>1. /\ p.at[1] = "FORM" /\ p.at[2] \in Entities \cup {"SYSTEM", "REQUEST"}
    BY <1>3 DEF FormFits, A_SYS_USERS, A_REQUEST
  <2>2. CASE p.at[2] = "SYSTEM"
    <3>1. b \in {Submit(p, A_SAVE_SYS_USERS), Submit(p, A_CLEAR_ALL_LOCKS), Close(p, A_ADMIN)}
      BY <2>1, <2>2, ButtonsOfForm
    <3>2. QED
      BY <3>1 DEF ButtonTo
  <2>3. CASE p.at[2] = "REQUEST"
    <3>1. b \in {[Close(p, A_MAIN) EXCEPT !.params = p.params],
                 [Close(p, A_CHECKIN_REQUEST) EXCEPT !.params = p.params],
                 Submit(p, A_SAVE_REQUEST), Submit(p, A_REQUEST)}
      BY <2>1, <2>3, ButtonsOfForm
    <3>2. QED
      BY <3>1 DEF ButtonTo
  <2>4. CASE p.at[2] \in Entities
    <3>1. \/ b \in {Submit(p, <<"SAVE", p.at[2]>>), Close(p, <<"MENU", p.at[2]>>)}
          \/ \E g \in Keyed : b = Submit(p, <<"MENU", g>>)
      BY <2>1, <2>4, ButtonsOfForm
    <3>2. QED
      BY <3>1 DEF ButtonTo
  <2>5. QED
    BY <2>1, <2>2, <2>3, <2>4
<1>4. CASE NewRequestFits(p)
  <2>1. p.at \in {<<"PAGE", "1">>, <<"PAGE", "2">>, <<"PAGE", "3">>}
    BY <1>4 DEF NewRequestFits, A_NEW_REQUEST_PAGE
  <2>2. QED
    BY <2>1 DEF Buttons, ButtonTo
<1>5. CASE MessageFits(p) \/ OtherFits(p)
  BY <1>5 DEF MessageFits, IsMessage, OtherFits, A_RECORD_REQUEST, A_SUMMARY, Buttons, ButtonTo
<1>6. QED
  BY <1>1, <1>2, <1>3, <1>4, <1>5 DEF Fits

LEMMA LoginHasNothing ==
  ASSUME NEW p, Fits(p), p.at[1] = "LOGIN"
  PROVE  p.params = Nothing
BY DEF Fits, MenuFits, SelectFits, AddFits, EditFits, FormFits, NewRequestFits,
   MessageFits, IsMessage, OtherFits, A_MAIN, A_ADMIN, A_SYS_USERS, A_REQUEST,
   A_NEW_REQUEST_PAGE, A_RECORD_REQUEST, A_SUMMARY

LEMMA ButtonIsWhole ==
  ASSUME NEW p, Fits(p), NEW b \in Buttons(p)
  PROVE  b = Part(p, b, Len(Parts(p)))
<1> DEFINE s == Parts(p)
<1>1. PICK to : b \in ButtonTo(p, to)
  BY ButtonKinds
<1>2. /\ b = [to |-> b.to, params |-> b.params, closes |-> b.closes, parts |-> s]
      /\ b.params \in {p.params, Nothing}
  <2>1. CASE b = Submit(p, to)
    BY <2>1 DEF Submit
  <2>2. CASE b = SubmitToClose(p, to)
    BY <2>2 DEF SubmitToClose, Submit
  <2>3. CASE b = Close(p, to)
    BY <2>3 DEF Close, SubmitToClose, Submit
  <2>4. CASE b = [Close(p, to) EXCEPT !.params = p.params]
    BY <2>4 DEF Close, SubmitToClose, Submit
  <2>5. QED
    BY <1>1, <2>1, <2>2, <2>3, <2>4 DEF ButtonTo
<1>3. SubSeq(s, 1, Len(s)) = s
  BY LastPart, CutParts
<1>4. CASE Len(s) = 4
  <2>1. 2 \in 1 .. Len(s) /\ 3 \in 1 .. Len(s)
    BY <1>4
  <2>2. \E i \in 1 .. Len(s) : s[i] = "hidden"
    BY <1>4, <2>1, LastPart
  <2>3. QED
    BY <1>2, <1>3, <2>2 DEF Part
<1>5. CASE Len(s) = 2
  <2>1. b.params = Nothing
    BY <1>2, <1>5, LastPart, LoginHasNothing
  <2>2. QED
    BY <1>2, <1>3, <2>1 DEF Part
<1>6. QED
  BY <1>4, <1>5, LastPart

\* What comes to the switch is the whole form, as its button sends it.
LEMMA AdmittedWhole ==
  ASSUME PageFits, PostFits, Admitted
  PROVE  /\ post.parts = Parts(page)
         /\ \E b \in Buttons(page) : post.to = b.to /\ post.params = b.params
<1>1. PICK b \in Buttons(page), n \in 0 .. Len(Parts(page)) : post = Part(page, b, n)
  BY DEF PostFits, Admitted
<1>2. post.parts = SubSeq(Parts(page), 1, n) /\ post.to = b.to
  BY <1>1 DEF Part
<1>3. PICK i \in DOMAIN post.parts : post.parts[i] \in {"sid", "password"}
  BY DEF Admitted, Arrived
<1>4. i \in 1 .. n /\ Parts(page)[i] \in {"sid", "password"}
  <2>1. i \in 1 .. n
    BY <1>2, <1>3, LastPart, CutParts
  <2>2. SubSeq(Parts(page), 1, n)[i] = Parts(page)[i]
    BY <2>1, LastPart, CutParts
  <2>3. QED
    BY <1>2, <1>3, <2>1, <2>2
<1>5. n = Len(Parts(page))
  BY <1>4, LastPart
<1>6. post.parts = Parts(page)
  BY <1>2, <1>5, LastPart, CutParts
<1>7. post.params = b.params
  <2>1. CASE Len(Parts(page)) = 4
    <3>1. 2 \in 1 .. n /\ 3 \in 1 .. n
      BY <1>5, <2>1
    <3>2. \E j \in 1 .. n : Parts(page)[j] = "hidden"
      BY <2>1, <3>1, LastPart
    <3>3. QED
      BY <1>1, <3>2 DEF Part
  <2>2. CASE Len(Parts(page)) = 2
    <3>1. page.at[1] = "LOGIN" /\ post.params = Nothing
      BY <1>1, <1>5, <2>2, LastPart DEF Part
    <3>2. page.params = Nothing
      BY <3>1, LoginHasNothing DEF PageFits
    <3>3. b.params = Nothing
      BY <3>1, <3>2, ButtonFields DEF Buttons
    <3>4. QED
      BY <3>1, <3>3
  <2>3. QED
    BY <2>1, <2>2, LastPart
<1>8. QED
  BY <1>2, <1>6, <1>7

LEMMA AdmittedFits ==
  ASSUME PageFits, PostFits, Admitted
  PROVE  Sends(post.to, post.params)
BY AdmittedWhole, MenuSends, SelectSends, AddSends, EditSends, FormSends, NewRequestSends,
   MessageSends, OtherSends DEF PageFits, Fits

LEMMA PageHasParams == PageFits => IsParams(page.params)
<1> SUFFICES ASSUME PageFits PROVE IsParams(page.params)
  OBVIOUS
<1> USE ParamOfNothing, ParamOfWith
<1>1. CASE MenuFits(page)
  BY <1>1, FittingOids DEF MenuFits, OidNames
<1>2. CASE SelectFits(page)
  BY <1>2 DEF SelectFits, OidNames, Above, Oids, Entities
<1>3. CASE AddFits(page) \/ EditFits(page)
  BY <1>3, FittingOids, ParamsOfEdit DEF AddFits, EditFits, OidNames
<1>4. CASE FormFits(page)
  BY <1>4 DEF FormFits, OidNames, Oids
<1>5. CASE NewRequestFits(page)
  <2>1. DOMAIN ClassOfParam = {"component_oid", "product_oid", "comp_rev_oid", "pam_release_oid"}
    BY DEF ClassOfParam
  <2>2. \A m \in DOMAIN ClassOfParam : ClassOfParam[m] \in Oids
    BY DEF ClassOfParam, Oids, Entities, Lookups, Keyed, OfComponents, OfProducts
  <2>3. QED
    BY <1>5, <2>1, <2>2 DEF NewRequestFits, IsParams, OidNames
<1>6. CASE MessageFits(page)
  BY <1>6, FittingOids DEF MessageFits, OidNames, Lookups
<1>7. CASE OtherFits(page)
  BY <1>7 DEF OtherFits, OidNames, Oids
<1>8. QED
  BY <1>1, <1>2, <1>3, <1>4, <1>5, <1>6, <1>7 DEF PageFits, Fits

LEMMA ButtonHasParams ==
  ASSUME PageFits, NEW b \in Buttons(page)
  PROVE  IsParams(b.params)
BY MenuSends, SelectSends, AddSends, EditSends, FormSends, NewRequestSends, MessageSends,
   OtherSends DEF PageFits, Fits, Sends

LEMMA PostHasParams == PageFits /\ PostFits /\ post # NoPost => IsParams(post.params)
<1> SUFFICES ASSUME PageFits, PostFits, post # NoPost PROVE IsParams(post.params)
  OBVIOUS
<1>1. PICK b \in Buttons(page), n \in 0 .. Len(Parts(page)) : post = Part(page, b, n)
  BY DEF PostFits
<1>2. post.params \in {b.params, Nothing}
  BY <1>1 DEF Part
<1>3. QED
  BY <1>2, ButtonHasParams, ParamOfNothing

\* What a handler gets is the number of what it takes it for.
LEMMA FitsImply ==
  ASSUME PageFits, PostFits
  PROVE  OidsFit /\ AddsAreNew /\ ItemsFirst
<1>1. OidsFit
  <2> SUFFICES ASSUME Admitted PROVE OidsFit
    BY DEF OidsFit
  <2>1. Sends(post.to, post.params)
    BY AdmittedFits
  <2>2. PICK b \in Buttons(page) : post.to = b.to /\ post.params = b.params
    BY AdmittedWhole
  <2>3. \A f : f \in ListedByParent => f \in Lookups /\ Fitting(f) = {None, Above(f)}
    BY DEF Fitting, ListedByParent, Lookups
  <2>4. QED
    BY <2>1, <2>3 DEF OidsFit, Sends
<1>2. AddsAreNew
  BY FormActions DEF PageFits, Fits, AddsAreNew, MenuFits, SelectFits, AddFits, EditFits, FormFits,
     NewRequestFits, MessageFits, IsMessage, OtherFits, A_MAIN, A_ADMIN, A_SYS_USERS, A_REQUEST,
     A_NEW_REQUEST_PAGE, A_RECORD_REQUEST, A_SUMMARY
<1>3. page.at = A_NEW_REQUEST_PAGE[3] => DOMAIN ClassOfParam \subseteq DOMAIN page.params
  <2>1. ASSUME page.at = A_NEW_REQUEST_PAGE[3] PROVE NewRequestFits(page)
    BY <2>1, FormActions DEF PageFits, Fits, MenuFits, SelectFits, AddFits, EditFits, FormFits,
       MessageFits, IsMessage, OtherFits, A_MAIN, A_ADMIN, A_SYS_USERS, A_REQUEST,
       A_NEW_REQUEST_PAGE, A_RECORD_REQUEST, A_SUMMARY
  <2>2. QED
    BY <2>1 DEF NewRequestFits, A_NEW_REQUEST_PAGE, Required, ClassOfParam
<1>4. QED
  BY <1>1, <1>2, <1>3, AdmittedFits DEF ItemsFirst, Sends

-----------------------------------------------------------------------------
(* What a handler shows.                                                   *)

LEMMA Openings ==
  ASSUME NEW p, NEW form, NEW names, NEW new, Opens(p, form, names, new)
  PROVE  page' = p /\ post' = NoPost
BY DEF Opens, Answer

LEMMA Savings ==
  ASSUME NEW success, NEW failure, SaveEntry(success, failure)
  PROVE  page' \in {success, failure, page} /\ post' = NoPost
BY DEF SaveEntry, Unseen, Answer

\* The pages that are the same whoever shows them.
LEMMA PlainPages ==
  /\ \A p \in {LoginPage, LoginMessage, OutOfOrder, RecordPage, Page(A_MAIN, Nothing),
               Page(A_ADMIN, Nothing), Page(A_SYS_USERS, Nothing),
               Page(A_SUMMARY, With("requested_oid", "REQUEST"))} : Fits(p)
  /\ \A text \in {"view", "comment", "controls"} : Fits(RequestForm(text))
<1>1. Fits(LoginPage) /\ Fits(LoginMessage) /\ Fits(OutOfOrder)
  BY DEF Fits, OtherFits, LoginPage, LoginMessage, OutOfOrder, Page
<1>2. Fits(RecordPage) /\ Fits(Page(A_SUMMARY, With("requested_oid", "REQUEST")))
  BY DEF Fits, OtherFits, RecordPage, Page
<1>3. Fits(Page(A_MAIN, Nothing)) /\ Fits(Page(A_ADMIN, Nothing))
  BY DEF Fits, MenuFits, Page
<1>4. Fits(Page(A_SYS_USERS, Nothing))
  BY DEF Fits, FormFits, Page
<1>5. ASSUME NEW text \in {"view", "comment", "controls"} PROVE Fits(RequestForm(text))
  BY DEF Fits, FormFits, RequestForm, Page
<1>6. QED
  BY <1>1, <1>2, <1>3, <1>4, <1>5

LEMMA Messages ==
  ASSUME NEW text,
         NEW next \in {A_MAIN, A_ADMIN, A_LOGIN, A_SYS_USERS}
                       \cup {<<"MENU", f>> : f \in Entities \cup Lookups}
  PROVE  Fits(Message(text, next))
BY DEF Fits, MessageFits, IsMessage, Message

\* The handlers that ask for no number, or only hand it on.
LEMMA PlainHandlersShow ==
  ASSUME PageFits,
         \/ SessionTimesOut \/ LogIn \/ Logout \/ ShowMainMenu \/ ShowAdminMenu \/ SwitchBoard
         \/ SaveNewRequest \/ ShowRecordAndSummary \/ ShowRequest \/ ReprocessRequest
         \/ SaveRequest \/ SaveCrashes \/ AdminSystem \/ SaveSystemUsers \/ ClearLocks
  PROVE  Fits(page') /\ post' = NoPost
<1> USE PlainPages, Messages
<1>1. CASE SessionTimesOut \/ LogIn \/ Logout \/ ShowMainMenu \/ ShowAdminMenu \/ SwitchBoard
  BY <1>1 DEF SessionTimesOut, LogIn, Logout, ShowMainMenu, ShowAdminMenu, SwitchBoard, Answer
<1>2. CASE SaveNewRequest \/ SaveSystemUsers
  BY <1>2, Savings DEF SaveNewRequest, SaveSystemUsers, PageFits
<1>3. CASE ShowRecordAndSummary
  BY <1>3 DEF ShowRecordAndSummary, Views, Answer
<1>4. CASE ShowRequest
  BY <1>4, Openings DEF ShowRequest, CommentForm, Views, Answer
<1>5. CASE ReprocessRequest
  BY <1>5, Openings DEF ReprocessRequest, CommentForm, Answer
<1>6. CASE SaveRequest \/ SaveCrashes
  BY <1>6 DEF SaveRequest, SaveCrashes, Unseen, Answer, PageFits
<1>7. CASE AdminSystem \/ ClearLocks
  BY <1>7, Openings DEF AdminSystem, ClearLocks, Answer
<1>8. QED
  BY <1>1, <1>2, <1>3, <1>4, <1>5, <1>6, <1>7

LEMMA NewRequestShown ==
  ASSUME PageFits, Sends(post.to, post.params), NEW n \in {1, 2, 3}, ShowNewRequestPage(n)
  PROVE  Fits(page') /\ post' = NoPost
<1> DEFINE p(offered) == Page(post.to, Both(post.params, [m \in offered |-> ClassOfParam[m]]))
<1>1. CASE Answer(Message("Failed", A_MAIN), NoEntry)
  BY <1>1, Messages DEF Answer
<1>2. ASSUME NEW offered \in Offered[n], Required[n] \subseteq DOMAIN post.params
      PROVE  Fits(p(offered))
  <2>1. post.to = A_NEW_REQUEST_PAGE[n] /\ n \in 1 .. 3
    BY DEF ShowNewRequestPage
  <2>2. /\ DOMAIN post.params \subseteq DOMAIN ClassOfParam
        /\ \A m \in DOMAIN post.params : post.params[m] = ClassOfParam[m]
    BY <2>1 DEF Sends
  <2>3. offered \subseteq DOMAIN ClassOfParam
    BY DEF Offered, ClassOfParam
  <2>4. /\ p(offered).at = A_NEW_REQUEST_PAGE[n]
        /\ DOMAIN p(offered).params = DOMAIN post.params \cup offered
        /\ \A m \in DOMAIN p(offered).params : p(offered).params[m] = ClassOfParam[m]
    BY <2>1, <2>2 DEF Page, Both
  <2>5. NewRequestFits(p(offered))
    <3> HIDE DEF p
    <3>1. QED
      BY <1>2, <2>1, <2>2, <2>3, <2>4 DEF NewRequestFits
  <2>6. QED
    BY <2>5 DEF Fits
<1>3. \/ Answer(Message("Failed", A_MAIN), NoEntry)
      \/ /\ Required[n] \subseteq DOMAIN post.params
         /\ \E offered \in Offered[n] : page' = p(offered) /\ post' = NoPost
  BY Openings DEF ShowNewRequestPage, Answer
<1>4. QED
  BY <1>1, <1>2, <1>3 DEF Answer

LEMMA MenuShown ==
  ASSUME Sends(post.to, post.params), NEW f \in Entities \cup Lookups, AddOrEdit(f)
  PROVE  Fits(page') /\ post' = NoPost
<1> DEFINE oid == MenuOid(post.params)
<1>1. page' = Page(<<"MENU", f>>, With("oid", oid)) /\ post.to = <<"MENU", f>> /\ post' = NoPost
  BY DEF AddOrEdit, Answer
<1>2. CASE f \in Entities
  <2>1. With("oid", oid) = Nothing
    BY <1>1, <1>2, ParamOfNothing DEF Sends, MenuOid, With
  <2>2. QED
    BY <1>1, <1>2, <2>1 DEF Fits, MenuFits, Page
<1>3. CASE f \in Lookups
  <2>1. oid \in Fitting(f)
    BY <1>1, <1>3 DEF Sends
  <2>2. QED
    BY <1>1, <1>3, <2>1 DEF Fits, MenuFits, Page
<1>4. QED
  BY <1>2, <1>3

LEMMA SelectShown ==
  ASSUME NEW f \in Entities \cup ListedByParent, SelectToContinue(f)
  PROVE  Fits(page') /\ post' = NoPost
<1>1. CASE page' = Message("Failed", A_MAIN) /\ post' = NoPost
  BY <1>1, Messages
<1>2. CASE /\ page' = Page(<<"SELECT", f>>, With("oid", IF f \in Entities THEN f ELSE Above(f)))
           /\ post' = NoPost
  BY <1>2 DEF Fits, SelectFits, Page
<1>3. QED
  BY <1>1, <1>2 DEF SelectToContinue, Answer

LEMMA LookupShown ==
  ASSUME PageFits, Sends(post.to, post.params), NEW f \in Lookups,
         AddLookup(f) \/ EditLookup(f) \/ SaveLookup(f)
  PROVE  Fits(page') /\ post' = NoPost
<1> DEFINE oid == Param(post.params, "oid")
<1> DEFINE fkey == Param(post.params, "fkey")
<1>1. CASE AddLookup(f)
  <2>1. oid \in Fitting(f)
    BY <1>1 DEF AddLookup, Sends
  <2>2. Fits(Page(<<"ADD", f>>, With("fkey", oid)))
    BY <2>1 DEF Fits, AddFits, Page
  <2>3. QED
    BY <1>1, <2>2, Messages, Openings DEF AddLookup, Answer
<1>2. CASE EditLookup(f)
  <2>1. oid \in Fitting(f)
    BY <1>2 DEF EditLookup, Sends
  <2>2. (f \in ListedByParent => oid # None) =>
          Fits(Page(<<"EDIT", f>>, Both(With("oid", f), With("fkey", oid))))
    BY <2>1 DEF Fits, EditFits, Page
  <2>3. QED
    BY <1>2, <2>2, Messages, Openings DEF EditLookup, Answer
<1>3. CASE SaveLookup(f)
  <2> DEFINE menu == <<"MENU", f>>
  <2>1. fkey \in Fitting(f)
    BY <1>3 DEF SaveLookup, Sends
  <2>2. \A text : Fits(Message(text, menu))
    BY Messages
  <2>3. f \in Keyed /\ fkey # None =>
          Fits([Message("Saved", menu) EXCEPT !.params = With("fkey", fkey)])
    BY <2>1 DEF Fits, MessageFits, IsMessage, Message
  <2>4. \/ page' \in {Message("Saved", menu), Message("Failed", menu), Message("OutOfOrder", menu), page}
        \/ /\ f \in Keyed /\ fkey # None
           /\ page' = [Message("Saved", menu) EXCEPT !.params = With("fkey", fkey)]
    BY <1>3, Savings DEF SaveLookup, Answer, Lookups
  <2>5. post' = NoPost
    BY <1>3, Savings DEF SaveLookup, Answer
  <2>6. QED
    BY <2>2, <2>3, <2>4, <2>5 DEF PageFits
<1>4. QED
  BY <1>1, <1>2, <1>3

LEMMA EntityShown ==
  ASSUME PageFits, Sends(post.to, post.params),
         AdminUser \/ AdminComponent \/ AdminProduct \/ \E f \in Entities : SaveEntity(f)
  PROVE  Fits(page') /\ post' = NoPost
<1>1. ASSUME NEW f \in Entities, NEW form, NEW names, NEW namesOfNew,
             AdminEntity(f, form, names, namesOfNew)
      PROVE  Fits(page') /\ post' = NoPost
  <2> DEFINE oid == Param(post.params, "oid")
  <2>1. oid \in {None, f}
    BY <1>1 DEF AdminEntity, Sends
  <2>2. Fits(Page(<<"FORM", f>>, With("oid", oid)))
    BY <2>1 DEF Fits, FormFits, Page
  <2>3. QED
    BY <1>1, <2>2, Messages, Openings DEF AdminEntity, Answer
<1>2. ASSUME NEW f \in Entities, SaveEntity(f) PROVE Fits(page') /\ post' = NoPost
  BY <1>2, Messages, Savings DEF SaveEntity, PageFits
<1>3. {"USER", "COMP", "PRODUCT"} \subseteq Entities
  BY DEF Entities
<1>4. QED
  BY <1>1, <1>2, <1>3 DEF AdminUser, AdminComponent, AdminProduct

LEMMA HandlersShow ==
  ASSUME PageFits, PostFits, Admitted, Handle
  PROVE  Fits(page') /\ post' = NoPost
BY AdmittedFits, PlainHandlersShow, NewRequestShown, MenuShown, SelectShown, LookupShown,
   EntityShown DEF Handle

-----------------------------------------------------------------------------
(* Every step keeps it so.                                                 *)

LEMMA CutPost ==
  ASSUME PageFits, PostFits, CutShort
  PROVE  PostFits' /\ post' # NoPost
<1>1. PICK b \in Buttons(page), n \in 0 .. Len(Parts(page)) : post = Part(page, b, n)
  BY DEF PostFits, CutShort
<1>2. Len(post.parts) = n
  BY <1>1, LastPart, CutParts DEF Part
<1>3. PICK m \in 0 .. Len(post.parts) - 1 :
        post' = [post EXCEPT
                  !.parts = SubSeq(@, 1, m),
                  !.params = IF \E i \in 1 .. m : post.parts[i] = "hidden" THEN @ ELSE Nothing]
  BY DEF CutShort
<1>4. m \in 0 .. n /\ m \in 0 .. Len(Parts(page))
  <2>1. Len(Parts(page)) \in {2, 4}
    BY LastPart
  <2>2. n \in Int
    BY <2>1
  <2>3. m \in 0 .. n - 1
    BY <1>2
  <2>4. QED
    BY <2>1, <2>2, <2>3
<1>5. /\ SubSeq(post.parts, 1, m) = SubSeq(Parts(page), 1, m)
      /\ \A i \in 1 .. m : post.parts[i] = Parts(page)[i]
  <2>1. \A i \in 1 .. n : SubSeq(Parts(page), 1, n)[i] = Parts(page)[i]
    BY LastPart, CutParts
  <2>2. \A i \in 1 .. m : i \in 1 .. n
    BY <1>4, LastPart
  <2>3. SubSeq(SubSeq(Parts(page), 1, n), 1, m) = SubSeq(Parts(page), 1, m)
    BY <1>4, LastPart, CutParts
  <2>4. QED
    BY <1>1, <2>1, <2>2, <2>3 DEF Part
<1>6. post' = Part(page, b, m)
  <2>1. (\E i \in 1 .. m : post.parts[i] = "hidden") <=> \E i \in 1 .. m : Parts(page)[i] = "hidden"
    BY <1>5
  <2>2. (\E i \in 1 .. m : Parts(page)[i] = "hidden") => post.params = b.params
    <3>1. (\E i \in 1 .. m : Parts(page)[i] = "hidden") => \E i \in 1 .. n : Parts(page)[i] = "hidden"
      BY <1>4, LastPart
    <3>2. QED
      BY <1>1, <3>1 DEF Part
  <2>3. QED
    BY <1>1, <1>3, <1>5, <2>1, <2>2 DEF Part
<1>7. QED
  BY <1>4, <1>6 DEF PostFits, CutShort, Part, NoPost

LEMMA FitsInit == Init => PageFits /\ PostFits
BY PlainPages DEF Init, PageFits, PostFits

LEMMA FitsStep == PageFits /\ PostFits /\ [Next]_vars => PageFits' /\ PostFits'
<1> SUFFICES ASSUME PageFits, PostFits, [Next]_vars PROVE PageFits' /\ PostFits'
  OBVIOUS
<1>1. ASSUME NEW b \in Buttons(page), Press(b) PROVE PageFits' /\ PostFits'
  <2>1. post' = Part(page, b, Len(Parts(page))) /\ page' = page
    BY <1>1, ButtonIsWhole DEF Press, PageFits
  <2>2. Len(Parts(page)) \in 0 .. Len(Parts(page))
    BY LastPart
  <2>3. QED
    BY <2>1, <2>2 DEF PageFits, PostFits
<1>2. CASE CutShort
  BY <1>2, CutPost DEF CutShort, PageFits
<1>3. CASE Visit
  BY <1>3, PlainPages DEF Visit, PageFits, PostFits
<1>4. CASE Serve
  <2>1. CASE ConnectionLost
    BY <2>1 DEF ConnectionLost, Answer, PageFits, PostFits
  <2>2. CASE Admitted /\ Handle
    BY <2>2, HandlersShow DEF PageFits, PostFits
  <2>3. QED
    BY <1>4, <2>1, <2>2 DEF Serve
<1>5. ASSUME UNCHANGED <<page, post>> PROVE PageFits' /\ PostFits'
  BY <1>5 DEF PageFits, PostFits
<1>6. CASE \/ \E value \in Choices(entry.name) : Choose(value)
           \/ Leave
           \/ UNCHANGED vars
  BY <1>5, <1>6 DEF Choose, Leave, vars
<1>7. QED
  BY <1>1, <1>2, <1>3, <1>4, <1>6 DEF Next

LEMMA AlwaysFits == Spec => [](PageFits /\ PostFits)
BY FitsInit, FitsStep, PTL DEF Spec

\* A handler gets the number of what it takes it for, over menus, forms,
\* messages and back (form_menus.c, form_admin.c and the switch of shrs.c).
THEOREM OidsAlwaysFit == Spec => []OidsFit
<1>1. PageFits /\ PostFits => OidsFit
  BY FitsImply
<1>2. QED
  BY <1>1, AlwaysFits, PTL

\* The menus of users, components and products have no number left over, so
\* that their Add never opens what was edited before.
THEOREM AddsAlwaysNew == Spec => []AddsAreNew
<1>1. PageFits /\ PostFits => AddsAreNew
  BY FitsImply
<1>2. QED
  BY <1>1, AlwaysFits, PTL

\* Neither page 3 nor the save of a new request is reached without a product, a
\* component, a revision and a PAM release.
THEOREM ItemsComeFirst == Spec => []ItemsFirst
<1>1. PageFits /\ PostFits => ItemsFirst
  BY FitsImply
<1>2. QED
  BY <1>1, AlwaysFits, PTL

\* Wherever a form is cut while util_read reads it, nothing is done with it:
\* the sid comes last, and the password of a login.
THEOREM PartsAreHarmless == Spec => PartsChangeNothing
<1>1. PageFits /\ PostFits /\ [Next]_vars
        => [IsCut /\ post' = NoPost => UNCHANGED <<page, entry>>]_vars
  <2> SUFFICES ASSUME PageFits, PostFits, Next, IsCut, post' = NoPost
               PROVE  UNCHANGED <<page, entry>>
    OBVIOUS
  <2>1. post # NoPost
    BY DEF IsCut
  <2>2. ~ Admitted
    BY AdmittedWhole DEF IsCut
  <2>3. ~ CutShort /\ ~ Leave
    BY <2>1, CutPost DEF Leave
  <2>4. ConnectionLost
    BY <2>1, <2>2, <2>3 DEF Next, Press, Choose, Visit, Serve
  <2>5. QED
    BY <2>4 DEF ConnectionLost, Answer
<1>2. QED
  BY <1>1, AlwaysFits, PTL DEF Spec, PartsChangeNothing
=============================================================================
