---------------------------- MODULE CheckoutProofs ----------------------------
(***************************************************************************)
(* Theorems about Checkout, for any users, windows, requests, contents,    *)
(* choices and CHECKOUT_TIME, with and without children that are lost.     *)
(***************************************************************************)
EXTENDS Checkout, TLAPS

-----------------------------------------------------------------------------
(* Types.                                                                  *)

\* The ten statuses, as the integers they are.
LEMMA StatusNumbers ==
  /\ New \in Status /\ Closed \in Status
  /\ New # Closed
BY DEF New, Closed, Status

\* A busy handler opens or saves, and its place tells which.
LEMMA JobKinds ==
  ASSUME TypeOK, NEW w \in Window
  PROVE  /\ job[w].pc \in {"purge", "insert", "roles"} => job[w] \in OpenJob
         /\ job[w].pc \in {"extend", "update", "history", "checkin"} => job[w] \in SaveJob
         /\ job[w].pc = "idle" => job[w] = Idle
         /\ page[w].kind = "form" => page[w] \in Form
BY DEF TypeOK, Idle, OpenJob, SaveJob, NoForm, Form

\* Renewing, ageing and spending a row leaves it about the request, the user
\* and the window it was about.
LEMMA RenewedRow ==
  ASSUME NEW l \in LockRow, NEW w
  PROVE  LET m == Extended(l, w) IN
           /\ m \in LockRow
           /\ m.request = l.request /\ m.user = l.user
           /\ m.window = l.window /\ m.fresh = l.fresh
           /\ m.ttl = IF l.request = job[w].request /\ l.user = UserOf[w]
                      THEN CheckoutTime ELSE l.ttl
<1>1. CheckoutTime \in -1 .. CheckoutTime
  BY CheckoutAssumption
<1>2. QED
  BY <1>1 DEF Extended, LockRow

LEMMA AgedRow ==
  ASSUME NEW l \in LockRow
  PROVE  LET m == Aged(l) IN
           /\ m \in LockRow
           /\ m.request = l.request /\ m.user = l.user
           /\ m.window = l.window /\ m.fresh = l.fresh
           /\ m.ttl = IF l.ttl >= 0 THEN l.ttl - 1 ELSE l.ttl
BY CheckoutAssumption DEF Aged, LockRow

LEMMA SpentRow ==
  ASSUME NEW l \in LockRow
  PROVE  LET m == Spent(l) IN
           /\ m \in LockRow
           /\ m.request = l.request /\ m.user = l.user
           /\ m.window = l.window /\ m.fresh = FALSE /\ m.ttl = l.ttl
BY DEF Spent, LockRow

LEMMA TypeInit == Init => TypeOK
BY StatusNumbers DEF Init, TypeOK, Idle, NoForm

LEMMA TypeStep == TypeOK /\ [Next]_vars => TypeOK'
<1> SUFFICES ASSUME TypeOK, [Next]_vars PROVE TypeOK'
  OBVIOUS
<1> USE CheckoutAssumption, StatusNumbers, JobKinds
<1>1. ASSUME NEW w \in Window, SaveNewRequest(w) PROVE TypeOK'
  BY <1>1 DEF SaveNewRequest, TypeOK, Record
<1>2. ASSUME NEW w \in Window, NEW r \in Request, OpenRequest(w, r) PROVE TypeOK'
  BY <1>2 DEF OpenRequest, TypeOK, OpenJob
<1>3. ASSUME NEW w \in Window, DeleteOldLocks(w) PROVE TypeOK'
  BY <1>3 DEF DeleteOldLocks, TypeOK, OpenJob, At, Goto
<1>4. ASSUME NEW w \in Window, InsertLock(w) PROVE TypeOK'
  <2>1. job[w] \in OpenJob
    BY <1>4 DEF InsertLock, At
  <2>2. NewRow(w) \in LockRow
    BY <2>1 DEF NewRow, LockRow, OpenJob
  <2>3. locks' \subseteq LockRow
    BY <1>4, <2>2 DEF InsertLock, TypeOK
  <2>4. job' \in [Window -> {Idle} \cup OpenJob \cup SaveJob]
    <3> DEFINE free == RowsOf(job[w].request) = {}
    <3>1. free \in BOOLEAN
      BY DEF free
    <3>2. job' = [job EXCEPT ![w] = [[@ EXCEPT !.pc = "roles"] EXCEPT !.is_checked_out = free]]
      BY <1>4 DEF InsertLock, TypeOK
    <3> HIDE DEF free
    <3> QED
      BY <2>1, <3>1, <3>2 DEF TypeOK, OpenJob
  <2> QED
    BY <1>4, <2>3, <2>4 DEF InsertLock, TypeOK
<1>5. ASSUME NEW w \in Window, ShowForm(w) PROVE TypeOK'
  BY <1>5 DEF ShowForm, TypeOK, OpenJob, At, Finish, Form, create_status, create_controls
<1>6. ASSUME NEW w \in Window, ReprocessRequest(w) PROVE TypeOK'
  <2>1. page[w] \in Form
    BY <1>6 DEF ReprocessRequest, CanSubmit
  <2> DEFINE s == create_status(page[w].record.status, Ut(w))
             c == create_controls(page[w].record.status, Ut(w))
  <2>2. s \in BOOLEAN /\ c \in BOOLEAN
    BY DEF create_status, create_controls
  <2>3. page' = [page EXCEPT ![w] = [[@ EXCEPT !.status_box = s] EXCEPT !.controls = c]]
    BY <1>6 DEF ReprocessRequest, TypeOK
  <2> HIDE DEF s, c
  <2>4. page' \in [Window -> {NoForm} \cup Form]
    BY <2>1, <2>2, <2>3 DEF TypeOK, Form
  <2> QED
    BY <1>6, <2>4 DEF ReprocessRequest, TypeOK
<1>7. ASSUME NEW w \in Window, SubmitSave(w) PROVE TypeOK'
  BY <1>7 DEF SubmitSave, CanSubmit, TypeOK, Form, SaveJob, Record, Statuses, Contents
<1>8. ASSUME NEW w \in Window, ExtendCheckout(w) PROVE TypeOK'
  BY <1>8 DEF ExtendCheckout, Extended, TypeOK, SaveJob, At, Goto, LockRow
<1>9. ASSUME NEW w \in Window, SaveCrashes(w) \/ UpdateFails(w) PROVE TypeOK'
  BY <1>9 DEF SaveCrashes, UpdateFails, TypeOK, Finish
<1>10. ASSUME NEW w \in Window, UpdateRequest(w) PROVE TypeOK'
  <2>1. job[w] \in SaveJob
    BY <1>10 DEF UpdateRequest, At
  <2>2. \A r \in DOMAIN requests' : requests'[r] \in Record
    BY <1>10, <2>1 DEF UpdateRequest, TypeOK, SaveJob
  <2>3. DOMAIN requests' \subseteq Request
    BY <1>10 DEF UpdateRequest, TypeOK
  <2>4. locks' \subseteq LockRow
    BY <1>10, SpentRow DEF UpdateRequest, TypeOK
  <2>5. job' \in [Window -> {Idle} \cup OpenJob \cup SaveJob]
    BY <1>10, <2>1 DEF UpdateRequest, Goto, TypeOK, SaveJob
  <2>6. orderly' \subseteq Request
    BY <1>10 DEF UpdateRequest, TypeOK
  <2> QED
    BY <1>10, <2>2, <2>3, <2>4, <2>5, <2>6 DEF UpdateRequest, TypeOK
<1>11. ASSUME NEW w \in Window, InsertHistory(w) \/ HistoryFails(w) PROVE TypeOK'
  BY <1>11 DEF InsertHistory, HistoryFails, TypeOK, SaveJob, At, Goto, Record
<1>12. ASSUME NEW w \in Window, CheckinAfterSave(w) \/ CheckinRequest(w) PROVE TypeOK'
  BY <1>12 DEF CheckinAfterSave, CheckinRequest, WithoutRow, TypeOK, Finish
<1>13. ASSUME NEW w \in Window, HandlerDies(w) PROVE TypeOK'
  BY <1>13, SpentRow DEF HandlerDies, TypeOK, Finish
<1>14. CASE ClearAllLocks
  BY <1>14 DEF ClearAllLocks, TypeOK
<1>15. CASE SaveSystemUsers
  BY <1>15 DEF SaveSystemUsers, TypeOK
<1>16. CASE Tick
  BY <1>16, AgedRow DEF Tick, TypeOK
<1>17. CASE UNCHANGED vars
  BY <1>17 DEF vars, TypeOK
<1>18. QED
  BY <1>1, <1>2, <1>3, <1>4, <1>5, <1>6, <1>7, <1>8, <1>9, <1>10, <1>11, <1>12,
     <1>13, <1>14, <1>15, <1>16, <1>17 DEF Next, Ask, Step

\* The variables keep their types: in particular a row of request_locks never
\* outlives its renewal by more than CHECKOUT_TIME.
THEOREM Typing == Spec => []TypeOK
BY TypeInit, TypeStep, PTL DEF Spec

-----------------------------------------------------------------------------
(* One row for a request.                                                  *)

LEMMA UniqueStep == TypeOK /\ UniqueLocks /\ [Next]_vars => UniqueLocks'
<1> SUFFICES ASSUME TypeOK, UniqueLocks, [Next]_vars PROVE UniqueLocks'
  OBVIOUS
<1>0. \A l \in locks : l \in LockRow
  BY DEF TypeOK
<1>1. CASE locks' \subseteq locks
  BY <1>1 DEF UniqueLocks
<1>2. ASSUME NEW w \in Window, InsertLock(w) PROVE UniqueLocks'
  BY <1>2 DEF InsertLock, UniqueLocks, NewRow, RowsOf
<1>3. ASSUME NEW w \in Window, ExtendCheckout(w) PROVE UniqueLocks'
  <2>1. \A m \in locks' : \E l \in locks : m = Extended(l, w) /\ m.request = l.request
    BY <1>0, <1>3, RenewedRow DEF ExtendCheckout
  <2>2. QED
    BY <2>1 DEF UniqueLocks
<1>4. ASSUME NEW w \in Window, UpdateRequest(w) PROVE UniqueLocks'
  <2>1. \A m \in locks' : \E l \in locks : m = (IF l \in Granted(w, job[w].request) THEN Spent(l) ELSE l)
    BY <1>4 DEF UpdateRequest
  <2>2. \A m \in locks' : \E l \in locks : m.request = l.request
                                /\ m = (IF l \in Granted(w, job[w].request) THEN Spent(l) ELSE l)
    BY <1>0, <2>1, SpentRow
  <2>3. QED
    BY <2>2 DEF UniqueLocks
<1>10. ASSUME NEW w \in Window, HandlerDies(w) PROVE UniqueLocks'
  <2>1. \A m \in locks' : \E l \in locks : m = (IF At(w, "roles") /\ l \in Granted(w, job[w].request)
                 THEN Spent(l) ELSE l)
    BY <1>10 DEF HandlerDies
  <2>2. \A m \in locks' : \E l \in locks : m.request = l.request
                                /\ m = (IF At(w, "roles") /\ l \in Granted(w, job[w].request)
                 THEN Spent(l) ELSE l)
    BY <1>0, <2>1, SpentRow
  <2>3. QED
    BY <2>2 DEF UniqueLocks
<1>5. CASE Tick
  <2>1. \A m \in locks' : \E l \in locks : m = Aged(l) /\ m.request = l.request
    BY <1>0, <1>5, AgedRow DEF Tick
  <2>2. QED
    BY <2>1 DEF UniqueLocks
<1>6. ASSUME NEW w \in Window, Ask(w) PROVE locks' \subseteq locks
  BY <1>6 DEF Ask, SaveNewRequest, OpenRequest, ReprocessRequest, SubmitSave,
              CheckinRequest, WithoutRow
<1>7. ASSUME NEW w \in Window,
             \/ DeleteOldLocks(w) \/ ShowForm(w) \/ SaveCrashes(w) \/ UpdateFails(w)
             \/ InsertHistory(w) \/ HistoryFails(w) \/ CheckinAfterSave(w)
      PROVE  locks' \subseteq locks
  BY <1>7 DEF DeleteOldLocks, ShowForm, SaveCrashes, UpdateFails, InsertHistory,
              HistoryFails, CheckinAfterSave, WithoutRow
<1>8. CASE ClearAllLocks \/ SaveSystemUsers \/ UNCHANGED vars
  BY <1>1, <1>8 DEF ClearAllLocks, SaveSystemUsers, vars
<1>9. QED
  BY <1>1, <1>2, <1>3, <1>4, <1>10, <1>5, <1>6, <1>7, <1>8 DEF Next, Step

\* A request is checked out once, whatever the handlers, the clock and the
\* administrator do.
THEOREM OneCheckout == Spec => []UniqueLocks
<1>1. Init => UniqueLocks
  BY DEF Init, UniqueLocks
<1>2. QED
  BY <1>1, Typing, UniqueStep, PTL DEF Spec

-----------------------------------------------------------------------------
(* Forms, handlers and rows are about requests that exist.                 *)

\* No statement deletes a request, and only a save changes one.
LEMMA RequestsStay ==
  ASSUME [Next]_vars
  PROVE  /\ DOMAIN requests \subseteq DOMAIN requests'
         /\ \A r \in DOMAIN requests :
              \/ requests'[r] = requests[r]
              \/ \E w \in Window : UpdateRequest(w) /\ job[w].request = r
<1>1. ASSUME NEW w \in Window, SaveNewRequest(w)
      PROVE  DOMAIN requests \subseteq DOMAIN requests'
             /\ \A r \in DOMAIN requests : requests'[r] = requests[r]
  BY <1>1 DEF SaveNewRequest
<1>2. ASSUME NEW w \in Window, UpdateRequest(w)
      PROVE  DOMAIN requests \subseteq DOMAIN requests'
             /\ \A r \in DOMAIN requests \ {job[w].request} : requests'[r] = requests[r]
  BY <1>2 DEF UpdateRequest
<1>3. CASE UNCHANGED requests
  BY <1>3
<1>4. QED
  BY <1>1, <1>2, <1>3 DEF Next, Ask, Step, OpenRequest, DeleteOldLocks, InsertLock,
     ShowForm, ReprocessRequest, SubmitSave, ExtendCheckout, SaveCrashes, UpdateFails,
     InsertHistory, HistoryFails, CheckinAfterSave, CheckinRequest, ClearAllLocks,
     SaveSystemUsers, Tick, HandlerDies, vars

\* A row is the one a handler inserts, or has been there, perhaps fresher.
LEMMA RowOrigin ==
  ASSUME TypeOK, [Next]_vars, NEW m \in locks'
  PROVE  \/ \E l \in locks : /\ m.request = l.request /\ m.user = l.user
                             /\ m.window = l.window /\ (m.fresh => l.fresh)
         \/ \E w \in Window : InsertLock(w) /\ m = NewRow(w)
<1>0. \A l \in locks : l \in LockRow
  BY DEF TypeOK
<1>1. CASE m \in locks
  BY <1>1
<1>2. ASSUME NEW w \in Window, InsertLock(w) PROVE m \in locks \cup {NewRow(w)}
  BY <1>2 DEF InsertLock
<1>3. ASSUME NEW w \in Window, ExtendCheckout(w)
      PROVE  \E l \in locks : m = Extended(l, w)
  BY <1>3 DEF ExtendCheckout
<1>4. ASSUME NEW w \in Window, UpdateRequest(w) \/ HandlerDies(w)
      PROVE  m \in locks \/ \E l \in locks : m = Spent(l)
  BY <1>4 DEF UpdateRequest, HandlerDies
<1>5. CASE Tick
  <2>1. \E l \in locks : m = Aged(l)
    BY <1>5 DEF Tick
  <2>2. QED
    BY <1>0, <2>1, AgedRow
<1>6. ASSUME NEW w \in Window,
             \/ Ask(w) \/ DeleteOldLocks(w) \/ ShowForm(w) \/ SaveCrashes(w)
             \/ UpdateFails(w) \/ InsertHistory(w) \/ HistoryFails(w)
             \/ CheckinAfterSave(w)
      PROVE  m \in locks
  BY <1>6 DEF Ask, SaveNewRequest, OpenRequest, ReprocessRequest, SubmitSave,
     CheckinRequest, WithoutRow, DeleteOldLocks, ShowForm, SaveCrashes, UpdateFails,
     InsertHistory, HistoryFails, CheckinAfterSave
<1>7. CASE ClearAllLocks \/ SaveSystemUsers \/ UNCHANGED vars
  BY <1>1, <1>7 DEF ClearAllLocks, SaveSystemUsers, vars
<1>8. ASSUME NEW w \in Window, ExtendCheckout(w) \/ UpdateRequest(w) \/ HandlerDies(w)
      PROVE  \E l \in locks : /\ m.request = l.request /\ m.user = l.user
                              /\ m.window = l.window /\ (m.fresh => l.fresh)
  <2>1. CASE ExtendCheckout(w)
    <3>1. PICK l \in locks : m = Extended(l, w)
      BY <1>3, <2>1
    <3>2. QED
      BY <1>0, <3>1, RenewedRow
  <2>2. CASE UpdateRequest(w) \/ HandlerDies(w)
    <3>1. ASSUME NEW l \in locks, m = Spent(l)
          PROVE  m.request = l.request /\ m.user = l.user /\ m.window = l.window /\ ~ m.fresh
      BY <1>0, <3>1, SpentRow
    <3>2. QED
      BY <1>1, <1>4, <2>2, <3>1
  <2>3. QED
    BY <1>8, <2>1, <2>2
<1>9. QED
  BY <1>1, <1>2, <1>5, <1>6, <1>7, <1>8 DEF Next, Step

LEMMA FitStep == TypeOK /\ FormsFit /\ [Next]_vars => FormsFit'
<1> SUFFICES ASSUME TypeOK, FormsFit, [Next]_vars PROVE FormsFit'
  OBVIOUS
<1>1. \A l \in locks' : l.request \in DOMAIN requests'
  <2> SUFFICES ASSUME NEW m \in locks' PROVE m.request \in DOMAIN requests'
    OBVIOUS
  <2>1. ASSUME NEW w \in Window, InsertLock(w), m = NewRow(w)
        PROVE  m.request \in DOMAIN requests
    BY <2>1 DEF FormsFit, HandlerFits, InsertLock, At, NewRow
  <2>2. QED
    BY <2>1, RowOrigin, RequestsStay DEF FormsFit
<1>2. \A r \in Request \ DOMAIN requests' : history'[r] = New
  <2>1. ASSUME NEW w \in Window, InsertHistory(w)
        PROVE  \A r \in Request \ DOMAIN requests : history'[r] = New
    BY <2>1 DEF InsertHistory, TypeOK, FormsFit, HandlerFits, At
  <2>2. (\E w \in Window : InsertHistory(w)) \/ UNCHANGED history
    BY DEF Next, Ask, Step, SaveNewRequest, OpenRequest, DeleteOldLocks, InsertLock,
       ShowForm, ReprocessRequest, SubmitSave, ExtendCheckout, SaveCrashes, UpdateFails,
       UpdateRequest, HistoryFails, CheckinAfterSave, CheckinRequest, ClearAllLocks,
       SaveSystemUsers, Tick, HandlerDies, vars
  <2>3. QED
    BY <2>1, <2>2, RequestsStay DEF FormsFit
<1>3. ASSUME NEW v \in Window PROVE HandlerFits(v)' /\ FormFits(v)'
  <2> USE DEF At, Saving, Editing
  <2>0. HandlerFits(v) /\ FormFits(v) /\ DOMAIN requests \subseteq DOMAIN requests'
    BY RequestsStay DEF FormsFit
  <2>1. CASE UNCHANGED <<job[v], page[v]>>
    BY <2>0, <2>1 DEF HandlerFits, FormFits
  <2>2. ASSUME NEW r \in Request, OpenRequest(v, r) PROVE HandlerFits(v)' /\ FormFits(v)'
    BY <2>0, <2>2 DEF HandlerFits, FormFits, OpenRequest, TypeOK
  <2>3. CASE DeleteOldLocks(v) \/ InsertLock(v)
    BY <2>0, <2>3, JobKinds DEF HandlerFits, FormFits, DeleteOldLocks, InsertLock, Goto,
       TypeOK, OpenJob
  <2>4. CASE ShowForm(v)
    BY <2>0, <2>4, JobKinds DEF HandlerFits, FormFits, ShowForm, Finish, TypeOK, Idle,
       create_controls
  <2>5. CASE ReprocessRequest(v)
    BY <2>0, <2>5, JobKinds DEF HandlerFits, FormFits, ReprocessRequest, CanSubmit,
       TypeOK, Form, create_controls
  <2>6. CASE SubmitSave(v)
    BY <2>0, <2>6 DEF HandlerFits, FormFits, SubmitSave, CanSubmit, TypeOK
  <2>7. CASE ExtendCheckout(v) \/ UpdateRequest(v) \/ InsertHistory(v) \/ HistoryFails(v)
    BY <2>0, <2>7, JobKinds DEF HandlerFits, FormFits, ExtendCheckout, UpdateRequest,
       InsertHistory, HistoryFails, Goto, TypeOK, SaveJob
  <2>8. CASE SaveCrashes(v) \/ UpdateFails(v) \/ CheckinAfterSave(v) \/ HandlerDies(v)
    BY <2>0, <2>8 DEF HandlerFits, FormFits, SaveCrashes, UpdateFails, CheckinAfterSave,
       HandlerDies, Finish, TypeOK, Idle
  <2>9. CASE SaveNewRequest(v) \/ CheckinRequest(v)
    BY <2>1, <2>9 DEF SaveNewRequest, CheckinRequest
  <2>10. CASE ClearAllLocks \/ SaveSystemUsers \/ Tick \/ UNCHANGED vars
    BY <2>1, <2>10 DEF ClearAllLocks, SaveSystemUsers, Tick, vars
  <2>11. ASSUME NEW w \in Window \ {v}, Ask(w) \/ Step(w) \/ HandlerDies(w)
         PROVE  UNCHANGED <<job[v], page[v]>>
    BY <2>11 DEF TypeOK, Ask, Step, SaveNewRequest, OpenRequest, DeleteOldLocks,
       InsertLock, ShowForm, ReprocessRequest, SubmitSave, ExtendCheckout, SaveCrashes,
       UpdateFails, UpdateRequest, InsertHistory, HistoryFails, CheckinAfterSave,
       CheckinRequest, HandlerDies, Goto, Finish
  <2>12. QED
    BY <2>1, <2>2, <2>3, <2>4, <2>5, <2>6, <2>7, <2>8, <2>9, <2>10, <2>11
       DEF Next, Ask, Step
<1>4. QED
  BY <1>1, <1>2, <1>3 DEF FormsFit

-----------------------------------------------------------------------------
(* A fresh row vouches for the form of its window.                         *)

LEMMA OrderlyShrinks ==
  ASSUME [Next]_vars
  PROVE  /\ orderly' \subseteq orderly
         /\ \A w \in Window : UpdateRequest(w) /\ job[w].request \in orderly'
              => /\ Logging(job[w].request) = {}
                 /\ \E l \in Granted(w, job[w].request) : l.fresh
<1>1. ASSUME NEW w \in Window, UpdateRequest(w)
      PROVE  /\ orderly' \subseteq orderly
             /\ job[w].request \in orderly'
                  => /\ Logging(job[w].request) = {}
                     /\ \E l \in Granted(w, job[w].request) : l.fresh
  BY <1>1 DEF UpdateRequest
<1>2. ASSUME NEW w \in Window, HistoryFails(w) \/ HandlerDies(w)
      PROVE  orderly' \subseteq orderly
  BY <1>2 DEF HistoryFails, HandlerDies
<1>3. QED
  BY <1>1, <1>2 DEF Next, Ask, Step, SaveNewRequest, OpenRequest, DeleteOldLocks,
     InsertLock, ShowForm, ReprocessRequest, SubmitSave, ExtendCheckout, SaveCrashes,
     UpdateFails, InsertHistory, CheckinAfterSave, CheckinRequest, ClearAllLocks,
     SaveSystemUsers, Tick, vars

\* What GrantsAreFresh says of one row.
Vouched(w, r) ==
  /\ r \in DOMAIN requests
  /\ Granting(w, r) => job[w].record = requests[r]
  /\ ~ Granting(w, r) /\ Editing(w, r) => page[w].record = requests[r]

\* A handler's step keeps its form and its grant together, if the record and
\* the row stay.
LEMMA VouchedStep ==
  ASSUME TypeOK, [Next]_vars, NEW w \in Window, NEW r, Vouched(w, r),
         r \in DOMAIN requests', requests'[r] = requests[r],
         RowsOf(r) # {},
         ~ (HandlerDies(w) /\ Granting(w, r))
  PROVE  Vouched(w, r)'
<1> USE DEF Vouched, Granting, Editing, At
<1>1. CASE UNCHANGED <<job[w], page[w]>>
  BY <1>1
<1>2. ASSUME NEW x \in Request, OpenRequest(w, x) PROVE Vouched(w, r)'
  BY <1>2 DEF OpenRequest, TypeOK
<1>3. CASE DeleteOldLocks(w)
  BY <1>3, JobKinds DEF DeleteOldLocks, Goto, TypeOK, OpenJob
<1>4. CASE InsertLock(w)
  <2>1. job[w].request = r => ~ job'[w].is_checked_out
    BY <1>4, JobKinds DEF InsertLock, TypeOK, OpenJob
  <2>2. job'[w].request = job[w].request /\ page'[w] = page[w]
    BY <1>4, JobKinds DEF InsertLock, TypeOK, OpenJob
  <2>3. QED
    BY <1>4, <2>1, <2>2 DEF InsertLock
<1>5. CASE ShowForm(w)
  BY <1>5, JobKinds DEF ShowForm, Finish, TypeOK, OpenJob, Idle
<1>6. CASE ReprocessRequest(w)
  BY <1>6, JobKinds DEF ReprocessRequest, CanSubmit, TypeOK, Form
<1>7. CASE SubmitSave(w)
  BY <1>7 DEF SubmitSave, CanSubmit, TypeOK
<1>8. CASE ExtendCheckout(w) \/ UpdateRequest(w) \/ InsertHistory(w) \/ HistoryFails(w)
  BY <1>8, JobKinds DEF ExtendCheckout, UpdateRequest, InsertHistory, HistoryFails, Goto,
     TypeOK, SaveJob
<1>9. CASE SaveCrashes(w) \/ UpdateFails(w) \/ CheckinAfterSave(w)
  BY <1>9 DEF SaveCrashes, UpdateFails, CheckinAfterSave, Finish, TypeOK, Idle
<1>10. CASE HandlerDies(w)
  BY <1>10 DEF HandlerDies, Finish, TypeOK, Idle
<1>11. CASE SaveNewRequest(w) \/ CheckinRequest(w)
  BY <1>1, <1>11 DEF SaveNewRequest, CheckinRequest
<1>12. CASE ClearAllLocks \/ SaveSystemUsers \/ Tick \/ UNCHANGED vars
  BY <1>1, <1>12 DEF ClearAllLocks, SaveSystemUsers, Tick, vars
<1>13. ASSUME NEW v \in Window \ {w}, Ask(v) \/ Step(v) \/ HandlerDies(v)
       PROVE  UNCHANGED <<job[w], page[w]>>
  BY <1>13 DEF TypeOK, Ask, Step, SaveNewRequest, OpenRequest, DeleteOldLocks,
     InsertLock, ShowForm, ReprocessRequest, SubmitSave, ExtendCheckout, SaveCrashes,
     UpdateFails, UpdateRequest, InsertHistory, HistoryFails, CheckinAfterSave,
     CheckinRequest, HandlerDies, Goto, Finish
<1>14. QED
  BY <1>1, <1>2, <1>3, <1>4, <1>5, <1>6, <1>7, <1>8, <1>9, <1>10, <1>11, <1>12, <1>13
     DEF Next, Ask, Step

LEMMA FreshStep ==
  TypeOK /\ UniqueLocks /\ FormsFit /\ GrantsAreFresh /\ [Next]_vars => GrantsAreFresh'
<1> SUFFICES ASSUME TypeOK, UniqueLocks, FormsFit, GrantsAreFresh, [Next]_vars,
                    NEW m \in locks', m.fresh, m.request \in orderly'
             PROVE  Vouched(m.window, m.request)'
  BY DEF GrantsAreFresh, Vouched
<1> DEFINE w == m.window  r == m.request
<1>0. /\ \A l \in locks : l \in LockRow
      /\ r \in orderly
  BY OrderlyShrinks DEF TypeOK
<1>1. CASE \E v \in Window : InsertLock(v) /\ m = NewRow(v) /\ m \notin locks
  <2>1. PICK v \in Window : InsertLock(v) /\ m = NewRow(v) /\ m \notin locks
    BY <1>1
  <2>2. v = w /\ r = job[w].request /\ requests[r] = job[w].record
    BY <2>1 DEF NewRow
  <2>3. RowsOf(job[w].request) = {}
    BY <2>1, <2>2 DEF InsertLock
  <2>4. /\ job'[w].pc = "roles" /\ job'[w].is_checked_out
        /\ job'[w].request = r /\ job'[w].record = requests[r]
    BY <2>1, <2>2, <2>3, JobKinds DEF InsertLock, At, TypeOK, OpenJob
  <2>5. r \in DOMAIN requests /\ requests' = requests
    BY <2>1, <2>2 DEF InsertLock, FormsFit, HandlerFits, At
  <2>6. QED
    BY <2>4, <2>5 DEF Vouched, Granting, At
<1>2. CASE \E l \in locks : /\ r = l.request /\ w = l.window /\ l.fresh
  <2>1. PICK l \in locks : r = l.request /\ w = l.window /\ l.fresh
    BY <1>2
  <2>2. w \in Window /\ Vouched(w, r) /\ RowsOf(r) # {}
    BY <1>0, <2>1 DEF GrantsAreFresh, Vouched, RowsOf, LockRow
  <2>3. ASSUME NEW v \in Window, UpdateRequest(v), job[v].request = r PROVE FALSE
    <3>1. PICK g \in Granted(v, r) : g.fresh
      BY <2>3, OrderlyShrinks
    <3>2. PICK k \in locks : m = (IF k \in Granted(v, r) THEN Spent(k) ELSE k)
      BY <2>3 DEF UpdateRequest
    <3>3. k.request = r
      BY <1>0, <3>2, SpentRow
    <3>4. k = g
      BY <3>1, <3>3 DEF UniqueLocks, Granted, RowsOf
    <3>5. QED
      BY <1>0, <3>1, <3>2, <3>4, SpentRow
  <2>4. ASSUME HandlerDies(w), Granting(w, r) PROVE FALSE
    <3>1. PICK k \in locks : m = (IF k \in Granted(w, r) THEN Spent(k) ELSE k)
      BY <2>4 DEF HandlerDies, Granting
    <3>2. k.request = r /\ k.window = w
      BY <1>0, <3>1, SpentRow
    <3>3. QED
      BY <1>0, <3>1, <3>2, SpentRow DEF Granted, RowsOf
  <2>5. r \in DOMAIN requests' /\ requests'[r] = requests[r]
    BY <2>2, <2>3, RequestsStay DEF Vouched
  <2>6. QED
    BY <2>2, <2>4, <2>5, VouchedStep
<1>3. QED
  BY <1>1, <1>2, RowOrigin, m \in locks \/ m \notin locks

(***************************************************************************)
(* The inductive invariant: UniqueLocks, so that a grant excludes the      *)
(* others; FormsFit, so that a save is about what its window shows; and    *)
(* GrantsAreFresh itself.                                                  *)
(***************************************************************************)
IInv == TypeOK /\ UniqueLocks /\ FormsFit /\ GrantsAreFresh

LEMMA Invariance == Spec => []IInv
<1>1. Init => IInv
  <2>1. Init => UniqueLocks /\ GrantsAreFresh
    BY DEF Init, UniqueLocks, GrantsAreFresh
  <2>2. Init => FormsFit
    BY DEF Init, FormsFit, HandlerFits, FormFits, At, Saving, Idle, NoForm
  <2>3. QED
    BY <2>1, <2>2, TypeInit DEF IInv
<1>2. IInv /\ [Next]_vars => IInv'
  BY TypeStep, UniqueStep, FitStep, FreshStep DEF IInv
<1>3. QED
  BY <1>1, <1>2, PTL DEF Spec

\* As long as every update was proper, the window that holds the row of a
\* request sees the request as it is in the table.
THEOREM FreshGrants == Spec => []GrantsAreFresh
<1>1. IInv => GrantsAreFresh
  BY DEF IInv
<1>2. QED
  BY <1>1, Invariance, PTL

\* A proper update is made from the record that the form shows.
LEMMA InformedUpdate ==
  ASSUME IInv, [Next]_vars, NEW w \in Window, UpdateRequest(w),
         job[w].request \in orderly'
  PROVE  /\ job[w].request \in DOMAIN requests /\ job[w].request \in orderly
         /\ page[w].record = requests[job[w].request]
<1> DEFINE r == job[w].request
<1>1. PICK l \in Granted(w, r) : l.fresh
  BY OrderlyShrinks
<1>2. l \in locks /\ l.request = r /\ l.window = w /\ r \in orderly
  BY <1>1, OrderlyShrinks DEF Granted, RowsOf
<1>3. Editing(w, r) /\ ~ Granting(w, r) /\ r \in DOMAIN requests
  BY DEF IInv, FormsFit, HandlerFits, UpdateRequest, At, Saving, Granting
<1>4. QED
  BY <1>1, <1>2, <1>3 DEF IInv, GrantsAreFresh

\* No lost update: what a save overwrites unseen, it overwrites without a
\* proper checkout.
THEOREM NothingLost == Spec => NoLostUpdate
<1>1. ASSUME IInv, [Next]_vars
      PROVE  [\A w \in Window :
                UpdateRequest(w) /\ page[w].record # requests[job[w].request]
                  => job[w].request \notin orderly']_vars
  BY <1>1, InformedUpdate
<1>2. QED
  BY <1>1, Invariance, PTL DEF Spec, NoLostUpdate

\* A closed request stays as it is under proper updates: its form has no
\* controls, and without them a save does not come through.
THEOREM ClosedRemains == Spec => ClosedIsFinal
<1>1. ASSUME IInv, [Next]_vars, NEW r \in DOMAIN requests,
             requests[r].status = Closed, r \in orderly'
      PROVE  requests'[r] = requests[r]
  <2> SUFFICES ASSUME NEW w \in Window, UpdateRequest(w), job[w].request = r PROVE FALSE
    BY <1>1, RequestsStay
  <2>1. page[w].record.status = Closed
    BY <1>1, InformedUpdate
  <2>2. page[w].kind = "form" /\ page[w].controls
    BY <1>1 DEF IInv, FormsFit, HandlerFits, UpdateRequest, At, Saving, Editing
  <2>3. QED
    BY <1>1, <2>1, <2>2 DEF IInv, FormsFit, FormFits
<1>2. ASSUME IInv, [Next]_vars
      PROVE  [\A r \in DOMAIN requests :
                requests[r].status = Closed /\ r \in orderly'
                  => requests'[r] = requests[r]]_vars
  BY <1>1, <1>2
<1>3. QED
  BY <1>2, Invariance, PTL DEF Spec, ClosedIsFinal

-----------------------------------------------------------------------------
(* The history of a request ends with its status.                          *)

LEMMA LogStep == IInv /\ LogMatchesStatus /\ [Next]_vars => LogMatchesStatus'
<1> SUFFICES ASSUME IInv, LogMatchesStatus, [Next]_vars,
                    NEW r \in orderly' \cap DOMAIN requests'
             PROVE  /\ Logging(r)' = {} => history'[r] = requests'[r].status
                    /\ \A v \in Logging(r)' : job'[v].new.status = requests'[r].status
  BY DEF LogMatchesStatus
<1> USE DEF At
<1>0. r \in orderly /\ r \in Request /\ TypeOK
  BY OrderlyShrinks DEF IInv, TypeOK
<1>1. CASE r \notin DOMAIN requests
  <2>1. PICK w \in Window : SaveNewRequest(w)
    BY <1>1 DEF Next, Ask, Step, OpenRequest, DeleteOldLocks, InsertLock, ShowForm,
       ReprocessRequest, SubmitSave, ExtendCheckout, SaveCrashes, UpdateFails,
       UpdateRequest, InsertHistory, HistoryFails, CheckinAfterSave, CheckinRequest,
       ClearAllLocks, SaveSystemUsers, Tick, HandlerDies, vars
  <2>2. requests'[r].status = New /\ history'[r] = New /\ job' = job
    BY <1>0, <1>1, <2>1 DEF SaveNewRequest, IInv, FormsFit
  <2>3. Logging(r)' = {}
    BY <1>1, <2>2 DEF Logging, IInv, FormsFit, HandlerFits
  <2>4. QED
    BY <2>2, <2>3
<1>2. CASE r \in DOMAIN requests
  <2>1. /\ Logging(r) = {} => history[r] = requests[r].status
        /\ \A v \in Logging(r) : job[v].new.status = requests[r].status
    BY <1>0, <1>2 DEF LogMatchesStatus
  <2>2. ASSUME NEW w \in Window, UpdateRequest(w), job[w].request = r
        PROVE  /\ Logging(r)' = {} => history'[r] = requests'[r].status
               /\ \A v \in Logging(r)' : job'[v].new.status = requests'[r].status
    <3>1. /\ Logging(r) = {} /\ history[r] = requests[r].status
          /\ page[w].record = requests[r]
      BY <2>1, <2>2, OrderlyShrinks, InformedUpdate
    <3>2. /\ requests'[r] = job[w].new /\ history' = history
          /\ job' = [job EXCEPT ![w].pc = IF StatusChanged(w) THEN "history" ELSE "checkin"]
      BY <1>2, <2>2 DEF UpdateRequest, Goto
    <3>3. job[w] \in SaveJob
      BY <1>0, <2>2, JobKinds DEF UpdateRequest
    <3>4. /\ job'[w].new = job[w].new /\ job'[w].request = r
          /\ job'[w].pc = IF StatusChanged(w) THEN "history" ELSE "checkin"
          /\ \A v \in Window \ {w} : job'[v] = job[v]
      BY <1>0, <2>2, <3>2, <3>3 DEF TypeOK, SaveJob
    <3>5. Logging(r)' = IF StatusChanged(w) THEN {w} ELSE {}
      BY <3>1, <3>4 DEF Logging
    <3>6. ~ StatusChanged(w) => history[r] = job[w].new.status
      BY <3>1 DEF StatusChanged
    <3>7. QED
      BY <3>2, <3>4, <3>5, <3>6
  <2>3. CASE requests'[r] = requests[r] /\ history'[r] = history[r]
             /\ \A v \in Window : At(v, "history")' \/ At(v, "history") => job'[v] = job[v]
    BY <2>1, <2>3 DEF Logging
  <2>4. ASSUME NEW w \in Window, InsertHistory(w)
        PROVE  /\ Logging(r)' = {} => history'[r] = requests'[r].status
               /\ \A v \in Logging(r)' : job'[v].new.status = requests'[r].status
    <3>1. /\ requests' = requests /\ job'[w].pc = "checkin"
          /\ \A v \in Window \ {w} : job'[v] = job[v]
      BY <1>0, <2>4, JobKinds DEF InsertHistory, Goto, TypeOK, SaveJob
    <3>2. Logging(r)' = Logging(r) \ {w}
      BY <3>1 DEF Logging
    <3>3. history'[r] = IF w \in Logging(r) THEN requests[r].status ELSE history[r]
      BY <1>0, <2>1, <2>4 DEF InsertHistory, Logging, TypeOK
    <3>4. QED
      BY <2>1, <3>1, <3>2, <3>3 DEF Logging
  <2>5. ASSUME NEW w \in Window, HistoryFails(w) \/ (HandlerDies(w) /\ At(w, "history"))
        PROVE  /\ Logging(r)' = {} => history'[r] = requests'[r].status
               /\ \A v \in Logging(r)' : job'[v].new.status = requests'[r].status
    <3>1. job[w].request # r /\ w \notin Logging(r)
      BY <2>5 DEF HistoryFails, HandlerDies, Logging
    <3>2. /\ requests' = requests /\ history' = history /\ job'[w].pc # "history"
          /\ \A v \in Window \ {w} : job'[v] = job[v]
      BY <1>0, <2>5, JobKinds DEF HistoryFails, HandlerDies, Goto, Finish, TypeOK, SaveJob, Idle
    <3>3. Logging(r)' = Logging(r)
      BY <3>1, <3>2 DEF Logging
    <3>4. QED
      BY <2>1, <3>1, <3>2, <3>3 DEF Logging
  <2>6. ASSUME NEW w \in Window,
               \/ Ask(w) \/ DeleteOldLocks(w) \/ InsertLock(w) \/ ShowForm(w)
               \/ ExtendCheckout(w) \/ SaveCrashes(w) \/ UpdateFails(w)
               \/ CheckinAfterSave(w) \/ (HandlerDies(w) /\ ~ At(w, "history"))
        PROVE  \A v \in Window : At(v, "history")' \/ At(v, "history") => job'[v] = job[v]
    <3>1. ~ At(w, "history") /\ \A v \in Window \ {w} : job'[v] = job[v]
      BY <1>0, <2>6 DEF TypeOK, Ask, SaveNewRequest, OpenRequest, DeleteOldLocks, InsertLock,
         ShowForm, ReprocessRequest, SubmitSave, ExtendCheckout, SaveCrashes, UpdateFails,
         CheckinAfterSave, CheckinRequest, HandlerDies, Goto, Finish, CanSubmit
    <3>2. CASE DeleteOldLocks(w) \/ InsertLock(w)
      BY <1>0, <3>1, <3>2, JobKinds DEF DeleteOldLocks, InsertLock, Goto, TypeOK, OpenJob
    <3>3. CASE ExtendCheckout(w)
      BY <1>0, <3>1, <3>3, JobKinds DEF ExtendCheckout, Goto, TypeOK, SaveJob
    <3>4. CASE ShowForm(w) \/ SaveCrashes(w) \/ UpdateFails(w) \/ CheckinAfterSave(w) \/ HandlerDies(w)
      BY <1>0, <3>1, <3>4 DEF ShowForm, SaveCrashes, UpdateFails, CheckinAfterSave,
         HandlerDies, Finish, TypeOK, Idle
    <3>5. CASE Ask(w)
      BY <1>0, <3>1, <3>5 DEF Ask, SaveNewRequest, OpenRequest, ReprocessRequest, SubmitSave,
         CheckinRequest, TypeOK
    <3>6. QED
      BY <2>6, <3>2, <3>3, <3>4, <3>5
  <2>7. ASSUME NEW w \in Window, UpdateRequest(w), job[w].request # r
        PROVE  /\ Logging(r)' = {} => history'[r] = requests'[r].status
               /\ \A v \in Logging(r)' : job'[v].new.status = requests'[r].status
    <3>1. /\ requests'[r] = requests[r] /\ history' = history
          /\ job'[w].request # r
          /\ \A v \in Window \ {w} : job'[v] = job[v]
      BY <1>0, <1>2, <2>7, JobKinds DEF UpdateRequest, Goto, TypeOK, SaveJob
    <3>2. Logging(r)' = Logging(r)
      BY <2>7, <3>1 DEF Logging
    <3>3. QED
      BY <2>1, <2>7, <3>1, <3>2 DEF Logging
  <2>8. CASE ClearAllLocks \/ SaveSystemUsers \/ Tick \/ UNCHANGED vars
    BY <2>3, <2>8 DEF ClearAllLocks, SaveSystemUsers, Tick, vars
  <2>9. ASSUME ~ \E w \in Window : UpdateRequest(w) \/ InsertHistory(w)
        PROVE  requests'[r] = requests[r] /\ history'[r] = history[r]
    <3>1. requests'[r] = requests[r]
      BY <1>2, <2>9, RequestsStay
    <3>2. history' = history
      BY <2>9 DEF Next, Ask, Step, SaveNewRequest, OpenRequest, DeleteOldLocks, InsertLock,
         ShowForm, ReprocessRequest, SubmitSave, ExtendCheckout, SaveCrashes, UpdateFails,
         HistoryFails, CheckinAfterSave, CheckinRequest, ClearAllLocks, SaveSystemUsers,
         Tick, HandlerDies, vars
    <3>3. QED
      BY <3>1, <3>2
  <2>10. QED
    BY <2>2, <2>3, <2>4, <2>5, <2>6, <2>7, <2>8, <2>9 DEF Next, Step
<1>3. QED
  BY <1>1, <1>2

\* status_history tells the status of a request, or will when its handler
\* ends, as long as every update was proper and no insert was lost.
THEOREM HistoryTellsStatus == Spec => []LogMatchesStatus
<1>1. Init => LogMatchesStatus
  BY DEF Init, LogMatchesStatus
<1>2. QED
  BY <1>1, Invariance, LogStep, PTL DEF Spec

-----------------------------------------------------------------------------
(* Who holds what.                                                         *)

\* A row stays, perhaps renewed, aged or spent, unless it is collected,
\* returned or cleared.
LEMMA RowFate ==
  ASSUME TypeOK, [Next]_vars, NEW l \in locks
  PROVE  \/ \E m \in locks' : m.request = l.request /\ m.user = l.user
         \/ l.ttl < 0 /\ \E w \in Window : DeleteOldLocks(w)
         \/ ClearAllLocks
         \/ \E w \in Window : UserOf[w] = l.user /\ (CheckinAfterSave(w) \/ CheckinRequest(w))
<1>0. l \in LockRow
  BY DEF TypeOK
<1>1. CASE l \in locks'
  BY <1>1
<1>2. ASSUME NEW w \in Window,
             \/ SaveNewRequest(w) \/ (\E r \in Request : OpenRequest(w, r))
             \/ ReprocessRequest(w) \/ SubmitSave(w) \/ InsertLock(w) \/ ShowForm(w)
             \/ SaveCrashes(w) \/ UpdateFails(w) \/ InsertHistory(w) \/ HistoryFails(w)
      PROVE  l \in locks'
  BY <1>2 DEF SaveNewRequest, OpenRequest, ReprocessRequest, SubmitSave, InsertLock,
     ShowForm, SaveCrashes, UpdateFails, InsertHistory, HistoryFails
<1>3. ASSUME NEW w \in Window, ExtendCheckout(w)
      PROVE  \E m \in locks' : m.request = l.request /\ m.user = l.user
  <2>1. Extended(l, w) \in locks'
    BY <1>3 DEF ExtendCheckout
  <2>2. QED
    BY <1>0, <2>1, RenewedRow
<1>4. ASSUME NEW w \in Window, UpdateRequest(w) \/ HandlerDies(w)
      PROVE  \E m \in locks' : m.request = l.request /\ m.user = l.user
  <2>1. l \in locks' \/ Spent(l) \in locks'
    BY <1>4 DEF UpdateRequest, HandlerDies
  <2>2. QED
    BY <1>0, <2>1, SpentRow
<1>5. ASSUME Tick
      PROVE  \E m \in locks' : m.request = l.request /\ m.user = l.user
  <2>1. Aged(l) \in locks'
    BY <1>5 DEF Tick
  <2>2. QED
    BY <1>0, <2>1, AgedRow
<1>6. ASSUME NEW w \in Window, DeleteOldLocks(w) PROVE l \in locks' \/ l.ttl < 0
  BY <1>0, <1>6, CheckoutAssumption DEF DeleteOldLocks, LockRow
<1>7. ASSUME NEW w \in Window, CheckinAfterSave(w) \/ CheckinRequest(w)
      PROVE  l \in locks' \/ UserOf[w] = l.user
  BY <1>7 DEF CheckinAfterSave, CheckinRequest, WithoutRow
<1>8. CASE SaveSystemUsers \/ UNCHANGED vars
  BY <1>1, <1>8 DEF SaveSystemUsers, vars
<1>9. QED
  BY <1>1, <1>2, <1>3, <1>4, <1>5, <1>6, <1>7, <1>8 DEF Next, Ask, Step

\* A checkout whose time has not come leaves its user's hands only by a save
\* or a cancel of that user, or when the administrator clears the table.
THEOREM CheckoutsAreKept == Spec => LiveCheckoutKept
<1>1. ASSUME TypeOK, [Next]_vars, NEW l \in locks, l.ttl >= 0,
             ~ (\E m \in locks' : m.request = l.request /\ m.user = l.user)
      PROVE  \/ ClearAllLocks
             \/ \E w \in Window : /\ UserOf[w] = l.user
                                  /\ CheckinAfterSave(w) \/ CheckinRequest(w)
  <2>1. ~ (l.ttl < 0)
    BY <1>1, CheckoutAssumption DEF TypeOK, LockRow
  <2>2. QED
    BY <1>1, <2>1, RowFate
<1>2. ASSUME TypeOK, [Next]_vars
      PROVE  [\A l \in locks :
                l.ttl >= 0 /\ ~ (\E m \in locks' : m.request = l.request /\ m.user = l.user)
                  => \/ ClearAllLocks
                     \/ \E w \in Window : /\ UserOf[w] = l.user
                                          /\ CheckinAfterSave(w) \/ CheckinRequest(w)]_vars
  BY <1>1, <1>2
<1>3. QED
  BY <1>2, Typing, PTL DEF Spec, LiveCheckoutKept

\* Rows that go on for the same request and user leave the holders as they are.
LEMMA SameHolders ==
  ASSUME \A m \in locks' : \E l \in locks : m.request = l.request /\ m.user = l.user,
         \A l \in locks : \E m \in locks' : m.request = l.request /\ m.user = l.user
  PROVE  \A x : HoldersOf(x)' = HoldersOf(x)
BY DEF HoldersOf, RowsOf

\* In a table with unique rows, the row of a request tells all about it.
LEMMA OnlyRow ==
  ASSUME UniqueLocks, NEW l \in locks
  PROVE  /\ RowsOf(l.request) = {l} /\ HoldersOf(l.request) = {l.user}
         /\ l.request \in Request => (l.request \in Expired <=> l.ttl < 0)
BY DEF UniqueLocks, RowsOf, HoldersOf, Expired

LEMMA LeaseStep == IInv /\ [Next]_vars => [Leases!Next]_(Leases!vars)
<1> SUFFICES ASSUME IInv, [Next]_vars PROVE [Leases!Next]_(Leases!vars)
  OBVIOUS
<1> DEFINE H == [r \in Request |-> HoldersOf(r)]
<1>0. /\ TypeOK /\ UniqueLocks /\ UniqueLocks' /\ TypeOK'
      /\ \A l \in locks : l \in LockRow
  BY Invariance, TypeStep, UniqueStep DEF IInv, TypeOK
<1>1. CASE H' = H /\ Expired' = Expired
  BY <1>1 DEF Leases!vars
<1>2. CASE locks' = locks
  BY <1>1, <1>2 DEF HoldersOf, RowsOf, Expired
<1>3. ASSUME NEW w \in Window, InsertLock(w) PROVE [Leases!Next]_(Leases!vars)
  <2> DEFINE r == job[w].request  n == NewRow(w)
  <2>1. CASE RowsOf(r) # {}
    BY <1>2, <1>3, <2>1 DEF InsertLock
  <2>2. CASE RowsOf(r) = {}
    <3>1. locks' = locks \cup {n} /\ r \in Request /\ UserOf[w] \in User
      BY <1>0, <1>3, <2>2, JobKinds, CheckoutAssumption DEF InsertLock, At, OpenJob
    <3>2. n.request = r /\ n.user = UserOf[w] /\ ~ (n.ttl < 0)
      BY CheckoutAssumption DEF NewRow
    <3>3. HoldersOf(r) = {}
      BY <2>2 DEF HoldersOf
    <3>4. \A x \in Request : RowsOf(x)' = IF x = r THEN {n} ELSE RowsOf(x)
      BY <2>2, <3>1, <3>2 DEF RowsOf
    <3>5. H' = [H EXCEPT ![r] = {UserOf[w]}]
      BY <3>1, <3>2, <3>4 DEF HoldersOf
    <3>6. Expired' = Expired
      BY <2>2, <3>1, <3>2, <3>4 DEF Expired
    <3>7. Leases!Acquire(r, UserOf[w])
      BY <3>1, <3>3, <3>5, <3>6 DEF Leases!Acquire, Leases!Free
    <3>8. QED
      BY <3>1, <3>7 DEF Leases!Next
  <2>3. QED
    BY <2>1, <2>2
<1>4. ASSUME NEW w \in Window, ExtendCheckout(w) PROVE [Leases!Next]_(Leases!vars)
  <2> DEFINE r == job[w].request
  <2>1. /\ \A m \in locks' : \E l \in locks : m = Extended(l, w)
        /\ \A l \in locks : Extended(l, w) \in locks'
    BY <1>4 DEF ExtendCheckout
  <2>2. \A x : HoldersOf(x)' = HoldersOf(x)
    <3>1. \A m \in locks' : \E l \in locks : m.request = l.request /\ m.user = l.user
      BY <1>0, <2>1, RenewedRow
    <3>2. \A l \in locks : \E m \in locks' : m.request = l.request /\ m.user = l.user
      BY <1>0, <2>1, RenewedRow
    <3>3. QED
      BY <3>1, <3>2, SameHolders
  <2>3. CASE \E l \in locks : l.request = r /\ l.user = UserOf[w]
    <3>1. PICK l \in locks : l.request = r /\ l.user = UserOf[w]
      BY <2>3
    <3>2. r \in Request /\ UserOf[w] \in User /\ UserOf[w] \in HoldersOf(r)
      BY <1>0, <3>1, OnlyRow DEF LockRow
    <3>3. Expired' = Expired \ {r}
      <4>1. ~ (CheckoutTime < 0)
        BY CheckoutAssumption
      <4>2. ASSUME NEW x \in Expired' PROVE x \in Expired \ {r}
        <5>1. PICK m \in locks' : m.request = x /\ m.ttl < 0
          BY <4>2 DEF Expired, RowsOf
        <5>2. PICK k \in locks : m = Extended(k, w)
          BY <2>1
        <5>3. k.request = x /\ k.ttl < 0 /\ ~ (k.request = r /\ k.user = UserOf[w])
          BY <1>0, <4>1, <5>1, <5>2, RenewedRow
        <5>4. x # r
          BY <3>1, <5>3, <1>0 DEF UniqueLocks
        <5>5. QED
          BY <4>2, <5>3, <5>4 DEF Expired, RowsOf
      <4>3. ASSUME NEW x \in Expired, x # r PROVE x \in Expired'
        <5>1. PICK k \in locks : k.request = x /\ k.ttl < 0
          BY DEF Expired, RowsOf
        <5>2. Extended(k, w) \in locks' /\ Extended(k, w).request = x /\ Extended(k, w).ttl < 0
          BY <1>0, <2>1, <4>3, <5>1, RenewedRow
        <5>3. QED
          BY <5>2 DEF Expired, RowsOf
      <4>4. QED
        BY <4>2, <4>3
    <3>4. H' = H
      BY <2>2
    <3>5. Leases!Renew(r, UserOf[w])
      BY <3>2, <3>3, <3>4 DEF Leases!Renew
    <3>6. QED
      BY <3>2, <3>5 DEF Leases!Next
  <2>4. CASE ~ \E l \in locks : l.request = r /\ l.user = UserOf[w]
    <3>1. \A l \in locks : Extended(l, w) = l
      BY <2>4 DEF Extended
    <3>2. QED
      BY <1>2, <2>1, <3>1
  <2>5. QED
    BY <2>3, <2>4
<1>5. ASSUME NEW w \in Window, UpdateRequest(w) \/ HandlerDies(w)
      PROVE  [Leases!Next]_(Leases!vars)
  <2>1. /\ \A m \in locks' : m \in locks \/ \E l \in locks : m = Spent(l)
        /\ \A l \in locks : l \in locks' \/ Spent(l) \in locks'
    BY <1>5 DEF UpdateRequest, HandlerDies
  <2>2. \A m \in locks' : \E l \in locks : m.request = l.request /\ m.user = l.user /\ m.ttl = l.ttl
    BY <1>0, <2>1, SpentRow
  <2>3. \A l \in locks : \E m \in locks' : m.request = l.request /\ m.user = l.user /\ m.ttl = l.ttl
    BY <1>0, <2>1, SpentRow
  <2>4. H' = H
    BY <2>2, <2>3, SameHolders
  <2>5. Expired' = Expired
    BY <2>2, <2>3 DEF Expired, RowsOf
  <2>6. QED
    BY <1>1, <2>4, <2>5
<1>6. CASE Tick
  <2>1. /\ \A m \in locks' : \E l \in locks : m = Aged(l)
        /\ \A l \in locks : Aged(l) \in locks'
    BY <1>6 DEF Tick
  <2>2. \A m \in locks' : \E l \in locks : m.request = l.request /\ m.user = l.user
    BY <1>0, <2>1, AgedRow
  <2>3. \A l \in locks : \E m \in locks' :
          m.request = l.request /\ m.user = l.user /\ (l.ttl < 0 => m.ttl < 0)
    <3> SUFFICES ASSUME NEW l \in locks
                 PROVE  /\ Aged(l).request = l.request /\ Aged(l).user = l.user
                        /\ l.ttl < 0 => Aged(l).ttl < 0
      BY <2>1
    <3>1. l.ttl \in Int
      BY <1>0, CheckoutAssumption DEF LockRow
    <3>2. QED
      BY <1>0, <3>1, AgedRow
  <2>4. H' = H
    BY <2>2, <2>3, SameHolders
  <2>5. Expired \subseteq Expired'
    BY <2>3 DEF Expired, RowsOf
  <2>6. Expired' \in SUBSET {r \in Request : ~ Leases!Free(r)}
    BY <2>2 DEF Expired, RowsOf, HoldersOf, Leases!Free
  <2>7. Expired' = Expired \cup Expired'
    BY <2>5
  <2>8. Leases!Expire
    BY <2>4, <2>6, <2>7 DEF Leases!Expire
  <2>9. QED
    BY <2>8 DEF Leases!Next
<1>7. ASSUME NEW w \in Window, DeleteOldLocks(w) PROVE [Leases!Next]_(Leases!vars)
  <2>1. \A l \in locks : l \in locks' <=> ~ (l.ttl < 0)
    BY <1>0, <1>7, CheckoutAssumption DEF DeleteOldLocks, LockRow
  <2>2. locks' \subseteq locks
    BY <1>7 DEF DeleteOldLocks
  <2>3. Expired' = {}
    BY <2>1, <2>2 DEF Expired, RowsOf
  <2>4. \A r \in Request : HoldersOf(r)' = IF r \in Expired THEN {} ELSE HoldersOf(r)
    <3>1. ASSUME NEW r \in Expired PROVE HoldersOf(r)' = {}
      <4>1. \A l \in RowsOf(r) : l.ttl < 0
        BY <1>0 DEF Expired, RowsOf, UniqueLocks
      <4>2. QED
        BY <2>1, <2>2, <4>1 DEF HoldersOf, RowsOf
    <3>2. ASSUME NEW r \in Request \ Expired PROVE HoldersOf(r)' = HoldersOf(r)
      <4>1. RowsOf(r)' = RowsOf(r)
        BY <2>1, <2>2 DEF Expired, RowsOf
      <4>2. QED
        BY <4>1 DEF HoldersOf
    <3>3. QED
      BY <3>1, <3>2
  <2>5. Leases!Collect
    BY <2>3, <2>4 DEF Leases!Collect
  <2>6. QED
    BY <2>5 DEF Leases!Next
<1>8. ASSUME NEW w \in Window, NEW r, locks' = WithoutRow(w, r)
      PROVE  [Leases!Next]_(Leases!vars)
  <2>1. CASE \E l \in locks : l.request = r /\ l.user = UserOf[w]
    <3>1. PICK l \in locks : l.request = r /\ l.user = UserOf[w]
      BY <2>1
    <3>2. r \in Request /\ UserOf[w] \in User /\ UserOf[w] \in HoldersOf(r)
      BY <1>0, <3>1, OnlyRow DEF LockRow
    <3>3. locks' = locks \ {l}
      BY <1>0, <1>8, <3>1 DEF WithoutRow, UniqueLocks
    <3>4. \A x \in Request : RowsOf(x)' = IF x = r THEN {} ELSE RowsOf(x)
      BY <1>0, <3>1, <3>3, OnlyRow DEF RowsOf
    <3>5. H' = [H EXCEPT ![r] = {}]
      BY <3>2, <3>4 DEF HoldersOf
    <3>6. Expired' = Expired \ {r}
      BY <3>4 DEF Expired
    <3>7. Leases!Return(r, UserOf[w])
      BY <3>2, <3>5, <3>6 DEF Leases!Return
    <3>8. QED
      BY <3>2, <3>7 DEF Leases!Next
  <2>2. CASE ~ \E l \in locks : l.request = r /\ l.user = UserOf[w]
    BY <1>2, <1>8, <2>2 DEF WithoutRow
  <2>3. QED
    BY <2>1, <2>2
<1>9. CASE ClearAllLocks
  <2>1. Leases!Reset
    BY <1>9 DEF ClearAllLocks, Leases!Reset, HoldersOf, RowsOf, Expired
  <2>2. QED
    BY <2>1 DEF Leases!Next
<1>10. ASSUME NEW w \in Window,
              \/ SaveNewRequest(w) \/ (\E r \in Request : OpenRequest(w, r))
              \/ ReprocessRequest(w) \/ SubmitSave(w) \/ ShowForm(w) \/ SaveCrashes(w)
              \/ UpdateFails(w) \/ InsertHistory(w) \/ HistoryFails(w)
       PROVE  locks' = locks
  BY <1>10 DEF SaveNewRequest, OpenRequest, ReprocessRequest, SubmitSave, ShowForm,
     SaveCrashes, UpdateFails, InsertHistory, HistoryFails
<1>11. CASE SaveSystemUsers \/ UNCHANGED vars
  BY <1>2, <1>11 DEF SaveSystemUsers, vars
<1>12. ASSUME NEW w \in Window, CheckinAfterSave(w) \/ CheckinRequest(w)
       PROVE  [Leases!Next]_(Leases!vars)
  BY <1>8, <1>12 DEF CheckinAfterSave, CheckinRequest
<1>13. QED
  BY <1>2, <1>3, <1>4, <1>5, <1>6, <1>7, <1>9, <1>10, <1>11, <1>12 DEF Next, Ask, Step

\* request_locks implements leases: no statement puts a user in the place of
\* another who still has the row, and an expired row changes hands only
\* through the delete of what has expired.
THEOREM LeasesImplemented == Spec => ImplementsLease
<1>1. Init => Leases!Init
  BY DEF Init, Leases!Init, HoldersOf, RowsOf, Expired
<1>2. QED
  BY <1>1, Invariance, LeaseStep, PTL DEF Spec, ImplementsLease, Leases!Spec
===============================================================================
