---------------------------- MODULE SessionsProofs ----------------------------
(***************************************************************************)
(* Theorems about Sessions, for any users, any finite set of windows, any  *)
(* length of the sequence, any default seed within it, any number of times *)
(* the sequence is not set back and any SESSION_TIME.                      *)
(***************************************************************************)
EXTENDS Sessions, FiniteSetTheorems, TLAPS

-----------------------------------------------------------------------------
(* Types.                                                                  *)

LEMMA JobKinds ==
  ASSUME TypeOK, NEW w \in Window
  PROVE  /\ job[w].pc \in {"nextval", "setval", "insert"} => job[w] \in Login
         /\ job[w].pc \in {"fetch", "extend", "serve"} => job[w] \in Resume
         /\ job[w].pc = "idle" => job[w] = Idle
BY DEF TypeOK, Idle, Login, Resume

\* Renewing and ageing a row leaves it the session it was.
LEMMA RenewedRow ==
  ASSUME NEW s \in Row, NEW key
  PROVE  LET t == Renewed(s, key) IN
           t \in Row /\ t.key = s.key /\ t.user = s.user /\ (s.ttl >= 0 => t.ttl >= 0)
<1>1. SessionTime \in -1 .. SessionTime /\ SessionTime >= 0
  BY SessionsAssumption
<1>2. QED
  BY <1>1 DEF Renewed, Row

LEMMA AgedRow ==
  ASSUME NEW s \in Row
  PROVE  LET t == Aged(s) IN t \in Row /\ t.key = s.key /\ t.user = s.user
BY SessionsAssumption DEF Aged, Row

LEMMA WindowCount == Cardinality(Window) \in Nat
BY SessionsAssumption, FS_CardinalityType

SettingBack == {w \in Window : At(w, "setval")}

LEMMA SettingBackCount ==
  /\ IsFiniteSet(SettingBack)
  /\ Cardinality(SettingBack) \in Nat
  /\ Cardinality(SettingBack) <= Cardinality(Window)
BY SessionsAssumption, FS_Subset, FS_CardinalityType DEF SettingBack

LEMMA SeedRange ==
  /\ TypeOK /\ SeedsBounded => seed \in Nat /\ missed \in Nat
  /\ \A n \in Nat : n <= SeedMax + Cardinality(Window) + MissedMax => n \in Seed
  /\ \A n \in Seed : n \in Nat
  /\ 0 \in Seed /\ 1 \in Seed /\ SeedMax \in Nat /\ SeedMax >= 1
  /\ SeedDefault \in Seed /\ SeedDefault \in Nat /\ MissedMax \in Nat
BY SessionsAssumption, WindowCount DEF Seed, TypeOK

\* A window that leaves setval without setting the sequence back.
LEMMA NotSetBack ==
  ASSUME TypeOK, SeedsBounded, NEW w \in Window, At(w, "setval"), UNCHANGED seed,
         missed' = missed + 1, NEW j, j.pc # "setval", job' = [job EXCEPT ![w] = j]
  PROVE  SeedsBounded'
<1>1. SettingBack' = SettingBack \ {w} /\ w \in SettingBack
  BY DEF SettingBack, At, TypeOK
<1>2. Cardinality(SettingBack') = Cardinality(SettingBack) - 1
  BY <1>1, SettingBackCount, FS_RemoveElement
<1>3. seed <= SeedMax + Cardinality(SettingBack) + missed
  BY DEF SeedsBounded, SettingBack
<1>4. seed' <= SeedMax + Cardinality(SettingBack') + missed'
  BY <1>2, <1>3, SettingBackCount, SeedRange
<1>5. QED
  BY <1>4 DEF SeedsBounded, SettingBack

\* Who draws a seed above the last is about to set the sequence back, so no
\* more seeds lie above SeedMax than windows are doing that, or missed it.
LEMMA SeedsStep == TypeOK /\ SeedsBounded /\ [Next]_vars => SeedsBounded'
<1> SUFFICES ASSUME TypeOK, SeedsBounded, [Next]_vars PROVE SeedsBounded'
  OBVIOUS
<1> USE SettingBackCount, SeedRange
<1>0. SeedsBounded <=> seed <= SeedMax + Cardinality(SettingBack) + missed
  BY DEF SeedsBounded, SettingBack
<1>1. SeedsBounded' <=> seed' <= SeedMax + Cardinality(SettingBack') + missed'
  BY DEF SeedsBounded, SettingBack
<1>2. ASSUME NEW w \in Window, NextVal(w) PROVE SeedsBounded'
  <2>1. CASE seed + 1 <= SeedMax
    <3>1. SettingBack' = SettingBack
      BY <1>2, <2>1 DEF NextVal, SettingBack, At, TypeOK
    <3>2. QED
      BY <1>1, <1>2, <2>1, <3>1 DEF NextVal
  <2>2. CASE ~ (seed + 1 <= SeedMax)
    <3>1. SettingBack' = SettingBack \cup {w} /\ w \notin SettingBack
      BY <1>2, <2>2 DEF NextVal, SettingBack, At, TypeOK
    <3>2. Cardinality(SettingBack') = Cardinality(SettingBack) + 1
      BY <3>1, FS_AddElement
    <3>3. QED
      BY <1>0, <1>1, <1>2, <3>2 DEF NextVal
  <2>3. QED
    BY <2>1, <2>2
<1>3. ASSUME NEW w \in Window, SetVal(w) PROVE SeedsBounded'
  <2>1. IsFiniteSet(SettingBack')
    <3>1. SettingBack' \subseteq Window
      BY DEF SettingBack
    <3>2. QED
      BY <3>1, SessionsAssumption, FS_Subset
  <2>2. Cardinality(SettingBack') \in Nat
    BY <2>1, FS_CardinalityType
  <2>3. QED
    BY <1>1, <1>3, <2>2 DEF SetVal
<1>4. ASSUME UNCHANGED <<seed, missed>>, SettingBack' = SettingBack PROVE SeedsBounded'
  BY <1>0, <1>1, <1>4
<1>5. ASSUME NEW w \in Window,
             \/ StartLogin(w) \/ LoginFails(w) \/ NextValFails(w) \/ InsertSession(w)
             \/ StartPage(w) \/ FetchSession(w) \/ ExtendSession(w) \/ ServePage(w)
             \/ Logout(w) \/ (HandlerDies(w) /\ ~ At(w, "setval"))
      PROVE  UNCHANGED <<seed, missed>> /\ SettingBack' = SettingBack
  <2>1. UNCHANGED <<seed, missed>> /\ ~ At(w, "setval")
    BY <1>5 DEF StartLogin, LoginFails, NextValFails, InsertSession, StartPage, FetchSession,
       ExtendSession, ServePage, Logout, HandlerDies, At
  <2>2. \A v \in Window \ {w} : job'[v] = job[v]
    BY <1>5 DEF StartLogin, LoginFails, NextValFails, InsertSession, StartPage, FetchSession,
       ExtendSession, ServePage, Logout, HandlerDies, Goto, Finish, TypeOK
  <2>3. job'[w].pc # "setval"
    BY <1>5, JobKinds DEF StartLogin, LoginFails, NextValFails, InsertSession, StartPage,
       FetchSession, ExtendSession, ServePage, Logout, HandlerDies, At, Goto, Finish, Idle, Login,
       Resume, TypeOK
  <2>4. QED
    BY <2>1, <2>2, <2>3 DEF SettingBack, At
<1>6. ASSUME NEW w \in Window, NEW v \in Window, OpenWindow(w, v)
      PROVE  UNCHANGED <<seed, missed>> /\ SettingBack' = SettingBack
  BY <1>6 DEF OpenWindow, SettingBack, At
<1>7. CASE Tick \/ UNCHANGED vars
  BY <1>4, <1>7 DEF Tick, vars, SettingBack, At
<1>8. ASSUME NEW w \in Window, SetValFails(w) PROVE SeedsBounded'
  <2> DEFINE j == [job[w] EXCEPT !.pc = "insert"]
  <2>1. job[w] \in Login
    BY <1>8, JobKinds DEF SetValFails, At
  <2>2. j.pc # "setval"
    BY <2>1 DEF Login
  <2>3. job' = [job EXCEPT ![w] = j]
    BY <1>8 DEF SetValFails, Goto, TypeOK
  <2> HIDE DEF j
  <2>4. QED
    BY <1>8, <2>2, <2>3, NotSetBack DEF SetValFails
<1>9. ASSUME NEW w \in Window, HandlerDies(w), At(w, "setval") PROVE SeedsBounded'
  BY <1>9, NotSetBack DEF HandlerDies, Finish, Idle
<1>10. QED
  BY <1>2, <1>3, <1>4, <1>5, <1>6, <1>7, <1>8, <1>9 DEF Next, Ask, Step

LEMMA TypeInit == Init => TypeOK /\ SeedsBounded
<1>1. ASSUME Init PROVE TypeOK
  <2>1. seed \in Seed /\ page \in [Window -> Seed] /\ missed \in 0 .. MissedMax
    BY <1>1, SeedRange DEF Init
  <2>2. owner \in [Window -> SUBSET User] /\ job \in [Window -> {Idle} \cup Login \cup Resume]
    BY <1>1 DEF Init
  <2>3. sessions \subseteq Row /\ left \subseteq Window /\ recycled \in BOOLEAN
    BY <1>1 DEF Init
  <2>4. QED
    BY <2>1, <2>2, <2>3 DEF TypeOK
<1>2. Init => SeedsBounded
  <2>1. SeedsBounded <=> seed <= SeedMax + Cardinality(SettingBack) + missed
    BY DEF SeedsBounded, SettingBack
  <2>2. QED
    BY <2>1, SettingBackCount, SeedRange DEF Init
<1>3. QED
  BY <1>1, <1>2

LEMMA TypeStep == TypeOK /\ SeedsBounded /\ [Next]_vars => TypeOK'
<1> SUFFICES ASSUME TypeOK, SeedsBounded, [Next]_vars PROVE TypeOK'
  OBVIOUS
<1> USE SessionsAssumption, JobKinds, SeedRange
<1>1. ASSUME NEW w \in Window, StartLogin(w) \/ StartPage(w) PROVE TypeOK'
  <2>1. CASE StartLogin(w)
    BY <2>1 DEF StartLogin, DeleteOldSessions, TypeOK, Login
  <2>2. CASE StartPage(w)
    <3> DEFINE j == [pc |-> "fetch", key |-> page[w], users |-> {}, late |-> w \in left]
    <3>1. j \in Resume
      BY DEF Resume, TypeOK
    <3>2. job' = [job EXCEPT ![w] = j]
      BY <2>2 DEF StartPage
    <3> HIDE DEF j
    <3>3. job' \in [Window -> {Idle} \cup Login \cup Resume]
      BY <3>1, <3>2 DEF TypeOK
    <3>4. QED
      BY <2>2, <3>3 DEF StartPage, DeleteOldSessions, TypeOK
  <2>3. QED
    BY <1>1, <2>1, <2>2
<1>2. ASSUME NEW w \in Window, LoginFails(w) \/ ServePage(w) \/ HandlerDies(w) PROVE TypeOK'
  <2>1. missed' \in 0 .. MissedMax
    BY <1>2 DEF LoginFails, ServePage, HandlerDies, TypeOK
  <2>2. QED
    BY <1>2, <2>1 DEF LoginFails, ServePage, HandlerDies, Finish, TypeOK
<1>3. ASSUME NEW w \in Window, NextVal(w) PROVE TypeOK'
  <2>1. SeedsBounded'
    BY SeedsStep
  <2>2. seed' \in Nat /\ seed' <= SeedMax + Cardinality(SettingBack') + missed
    BY <1>3, <2>1 DEF NextVal, SeedsBounded, SettingBack
  <2>3. Cardinality(SettingBack') \in Nat /\ Cardinality(SettingBack') <= Cardinality(Window)
    <3>1. SettingBack' \subseteq Window
      BY DEF SettingBack
    <3>2. QED
      BY <3>1, SessionsAssumption, FS_Subset, FS_CardinalityType
  <2>4. seed' \in Seed
    BY <2>2, <2>3, WindowCount DEF TypeOK
  <2>5. QED
    BY <1>3, <2>4 DEF NextVal, TypeOK, Login
<1>4. ASSUME NEW w \in Window, SetVal(w) PROVE TypeOK'
  BY <1>4 DEF SetVal, At, Goto, TypeOK, Login
<1>5. ASSUME NEW w \in Window, InsertSession(w) PROVE TypeOK'
  <2>1. job[w] \in Login /\ job[w].seed \in Seed
    BY <1>5 DEF InsertSession, At, Login
  <2>2. job' \in [Window -> {Idle} \cup Login \cup Resume]
    BY <1>5 DEF InsertSession, Finish, TypeOK
  <2>3. CASE RowsOf(job[w].seed) = {}
    <3>1. PICK u \in User :
            /\ sessions' = sessions \cup {NewSession(job[w].seed, u)}
            /\ page' = [page EXCEPT ![w] = job[w].seed]
            /\ owner' = [owner EXCEPT ![w] = {u}]
            /\ left' = left \ {w}
      BY <1>5, <2>3 DEF InsertSession
    <3>2. NewSession(job[w].seed, u) \in Row
      BY <2>1 DEF NewSession, Row
    <3>3. QED
      BY <1>5, <2>1, <2>2, <3>1, <3>2 DEF InsertSession, TypeOK
  <2>4. CASE RowsOf(job[w].seed) # {}
    BY <1>5, <2>2, <2>4 DEF InsertSession, TypeOK
  <2>5. QED
    BY <2>3, <2>4
<1>6. ASSUME NEW w \in Window, NEW v \in Window, OpenWindow(w, v) PROVE TypeOK'
  BY <1>6 DEF OpenWindow, TypeOK
<1>7. ASSUME NEW w \in Window, FetchSession(w) PROVE TypeOK'
  <2>1. job[w] \in Resume
    BY <1>7 DEF FetchSession, At
  <2> DEFINE users == {s.user : s \in RowsOf(job[w].key)}
  <2>2. users \in SUBSET User
    BY DEF users, RowsOf, TypeOK, Row
  <2>3. \/ Finish(w)
        \/ job' = [job EXCEPT ![w] = [[@ EXCEPT !.pc = "extend"] EXCEPT !.users = users]]
    BY <1>7 DEF FetchSession, TypeOK
  <2> HIDE DEF users
  <2>4. job' \in [Window -> {Idle} \cup Login \cup Resume]
    <3>1. CASE Finish(w)
      BY <3>1 DEF Finish, TypeOK
    <3>2. CASE job' = [job EXCEPT ![w] = [[@ EXCEPT !.pc = "extend"] EXCEPT !.users = users]]
      <4>1. [[job[w] EXCEPT !.pc = "extend"] EXCEPT !.users = users] \in Resume
        BY <2>1, <2>2 DEF Resume
      <4>2. QED
        BY <3>2, <4>1 DEF TypeOK
    <3>3. QED
      BY <2>3, <3>1, <3>2
  <2>5. QED
    BY <1>7, <2>4 DEF FetchSession, TypeOK
<1>8. ASSUME NEW w \in Window, ExtendSession(w) PROVE TypeOK'
  BY <1>8, RenewedRow DEF ExtendSession, At, Goto, TypeOK, Resume
<1>9. ASSUME NEW w \in Window, Logout(w) PROVE TypeOK'
  BY <1>9 DEF Logout, Finish, TypeOK
<1>10. CASE Tick
  BY <1>10, AgedRow DEF Tick, TypeOK
<1>11. CASE UNCHANGED vars
  BY <1>11 DEF vars, TypeOK
<1>12. ASSUME NEW w \in Window, NextValFails(w) PROVE TypeOK'
  BY <1>12 DEF NextValFails, TypeOK, Login
<1>13. ASSUME NEW w \in Window, SetValFails(w) PROVE TypeOK'
  <2>1. missed' \in 0 .. MissedMax
    BY <1>13 DEF SetValFails, TypeOK
  <2>2. job[w] \in Login
    BY <1>13 DEF SetValFails, At
  <2>3. job' \in [Window -> {Idle} \cup Login \cup Resume]
    BY <1>13, <2>2 DEF SetValFails, Goto, TypeOK, Login
  <2>4. QED
    BY <1>13, <2>1, <2>3 DEF SetValFails, TypeOK
<1>14. QED
  BY <1>1, <1>2, <1>3, <1>4, <1>5, <1>6, <1>7, <1>8, <1>9, <1>10, <1>11, <1>12, <1>13
     DEF Next, Ask, Step

\* The variables keep their types; in particular the sequence never runs away,
\* although it is set back by another statement than the one that draws.
THEOREM Typing == Spec => []TypeOK
<1>1. TypeOK /\ SeedsBounded /\ [Next]_vars => TypeOK' /\ SeedsBounded'
  BY TypeStep, SeedsStep
<1>2. QED
  BY <1>1, TypeInit, PTL DEF Spec

-----------------------------------------------------------------------------
(* What a step does to the sessions and the handlers.                      *)

\* t is the session inserted for w.
Inserts(w, t) ==
  /\ InsertSession(w)
  /\ RowsOf(job[w].seed) = {}
  /\ t.key = job[w].seed
  /\ page'[w] = job[w].seed /\ owner'[w] = {t.user}

\* A session there is after a step was there before it, or was inserted by it.
LEMMA SessionFate ==
  ASSUME TypeOK, [Next]_vars, NEW t \in sessions'
  PROVE  \/ \E s \in sessions : s.key = t.key /\ s.user = t.user
         \/ \E w \in Window : Inserts(w, t)
<1>0. sessions \subseteq Row
  BY DEF TypeOK
<1>1. ASSUME NEW w \in Window, ExtendSession(w)
      PROVE  \E s \in sessions : s.key = t.key /\ s.user = t.user
  <2>1. PICK s \in sessions : t = Renewed(s, job[w].key)
    BY <1>1 DEF ExtendSession
  <2>2. QED
    BY <1>0, <2>1, RenewedRow
<1>2. CASE Tick
  <2>1. PICK s \in sessions : t = Aged(s)
    BY <1>2 DEF Tick
  <2>2. QED
    BY <1>0, <2>1, AgedRow
<1>3. ASSUME NEW w \in Window, InsertSession(w)
      PROVE  t \in sessions \/ Inserts(w, t)
  <2>1. CASE RowsOf(job[w].seed) = {}
    <3>1. PICK u \in User :
            /\ sessions' = sessions \cup {NewSession(job[w].seed, u)}
            /\ page' = [page EXCEPT ![w] = job[w].seed]
            /\ owner' = [owner EXCEPT ![w] = {u}]
      BY <1>3, <2>1 DEF InsertSession
    <3>2. page'[w] = job[w].seed /\ owner'[w] = {u}
      BY <3>1 DEF TypeOK
    <3>3. t \in sessions \/ (t.key = job[w].seed /\ t.user = u)
      BY <3>1 DEF NewSession
    <3>4. QED
      BY <1>3, <2>1, <3>2, <3>3 DEF Inserts
  <2>2. CASE RowsOf(job[w].seed) # {}
    BY <1>3, <2>2 DEF InsertSession
  <2>3. QED
    BY <2>1, <2>2
<1>4. ASSUME sessions' \subseteq sessions
      PROVE  \E s \in sessions : s.key = t.key /\ s.user = t.user
  BY <1>4
<1>5. ASSUME NEW w \in Window,
             \/ StartLogin(w) \/ LoginFails(w) \/ NextVal(w) \/ NextValFails(w) \/ SetVal(w)
             \/ SetValFails(w) \/ StartPage(w) \/ FetchSession(w) \/ ServePage(w) \/ Logout(w)
             \/ HandlerDies(w)
      PROVE  sessions' \subseteq sessions
  BY <1>5 DEF StartLogin, LoginFails, NextVal, NextValFails, SetVal, SetValFails, StartPage,
     FetchSession, ServePage, Logout, HandlerDies, DeleteOldSessions
<1>6. ASSUME NEW w \in Window, NEW v \in Window, OpenWindow(w, v)
      PROVE  sessions' \subseteq sessions
  BY <1>6 DEF OpenWindow
<1>7. CASE UNCHANGED vars
  BY <1>7 DEF vars
<1>8. QED
  BY <1>1, <1>2, <1>3, <1>4, <1>5, <1>6, <1>7 DEF Next, Ask, Step

\* Only NextVal draws a seed other than the default.
LEMMA WhoDraws ==
  ASSUME TypeOK, [Next]_vars, ~ recycled', NEW v \in Window, Drawn(v)', Own(job'[v].seed),
         ~ NextVal(v)
  PROVE  Drawn(v) /\ job'[v].seed = job[v].seed /\ ~ InsertSession(v)
<1> USE JobKinds
<1>1. ASSUME NEW w \in Window, NextVal(w) \/ NextValFails(w)
      PROVE  Drawn(v) /\ job'[v] = job[v]
  <2>1. w # v
    BY <1>1 DEF NextValFails, Own, TypeOK
  <2>2. job'[v] = job[v]
    BY <1>1, <2>1 DEF NextVal, NextValFails, TypeOK
  <2>3. QED
    BY <2>2 DEF Drawn, At
<1>2. ASSUME NEW w \in Window, SetVal(w) PROVE FALSE
  BY <1>2 DEF SetVal
<1>3. ASSUME NEW w \in Window,
             LoginFails(w) \/ InsertSession(w) \/ ServePage(w) \/ Logout(w) \/ HandlerDies(w)
      PROVE  Drawn(v) /\ job'[v] = job[v] /\ v # w
  BY <1>3 DEF LoginFails, InsertSession, ServePage, Logout, HandlerDies, Finish, Idle, Drawn,
     At, TypeOK
<1>4. ASSUME NEW w \in Window, StartLogin(w) \/ StartPage(w)
      PROVE  Drawn(v) /\ job'[v] = job[v]
  BY <1>4 DEF StartLogin, StartPage, Drawn, At, TypeOK
<1>5. ASSUME NEW w \in Window, FetchSession(w) \/ ExtendSession(w)
      PROVE  Drawn(v) /\ job'[v] = job[v]
  <2>1. w # v
    BY <1>5 DEF FetchSession, ExtendSession, Drawn, At, Goto, Finish, Idle, Resume, TypeOK
  <2>2. job'[v] = job[v]
    BY <1>5, <2>1 DEF FetchSession, ExtendSession, Goto, Finish, TypeOK
  <2>3. QED
    BY <2>2 DEF Drawn, At
<1>6. ASSUME NEW w \in Window, NEW u \in Window, OpenWindow(w, u)
      PROVE  Drawn(v) /\ job'[v] = job[v]
  BY <1>6 DEF OpenWindow, Drawn, At
<1>7. ASSUME Tick \/ UNCHANGED vars PROVE Drawn(v) /\ job'[v] = job[v]
  <2>1. job' = job
    BY <1>7 DEF Tick, vars
  <2>2. QED
    BY <2>1 DEF Drawn, At
<1>8. ASSUME NEW w \in Window, SetValFails(w)
      PROVE  Drawn(v) /\ job'[v].seed = job[v].seed
  <2>1. job[w] \in Login
    BY <1>8 DEF SetValFails, At
  <2>2. job'[v].seed = job[v].seed
    BY <1>8, <2>1 DEF SetValFails, Goto, TypeOK, Login
  <2>3. v # w => job'[v] = job[v]
    BY <1>8 DEF SetValFails, Goto, TypeOK
  <2>4. QED
    BY <1>8, <2>2, <2>3 DEF SetValFails, Drawn, At
<1>9. Drawn(v) /\ job'[v].seed = job[v].seed
  BY <1>1, <1>2, <1>3, <1>4, <1>5, <1>6, <1>7, <1>8 DEF Next, Ask, Step
<1>10. ~ InsertSession(v)
  BY DEF InsertSession, Finish, Idle, Drawn, At, TypeOK
<1>11. QED
  BY <1>9, <1>10

\* A window has a page it or another window had, or the one of the session
\* inserted for it.
LEMMA PageFate ==
  ASSUME TypeOK, [Next]_vars, NEW v \in Window
  PROVE  \/ \E u \in Window : page'[v] = page[u] /\ owner'[v] = owner[u]
         \/ InsertSession(v) /\ RowsOf(job[v].seed) = {} /\ page'[v] = job[v].seed
<1>1. ASSUME NEW w \in Window, InsertSession(w)
      PROVE  \/ page'[v] = page[v] /\ owner'[v] = owner[v]
             \/ v = w /\ RowsOf(job[v].seed) = {} /\ page'[v] = job[v].seed
  BY <1>1 DEF InsertSession, TypeOK
<1>2. ASSUME NEW w \in Window, NEW u \in Window, OpenWindow(w, u)
      PROVE  \/ page'[v] = page[v] /\ owner'[v] = owner[v]
             \/ page'[v] = page[u] /\ owner'[v] = owner[u]
  <2>1. page' = [page EXCEPT ![w] = page[u]] /\ owner' = [owner EXCEPT ![w] = owner[u]]
    BY <1>2 DEF OpenWindow
  <2>2. QED
    BY <2>1 DEF TypeOK
<1>3. ASSUME NEW w \in Window,
             \/ StartLogin(w) \/ LoginFails(w) \/ NextVal(w) \/ NextValFails(w) \/ SetVal(w)
             \/ SetValFails(w) \/ StartPage(w) \/ FetchSession(w) \/ ExtendSession(w)
             \/ ServePage(w) \/ Logout(w) \/ HandlerDies(w)
      PROVE  page' = page /\ owner' = owner
  BY <1>3 DEF StartLogin, LoginFails, NextVal, NextValFails, SetVal, SetValFails, StartPage,
     FetchSession, ExtendSession, ServePage, Logout, HandlerDies
<1>4. CASE Tick \/ UNCHANGED vars
  BY <1>4 DEF Tick, vars
<1>5. QED
  BY <1>1, <1>2, <1>3, <1>4 DEF Next, Ask, Step
-----------------------------------------------------------------------------
(* Keys.                                                                   *)

LEMMA SeedGrows ==
  ASSUME TypeOK, SeedsBounded, [Next]_vars, ~ recycled'
  PROVE  ~ recycled /\ seed \in Nat /\ seed' \in Nat /\ seed <= seed'
<1>1. seed \in Nat
  BY SeedRange
<1>2. ASSUME NEW w \in Window, NextVal(w) PROVE ~ recycled /\ seed' = seed + 1
  BY <1>2 DEF NextVal
<1>3. ASSUME NEW w \in Window, SetVal(w) PROVE FALSE
  BY <1>3 DEF SetVal
<1>4. ASSUME NEW w \in Window,
             \/ StartLogin(w) \/ LoginFails(w) \/ NextValFails(w) \/ SetValFails(w)
             \/ InsertSession(w) \/ StartPage(w) \/ FetchSession(w) \/ ExtendSession(w)
             \/ ServePage(w) \/ Logout(w) \/ HandlerDies(w)
      PROVE  ~ recycled /\ seed' = seed
  BY <1>4 DEF StartLogin, LoginFails, NextValFails, SetValFails, InsertSession, StartPage,
     FetchSession, ExtendSession, ServePage, Logout, HandlerDies
<1>5. ASSUME NEW w \in Window, NEW u \in Window, OpenWindow(w, u)
      PROVE  ~ recycled /\ seed' = seed
  BY <1>5 DEF OpenWindow
<1>6. ASSUME Tick \/ UNCHANGED vars PROVE ~ recycled /\ seed' = seed
  BY <1>6 DEF Tick, vars
<1>7. ~ recycled /\ (seed' = seed \/ seed' = seed + 1)
  BY <1>2, <1>3, <1>4, <1>5, <1>6 DEF Next, Ask, Step
<1>8. QED
  BY <1>1, <1>7

\* Keys and pages in use are not above the sequence, so a seed drawn is new;
\* and a drawn seed is nobody else's until its session is inserted.
LEMMA KeysStep ==
  ASSUME TypeOK, SeedsBounded, KeysDrawn, FreshSeeds, [Next]_vars
  PROVE  KeysDrawn' /\ FreshSeeds'
<1> SUFFICES ASSUME ~ recycled' PROVE KeysDrawn' /\ FreshSeeds'
  BY DEF KeysDrawn, FreshSeeds
<1>1. ~ recycled /\ seed \in Nat /\ seed' \in Nat /\ seed <= seed'
  BY SeedGrows
<1>2. TypeOK'
  BY TypeStep
<1>3. /\ \A s \in sessions : s.key \in Nat /\ (Own(s.key) => s.key <= seed)
      /\ \A w \in Window : page[w] \in Nat /\ (Own(page[w]) => page[w] <= seed)
  <2>1. \A s \in sessions : s.key \in Nat
    BY SeedRange DEF TypeOK, Row
  <2>2. \A w \in Window : page[w] \in Nat
    BY SeedRange DEF TypeOK
  <2>3. /\ \A s \in sessions : Own(s.key) => s.key <= seed
        /\ \A w \in Window : Own(page[w]) => page[w] <= seed
    BY <1>1 DEF KeysDrawn
  <2>4. QED
    BY <2>1, <2>2, <2>3
<1>4. ASSUME NEW w \in Window, Drawn(w), Own(job[w].seed)
      PROVE  job[w].seed \in Nat /\ 0 < job[w].seed /\ job[w].seed <= seed
  <2>1. job[w] \in Login
    BY <1>4, JobKinds DEF Drawn, At
  <2>2. job[w].seed \in Nat
    BY <2>1, SeedRange DEF Login
  <2>3. 0 < job[w].seed /\ job[w].seed <= seed
    BY <1>1, <1>4 DEF KeysDrawn
  <2>4. QED
    BY <2>2, <2>3
<1>5. ASSUME NEW w \in Window, Drawn(w), Own(job[w].seed)
      PROVE  /\ \A s \in sessions : s.key # job[w].seed
             /\ \A v \in Window : /\ page[v] # job[w].seed
                                  /\ v # w /\ Drawn(v) => job[v].seed # job[w].seed
  BY <1>1, <1>5 DEF FreshSeeds, RowsOf
<1>6. ASSUME NEW w \in Window, InsertSession(w) PROVE Drawn(w)
  BY <1>6 DEF InsertSession, Drawn
<1>7. ASSUME NEW w \in Window, NextVal(w)
      PROVE  /\ seed' = seed + 1 /\ job'[w].seed = seed + 1
             /\ sessions' = sessions /\ page' = page
             /\ \A v \in Window \ {w} : job'[v] = job[v]
  BY <1>7 DEF NextVal, TypeOK
<1>8. ASSUME NEW w \in Window, Drawn(w)', Own(job'[w].seed), ~ NextVal(w)
      PROVE  Drawn(w) /\ job'[w].seed = job[w].seed /\ ~ InsertSession(w)
  BY <1>8, WhoDraws
<1>9. ASSUME NEW t \in sessions', Own(t.key) PROVE t.key <= seed'
  <2>1. CASE \E s \in sessions : s.key = t.key /\ s.user = t.user
    BY <1>1, <1>3, <1>9, <2>1
  <2>2. CASE \E w \in Window : Inserts(w, t)
    BY <1>1, <1>4, <1>6, <1>9, <2>2 DEF Inserts
  <2>3. QED
    BY <2>1, <2>2, SessionFate
<1>10. ASSUME NEW w \in Window, Own(page'[w]) PROVE page'[w] <= seed'
  <2>1. CASE \E v \in Window : page'[w] = page[v]
    BY <1>1, <1>3, <1>10, <2>1
  <2>2. CASE InsertSession(w) /\ page'[w] = job[w].seed
    BY <1>1, <1>4, <1>6, <1>10, <2>2
  <2>3. QED
    BY <2>1, <2>2, PageFate
<1>11. ASSUME NEW w \in Window, Drawn(w)', Own(job'[w].seed)
       PROVE  0 < job'[w].seed /\ job'[w].seed <= seed'
  BY <1>1, <1>4, <1>7, <1>8, <1>11
<1>12. KeysDrawn'
  BY <1>9, <1>10, <1>11 DEF KeysDrawn, Own
<1>13. ASSUME NEW w \in Window, Drawn(w)', Own(job'[w].seed), NEW t \in sessions'
       PROVE  t.key # job'[w].seed
  <2>1. CASE NextVal(w)
    <3>1. t \in sessions
      BY <1>7, <2>1
    <3>2. QED
      BY <1>1, <1>3, <1>7, <1>13, <2>1, <3>1
  <2>2. CASE ~ NextVal(w)
    <3>1. Drawn(w) /\ job'[w].seed = job[w].seed /\ Own(job[w].seed) /\ ~ InsertSession(w)
      BY <1>8, <1>13, <2>2
    <3>2. CASE \E s \in sessions : s.key = t.key /\ s.user = t.user
      BY <1>5, <3>1, <3>2
    <3>3. CASE \E v \in Window : Inserts(v, t)
      BY <1>5, <1>6, <3>1, <3>3 DEF Inserts
    <3>4. QED
      BY <3>2, <3>3, SessionFate
  <2>3. QED
    BY <2>1, <2>2
<1>14. ASSUME NEW w \in Window, Drawn(w)', Own(job'[w].seed), NEW v \in Window
       PROVE  page'[v] # job'[w].seed
  <2>1. CASE NextVal(w)
    BY <1>1, <1>3, <1>7, <1>14, <2>1
  <2>2. CASE ~ NextVal(w)
    <3>1. Drawn(w) /\ job'[w].seed = job[w].seed /\ Own(job[w].seed) /\ ~ InsertSession(w)
      BY <1>8, <1>14, <2>2
    <3>2. CASE \E u \in Window : page'[v] = page[u]
      BY <1>5, <3>1, <3>2
    <3>3. CASE InsertSession(v) /\ page'[v] = job[v].seed
      BY <1>5, <1>6, <3>1, <3>3
    <3>4. QED
      BY <3>2, <3>3, PageFate
  <2>3. QED
    BY <2>1, <2>2
<1>15. ASSUME NEW w \in Window, NEW v \in Window, v # w, Drawn(w)', Drawn(v)',
              Own(job'[w].seed), job'[v].seed = job'[w].seed
       PROVE  FALSE
  <2>1. ASSUME NEW x \in Window, NEW y \in Window, x # y, NextVal(x), Drawn(y)',
               Own(job'[y].seed)
        PROVE  job'[x].seed # job'[y].seed
    <3>1. job'[y] = job[y] /\ Drawn(y)
      BY <1>7, <2>1 DEF Drawn, At
    <3>2. QED
      BY <1>1, <1>4, <1>7, <2>1, <3>1
  <2>2. CASE ~ NextVal(w) /\ ~ NextVal(v)
    BY <1>5, <1>8, <1>15, <2>2
  <2>3. QED
    BY <1>15, <2>1, <2>2
<1>16. FreshSeeds'
  BY <1>13, <1>14, <1>15 DEF FreshSeeds, RowsOf, Own
<1>17. QED
  BY <1>12, <1>16
\* Until the sequence is set back, the seed a handler drew for the session it
\* is about to insert is its own, and no session or page has had it, whatever
\* logins could not draw one.
THEOREM KeysAreFresh == Spec => []FreshSeeds
<1> DEFINE Inv == TypeOK /\ SeedsBounded /\ KeysDrawn /\ FreshSeeds
<1>1. Init => Inv
  <2>1. Init => KeysDrawn /\ FreshSeeds
    BY DEF Init, KeysDrawn, FreshSeeds, Drawn, At, Idle
  <2>2. QED
    BY <2>1, TypeInit
<1>2. Inv /\ [Next]_vars => Inv'
  BY TypeStep, SeedsStep, KeysStep
<1>3. QED
  BY <1>1, <1>2, PTL DEF Spec

-----------------------------------------------------------------------------
(* Pages.                                                                  *)

\* A handler resumes the page its window has; what it finds is what is there
\* when it looks.
LEMMA WhoResumes ==
  ASSUME TypeOK, [Next]_vars, NEW v \in Window, Resuming(v)'
  PROVE  /\ page'[v] = page[v] /\ owner'[v] = owner[v]
         /\ \/ /\ StartPage(v) /\ ~ Found(v)'
               /\ job'[v].key = page[v] /\ (job'[v].late <=> v \in left)
            \/ /\ Resuming(v) /\ job'[v].key = job[v].key /\ job'[v].late = job[v].late
               /\ Found(v)' => \/ Found(v) /\ job'[v].users = job[v].users
                               \/ /\ RowsOf(job[v].key) # {}
                                  /\ job'[v].users = {s.user : s \in RowsOf(job[v].key)}
<1> DEFINE Same == /\ page'[v] = page[v] /\ owner'[v] = owner[v] /\ Resuming(v)
                   /\ job'[v].key = job[v].key /\ job'[v].late = job[v].late
                   /\ Found(v)' => Found(v) /\ job'[v].users = job[v].users
<1> USE JobKinds DEF Resuming, Found
<1>1. ASSUME NEW w \in Window,
             \/ LoginFails(w) \/ ServePage(w) \/ Logout(w) \/ HandlerDies(w)
      PROVE  Same
  BY <1>1 DEF LoginFails, ServePage, Logout, HandlerDies, Finish, Idle, At, TypeOK
<1>2. ASSUME NEW w \in Window, StartLogin(w) \/ NextVal(w) \/ NextValFails(w) \/ SetVal(w) \/ SetValFails(w)
      PROVE  Same
  <2>1. job'[w].pc \in {"nextval", "setval", "insert"}
    <3>1. CASE StartLogin(w) \/ NextVal(w) \/ NextValFails(w)
      BY <3>1 DEF StartLogin, NextVal, NextValFails, TypeOK
    <3>2. CASE SetVal(w) \/ SetValFails(w)
      BY <3>2 DEF SetVal, SetValFails, Goto, At, TypeOK, Login
    <3>3. QED
      BY <1>2, <3>1, <3>2
  <2>2. page'[v] = page[v] /\ owner'[v] = owner[v] /\ job'[v] = job[v]
    BY <1>2, <2>1, Resuming(v)' DEF At, StartLogin, NextVal, NextValFails, SetVal,
       SetValFails, Goto, TypeOK
  <2>3. QED
    BY <2>2 DEF At
<1>3. ASSUME NEW w \in Window, InsertSession(w) PROVE Same
  <2>1. w # v
    BY <1>3 DEF InsertSession, Finish, Idle, At, TypeOK
  <2>2. page'[v] = page[v] /\ owner'[v] = owner[v] /\ job'[v] = job[v]
    BY <1>3, <2>1 DEF InsertSession, Finish, TypeOK
  <2>3. QED
    BY <2>2 DEF At
<1>4. ASSUME NEW w \in Window, NEW u \in Window, OpenWindow(w, u) PROVE Same
  <2>1. w # v
    BY <1>4 DEF OpenWindow, At
  <2>2. page'[v] = page[v] /\ owner'[v] = owner[v] /\ job'[v] = job[v]
    BY <1>4, <2>1 DEF OpenWindow, TypeOK
  <2>3. QED
    BY <2>2 DEF At
<1>5. ASSUME NEW w \in Window, ExtendSession(w) PROVE Same
  BY <1>5 DEF ExtendSession, Goto, At, TypeOK, Resume
<1>6. ASSUME Tick \/ UNCHANGED vars PROVE Same
  <2>1. page' = page /\ owner' = owner /\ job' = job
    BY <1>6 DEF Tick, vars
  <2>2. QED
    BY <2>1 DEF At
<1>7. ASSUME NEW w \in Window, StartPage(w), w # v PROVE Same
  BY <1>7 DEF StartPage, At, TypeOK
<1>8. ASSUME StartPage(v)
      PROVE  /\ page'[v] = page[v] /\ owner'[v] = owner[v] /\ ~ Found(v)'
             /\ job'[v].key = page[v] /\ (job'[v].late <=> v \in left)
  BY <1>8 DEF StartPage, At, TypeOK
<1>9. ASSUME NEW w \in Window, FetchSession(w), w # v PROVE Same
  <2>1. page'[v] = page[v] /\ owner'[v] = owner[v] /\ job'[v] = job[v]
    BY <1>9 DEF FetchSession, Finish, TypeOK
  <2>2. QED
    BY <2>1 DEF At
<1>10. ASSUME FetchSession(v)
       PROVE  /\ page'[v] = page[v] /\ owner'[v] = owner[v] /\ Resuming(v)
              /\ job'[v].key = job[v].key /\ job'[v].late = job[v].late
              /\ RowsOf(job[v].key) # {}
              /\ job'[v].users = {s.user : s \in RowsOf(job[v].key)}
  <2> DEFINE users == {s.user : s \in RowsOf(job[v].key)}
  <2>1. At(v, "fetch") /\ job[v] \in Resume
    BY <1>10 DEF FetchSession, At
  <2>2. RowsOf(job[v].key) # {}
    BY <1>10 DEF FetchSession, Finish, Idle, At, TypeOK
  <2>3. job' = [job EXCEPT ![v] = [[@ EXCEPT !.pc = "extend"] EXCEPT !.users = users]]
    BY <1>10, <2>2 DEF FetchSession, TypeOK
  <2> HIDE DEF users
  <2>4. /\ job'[v].key = job[v].key /\ job'[v].late = job[v].late
        /\ job'[v].users = users
    BY <2>1, <2>3 DEF TypeOK, Resume
  <2>5. page' = page /\ owner' = owner
    BY <1>10 DEF FetchSession
  <2>6. QED
    BY <2>1, <2>2, <2>4, <2>5 DEF users
<1> HIDE DEF Same
<1>11. \/ Same
       \/ StartPage(v)
       \/ FetchSession(v)
  BY <1>1, <1>2, <1>3, <1>4, <1>5, <1>6, <1>7, <1>9 DEF Next, Ask, Step
<1>12. QED
  BY <1>8, <1>10, <1>11 DEF Same
\* A session with a key of its own has one user, who logged in for every page
\* with that key.
LEMMA PagesStep ==
  ASSUME TypeOK, SeedsBounded, FreshSeeds, PagesOfUsers, PagesKeepTheirUser, [Next]_vars
  PROVE  PagesOfUsers' /\ PagesKeepTheirUser'
<1> SUFFICES ASSUME ~ recycled' PROVE PagesOfUsers' /\ PagesKeepTheirUser'
  BY DEF PagesOfUsers, PagesKeepTheirUser
<1>1. ~ recycled
  BY SeedGrows
<1>2. \A w \in Window :
        /\ Own(page[w]) => \A s \in sessions : s.key = page[w] => owner[w] = {s.user}
        /\ Resuming(w) => job[w].key = page[w]
        /\ Found(w) /\ Own(page[w]) => job[w].users = owner[w]
  BY <1>1 DEF PagesOfUsers, PagesKeepTheirUser, RowsOf
<1>3. ASSUME NEW w \in Window, Drawn(w), Own(job[w].seed)
      PROVE  /\ \A s \in sessions : s.key # job[w].seed
             /\ \A v \in Window : /\ page[v] # job[w].seed
                                  /\ v # w /\ Drawn(v) => job[v].seed # job[w].seed
  BY <1>1, <1>3 DEF FreshSeeds, RowsOf
<1>4. ASSUME NEW w \in Window, InsertSession(w) PROVE Drawn(w)
  BY <1>4 DEF InsertSession, Drawn
<1>5. ASSUME NEW w \in Window, Own(page'[w]), NEW t \in sessions', t.key = page'[w]
      PROVE  owner'[w] = {t.user}
  <2>1. CASE \E v \in Window : page'[w] = page[v] /\ owner'[w] = owner[v]
    <3>1. PICK v \in Window : page'[w] = page[v] /\ owner'[w] = owner[v]
      BY <2>1
    <3>2. CASE \E s \in sessions : s.key = t.key /\ s.user = t.user
      BY <1>2, <1>5, <3>1, <3>2
    <3>3. CASE \E u \in Window : Inserts(u, t)
      BY <1>3, <1>4, <1>5, <3>1, <3>3 DEF Inserts
    <3>4. QED
      BY <3>2, <3>3, SessionFate
  <2>2. CASE InsertSession(w) /\ page'[w] = job[w].seed
    <3>1. Drawn(w) /\ Own(job[w].seed)
      BY <1>4, <1>5, <2>2
    <3>2. CASE \E s \in sessions : s.key = t.key /\ s.user = t.user
      BY <1>3, <1>5, <2>2, <3>1, <3>2
    <3>3. CASE \E u \in Window : Inserts(u, t)
      <4>1. PICK u \in Window : Inserts(u, t)
        BY <3>3
      <4>2. Drawn(u) /\ job[u].seed = job[w].seed
        BY <1>4, <1>5, <2>2, <4>1 DEF Inserts
      <4>3. u = w
        BY <1>3, <3>1, <4>2
      <4>4. QED
        BY <4>1, <4>3 DEF Inserts
    <3>4. QED
      BY <3>2, <3>3, SessionFate
  <2>3. QED
    BY <2>1, <2>2, PageFate
<1>6. ASSUME NEW w \in Window, Resuming(w)' PROVE job'[w].key = page'[w]
  BY <1>2, <1>6, WhoResumes
<1>7. ASSUME NEW w \in Window, Found(w)', Own(page'[w]) PROVE job'[w].users = owner'[w]
  <2>1. Resuming(w)'
    BY <1>7 DEF Resuming
  <2>2. page'[w] = page[w] /\ owner'[w] = owner[w]
    BY <2>1, WhoResumes
  <2>3. \/ Found(w) /\ job'[w].users = job[w].users
        \/ /\ Resuming(w) /\ RowsOf(job[w].key) # {}
           /\ job'[w].users = {s.user : s \in RowsOf(job[w].key)}
    BY <1>7, <2>1, WhoResumes
  <2>4. CASE Found(w) /\ job'[w].users = job[w].users
    BY <1>2, <1>7, <2>2, <2>4
  <2>5. CASE /\ Resuming(w) /\ RowsOf(job[w].key) # {}
             /\ job'[w].users = {s.user : s \in RowsOf(job[w].key)}
    <3>1. \A s \in RowsOf(job[w].key) : owner[w] = {s.user}
      BY <1>2, <1>7, <2>2, <2>5 DEF RowsOf
    <3>2. QED
      BY <2>2, <2>5, <3>1
  <2>6. QED
    BY <2>3, <2>4, <2>5
<1>8. PagesOfUsers'
  BY <1>5, <1>6 DEF PagesOfUsers, RowsOf, Own
<1>9. PagesKeepTheirUser'
  BY <1>7 DEF PagesKeepTheirUser, Own
<1>10. QED
  BY <1>8, <1>9

\* Until the sequence is set back, what a handler finds for a page with a key
\* that was drawn is the user who logged in for it.
THEOREM PagesAreTheirUsers == Spec => []PagesKeepTheirUser
<1> DEFINE Inv == /\ TypeOK /\ SeedsBounded /\ KeysDrawn /\ FreshSeeds
                  /\ PagesOfUsers /\ PagesKeepTheirUser
<1>1. Init => Inv
  <2>1. Init => KeysDrawn /\ FreshSeeds
    BY DEF Init, KeysDrawn, FreshSeeds, Drawn, At, Idle
  <2>2. Init => PagesOfUsers /\ PagesKeepTheirUser
    BY DEF Init, PagesOfUsers, PagesKeepTheirUser, Resuming, Found, RowsOf, At, Idle
  <2>3. QED
    BY <2>1, <2>2, TypeInit
<1>2. Inv /\ [Next]_vars => Inv'
  BY TypeStep, SeedsStep, KeysStep, PagesStep
<1>3. QED
  BY <1>1, <1>2, PTL DEF Spec

-----------------------------------------------------------------------------
(* Logging out.                                                            *)

\* A window is left because it was, because it opened a page that was, or by
\* a logout from the session it shows.
LEMMA WhoIsLeft ==
  ASSUME TypeOK, [Next]_vars, NEW x \in Window, x \in left'
  PROVE  \/ \E u \in Window : u \in left /\ page'[x] = page[u]
         \/ \E w \in Window : Logout(w) /\ page'[x] = job[w].key
<1>1. ASSUME NEW w \in Window, InsertSession(w) PROVE x \in left /\ page'[x] = page[x]
  <2>1. CASE RowsOf(job[w].seed) = {}
    BY <1>1, <2>1 DEF InsertSession, TypeOK
  <2>2. CASE RowsOf(job[w].seed) # {}
    BY <1>1, <2>2 DEF InsertSession
  <2>3. QED
    BY <2>1, <2>2
<1>2. ASSUME NEW w \in Window, NEW u \in Window, OpenWindow(w, u)
      PROVE  \E v \in Window : v \in left /\ page'[x] = page[v]
  <2>1. page' = [page EXCEPT ![w] = page[u]]
    BY <1>2 DEF OpenWindow
  <2>2. CASE x = w
    BY <1>2, <2>1, <2>2 DEF OpenWindow, TypeOK
  <2>3. CASE x # w
    BY <1>2, <2>1, <2>3 DEF OpenWindow, TypeOK
  <2>4. QED
    BY <2>2, <2>3
<1>3. ASSUME NEW w \in Window, Logout(w)
      PROVE  page' = page /\ (x \in left \/ page[x] = job[w].key)
  BY <1>3 DEF Logout
<1>4. ASSUME NEW w \in Window,
             \/ StartLogin(w) \/ LoginFails(w) \/ NextVal(w) \/ NextValFails(w) \/ SetVal(w)
             \/ SetValFails(w) \/ StartPage(w) \/ FetchSession(w) \/ ExtendSession(w)
             \/ ServePage(w) \/ HandlerDies(w)
      PROVE  x \in left /\ page' = page
  BY <1>4 DEF StartLogin, LoginFails, NextVal, NextValFails, SetVal, SetValFails, StartPage,
     FetchSession, ExtendSession, ServePage, HandlerDies
<1>5. ASSUME Tick \/ UNCHANGED vars PROVE x \in left /\ page' = page
  BY <1>5 DEF Tick, vars
<1>6. QED
  BY <1>1, <1>2, <1>3, <1>4, <1>5 DEF Next, Ask, Step
\* The handlers that began before the logout can renew the session until it is
\* deleted, and none can bring it back: a new session has another key, or the
\* default.
LEMMA LeftStep ==
  ASSUME TypeOK, SeedsBounded, FreshSeeds, PagesOfUsers, LeftForGood, LogoutIsFinal,
         [Next]_vars
  PROVE  LeftForGood' /\ LogoutIsFinal'
<1> SUFFICES ASSUME ~ recycled' PROVE LeftForGood' /\ LogoutIsFinal'
  BY DEF LeftForGood, LogoutIsFinal
<1>1. ~ recycled
  BY SeedGrows
<1>2. \A w \in Window :
        /\ Own(page[w]) => /\ w \in left => RowsOf(page[w]) = {}
                           /\ Resuming(w) /\ job[w].late => RowsOf(page[w]) = {}
                           /\ Found(w) => ~ job[w].late
        /\ Resuming(w) => job[w].key = page[w]
  BY <1>1 DEF LeftForGood, LogoutIsFinal, PagesOfUsers
<1>3. ASSUME NEW w \in Window, InsertSession(w), Own(job[w].seed), NEW v \in Window
      PROVE  page[v] # job[w].seed
  BY <1>1, <1>3 DEF FreshSeeds, InsertSession, Drawn
<1>4. ASSUME NEW w \in Window, Own(page[w]), RowsOf(page[w]) = {}, NEW t \in sessions'
      PROVE  t.key # page[w]
  <2>1. CASE \E s \in sessions : s.key = t.key /\ s.user = t.user
    BY <1>4, <2>1 DEF RowsOf
  <2>2. CASE \E u \in Window : Inserts(u, t)
    BY <1>3, <1>4, <2>2 DEF Inserts
  <2>3. QED
    BY <2>1, <2>2, SessionFate
<1>5. ASSUME NEW w \in Window, w \in left', Own(page'[w]), NEW t \in sessions'
      PROVE  t.key # page'[w]
  <2>1. CASE \E u \in Window : u \in left /\ page'[w] = page[u]
    BY <1>2, <1>4, <1>5, <2>1
  <2>2. CASE \E u \in Window : Logout(u) /\ page'[w] = job[u].key
    BY <2>2 DEF Logout, RowsOf
  <2>3. QED
    BY <1>5, <2>1, <2>2, WhoIsLeft
<1>6. ASSUME NEW w \in Window, Resuming(w)', job'[w].late, Own(page'[w]), NEW t \in sessions'
      PROVE  t.key # page'[w]
  <2>1. page'[w] = page[w] /\ (w \in left \/ (Resuming(w) /\ job[w].late))
    BY <1>6, WhoResumes
  <2>2. RowsOf(page[w]) = {}
    BY <1>2, <1>6, <2>1
  <2>3. QED
    BY <1>4, <1>6, <2>1, <2>2
<1>7. ASSUME NEW w \in Window, Found(w)', Own(page'[w]) PROVE ~ job'[w].late
  <2>1. Resuming(w)'
    BY <1>7 DEF Resuming
  <2>2. /\ Resuming(w) /\ job'[w].late = job[w].late /\ page'[w] = page[w]
        /\ Found(w) \/ RowsOf(job[w].key) # {}
    BY <1>7, <2>1, WhoResumes
  <2>3. QED
    BY <1>2, <1>7, <2>2
<1>8. LeftForGood'
  BY <1>5, <1>6 DEF LeftForGood, RowsOf, Own
<1>9. LogoutIsFinal'
  BY <1>7 DEF LogoutIsFinal, Own
<1>10. QED
  BY <1>8, <1>9

\* Until the sequence is set back, a handler that begins after the logout from
\* its page, whose key was drawn, finds no session.
THEOREM LogoutsAreFinal == Spec => []LogoutIsFinal
<1> DEFINE Inv == /\ TypeOK /\ SeedsBounded /\ KeysDrawn /\ FreshSeeds
                  /\ PagesOfUsers /\ PagesKeepTheirUser /\ LeftForGood /\ LogoutIsFinal
<1>1. Init => Inv
  <2>1. Init => KeysDrawn /\ FreshSeeds
    BY DEF Init, KeysDrawn, FreshSeeds, Drawn, At, Idle
  <2>2. Init => PagesOfUsers /\ PagesKeepTheirUser
    BY DEF Init, PagesOfUsers, PagesKeepTheirUser, Resuming, Found, RowsOf, At, Idle
  <2>3. Init => LeftForGood /\ LogoutIsFinal
    BY DEF Init, LeftForGood, LogoutIsFinal, Resuming, Found, RowsOf, At, Idle
  <2>4. QED
    BY <2>1, <2>2, <2>3, TypeInit
<1>2. Inv /\ [Next]_vars => Inv'
  BY TypeStep, SeedsStep, KeysStep, PagesStep, LeftStep
<1>3. QED
  BY <1>1, <1>2, PTL DEF Spec

-----------------------------------------------------------------------------
(* Sessions that are not due.                                              *)

\* A session that is not due goes by a logout from a page of it only.
LEMMA LiveStep ==
  ASSUME TypeOK, [Next]_vars, NEW s \in sessions, s.ttl >= 0, RowsOf(s.key)' = {}
  PROVE  \E w \in Window : Logout(w) /\ job[w].key = s.key
<1>0. s \in Row
  BY DEF TypeOK
<1>1. \A t \in sessions' : t.key # s.key
  BY DEF RowsOf
<1>2. ASSUME NEW w \in Window, ExtendSession(w) PROVE FALSE
  <2>1. Renewed(s, job[w].key) \in sessions'
    BY <1>2 DEF ExtendSession
  <2>2. QED
    BY <1>0, <1>1, <2>1, RenewedRow
<1>3. ASSUME Tick PROVE FALSE
  <2>1. Aged(s) \in sessions'
    BY <1>3 DEF Tick
  <2>2. QED
    BY <1>0, <1>1, <2>1, AgedRow
<1>4. ASSUME NEW w \in Window, Logout(w) PROVE job[w].key = s.key
  BY <1>1, <1>4 DEF Logout, RowsOf
<1>5. ASSUME NEW w \in Window, InsertSession(w) PROVE FALSE
  BY <1>1, <1>5 DEF InsertSession
<1>6. ASSUME NEW w \in Window,
             \/ StartLogin(w) \/ LoginFails(w) \/ NextVal(w) \/ NextValFails(w) \/ SetVal(w)
             \/ SetValFails(w) \/ StartPage(w) \/ FetchSession(w) \/ ServePage(w)
             \/ HandlerDies(w)
      PROVE  FALSE
  BY <1>1, <1>6 DEF StartLogin, LoginFails, NextVal, NextValFails, SetVal, SetValFails,
     StartPage, FetchSession, ServePage, HandlerDies, DeleteOldSessions
<1>7. ASSUME NEW w \in Window, NEW u \in Window, OpenWindow(w, u) PROVE FALSE
  BY <1>1, <1>7 DEF OpenWindow
<1>8. ASSUME UNCHANGED vars PROVE FALSE
  BY <1>1, <1>8 DEF vars
<1>9. QED
  BY <1>2, <1>3, <1>4, <1>5, <1>6, <1>7, <1>8 DEF Next, Ask, Step

\* Other users' logins, pages and logouts, the clean-up every handler begins
\* with, and lost handlers leave a session alone until it is due.
THEOREM LiveSessionsAreKept == Spec => LiveSessionKept
<1>1. TypeOK /\ SeedsBounded /\ [Next]_vars => TypeOK' /\ SeedsBounded'
  BY TypeStep, SeedsStep
<1>2. TypeOK /\ [Next]_vars
      => [\A s \in sessions : s.ttl >= 0 /\ RowsOf(s.key)' = {}
            => \E w \in Window : Logout(w) /\ job[w].key = s.key]_vars
  BY LiveStep
<1>3. QED
  BY <1>1, <1>2, TypeInit, PTL DEF Spec, LiveSessionKept
===============================================================================
