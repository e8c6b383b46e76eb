------------------------------- MODULE Sessions -------------------------------
(***************************************************************************)
(* Logging in, the session of every later page, and logging out, by the    *)
(* Apache children that serve the windows.  As in Checkout an action is    *)
(* one SQL statement of a handler, and handlers interleave freely.         *)
(*                                                                         *)
(* The key of a session is a digest of rand() after srand(seed), a         *)
(* function of the seed: the seed stands for it.  That two seeds never     *)
(* give one key is an assumption about rand() and the digest, which        *)
(* neither promises.  A page carries its key in the hidden field sid; 0 is *)
(* the login page, which has none.                                         *)
(***************************************************************************)
EXTENDS Integers, FiniteSets

CONSTANTS
  User,         \* user_oids
  Window,       \* browser windows; one handler at a time serves a window
  SeedMax,      \* 32000: the seed after which the sequence is set back
  SeedDefault,  \* 1357: the seed of a login that could not draw one
  MissedMax,    \* how often the sequence is not set back when due (a bound)
  SessionTime,  \* SESSION_TIME, in ticks of the clock
  MayDie        \* whether a child may be lost between two statements

ASSUME SessionsAssumption ==
  /\ IsFiniteSet(Window)
  /\ SeedMax \in Nat
  /\ SeedDefault \in 1 .. SeedMax
  /\ MissedMax \in Nat
  /\ SessionTime \in Nat
  /\ MayDie \in BOOLEAN

VARIABLES
  seed,      \* the last value of seed_seq, 0 before the first nextval
  sessions,  \* table session
  page,      \* the key on the page of each window, by Back if need be
  job,       \* the handler at work for each window
  owner,     \* history variable: who logged in for the page of each window, as
             \* a set, empty for the login page
  left,      \* history variable: windows whose session was ended by a logout
  recycled,  \* history variable: whether the sequence was ever set back
  missed     \* history variable: how often it was due and was not

vars == <<seed, sessions, page, job, owner, left, recycled, missed>>

-----------------------------------------------------------------------------
\* A child that draws a seed above SeedMax sets the sequence back before it
\* ends, unless that fails: only so many seeds lie above.
Seed == 0 .. SeedMax + Cardinality(Window) + MissedMax
Row == [key : Seed, user : User, ttl : -1 .. SessionTime]

Idle == [pc |-> "idle"]
Login == [pc : {"nextval", "setval", "insert"}, seed : Seed]

\* late: the handler began after the session of its page was ended by logout.
Resume == [pc : {"fetch", "extend", "serve"}, key : Seed,
           users : SUBSET User, late : BOOLEAN]

At(w, pc) == job[w].pc = pc
Goto(w, pc) == job' = [job EXCEPT ![w].pc = pc]
Finish(w) == job' = [job EXCEPT ![w] = Idle]

RowsOf(key) == {s \in sessions : s.key = key}

Renewed(s, key) == IF s.key = key THEN [s EXCEPT !.ttl = SessionTime] ELSE s

Aged(s) == IF s.ttl >= 0 THEN [s EXCEPT !.ttl = s.ttl - 1] ELSE s

TypeOK ==
  /\ seed \in Seed
  /\ sessions \subseteq Row
  /\ page \in [Window -> Seed]
  /\ job \in [Window -> {Idle} \cup Login \cup Resume]
  /\ owner \in [Window -> SUBSET User]
  /\ left \subseteq Window
  /\ recycled \in BOOLEAN
  /\ missed \in 0 .. MissedMax

Init ==
  /\ seed = 0
  /\ sessions = {}
  /\ page = [w \in Window |-> 0]
  /\ job = [w \in Window |-> Idle]
  /\ owner = [w \in Window |-> {}]
  /\ left = {}
  /\ recycled = FALSE
  /\ missed = 0

-----------------------------------------------------------------------------
(* A POST without a sid: logging in, and db_new_session.                   *)

KeepUndue == sessions' = {s \in sessions : s.ttl > 0}

\* delete from session where expiration < now(): what every handler begins
\* with.
DeleteOldSessions == sessions' = {s \in sessions : s.ttl >= 0}

StartLogin(w) ==
  /\ At(w, "idle")
  /\ DeleteOldSessions
  /\ job' = [job EXCEPT ![w] = [pc |-> "nextval", seed |-> 0]]
  /\ UNCHANGED <<seed, page, owner, left, recycled, missed>>

\* Declined, or no user has this account and password.
LoginFails(w) ==
  /\ At(w, "nextval")
  /\ Finish(w)
  /\ UNCHANGED <<seed, sessions, page, owner, left, recycled, missed>>

CurrVal(w) ==
  /\ At(w, "nextval")
  /\ seed' = IF seed = 0 THEN 1 ELSE seed
  /\ job' = [job EXCEPT ![w] = [pc |-> "insert", seed |-> seed']]
  /\ UNCHANGED <<sessions, page, owner, left, recycled, missed>>

NextVal(w) ==
  /\ At(w, "nextval")
  /\ seed' = seed + 1
  /\ job' = [job EXCEPT ![w] = [pc |-> IF seed' > SeedMax THEN "setval" ELSE "insert",
                                seed |-> seed']]
  /\ UNCHANGED <<sessions, page, owner, left, recycled, missed>>

SetNothing(w) ==
  /\ At(w, "setval")
  /\ recycled' = TRUE
  /\ Goto(w, "insert")
  /\ UNCHANGED <<seed, sessions, page, owner, left, missed>>

\* fetch_str of the nextval has nothing to give: the login goes on with the
\* seed it was preset to, which others may have drawn or fallen back on.
NextValFails(w) ==
  /\ At(w, "nextval")
  /\ job' = [job EXCEPT ![w] = [pc |-> "insert", seed |-> SeedDefault]]
  /\ UNCHANGED <<seed, sessions, page, owner, left, recycled, missed>>

\* The next nextval yields 2, whatever others drew meanwhile.
SetVal(w) ==
  /\ At(w, "setval")
  /\ seed' = 1
  /\ recycled' = TRUE
  /\ Goto(w, "insert")
  /\ UNCHANGED <<sessions, page, owner, left, missed>>

\* The result of the setval is not used: the login goes on with its seed and
\* the sequence runs on, to be set back by the next one who draws from it.
SetValFails(w) ==
  /\ At(w, "setval")
  /\ missed < MissedMax
  /\ missed' = missed + 1
  /\ Goto(w, "insert")
  /\ UNCHANGED <<seed, sessions, page, owner, left, recycled>>

NewSession(key, u) == [key |-> key, user |-> u, ttl |-> SessionTime]

\* Whoever's account and password it was gets the session.
\* session_key is the primary key: with one like it there, expired or not,
\* the page is "main switch, database failed to create new session".
InsertSession(w) ==
  /\ At(w, "insert")
  /\ IF RowsOf(job[w].seed) = {}
     THEN \E u \in User :
            /\ sessions' = sessions \cup {NewSession(job[w].seed, u)}
            /\ page' = [page EXCEPT ![w] = job[w].seed]
            /\ owner' = [owner EXCEPT ![w] = {u}]
            /\ left' = left \ {w}
     ELSE UNCHANGED <<sessions, page, owner, left>>
  /\ Finish(w)
  /\ UNCHANGED <<seed, recycled, missed>>

-----------------------------------------------------------------------------
(* A POST with a sid.                                                      *)

\* A second window on the page of another one.
OpenWindow(w, v) ==
  /\ At(w, "idle")
  /\ w # v /\ page[v] # 0
  /\ page' = [page EXCEPT ![w] = page[v]]
  /\ owner' = [owner EXCEPT ![w] = owner[v]]
  /\ left' = IF v \in left THEN left \cup {w} ELSE left \ {w}
  /\ UNCHANGED <<seed, sessions, job, recycled, missed>>

StartPage(w) ==
  /\ At(w, "idle")
  /\ page[w] # 0
  /\ DeleteOldSessions
  /\ job' = [job EXCEPT ![w] = [pc |-> "fetch", key |-> page[w], users |-> {},
                                late |-> w \in left]]
  /\ UNCHANGED <<seed, page, owner, left, recycled, missed>>

\* Without a row, "Your session timed out".
FetchSession(w) ==
  /\ At(w, "fetch")
  /\ LET rows == RowsOf(job[w].key) IN
       IF rows = {} THEN Finish(w)
       ELSE job' = [job EXCEPT ![w].pc = "extend", ![w].users = {s.user : s \in rows}]
  /\ UNCHANGED <<seed, sessions, page, owner, left, recycled, missed>>

ExtendOrRestore(w) ==
  /\ At(w, "extend")
  /\ sessions' = (sessions \ RowsOf(job[w].key))
                   \cup {[key |-> job[w].key, user |-> u, ttl |-> SessionTime] : u \in job[w].users}
  /\ Goto(w, "serve")
  /\ UNCHANGED <<seed, page, owner, left, recycled, missed>>

\* The UPDATE renews the row if it is still there; its result is not used.
ExtendSession(w) ==
  /\ At(w, "extend")
  /\ sessions' = {Renewed(s, job[w].key) : s \in sessions}
  /\ Goto(w, "serve")
  /\ UNCHANGED <<seed, page, owner, left, recycled, missed>>

\* Any other formaction: what its handler does to the tables is not modelled
\* here.
ServePage(w) ==
  /\ At(w, "serve")
  /\ Finish(w)
  /\ UNCHANGED <<seed, sessions, page, owner, left, recycled, missed>>

\* A_LOGOUT: db_delete_session.  The page that comes has no sid; the one
\* before it can still be submitted, here and in other windows.
Logout(w) ==
  /\ At(w, "serve")
  /\ sessions' = sessions \ RowsOf(job[w].key)
  /\ left' = left \cup {v \in Window : page[v] = job[w].key}
  /\ Finish(w)
  /\ UNCHANGED <<seed, page, owner, recycled, missed>>

-----------------------------------------------------------------------------
Tick ==
  /\ \E s \in sessions : s.ttl >= 0
  /\ sessions' = {Aged(s) : s \in sessions}
  /\ UNCHANGED <<seed, page, job, owner, left, recycled, missed>>

\* The child or its connection is lost; what is done stays done.
HandlerDies(w) ==
  /\ MayDie
  /\ ~ At(w, "idle")
  /\ IF At(w, "setval") THEN missed < MissedMax /\ missed' = missed + 1
                       ELSE UNCHANGED missed
  /\ Finish(w)
  /\ UNCHANGED <<seed, sessions, page, owner, left, recycled>>

Step(w) ==
  \/ LoginFails(w)
  \/ NextVal(w)
  \/ NextValFails(w)
  \/ SetVal(w)
  \/ SetValFails(w)
  \/ InsertSession(w)
  \/ FetchSession(w)
  \/ ExtendSession(w)
  \/ ServePage(w)
  \/ Logout(w)

Ask(w) ==
  \/ StartLogin(w)
  \/ StartPage(w)
  \/ \E v \in Window : OpenWindow(w, v)

Next ==
  \/ \E w \in Window : Ask(w) \/ Step(w) \/ HandlerDies(w)
  \/ Tick

Spec == Init /\ [][Next]_vars

-----------------------------------------------------------------------------
(* What a session is for.                                                  *)

Drawn(w) == At(w, "setval") \/ At(w, "insert")
Found(w) == At(w, "extend") \/ At(w, "serve")
Resuming(w) == At(w, "fetch") \/ Found(w)

\* A key that was drawn for one login; every login whose nextval failed gets
\* the same other one.
Own(key) == key # SeedDefault

\* Strengthenings, for induction: only windows about to set the sequence back
\* take it above SeedMax, but for those that missed it; every key in use was
\* drawn or is the default; a handler works for the page of its window, whose
\* session is its user's; and the page of a window that was logged out has no
\* session.
SeedsBounded ==
  seed <= SeedMax + Cardinality({w \in Window : At(w, "setval")}) + missed

KeysDrawn ==
  ~ recycled =>
    /\ \A s \in sessions : Own(s.key) => s.key <= seed
    /\ \A w \in Window : /\ Own(page[w]) => page[w] <= seed
                         /\ Drawn(w) /\ Own(job[w].seed)
                              => 0 < job[w].seed /\ job[w].seed <= seed

PagesOfUsers ==
  ~ recycled => \A w \in Window :
    /\ Own(page[w]) => \A s \in RowsOf(page[w]) : owner[w] = {s.user}
    /\ Resuming(w) => job[w].key = page[w]

LeftForGood ==
  ~ recycled => \A w \in Window : Own(page[w]) =>
    /\ w \in left => RowsOf(page[w]) = {}
    /\ Resuming(w) /\ job[w].late => RowsOf(page[w]) = {}

\* Until the sequence is set back a seed is drawn once: the handlers that are
\* about to insert a session with a seed they drew have one of their own, which
\* no session and no page has had, however many logins failed to draw one.
FreshSeeds ==
  ~ recycled => \A w \in Window : Drawn(w) /\ Own(job[w].seed) =>
    /\ RowsOf(job[w].seed) = {}
    /\ \A v \in Window : /\ page[v] # job[w].seed
                         /\ v # w /\ Drawn(v) => job[v].seed # job[w].seed

\* A page with a key that was drawn is served for the user who logged in for
\* it, however old it is and whoever logged in since, until the sequence is
\* set back.  A page with the default key may be served for anybody who has
\* logged in with that key since.
PagesKeepTheirUser ==
  ~ recycled => \A w \in Window :
    Found(w) /\ Own(page[w]) => job[w].users = owner[w]

\* A handler that begins after the user logged out finds no session, although
\* handlers of other windows may renew it while it is being deleted; but for
\* pages with the default key, which any later login may bring back.
LogoutIsFinal ==
  ~ recycled => \A w \in Window : Found(w) /\ Own(page[w]) => ~ job[w].late

\* A session whose time has not come is ended by a logout from a page of it,
\* and by nothing else.
LiveSessionKept ==
  [][\A s \in sessions :
       s.ttl >= 0 /\ RowsOf(s.key)' = {}
         => \E w \in Window : Logout(w) /\ job[w].key = s.key]_vars
===============================================================================
