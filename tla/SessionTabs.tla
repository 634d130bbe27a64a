----------------------------- MODULE SessionTabs -----------------------------
(***************************************************************************)
(* The browser tabs of one admin session                                   *)
(* (src/src/lib/session-lifecycle/controller.ts and its browser ports)     *)
(* and the server that prolongs it (api/auth/session, auth-integration.ts, *)
(* session-timing.ts).  Tabs ask for the session's status, touch it when   *)
(* used, tell each other of touches and ends, and go to the login page     *)
(* when they think it is over.  Answers and events travel independently.   *)
(* One tick of the clock is at least the throttle of a touch, so that      *)
(* throttling never matters; "active" and "warning" differ in display.     *)
(***************************************************************************)
EXTENDS Naturals

CONSTANTS
  Tab,       \* the tabs
  IdleTicks, \* ticks without a touch after which the session expires
  Lifetime,  \* ticks after which it expires anyway; bounds the clock
  MaxDelay   \* bound: ticks an answer may be on its way

ASSUME SessionConstants ==
  /\ IdleTicks \in Nat \ {0} /\ Lifetime \in Nat /\ IdleTicks <= Lifetime
  /\ MaxDelay \in Nat

VARIABLES
  clock,
  session,  \* when the session expires at the server; 0 when it is gone
  tab,      \* tab[t]: the controller's state, by whom its expiry was told
  asked,    \* asked[t]: t's status request
  touched,  \* touched[t]: t's touch request
  news,     \* events under way between tabs
  missed,   \* history: tabs that lost word of a touch
  excused   \* history: somebody signed out, or missed a touch and gave up

tabVars == <<clock, session, tab, asked, touched, news, missed, excused>>

Fresh == [until |-> 0, lag |-> 0, by |-> "NOBODY", left |-> FALSE, leaving |-> FALSE]
NoRequest == [phase |-> "NONE", until |-> 0, at |-> 0, latest |-> FALSE]

SessionsInit ==
  /\ clock = 0 /\ session = IdleTicks
  /\ tab = [t \in Tab |-> Fresh]
  /\ asked = [t \in Tab |-> NoRequest] /\ touched = [t \in Tab |-> NoRequest]
  /\ news = {} /\ missed = {} /\ excused = FALSE

-----------------------------------------------------------------------------
(* The server. *)

Honoured == clock < session

\* Mutant of Prolonged: the absolute lifetime is forgotten.
ProlongedForever == clock + IdleTicks

\* evaluateSessionTiming of a session touched now.
Prolonged == IF clock + IdleTicks < Lifetime THEN clock + IdleTicks ELSE Lifetime

\* What the server answers; an expiry of 0 is a refusal (401).
Answer(until) ==
  [phase |-> "ANSWERED", until |-> IF Honoured THEN until ELSE 0, at |-> clock,
   latest |-> TRUE]

\* The sign-out request of t arrives.  Staff who revoke the session do the same
\* to the other tabs.
ServeSignOut(t) ==
  /\ tab[t].leaving
  /\ session' = 0
  /\ tab' = [tab EXCEPT ![t].leaving = FALSE]
  /\ UNCHANGED <<clock, asked, touched, news, missed, excused>>

Advance ==
  /\ clock < Lifetime
  /\ \A t \in Tab : \A answer \in {asked[t], touched[t]} :
       answer.phase = "ANSWERED" => clock < answer.at + MaxDelay
  /\ clock' = clock + 1
  /\ UNCHANGED <<session, tab, asked, touched, news, missed, excused>>

-----------------------------------------------------------------------------
(* A tab's controller. *)

\* A tab learns the session's id from its first answer; before, it neither
\* tells nor hears.
Knows(t) == tab[t].by # "NOBODY"

TellOthers(t, type, until) ==
  {[to |-> u, type |-> type, until |-> until] : u \in IF Knows(t) THEN Tab \ {t} ELSE {}}

\* transitionTerminal, told to the others: the tab goes to the login page, and
\* its controller with all it waits for is disposed of.  Bookkeeping: an end by
\* expiry is excused when word of a touch is lost or still under way.
Unheard(t) ==
  \/ t \in missed
  \/ \E u \in Tab : touched[u].phase = "ANSWERED" /\ touched[u].until > tab[t].until
  \/ \E e \in news : e.to = t /\ e.type = "TOUCHED" /\ e.until > tab[t].until

Leaves(t, events, leaving) ==
  /\ tab' = [tab EXCEPT ![t] = [Fresh EXCEPT !.left = TRUE, !.leaving = leaving]]
  /\ asked' = [asked EXCEPT ![t] = NoRequest]
  /\ touched' = [touched EXCEPT ![t] = NoRequest]
  /\ missed' = IF touched[t].phase = "ANSWERED" THEN Tab ELSE missed
  /\ news' = {e \in events : e.to # t}

\* commitSnapshot: the server validated the session before it answered, so
\* the answer never says "expired".
Commits(t, answer) ==
  tab' = [tab EXCEPT ![t].until = answer.until, ![t].lag = clock - answer.at,
                     ![t].by = "ANSWER"]

RefreshStatus(t) ==
  /\ ~tab[t].left /\ touched[t].phase = "NONE" /\ asked[t].phase = "NONE"
  /\ asked' = [asked EXCEPT ![t] = Answer(session)]
  /\ UNCHANGED <<clock, session, tab, touched, news, missed, excused>>

\* Mutant of AfterTouch: status answers under way stay the latest.
AfterTouchLatest(request) == request

AfterTouch(request) == [request EXCEPT !.latest = FALSE]

\* handleActivity and extendSession; touchBetterAuthSession revives nothing.
TouchSession(t) ==
  /\ Knows(t) /\ touched[t].phase = "NONE"
  /\ touched' = [touched EXCEPT ![t] = Answer(Prolonged)]
  /\ asked' = [asked EXCEPT ![t] = AfterTouch(@)]
  /\ session' = IF Honoured THEN Prolonged ELSE session
  /\ UNCHANGED <<clock, tab, news, missed, excused>>

\* handleTransportError: a refusal ends the tab whatever the request's turn.
Refused(t) ==
  /\ \E request \in {asked[t], touched[t]} : request.phase = "ANSWERED" /\ request.until = 0
  /\ Leaves(t, news \cup TellOthers(t, "REVOKED", 0), FALSE)
  /\ UNCHANGED <<clock, session, excused>>

\* A status counts only while no touch is pending and none was made since.
ReceiveStatus(t) ==
  LET answer == asked[t] IN
  /\ answer.phase = "ANSWERED" /\ answer.until > 0
  /\ asked' = [asked EXCEPT ![t] = NoRequest]
  /\ IF answer.latest /\ touched[t].phase = "NONE"
       THEN /\ Commits(t, answer)
            /\ missed' = IF tab[t].by = "EVENT" /\ answer.until < tab[t].until
                           THEN missed \cup {t} ELSE missed
       ELSE UNCHANGED <<tab, missed>>
  /\ UNCHANGED <<clock, session, touched, news, excused>>

\* The answer to a touch is passed on to the other tabs.
ReceiveTouch(t) ==
  LET answer == touched[t] IN
  /\ answer.phase = "ANSWERED" /\ answer.until > 0
  /\ touched' = [touched EXCEPT ![t] = NoRequest]
  /\ Commits(t, answer)
  /\ news' = news \cup TellOthers(t, "TOUCHED", answer.until)
  /\ UNCHANGED <<clock, session, asked, missed, excused>>

\* The network eats an answer, or the request: an error without a status
\* changes nothing.
StatusLost(t) ==
  /\ asked[t].phase = "ANSWERED"
  /\ asked' = [asked EXCEPT ![t] = NoRequest]
  /\ UNCHANGED <<clock, session, tab, touched, news, missed, excused>>

TouchLost(t) ==
  /\ touched[t].phase = "ANSWERED"
  /\ touched' = [touched EXCEPT ![t] = NoRequest]
  /\ missed' = Tab
  /\ UNCHANGED <<clock, session, tab, asked, news, excused>>

\* The controller's timer runs once it knows the session, by the server's
\* clock as the last answer told it.
TabTime(t) == clock - tab[t].lag

Tick(t) ==
  /\ Knows(t) /\ tab[t].until <= TabTime(t)
  /\ Leaves(t, news \cup TellOthers(t, "REVOKED", 0), FALSE)
  /\ excused' = (excused \/ Unheard(t))
  /\ UNCHANGED <<clock, session>>

SignOut(t) ==
  /\ ~tab[t].left
  /\ Leaves(t, news \cup TellOthers(t, "REVOKED", 0), TRUE)
  /\ excused' = TRUE
  /\ UNCHANGED <<clock, session>>

\* handleSyncEvent.  A touch extends what the tab shows, and never shortens it.
HearRevoked(e) ==
  /\ e.type = "REVOKED" /\ Knows(e.to)
  /\ Leaves(e.to, news, FALSE)
  /\ UNCHANGED <<clock, session, excused>>

HearTouched(e) ==
  LET t == e.to IN
  /\ e.type = "TOUCHED" /\ Knows(t) /\ e.until > tab[t].until
  /\ \/ /\ e.until <= TabTime(t)
        /\ Leaves(t, news \cup TellOthers(t, "REVOKED", 0), FALSE)
        /\ excused' = (excused \/ Unheard(t))
     \/ /\ e.until > TabTime(t)
        /\ tab' = [tab EXCEPT ![t].until = e.until, ![t].by = "EVENT"]
        /\ news' = news \ {e}
        /\ UNCHANGED <<asked, touched, missed, excused>>
  /\ UNCHANGED <<clock, session>>

HearNothing(e) ==
  /\ ~Knows(e.to) \/ (e.type = "TOUCHED" /\ e.until <= tab[e.to].until)
  /\ news' = news \ {e}
  /\ missed' = IF ~Knows(e.to) /\ e.type = "TOUCHED" THEN missed \cup {e.to} ELSE missed
  /\ UNCHANGED <<clock, session, tab, asked, touched, excused>>

\* Another admin page replaces the controller: answers on the way to the old
\* one are not heard.
Remount(t) ==
  /\ ~tab[t].left
  /\ tab' = [tab EXCEPT ![t] = Fresh]
  /\ asked' = [asked EXCEPT ![t] = NoRequest]
  /\ touched' = [touched EXCEPT ![t] = NoRequest]
  /\ missed' = IF touched[t].phase = "ANSWERED" THEN Tab ELSE missed \ {t}
  /\ UNCHANGED <<clock, session, news, excused>>

SessionsNext ==
  \/ \E t \in Tab :
       \/ ServeSignOut(t)
       \/ RefreshStatus(t) \/ TouchSession(t) \/ SignOut(t) \/ Tick(t)
       \/ ReceiveStatus(t) \/ ReceiveTouch(t) \/ Refused(t)
       \/ StatusLost(t) \/ TouchLost(t) \/ Remount(t)
  \/ \E e \in news : HearRevoked(e) \/ HearTouched(e) \/ HearNothing(e)
  \/ Advance

SessionsSpec == SessionsInit /\ [][SessionsNext]_tabVars
-----------------------------------------------------------------------------
Expiries == 0..Lifetime
Request == [phase : {"NONE", "ANSWERED"}, until : Expiries, at : Expiries,
            latest : BOOLEAN]

SessionsTypeOK ==
  /\ clock \in 0..Lifetime /\ session \in Expiries
  /\ tab \in [Tab -> [until : Expiries, lag : Expiries,
                      by : {"NOBODY", "ANSWER", "EVENT"},
                      left : BOOLEAN, leaving : BOOLEAN]]
  /\ asked \in [Tab -> Request] /\ touched \in [Tab -> Request]
  /\ news \subseteq [to : Tab, type : {"TOUCHED", "REVOKED"}, until : Expiries]
  /\ missed \subseteq Tab /\ excused \in BOOLEAN

\* No tab says goodbye too early: while the server honours the session a tab
\* has gone to the login page only when somebody signed out, or when the tab
\* that began it had missed a touch of another one, or was about to hear it.
NoEarlyGoodbye ==
  (\E t \in Tab : tab[t].left) /\ Honoured => excused
=============================================================================
